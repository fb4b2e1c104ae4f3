----------------------------- MODULE MCRegistry -----------------------------
(* Builds, registries and disks for Registry.

   Directory 1 holds builds of plugin "a", 2 the Lua plugin "b" that requires
   it, 3 the WASM plugin "w" that requires it too. *)
EXTENDS Registry, TLC

MCDir == 1 .. 3
MCBaseName == 1 :> "a" @@ 2 :> "b" @@ 3 :> "w"

Lua(name, requires, sig, bytes) ==
    [readable |-> TRUE, name |-> name, type |-> "Lua", requires |-> requires,
     wants |-> {}, needs |-> {}, asks |-> {}, exports |-> TRUE, version |-> 1,
     sig |-> sig, entry |-> "init", files |-> "init" :> bytes]

\* a2 is another signer's build; a3 has the code of a1 and asks for more; a0
\* does not parse; an unsigned b and w require a.
MCInfo ==
    "a1" :> Lua("a", {}, "alice", "x1")
    @@ "a2" :> [Lua("a", {}, "bob", "x2") EXCEPT !.needs = {"net"}]
    @@ "a3" :> [Lua("a", {}, "alice", "x1") EXCEPT !.asks = {"net"}]
    @@ "a0" :> [Lua("a", {}, "bad", "x1") EXCEPT !.readable = FALSE]
    @@ "b1" :> Lua("b", {"a"}, "alice", "x1")
    @@ "w1" :> [Lua("w", {"a"}, "missing", "x2") EXCEPT !.type = "Wasm"]

MCBuild == DOMAIN MCInfo
MCPolicy == "alice" :> {"net"} @@ "bob" :> {} @@ "unsigned" :> {}

MCIssuerOf == "alice" :> "ca" @@ "bob" :> "other" @@ "unsigned" :> "nobody"

NoRevocations == [digests |-> {}, signers |-> {}]
MCLists == {NoRevocations, [NoRevocations EXCEPT !.digests = {"a1"}],
            [NoRevocations EXCEPT !.signers = {"alice"}]}

Open == [verifier |-> FALSE, required |-> FALSE, lockfile |-> NoLock,
         runtimes |-> Type, silent |-> {}, revocations |-> NoRevocations]

Pin(build) == [digest |-> build, signer |-> AnyPin, issuer |-> AnyPin,
               version |-> AnyPin]

Pinned == [Open EXCEPT !.verifier = TRUE,
             !.lockfile = "a" :> [Pin("a1") EXCEPT !.signer = "alice"]
                          @@ "b" :> [Pin("b1") EXCEPT !.issuer = "ca"] @@ "w" :> [Pin("w1") EXCEPT !.version = 1]]

Strict == [Open EXCEPT !.verifier = TRUE, !.required = TRUE]

Quiet == [Open EXCEPT !.silent = {"Wasm"}]

LuaOnly == [Open EXCEPT !.runtimes = {"Lua"},
              !.revocations = [NoRevocations EXCEPT !.digests = {"a2"}]]

MCTrust == {Pinned, Strict}
MCConfigs == MCTrust \cup {Quiet, LuaOnly}

MCDisks == {1 :> a @@ 2 :> "b1" @@ 3 :> "w1" : a \in {"a1", "a0"}}

MCEdits == {1} \X {"a1", "a2", "a3", NoDir} \cup {<<3, "a1">>}
=============================================================================
