------------------------------ MODULE Registry ------------------------------
(***************************************************************************)
(* The plugin registry of stanchion-registry (crates/stanchion-registry/    *)
(* src/lib.rs): load_dir, reload, remove, apply_revocations and revoke, one *)
(* action per read of the disk or call into a backend, so that the plugin   *)
(* directories can change between any two of them.  A directory holds one   *)
(* `Build`, which stands for all its files; the digest of a directory is    *)
(* the build it was taken of.                                               *)
(*                                                                         *)
(* The order plugins load in is the contract of module LoadOrder.           *)
(***************************************************************************)
EXTENDS Integers, Sequences, FiniteSets, Functions, LoadOrder

CONSTANTS
    Dir, Name, Build, Identity, Capability, Content,
    Info,       \* what the files of each build say
    BaseName,   \* the last path component of each directory
    NoDir,      \* the directory does not exist
    NoDigest,   \* nothing asked for a digest
    Unsigned,   \* no verified signer
    NoLock,     \* the registry was given no lockfile
    AnyPin,        \* a pin that does not constrain this field
    IssuerOf,   \* who vouches for each signer, if anybody
    Policy,     \* the capabilities host and policy give to each signer
    Configs,    \* the registries the host may build
    Lists,      \* the revocation lists it may apply later
    Disks,      \* what the plugin root may hold at first
    Edits,      \* <<d, b>>: the directory changes that may happen
    MaxEdits    \* how many of them do: the bound on `edits`

Type == {"Lua", "Wasm"}

ASSUME BuildAssumption ==
    /\ \A b \in Build :
         /\ Info[b].readable \in BOOLEAN
         /\ Info[b].name \in Name
         /\ Info[b].type \in Type
         /\ Info[b].requires \subseteq Name /\ Info[b].wants \subseteq Name
         /\ Info[b].needs \subseteq Capability
         /\ Info[b].asks \subseteq Capability
         /\ Info[b].sig \in Identity \cup {"missing", "bad"}
         /\ \A f \in DOMAIN Info[b].files : Info[b].files[f] \in Content
    /\ NoDir \notin Build /\ NoDigest \notin Build
    /\ Unsigned \notin Identity
ASSUME DirAssumption == Dir \subseteq Nat /\ IsFiniteSet(Dir)
ASSUME BoundAssumption == MaxEdits \in Nat
ASSUME ListAssumption ==
    Lists \subseteq [digests : SUBSET Build, signers : SUBSET Identity]
ASSUME ConfigAssumption ==
    \A c \in Configs : c.revocations \in [digests : SUBSET Build, signers : SUBSET Identity]
ASSUME DiskAssumption ==
    /\ Disks \subseteq [Dir -> Build \cup {NoDir}]
    /\ Edits \subseteq Dir \X (Build \cup {NoDir})
ASSUME PolicyAssumption == Policy \in [Identity \cup {Unsigned} -> SUBSET Capability]
ASSUME BaseNameAssumption == BaseName \in [Dir -> Name]

VARIABLES
    config,      \* verifier, required, lockfile, runtimes, silent: fixed at build time
    disk,        \* [Dir -> Build \cup {NoDir}]
    edits,       \* directory changes so far
    plugins,     \* Vec<LoadedPlugin>
    index,       \* name -> position in plugins
    revocations, \* the list in force
    surfaces,    \* names whose exports the Lua backend publishes
    phase,       \* where the running call is
    todo,        \* load_dir: ordered manifests still to verify
    current,     \* the manifest being verified or reloaded
    ready,       \* load_dir: verified items
    handled,     \* load_dir: positions of `ready` a backend has answered for
    failed,      \* load_dir: failed names
    failures,    \* load_dir: its report
    loaded,      \* load_dir: its report
    seen,        \* load_dir: what it found under the root
    purge        \* apply_revocations: names still to remove

host == <<config, disk, edits>>
book == <<plugins, index, revocations, surfaces>>
load == <<todo, ready, handled, failed, failures, loaded, seen>>
vars == <<host, book, phase, load, current, purge>>

NoManifest == [dir |-> NoDir, build |-> NoDir]

NameOf(m) == Info[m.build].name
TypeOf(m) == Info[m.build].type
RequiredBy(m) == Info[m.build].requires

PluginNames == {NameOf(plugins[i]) : i \in DOMAIN plugins}

Failure(m, why) == [dir |-> m.dir, name |-> NameOf(m), reason |-> why]

-----------------------------------------------------------------------------
(* verify_plugin, bind_entry, approve_capabilities *)

Denies(list, digest, signer) == digest \in list.digests \/ signer \in list.signers

ListIsEmpty(list) == list.digests = {} /\ list.signers = {}

WantsDigest == config.verifier \/ config.lockfile # NoLock \/ ~ListIsEmpty(revocations)

\* The directory as the digest and the signature are read.
DigestAt(d) == IF WantsDigest THEN disk[d] ELSE NoDigest

SignerAt(d) ==
    IF config.verifier /\ Info[disk[d]].sig \in Identity THEN Info[disk[d]].sig
    ELSE Unsigned

SignatureRefused(d) ==
    IF config.verifier
    THEN Info[disk[d]].sig = "bad" \/ (Info[disk[d]].sig = "missing" /\ config.required)
    ELSE config.required

\* Fault: the lockfile is consulted for names and signers only.
LockIgnoresDigest(m, digest, signer) ==
    /\ config.lockfile # NoLock
    /\ \/ NameOf(m) \notin DOMAIN config.lockfile
       \/ config.lockfile[NameOf(m)].signer \notin {AnyPin, signer}

\* Lockfile::check: digest, then signer, issuer and version.
LockRefuses(m, digest, signer) ==
    /\ config.lockfile # NoLock
    /\ \/ NameOf(m) \notin DOMAIN config.lockfile
       \/ LET pin == config.lockfile[NameOf(m)]
          IN  \/ pin.digest # digest
              \/ pin.signer \notin {AnyPin, signer}
              \/ pin.issuer \notin {AnyPin, IssuerOf[signer]}
              \/ pin.version \notin {AnyPin, Info[m.build].version}

VerifyRefuses(m) ==
    \/ WantsDigest /\ disk[m.dir] = NoDir
    \/ /\ ~(WantsDigest /\ disk[m.dir] = NoDir)
       /\ \/ SignatureRefused(m.dir)
          \/ Denies(revocations, DigestAt(m.dir), SignerAt(m.dir))
          \/ LockRefuses(m, DigestAt(m.dir), SignerAt(m.dir))

\* The entry the manifest names, as read from the directory now.
EntryExists(m) ==
    /\ disk[m.dir] # NoDir
    /\ Info[m.build].entry \in DOMAIN Info[disk[m.dir]].files

EntryAt(m) == Info[disk[m.dir]].files[Info[m.build].entry]

\* Fault: that the digest covers the entry is taken for a match.
BoundByName(m, digest, bytes) ==
    digest # NoDigest => Info[m.build].entry \in DOMAIN Info[digest].files

\* bind_entry: without a digest there is nothing to compare with.
Bound(m, digest, bytes) ==
    digest # NoDigest =>
      /\ Info[m.build].entry \in DOMAIN Info[digest].files
      /\ Info[digest].files[Info[m.build].entry] = bytes

\* approve_capabilities: a capability the manifest needs and is not given
\* refuses the plugin, one it only asks for is left out.
PolicyRefuses(m, signer) == ~(Info[m.build].needs \subseteq Policy[signer])

\* Fault: the policy is asked, and its answer only used to refuse.
GrantsAsked(m, signer) == Info[m.build].needs \cup Info[m.build].asks

GrantsOf(m, signer) == (Info[m.build].needs \cup Info[m.build].asks) \cap Policy[signer]

-----------------------------------------------------------------------------
(* load_dir *)

ReadableDirs == {d \in Dir : disk[d] # NoDir /\ Info[disk[d]].readable}

ManifestOf(d) == [dir |-> d, build |-> disk[d]]

NamesFound == [d \in ReadableDirs |-> Info[disk[d]].name]

\* The manifests whose required dependencies are under the root, each with the
\* names it waits for: an absent or refused dependency is no edge.  (Versions of
\* dependencies are module ResolveOrder's.)
EdgesAmong(name) ==
    LET here == {name[d] : d \in DOMAIN name}
        fits == {d \in DOMAIN name : Info[disk[d]].requires \subseteq here}
        gone == {name[d] : d \in DOMAIN name \ fits}
    IN  [d \in fits |-> ((Info[disk[d]].requires \cup Info[disk[d]].wants) \cap here) \ gone]

\* A name an unreadable manifest leaves behind is the name of its directory.
OrderFailures(name, edges, order) ==
    LET fits == DOMAIN edges
        ordered == {name[order[i]] : i \in DOMAIN order}
    IN  {[dir |-> d, name |-> BaseName[d], reason |-> "manifest"] :
           d \in {e \in Dir : disk[e] # NoDir} \ DOMAIN name}
        \cup {Failure(ManifestOf(d), "missing") : d \in DOMAIN name \ fits}
        \cup {Failure(ManifestOf(d), "cycle") :
                d \in {e \in Kept(fits, name) : name[e] \notin ordered}}

LoadDir ==
    /\ phase = "idle"
    /\ \E name \in {NamesFound} : \E edges \in {EdgesAmong(name)} :
         \E n \in 0 .. Cardinality(DOMAIN edges) : \E s \in [1 .. n -> DOMAIN edges] :
           /\ IsLoadOrder(DOMAIN edges, name, edges, s)
           /\ todo' = [i \in 1 .. n |-> ManifestOf(s[i])]
           /\ failures' = OrderFailures(name, edges, s)
    /\ failed' = {f.name : f \in failures'}
    /\ seen' = {ManifestOf(d) : d \in {e \in Dir : disk[e] # NoDir}}
    /\ phase' = "scan"
    /\ ready' = <<>> /\ handled' = {} /\ loaded' = <<>>
    /\ UNCHANGED <<host, book, current, purge>>

\* record_failure, then on to the next manifest.
Refuse(m, why) ==
    /\ failed' = failed \cup {NameOf(m)}
    /\ failures' = failures \cup {Failure(m, why)}
    /\ todo' = Tail(todo)
    /\ phase' = "scan"
    /\ UNCHANGED <<host, book, ready, handled, loaded, seen, purge>>

ScanRefuse ==
    /\ phase = "scan" /\ todo # <<>>
    /\ LET m == Head(todo)
       IN  \/ /\ NameOf(m) \in DOMAIN index
              /\ Refuse(m, "registered")
           \/ /\ NameOf(m) \notin DOMAIN index
              /\ RequiredBy(m) \cap failed # {}
              /\ Refuse(m, "dependency")
           \/ /\ NameOf(m) \notin DOMAIN index
              /\ RequiredBy(m) \cap failed = {}
              /\ VerifyRefuses(m)
              /\ Refuse(m, "verify")
    /\ UNCHANGED current

Item(m, digest, signer) ==
    [dir |-> m.dir, build |-> m.build, digest |-> digest, signer |-> signer]

ScanVerify ==
    /\ phase = "scan" /\ todo # <<>>
    /\ LET m == Head(todo)
       IN  /\ NameOf(m) \notin DOMAIN index
           /\ RequiredBy(m) \cap failed = {}
           /\ ~VerifyRefuses(m)
           /\ current' = Item(m, DigestAt(m.dir), SignerAt(m.dir))
    /\ phase' = "entry"
    /\ UNCHANGED <<host, book, load, purge>>

EntryRefuse ==
    /\ phase = "entry"
    /\ ~(EntryExists(current) /\ Bound(current, current.digest, EntryAt(current)))
    /\ Refuse(Head(todo), "entry")
    /\ current' = NoManifest

EntryRead ==
    /\ phase = "entry"
    /\ EntryExists(current)
    /\ Bound(current, current.digest, EntryAt(current))
    /\ ready' = Append(ready, [item |-> current, bytes |-> EntryAt(current)])
    /\ todo' = Tail(todo)
    /\ current' = NoManifest
    /\ phase' = "scan"
    /\ UNCHANGED <<host, book, handled, failed, failures, loaded, seen, purge>>

ScanDone ==
    /\ phase = "scan" /\ todo = <<>>
    /\ phase' = "backend"
    /\ UNCHANGED <<host, book, load, current, purge>>

-----------------------------------------------------------------------------
(* load_dir, the backends.  The items of one type go to that type's backend,
   Lua before Wasm, each group in load order. *)

GroupRank(i) == IF TypeOf(ready[i].item) = "Lua" THEN 0 ELSE 1

Comes(i, j) == GroupRank(i) < GroupRank(j) \/ (GroupRank(i) = GroupRank(j) /\ i < j)

IsNext(i) ==
    /\ i \in DOMAIN ready \ handled
    /\ \A j \in DOMAIN ready \ handled : j # i => Comes(i, j)

LoadedNames == {loaded[i] : i \in DOMAIN loaded}

\* A Lua plugin is wired to the exports of its own group; a WASM one is not
\* wired at all.  Whether the plugin's own code loads is up to the plugin.
BackendRefuses(item) ==
    \/ PolicyRefuses(item, item.signer)
    \/ TypeOf(item) = "Lua" /\ ~(RequiredBy(item) \subseteq surfaces \cap LoadedNames)

Answer(i) == handled' = handled \cup {i}

BackendFail(i) ==
    /\ Answer(i)
    /\ failed' = failed \cup {NameOf(ready[i].item)}
    /\ failures' = failures \cup {Failure(ready[i].item, "backend")}
    /\ UNCHANGED <<book, loaded>>

PluginOf(item, bytes) ==
    [dir |-> item.dir, build |-> item.build, ran |-> bytes, signer |-> item.signer,
     digest |-> item.digest, granted |-> GrantsOf(item, item.signer)]

Publishes(m) == TypeOf(m) = "Lua" /\ Info[m.build].exports

BackendLoad(i) ==
    LET item == ready[i].item
    IN  /\ ~BackendRefuses(item)
        /\ Answer(i)
        /\ loaded' = Append(loaded, NameOf(item))
        /\ plugins' = Append(plugins, PluginOf(item, ready[i].bytes))
        /\ index' = [n \in DOMAIN index \cup {NameOf(item)} |->
                       IF n = NameOf(item) THEN Len(plugins) + 1 ELSE index[n]]
        /\ surfaces' = surfaces \cup (IF Publishes(item) THEN {NameOf(item)} ELSE {})
        /\ UNCHANGED <<revocations, failed, failures>>

\* A host's own backend may leave a plugin out of its answer.
BackendSilent(i) ==
    /\ TypeOf(ready[i].item) \in config.silent
    /\ Answer(i)
    /\ UNCHANGED <<book, failed, failures, loaded>>

\* Or report an outcome for a plugin it was not given.
BackendStray(i) ==
    /\ TypeOf(ready[i].item) \in config.silent
    /\ \E n \in Name :
         /\ \A j \in DOMAIN ready :
              NameOf(ready[j].item) = n => TypeOf(ready[j].item) # TypeOf(ready[i].item)
         /\ failed' = failed \cup {n}
         /\ failures' = failures \cup {[dir |-> NoDir, name |-> n, reason |-> "unknown"]}
    /\ UNCHANGED <<book, handled, loaded>>

Backend ==
    /\ phase = "backend"
    /\ \E i \in DOMAIN ready :
         /\ IsNext(i)
         /\ \/ BackendFail(i)
            \/ /\ TypeOf(ready[i].item) \in config.runtimes
               /\ BackendLoad(i) \/ BackendSilent(i) \/ BackendStray(i)
    /\ UNCHANGED <<host, phase, current, todo, ready, seen, purge>>

\* The items no backend answered for.
Mute == {i \in DOMAIN ready : NameOf(ready[i].item) \notin failed \cup DOMAIN index}

\* What is said of such an item: that it waited for one that failed, here or before, or
\* that there was no outcome.
Said(i) ==
    IF RequiredBy(ready[i].item)
         \cap (failed \cup {NameOf(ready[j].item) : j \in {k \in Mute : k < i}}) # {}
    THEN "dependency" ELSE "unanswered"

SweepEnds ==
    /\ phase = "backend" /\ handled = DOMAIN ready
    /\ phase' = "idle"
    /\ UNCHANGED <<host, book, current, todo, ready, handled, loaded, seen, purge>>

\* Fault: only what waited for a failed plugin is reported.
SweepDependents ==
    LET told == {i \in Mute : Said(i) = "dependency"}
    IN  /\ failed' = failed \cup {NameOf(ready[i].item) : i \in told}
        /\ failures' = failures \cup {Failure(ready[i].item, "dependency") : i \in told}
        /\ SweepEnds

\* Items no backend answered for are reported, never dropped.
Sweep ==
    /\ failed' = failed \cup {NameOf(ready[i].item) : i \in Mute}
    /\ failures' = failures \cup {Failure(ready[i].item, Said(i)) : i \in Mute}
    /\ SweepEnds

-----------------------------------------------------------------------------
(* reload *)

\* The locals and the report of an earlier load_dir are gone.
FreshLocals ==
    /\ todo' = <<>> /\ ready' = <<>> /\ handled' = {} /\ loaded' = <<>>
    /\ failed' = {} /\ failures' = {} /\ seen' = {}


\* The errors of the first checks change nothing.
Reload(n) ==
    /\ phase = "idle" /\ n \in DOMAIN index
    /\ LET old == plugins[index[n]]
       IN  /\ disk[old.dir] # NoDir
           /\ Info[disk[old.dir]].readable
           /\ NameOf(ManifestOf(old.dir)) = n
           /\ TypeOf(ManifestOf(old.dir)) = TypeOf(old)
           /\ current' = ManifestOf(old.dir)
    /\ phase' = "reverify"
    /\ FreshLocals
    /\ UNCHANGED <<host, book, purge>>

ReloadVerify ==
    /\ phase = "reverify"
    /\ IF VerifyRefuses(current)
       THEN phase' = "idle" /\ current' = NoManifest
       ELSE /\ phase' = "reread"
            /\ current' = Item(current, DigestAt(current.dir), SignerAt(current.dir))
    /\ UNCHANGED <<host, book, load, purge>>

\* The entry is read and bound, then the backend builds the new instance; the
\* slot changes only when all of it succeeded.
ReloadSwap ==
    /\ phase = "reread"
    /\ EntryExists(current)
    /\ Bound(current, current.digest, EntryAt(current))
    /\ ~PolicyRefuses(current, current.signer)
    /\ TypeOf(current) \in config.runtimes
    /\ TypeOf(current) = "Lua" =>
         /\ RequiredBy(current) \subseteq surfaces
         /\ NameOf(current) \in surfaces => Publishes(current)
    /\ plugins' = [plugins EXCEPT ![index[NameOf(current)]] =
                     PluginOf(current, EntryAt(current))]
    /\ surfaces' = surfaces \cup (IF Publishes(current) THEN {NameOf(current)} ELSE {})
    /\ phase' = "idle"
    /\ current' = NoManifest
    /\ UNCHANGED <<host, index, revocations, load, purge>>

ReloadFail ==
    /\ phase = "reread"
    /\ phase' = "idle"
    /\ current' = NoManifest
    /\ UNCHANGED <<host, book, load, purge>>

-----------------------------------------------------------------------------
(* remove, apply_revocations, revoke *)

Without(s, p) == [i \in 1 .. Len(s) - 1 |-> IF i < p THEN s[i] ELSE s[i + 1]]

\* The index is rebuilt from the vector; a later entry would win.
IndexOf(s) ==
    [n \in {NameOf(s[i]) : i \in DOMAIN s} |->
       CHOOSE i \in DOMAIN s :
         /\ NameOf(s[i]) = n
         /\ \A j \in DOMAIN s : NameOf(s[j]) = n => j =< i]

\* Fault: the index is patched instead of rebuilt.
UnloadPatchingIndex(n) ==
    /\ plugins' = Without(plugins, index[n])
    /\ index' = [m \in DOMAIN index \ {n} |-> index[m]]
    /\ surfaces' = surfaces \ {n}

Unload(n) ==
    /\ plugins' = Without(plugins, index[n])
    /\ index' = IndexOf(plugins')
    /\ surfaces' = surfaces \ {n}

Remove(n) ==
    /\ phase = "idle" /\ n \in DOMAIN index
    /\ Unload(n)
    /\ FreshLocals
    /\ UNCHANGED <<host, revocations, phase, current, purge>>

\* Fault: the list is checked against the directory as it stands now.
RefusedByDisk(list, p) == disk[p.dir] = NoDir \/ Denies(list, disk[p.dir], p.signer)

\* The digest is the one the plugin was loaded from.  A plugin loaded without
\* one is hashed now if the list names a digest, and refused when that fails.
RefusedBy(list, p) ==
    IF p.digest = NoDigest /\ list.digests # {}
    THEN disk[p.dir] = NoDir \/ Denies(list, disk[p.dir], p.signer)
    ELSE Denies(list, p.digest, p.signer)

ApplyRevocations(list) ==
    /\ phase = "idle"
    /\ revocations' = list
    /\ purge' = {NameOf(plugins[i]) : i \in {j \in DOMAIN plugins :
                                               RefusedBy(list, plugins[j])}}
    /\ phase' = "purge"
    /\ FreshLocals
    /\ UNCHANGED <<host, plugins, index, surfaces, current>>

Purge ==
    /\ phase = "purge"
    /\ \/ \E n \in purge :
            /\ Unload(n)
            /\ purge' = purge \ {n}
            /\ UNCHANGED phase
       \/ /\ purge = {}
          /\ phase' = "idle"
          /\ UNCHANGED <<plugins, index, surfaces, purge>>
    /\ UNCHANGED <<host, revocations, load, current>>

\* The grant is struck off whether or not the instance held a binding.
Revoke(n, c) ==
    /\ phase = "idle" /\ n \in DOMAIN index
    /\ c \in plugins[index[n]].granted
    /\ plugins' = [plugins EXCEPT ![index[n]].granted = @ \ {c}]
    /\ FreshLocals
    /\ UNCHANGED <<host, index, revocations, surfaces, phase, current, purge>>

-----------------------------------------------------------------------------

\* Someone rewrites a plugin directory, at any moment.
EditDisk(d, b) ==
    /\ edits < MaxEdits
    /\ disk[d] # b
    /\ disk' = [disk EXCEPT ![d] = b]
    /\ edits' = edits + 1
    /\ UNCHANGED <<config, book, phase, load, current, purge>>

Init == /\ config \in Configs
        /\ disk \in Disks
        /\ edits = 0
        /\ plugins = <<>> /\ index = [n \in {} |-> 0] /\ surfaces = {}
        /\ revocations = config.revocations
        /\ phase = "idle"
        /\ todo = <<>> /\ ready = <<>> /\ handled = {} /\ loaded = <<>>
        /\ failed = {} /\ failures = {} /\ seen = {} /\ purge = {}
        /\ current = NoManifest

Step == ScanRefuse \/ ScanVerify \/ EntryRefuse \/ EntryRead \/ ScanDone \/ Backend
        \/ Sweep \/ ReloadVerify \/ ReloadSwap \/ ReloadFail \/ Purge

Call == \/ LoadDir
        \/ \E n \in Name : Reload(n) \/ Remove(n)
        \/ \E list \in Lists : ApplyRevocations(list)
        \/ \E n \in Name, c \in Capability : Revoke(n, c)

Next == Step \/ Call \/ \E e \in Edits : EditDisk(e[1], e[2])

\* A call that has begun runs to its end: each step is a file read or a return
\* of the backend.  Nothing obliges the host to call, or the disk to change.
Spec == Init /\ [][Next]_vars

-----------------------------------------------------------------------------

Phase == {"idle", "scan", "entry", "backend", "reverify", "reread", "purge"}

Manifest == [dir : Dir, build : Build]

ItemSet == [dir : Dir, build : Build, digest : Build \cup {NoDigest},
            signer : Identity \cup {Unsigned}]

LoadedPlugin ==
    [dir : Dir, build : Build, ran : Content, signer : Identity \cup {Unsigned},
     digest : Build \cup {NoDigest}, granted : SUBSET Capability]

TypeOK ==
    /\ disk \in [Dir -> Build \cup {NoDir}]
    /\ edits \in 0 .. MaxEdits
    /\ plugins \in Seq(LoadedPlugin)
    /\ DOMAIN index \subseteq Name /\ \A n \in DOMAIN index : index[n] \in DOMAIN plugins
    /\ revocations \in [digests : SUBSET Build, signers : SUBSET Identity]
    /\ surfaces \subseteq Name
    /\ phase \in Phase
    /\ todo \in Seq(Manifest)
    /\ current \in {NoManifest} \cup Manifest \cup ItemSet
    /\ ready \in Seq([item : ItemSet, bytes : Content])
    /\ handled \subseteq DOMAIN ready
    /\ failed \subseteq Name /\ purge \subseteq Name
    /\ loaded \in Seq(Name)
    /\ seen \subseteq Manifest

(* A name resolves to the plugin that carries it, and every plugin is reached
   by its name: `index` and `plugins` agree in every step of every call. *)
IndexConsistent ==
    /\ DOMAIN index = PluginNames
    /\ \A n \in DOMAIN index :
         index[n] \in DOMAIN plugins /\ NameOf(plugins[index[n]]) = n
    /\ \A i \in DOMAIN plugins : index[NameOf(plugins[i])] = i

(* While a load_dir runs, the plugins it still has to verify, to build and to
   register are different ones, none of them registered; a reload works on a
   registered plugin, and the plugins a revocation purges are there to remove. *)
BatchSound ==
    /\ phase \in {"scan", "entry", "backend"} =>
         /\ \A i, j \in DOMAIN todo : NameOf(todo[i]) = NameOf(todo[j]) => i = j
         /\ \A i, j \in DOMAIN ready :
              NameOf(ready[i].item) = NameOf(ready[j].item) => i = j
         /\ \A i \in DOMAIN todo, j \in DOMAIN ready :
              NameOf(todo[i]) # NameOf(ready[j].item)
         /\ \A i \in DOMAIN ready \ handled : NameOf(ready[i].item) \notin DOMAIN index
    /\ phase \in {"scan", "entry"} => handled = {}
    /\ phase = "entry" =>
         /\ todo # <<>> /\ NameOf(current) = NameOf(Head(todo))
         /\ NameOf(current) \notin DOMAIN index
    /\ phase \in {"reverify", "reread"} => NameOf(current) \in DOMAIN index
    /\ phase \in {"entry", "reread"} => current \in ItemSet
    /\ phase = "reverify" => current \in Manifest
    /\ phase = "purge" => purge \subseteq DOMAIN index

(* "Backends build from these exact bytes, so the file cannot be swapped between
   verification and loading" (load_dir): what runs is the entry file of the
   build whose digest was taken, whatever happened to the directory between. *)
EntryIsVerified ==
    \A i \in DOMAIN plugins :
      LET p == plugins[i]
      IN  p.digest # NoDigest =>
            p.ran = Info[p.digest].files[Info[p.build].entry]

(* with_lockfile and require_signatures: every plugin that runs, loaded or
   reloaded, is the build and the signer the host pinned under its name, and
   signed when signatures are required. *)
AdmittedOnly ==
    \A i \in DOMAIN plugins :
      LET p == plugins[i]
      IN  /\ config.required => p.signer \in Identity
          /\ config.lockfile # NoLock =>
               /\ NameOf(p) \in DOMAIN config.lockfile
               /\ p.digest = config.lockfile[NameOf(p)].digest
               /\ config.lockfile[NameOf(p)].signer \in {AnyPin, p.signer}
               /\ config.lockfile[NameOf(p)].issuer \in {AnyPin, IssuerOf[p.signer]}

(* "The new list also governs later loads" (docs/signatures.md): between calls
   no plugin runs whose recorded digest or signer is on the list in force. *)
RevokedStayOut ==
    phase = "idle" =>
      \A i \in DOMAIN plugins :
        ~Denies(revocations, plugins[i].digest, plugins[i].signer)

\* The name a report gives a plugin directory.
Label(m) == IF Info[m.build].readable THEN NameOf(m) ELSE BaseName[m.dir]

(* "Mark it skipped rather than silently dropping it" (load_dir): every name found
   under the root is in the report, as loaded or as a failure, wherever between
   the discovery of manifests and the answers of the backends it got lost. *)
EveryNameReported ==
    phase = "idle" =>
      \A m \in seen : Label(m) \in LoadedNames \cup {f.name : f \in failures}

\* The plugin each name leads to, through the index.
RunningMap == [n \in DOMAIN index |-> plugins[index[n]]]

\* A plugin gets what it needs, and of what it asks for what the policy gives.
StartablePlugins ==
    [n \in Name |->
       {p \in LoadedPlugin :
          /\ NameOf(p) = n
          /\ p.granted \subseteq Policy[p.signer]
          /\ Info[p.build].needs \subseteq p.granted
          /\ p.granted \subseteq Info[p.build].needs \cup Info[p.build].asks}]

Running == INSTANCE RunningPlugins
             WITH running <- RunningMap, list <- revocations, Startable <- StartablePlugins,
                  AllLists <- [digests : SUBSET Build, signers : SUBSET Identity]

(* "A host that can widen a plugin's reach after that plugin is running has given
   up the guarantee the whole capability system exists to make" (Registry), and
   "Stored before the removals so a later load is judged by the same list"
   (apply_revocations): the vector, its index and every call over them implement
   a map from names to plugins that changes one name at a time, gives a plugin
   what the policy gives its signer and from then on only takes away, and starts
   nothing while one runs that the list in force denies. *)
ImplementsRunning == Running!Spec

(* "Dependency failures short-circuit dependents, mirroring order" (load_dir),
   for plugins of every type. *)
FailedDependencySkips ==
    phase = "idle" =>
      \A i \in DOMAIN ready :
        NameOf(ready[i].item) \in LoadedNames =>
          RequiredBy(ready[i].item) \cap failed = {}

(* "DependencyFailed: a dependency failed, so this plugin was skipped"
   (docs/registry.md): then the dependency is not running. *)
BlamedDependencyFailed ==
    phase = "idle" =>
      \A f \in failures : f.reason = "dependency" =>
        \E m \in seen : m.dir = f.dir /\ ~(RequiredBy(m) \subseteq PluginNames)

(* "What runs is what was verified even if the directory changed in between"
   (docs/signatures.md), of the capabilities the plugin is given. *)
GrantsAreVerified ==
    \A i \in DOMAIN plugins :
      LET p == plugins[i]
      IN  p.digest # NoDigest =>
            p.granted \subseteq Info[p.digest].needs \cup Info[p.digest].asks

=============================================================================
