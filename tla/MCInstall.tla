----------------------------- MODULE MCInstall -----------------------------
(* What lies under a plugin root and beside it: plugins installed and       *)
(* upgraded, the reviews of their upgrades, and the rocks they declare.     *)
(*                                                                          *)
(* Two plugins, 10 and 20, with their staging directories before and the    *)
(* directories of their previous versions after them in path order.         *)
EXTENDS Install, Rocks, Upgrades, TLC

MCName == {10, 20}
MCStagingOf == 10 :> 1 @@ 20 :> 2
MCPreviousOf == 10 :> 11 @@ 20 :> 21

Says(n, v) == [name |-> n, version |-> v]

\* x has the name of plugin 10 and is in no index.
MCInfo == "a1" :> Says(10, 1) @@ "a2" :> Says(10, 2) @@ "a3" :> Says(10, 3)
          @@ "x" :> Says(10, 2) @@ "b1" :> Says(20, 1)
MCBuild == DOMAIN MCInfo

\* Release 1 of 10 was withdrawn.  Under 10 the index also claims a version for a1
\* that its manifest does not state, and under 20 offers a build of plugin 10.
Offer(v, b) == [version |-> v, digest |-> b, yanked |-> FALSE]
MCReleases == 10 :> {[Offer(1, "a1") EXCEPT !.yanked = TRUE], Offer(2, "a2"), Offer(3, "a3"),
                     Offer(4, "a1")}
              @@ 20 :> {Offer(1, "b1"), Offer(2, "a2")}

MCInstalls == "f" :> {10} @@ "g" :> {20}
MCHandles == "f" :> {10} @@ "g" :> {10}

MCRoots == {10 :> "a1" @@ 20 :> "b1", 10 :> Nothing @@ 20 :> Nothing}

MCLocks == {NoPins, 10 :> Recorded(Offer(1, "a1")), 10 :> Recorded(Offer(AnyVersion, "a1"))}
-----------------------------------------------------------------------------
V(parts, revision) == [parts |-> parts, revision |-> revision]
C(op, version) == [op |-> op, version |-> version]

\* Two revisions of one version, a version with a third component and the next major one.
MCReleased == "penlight" :> {V(<<1, 2>>, 1), V(<<1, 2>>, 2), V(<<1, 2, 1>>, 1), V(<<2, 0>>, 1)}

\* Every operator, with requirements of one, two and three components, with and without
\* a revision; a range; and any version.
MCRequirements ==
  {{}, {C(">=", V(<<1, 2>>, 0)), C("<", V(<<2>>, 0))}}
  \cup {{C(op, V(<<1, 2>>, 0))} : op \in {"=", "~=", "<", "<=", ">", ">=", "~>"}}
  \cup {{C("=", V(<<1, 2>>, 2))}, {C("=", V(<<1, 2, 0>>, 0))}, {C("~>", V(<<1>>, 0))},
        {C("<=", V(<<1, 2>>, 1))}, {C("~=", V(<<2>>, 0))}, {C("=", V(<<1>>, 0))}}
NoNeeds == [p \in {1, 2} |-> <<>>]
MCDemands ==
  {NoNeeds} \cup {[p \in {1, 2} |-> IF p = 1 THEN "penlight" :> r ELSE <<>>] : r \in MCRequirements}
  \cup {[p \in {1, 2} |-> "penlight" :> (IF p = 1 THEN {C("=", V(<<1, 2>>, 0))} ELSE r)] :
          r \in {{}, {C("=", V(<<2, 0>>, 0))}}}
-----------------------------------------------------------------------------
Declares(optional, params) == [optional |-> optional, params |-> params]
Hosts(s) == "hosts" :> <<"list", s>>
MCCapabilities ==
  {<<>>}
  \cup {"net" :> Declares(o, ps) :
          o \in BOOLEAN,
          ps \in {<<>>, Hosts({}), Hosts({"a"}), Hosts({"a", "b"}),
                  Hosts({"a"}) @@ "port" :> <<"scalar", 80>>, "hosts" :> <<"scalar", "a">>}}
MCManifests ==
  {[version |-> v, entry |-> "main.lua", capabilities |-> c, dependencies |-> <<>>,
    rocks |-> <<>>] : v \in 1..3, c \in MCCapabilities}
  \cup {[version |-> v, entry |-> e, capabilities |-> <<>>, dependencies |-> d, rocks |-> r] :
          v \in 1..2, e \in {"main.lua", "other.lua"},
          d \in {<<>>, "base" :> "1", "base" :> "2"}, r \in {<<>>, "penlight" :> "1"}}
First == [version |-> 1, entry |-> "main.lua", capabilities |-> <<>>, dependencies |-> <<>>,
          rocks |-> <<>>]
-----------------------------------------------------------------------------
(* The three share no state, so each moves while the others have not begun.  *)

InstallRests == /\ old = [p \in Path |-> Nothing] /\ root = old
                /\ file = NoPins /\ pins = NoPins
                /\ pc = [f \in Flow |-> "idle"] /\ moved = {} /\ faults = 0
                /\ past.unsaved = {} /\ past.bare = {}
RocksRest == /\ tree = [r \in DOMAIN MCReleased |-> {}] /\ needs = NoNeeds
             /\ <<todo, listed, report, verdict>> = <<<<>>, <<>>, <<>>, <<>>>>
ReviewsRest == installed = First /\ approved = First

MCInit == /\ Init /\ RocksInit /\ UpgradeInit
          /\ \/ RocksRest /\ ReviewsRest
             \/ InstallRests /\ (RocksRest \/ ReviewsRest)

MCNext == \/ ReviewsRest /\ RocksRest /\ Next /\ UNCHANGED <<rockVars, upgradeVars>>
          \/ ReviewsRest /\ InstallRests /\ RocksNext /\ UNCHANGED <<vars, upgradeVars>>
          \/ RocksRest /\ InstallRests /\ UpgradeNext /\ UNCHANGED <<vars, rockVars>>

MCSpec == MCInit /\ [][MCNext]_<<vars, rockVars, upgradeVars>>
=============================================================================
