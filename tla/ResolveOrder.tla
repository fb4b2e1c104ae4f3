---------------------------- MODULE ResolveOrder ----------------------------
(***************************************************************************)
(* Manifest discovery and dependency ordering of stanchion-registry         *)
(* (crates/stanchion-registry/src/manifest.rs): `discover`, then            *)
(* `check_dependencies` on every manifest, then Kahn's algorithm as         *)
(* `resolve_order` runs it, one action per turn of its loops.               *)
(*                                                                         *)
(* A manifest is identified by the directory it was read from.  Directories *)
(* and names are numbers, so that the path order and the name order the     *)
(* code sorts by are <.  Two directories may declare one name.              *)
(***************************************************************************)
EXTENDS Integers, Sequences, FiniteSets, Functions

CONSTANTS
    Dir,        \* plugin directories under the root, in path order
    Name,       \* plugin names, in name order
    Version,    \* plugin versions
    BaseName,   \* the last path component of each directory
    Absent,     \* this directory holds no plugin.toml
    Unreadable, \* its plugin.toml does not parse or does not validate
    Roots       \* the contents of the root the runs start from

Requirement == [accepts : SUBSET Version, optional : BOOLEAN]

ManifestSet == [name : Name, version : Version,
                deps : UNION {[S -> Requirement] : S \in SUBSET Name}]

ASSUME DirAssumption == IsFiniteSet(Dir) /\ Dir \subseteq Nat
ASSUME NameAssumption == IsFiniteSet(Name) /\ Name \subseteq Nat
ASSUME BaseNameAssumption == BaseName \in [Dir -> Name]
ASSUME RootsAssumption ==
    Roots \subseteq [Dir -> ManifestSet \cup {Absent, Unreadable}]
ASSUME SentinelAssumption == Absent \notin ManifestSet /\ Unreadable \notin ManifestSet

VARIABLES
    root,       \* what is on disk (not changed here)
    pc,         \* the phase of the call
    found,      \* directories whose manifest was read
    failures,   \* the LoadFailures reported so far
    pending,    \* manifests whose requirements can be met
    indegree,   \* per name, the dependencies not yet ordered
    dependents, \* per name, the manifests with an edge to it
    fan,        \* dependents of the name just ordered, still to be counted down
    ready,      \* the queue of names with no unordered dependency
    order,      \* the names ordered so far
    left,       \* the part of `order` not yet turned into manifests
    sorted      \* the result: manifests in load order

vars == <<root, pc, found, failures, pending, indegree, dependents, fan, ready,
          order, left, sorted>>

NameOf(d) == root[d].name

Names(S) == {NameOf(d) : d \in S}

\* HashMap::collect keeps the last manifest inserted under a name.
LastNamed(S, n) ==
    CHOOSE d \in S : NameOf(d) = n /\ \A e \in S : NameOf(e) = n => e =< d

\* Fault: an optional dependency of the wrong version is let through.
UnmetIgnoringOptional(d, n) ==
    LET spec == root[d].deps[n]
    IN  /\ ~spec.optional
        /\ n \in Names(found) =>
             root[LastNamed(found, n)].version \notin spec.accepts

\* A dependency the root cannot satisfy: a version that does not match fails
\* even when the dependency is optional.
Unmet(d, n) ==
    LET spec == root[d].deps[n]
    IN  IF n \in Names(found)
        THEN root[LastNamed(found, n)].version \notin spec.accepts
        ELSE ~spec.optional

UnmetDeps(d) == {n \in DOMAIN root[d].deps : Unmet(d, n)}

\* The reason reported is that of the first unmet name of the BTreeMap.
UnmetReason(d) ==
    LET first == CHOOSE n \in UnmetDeps(d) : \A m \in UnmetDeps(d) : n =< m
    IN  IF first \in Names(found) THEN "incompatible" ELSE "missing"

Dropped == Names(found \ pending)

\* An absent optional dependency contributes no edge, nor does a dropped one.
Edges(d) == {n \in DOMAIN root[d].deps : n \in Names(found) /\ n \notin Dropped}

Ascending(s) == \A i, j \in DOMAIN s : i < j => s[i] < s[j]

Failure(d, n, why) == [dir |-> d, name |-> n, reason |-> why]

-----------------------------------------------------------------------------

Init == /\ root \in Roots
        /\ pc = "discover"
        /\ found = {} /\ failures = {} /\ pending = {}
        /\ indegree = [n \in Name |-> 0]
        /\ dependents = [n \in Name |-> {}]
        /\ fan = {}
        /\ ready = <<>> /\ order = <<>> /\ left = <<>> /\ sorted = <<>>

Discover ==
    /\ pc = "discover"
    /\ found' = {d \in Dir : root[d] \notin {Absent, Unreadable}}
    /\ failures' = {Failure(d, BaseName[d], "manifest") :
                      d \in {e \in Dir : root[e] = Unreadable}}
    /\ pc' = "check"
    /\ UNCHANGED <<root, pending, indegree, dependents, fan, ready, order, left, sorted>>

CheckDependencies ==
    /\ pc = "check"
    /\ pending' = {d \in found : UnmetDeps(d) = {}}
    /\ failures' = failures \cup {Failure(d, NameOf(d), UnmetReason(d)) :
                                    d \in {e \in found : UnmetDeps(e) # {}}}
    /\ pc' = "wire"
    /\ UNCHANGED <<root, found, indegree, dependents, fan, ready, order, left, sorted>>

\* The in-degree is the last manifest's when two share a name; `dependents`
\* holds both.
Wire ==
    /\ pc = "wire"
    /\ indegree' = [n \in Name |-> IF n \in Names(pending)
                                   THEN Cardinality(Edges(LastNamed(pending, n)))
                                   ELSE 0]
    /\ dependents' = [n \in Name |-> {d \in pending : n \in Edges(d)}]
    /\ pc' = "seed"
    /\ UNCHANGED <<root, found, failures, pending, fan, ready, order, left, sorted>>

\* A name two manifests share is queued once: its second entry would find no
\* dependents and no manifest left to emit.
Seed ==
    /\ pc = "seed"
    /\ LET free == {n \in Names(pending) : indegree[n] = 0}
       IN  \E s \in [1 .. Cardinality(free) -> free] :
             /\ Ascending(s)
             /\ ready' = s
    /\ pc' = "sort"
    /\ UNCHANGED <<root, found, failures, pending, indegree, dependents, fan, order,
                   left, sorted>>

\* Fault: the dependents of the name taken are forgotten.
PopWithoutDependents ==
    /\ pc = "sort" /\ fan = {} /\ ready # <<>>
    /\ order' = Append(order, Head(ready))
    /\ ready' = Tail(ready)
    /\ UNCHANGED <<root, pc, found, failures, pending, indegree, dependents, fan,
                   left, sorted>>

PopReady ==
    /\ pc = "sort" /\ fan = {} /\ ready # <<>>
    /\ order' = Append(order, Head(ready))
    /\ ready' = Tail(ready)
    /\ fan' = dependents[Head(ready)]
    /\ dependents' = [dependents EXCEPT ![Head(ready)] = {}]
    /\ UNCHANGED <<root, pc, found, failures, pending, indegree, left, sorted>>

\* Faults: a dependent is queued one dependency too early; the count wraps below
\* zero when two manifests share a name.
CountDownEarly ==
    /\ pc = "sort" /\ fan # {}
    /\ LET d == CHOOSE d \in fan : \A e \in fan : d =< e
           n == NameOf(d)
       IN  /\ indegree' = [indegree EXCEPT ![n] = @ - 1]
           /\ ready' = IF indegree[n] =< 2 THEN Append(ready, n) ELSE ready
           /\ fan' = fan \ {d}
    /\ UNCHANGED <<root, pc, found, failures, pending, dependents, order, left, sorted>>

\* One turn of the inner loop: count one dependent down (saturating at zero)
\* and queue its name when nothing is left to wait for.
CountDown ==
    /\ pc = "sort" /\ fan # {}
    /\ LET d == CHOOSE d \in fan : \A e \in fan : d =< e
           n == NameOf(d)
           count == IF indegree[n] = 0 THEN 0 ELSE indegree[n] - 1
       IN  /\ indegree' = [indegree EXCEPT ![n] = count]
           /\ ready' = IF count = 0 THEN Append(ready, n) ELSE ready
           /\ fan' = fan \ {d}
    /\ UNCHANGED <<root, pc, found, failures, pending, dependents, order, left, sorted>>

\* Fault: the loop waits for every plugin.
FinishWhenAllOrdered ==
    /\ pc = "sort" /\ fan = {} /\ ready = <<>>
    /\ Names(pending) \subseteq Range(order)
    /\ left' = order
    /\ pc' = "emit"
    /\ UNCHANGED <<root, found, failures, pending, indegree, dependents, fan, ready,
                   order, sorted>>

\* Whatever was never ordered is reported as a dependency cycle, one failure
\* per name.
Finish ==
    /\ pc = "sort" /\ fan = {} /\ ready = <<>>
    /\ failures' = failures \cup
                     {Failure(LastNamed(pending, n), n, "cycle") :
                        n \in Names(pending) \ Range(order)}
    /\ left' = order
    /\ pc' = "emit"
    /\ UNCHANGED <<root, found, pending, indegree, dependents, fan, ready, order, sorted>>

\* by_name.remove: the first occurrence of a name takes its manifest.
Emit ==
    /\ pc = "emit" /\ left # <<>>
    /\ left' = Tail(left)
    /\ sorted' = IF Head(left) \in Names(Range(sorted))
                 THEN sorted
                 ELSE Append(sorted, LastNamed(pending, Head(left)))
    /\ UNCHANGED <<root, pc, found, failures, pending, indegree, dependents, fan,
                   ready, order>>

Return ==
    /\ pc = "emit" /\ left = <<>>
    /\ pc' = "done"
    /\ UNCHANGED <<root, found, failures, pending, indegree, dependents, fan, ready,
                   order, left, sorted>>

Next == Discover \/ CheckDependencies \/ Wire \/ Seed \/ PopReady \/ CountDown
        \/ Finish \/ Emit \/ Return

\* The call runs to its end on its caller's thread.
Spec == Init /\ [][Next]_vars /\ WF_vars(Next)

-----------------------------------------------------------------------------

Phase == {"discover", "check", "wire", "seed", "sort", "emit", "done"}

Reason == {"manifest", "incompatible", "missing", "cycle"}

TypeOK ==
    /\ root \in [Dir -> ManifestSet \cup {Absent, Unreadable}]
    /\ pc \in Phase
    /\ found \subseteq {d \in Dir : root[d] \notin {Absent, Unreadable}}
    /\ pending \subseteq found
    /\ failures \subseteq [dir : Dir, name : Name, reason : Reason]
    /\ indegree \in [Name -> Nat]
    /\ dependents \in [Name -> SUBSET Dir]
    /\ fan \subseteq Dir
    /\ ready \in Seq(Name) /\ order \in Seq(Name) /\ left \in Seq(Name)
    /\ sorted \in Seq(Dir)

Distinct == \A d, e \in found : NameOf(d) = NameOf(e) => d = e

Contract == INSTANCE LoadOrder

(* The result is one the registry may load in (`resolve_order`): of the
   manifests that share a name the last one, never twice; and when no name is
   shared, dependencies first, and what is left out waits for a dependency that
   is left out too.  A count that is off by one, or an edge missed in one of the
   maps, breaks it for some graph. *)
MeetsContract ==
    pc = "done" =>
      Contract!IsLoadOrder(pending, [d \in pending |-> NameOf(d)],
                           [d \in pending |-> Edges(d)], sorted)

\* The manifests d has edges to, and those they have edges to, and so on: what
\* every set holds that no edge leads out of, neither from d nor from itself.
Behind(d) ==
    {e \in pending : \A T \in SUBSET pending :
       (\A x \in T \cup {d}, y \in pending : NameOf(y) \in Edges(x) => y \in T) => e \in T}

(* What a reader would call a dependency cycle: when no name is shared, a plugin
   is ordered exactly when no plugin that is behind itself is behind it. *)
OrderedIffNoCycleBehind ==
    pc = "done" /\ Distinct =>
      LET behind == [d \in pending |-> Behind(d)]
      IN  \A d \in pending :
            d \in Range(sorted) <=> ~\E e \in behind[d] \cup {d} : e \in behind[e]

(* "Orders manifests so every plugin follows the dependencies it is wired to",
   as the doc comment of `resolve_order` states it, whether or not two
   directories declare one name.  The code does not do that: the README says
   why. *)
DepsFirstAlways ==
    pc = "done" =>
      Contract!DependenciesFirst([d \in pending |-> NameOf(d)],
                                 [d \in pending |-> Edges(d)], sorted)

(* `LoadReport::is_clean`, "true when every discovered plugin loaded": with no
   failure to report, every manifest found is in the result. *)
CleanMeansAllOrdered == pc = "done" /\ failures = {} => Range(sorted) = found

(* The version a dependent was checked against is the version of the manifest
   that is loaded under that name, even when two directories declare it and
   one of them is dropped. *)
CheckedVersionIsLoaded ==
    \A i \in DOMAIN sorted : \A n \in Edges(sorted[i]) :
      /\ n \in Names(pending)
      /\ root[LastNamed(pending, n)].version \in root[sorted[i]].deps[n].accepts

(* The call returns: the queue drains and the loops end. *)
Termination == <>(pc = "done")
=============================================================================
