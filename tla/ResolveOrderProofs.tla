-------------------------- MODULE ResolveOrderProofs ------------------------
(***************************************************************************)
(* `resolve_order` keeps its contract whatever manifests the root holds:    *)
(* Kahn's algorithm, with its counts, its queue and its two maps, orders    *)
(* every plugin after its dependencies and leaves out only those that wait  *)
(* for one another.                                                         *)
(***************************************************************************)
EXTENDS ResolveOrder, SequenceTheorems, FiniteSetTheorems, WellFoundedInduction, TLAPS

\* The variables of a phase are empty before it.
Phases ==
    /\ pc \in {"discover", "check"} => pending = {}
    /\ pc \notin {"discover", "check"} => pending = {d \in found : UnmetDeps(d) = {}}
    /\ pc \notin {"sort", "emit", "done"} => order = <<>> /\ ready = <<>> /\ fan = {}
    /\ pc \notin {"emit", "done"} => left = <<>> /\ sorted = <<>>
    /\ pc = "done" => left = <<>>

FromPending ==
    /\ fan \subseteq pending
    /\ \A n \in Name : dependents[n] \subseteq pending
    /\ Range(ready) \cup Range(order) \cup Range(left) \subseteq Names(pending)

\* Of the manifests that share a name the last one is emitted, once.
Emitted ==
    /\ \A i \in DOMAIN sorted :
         /\ sorted[i] \in pending
         /\ \A e \in pending : NameOf(e) = NameOf(sorted[i]) => e =< sorted[i]
    /\ \A i, j \in DOMAIN sorted : NameOf(sorted[i]) = NameOf(sorted[j]) => i = j

\* No two manifests to order share a name.
Single == \A d, e \in pending : NameOf(d) = NameOf(e) => d = e

Current == order[Len(order)]

\* The dependencies d has not been counted down for.
Waiting(d) == {n \in Edges(d) : n \notin Range(order) \/ (d \in fan /\ n = Current)}

Counted == \A d \in pending : indegree[NameOf(d)] = Cardinality(Waiting(d))

Remembered ==
    \A n \in Names(pending) \ Range(order) : dependents[n] = {d \in pending : n \in Edges(d)}

FanWaits ==
    \A d \in fan : order # <<>> /\ Current \in Edges(d) /\ NameOf(d) \notin Range(order)

Queued ==
    /\ \A d \in pending :
         NameOf(d) \in Range(ready) <=> Waiting(d) = {} /\ NameOf(d) \notin Range(order)
    /\ IsInjective(ready)

Wired ==
    /\ \A d \in pending : indegree[NameOf(d)] = Cardinality(Edges(d))
    /\ \A n \in Name : dependents[n] = {d \in pending : n \in Edges(d)}

\* Whatever is ordered comes after its dependencies, once.
Ordered ==
    /\ IsInjective(order)
    /\ \A i \in DOMAIN order : \A d \in pending :
         NameOf(d) = order[i] => \A n \in Edges(d) : \E j \in 1 .. i - 1 : order[j] = n

\* What is left out waits for what is left out.
Stuck ==
    \A d \in pending : NameOf(d) \notin Range(order) =>
      \E n \in Edges(d) : n \in Names(pending) \ Range(order)

\* Emitting follows the order name by name.
Follows ==
    /\ Len(order) = Len(sorted) + Len(left)
    /\ \A i \in DOMAIN sorted : NameOf(sorted[i]) = order[i]
    /\ \A i \in DOMAIN left : left[i] = order[Len(sorted) + i]

KahnInv ==
    Single =>
      /\ pc = "seed" => Wired
      /\ pc = "sort" => Counted /\ Remembered /\ FanWaits /\ Queued
      /\ pc \in {"sort", "emit", "done"} => Ordered
      /\ pc \in {"emit", "done"} => Stuck /\ Follows

ResolveInv == TypeOK /\ Phases /\ FromPending /\ Emitted /\ KahnInv

-----------------------------------------------------------------------------
(* Manifests, names and edges.                                             *)

LEMMA SmallestExists ==
  ASSUME NEW S, S \subseteq Nat, S # {}
  PROVE  \E x \in S : \A y \in S : x =< y
<1>1. PICK x \in S : \A y \in S : ~(<<y, x>> \in OpToRel(<, Nat))
  BY NatLessThanWellFounded, WFMin
<1>2. \A y \in S : ~(y < x)
  BY <1>1 DEF OpToRel
<1>3. QED
  BY <1>2

\* Without a largest member, taking the least one away would go on for ever.
LEMMA LargestExists ==
  ASSUME NEW S, S \subseteq Nat, S # {}, IsFiniteSet(S)
  PROVE  \E x \in S : \A y \in S : y =< x
<1> DEFINE Above == {x \in S : \A y \in S : y =< x}
           Bad == {A \in SUBSET S : A # {} /\ \A x \in A : \E y \in A : x < y}
<1>1. SUFFICES ASSUME Above = {} PROVE FALSE
  OBVIOUS
<1>2. S \in Bad
  BY <1>1
<1>3. IsWellFoundedOn(StrictSubsetOrdering(S), SUBSET S)
  BY FS_StrictSubsetOrderingWellFounded, FS_FiniteSubsetsOfFinite
<1>4. PICK A \in Bad : \A B \in Bad : ~(<<B, A>> \in StrictSubsetOrdering(S))
  <2>1. Bad \subseteq SUBSET S /\ Bad # {}
    BY <1>2
  <2> HIDE DEF Bad
  <2>2. QED
    BY <2>1, <1>3, WFMin
<1>5. PICK least \in A : \A y \in A : least =< y
  BY SmallestExists
<1>6. A \ {least} \in Bad
  <2>1. PICK z \in A : least < z
    BY <1>4, <1>5
  <2>2. ASSUME NEW x \in A \ {least} PROVE \E y \in A \ {least} : x < y
    <3>1. PICK y \in A : x < y
      BY <1>4, <2>2
    <3>2. least =< x /\ x \in Nat /\ y \in Nat /\ least \in Nat
      BY <1>5, <1>4, <2>2, <3>1
    <3>3. QED
      BY <3>1, <3>2
  <2>3. z \in A \ {least}
    BY <2>1, <1>4
  <2>4. QED
    BY <2>2, <2>3
<1>7. <<A \ {least}, A>> \in StrictSubsetOrdering(S)
  BY <1>5 DEF StrictSubsetOrdering
<1>8. QED
  BY <1>4, <1>6, <1>7

\* What was read of a directory is a manifest.
LEMMA FoundAreManifests ==
  ASSUME TypeOK, NEW d \in found
  PROVE  d \in Dir /\ root[d] \in ManifestSet /\ NameOf(d) \in Name
         /\ DOMAIN root[d].deps \subseteq Name
BY DEF TypeOK, NameOf, ManifestSet

\* The manifest kept of those that share a name is the last one.
LEMMA LastNamedIs ==
  ASSUME NEW S, S \subseteq Dir, NEW n \in Names(S)
  PROVE  /\ LastNamed(S, n) \in S /\ NameOf(LastNamed(S, n)) = n
         /\ \A e \in S : NameOf(e) = n => e =< LastNamed(S, n)
<1> DEFINE N == {d \in S : NameOf(d) = n}
<1>1. N # {} /\ N \subseteq Nat /\ IsFiniteSet(N)
  BY DirAssumption, FS_Subset DEF Names
<1>2. PICK d \in N : \A e \in N : e =< d
  BY <1>1, LargestExists
<1>3. \E x \in S : NameOf(x) = n /\ \A e \in S : NameOf(e) = n => e =< x
  BY <1>2
<1>4. QED
  BY <1>3 DEF LastNamed

\* An edge leads to a manifest that is ordered too.
LEMMA EdgesAreOrdered ==
  ASSUME TypeOK, NEW d \in found
  PROVE  Edges(d) \subseteq Names(pending) /\ Edges(d) \subseteq Name
         /\ IsFiniteSet(Edges(d)) /\ Cardinality(Edges(d)) \in Nat
<1>1. Edges(d) \subseteq Name
  BY FoundAreManifests DEF Edges
<1>2. Edges(d) \subseteq Names(pending)
  BY DEF Edges, Dropped, Names, TypeOK
<1>3. IsFiniteSet(Edges(d))
  BY <1>1, NameAssumption, FS_Subset
<1>4. QED
  BY <1>1, <1>2, <1>3, FS_CardinalityType

LEMMA WaitingIsFinite ==
  ASSUME TypeOK, NEW d \in found
  PROVE  IsFiniteSet(Waiting(d)) /\ Cardinality(Waiting(d)) \in Nat
         /\ (Cardinality(Waiting(d)) = 0 <=> Waiting(d) = {})
<1>1. IsFiniteSet(Waiting(d))
  BY EdgesAreOrdered, FS_Subset DEF Waiting
<1>2. QED
  BY <1>1, FS_CardinalityType, FS_EmptySet

\* A step that leaves the manifests alone leaves their names and edges alone.
Settled == UNCHANGED <<root, found, pending>>

LEMMA NamesSettle ==
  ASSUME Settled
  PROVE  /\ \A d : NameOf(d)' = NameOf(d)
         /\ \A d : Edges(d)' = Edges(d)
         /\ Names(pending)' = Names(pending)
         /\ Single' = Single
<1>1. \A d : NameOf(d)' = NameOf(d)
  BY DEF Settled, NameOf
<1>2. Names(found)' = Names(found) /\ Dropped' = Dropped /\ Names(pending)' = Names(pending)
  BY <1>1 DEF Settled, Names, Dropped
<1>3. \A d : Edges(d)' = Edges(d)
  BY <1>2 DEF Settled, Edges
<1>4. Single' = Single
  BY <1>1 DEF Settled, Single
<1>5. QED
  BY <1>1, <1>2, <1>3, <1>4

-----------------------------------------------------------------------------
(* The steps.                                                              *)

LEMMA InitResolve == Init => ResolveInv
<1>1. SUFFICES ASSUME Init PROVE ResolveInv
  OBVIOUS
<1>2. Range(<<>>) = {}
  BY DEF Range
<1>3. TypeOK
  BY <1>1, RootsAssumption DEF Init, TypeOK, Phase
<1>4. Phases /\ FromPending /\ Emitted /\ KahnInv
  BY <1>1, <1>2 DEF Init, Phases, FromPending, Emitted, KahnInv
<1>5. QED
  BY <1>3, <1>4 DEF ResolveInv

LEMMA DiscoverKeeps == ResolveInv /\ Discover => ResolveInv'
<1>1. SUFFICES ASSUME ResolveInv, Discover PROVE ResolveInv'
  OBVIOUS
<1>a. TypeOK /\ Phases /\ FromPending /\ Emitted
  BY <1>1 DEF ResolveInv
<1>2. /\ pc = "discover" /\ pc' = "check"
      /\ found' = {d \in Dir : root[d] \notin {Absent, Unreadable}}
      /\ UNCHANGED <<root, pending, indegree, dependents, fan, ready, order, left, sorted>>
  BY <1>1 DEF Discover
<1>3. failures' \subseteq [dir : Dir, name : Name, reason : Reason]
  BY <1>1, BaseNameAssumption DEF Discover, Failure, Reason
<1>4. pending = {} /\ order = <<>> /\ ready = <<>> /\ fan = {} /\ left = <<>> /\ sorted = <<>>
  BY <1>a, <1>2 DEF Phases
<1>5. TypeOK'
  BY <1>a, <1>2, <1>3, <1>4 DEF TypeOK, Phase
<1>6. Phases' /\ Emitted' /\ KahnInv'
  BY <1>2, <1>4 DEF Phases, Emitted, KahnInv
<1>7. FromPending'
  BY <1>a, <1>2, <1>4 DEF FromPending, Range
<1>8. QED
  BY <1>5, <1>6, <1>7 DEF ResolveInv

LEMMA CheckKeeps == ResolveInv /\ CheckDependencies => ResolveInv'
<1>1. SUFFICES ASSUME ResolveInv, CheckDependencies PROVE ResolveInv'
  OBVIOUS
<1>a. TypeOK /\ Phases /\ FromPending /\ Emitted
  BY <1>1 DEF ResolveInv
<1>2. /\ pc = "check" /\ pc' = "wire"
      /\ pending' = {d \in found : UnmetDeps(d) = {}}
      /\ UNCHANGED <<root, found, indegree, dependents, fan, ready, order, left, sorted>>
  BY <1>1 DEF CheckDependencies
<1>3. failures' \subseteq [dir : Dir, name : Name, reason : Reason]
  <2>1. \A d : UnmetReason(d) \in Reason
    BY DEF UnmetReason, Reason
  <2>2. \A d \in found : Failure(d, NameOf(d), UnmetReason(d))
                           \in [dir : Dir, name : Name, reason : Reason]
    BY <2>1, <1>a, FoundAreManifests DEF Failure
  <2>3. QED
    BY <2>2, <1>1, <1>a DEF CheckDependencies, TypeOK
<1>4. pending = {} /\ order = <<>> /\ ready = <<>> /\ fan = {} /\ left = <<>> /\ sorted = <<>>
  BY <1>a, <1>2 DEF Phases
<1>5. TypeOK'
  BY <1>a, <1>2, <1>3 DEF TypeOK, Phase
<1>6. Phases'
  <2>1. \A d : UnmetDeps(d)' = UnmetDeps(d)
    BY <1>2 DEF UnmetDeps, Unmet, Names, NameOf, LastNamed
  <2>2. QED
    BY <1>2, <1>4, <2>1 DEF Phases
<1>7. Emitted' /\ KahnInv'
  BY <1>2, <1>4 DEF Emitted, KahnInv
<1>8. FromPending'
  <2>1. \A n \in Name : dependents'[n] = {}
    BY <1>a, <1>2, <1>4 DEF FromPending
  <2>2. QED
    BY <2>1, <1>2, <1>4 DEF FromPending, Range
<1>9. QED
  BY <1>5, <1>6, <1>7, <1>8 DEF ResolveInv

\* Of names no two manifests share, LastNamed is the inverse of NameOf.
LEMMA SingleLastNamed ==
  ASSUME TypeOK, Single, NEW d \in pending
  PROVE  LastNamed(pending, NameOf(d)) = d
<1>1. pending \subseteq Dir /\ NameOf(d) \in Names(pending)
  BY DEF TypeOK, Names
<1>2. QED
  BY <1>1, LastNamedIs DEF Single

LEMMA WireKeeps == ResolveInv /\ Wire => ResolveInv'
<1>1. SUFFICES ASSUME ResolveInv, Wire PROVE ResolveInv'
  OBVIOUS
<1>a. TypeOK /\ Phases /\ FromPending /\ Emitted
  BY <1>1 DEF ResolveInv
<1>2. /\ pc = "wire" /\ pc' = "seed"
      /\ indegree' = [n \in Name |-> IF n \in Names(pending)
                                     THEN Cardinality(Edges(LastNamed(pending, n)))
                                     ELSE 0]
      /\ dependents' = [n \in Name |-> {d \in pending : n \in Edges(d)}]
      /\ UNCHANGED <<root, found, failures, pending, fan, ready, order, left, sorted>>
  BY <1>1 DEF Wire
<1>3. order = <<>> /\ ready = <<>> /\ fan = {} /\ left = <<>> /\ sorted = <<>>
  BY <1>a, <1>2 DEF Phases
<1>4. pending \subseteq found /\ found \subseteq Dir
  BY <1>a DEF TypeOK
<1>5. indegree' \in [Name -> Nat] /\ dependents' \in [Name -> SUBSET Dir]
  <2>1. ASSUME NEW n \in Names(pending)
        PROVE  Cardinality(Edges(LastNamed(pending, n))) \in Nat
    BY <1>a, <1>4, LastNamedIs, EdgesAreOrdered
  <2>2. QED
    BY <2>1, <1>2, <1>4
<1>6. TypeOK'
  BY <1>a, <1>2, <1>5 DEF TypeOK, Phase
<1>7. Phases'
  <2>1. \A d : UnmetDeps(d)' = UnmetDeps(d)
    BY <1>2 DEF UnmetDeps, Unmet, Names, NameOf, LastNamed
  <2>2. QED
    BY <1>a, <1>2, <1>3, <2>1 DEF Phases
<1>8. Emitted'
  BY <1>2, <1>3 DEF Emitted
<1>9. FromPending'
  <2>1. \A n \in Name : dependents'[n] \subseteq pending
    BY <1>2
  <2>2. QED
    BY <2>1, <1>2, <1>3 DEF FromPending, Range
<1>10. KahnInv'
  <2>1. /\ \A d : NameOf(d)' = NameOf(d)
        /\ \A d : Edges(d)' = Edges(d)
        /\ Single' = Single
    BY <1>2, NamesSettle DEF Settled
  <2>2. SUFFICES ASSUME Single PROVE Wired'
    BY <1>2, <2>1 DEF KahnInv
  <2>3. ASSUME NEW d \in pending PROVE indegree'[NameOf(d)] = Cardinality(Edges(d))
    <3>1. NameOf(d) \in Name /\ NameOf(d) \in Names(pending)
      BY <1>a, <1>4, FoundAreManifests DEF Names
    <3>2. LastNamed(pending, NameOf(d)) = d
      BY <1>a, <2>2, SingleLastNamed
    <3>3. QED
      BY <3>1, <3>2, <1>2
  <2>4. QED
    BY <2>1, <2>3, <1>2 DEF Wired
<1>11. QED
  BY <1>6, <1>7, <1>8, <1>9, <1>10 DEF ResolveInv

\* The queue starts with each name that has no edge, once.
LEMMA AscendingIsInjective ==
  ASSUME NEW S, S \subseteq Nat, IsFiniteSet(S),
         NEW s \in [1 .. Cardinality(S) -> S], Ascending(s)
  PROVE  IsInjective(s) /\ Range(s) = S /\ s \in Seq(S)
<1> DEFINE c == Cardinality(S)
<1>1. c \in Nat
  BY FS_CardinalityType
<1>2. IsInjective(s)
  <2>1. SUFFICES ASSUME NEW i \in 1 .. c, NEW j \in 1 .. c, s[i] = s[j], i # j
                 PROVE  FALSE
    BY DEF IsInjective
  <2>2. s[i] \in Nat /\ s[j] \in Nat
    OBVIOUS
  <2>3. i < j \/ j < i
    BY <2>1, <1>1
  <2>4. QED
    BY <2>1, <2>2, <2>3 DEF Ascending
<1>3. s \in Injection(1 .. c, S)
  BY <1>2 DEF Injection, IsInjective
<1>4. IsFiniteSet(1 .. c) /\ Cardinality(1 .. c) = c
  BY <1>1, FS_Interval
<1>5. s \in Surjection(1 .. c, S)
  BY <1>3, <1>4, FS_Injection
<1>6. Range(s) = S
  BY <1>5 DEF Surjection, Range
<1>7. s \in Seq(S)
  BY <1>1, SeqDef
<1>8. QED
  BY <1>2, <1>6, <1>7

LEMMA SeedKeeps == ResolveInv /\ Seed => ResolveInv'
<1>1. SUFFICES ASSUME ResolveInv, Seed PROVE ResolveInv'
  OBVIOUS
<1> DEFINE free == {n \in Names(pending) : indegree[n] = 0}
<1>a. TypeOK /\ Phases /\ FromPending /\ Emitted /\ KahnInv
  BY <1>1 DEF ResolveInv
<1>2. /\ pc = "seed" /\ pc' = "sort"
      /\ UNCHANGED <<root, found, failures, pending, indegree, dependents, fan, order,
                     left, sorted>>
  BY <1>1 DEF Seed
<1>3. order = <<>> /\ fan = {} /\ left = <<>> /\ sorted = <<>>
  BY <1>a, <1>2 DEF Phases
<1>4. pending \subseteq found /\ found \subseteq Dir
  BY <1>a DEF TypeOK
<1>5. Names(pending) \subseteq Name
  BY <1>a, <1>4, FoundAreManifests DEF Names
<1>6. IsFiniteSet(free) /\ free \subseteq Nat /\ free \subseteq Name
  BY <1>5, NameAssumption, FS_Subset
<1>7. ready' \in [1 .. Cardinality(free) -> free] /\ Ascending(ready')
  BY <1>1 DEF Seed
<1> HIDE DEF free
<1>8. IsInjective(ready') /\ Range(ready') = free /\ ready' \in Seq(Name)
  BY <1>6, <1>7, AscendingIsInjective, SeqMonotonic
<1>9. TypeOK'
  BY <1>a, <1>2, <1>8 DEF TypeOK, Phase
<1>10. Phases'
  <2>1. \A d : UnmetDeps(d)' = UnmetDeps(d)
    BY <1>2 DEF UnmetDeps, Unmet, Names, NameOf, LastNamed
  <2>2. QED
    BY <1>a, <1>2, <1>3, <2>1 DEF Phases
<1>11. Emitted'
  BY <1>2, <1>3 DEF Emitted
<1>b. /\ \A d : NameOf(d)' = NameOf(d)
      /\ \A d : Edges(d)' = Edges(d)
      /\ Names(pending)' = Names(pending) /\ Single' = Single
  BY <1>2, NamesSettle DEF Settled
<1>12. FromPending'
  <2>1. free \subseteq Names(pending)
    BY DEF free
  <2>2. QED
    BY <1>a, <1>2, <1>8, <1>b, <2>1 DEF FromPending
<1>13. KahnInv'
  <2>1. SUFFICES ASSUME Single
                 PROVE  Counted' /\ Remembered' /\ FanWaits' /\ Queued' /\ Ordered'
    BY <1>2, <1>b DEF KahnInv
  <2>2. Wired
    BY <1>a, <1>2, <2>1 DEF KahnInv
  <2>3. Range(order) = {}
    BY <1>3 DEF Range
  <2>4. \A d \in pending : Waiting(d)' = Edges(d)
    BY <1>2, <1>3, <1>b, <2>3 DEF Waiting
  <2>5. Counted'
    BY <1>2, <1>b, <2>2, <2>4 DEF Wired, Counted
  <2>6. Remembered'
    BY <1>2, <1>b, <1>5, <2>2 DEF Wired, Remembered
  <2>7. FanWaits'
    BY <1>2, <1>3 DEF FanWaits
  <2>8. Queued'
    <3>1. ASSUME NEW d \in pending
          PROVE  NameOf(d) \in free <=> Edges(d) = {}
      <4>1. Cardinality(Edges(d)) = 0 <=> Edges(d) = {}
        BY <1>a, <1>4, EdgesAreOrdered, FS_EmptySet
      <4>2. QED
        BY <4>1, <2>2 DEF Wired, free, Names
    <3>2. \A d \in pending : NameOf(d) \in Range(ready')
                               <=> Waiting(d)' = {} /\ NameOf(d) \notin Range(order')
      BY <3>1, <1>2, <1>8, <2>3, <2>4
    <3>3. QED
      BY <3>2, <1>2, <1>8, <1>b DEF Queued
  <2>9. Ordered'
    BY <1>2, <1>3 DEF Ordered, IsInjective
  <2>10. QED
    BY <2>5, <2>6, <2>7, <2>8, <2>9
<1>14. QED
  BY <1>9, <1>10, <1>11, <1>12, <1>13 DEF ResolveInv

\* A queue: what is in it, and that nothing is in it twice.
LEMMA AppendRange ==
  ASSUME NEW S, NEW s \in Seq(S), NEW e \in S
  PROVE  /\ Range(Append(s, e)) = Range(s) \cup {e}
         /\ IsInjective(s) /\ e \notin Range(s) => IsInjective(Append(s, e))
<1>1. /\ Len(s) \in Nat /\ DOMAIN s = 1 .. Len(s)
      /\ DOMAIN Append(s, e) = 1 .. Len(s) + 1
      /\ \A i \in 1 .. Len(s) : Append(s, e)[i] = s[i]
      /\ Append(s, e)[Len(s) + 1] = e
  BY AppendProperties, LenProperties
<1>2. 1 .. Len(s) + 1 = (1 .. Len(s)) \cup {Len(s) + 1}
  BY <1>1
<1>3. Range(Append(s, e)) = Range(s) \cup {e}
  BY <1>1, <1>2 DEF Range
<1>4. ASSUME IsInjective(s), e \notin Range(s) PROVE IsInjective(Append(s, e))
  BY <1>1, <1>2, <1>4 DEF IsInjective, Range
<1>5. QED
  BY <1>3, <1>4

LEMMA TailRange ==
  ASSUME NEW S, NEW s \in Seq(S), s # <<>>
  PROVE  /\ Head(s) \in S /\ Tail(s) \in Seq(S)
         /\ Range(s) = Range(Tail(s)) \cup {Head(s)}
         /\ IsInjective(s) => IsInjective(Tail(s)) /\ Head(s) \notin Range(Tail(s))
<1>1. /\ Len(s) \in Nat \ {0} /\ DOMAIN s = 1 .. Len(s)
      /\ Head(s) \in S /\ Tail(s) \in Seq(S) /\ Head(s) = s[1]
      /\ Len(Tail(s)) = Len(s) - 1 /\ DOMAIN Tail(s) = 1 .. Len(s) - 1
      /\ \A i \in 1 .. Len(s) - 1 : Tail(s)[i] = s[i + 1]
  BY EmptySeq, HeadTailProperties, LenProperties
<1>2. \A i \in 1 .. Len(s) : i = 1 \/ i - 1 \in 1 .. Len(s) - 1
  BY <1>1
<1>3. \A i \in 1 .. Len(s) - 1 : i + 1 \in 1 .. Len(s) /\ i + 1 # 1
  BY <1>1
<1>4. Range(s) = Range(Tail(s)) \cup {Head(s)}
  <2>1. \A i \in 1 .. Len(s) : s[i] = Head(s) \/ s[i] \in Range(Tail(s))
    <3>1. SUFFICES ASSUME NEW i \in 1 .. Len(s), i # 1 PROVE s[i] \in Range(Tail(s))
      BY <1>1
    <3>2. i - 1 \in DOMAIN Tail(s) /\ Tail(s)[i - 1] = s[i]
      BY <3>1, <1>1
    <3>3. QED
      BY <3>2 DEF Range
  <2>2. 1 \in DOMAIN s /\ \A i \in DOMAIN Tail(s) : i + 1 \in DOMAIN s /\ Tail(s)[i] = s[i + 1]
    BY <1>1
  <2>3. QED
    BY <1>1, <2>1, <2>2 DEF Range
<1>5. ASSUME IsInjective(s) PROVE IsInjective(Tail(s)) /\ Head(s) \notin Range(Tail(s))
  <2>1. 1 \in DOMAIN s /\ \A i \in DOMAIN Tail(s) : i + 1 \in DOMAIN s /\ Tail(s)[i] = s[i + 1]
    BY <1>1
  <2>2. IsInjective(Tail(s))
    BY <1>1, <1>5, <2>1 DEF IsInjective
  <2>3. \A i \in DOMAIN Tail(s) : Tail(s)[i] # Head(s)
    BY <1>1, <1>3, <1>5, <2>1 DEF IsInjective
  <2>4. QED
    BY <2>2, <2>3 DEF Range
<1>6. QED
  BY <1>1, <1>4, <1>5

LEMMA PopKeeps == ResolveInv /\ PopReady => ResolveInv'
<1>1. SUFFICES ASSUME ResolveInv, PopReady PROVE ResolveInv'
  OBVIOUS
<1> DEFINE n == Head(ready)
<1>a. TypeOK /\ Phases /\ FromPending /\ Emitted /\ KahnInv
  BY <1>1 DEF ResolveInv
<1>2. /\ pc = "sort" /\ pc' = "sort" /\ fan = {} /\ ready # <<>>
      /\ order' = Append(order, n) /\ ready' = Tail(ready)
      /\ fan' = dependents[n] /\ dependents' = [dependents EXCEPT ![n] = {}]
      /\ UNCHANGED <<root, found, failures, pending, indegree, left, sorted>>
  BY <1>1 DEF PopReady
<1>3. ready \in Seq(Name) /\ order \in Seq(Name) /\ dependents \in [Name -> SUBSET Dir]
  BY <1>a DEF TypeOK
<1>4. /\ n \in Name /\ ready' \in Seq(Name)
      /\ Range(ready) = Range(ready') \cup {n}
      /\ IsInjective(ready) => IsInjective(ready') /\ n \notin Range(ready')
  BY <1>2, <1>3, TailRange
<1> HIDE DEF n
<1>5. /\ order' \in Seq(Name) /\ order' # <<>>
      /\ Len(order) \in Nat /\ Len(order') = Len(order) + 1
      /\ DOMAIN order = 1 .. Len(order) /\ DOMAIN order' = 1 .. Len(order) + 1
      /\ \A i \in 1 .. Len(order) : order'[i] = order[i]
      /\ order'[Len(order) + 1] = n
  BY <1>2, <1>3, <1>4, AppendProperties, LenProperties
<1>6. /\ Range(order') = Range(order) \cup {n}
      /\ IsInjective(order) /\ n \notin Range(order) => IsInjective(order')
  BY <1>2, <1>3, <1>4, AppendRange
<1>b. /\ \A d : NameOf(d)' = NameOf(d)
      /\ \A d : Edges(d)' = Edges(d)
      /\ Names(pending)' = Names(pending) /\ Single' = Single
  BY <1>2, NamesSettle DEF Settled
<1>7. TypeOK'
  BY <1>a, <1>2, <1>3, <1>4, <1>5 DEF TypeOK, Phase
<1>8. Phases'
  <2>1. \A d : UnmetDeps(d)' = UnmetDeps(d)
    BY <1>2 DEF UnmetDeps, Unmet, Names, NameOf, LastNamed
  <2>2. QED
    BY <1>a, <1>2, <2>1 DEF Phases
<1>9. Emitted'
  BY <1>a, <1>2, <1>b DEF Emitted
<1>10. FromPending'
  <2>1. fan' \subseteq pending
    BY <1>a, <1>2, <1>4 DEF FromPending
  <2>2. \A m \in Name : dependents'[m] \subseteq pending
    BY <1>a, <1>2, <1>3 DEF FromPending
  <2>3. QED
    BY <1>a, <1>2, <1>4, <1>6, <1>b, <2>1, <2>2 DEF FromPending
<1>11. ASSUME Single PROVE Counted' /\ Remembered' /\ FanWaits' /\ Queued' /\ Ordered'
  <2>1. Counted /\ Remembered /\ Queued /\ Ordered
    BY <1>a, <1>2, <1>11 DEF KahnInv
  <2>2. PICK p \in pending : n = NameOf(p)
    BY <1>a, <1>4 DEF FromPending, Names
  <2>3. n \notin Range(order) /\ Edges(p) \subseteq Range(order)
    BY <2>1, <2>2, <1>4 DEF Queued, Waiting
  <2>4. fan' = {d \in pending : n \in Edges(d)}
    BY <1>2, <2>1, <2>2, <2>3 DEF Remembered, Names
  <2>5. Current' = n
    BY <1>5 DEF Current
  <2>6. \A d \in pending : Waiting(d)' = Waiting(d)
    BY <1>2, <1>6, <1>b, <2>3, <2>4, <2>5 DEF Waiting
  <2>7. Counted'
    BY <1>2, <1>b, <2>1, <2>6 DEF Counted
  <2>8. Remembered'
    BY <1>2, <1>3, <1>6, <1>b, <1>a, <2>1 DEF Remembered
  <2>9. \A d \in pending : NameOf(d) \in Range(order') => n \notin Edges(d)
    <3>1. SUFFICES ASSUME NEW d \in pending, NameOf(d) \in Range(order'), n \in Edges(d)
                   PROVE  FALSE
      OBVIOUS
    <3>2. CASE NameOf(d) = n
      <4>1. d = p
        BY <3>2, <2>2, <1>11 DEF Single
      <4>2. QED
        BY <4>1, <3>1, <2>3
    <3>3. CASE NameOf(d) \in Range(order)
      <4>1. PICK i \in DOMAIN order : order[i] = NameOf(d)
        BY <3>3 DEF Range
      <4>2. PICK j \in 1 .. i - 1 : order[j] = n
        BY <4>1, <3>1, <2>1 DEF Ordered
      <4>3. j \in DOMAIN order
        BY <4>1, <4>2, <1>5
      <4>4. QED
        BY <4>2, <4>3, <2>3 DEF Range
    <3>4. QED
      BY <3>1, <3>2, <3>3, <1>6
  <2>10. FanWaits'
    BY <1>5, <1>b, <2>4, <2>5, <2>9 DEF FanWaits
  <2>11. Queued'
    <3>1. ASSUME NEW d \in pending
          PROVE  NameOf(d) \in Range(ready') <=>
                   Waiting(d)' = {} /\ NameOf(d) \notin Range(order')
      <4>1. NameOf(d) \in Range(ready) <=> Waiting(d) = {} /\ NameOf(d) \notin Range(order)
        BY <2>1 DEF Queued
      <4>2. n \notin Range(ready')
        BY <1>4, <2>1 DEF Queued
      <4>3. QED
        BY <4>1, <4>2, <1>4, <1>6, <2>6
    <3>2. IsInjective(ready')
      BY <1>4, <2>1 DEF Queued
    <3>3. QED
      BY <3>1, <3>2, <1>2, <1>b DEF Queued
  <2>12. Ordered'
    <3>1. IsInjective(order')
      BY <1>6, <2>1, <2>3 DEF Ordered
    <3>2. ASSUME NEW i \in DOMAIN order', NEW d \in pending, NameOf(d) = order'[i],
                 NEW m \in Edges(d)
          PROVE  \E j \in 1 .. i - 1 : order'[j] = m
      <4>1. CASE i \in 1 .. Len(order)
        <5>1. PICK j \in 1 .. i - 1 : order[j] = m
          BY <4>1, <3>2, <1>5, <2>1 DEF Ordered
        <5>2. j \in 1 .. Len(order)
          BY <4>1, <5>1, <1>5
        <5>3. QED
          BY <5>1, <5>2, <1>5
      <4>2. CASE i = Len(order) + 1
        <5>1. d = p
          BY <4>2, <3>2, <1>5, <2>2, <1>11 DEF Single
        <5>2. PICK j \in DOMAIN order : order[j] = m
          BY <5>1, <3>2, <2>3 DEF Range
        <5>3. j \in 1 .. i - 1 /\ order'[j] = m
          BY <5>2, <4>2, <1>5
        <5>4. QED
          BY <5>3
      <4>3. QED
        BY <4>1, <4>2, <1>5
    <3>3. QED
      BY <3>1, <3>2, <1>2, <1>b DEF Ordered
  <2>13. QED
    BY <2>7, <2>8, <2>10, <2>11, <2>12
<1>12. KahnInv'
  BY <1>2, <1>11, <1>b DEF KahnInv
<1>13. QED
  BY <1>7, <1>8, <1>9, <1>10, <1>12 DEF ResolveInv

LEMMA CountDownKeeps == ResolveInv /\ CountDown => ResolveInv'
<1>1. SUFFICES ASSUME ResolveInv, CountDown PROVE ResolveInv'
  OBVIOUS
<1>a. TypeOK /\ Phases /\ FromPending /\ Emitted /\ KahnInv
  BY <1>1 DEF ResolveInv
<1>3. PICK d \in fan : d = CHOOSE x \in fan : \A e \in fan : x =< e
  <2>1. fan \subseteq Nat /\ fan # {}
    BY <1>1, <1>a, DirAssumption DEF TypeOK, CountDown
  <2>2. \E x \in fan : \A e \in fan : x =< e
    BY <2>1, SmallestExists
  <2>3. QED
    BY <2>2
<1> DEFINE n == NameOf(d)
           count == IF indegree[n] = 0 THEN 0 ELSE indegree[n] - 1
<1>2. /\ pc = "sort" /\ pc' = "sort" /\ fan # {}
      /\ indegree' = [indegree EXCEPT ![n] = count]
      /\ ready' = IF count = 0 THEN Append(ready, n) ELSE ready
      /\ fan' = fan \ {d}
      /\ UNCHANGED <<root, found, failures, pending, dependents, order, left, sorted>>
  BY <1>1, <1>3 DEF CountDown
<1>4. pending \subseteq found /\ d \in pending /\ d \in found /\ fan \subseteq pending
  BY <1>3, <1>a DEF TypeOK, FromPending
<1>5. n \in Name /\ n \in Names(pending)
  BY <1>4, <1>a, FoundAreManifests DEF Names
<1>6. /\ indegree \in [Name -> Nat] /\ count \in Nat
      /\ indegree'[n] = count
      /\ \A m \in Name : m # n => indegree'[m] = indegree[m]
      /\ indegree' \in [Name -> Nat]
  BY <1>2, <1>5, <1>a DEF TypeOK
<1> DEFINE queued == Append(ready, n)
<1>7. /\ ready \in Seq(Name) /\ queued \in Seq(Name)
      /\ Range(queued) = Range(ready) \cup {n}
      /\ IsInjective(ready) /\ n \notin Range(ready) => IsInjective(queued)
  BY <1>5, <1>a, AppendRange, AppendProperties DEF TypeOK
<1> HIDE DEF queued, count, n
<1>8. (count = 0 /\ ready' = queued) \/ (count # 0 /\ ready' = ready)
  BY <1>2 DEF queued, n
<1>b. /\ \A e : NameOf(e)' = NameOf(e)
      /\ \A e : Edges(e)' = Edges(e)
      /\ Names(pending)' = Names(pending) /\ Single' = Single
  BY <1>2, NamesSettle DEF Settled
<1>9. TypeOK'
  <2>1. ready' \in Seq(Name)
    BY <1>7, <1>8
  <2>2. QED
    BY <1>a, <1>2, <1>6, <2>1 DEF TypeOK, Phase
<1>10. Phases'
  <2>1. \A e : UnmetDeps(e)' = UnmetDeps(e)
    BY <1>2 DEF UnmetDeps, Unmet, Names, NameOf, LastNamed
  <2>2. QED
    BY <1>a, <1>2, <2>1 DEF Phases
<1>11. Emitted'
  BY <1>a, <1>2, <1>b DEF Emitted
<1>12. FromPending'
  <2>1. Range(ready') \subseteq Names(pending)
    BY <1>5, <1>7, <1>8, <1>a DEF FromPending
  <2>2. QED
    BY <2>1, <1>2, <1>a, <1>b DEF FromPending
<1>13. ASSUME Single PROVE Counted' /\ Remembered' /\ FanWaits' /\ Queued' /\ Ordered'
  <2>1. Counted /\ Remembered /\ FanWaits /\ Queued /\ Ordered
    BY <1>a, <1>2, <1>13 DEF KahnInv
  <2>2. order # <<>> /\ Current \in Edges(d) /\ n \notin Range(order)
    BY <1>3, <2>1 DEF FanWaits, n
  <2>3. Current' = Current /\ Current \in Range(order)
    <3>1. order \in Seq(Name)
      BY <1>a DEF TypeOK
    <3>2. Len(order) \in DOMAIN order
      BY <3>1, <2>2, EmptySeq, LenProperties
    <3>3. QED
      BY <3>2, <1>2 DEF Current, Range
  <2>4. Waiting(d)' = Waiting(d) \ {Current} /\ Current \in Waiting(d)
    BY <1>2, <1>3, <1>b, <2>2, <2>3 DEF Waiting
  <2>5. \A e \in pending : e # d => Waiting(e)' = Waiting(e)
    BY <1>2, <1>b, <2>3 DEF Waiting
  <2>6. /\ IsFiniteSet(Waiting(d)) /\ Cardinality(Waiting(d)) \in Nat
        /\ Cardinality(Waiting(d)) # 0
        /\ Cardinality(Waiting(d)') = Cardinality(Waiting(d)) - 1
        /\ Waiting(d)' = {} <=> Cardinality(Waiting(d)') = 0
    <3>1. /\ IsFiniteSet(Waiting(d)) /\ Cardinality(Waiting(d)) \in Nat
          /\ (Cardinality(Waiting(d)) = 0 <=> Waiting(d) = {})
      BY <1>4, <1>a, WaitingIsFinite
    <3>2. /\ IsFiniteSet(Waiting(d) \ {Current})
          /\ Cardinality(Waiting(d) \ {Current}) = Cardinality(Waiting(d)) - 1
      BY <3>1, <2>4, FS_RemoveElement
    <3>3. QED
      BY <3>1, <3>2, <2>4, FS_EmptySet
  <2>7. indegree[n] = Cardinality(Waiting(d)) /\ count = Cardinality(Waiting(d)')
    <3>1. indegree[n] = Cardinality(Waiting(d))
      BY <2>1, <1>4 DEF Counted, n
    <3>2. QED
      BY <3>1, <2>6 DEF count
  <2>8. \A e \in pending : e # d => NameOf(e) # n /\ NameOf(e) \in Name
    BY <1>4, <1>13, <1>a, FoundAreManifests DEF Single, n
  <2>9. Counted'
    <3>1. ASSUME NEW e \in pending PROVE indegree'[NameOf(e)] = Cardinality(Waiting(e)')
      <4>1. CASE e = d
        BY <4>1, <1>6, <2>7 DEF n
      <4>2. CASE e # d
        BY <4>2, <1>6, <2>1, <2>5, <2>8 DEF Counted
      <4>3. QED
        BY <4>1, <4>2
    <3>2. QED
      BY <3>1, <1>2, <1>b DEF Counted
  <2>10. Remembered'
    BY <1>2, <1>b, <2>1 DEF Remembered
  <2>11. FanWaits'
    BY <1>2, <1>b, <2>1, <2>3 DEF FanWaits
  <2>12. n \notin Range(ready)
    BY <2>1, <2>4, <1>4 DEF Queued, n
  <2>13. Queued'
    <3>1. ASSUME NEW e \in pending
          PROVE  NameOf(e) \in Range(ready') <=>
                   Waiting(e)' = {} /\ NameOf(e) \notin Range(order)
      <4>1. CASE e = d
        BY <4>1, <1>7, <1>8, <2>2, <2>6, <2>7, <2>12 DEF n
      <4>2. CASE e # d
        <5>1. NameOf(e) \in Range(ready') <=> NameOf(e) \in Range(ready)
          BY <4>2, <1>7, <1>8, <2>8
        <5>2. QED
          BY <4>2, <5>1, <2>1, <2>5 DEF Queued
      <4>3. QED
        BY <4>1, <4>2
    <3>2. IsInjective(ready')
      BY <1>7, <1>8, <2>1, <2>12 DEF Queued
    <3>3. QED
      BY <3>1, <3>2, <1>2, <1>b DEF Queued
  <2>14. Ordered'
    BY <1>2, <1>b, <2>1 DEF Ordered
  <2>15. QED
    BY <2>9, <2>10, <2>11, <2>13, <2>14
<1>14. KahnInv'
  BY <1>2, <1>13, <1>b DEF KahnInv
<1>15. QED
  BY <1>9, <1>10, <1>11, <1>12, <1>14 DEF ResolveInv

LEMMA FinishKeeps == ResolveInv /\ Finish => ResolveInv'
<1>1. SUFFICES ASSUME ResolveInv, Finish PROVE ResolveInv'
  OBVIOUS
<1>a. TypeOK /\ Phases /\ FromPending /\ Emitted /\ KahnInv
  BY <1>1 DEF ResolveInv
<1>2. /\ pc = "sort" /\ pc' = "emit" /\ fan = {} /\ ready = <<>>
      /\ failures' = failures \cup {Failure(LastNamed(pending, n), n, "cycle") :
                                      n \in Names(pending) \ Range(order)}
      /\ left' = order
      /\ UNCHANGED <<root, found, pending, indegree, dependents, fan, ready, order, sorted>>
  BY <1>1 DEF Finish
<1>3. left = <<>> /\ sorted = <<>>
  BY <1>a, <1>2 DEF Phases
<1>4. pending \subseteq found /\ pending \subseteq Dir
  BY <1>a DEF TypeOK
<1>5. failures' \subseteq [dir : Dir, name : Name, reason : Reason]
  <2>1. ASSUME NEW n \in Names(pending)
        PROVE  Failure(LastNamed(pending, n), n, "cycle") \in [dir : Dir, name : Name, reason : Reason]
    <3>1. LastNamed(pending, n) \in Dir
      BY <1>4, LastNamedIs
    <3>2. n \in Name
      BY <1>4, <1>a, FoundAreManifests DEF Names
    <3>3. QED
      BY <3>1, <3>2 DEF Failure, Reason
  <2>2. QED
    BY <2>1, <1>2, <1>a DEF TypeOK
<1>b. /\ \A d : NameOf(d)' = NameOf(d)
      /\ \A d : Edges(d)' = Edges(d)
      /\ Names(pending)' = Names(pending) /\ Single' = Single
  BY <1>2, NamesSettle DEF Settled
<1>6. TypeOK'
  BY <1>a, <1>2, <1>5 DEF TypeOK, Phase
<1>7. Phases'
  <2>1. \A d : UnmetDeps(d)' = UnmetDeps(d)
    BY <1>2 DEF UnmetDeps, Unmet, Names, NameOf, LastNamed
  <2>2. QED
    BY <1>a, <1>2, <2>1 DEF Phases
<1>8. Emitted'
  BY <1>2, <1>3 DEF Emitted
<1>9. FromPending'
  BY <1>2, <1>a, <1>b DEF FromPending
<1>10. ASSUME Single PROVE Ordered' /\ Stuck' /\ Follows'
  <2>1. Queued /\ Ordered
    BY <1>a, <1>2, <1>10 DEF KahnInv
  <2>2. Ordered'
    BY <1>2, <1>b, <2>1 DEF Ordered
  <2>3. ASSUME NEW d \in pending, NameOf(d) \notin Range(order)
        PROVE  \E n \in Edges(d) : n \in Names(pending) \ Range(order)
    <3>1. Range(ready) = {}
      BY <1>2 DEF Range
    <3>2. Waiting(d) # {}
      BY <2>1, <2>3, <3>1 DEF Queued
    <3>3. PICK n \in Waiting(d) : TRUE
      BY <3>2
    <3>4. n \in Edges(d) /\ n \notin Range(order)
      BY <3>3, <1>2 DEF Waiting
    <3>5. QED
      BY <3>4, <1>4, <1>a, EdgesAreOrdered
  <2>4. Stuck'
    BY <2>3, <1>2, <1>b DEF Stuck
  <2>5. Follows'
    <3>1. Len(order) \in Nat /\ DOMAIN order = 1 .. Len(order) /\ Len(sorted) = 0
          /\ DOMAIN sorted = {}
      BY <1>3, <1>a, LenProperties DEF TypeOK
    <3>2. QED
      BY <3>1, <1>2, <1>b DEF Follows
  <2>6. QED
    BY <2>2, <2>4, <2>5
<1>11. KahnInv'
  BY <1>2, <1>10, <1>b DEF KahnInv
<1>12. QED
  BY <1>6, <1>7, <1>8, <1>9, <1>11 DEF ResolveInv

LEMMA EmitKeeps == ResolveInv /\ Emit => ResolveInv'
<1>1. SUFFICES ASSUME ResolveInv, Emit PROVE ResolveInv'
  OBVIOUS
<1>a. TypeOK /\ Phases /\ FromPending /\ Emitted /\ KahnInv
  BY <1>1 DEF ResolveInv
<1>2. PICK h : h = Head(left)
  OBVIOUS
<1>3. PICK d : d = LastNamed(pending, h)
  OBVIOUS
<1>4. /\ pc = "emit" /\ pc' = "emit" /\ left # <<>> /\ left' = Tail(left)
      /\ sorted' = IF h \in Names(Range(sorted)) THEN sorted ELSE Append(sorted, d)
      /\ UNCHANGED <<root, found, failures, pending, indegree, dependents, fan, ready, order>>
  BY <1>1, <1>2, <1>3 DEF Emit
<1>5. left \in Seq(Name) /\ sorted \in Seq(Dir) /\ order \in Seq(Name) /\ pending \subseteq Dir
  BY <1>a DEF TypeOK
<1>6. /\ left' \in Seq(Name) /\ Range(left) = Range(left') \cup {h}
      /\ h = left[1] /\ Len(left) \in Nat \ {0} /\ Len(left') = Len(left) - 1
      /\ DOMAIN left = 1 .. Len(left) /\ DOMAIN left' = 1 .. Len(left) - 1
      /\ \A i \in 1 .. Len(left) - 1 : left'[i] = left[i + 1]
  BY <1>2, <1>4, <1>5, TailRange, HeadTailProperties, EmptySeq, LenProperties
<1>7. d \in pending /\ NameOf(d) = h /\ \A e \in pending : NameOf(e) = h => e =< d
  <2>1. h \in Names(pending)
    BY <1>6, <1>a DEF FromPending
  <2>2. QED
    BY <2>1, <1>3, <1>5, LastNamedIs
<1> DEFINE longer == Append(sorted, d)
<1>8. /\ longer \in Seq(Dir) /\ Len(sorted) \in Nat /\ Len(longer) = Len(sorted) + 1
      /\ DOMAIN sorted = 1 .. Len(sorted) /\ DOMAIN longer = 1 .. Len(sorted) + 1
      /\ \A i \in 1 .. Len(sorted) : longer[i] = sorted[i]
      /\ longer[Len(sorted) + 1] = d
  BY <1>5, <1>7, AppendProperties, LenProperties
<1>9. (h \in Names(Range(sorted)) /\ sorted' = sorted)
      \/ (h \notin Names(Range(sorted)) /\ sorted' = longer)
  BY <1>4
<1> HIDE DEF longer
<1>b. /\ \A e : NameOf(e)' = NameOf(e)
      /\ \A e : Edges(e)' = Edges(e)
      /\ Names(pending)' = Names(pending) /\ Single' = Single
  BY <1>4, NamesSettle DEF Settled
<1>10. TypeOK'
  <2>1. sorted' \in Seq(Dir)
    BY <1>5, <1>8, <1>9
  <2>2. QED
    BY <1>a, <1>4, <1>6, <2>1 DEF TypeOK, Phase
<1>11. Phases'
  <2>1. \A e : UnmetDeps(e)' = UnmetDeps(e)
    BY <1>4 DEF UnmetDeps, Unmet, Names, NameOf, LastNamed
  <2>2. QED
    BY <1>a, <1>4, <2>1 DEF Phases
<1>12. FromPending'
  BY <1>a, <1>4, <1>6, <1>b DEF FromPending
<1>13. Emitted'
  <2>1. CASE sorted' = sorted
    BY <2>1, <1>a, <1>4, <1>b DEF Emitted
  <2>2. CASE h \notin Names(Range(sorted)) /\ sorted' = longer
    <3>1. \A i \in 1 .. Len(sorted) : NameOf(sorted[i]) # h
      BY <2>2, <1>8 DEF Names, Range
    <3>2. \A i \in DOMAIN longer : i \in 1 .. Len(sorted) \/ i = Len(sorted) + 1
      BY <1>8
    <3>3. ASSUME NEW i \in DOMAIN longer
          PROVE  /\ longer[i] \in pending
                 /\ \A e \in pending : NameOf(e) = NameOf(longer[i]) => e =< longer[i]
      BY <3>2, <3>3, <1>7, <1>8, <1>a DEF Emitted
    <3>4. ASSUME NEW i \in DOMAIN longer, NEW j \in DOMAIN longer,
                 NameOf(longer[i]) = NameOf(longer[j])
          PROVE  i = j
      BY <3>1, <3>2, <3>4, <1>7, <1>8, <1>a DEF Emitted
    <3>5. QED
      BY <2>2, <3>3, <3>4, <1>4, <1>b DEF Emitted
  <2>3. QED
    BY <2>1, <2>2, <1>9
<1>14. ASSUME Single PROVE Ordered' /\ Stuck' /\ Follows'
  <2>1. Ordered /\ Stuck /\ Follows
    BY <1>a, <1>4, <1>14 DEF KahnInv
  <2>2. Ordered' /\ Stuck'
    BY <2>1, <1>4, <1>b DEF Ordered, Stuck
  <2>3. h = order[Len(sorted) + 1] /\ DOMAIN order = 1 .. Len(order) /\ Len(order) \in Nat
    BY <2>1, <1>5, <1>6, LenProperties DEF Follows
  <2>4. h \notin Names(Range(sorted))
    <3>1. SUFFICES ASSUME NEW i \in 1 .. Len(sorted), NameOf(sorted[i]) = h PROVE FALSE
      BY <1>8 DEF Names, Range
    <3>2. order[i] = order[Len(sorted) + 1]
      BY <3>1, <2>1, <2>3, <1>8 DEF Follows
    <3>3. i \in DOMAIN order /\ Len(sorted) + 1 \in DOMAIN order /\ i # Len(sorted) + 1
      BY <3>1, <2>1, <2>3, <1>6, <1>8 DEF Follows
    <3>4. QED
      BY <3>2, <3>3, <2>1 DEF Ordered, IsInjective
  <2>5. sorted' = longer
    BY <2>4, <1>9
  <2>6. Len(order) = Len(longer) + Len(left')
    BY <2>1, <1>6, <1>8 DEF Follows
  <2>7. \A i \in DOMAIN longer : NameOf(longer[i]) = order[i]
    BY <2>1, <2>3, <1>7, <1>8 DEF Follows
  <2>8. \A i \in DOMAIN left' : left'[i] = order[Len(longer) + i]
    <3>1. SUFFICES ASSUME NEW i \in 1 .. Len(left) - 1
                   PROVE  left'[i] = order[Len(sorted) + 1 + i]
      BY <1>6, <1>8
    <3>2. i + 1 \in DOMAIN left /\ Len(sorted) + (i + 1) = Len(sorted) + 1 + i
      BY <1>6, <1>8
    <3>3. left[i + 1] = order[Len(sorted) + 1 + i]
      BY <3>2, <2>1 DEF Follows
    <3>4. QED
      BY <3>3, <1>6
  <2>9. Follows'
    BY <2>5, <2>6, <2>7, <2>8, <1>4, <1>b DEF Follows
  <2>10. QED
    BY <2>2, <2>9
<1>15. KahnInv'
  BY <1>4, <1>14, <1>b DEF KahnInv
<1>16. QED
  BY <1>10, <1>11, <1>12, <1>13, <1>15 DEF ResolveInv

\* Returning, and doing nothing, change nothing the invariant speaks of.
LEMMA RestKeeps ==
  ASSUME ResolveInv, Return \/ UNCHANGED vars
  PROVE  ResolveInv'
<1>a. TypeOK /\ Phases /\ FromPending /\ Emitted /\ KahnInv
  BY DEF ResolveInv
<1>1. /\ UNCHANGED <<root, found, failures, pending, indegree, dependents, fan, ready, order,
                     left, sorted>>
      /\ pc' = pc \/ (pc = "emit" /\ pc' = "done" /\ left = <<>>)
  BY DEF Return, vars
<1>b. /\ \A d : NameOf(d)' = NameOf(d)
      /\ \A d : Edges(d)' = Edges(d)
      /\ Names(pending)' = Names(pending) /\ Single' = Single
  BY <1>1, NamesSettle DEF Settled
<1>2. TypeOK'
  BY <1>a, <1>1 DEF TypeOK, Phase
<1>3. Phases'
  <2>1. \A d : UnmetDeps(d)' = UnmetDeps(d)
    BY <1>1 DEF UnmetDeps, Unmet, Names, NameOf, LastNamed
  <2>2. QED
    BY <1>a, <1>1, <2>1 DEF Phases
<1>4. FromPending' /\ Emitted'
  BY <1>a, <1>1, <1>b DEF FromPending, Emitted
<1>5. KahnInv'
  <2>1. \A d : Waiting(d)' = Waiting(d)
    BY <1>1, <1>b DEF Waiting, Current
  <2>2. (Wired => Wired') /\ (Counted => Counted') /\ (Remembered => Remembered')
    BY <1>1, <1>b, <2>1 DEF Wired, Counted, Remembered
  <2>3. (FanWaits => FanWaits') /\ (Queued => Queued')
    BY <1>1, <1>b, <2>1 DEF FanWaits, Queued, Current
  <2>4. (Ordered => Ordered') /\ (Stuck => Stuck') /\ (Follows => Follows')
    BY <1>1, <1>b DEF Ordered, Stuck, Follows
  <2>5. QED
    BY <1>a, <1>1, <1>b, <2>2, <2>3, <2>4 DEF KahnInv
<1>6. QED
  BY <1>2, <1>3, <1>4, <1>5 DEF ResolveInv

-----------------------------------------------------------------------------

LEMMA ResolveAlways == Spec => []ResolveInv
<1>1. Init => ResolveInv
  BY InitResolve
<1>2. ResolveInv /\ [Next]_vars => ResolveInv'
  BY DiscoverKeeps, CheckKeeps, WireKeeps, SeedKeeps, PopKeeps, CountDownKeeps, FinishKeeps,
     EmitKeeps, RestKeeps DEF Next
<1>3. QED
  BY <1>1, <1>2, PTL DEF Spec

\* `resolve_order` returns an order the registry may load in, for any manifests:
\* the contract module Registry relies on.
THEOREM ResolveMeetsContract == Spec => []MeetsContract
<1>1. ResolveInv => MeetsContract
  <2>1. SUFFICES ASSUME ResolveInv, pc = "done"
                 PROVE  Contract!IsLoadOrder(pending, [d \in pending |-> NameOf(d)],
                                             [d \in pending |-> Edges(d)], sorted)
    BY DEF MeetsContract
  <2> DEFINE name == [d \in pending |-> NameOf(d)]
             edges == [d \in pending |-> Edges(d)]
  <2>a. TypeOK /\ Phases /\ Emitted /\ KahnInv
    BY <2>1 DEF ResolveInv
  <2>2. \A i \in DOMAIN sorted : sorted[i] \in pending
    BY <2>a DEF Emitted
  <2>3. Contract!Range(sorted) \subseteq Contract!Kept(pending, name)
    BY <2>a, <2>2 DEF Contract!Range, Contract!Kept, Emitted
  <2>4. Contract!NamesDistinct(name, sorted)
    BY <2>a, <2>2 DEF Contract!NamesDistinct, Emitted
  <2>5. ASSUME \A d, e \in pending : name[d] = name[e] => d = e
        PROVE  Contract!DependenciesFirst(name, edges, sorted)
               /\ Contract!RefusedWait(pending, name, edges, sorted)
    <3>1. Single
      BY <2>5 DEF Single
    <3>2. Ordered /\ Stuck /\ Follows /\ left = <<>>
      BY <3>1, <2>1, <2>a DEF KahnInv, Phases
    <3>3. /\ Len(order) = Len(sorted) /\ Len(sorted) \in Nat
          /\ DOMAIN order = 1 .. Len(sorted) /\ DOMAIN sorted = 1 .. Len(sorted)
      BY <3>2, <2>a, LenProperties DEF Follows, TypeOK
    <3>4. ASSUME NEW i \in DOMAIN sorted, NEW n \in edges[sorted[i]]
          PROVE  \E j \in 1 .. i - 1 : name[sorted[j]] = n
      <4>1. sorted[i] \in pending /\ NameOf(sorted[i]) = order[i] /\ n \in Edges(sorted[i])
        BY <3>2, <3>4, <2>2 DEF Follows
      <4>2. PICK j \in 1 .. i - 1 : order[j] = n
        BY <4>1, <3>2, <3>3 DEF Ordered
      <4>3. j \in DOMAIN sorted /\ sorted[j] \in pending
        BY <4>2, <3>3, <3>4, <2>2
      <4>4. name[sorted[j]] = n
        BY <4>2, <4>3, <3>2 DEF Follows
      <4>5. QED
        BY <4>2, <4>4
    <3>5. ASSUME NEW d \in pending \ Contract!Range(sorted)
          PROVE  \E n \in edges[d] : n \in {name[e] : e \in pending \ Contract!Range(sorted)}
      <4>1. NameOf(d) \notin Range(order)
        <5>1. SUFFICES ASSUME NEW i \in DOMAIN order, order[i] = NameOf(d) PROVE FALSE
          BY DEF Range
        <5>2. i \in DOMAIN sorted /\ NameOf(sorted[i]) = NameOf(d) /\ sorted[i] \in pending
          BY <5>1, <3>2, <3>3, <2>2 DEF Follows
        <5>3. sorted[i] = d
          BY <5>2, <3>1 DEF Single
        <5>4. QED
          BY <5>2, <5>3, <3>5 DEF Contract!Range
      <4>2. PICK n \in Edges(d) : n \in Names(pending) \ Range(order)
        BY <4>1, <3>2, <3>5 DEF Stuck
      <4>3. PICK e \in pending : n = NameOf(e)
        BY <4>2 DEF Names
      <4>4. e \notin Contract!Range(sorted)
        <5>1. SUFFICES ASSUME NEW i \in DOMAIN sorted, sorted[i] = e PROVE FALSE
          BY DEF Contract!Range
        <5>2. i \in DOMAIN order /\ order[i] = n
          BY <5>1, <4>3, <3>2, <3>3 DEF Follows
        <5>3. QED
          BY <5>2, <4>2 DEF Range
      <4>5. QED
        BY <4>2, <4>3, <4>4
    <3>6. QED
      BY <3>4, <3>5 DEF Contract!DependenciesFirst, Contract!RefusedWait
  <2>6. QED
    BY <2>3, <2>4, <2>5 DEF Contract!IsLoadOrder
<1>2. QED
  BY <1>1, ResolveAlways, PTL

\* What a dependent was checked against is what is loaded under that name, also
\* when two directories declare the name and one of them is dropped.
THEOREM CheckedIsLoaded == Spec => []CheckedVersionIsLoaded
<1>1. ResolveInv => CheckedVersionIsLoaded
  <2>1. SUFFICES ASSUME ResolveInv, NEW i \in DOMAIN sorted, NEW n \in Edges(sorted[i])
                 PROVE  /\ n \in Names(pending)
                        /\ root[LastNamed(pending, n)].version
                             \in root[sorted[i]].deps[n].accepts
    BY DEF CheckedVersionIsLoaded
  <2>a. TypeOK /\ Phases /\ Emitted
    BY <2>1 DEF ResolveInv
  <2>2. sorted[i] \in pending /\ pending \subseteq found /\ found \subseteq Dir
    BY <2>a DEF Emitted, TypeOK
  <2>3. UnmetDeps(sorted[i]) = {}
    BY <2>a, <2>2 DEF Phases
  <2>4. n \in DOMAIN root[sorted[i]].deps /\ n \in Names(found) /\ n \in Names(pending)
        /\ \A e \in found : NameOf(e) = n => e \in pending
    BY <2>a, <2>2, EdgesAreOrdered DEF Edges, Dropped, Names
  <2>5. root[LastNamed(found, n)].version \in root[sorted[i]].deps[n].accepts
    BY <2>3, <2>4 DEF UnmetDeps, Unmet
  <2>6. LastNamed(pending, n) = LastNamed(found, n)
    <3>1. /\ LastNamed(found, n) \in found /\ NameOf(LastNamed(found, n)) = n
          /\ \A e \in found : NameOf(e) = n => e =< LastNamed(found, n)
      BY <2>2, <2>4, LastNamedIs
    <3>2. /\ LastNamed(pending, n) \in pending /\ NameOf(LastNamed(pending, n)) = n
          /\ \A e \in pending : NameOf(e) = n => e =< LastNamed(pending, n)
      BY <2>2, <2>4, LastNamedIs
    <3>3. LastNamed(found, n) \in Nat /\ LastNamed(pending, n) \in Nat
      BY <3>1, <3>2, <2>2, DirAssumption
    <3>4. QED
      BY <3>1, <3>2, <3>3, <2>2, <2>4
  <2>7. QED
    BY <2>4, <2>5, <2>6
<1>2. QED
  BY <1>1, ResolveAlways, PTL

-----------------------------------------------------------------------------
(* Cycles.                                                                 *)

LEMMA EdgeIsBehind ==
  ASSUME NEW d, NEW y \in pending, NameOf(y) \in Edges(d)
  PROVE  y \in Behind(d)
BY DEF Behind

LEMMA BehindIsTransitive ==
  ASSUME NEW d, NEW e \in Behind(d)
  PROVE  Behind(e) \subseteq Behind(d)
<1>1. SUFFICES ASSUME NEW x \in Behind(e), NEW T \in SUBSET pending,
                      \A z \in T \cup {d}, y \in pending : NameOf(y) \in Edges(z) => y \in T
               PROVE  x \in T
  BY DEF Behind
<1>2. e \in T
  BY <1>1 DEF Behind
<1>3. \A z \in T \cup {e}, y \in pending : NameOf(y) \in Edges(z) => y \in T
  BY <1>1, <1>2
<1>4. QED
  BY <1>1, <1>3 DEF Behind

\* In a finite set where each manifest waits for another one of the set, one of
\* them waits for itself: follow the edges to where the least is behind.
LEMMA WaitersHaveACycle ==
  ASSUME IsFiniteSet(pending), NEW U \in SUBSET pending, NEW d \in U,
         \A x \in U : \E y \in U : NameOf(y) \in Edges(x)
  PROVE  \E e \in Behind(d) : e \in Behind(e)
<1> DEFINE V == {x \in U : x \in Behind(d)}
           Ends == {Behind(x) : x \in V}
<1>a. \A x : Behind(x) \subseteq pending
  BY DEF Behind
<1>1. V # {}
  BY EdgeIsBehind
<1>2. Ends # {} /\ Ends \subseteq SUBSET pending
  BY <1>1, <1>a
<1>3. IsWellFoundedOn(StrictSubsetOrdering(pending), SUBSET pending)
  BY FS_StrictSubsetOrderingWellFounded, FS_FiniteSubsetsOfFinite
<1>4. PICK A \in Ends : \A B \in Ends : ~(<<B, A>> \in StrictSubsetOrdering(pending))
  <2> HIDE DEF Ends
  <2>1. QED
    BY <1>2, <1>3, WFMin
<1>5. PICK x \in V : A = Behind(x)
  BY <1>4
<1>6. PICK y \in U : NameOf(y) \in Edges(x)
  BY <1>5
<1>7. y \in Behind(x) /\ Behind(y) \subseteq Behind(x)
  BY <1>6, EdgeIsBehind, BehindIsTransitive
<1>8. y \in V
  BY <1>5, <1>6, <1>7, BehindIsTransitive
<1>9. Behind(y) = Behind(x)
  <2>1. Behind(y) \in Ends /\ Behind(x) \subseteq pending /\ Behind(y) \subseteq pending
    BY <1>8, <1>a
  <2>2. ~(<<Behind(y), Behind(x)>> \in StrictSubsetOrdering(pending))
    BY <1>4, <1>5, <2>1
  <2>3. QED
    BY <2>1, <2>2, <1>7 DEF StrictSubsetOrdering
<1>10. QED
  BY <1>7, <1>8, <1>9

\* When no name is shared, exactly the plugins with a dependency cycle behind
\* them are refused, whatever the graph.
THEOREM RefusedForACycle == Spec => []OrderedIffNoCycleBehind
<1>1. ResolveInv => OrderedIffNoCycleBehind
  <2>1. SUFFICES ASSUME ResolveInv, pc = "done", Distinct, NEW d \in pending
                 PROVE  d \in Range(sorted) <=> ~\E e \in Behind(d) \cup {d} : e \in Behind(e)
    <3>1. \A x : Behind(x) \subseteq pending
      BY DEF Behind
    <3>2. ASSUME NEW d \in pending
          PROVE  (\E e \in Behind(d) \cup {d} : e \in [x \in pending |-> Behind(x)][e])
                   <=> \E e \in Behind(d) \cup {d} : e \in Behind(e)
      BY <3>1
    <3>3. QED
      BY <3>2 DEF OrderedIffNoCycleBehind
  <2>a. TypeOK /\ Phases /\ FromPending /\ Emitted /\ KahnInv
    BY <2>1 DEF ResolveInv
  <2>2. Single
    BY <2>1, <2>a DEF Single, Distinct, TypeOK
  <2>3. Ordered /\ Stuck /\ Follows /\ left = <<>>
    BY <2>1, <2>2, <2>a DEF KahnInv, Phases
  <2>4. /\ Len(order) = Len(sorted) /\ Len(sorted) \in Nat
        /\ DOMAIN order = 1 .. Len(sorted) /\ DOMAIN sorted = 1 .. Len(sorted)
    BY <2>3, <2>a, LenProperties DEF Follows, TypeOK
  <2>5. \A i \in DOMAIN sorted : sorted[i] \in pending /\ NameOf(sorted[i]) = order[i]
    BY <2>3, <2>a DEF Emitted, Follows
  <2>6. \A x \in pending : x \in Range(sorted) <=> NameOf(x) \in Range(order)
    <3>1. ASSUME NEW x \in pending, NEW i \in DOMAIN sorted
          PROVE  sorted[i] = x <=> order[i] = NameOf(x)
      BY <3>1, <2>2, <2>5 DEF Single
    <3>2. QED
      BY <3>1, <2>4 DEF Range
  <2>7. IsFiniteSet(pending)
    BY <2>a, DirAssumption, FS_Subset DEF TypeOK
  <2>8. ASSUME NEW i \in DOMAIN sorted
        PROVE  Behind(sorted[i]) \subseteq {sorted[j] : j \in 1 .. i - 1}
    <3> DEFINE T == {sorted[j] : j \in 1 .. i - 1}
    <3>1. T \in SUBSET pending
      BY <2>4, <2>5
    <3>2. ASSUME NEW x \in T \cup {sorted[i]}, NEW y \in pending, NameOf(y) \in Edges(x)
          PROVE  y \in T
      <4>1. PICK k \in 1 .. i : x = sorted[k]
        BY <3>2, <2>4, <2>8
      <4>2. k \in DOMAIN sorted /\ k \in DOMAIN order
        BY <4>1, <2>4, <2>8
      <4>3. PICK j \in 1 .. k - 1 : order[j] = NameOf(y)
        BY <4>1, <4>2, <3>2, <2>3, <2>5 DEF Ordered
      <4>4. j \in 1 .. i - 1 /\ j \in DOMAIN sorted
        BY <4>1, <4>3, <2>4, <2>8
      <4>5. sorted[j] = y
        BY <4>3, <4>4, <2>2, <2>5 DEF Single
      <4>6. QED
        BY <4>4, <4>5
    <3>3. QED
      BY <3>1, <3>2 DEF Behind
  <2>9. ASSUME NEW i \in DOMAIN sorted PROVE sorted[i] \notin Behind(sorted[i])
    <3>1. SUFFICES ASSUME NEW j \in 1 .. i - 1, sorted[j] = sorted[i] PROVE FALSE
      BY <2>8
    <3>2. j \in DOMAIN sorted /\ j # i
      BY <3>1, <2>4
    <3>3. QED
      BY <3>1, <3>2, <2>a DEF Emitted
  <2>10. ASSUME d \in Range(sorted), NEW e \in Behind(d) \cup {d}
         PROVE  e \notin Behind(e)
    <3>1. PICK i \in DOMAIN sorted : sorted[i] = d
      BY <2>10 DEF Range
    <3>2. PICK j \in 1 .. i : e = sorted[j]
      BY <2>8, <2>10, <3>1, <2>4
    <3>3. j \in DOMAIN sorted
      BY <3>1, <3>2, <2>4
    <3>4. QED
      BY <3>2, <3>3, <2>9
  <2>11. ASSUME d \notin Range(sorted) PROVE \E e \in Behind(d) : e \in Behind(e)
    <3> DEFINE U == pending \ Range(sorted)
    <3>1. ASSUME NEW x \in U PROVE \E y \in U : NameOf(y) \in Edges(x)
      <4>1. PICK n \in Edges(x) : n \in Names(pending) \ Range(order)
        BY <2>3, <2>6 DEF Stuck
      <4>2. PICK y \in pending : n = NameOf(y)
        BY <4>1 DEF Names
      <4>3. y \in U
        BY <4>1, <4>2, <2>6
      <4>4. QED
        BY <4>1, <4>2, <4>3
    <3>2. d \in U /\ U \in SUBSET pending
      BY <2>11
    <3> HIDE DEF U
    <3>3. QED
      BY <3>1, <3>2, <2>7, WaitersHaveACycle
  <2>12. QED
    BY <2>10, <2>11
<1>2. QED
  BY <1>1, ResolveAlways, PTL

=============================================================================
