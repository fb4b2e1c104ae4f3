------------------------------ MODULE LuaProofs ------------------------------
(***************************************************************************)
(* Two promises of the Lua backend.  First what the isolation modes keep   *)
(* apart, for any set of plugins and whatever their manifests come to say  *)
(* from one load to the next: everything a plugin is found in (its         *)
(* surface, its running instance, the group it was loaded with) is the     *)
(* state the pool records under its name.  Then what a call of one such    *)
(* state is charged, for every limit, every interval of the hook and any   *)
(* number of calls on any number of threads.                               *)
(***************************************************************************)
EXTENDS LuaStates, LuaBudget, SequenceTheorems, FiniteSetTheorems, WellFoundedInduction, TLAPS

OneHome ==
    /\ \A n \in DOMAIN surfaces : n \in DOMAIN pool /\ surfaces[n] = pool[n]
    /\ \A n \in DOMAIN live : live[n].state = pool[n]
    /\ \A n \in DOMAIN built : built[n].state = pool[n]

GroupsKnown ==
    \A k \in DOMAIN groups :
      /\ mode # "plugin"
      /\ \E x \in DOMAIN pool \cap DOMAIN items : k = GroupKey(x) /\ groups[k] = pool[x]

PoolApart == \A n, m \in DOMAIN pool : n # m /\ pool[n] = pool[m] => MayShare(n, m)

\* What is poisoned is in use, and was poisoned under one of those the mode lets use it.
Contained ==
    /\ \A s \in DOMAIN poisoned : \E n \in DOMAIN pool : pool[n] = s
    /\ \A n \in DOMAIN pool : pool[n] \in DOMAIN poisoned =>
         poisoned[pool[n]].by = n \/ MayShare(n, poisoned[pool[n]].by)

WiredToSurfaces ==
    /\ \A n \in DOMAIN live : live[n].wired \subseteq live[n].names \cap DOMAIN surfaces
    /\ \A n \in DOMAIN built : built[n].wired \subseteq built[n].names \cap DOMAIN surfaces

\* A load leaves alone what runs already, and nothing of it outlives it.
LoadIsItsOwn ==
    /\ todo = Idle => DOMAIN built = {} /\ DOMAIN groups = {}
    /\ todo # Idle => todo \in Seq(DOMAIN items) /\ DOMAIN items \cap DOMAIN live = {}
    /\ DOMAIN built \subseteq DOMAIN items
    /\ Edges(items, DOMAIN items) \subseteq ties

Published ==
    "load_dir" \notin escaped => DOMAIN surfaces \subseteq DOMAIN live \cup DOMAIN built

StatesInv ==
    /\ TypeOK /\ OneHome /\ GroupsKnown /\ PoolApart /\ Contained
    /\ WiredToSurfaces /\ LoadIsItsOwn /\ Published

-----------------------------------------------------------------------------
(* Components are the classes of an equivalence.                           *)

LEMMA ComponentHasItself ==
  ASSUME NEW S, NEW E, NEW n \in S
  PROVE  n \in Component(n, S, E)
BY DEF Component

LEMMA ComponentIsSymmetric ==
  ASSUME NEW S, NEW E, NEW n \in S, NEW m \in Component(n, S, E)
  PROVE  n \in Component(m, S, E)
<1>1. SUFFICES ASSUME NEW T \in SUBSET S, m \in T, Closed(T, S, E), n \notin T
               PROVE  FALSE
  BY DEF Component
<1>2. n \in S \ T /\ S \ T \in SUBSET S
  BY <1>1
<1>3. Closed(S \ T, S, E)
  BY <1>1 DEF Closed
<1>4. m \in S \ T
  BY <1>2, <1>3 DEF Component
<1>5. QED
  BY <1>1, <1>4

LEMMA ComponentIsTransitive ==
  ASSUME NEW S, NEW E, NEW n \in S, NEW m \in Component(n, S, E), NEW k \in Component(m, S, E)
  PROVE  k \in Component(n, S, E)
BY DEF Component

\* What is connected stays connected among more plugins and by more dependencies.
LEMMA ComponentGrows ==
  ASSUME NEW S, NEW R, S \subseteq R, NEW E, NEW F, E \subseteq F,
         NEW n \in S, NEW m \in Component(n, S, E)
  PROVE  m \in Component(n, R, F)
<1>1. SUFFICES ASSUME NEW T \in SUBSET R, n \in T, Closed(T, R, F)
               PROVE  m \in T
  BY DEF Component
<1>2. T \cap S \in SUBSET S /\ n \in T \cap S
  BY <1>1
<1>3. Closed(T \cap S, S, E)
  BY <1>1 DEF Closed
<1>4. QED
  BY <1>2, <1>3 DEF Component

LEMMA SharingIsAnEquivalence ==
  ASSUME NEW n \in Name, NEW m \in Name, NEW k \in Name
  PROVE  /\ MayShare(n, m) => MayShare(m, n)
         /\ MayShare(n, m) /\ MayShare(m, k) => MayShare(n, k)
<1>1. m \in Component(n, Name, ties) => n \in Component(m, Name, ties)
  BY ComponentIsSymmetric
<1>2. m \in Component(n, Name, ties) /\ k \in Component(m, Name, ties)
        => k \in Component(n, Name, ties)
  BY ComponentIsTransitive
<1>3. QED
  BY <1>1, <1>2 DEF MayShare

\* Dependencies seen are never forgotten: who may share a state still may.
LEMMA SharingGrows ==
  ASSUME mode' = mode, ties \subseteq ties', NEW n \in Name, NEW m \in Name, MayShare(n, m)
  PROVE  MayShare(n, m)'
<1>1. ASSUME m \in Component(n, Name, ties) PROVE m \in Component(n, Name, ties')
  BY <1>1, ComponentGrows
<1>2. QED
  BY <1>1 DEF MayShare

-----------------------------------------------------------------------------
(* A state that is not in use can always be found.                         *)

\* A set of numbers that is not empty has a least one.
LEMMA LeastExists ==
  ASSUME NEW S, S \subseteq Nat, S # {}
  PROVE  \E x \in S : \A y \in S : x =< y
<1>1. PICK x \in S : \A y \in S : ~(<<y, x>> \in OpToRel(<, Nat))
  BY NatLessThanWellFounded, WFMin
<1>2. \A y \in S : ~(y < x)
  BY <1>1 DEF OpToRel
<1>3. QED
  BY <1>2

\* Whoever refers to a state refers to one the pool records.
LEMMA HeldIsPool ==
  ASSUME StatesInv, NEW s
  PROVE  s \in Held <=> \E m \in DOMAIN pool : pool[m] = s
<1>1. Range(pool) = {pool[m] : m \in DOMAIN pool}
  BY DEF Range
<1>2. ASSUME s \in Range(surfaces) PROVE \E m \in DOMAIN pool : pool[m] = s
  BY <1>2 DEF Range, StatesInv, OneHome
<1>3. ASSUME s \in {live[n].state : n \in DOMAIN live}
      PROVE  \E m \in DOMAIN pool : pool[m] = s
  BY <1>3 DEF StatesInv, OneHome, TypeOK
<1>4. ASSUME s \in Range(groups) PROVE \E m \in DOMAIN pool : pool[m] = s
  BY <1>4 DEF Range, StatesInv, GroupsKnown
<1>5. ASSUME s \in {built[n].state : n \in DOMAIN built}
      PROVE  \E m \in DOMAIN pool : pool[m] = s
  BY <1>5 DEF StatesInv, OneHome, TypeOK
<1>6. QED
  BY <1>1, <1>2, <1>3, <1>4, <1>5 DEF Held

LEMMA FreshState ==
  ASSUME StatesInv
  PROVE  Unused \in State \ Held
<1> DEFINE c == Cardinality(Name)
           R == {pool[m] : m \in DOMAIN pool}
<1>1. IsFiniteSet(DOMAIN pool) /\ Cardinality(DOMAIN pool) <= c /\ c \in Nat
  BY NameAssumption, FS_Subset, FS_CardinalityType DEF StatesInv, TypeOK
<1>2. IsFiniteSet(R) /\ Cardinality(R) <= Cardinality(DOMAIN pool)
  <2>1. [m \in DOMAIN pool |-> pool[m]] \in Surjection(DOMAIN pool, R)
    BY DEF Surjection
  <2>2. QED
    BY <2>1, <1>1, FS_Surjection
<1>3. IsFiniteSet(State) /\ Cardinality(State) = 2 * c + 1
  BY <1>1, FS_Interval DEF State
<1>4. Held \subseteq R
  BY HeldIsPool
<1>5. State \ Held # {}
  <2>1. SUFFICES ASSUME State \subseteq Held PROVE FALSE
    OBVIOUS
  <2>2. Cardinality(State) <= Cardinality(R)
    BY <2>1, <1>2, <1>4, FS_Subset
  <2>3. Cardinality(R) \in Nat /\ Cardinality(DOMAIN pool) \in Nat
    BY <1>1, <1>2, FS_CardinalityType
  <2>4. QED
    BY <1>1, <1>2, <1>3, <2>2, <2>3
<1>6. State \ Held \subseteq Nat
  BY <1>1 DEF State
<1>7. PICK x \in State \ Held : \A y \in State \ Held : x =< y
  BY <1>5, <1>6, LeastExists
<1>8. \E s \in State : s \notin Held /\ \A t \in State \ Held : s =< t
  BY <1>7
<1>9. QED
  BY <1>8 DEF Unused

\* state_for: the state recorded under the name, or else one that only plugins
\* the mode lets it meet are in.
LEMMA StateForHome ==
  ASSUME StatesInv, NEW n \in Name, n \in DOMAIN items \/ n \in DOMAIN pool
  PROVE  /\ StateFor(n) \in State
         /\ n \in DOMAIN pool => StateFor(n) = pool[n]
         /\ \A m \in DOMAIN pool \ {n} :
              pool[m] = StateFor(n) => MayShare(n, m) /\ MayShare(m, n)
<1> DEFINE s == StateFor(n)
<1>a. TypeOK /\ PoolApart /\ GroupsKnown /\ DOMAIN pool \subseteq Name
  BY DEF StatesInv, TypeOK
<1>1. CASE n \in DOMAIN pool
  <2>1. s = pool[n] /\ s \in State
    BY <1>1, <1>a DEF StateFor, TypeOK, Range
  <2>2. QED
    BY <2>1, <1>1, <1>a DEF PoolApart
<1>2. CASE n \notin DOMAIN pool /\ mode # "plugin" /\ GroupKey(n) \in DOMAIN groups
  <2>1. s = groups[GroupKey(n)]
    BY <1>2 DEF StateFor
  <2>2. PICK x \in DOMAIN pool \cap DOMAIN items :
             GroupKey(n) = GroupKey(x) /\ s = pool[x]
    BY <2>1, <1>2, <1>a DEF GroupsKnown
  <2>3. s \in State
    BY <2>2, <1>a DEF TypeOK, Range
  <2>4. MayShare(n, x)
    <3>1. mode = "shared" \/ mode = "group"
      BY <1>a, <1>2, ModesAssumption DEF TypeOK
    <3>2. CASE mode = "group"
      <4>1. /\ Component(n, DOMAIN items, Edges(items, DOMAIN items))
                 = Component(x, DOMAIN items, Edges(items, DOMAIN items))
            /\ DOMAIN items \subseteq Name /\ Edges(items, DOMAIN items) \subseteq ties
        BY <3>2, <2>2, <1>a DEF GroupKey, TypeOK, StatesInv, LoadIsItsOwn
      <4>2. x \in Component(n, DOMAIN items, Edges(items, DOMAIN items))
        BY <4>1, <2>2, ComponentHasItself
      <4>3. x \in Component(n, Name, ties)
        BY <4>1, <4>2, <1>2, ComponentGrows
      <4>4. QED
        BY <4>3, <3>2 DEF MayShare
    <3>3. QED
      BY <3>1, <3>2 DEF MayShare
  <2>5. ASSUME NEW m \in DOMAIN pool \ {n}, pool[m] = s
        PROVE  MayShare(n, m) /\ MayShare(m, n)
    <3>1. m = x \/ MayShare(x, m)
      BY <2>2, <2>5, <1>a DEF PoolApart
    <3>2. MayShare(n, m)
      BY <3>1, <2>4, <2>2, <1>a, SharingIsAnEquivalence
    <3>3. QED
      BY <3>2, <1>a, SharingIsAnEquivalence
  <2>6. QED
    BY <2>3, <2>5, <1>2
<1>3. CASE n \notin DOMAIN pool /\ ~(mode # "plugin" /\ GroupKey(n) \in DOMAIN groups)
  <2>1. s = Unused
    BY <1>3 DEF StateFor
  <2>2. s \in State /\ s \notin Held
    BY <2>1, FreshState
  <2>3. \A m \in DOMAIN pool : pool[m] # s
    BY <2>2, HeldIsPool
  <2>4. QED
    BY <2>2, <2>3, <1>3
<1>4. QED
  BY <1>1, <1>2, <1>3

-----------------------------------------------------------------------------
(* The steps.  Recording a state under a name is most of a load or a reload. *)

\* At most the state s is poisoned, and then under n.
Poisons(n, s) ==
    \/ poisoned' = poisoned
    \/ \E how \in {"code", "wiring"} : poisoned' = Poison(s, n, how)

\* The state s is what the pool has for n, and nothing else of it changes.
Homes(n, s) ==
    /\ DOMAIN pool' = DOMAIN pool \cup {n}
    /\ pool'[n] = s
    /\ \A m \in DOMAIN pool \ {n} : pool'[m] = pool[m]

LEMMA RecordKeeps ==
  ASSUME StatesInv, NEW n \in Name, n \in DOMAIN items \/ n \in DOMAIN pool,
         mode' = mode, ties' = ties,
         Homes(n, StateFor(n)), Poisons(n, StateFor(n))
  PROVE  /\ DOMAIN pool' = DOMAIN pool \cup {n}
         /\ \A m \in DOMAIN pool : pool'[m] = pool[m]
         /\ pool'[n] = StateFor(n)
         /\ Range(pool') \subseteq State
         /\ DOMAIN poisoned' \subseteq State /\ Range(poisoned') \subseteq Panic
         /\ PoolApart' /\ Contained'
<1> DEFINE s == StateFor(n)
<1>a. TypeOK /\ PoolApart /\ Contained /\ DOMAIN pool \subseteq Name
      /\ Range(pool) \subseteq State
      /\ DOMAIN poisoned \subseteq State /\ Range(poisoned) \subseteq Panic
  BY DEF StatesInv, TypeOK
<1>b. /\ s \in State
      /\ n \in DOMAIN pool => s = pool[n]
      /\ \A m \in DOMAIN pool \ {n} : pool[m] = s => MayShare(n, m) /\ MayShare(m, n)
  BY StateForHome
<1>c. Poisons(n, s) /\ Homes(n, s)
  OBVIOUS
<1> HIDE DEF s
<1>1. /\ DOMAIN pool' = DOMAIN pool \cup {n}
      /\ pool'[n] = s
      /\ \A m \in DOMAIN pool \ {n} : pool'[m] = pool[m]
  BY <1>c DEF Homes
<1>2. \A m \in DOMAIN pool : pool'[m] = pool[m]
  BY <1>1, <1>b
<1>3. Range(pool') \subseteq State
  BY <1>1, <1>a, <1>b DEF Range
<1>4. /\ DOMAIN poisoned' \subseteq DOMAIN poisoned \cup {s}
      /\ \A t \in DOMAIN poisoned' : t # s => poisoned'[t] = poisoned[t]
      /\ s \in DOMAIN poisoned' => \/ s \in DOMAIN poisoned /\ poisoned'[s] = poisoned[s]
                                   \/ poisoned'[s] \in Panic /\ poisoned'[s].by = n
  BY <1>c DEF Poisons, Poison, Put, Panic
<1>5. DOMAIN poisoned' \subseteq State /\ Range(poisoned') \subseteq Panic
  <2>1. ASSUME NEW t \in DOMAIN poisoned' PROVE poisoned'[t] \in Panic
    BY <1>4, <1>a DEF Range
  <2>2. QED
    BY <2>1, <1>4, <1>a, <1>b DEF Range
<1>6. \A k, m \in Name : MayShare(k, m)' <=> MayShare(k, m)
  BY DEF MayShare
<1>7. PoolApart'
  <2>1. SUFFICES ASSUME NEW k \in DOMAIN pool', NEW m \in DOMAIN pool',
                        k # m, pool'[k] = pool'[m]
                 PROVE  MayShare(k, m)
    BY <1>1, <1>6, <1>a DEF PoolApart
  <2>2. CASE k = n
    BY <2>1, <2>2, <1>1, <1>b
  <2>3. CASE m = n
    BY <2>1, <2>3, <1>1, <1>b
  <2>4. CASE k # n /\ m # n
    BY <2>1, <2>4, <1>1, <1>a DEF PoolApart
  <2>5. QED
    BY <2>2, <2>3, <2>4
<1>8. \A t \in DOMAIN poisoned' : \E m \in DOMAIN pool' : pool'[m] = t
  BY <1>1, <1>2, <1>4, <1>a DEF Contained
<1>9. ASSUME NEW m \in DOMAIN pool', pool'[m] \in DOMAIN poisoned'
      PROVE  poisoned'[pool'[m]].by = m \/ MayShare(m, poisoned'[pool'[m]].by)
  <2> DEFINE c == poisoned[s].by
  <2>1. CASE pool'[m] # s
    <3>1. m \in DOMAIN pool /\ pool'[m] = pool[m] /\ poisoned'[pool[m]] = poisoned[pool[m]]
          /\ pool[m] \in DOMAIN poisoned
      BY <2>1, <1>9, <1>1, <1>4
    <3>2. QED
      BY <3>1, <1>a DEF Contained
  <2>2. CASE pool'[m] = s /\ s \in DOMAIN poisoned /\ poisoned'[s] = poisoned[s]
    <3>1. PICK k \in DOMAIN pool : pool[k] = s
      BY <2>2, <1>a DEF Contained
    <3>2. c = k \/ MayShare(k, c)
      BY <3>1, <2>2, <1>a DEF Contained
    <3>3. c \in Name /\ m \in Name /\ k \in Name
      BY <2>2, <1>1, <1>a DEF Range, Panic
    <3>4. m = k \/ MayShare(m, k)
      <4>1. CASE m = n
        BY <4>1, <3>1, <1>b
      <4>2. CASE m # n
        BY <4>2, <2>2, <3>1, <1>1, <1>a DEF PoolApart
      <4>3. QED
        BY <4>1, <4>2
    <3>5. c = m \/ MayShare(m, c)
      BY <3>2, <3>3, <3>4, SharingIsAnEquivalence
    <3>6. QED
      BY <3>5, <2>2
  <2>3. CASE pool'[m] = s /\ poisoned'[s].by = n
    BY <2>3, <1>1, <1>b
  <2>4. QED
    BY <2>1, <2>2, <2>3, <1>4, <1>9
<1>10. Contained'
  <2>1. \A m \in DOMAIN pool' : pool'[m] \in DOMAIN poisoned' =>
          poisoned'[pool'[m]].by = m \/ MayShare(m, poisoned'[pool'[m]].by)
    BY <1>9
  <2>2. QED
    BY <1>8, <2>1 DEF Contained, MayShare
<1>11. QED
  BY <1>1, <1>2, <1>3, <1>5, <1>7, <1>10 DEF s

LEMMA NotIdle == ASSUME NEW s \in Seq(Name) PROVE s # Idle
<1>1. SUFFICES ASSUME s = Idle PROVE FALSE
  OBVIOUS
<1>2. Len(s) = 1 /\ s[1] = "idle"
  BY <1>1 DEF Idle
<1>3. s[1] \in Name
  BY <1>2, ElementOfSeq
<1>4. QED
  BY <1>2, <1>3, NameAssumption

\* The plugin a load comes to next, and what is left of the load after it.
LEMMA NextMember ==
  ASSUME StatesInv, todo \notin {Idle, <<>>}
  PROVE  /\ Head(todo) \in DOMAIN items /\ Head(todo) \in Name /\ Head(todo) \notin DOMAIN live
         /\ Tail(todo) \in Seq(DOMAIN items) /\ Tail(todo) \in Seq(Name) /\ Tail(todo) # Idle
<1>1. todo \in Seq(DOMAIN items) /\ todo \in Seq(Name) /\ DOMAIN items \cap DOMAIN live = {}
  BY DEF StatesInv, LoadIsItsOwn, TypeOK
<1>2. Head(todo) \in DOMAIN items /\ Head(todo) \in Name
      /\ Tail(todo) \in Seq(DOMAIN items) /\ Tail(todo) \in Seq(Name)
  BY <1>1, HeadTailProperties
<1>3. QED
  BY <1>1, <1>2, NotIdle

\* The groups are still known when the state of the member n is recorded.
LEMMA GroupsKept ==
  ASSUME StatesInv, NEW n \in DOMAIN items, NEW s,
         mode' = mode, items' = items,
         DOMAIN pool' = DOMAIN pool \cup {n}, pool'[n] = s,
         \A m \in DOMAIN pool : pool'[m] = pool[m], s \in State,
         \/ groups' = groups
         \/ mode # "plugin" /\ groups' = Put(groups, GroupKey(n), s)
  PROVE  /\ GroupsKnown'
         /\ DOMAIN groups' \subseteq SUBSET Name
         /\ Range(groups') \subseteq State
<1>a. GroupsKnown /\ DOMAIN groups \subseteq SUBSET Name /\ Range(groups) \subseteq State
      /\ DOMAIN items \subseteq Name
  BY DEF StatesInv, TypeOK
<1>1. \A x : GroupKey(x)' = GroupKey(x)
  BY DEF GroupKey
<1>2. GroupKey(n) \in SUBSET Name
  BY <1>a DEF GroupKey, Component
<1>3. CASE groups' = groups
  <2>1. ASSUME NEW k \in DOMAIN groups
        PROVE  /\ mode # "plugin"
               /\ \E x \in DOMAIN pool' \cap DOMAIN items : k = GroupKey(x) /\ groups[k] = pool'[x]
    <3>1. PICK x \in DOMAIN pool \cap DOMAIN items : k = GroupKey(x) /\ groups[k] = pool[x]
      BY <1>a DEF GroupsKnown
    <3>2. QED
      BY <3>1, <1>a DEF GroupsKnown
  <2>2. QED
    BY <2>1, <1>1, <1>3, <1>a DEF GroupsKnown
<1>4. CASE mode # "plugin" /\ groups' = Put(groups, GroupKey(n), s)
  <2>1. /\ DOMAIN groups' = DOMAIN groups \cup {GroupKey(n)}
        /\ groups'[GroupKey(n)] = s
        /\ \A k \in DOMAIN groups \ {GroupKey(n)} : groups'[k] = groups[k]
    BY <1>4 DEF Put
  <2>2. ASSUME NEW k \in DOMAIN groups'
        PROVE  \E x \in DOMAIN pool' \cap DOMAIN items : k = GroupKey(x) /\ groups'[k] = pool'[x]
    <3>1. CASE k = GroupKey(n)
      BY <3>1, <2>1
    <3>2. CASE k # GroupKey(n)
      <4>1. PICK x \in DOMAIN pool \cap DOMAIN items : k = GroupKey(x) /\ groups[k] = pool[x]
        BY <3>2, <2>1, <2>2, <1>a DEF GroupsKnown
      <4>2. groups'[k] = groups[k]
        BY <3>2, <2>1, <2>2
      <4>3. QED
        BY <4>1, <4>2
    <3>3. QED
      BY <3>1, <3>2
  <2>3. GroupsKnown'
    BY <2>2, <1>1, <1>4 DEF GroupsKnown
  <2>4. QED
    BY <2>1, <2>3, <1>2, <1>a DEF Range
<1>5. QED
  BY <1>3, <1>4

\* A member the backend refuses, or that fails without a panic it was given no state for.
LEMMA FailingKeepsStates ==
  ASSUME StatesInv, todo \notin {Idle, <<>>}, Fail(Head(todo)),
         UNCHANGED <<pool, surfaces, poisoned, groups>>
  PROVE  StatesInv'
<1> DEFINE n == Head(todo)
<1>1. /\ n \in DOMAIN items /\ n \in Name /\ n \notin DOMAIN live
      /\ Tail(todo) \in Seq(DOMAIN items) /\ Tail(todo) \in Seq(Name) /\ Tail(todo) # Idle
  BY NextMember
<1> HIDE DEF n
<1>2. /\ failed' = failed \cup {n} /\ todo' = Tail(todo)
      /\ UNCHANGED <<mode, live, items, built, escaped, ties, pool, surfaces, poisoned, groups>>
  BY DEF Fail, n
<1>3. TypeOK'
  BY <1>1, <1>2 DEF StatesInv, TypeOK
<1>4. OneHome' /\ WiredToSurfaces' /\ Published'
  BY <1>2 DEF StatesInv, OneHome, WiredToSurfaces, Published
<1>5. PoolApart' /\ Contained'
  BY <1>2 DEF StatesInv, PoolApart, Contained, MayShare
<1>6. GroupsKnown'
  <2>1. \A x : GroupKey(x)' = GroupKey(x)
    BY <1>2 DEF GroupKey
  <2>2. QED
    BY <1>2, <2>1 DEF StatesInv, GroupsKnown
<1>7. LoadIsItsOwn'
  <2>1. todo # Idle
    OBVIOUS
  <2>2. QED
    BY <1>1, <1>2, <2>1 DEF StatesInv, LoadIsItsOwn
<1>8. QED
  BY <1>3, <1>4, <1>5, <1>6, <1>7 DEF StatesInv

\* A member that fails has had its state recorded, or was refused one.
LEMMA FailureKeepsStates ==
  ASSUME StatesInv, MemberFails(Head(todo)), todo \notin {Idle, <<>>}
  PROVE  StatesInv'
<1> DEFINE n == Head(todo)
           s == StateFor(n)
<1>1. /\ n \in DOMAIN items /\ n \in Name /\ n \notin DOMAIN live
      /\ Tail(todo) \in Seq(DOMAIN items) /\ Tail(todo) \in Seq(Name) /\ Tail(todo) # Idle
  BY NextMember
<1>a. todo # Idle
  OBVIOUS
<1> HIDE DEF n
<1>2. Fail(n) /\ (\/ UNCHANGED <<backend, groups>>
                  \/ Recorded(n, s) /\ UNCHANGED surfaces /\ Poisons(n, s))
  BY DEF MemberFails, Poisons, n
<1>3. CASE UNCHANGED <<backend, groups>>
  BY <1>2, <1>3, FailingKeepsStates DEF backend, n
<1>4. CASE Recorded(n, s) /\ UNCHANGED surfaces /\ Poisons(n, s)
  <2>1. /\ UNCHANGED <<mode, live, items, built, escaped, ties, surfaces>>
        /\ failed' = failed \cup {n} /\ todo' = Tail(todo)
    BY <1>2, <1>4 DEF Fail
  <2>2. /\ DOMAIN pool' = DOMAIN pool \cup {n}
        /\ \A m \in DOMAIN pool : pool'[m] = pool[m]
        /\ pool'[n] = s
        /\ Range(pool') \subseteq State
        /\ DOMAIN poisoned' \subseteq State /\ Range(poisoned') \subseteq Panic
        /\ PoolApart' /\ Contained'
    BY <1>1, <1>4, <2>1, RecordKeeps DEF Recorded, Homes, Put
  <2>3. s \in State
    BY <1>1, StateForHome
  <2>4. GroupsKnown' /\ DOMAIN groups' \subseteq SUBSET Name /\ Range(groups') \subseteq State
    <3>1. groups' = groups \/ (mode # "plugin" /\ groups' = Put(groups, GroupKey(n), s))
      BY <1>4 DEF Recorded
    <3> HIDE DEF s
    <3>2. QED
      BY <1>1, <2>1, <2>2, <2>3, <3>1, GroupsKept
  <2> HIDE DEF s
  <2>5. TypeOK'
    BY <1>1, <2>1, <2>2, <2>4 DEF StatesInv, TypeOK
  <2>6. OneHome'
    BY <2>1, <2>2 DEF StatesInv, OneHome, TypeOK
  <2>7. WiredToSurfaces' /\ Published'
    BY <2>1 DEF StatesInv, WiredToSurfaces, Published
  <2>8. LoadIsItsOwn'
    BY <1>1, <2>1, <1>a, <2>2 DEF StatesInv, LoadIsItsOwn
  <2>9. QED
    BY <2>2, <2>4, <2>5, <2>6, <2>7, <2>8 DEF StatesInv
<1>5. QED
  BY <1>2, <1>3, <1>4

\* A member that loads is wired to exports that exist, in the state it is given.
LEMMA LoadingKeepsStates ==
  ASSUME StatesInv, MemberLoads(Head(todo)), todo \notin {Idle, <<>>}
  PROVE  StatesInv'
<1> DEFINE n == Head(todo)
           s == StateFor(n)
           b == [state |-> s, names |-> Deps(n), wired |-> Deps(n) \cap Proxies]
<1>1. /\ n \in DOMAIN items /\ n \in Name /\ n \notin DOMAIN live
      /\ Tail(todo) \in Seq(DOMAIN items) /\ Tail(todo) \in Seq(Name) /\ Tail(todo) # Idle
  BY NextMember
<1>a. todo # Idle
  OBVIOUS
<1> HIDE DEF n
<1>2. /\ UNCHANGED <<mode, live, items, failed, escaped, ties, poisoned>>
      /\ Recorded(n, s)
      /\ surfaces' = surfaces \/ surfaces' = Put(surfaces, n, s)
      /\ built' = Put(built, n, b)
      /\ todo' = Tail(todo)
  BY DEF MemberLoads, n
<1>3. /\ DOMAIN pool' = DOMAIN pool \cup {n}
      /\ \A m \in DOMAIN pool : pool'[m] = pool[m]
      /\ pool'[n] = s
      /\ Range(pool') \subseteq State
      /\ DOMAIN poisoned' \subseteq State /\ Range(poisoned') \subseteq Panic
      /\ PoolApart' /\ Contained'
  <2>1. Poisons(n, s)
    BY <1>2 DEF Poisons
  <2>2. QED
    BY <1>1, <1>2, <2>1, RecordKeeps DEF Recorded, Homes, Put
<1>4. s \in State
  BY <1>1, StateForHome
<1>5. GroupsKnown' /\ DOMAIN groups' \subseteq SUBSET Name /\ Range(groups') \subseteq State
  <2>1. groups' = groups \/ (mode # "plugin" /\ groups' = Put(groups, GroupKey(n), s))
    BY <1>2 DEF Recorded
  <2> HIDE DEF s
  <2>2. QED
    BY <1>1, <1>2, <1>3, <1>4, <2>1, GroupsKept
<1> HIDE DEF s
<1>6. b \in Instance /\ b.state = s /\ b.wired \subseteq b.names \cap DOMAIN surfaces
  <2>1. items[n] \in Dependencies
    BY <1>1 DEF StatesInv, TypeOK, Range
  <2>2. Deps(n) \subseteq Name
    BY <2>1 DEF Deps, Named, Dependencies
  <2>3. QED
    BY <1>4, <2>2 DEF Instance, Proxies
<1> HIDE DEF b
<1>7. /\ DOMAIN built' = DOMAIN built \cup {n}
      /\ built'[n] = b
      /\ \A m \in DOMAIN built \ {n} : built'[m] = built[m]
  BY <1>2 DEF Put
<1>8. /\ DOMAIN surfaces \subseteq DOMAIN surfaces'
      /\ DOMAIN surfaces' \subseteq DOMAIN surfaces \cup {n}
      /\ \A m \in DOMAIN surfaces' : m # n => surfaces'[m] = surfaces[m]
      /\ n \in DOMAIN surfaces' => surfaces'[n] = s
  <2>1. n \in DOMAIN surfaces => surfaces[n] = s
    BY <1>3 DEF StatesInv, OneHome
  <2>2. QED
    BY <1>2, <2>1 DEF Put
<1>9. TypeOK'
  <2>1. DOMAIN surfaces' \subseteq Name /\ Range(surfaces') \subseteq State
    BY <1>8, <1>1, <1>4 DEF StatesInv, TypeOK, Range
  <2>2. DOMAIN built' \subseteq Name /\ Range(built') \subseteq Instance
    BY <1>7, <1>1, <1>6 DEF StatesInv, TypeOK, Range
  <2>3. DOMAIN live \cup DOMAIN built' \subseteq DOMAIN pool' /\ DOMAIN pool' \subseteq Name
    BY <1>7, <1>3, <1>1 DEF StatesInv, TypeOK
  <2>4. QED
    BY <1>1, <1>2, <1>3, <1>5, <2>1, <2>2, <2>3 DEF StatesInv, TypeOK
<1>10. OneHome'
  <2>1. \A m \in DOMAIN surfaces' : m \in DOMAIN pool' /\ surfaces'[m] = pool'[m]
    BY <1>8, <1>3 DEF StatesInv, OneHome
  <2>2. \A m \in DOMAIN live : live[m].state = pool'[m]
    BY <1>3 DEF StatesInv, OneHome, TypeOK
  <2>3. \A m \in DOMAIN built' : built'[m].state = pool'[m]
    BY <1>3, <1>6, <1>7 DEF StatesInv, OneHome, TypeOK
  <2>4. QED
    BY <1>2, <2>1, <2>2, <2>3 DEF OneHome
<1>11. WiredToSurfaces'
  BY <1>2, <1>6, <1>7, <1>8 DEF StatesInv, WiredToSurfaces
<1>12. Published'
  BY <1>2, <1>7, <1>8 DEF StatesInv, Published
<1>13. LoadIsItsOwn'
  BY <1>1, <1>2, <1>a, <1>7 DEF StatesInv, LoadIsItsOwn
<1>14. QED
  BY <1>3, <1>5, <1>9, <1>10, <1>11, <1>12, <1>13 DEF StatesInv

\* A panic that leaves load_dir leaves behind what the members published.
LEMMA UnwindingKeepsStates ==
  ASSUME StatesInv, MemberUnwinds(Head(todo)), todo \notin {Idle, <<>>}
  PROVE  StatesInv'
<1> DEFINE n == Head(todo)
           s == StateFor(n)
<1>1. n \in DOMAIN items /\ n \in Name
  BY NextMember
<1> HIDE DEF n
<1>2. /\ UNCHANGED <<mode, surfaces, live, ties>>
      /\ pool' = Put(pool, n, s) /\ Poisons(n, s)
      /\ todo' = Idle /\ items' = Empty /\ groups' = Empty /\ built' = Empty /\ failed' = {}
      /\ escaped' = escaped \cup {"load_dir"}
  BY DEF MemberUnwinds, Poisons, n
<1>3. /\ DOMAIN pool' = DOMAIN pool \cup {n}
      /\ \A m \in DOMAIN pool : pool'[m] = pool[m]
      /\ pool'[n] = s
      /\ Range(pool') \subseteq State
      /\ DOMAIN poisoned' \subseteq State /\ Range(poisoned') \subseteq Panic
      /\ PoolApart' /\ Contained'
  BY <1>1, <1>2, RecordKeeps DEF Homes, Put
<1>4. DOMAIN Empty = {} /\ Range(Empty) = {} /\ Edges(Empty, DOMAIN Empty) = {}
  BY DEF Empty, Range, Edges
<1>5. TypeOK'
  BY <1>1, <1>2, <1>3, <1>4 DEF StatesInv, TypeOK
<1>6. OneHome'
  BY <1>2, <1>3, <1>4 DEF StatesInv, OneHome, TypeOK
<1>7. WiredToSurfaces' /\ Published' /\ GroupsKnown'
  BY <1>2, <1>4 DEF StatesInv, WiredToSurfaces, Published, GroupsKnown
<1>8. LoadIsItsOwn'
  BY <1>2, <1>4 DEF LoadIsItsOwn
<1>9. QED
  BY <1>3, <1>5, <1>6, <1>7, <1>8 DEF StatesInv

LEMMA LoadKeepsStates ==
  ASSUME StatesInv, Load
  PROVE  StatesInv'
<1>1. PICK g \in Graphs :
        LET S == Name \ Withheld(g)
        IN  /\ todo' \in LoadOrders(S, g)
            /\ items' = [n \in S |-> g[n]]
            /\ ties' = ties \cup Edges(g, S)
  BY DEF Load
<1> DEFINE S == Name \ Withheld(g)
<1>2. /\ todo = Idle
      /\ todo' \in LoadOrders(S, g) /\ items' = [n \in S |-> g[n]]
      /\ ties' = ties \cup Edges(g, S)
      /\ groups' = Empty /\ built' = Empty /\ failed' = {}
      /\ UNCHANGED <<mode, pool, surfaces, poisoned, live, escaped>>
  BY <1>1 DEF Load, backend
<1>3. DOMAIN live \cap S = {}
  BY DEF Withheld
<1>4. todo' \in Seq(S) /\ todo' \in Seq(Name)
  <2>1. Cardinality(S) \in Nat
    BY NameAssumption, FS_Subset, FS_CardinalityType
  <2>2. todo' \in [1 .. Cardinality(S) -> S]
    BY <1>2 DEF LoadOrders
  <2>3. todo' \in Seq(S)
    BY <2>1, <2>2, SeqDef
  <2>4. S \subseteq Name
    OBVIOUS
  <2>5. QED
    BY <2>3, <2>4, SeqMonotonic
<1> HIDE DEF S
<1>5. S \subseteq Name /\ g \in [Name -> Dependencies]
  BY GraphsAssumption DEF S
<1>6. DOMAIN Empty = {} /\ Range(Empty) = {}
  BY DEF Empty, Range
<1>7. /\ DOMAIN items' = S /\ Range(items') \subseteq Dependencies
      /\ Edges(items', DOMAIN items') \subseteq ties'
      /\ ties' \subseteq Name \X Name
  <2>1. DOMAIN items' = S /\ \A n \in S : items'[n] = g[n] /\ g[n] \in Dependencies
    BY <1>2, <1>5
  <2>2. Edges(items', S) = Edges(g, S)
    <3>1. ASSUME NEW e \in S \X S PROVE Named(items', e[1]) = Named(g, e[1])
      BY <2>1 DEF Named
    <3>2. QED
      BY <3>1 DEF Edges
  <2>3. Edges(g, S) \subseteq Name \X Name
    BY <1>5 DEF Edges
  <2>4. QED
    BY <2>1, <2>2, <2>3, <1>2 DEF Range, StatesInv, TypeOK
<1>8. TypeOK'
  BY <1>2, <1>4, <1>5, <1>6, <1>7 DEF StatesInv, TypeOK
<1>9. DOMAIN built = {}
  BY <1>2 DEF StatesInv, LoadIsItsOwn
<1>10. OneHome' /\ WiredToSurfaces' /\ Published'
  BY <1>2, <1>6, <1>9 DEF StatesInv, OneHome, WiredToSurfaces, Published
<1>11. PoolApart' /\ Contained'
  <2>1. \A n, m \in Name : MayShare(n, m) => MayShare(n, m)'
    BY <1>2, SharingGrows
  <2>2. DOMAIN pool \subseteq Name
    BY DEF StatesInv, TypeOK
  <2>3. PoolApart'
    BY <1>2, <2>1, <2>2 DEF StatesInv, PoolApart
  <2>4. \A n \in DOMAIN pool : pool[n] \in DOMAIN poisoned => poisoned[pool[n]].by \in Name
    BY DEF StatesInv, TypeOK, Range, Panic
  <2>5. Contained'
    BY <1>2, <2>1, <2>2, <2>4 DEF StatesInv, Contained
  <2>6. QED
    BY <2>3, <2>5
<1>12. GroupsKnown' /\ LoadIsItsOwn'
  <2>1. GroupsKnown'
    BY <1>2, <1>6 DEF GroupsKnown
  <2>2. LoadIsItsOwn'
    BY <1>2, <1>3, <1>4, <1>6, <1>7, NotIdle DEF LoadIsItsOwn
  <2>3. QED
    BY <2>1, <2>2
<1>13. QED
  BY <1>8, <1>10, <1>11, <1>12 DEF StatesInv

\* No plugin that runs changes its state, or loses the exports of a dependency that runs
\* on and is still named.
WiringKept ==
    \A n \in DOMAIN live \cap DOMAIN live' :
      /\ live'[n].state = live[n].state
      /\ \A d \in live[n].wired : d \in DOMAIN live' /\ d \in live'[n].names
                                  => d \in live'[n].wired

LEMMA LoadEndKeepsStates ==
  ASSUME StatesInv, LoadEnd
  PROVE  StatesInv' /\ WiringKept
<1>1. /\ todo = <<>> /\ todo' = Idle
      /\ items' = Empty /\ groups' = Empty /\ built' = Empty /\ failed' = {}
      /\ UNCHANGED <<mode, pool, surfaces, poisoned, escaped, ties>>
      /\ DOMAIN live' = DOMAIN live \cup DOMAIN built
  BY DEF LoadEnd, backend
<1>2. \A n \in DOMAIN live' : live'[n] = IF n \in DOMAIN built THEN built[n] ELSE live[n]
  BY DEF LoadEnd
<1>3. DOMAIN live \cap DOMAIN built = {}
  <2>1. todo # Idle
    BY <1>1 DEF Idle
  <2>2. QED
    BY <2>1 DEF StatesInv, LoadIsItsOwn
<1>4. DOMAIN Empty = {} /\ Range(Empty) = {} /\ Edges(Empty, DOMAIN Empty) = {}
  BY DEF Empty, Range, Edges
<1>5. TypeOK'
  <2>1. Range(live') \subseteq Instance
    BY <1>1, <1>2 DEF StatesInv, TypeOK, Range
  <2>2. QED
    BY <1>1, <1>4, <2>1 DEF StatesInv, TypeOK
<1>6. OneHome' /\ WiredToSurfaces' /\ Published'
  BY <1>1, <1>2, <1>4 DEF StatesInv, OneHome, WiredToSurfaces, Published
<1>7. PoolApart' /\ Contained'
  BY <1>1 DEF StatesInv, PoolApart, Contained, MayShare
<1>8. GroupsKnown' /\ LoadIsItsOwn'
  BY <1>1, <1>4 DEF GroupsKnown, LoadIsItsOwn
<1>9. WiringKept
  BY <1>1, <1>2, <1>3 DEF WiringKept
<1>10. QED
  BY <1>5, <1>6, <1>7, <1>8, <1>9 DEF StatesInv

\* Whatever the manifest names by now.
LEMMA ReloadKeepsStates ==
  ASSUME StatesInv, NEW n \in Name, Reload(n)
  PROVE  StatesInv' /\ WiringKept
<1> DEFINE s == StateFor(n)
<1>1. PICK g \in Graphs :
        /\ pool' = Put(pool, n, s)
        /\ s \notin DOMAIN poisoned
        /\ ReloadSucceeds(n, s, Named(g, n)) \/ ReloadUnwinds(n, s, Named(g, n))
  BY DEF Reload
<1> DEFINE deps == Named(g, n)
           i == [state |-> s, names |-> deps, wired |-> deps \cap DOMAIN surfaces]
<1>2. /\ todo = Idle /\ n \in DOMAIN live
      /\ UNCHANGED <<mode, todo, items, groups, built, failed, ties>>
  BY DEF Reload, batch
<1>3. /\ \/ surfaces' = surfaces
         \/ n \notin DOMAIN surfaces /\ surfaces' = Put(surfaces, n, s)
      /\ live' = live \/ live' = [live EXCEPT ![n] = i]
      /\ escaped' = escaped \/ escaped' = escaped \cup {"reload"}
      /\ Poisons(n, s)
  BY <1>1 DEF ReloadSucceeds, ReloadUnwinds, Poisons
<1>4. n \in DOMAIN pool /\ s = pool[n] /\ s \in State
  BY <1>2, StateForHome DEF StatesInv, TypeOK
<1>5. deps \subseteq Name
  <2>1. g[n] \in Dependencies
    BY GraphsAssumption
  <2>2. QED
    BY <2>1 DEF Named, Dependencies
<1>6. /\ DOMAIN pool' = DOMAIN pool
      /\ \A m \in DOMAIN pool : pool'[m] = pool[m]
      /\ Range(pool') \subseteq State
      /\ DOMAIN poisoned' \subseteq State /\ Range(poisoned') \subseteq Panic
      /\ PoolApart' /\ Contained'
  BY <1>1, <1>2, <1>3, <1>4, RecordKeeps DEF Homes, Put
<1> HIDE DEF s, deps
<1>7. i \in Instance /\ i.state = s /\ i.wired = i.names \cap DOMAIN surfaces
  BY <1>4, <1>5 DEF Instance
<1> HIDE DEF i
<1>8. /\ DOMAIN live' = DOMAIN live
      /\ \A m \in DOMAIN live \ {n} : live'[m] = live[m]
      /\ live'[n] = live[n] \/ live'[n] = i
  BY <1>2, <1>3
<1>9. /\ DOMAIN surfaces \subseteq DOMAIN surfaces'
      /\ DOMAIN surfaces' \subseteq DOMAIN surfaces \cup {n}
      /\ \A m \in DOMAIN surfaces' : m # n => surfaces'[m] = surfaces[m]
      /\ n \in DOMAIN surfaces' => surfaces'[n] = s
  <2>1. n \in DOMAIN surfaces => surfaces[n] = s
    BY <1>4 DEF StatesInv, OneHome
  <2>2. QED
    BY <1>3, <2>1 DEF Put
<1>10. live[n].state = s /\ live[n] \in Instance
  BY <1>2, <1>4 DEF StatesInv, OneHome, TypeOK, Range
<1>11. TypeOK'
  <2>1. DOMAIN surfaces' \subseteq Name /\ Range(surfaces') \subseteq State
    BY <1>9, <1>4 DEF StatesInv, TypeOK, Range
  <2>2. Range(live') \subseteq Instance
    BY <1>8, <1>7, <1>10 DEF StatesInv, TypeOK, Range
  <2>3. escaped' \subseteq {"load_dir", "reload"}
    BY <1>3 DEF StatesInv, TypeOK
  <2>4. QED
    BY <1>2, <1>6, <1>8, <2>1, <2>2, <2>3 DEF StatesInv, TypeOK
<1>12. OneHome'
  <2>1. \A m \in DOMAIN surfaces' : m \in DOMAIN pool' /\ surfaces'[m] = pool'[m]
    BY <1>9, <1>4, <1>6 DEF StatesInv, OneHome
  <2>2. \A m \in DOMAIN live' : live'[m].state = pool'[m]
    BY <1>8, <1>7, <1>10, <1>4, <1>6 DEF StatesInv, OneHome, TypeOK
  <2>3. \A m \in DOMAIN built' : built'[m].state = pool'[m]
    BY <1>2, <1>6 DEF StatesInv, OneHome, TypeOK
  <2>4. QED
    BY <2>1, <2>2, <2>3 DEF OneHome
<1>13. WiredToSurfaces'
  BY <1>2, <1>7, <1>8, <1>9 DEF StatesInv, WiredToSurfaces
<1>14. Published'
  BY <1>2, <1>3, <1>8, <1>9 DEF StatesInv, Published
<1>15. GroupsKnown' /\ LoadIsItsOwn'
  BY <1>2, <1>8 DEF StatesInv, GroupsKnown, LoadIsItsOwn
<1>16. WiringKept
  BY <1>2, <1>7, <1>8, <1>10 DEF WiringKept, StatesInv, WiredToSurfaces
<1>17. QED
  BY <1>6, <1>11, <1>12, <1>13, <1>14, <1>15, <1>16 DEF StatesInv

LEMMA RemoveKeepsStates ==
  ASSUME StatesInv, NEW n \in Name, Remove(n)
  PROVE  StatesInv' /\ WiringKept
<1>1. /\ todo = Idle /\ n \in DOMAIN live
      /\ UNCHANGED <<mode, todo, items, groups, built, failed, escaped, ties>>
      /\ live' = Drop(Unwired(live, n), n)
      /\ pool' = Drop(pool, n) /\ surfaces' = Drop(surfaces, n)
      /\ poisoned' = Restrict(poisoned, DOMAIN poisoned \cap Held')
  BY DEF Remove, batch
<1>2. /\ DOMAIN pool' = DOMAIN pool \ {n}
      /\ \A m \in DOMAIN pool' : pool'[m] = pool[m]
      /\ DOMAIN surfaces' = DOMAIN surfaces \ {n}
      /\ \A m \in DOMAIN surfaces' : surfaces'[m] = surfaces[m]
  BY <1>1 DEF Drop
<1>3. /\ DOMAIN live' = DOMAIN live \ {n}
      /\ \A m \in DOMAIN live' : live'[m] = [live[m] EXCEPT !.wired = @ \ {n}]
  BY <1>1 DEF Drop, Unwired
<1>4. \A m \in DOMAIN live' :
        /\ live[m] \in Instance /\ live'[m] \in Instance
        /\ live'[m].state = live[m].state /\ live'[m].names = live[m].names
        /\ live'[m].wired = live[m].wired \ {n}
  BY <1>3 DEF StatesInv, TypeOK, Range, Instance
<1>5. DOMAIN built = {} /\ DOMAIN groups = {}
  BY <1>1 DEF StatesInv, LoadIsItsOwn
<1>6. /\ DOMAIN poisoned' = DOMAIN poisoned \cap Held'
      /\ \A t \in DOMAIN poisoned' : poisoned'[t] = poisoned[t]
  BY <1>1 DEF Restrict
<1>7. TypeOK'
  <2>1. Range(pool') \subseteq State /\ Range(surfaces') \subseteq State
    BY <1>2 DEF StatesInv, TypeOK, Range
  <2>2. Range(live') \subseteq Instance
    BY <1>4 DEF Range
  <2>3. DOMAIN poisoned' \subseteq State /\ Range(poisoned') \subseteq Panic
    BY <1>6 DEF StatesInv, TypeOK, Range
  <2>4. QED
    BY <1>1, <1>2, <1>3, <1>5, <2>1, <2>2, <2>3 DEF StatesInv, TypeOK
<1>8. OneHome'
  BY <1>1, <1>2, <1>3, <1>4, <1>5 DEF StatesInv, OneHome, TypeOK
<1>9. WiredToSurfaces'
  BY <1>1, <1>2, <1>3, <1>4, <1>5 DEF StatesInv, WiredToSurfaces
<1>10. Published'
  BY <1>1, <1>2, <1>3, <1>5 DEF StatesInv, Published
<1>11. PoolApart' /\ Contained'
  <2>1. \A k, m : MayShare(k, m)' <=> MayShare(k, m)
    BY <1>1 DEF MayShare
  <2>2. PoolApart'
    BY <1>2, <2>1 DEF StatesInv, PoolApart
  <2>3. ASSUME NEW t \in Held' PROVE \E m \in DOMAIN pool' : pool'[m] = t
    <3>1. CASE t \in Range(pool')
      BY <3>1 DEF Range
    <3>2. CASE t \in Range(surfaces')
      BY <3>2, <1>8 DEF Range, OneHome
    <3>3. CASE t \in {live'[m].state : m \in DOMAIN live'}
      BY <3>3, <1>7, <1>8 DEF OneHome, TypeOK
    <3>4. Range(groups') = {} /\ {built'[m].state : m \in DOMAIN built'} = {}
      BY <1>1, <1>5 DEF Range
    <3>5. Held' = Range(pool') \cup Range(surfaces') \cup {live'[m].state : m \in DOMAIN live'}
                  \cup Range(groups') \cup {built'[m].state : m \in DOMAIN built'}
      BY DEF Held
    <3>6. QED
      BY <2>3, <3>1, <3>2, <3>3, <3>4, <3>5
  <2>4. Contained'
    BY <1>2, <1>6, <2>1, <2>3 DEF StatesInv, Contained
  <2>5. QED
    BY <2>2, <2>4
<1>12. GroupsKnown' /\ LoadIsItsOwn'
  BY <1>1, <1>3, <1>5 DEF StatesInv, GroupsKnown, LoadIsItsOwn
<1>13. WiringKept
  BY <1>3, <1>4 DEF WiringKept
<1>14. QED
  BY <1>7, <1>8, <1>9, <1>10, <1>11, <1>12, <1>13 DEF StatesInv

LEMMA CallKeepsStates ==
  ASSUME StatesInv, NEW n \in Name, CallPanics(n)
  PROVE  StatesInv'
<1>1. /\ n \in DOMAIN live
      /\ poisoned' = Poison(live[n].state, n, "code")
      /\ UNCHANGED <<mode, pool, surfaces, live, todo, items, groups, built, failed,
                     escaped, ties>>
  BY DEF CallPanics, batch
<1>2. n \in DOMAIN pool /\ live[n].state = pool[n] /\ StateFor(n) = pool[n]
  BY <1>1 DEF StatesInv, OneHome, TypeOK, StateFor
<1>3. /\ DOMAIN poisoned' \subseteq State /\ Range(poisoned') \subseteq Panic
      /\ PoolApart' /\ Contained'
  <2>1. Homes(n, StateFor(n))
    BY <1>1, <1>2 DEF Homes
  <2>2. Poisons(n, StateFor(n))
    BY <1>1, <1>2 DEF Poisons
  <2>3. QED
    BY <1>1, <1>2, <2>1, <2>2, RecordKeeps
<1>4. TypeOK'
  BY <1>1, <1>3 DEF StatesInv, TypeOK
<1>5. OneHome' /\ WiredToSurfaces' /\ Published'
  BY <1>1 DEF StatesInv, OneHome, WiredToSurfaces, Published
<1>6. GroupsKnown'
  <2>1. \A x : GroupKey(x)' = GroupKey(x)
    BY <1>1 DEF GroupKey
  <2>2. QED
    BY <1>1, <2>1 DEF StatesInv, GroupsKnown
<1>7. LoadIsItsOwn'
  BY <1>1 DEF StatesInv, LoadIsItsOwn
<1>8. QED
  BY <1>3, <1>4, <1>5, <1>6, <1>7 DEF StatesInv

LEMMA InitStates == Init => StatesInv
<1>1. SUFFICES ASSUME Init PROVE StatesInv
  OBVIOUS
<1>2. DOMAIN Empty = {} /\ Range(Empty) = {} /\ Edges(Empty, DOMAIN Empty) = {}
  BY DEF Empty, Range, Edges
<1>3. TypeOK
  BY <1>1, <1>2 DEF Init, TypeOK
<1>4. OneHome /\ GroupsKnown /\ PoolApart /\ Contained /\ WiredToSurfaces
      /\ LoadIsItsOwn /\ Published
  BY <1>1, <1>2 DEF Init, OneHome, GroupsKnown, PoolApart, Contained,
     WiredToSurfaces, LoadIsItsOwn, Published
<1>5. QED
  BY <1>3, <1>4 DEF StatesInv

LEMMA StepKeepsStates ==
  ASSUME StatesInv, [Next]_vars
  PROVE  StatesInv' /\ (WiringKept \/ UNCHANGED live)
<1>1. CASE Load
  BY <1>1, LoadKeepsStates DEF Load
<1>2. CASE LoadMember
  <2>1. todo \notin {Idle, <<>>}
    BY <1>2 DEF LoadMember
  <2>2. StatesInv'
    BY <1>2, <2>1, FailingKeepsStates, FailureKeepsStates, LoadingKeepsStates,
       UnwindingKeepsStates DEF LoadMember, MemberRefused, backend
  <2>3. UNCHANGED live
    BY <1>2 DEF LoadMember, MemberRefused, MemberFails, MemberLoads, MemberUnwinds, Fail
  <2>4. QED
    BY <2>2, <2>3
<1>3. CASE LoadEnd
  BY <1>3, LoadEndKeepsStates
<1>4. ASSUME NEW n \in Name, Reload(n)
      PROVE  StatesInv' /\ WiringKept
  BY <1>4, ReloadKeepsStates
<1>5. ASSUME NEW n \in Name, Remove(n)
      PROVE  StatesInv' /\ WiringKept
  BY <1>5, RemoveKeepsStates
<1>6. ASSUME NEW n \in Name, CallPanics(n)
      PROVE  StatesInv' /\ UNCHANGED live
  BY <1>6, CallKeepsStates DEF CallPanics
<1>7. CASE UNCHANGED vars
  <2>1. UNCHANGED <<mode, pool, surfaces, poisoned, live, todo, items, groups, built,
                    failed, escaped, ties>>
    BY <1>7 DEF vars, backend, batch
  <2>2. TypeOK' /\ OneHome' /\ WiredToSurfaces' /\ Published'
    BY <2>1 DEF StatesInv, TypeOK, OneHome, WiredToSurfaces, Published
  <2>3. PoolApart' /\ Contained'
    BY <2>1 DEF StatesInv, PoolApart, Contained, MayShare
  <2>4. GroupsKnown'
    <3>1. \A x : GroupKey(x)' = GroupKey(x)
      BY <2>1 DEF GroupKey
    <3>2. QED
      BY <2>1, <3>1 DEF StatesInv, GroupsKnown
  <2>5. LoadIsItsOwn'
    BY <2>1 DEF StatesInv, LoadIsItsOwn
  <2>6. QED
    BY <2>1, <2>2, <2>3, <2>4, <2>5 DEF StatesInv
<1>8. QED
  BY <1>1, <1>2, <1>3, <1>4, <1>5, <1>6, <1>7 DEF Next

-----------------------------------------------------------------------------

LEMMA StatesAlways == Spec => []StatesInv
<1>1. Init => StatesInv
  BY InitStates
<1>2. StatesInv /\ [Next]_vars => StatesInv'
  BY StepKeepsStates
<1>3. QED
  BY <1>1, <1>2, PTL DEF Spec

\* Two plugins run in one state only where there is one, or where chains of dependencies
\* that loads have found connect them, whatever is edited, fails, is reloaded or removed
\* between loads (state_for); under per-plugin isolation never.
THEOREM StatesStayApart == Spec => []KeptApart
<1>1. StatesInv => KeptApart
  BY DEF StatesInv, OneHome, PoolApart, TypeOK, KeptApart
<1>2. QED
  BY <1>1, StatesAlways, PTL

\* Between calls only running plugins have exports published, in the state they
\* run in, as long as no panic has torn down a load_dir.
THEOREM SurfacesFollowPlugins == Spec => []SurfacesAreLive
<1>1. StatesInv => SurfacesAreLive
  BY DEF StatesInv, OneHome, LoadIsItsOwn, Published, SurfacesAreLive
<1>2. QED
  BY <1>1, StatesAlways, PTL

\* A running plugin is cut off only by a panic under itself or under a plugin that may
\* share its state, through every reuse, hand-over and replacement of states.
THEOREM PanicsStayInside == Spec => []PanicStaysInside
<1>1. StatesInv => PanicStaysInside
  BY DEF StatesInv, OneHome, Contained, TypeOK, PanicStaysInside
<1>2. QED
  BY <1>1, StatesAlways, PTL

\* No load, reload or removal of another plugin moves a running plugin to
\* another state or takes from it the exports of a dependency that still runs.
THEOREM WiringSurvives == Spec => ReloadKeepsWiring
<1>1. StatesInv /\ [Next]_vars =>
        [\A n \in DOMAIN live \cap DOMAIN live' :
           /\ live'[n].state = live[n].state
           /\ \A d \in live[n].wired : d \in DOMAIN live' /\ d \in live'[n].names
                                       => d \in live'[n].wired]_vars
  <2>1. UNCHANGED live => WiringKept
    BY DEF WiringKept
  <2>2. QED
    BY <2>1, StepKeepsStates DEF WiringKept
<1>2. QED
  BY <1>1, StatesAlways, PTL DEF Spec, ReloadKeepsWiring

-----------------------------------------------------------------------------
(* The arithmetic of the hook: the counter moves in whole steps.           *)

\* What the counter can show.
Charges == {k * Step : k \in Nat}

\* What a call has at most when it is not stopped yet: the last whole step within the limit.
Within == (Limit \div Step) * Step

LEMMA StepIsPositive == Step \in Nat \ {0}
BY LimitAssumption DEF Step

LEMMA ChargesAreSteps ==
  /\ Within \in Nat /\ Allowance = Within + Step
  /\ 0 \in Charges /\ Allowance \in Charges /\ Charges \subseteq Nat
  /\ \A u \in Charges : u + Step \in Charges
  /\ \A u \in Charges : u <= Limit => u <= Within
<1> DEFINE q == Limit \div Step
<1>1. /\ Step \in Nat \ {0} /\ Limit \in Nat /\ q \in Nat
      /\ Limit < q * Step + Step
  BY StepIsPositive, LimitAssumption
<1> HIDE DEF q
<1>2. \A k \in Nat : k * Step \in Nat /\ (k + 1) * Step = k * Step + Step
  BY <1>1
<1>3. Within = q * Step /\ Allowance = (q + 1) * Step
  BY DEF Within, Allowance, q
<1>4. 0 \in Charges
  <2>1. 0 * Step = 0
    BY <1>1
  <2>2. QED
    BY <2>1 DEF Charges
<1>5. \A u \in Charges : u + Step \in Charges
  <2>1. SUFFICES ASSUME NEW k \in Nat PROVE k * Step + Step \in Charges
    BY DEF Charges
  <2>2. QED
    BY <1>2, k + 1 \in Nat DEF Charges
<1>6. \A u \in Charges : u <= Limit => u <= Within
  <2>1. SUFFICES ASSUME NEW k \in Nat, k * Step <= Limit PROVE k * Step <= q * Step
    BY <1>3 DEF Charges
  <2>2. k <= q
    <3>1. SUFFICES ASSUME k >= q + 1 PROVE FALSE
      BY <1>1
    <3>2. PICK n \in Nat : k = (q + 1) + n
      BY <1>1, <3>1, k - (q + 1) \in Nat
    <3>3. k * Step = (q + 1) * Step + n * Step
      BY <1>1, <3>2
    <3>4. n * Step >= 0
      BY <1>1
    <3>5. QED
      BY <1>1, <1>2, <2>1, <3>3, <3>4
  <2>3. PICK n \in Nat : q = k + n
    BY <1>1, <2>2, q - k \in Nat
  <2>4. q * Step = k * Step + n * Step /\ n * Step >= 0
    BY <1>1, <2>3
  <2>5. QED
    BY <1>1, <1>2, <2>4
<1>7. QED
  BY <1>1, <1>2, <1>3, <1>4, <1>5, <1>6 DEF Charges

-----------------------------------------------------------------------------
(* The inductive invariant.                                                *)

\* The outermost call of a period is counted, and has yet to reset the counter.
Pending == \E d \in CallId : pc[d] = "counted"

\* The calls in flight are the holders of mutex and gate, and are counted as such.
HoldersInFlight ==
  /\ \A c \in CallId : pc[c] \in Entered <=> (c = mutex \/ c = gate)
  /\ inFlight = (IF mutex = NoCall THEN 0 ELSE 1) + (IF gate = NoCall THEN 0 ELSE 1)

\* One call alone resets, and a call that nobody overlapped is alone in flight.
OneResets == \A c, d \in CallId : pc[c] = "counted" /\ pc[d] = "counted" => c = d

AloneInFlight == \A c, d \in InFlight : c \in overlapped \/ d = c

\* A call nobody overlapped has the counter for itself from the reset on.
OwnCounter ==
  \A c \in CallId :
    /\ pc[c] \in {"new", "queued", "counted"} => spent[c] = 0 /\ granted[c] = 0
    /\ c \notin overlapped
         => /\ pc[c] \in Entered \ {"counted"} => used = spent[c]
            /\ pc[c] \in {"failing", "exceeded"} => spent[c] > Limit

\* Before the reset a call was granted what the counter shows; after it, an allowance more.
\* Past the limit the counter tells nothing, but nothing more is granted either.
ChargedTwice ==
  \A c \in CallId :
    /\ granted[c] <= 2 * Within
    /\ pc[c] \in Entered \ {"counted"} /\ Pending
         => granted[c] <= Within /\ (used <= Limit => granted[c] <= used)
    /\ pc[c] \in Entered \ {"counted"} /\ ~Pending
         => (used <= Limit => granted[c] <= Within + used)

BudgetInv == /\ BudgetTypeOK /\ used \in Charges
             /\ HoldersInFlight
             /\ OneResets
             /\ AloneInFlight
             /\ OwnCounter
             /\ ChargedTwice

LEMMA BudgetStarts == BudgetInit => BudgetInv
BY CallAssumption, ChargesAreSteps DEF BudgetInit, BudgetInv, BudgetTypeOK, Entered, Over, HoldersInFlight,
   OneResets, AloneInFlight, InFlight, OwnCounter, ChargedTwice, Pending

-----------------------------------------------------------------------------
(* The steps.  `Entered` is a set of names: it is expanded throughout.     *)

\* A call is counted: as the outermost nobody else is in flight, and otherwise it and all
\* in flight overlap.
LEMMA CountKeeps ==
  ASSUME BudgetInv, NEW c \in CallId, pc[c] \in {"new", "queued"}, Count(c),
         UNCHANGED <<used, vm, threads, spent, granted>>,
         \/ c \in SyncCall /\ mutex = NoCall /\ mutex' = c /\ gate' = gate
         \/ c \in AsyncCall /\ gate = NoCall /\ gate' = c /\ mutex' = mutex
  PROVE  BudgetInv'
<1> USE CallAssumption, ChargesAreSteps DEF BudgetInv
<1> DEFINE to == IF inFlight = 0 THEN "counted" ELSE "entered"
<1>1. /\ pc' = [pc EXCEPT ![c] = to] /\ inFlight' = inFlight + 1
      /\ \A d \in CallId : pc'[d] = IF d = c THEN to ELSE pc[d]
  BY DEF Count, Goes, BudgetTypeOK
<1>2. inFlight = 0 <=> \A d \in CallId : pc[d] \notin Entered
  BY DEF BudgetTypeOK, HoldersInFlight, CallId
<1>3. InFlight = {} <=> inFlight = 0
  BY <1>2 DEF InFlight
<1>4. BudgetTypeOK'
  <2>1. overlapped' \subseteq CallId
    BY DEF Count, BudgetTypeOK, InFlight
  <2>2. QED
    BY <1>1, <2>1 DEF BudgetTypeOK, Entered, CallId
<1>5. HoldersInFlight'
  BY <1>1 DEF HoldersInFlight, BudgetTypeOK, Entered, CallId
<1>6. OneResets'
  BY <1>1, <1>2 DEF OneResets, Entered
<1>7. AloneInFlight'
  <2>1. InFlight' = InFlight \union {c}
    BY <1>1 DEF InFlight, Entered
  <2>2. CASE InFlight = {}
    BY <2>1, <2>2 DEF AloneInFlight
  <2>3. CASE InFlight # {}
    BY <2>1, <2>3 DEF AloneInFlight, Count
  <2>4. QED
    BY <2>2, <2>3
<1>8. OwnCounter'
  <2>1. overlapped \subseteq overlapped' /\ (inFlight # 0 => c \in overlapped')
    BY <1>3 DEF Count
  <2>2. QED
    BY <1>1, <2>1 DEF OwnCounter, Entered
<1>9. ChargedTwice'
  <2>1. CASE inFlight = 0
    BY <1>1, <1>2, <2>1 DEF ChargedTwice, OwnCounter, Entered, Over, BudgetTypeOK
  <2>2. CASE inFlight # 0
    <3>1. Pending' <=> Pending
      BY <1>1, <2>2 DEF Pending
    <3>2. granted[c] = 0
      BY DEF OwnCounter
    <3>3. QED
      BY <1>1, <2>2, <3>1, <3>2 DEF ChargedTwice, Entered, Over, BudgetTypeOK
  <2>3. QED
    BY <2>1, <2>2
<1>10. QED
  BY <1>4, <1>5, <1>6, <1>7, <1>8, <1>9

\* The reset: what was charged before it is within one allowance.
LEMMA ResetKeeps ==
  ASSUME BudgetInv, NEW c \in CallId, Reset(c)
  PROVE  BudgetInv'
<1> USE CallAssumption, ChargesAreSteps DEF BudgetInv
<1>1. /\ \A d \in CallId : pc'[d] = IF d = c THEN "entered" ELSE pc[d]
      /\ pc[c] = "counted" /\ used' = 0
      /\ UNCHANGED <<mutex, gate, vm, inFlight, threads, spent, granted, overlapped>>
  BY DEF Reset, Goes, BudgetTypeOK
<1>2. BudgetTypeOK'
  BY <1>1 DEF BudgetTypeOK, Reset, Goes, Entered
<1>3. HoldersInFlight'
  BY <1>1 DEF HoldersInFlight, Entered
<1>4. InFlight' = InFlight
  BY <1>1 DEF InFlight, Entered
<1>5. OneResets' /\ AloneInFlight'
  BY <1>1, <1>4 DEF OneResets, AloneInFlight
<1>6. OwnCounter'
  <2>1. \A d \in CallId \ {c} : pc[d] \in Entered => d \in overlapped
    BY <1>1 DEF AloneInFlight, InFlight, Entered
  <2>2. QED
    BY <1>1, <2>1 DEF OwnCounter, Entered
<1>7. ChargedTwice'
  <2>1. Pending /\ ~Pending'
    BY <1>1 DEF Pending, OneResets
  <2>2. QED
    BY <1>1, <2>1 DEF ChargedTwice, OwnCounter, Entered, Over, BudgetTypeOK
<1>8. QED
  BY <1>1, <1>2, <1>3, <1>5, <1>6, <1>7

\* A call in flight goes from one place to another without being charged.
LEMMA MoveKeeps ==
  ASSUME BudgetInv, NEW c \in CallId, NEW to,
         pc[c] \in {"entered", "ready", "running"}, to \in {"ready", "running", "ended"},
         Goes(c, to), vm' \in CallId \union {NoCall},
         UNCHANGED <<mutex, gate, inFlight, used, threads, spent, granted, overlapped>>
  PROVE  BudgetInv'
<1> USE CallAssumption, ChargesAreSteps DEF BudgetInv
<1>1. \A d \in CallId : pc'[d] = IF d = c THEN to ELSE pc[d]
  BY DEF Goes, BudgetTypeOK
<1>2. BudgetTypeOK'
  BY DEF BudgetTypeOK, Goes, Entered
<1>3. HoldersInFlight'
  BY <1>1 DEF HoldersInFlight, Entered
<1>4. InFlight' = InFlight
  BY <1>1 DEF InFlight, Entered
<1>5. OneResets' /\ AloneInFlight'
  BY <1>1, <1>4 DEF OneResets, AloneInFlight
<1>6. OwnCounter'
  BY <1>1 DEF OwnCounter, Entered
<1>7. ChargedTwice'
  <2>1. Pending' <=> Pending
    BY <1>1 DEF Pending
  <2>2. QED
    BY <1>1, <2>1 DEF ChargedTwice, Entered, Over
<1>8. QED
  BY <1>2, <1>3, <1>5, <1>6, <1>7

\* A turn of the hook: past the limit it charges but grants nothing, and the call fails or
\* its code has caught the error.
LEMMA ConsumeKeeps ==
  ASSUME BudgetInv, NEW c \in CallId, Consume(c)
  PROVE  BudgetInv'
<1> USE CallAssumption, ChargesAreSteps, StepIsPositive, LimitAssumption DEF BudgetInv
<1>1. /\ pc[c] = "running" /\ used' = used + Step
      /\ spent' = [spent EXCEPT ![c] = @ + Step]
      /\ granted' = [granted EXCEPT ![c] = IF used' > Limit THEN @ ELSE @ + Step]
      /\ \A d \in CallId : spent'[d] = IF d = c THEN spent[c] + Step ELSE spent[d]
      /\ \A d \in CallId : d # c => granted'[d] = granted[d]
      /\ granted'[c] = IF used' > Limit THEN granted[c] ELSE granted[c] + Step
      /\ \A d \in CallId : d # c => pc'[d] = pc[d]
      /\ pc'[c] \in {"running", "failing"}
      /\ pc'[c] = "failing" => used' > Limit
      /\ pc' \in [CallId -> {"new", "queued"} \union Entered \union Over]
      /\ vm' \in CallId \union {NoCall}
      /\ UNCHANGED <<mutex, gate, inFlight, threads, overlapped>>
  BY DEF Consume, Charged, Goes, BudgetTypeOK, Entered
<1>2. used \in Nat /\ used' \in Charges /\ used' \in Nat
  BY <1>1 DEF BudgetTypeOK
<1>3. BudgetTypeOK'
  BY <1>1, <1>2 DEF BudgetTypeOK
<1>4. HoldersInFlight'
  BY <1>1 DEF HoldersInFlight, Entered
<1>5. InFlight' = InFlight
  BY <1>1 DEF InFlight, Entered
<1>6. OneResets' /\ AloneInFlight'
  BY <1>1, <1>5 DEF OneResets, AloneInFlight
<1>7. OwnCounter'
  <2>1. \A d \in CallId \ {c} : pc[d] \in Entered => d \in overlapped
    BY <1>1 DEF AloneInFlight, InFlight, Entered
  <2>2. QED
    BY <1>1, <1>2, <2>1 DEF OwnCounter, Entered, BudgetTypeOK
<1>8. ChargedTwice'
  <2>1. Pending' <=> Pending
    BY <1>1 DEF Pending
  <2>2. used' <= Limit => used <= Limit /\ used' <= Within
    BY <1>1, <1>2
  <2>3. \A d \in CallId : granted[d] \in Nat
    BY DEF BudgetTypeOK
  <2>4. /\ granted[c] <= 2 * Within
        /\ Pending => granted[c] <= Within /\ (used <= Limit => granted[c] <= used)
        /\ ~Pending => (used <= Limit => granted[c] <= Within + used)
    BY <1>1 DEF ChargedTwice, Entered
  <2>5. /\ granted'[c] <= 2 * Within
        /\ Pending => granted'[c] <= Within /\ (used' <= Limit => granted'[c] <= used')
        /\ ~Pending => (used' <= Limit => granted'[c] <= Within + used')
    BY <1>1, <1>2, <2>2, <2>3, <2>4
  <2>6. ASSUME NEW d \in CallId, d # c
        PROVE  /\ granted'[d] <= 2 * Within
               /\ pc'[d] \in Entered \ {"counted"} /\ Pending
                    => granted'[d] <= Within /\ (used' <= Limit => granted'[d] <= used')
               /\ pc'[d] \in Entered \ {"counted"} /\ ~Pending
                    => (used' <= Limit => granted'[d] <= Within + used')
    BY <1>1, <1>2, <2>2, <2>3, <2>6 DEF ChargedTwice
  <2>7. QED
    BY <2>1, <2>5, <2>6 DEF ChargedTwice
<1>9. QED
  BY <1>2, <1>3, <1>4, <1>6, <1>7, <1>8

\* A call in flight is over: it is discounted when it lets go of what it held.
LEMMA LeaveKeeps ==
  ASSUME BudgetInv, NEW c \in CallId, NEW to,
         \/ pc[c] = "ended" /\ to = "done"
         \/ pc[c] = "failing" /\ to = "exceeded"
         \/ pc[c] = "ready" /\ to = "cancelled",
         Goes(c, to), inFlight' = inFlight - 1,
         \/ c \in SyncCall /\ mutex' = NoCall /\ gate' = gate
         \/ c \in AsyncCall /\ gate' = NoCall /\ mutex' = mutex,
         UNCHANGED <<vm, used, threads, spent, granted, overlapped>>
  PROVE  BudgetInv'
<1> USE CallAssumption, ChargesAreSteps, StepIsPositive DEF BudgetInv
<1>1. \A d \in CallId : pc'[d] = IF d = c THEN to ELSE pc[d]
  BY DEF Goes, BudgetTypeOK
<1>2. pc[c] \in Entered /\ to \in Over /\ to # "counted"
  BY DEF Entered, Over
<1>3. /\ c \in SyncCall => mutex = c /\ c # gate
      /\ c \in AsyncCall => gate = c /\ c # mutex
  BY <1>2 DEF HoldersInFlight, BudgetTypeOK
<1>4. BudgetTypeOK'
  <2>1. inFlight - 1 \in Nat
    BY <1>3 DEF HoldersInFlight, BudgetTypeOK, CallId
  <2>2. QED
    BY <1>2, <2>1 DEF BudgetTypeOK, Goes, Entered
<1>5. HoldersInFlight'
  BY <1>1, <1>2, <1>3 DEF HoldersInFlight, BudgetTypeOK, Entered, Over, CallId
<1>6. InFlight' \subseteq InFlight
  BY <1>1, <1>2 DEF InFlight, Entered, Over
<1>7. OneResets' /\ AloneInFlight'
  BY <1>1, <1>2, <1>6 DEF OneResets, AloneInFlight
<1>8. OwnCounter'
  <2>1. c \notin overlapped /\ pc[c] = "failing" => spent[c] > Limit
    BY DEF OwnCounter
  <2>2. QED
    BY <1>1, <1>2, <2>1 DEF OwnCounter, Entered, Over
<1>9. ChargedTwice'
  <2>1. Pending' <=> Pending
    BY <1>1, <1>2 DEF Pending
  <2>2. QED
    BY <1>1, <1>2, <2>1 DEF ChargedTwice, Entered, Over
<1>10. QED
  BY <1>4, <1>5, <1>7, <1>8, <1>9

\* A call waits for the gate, or gives up waiting: nothing is charged, nobody counted.
LEMMA WaitKeeps ==
  ASSUME BudgetInv, NEW c \in CallId, NEW to,
         \/ pc[c] = "new" /\ to = "queued"
         \/ pc[c] = "queued" /\ to = "cancelled",
         Goes(c, to), UNCHANGED <<mutex, gate, vm, inFlight, used, threads, spent, granted, overlapped>>
  PROVE  BudgetInv'
<1> USE CallAssumption, ChargesAreSteps DEF BudgetInv
<1>1. \A d \in CallId : pc'[d] = IF d = c THEN to ELSE pc[d]
  BY DEF Goes, BudgetTypeOK
<1>2. BudgetTypeOK'
  BY DEF BudgetTypeOK, Goes, Over
<1>3. HoldersInFlight'
  BY <1>1 DEF HoldersInFlight, Entered
<1>4. InFlight' = InFlight
  BY <1>1 DEF InFlight, Entered
<1>5. OneResets' /\ AloneInFlight'
  BY <1>1, <1>4 DEF OneResets, AloneInFlight
<1>6. OwnCounter'
  BY <1>1 DEF OwnCounter, Entered
<1>7. ChargedTwice'
  <2>1. Pending' <=> Pending
    BY <1>1 DEF Pending
  <2>2. spent[c] = 0
    BY DEF OwnCounter
  <2>3. QED
    BY <1>1, <2>1, <2>2, StepIsPositive DEF ChargedTwice, Entered, Over
<1>8. QED
  BY <1>2, <1>3, <1>5, <1>6, <1>7

\* A load charges the counter what it likes, but with nobody in flight.
LEMMA LoadKeeps ==
  ASSUME BudgetInv, LoadPlugin
  PROVE  BudgetInv'
<1> USE CallAssumption, ChargesAreSteps DEF BudgetInv
<1>1. /\ used' \in {0, Allowance}
      /\ \A c \in CallId : pc[c] \notin Entered
      /\ UNCHANGED <<pc, mutex, gate, vm, inFlight, threads, spent, granted, overlapped>>
  BY DEF LoadPlugin, Entered, Over
<1>2. used' \in Charges /\ used' \in Nat
  BY <1>1
<1>3. QED
  BY <1>1, <1>2 DEF BudgetTypeOK, HoldersInFlight, OneResets, AloneInFlight, InFlight, OwnCounter,
     ChargedTwice, Pending, Entered

LEMMA BudgetStep == BudgetInv /\ [BudgetNext]_budgetVars => BudgetInv'
<1>1. SUFFICES ASSUME BudgetInv, [BudgetNext]_budgetVars PROVE BudgetInv'
  OBVIOUS
<1>2. CASE UNCHANGED budgetVars
  BY <1>1, <1>2 DEF budgetVars, BudgetInv, BudgetTypeOK, HoldersInFlight, OneResets, AloneInFlight,
     InFlight, OwnCounter, ChargedTwice, Pending
<1>3. ASSUME NEW c \in SyncCall, SyncStep(c) PROVE BudgetInv'
  <2>1. c \in CallId
    BY DEF CallId
  <2>2. CASE SyncEnter(c)
    BY <1>1, <1>3, <2>1, <2>2, CountKeeps DEF SyncEnter
  <2>3. CASE Reset(c)
    BY <1>1, <2>1, <2>3, ResetKeeps
  <2>4. CASE Resume(c) \/ CodeEnds(c)
    BY <1>1, <2>1, <2>4, MoveKeeps DEF Resume, CodeEnds
  <2>5. CASE Consume(c)
    BY <1>1, <2>1, <2>5, ConsumeKeeps
  <2>6. CASE SyncLeave(c)
    BY <1>1, <1>3, <2>1, <2>6, LeaveKeeps DEF SyncLeave
  <2>7. QED
    BY <1>3, <2>2, <2>3, <2>4, <2>5, <2>6 DEF SyncStep
<1>4. ASSUME NEW c \in AsyncCall, AsyncStep(c) PROVE BudgetInv'
  <2>1. c \in CallId
    BY DEF CallId
  <2>2. CASE AsyncBegin(c)
    BY <1>1, <2>1, <2>2, WaitKeeps DEF AsyncBegin
  <2>3. CASE AsyncEnter(c)
    BY <1>1, <1>4, <2>1, <2>3, CountKeeps DEF AsyncEnter
  <2>4. CASE Reset(c)
    BY <1>1, <2>1, <2>4, ResetKeeps
  <2>5. CASE Convert(c) \/ Resume(c) \/ Yield(c) \/ CodeEnds(c)
    BY <1>1, <2>1, <2>5, MoveKeeps DEF Convert, Resume, Yield, CodeEnds, BudgetInv, BudgetTypeOK
  <2>6. CASE Consume(c)
    BY <1>1, <2>1, <2>6, ConsumeKeeps
  <2>7. CASE AsyncLeave(c)
    BY <1>1, <1>4, <2>1, <2>7, LeaveKeeps DEF AsyncLeave
  <2>8. CASE Cancel(c)
    BY <1>1, <1>4, <2>1, <2>8, WaitKeeps, LeaveKeeps DEF Cancel
  <2>9. QED
    BY <1>4, <2>2, <2>3, <2>4, <2>5, <2>6, <2>7, <2>8 DEF AsyncStep
<1>5. QED
  BY <1>1, <1>2, <1>3, <1>4, LoadKeeps DEF BudgetNext

LEMMA BudgetAlways == BudgetSpec => []BudgetInv
BY BudgetStarts, BudgetStep, PTL DEF BudgetSpec

\* No call is charged more than two allowances, less the two turns that raise, without the
\* error being raised in it: on however many threads, whoever overlaps it, and whether or
\* not code catches the error and goes on.
THEOREM TwoAllowancesAtMost == BudgetSpec => []TwoAllowances
<1>1. BudgetInv => TwoAllowances
  <2>1. Allowance - Step = Within
    BY ChargesAreSteps, StepIsPositive
  <2>2. QED
    BY <2>1 DEF BudgetInv, ChargedTwice, TwoAllowances
<1>2. QED
  BY BudgetAlways, <1>1, PTL

\* A call that nobody overlapped is stopped only for what it used itself: no earlier call,
\* failure, cancelled future or load leaves it less than the limit.
THEOREM StoppedForItsOwn == BudgetSpec => []OwnAllowance
<1>1. BudgetInv => OwnAllowance
  BY DEF BudgetInv, OwnCounter, OwnAllowance
<1>2. QED
  BY BudgetAlways, <1>1, PTL
=============================================================================
