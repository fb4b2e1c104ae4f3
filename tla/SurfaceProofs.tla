---------------------------- MODULE SurfaceProofs ----------------------------
(***************************************************************************)
(* What the conversions do to any tree, and what an embedding program can  *)
(* rely on: plain objects and modules come back, odd objects settle, only  *)
(* a yes binds and a provider reads the grant that was approved.           *)
(***************************************************************************)
EXTENDS Surface, FiniteSetTheorems, WellFoundedInduction, TLAPS

-----------------------------------------------------------------------------
(* Paths.                                                                  *)

\* Of the positions that have a property there is a first.
LEMMA FirstOf ==
  ASSUME NEW T, T \subseteq Nat, T # {}
  PROVE  \E i \in T : \A j \in T : i <= j
<1>1. \E i \in T : \A j \in T : <<j, i>> \notin OpToRel(<, Nat)
  BY NatLessThanWellFounded, WFMin
<1>2. \A i, j \in T : <<j, i>> \notin OpToRel(<, Nat) => i <= j
  BY DEF OpToRel
<1>3. QED
  BY <1>1, <1>2

LEMMA AbovePath ==
  ASSUME NEW S, NEW p \in Seq(S), NEW i \in DOMAIN p
  PROVE  /\ i \in Nat \ {0} /\ i <= Len(p) /\ Len(p) \in Nat
         /\ Above(p, i) \in Seq(S)
         /\ Len(Above(p, i)) = i - 1
         /\ DOMAIN Above(p, i) = 1..(i - 1)
         /\ \A j \in 1..(i - 1) : Above(p, i)[j] = p[j] /\ j \in DOMAIN p
         /\ \A j \in 1..(i - 1) : Above(Above(p, i), j) = Above(p, j)
<1>1. /\ i \in Nat \ {0} /\ i <= Len(p) /\ Len(p) \in Nat
      /\ \A j \in 1..(i - 1) : j \in DOMAIN p
  OBVIOUS
<1>2. \A k \in 1..(Len(p) + 1) : /\ Above(p, k) = [j \in 1..(k - 1) |-> p[j]]
                                 /\ Above(p, k) \in Seq(S)
                                 /\ Len(Above(p, k)) = k - 1
  <2>1. SUFFICES ASSUME NEW k \in 1..(Len(p) + 1)
                 PROVE  /\ Above(p, k) = [j \in 1..(k - 1) |-> p[j]]
                        /\ Above(p, k) \in Seq(S)
                        /\ Len(Above(p, k)) = k - 1
    OBVIOUS
  <2>2. \A j \in 1..(k - 1) : p[j] \in S
    OBVIOUS
  <2>3. QED
    BY <2>2 DEF Above
<1>3. \A j \in 1..(i - 1) : Above(Above(p, i), j) = Above(p, j)
  <2>1. SUFFICES ASSUME NEW j \in 1..(i - 1)
                 PROVE  Above(Above(p, i), j) = Above(p, j)
    OBVIOUS
  <2>2. Above(Above(p, i), j) = [m \in 1..(j - 1) |-> Above(p, i)[m]]
    BY <1>1, <1>2 DEF Above
  <2>3. \A m \in 1..(j - 1) : Above(p, i)[m] = p[m]
    <3>1. \A m \in 1..(j - 1) : m \in 1..(i - 1)
      BY <1>1
    <3>2. QED
      BY <1>2, <3>1
  <2>4. QED
    BY <1>1, <1>2, <2>2, <2>3
<1>4. QED
  BY <1>1, <1>2, <1>3

\* Paths that agree step by step are one path.
LEMMA SamePath ==
  ASSUME NEW S, NEW p \in Seq(S), NEW q \in Seq(S), Len(p) = Len(q),
         \A i \in DOMAIN p : p[i] = q[i]
  PROVE  p = q
OBVIOUS

LEMMA KeyKinds ==
  /\ \A i : At(i)[1] = "integer" /\ At(i)[2] = i
  /\ \A t : Named(t)[1] = "string" /\ Named(t)[2] = t
  /\ \A k \in Key : /\ k[1] = "integer" => k[2] \in 1..MaxPosition /\ k = At(k[2])
                    /\ k[1] # "integer" => k[2] \in Text
                    /\ k[1] = "string" => k = Named(k[2])
                    /\ k[1] \in {"integer", "string", "symbol", "other"}
                    /\ k = <<k[1], k[2]>>
  /\ \A t \in Text : Named(t) \in Key
BY DEF Key, At, Named

\* The path q goes on from p with the key k.
Below(p, k, q) == /\ Len(q) = Len(p) + 1
                  /\ \A i \in DOMAIN p : q[i] = p[i]
                  /\ q[Len(p) + 1] = k

\* The keys of a node, and the paths through it.
LEMMA KeysOfNodes ==
  ASSUME NEW t, IsTree(t), NEW p \in DOMAIN t
  PROVE  /\ p \in Seq(Key)
         /\ KeysAt(t, p) \subseteq Key
         /\ \A k : k \in KeysAt(t, p) <=> \E q \in DOMAIN t : Below(p, k, q)
         /\ \A i \in DOMAIN p : /\ Above(p, i) \in DOMAIN t
                                /\ p[i] \in KeysAt(t, Above(p, i))
         /\ IsFiniteSet(KeysAt(t, p))
<1>1. /\ p \in Seq(Key) /\ \A q \in DOMAIN t : q \in Seq(Key) /\ Len(q) \in Nat
      /\ Len(p) \in Nat /\ DOMAIN p = 1..Len(p)
  BY DEF IsTree
<1> DEFINE under == {r \in DOMAIN t : /\ Len(r) = Len(p) + 1
                                      /\ \A i \in DOMAIN p : r[i] = p[i]}
<1>2. KeysAt(t, p) = {q[Len(p) + 1] : q \in under}
  BY DEF KeysAt
<1>3. \A q \in under : q[Len(p) + 1] \in Key
  BY <1>1
<1>4. KeysAt(t, p) \subseteq Key
  BY <1>2, <1>3
<1>5. \A k : k \in KeysAt(t, p) <=> \E q \in DOMAIN t : Below(p, k, q)
  BY <1>2 DEF Below
<1>6. ASSUME NEW i \in DOMAIN p
      PROVE  Above(p, i) \in DOMAIN t /\ p[i] \in KeysAt(t, Above(p, i))
  <2>1. Above(p, i) \in DOMAIN t
    BY <1>6 DEF IsTree
  <2>2. /\ i \in Nat \ {0} /\ i <= Len(p) /\ Above(p, i) \in Seq(Key) /\ Len(Above(p, i)) = i - 1
        /\ DOMAIN Above(p, i) = 1..(i - 1) /\ \A j \in 1..(i - 1) : Above(p, i)[j] = p[j]
    <3>1. p \in Seq(Key)
      BY <1>1
    <3>2. QED
      BY <1>6, <3>1, AbovePath
  <2>3. \E q \in DOMAIN t : Len(q) = i /\ (\A j \in 1..i : q[j] = p[j])
    <3>1. CASE i = Len(p)
      BY <1>1, <3>1
    <3>2. CASE i # Len(p)
      <4>1. PICK m \in DOMAIN p : m = i + 1
        BY <1>1, <2>2, <3>2
      <4>2. Above(p, m) \in DOMAIN t
        BY <4>1 DEF IsTree
      <4>3. /\ Len(Above(p, m)) = m - 1 /\ \A j \in 1..(m - 1) : Above(p, m)[j] = p[j]
        BY <1>1, AbovePath
      <4>4. QED
        BY <2>2, <4>1, <4>2, <4>3
    <3>3. QED
      BY <3>1, <3>2
  <2>4. PICK q \in DOMAIN t : Len(q) = i /\ (\A j \in 1..i : q[j] = p[j])
    BY <2>3
  <2>5. q[Len(Above(p, i)) + 1] \in KeysAt(t, Above(p, i))
    <3>1. Len(q) = Len(Above(p, i)) + 1 /\ \A j \in DOMAIN Above(p, i) : q[j] = Above(p, i)[j]
      BY <2>2, <2>4
    <3>2. QED
      BY <2>4, <3>1 DEF KeysAt
  <2>6. QED
    BY <2>1, <2>2, <2>4, <2>5
<1>7. IsFiniteSet(KeysAt(t, p))
  <2>1. IsFiniteSet(under)
    BY FS_Subset DEF IsTree
  <2>2. [r \in under |-> r[Len(p) + 1]] \in Surjection(under, KeysAt(t, p))
    BY <1>2 DEF Surjection
  <2>3. QED
    BY <2>1, <2>2, FS_Surjection
<1>8. QED
  BY <1>1, <1>4, <1>5, <1>6, <1>7

-----------------------------------------------------------------------------
(* What is left of a tree when keys are dropped and renamed.               *)

\* The renaming takes no two keys of a node to one.
Renames(t, step) ==
  \A p \in DOMAIN t :
    /\ DOMAIN step[p] \subseteq KeysAt(t, p)
    /\ \A k \in DOMAIN step[p] : step[p][k] \in Key
    /\ \A j, k \in DOMAIN step[p] : step[p][j] = step[p][k] => j = k

LEMMA KeptPaths ==
  ASSUME NEW t, IsTree(t), NEW step, Renames(t, step), NEW p \in Kept(t, step)
  PROVE  /\ p \in DOMAIN t /\ p \in Seq(Key) /\ Len(p) \in Nat /\ DOMAIN p = 1..Len(p)
         /\ Moved(step, p) \in Seq(Key) /\ Len(Moved(step, p)) = Len(p)
         /\ DOMAIN Moved(step, p) = DOMAIN p
         /\ \A i \in DOMAIN p : /\ Above(p, i) \in Kept(t, step)
                                /\ p[i] \in DOMAIN step[Above(p, i)]
                                /\ Moved(step, p)[i] = step[Above(p, i)][p[i]]
                                /\ Moved(step, Above(p, i)) = Above(Moved(step, p), i)
<1>1. /\ p \in DOMAIN t /\ p \in Seq(Key) /\ Len(p) \in Nat /\ DOMAIN p = 1..Len(p)
      /\ \A i \in DOMAIN p : p[i] \in DOMAIN step[Above(p, i)] /\ Above(p, i) \in DOMAIN t
  BY DEF Kept, IsTree
<1>2. \A i \in DOMAIN p : Moved(step, p)[i] = step[Above(p, i)][p[i]]
  BY DEF Moved
<1>3. \A i \in DOMAIN p : step[Above(p, i)][p[i]] \in Key
  BY <1>1 DEF Renames
<1>4. /\ Moved(step, p) \in Seq(Key) /\ Len(Moved(step, p)) = Len(p)
      /\ DOMAIN Moved(step, p) = DOMAIN p
  BY <1>1, <1>3 DEF Moved
<1>5. ASSUME NEW i \in DOMAIN p
      PROVE  /\ Above(p, i) \in Kept(t, step)
             /\ Moved(step, Above(p, i)) = Above(Moved(step, p), i)
  <2>1. /\ i \in Nat \ {0} /\ DOMAIN Above(p, i) = 1..(i - 1) /\ Above(p, i) \in DOMAIN t
        /\ \A j \in 1..(i - 1) : /\ Above(p, i)[j] = p[j] /\ j \in DOMAIN p
                                 /\ Above(Above(p, i), j) = Above(p, j)
    BY <1>1, AbovePath
  <2>2. Above(p, i) \in Kept(t, step)
    BY <1>1, <2>1 DEF Kept
  <2>3. Moved(step, Above(p, i)) = [j \in 1..(i - 1) |-> step[Above(p, j)][p[j]]]
    BY <2>1 DEF Moved
  <2>4. i \in DOMAIN Moved(step, p)
    BY <1>4
  <2>5. Above(Moved(step, p), i) = [j \in 1..(i - 1) |-> Moved(step, p)[j]]
    BY <1>4, <2>1, <2>4 DEF Above
  <2>6. \A j \in 1..(i - 1) : Moved(step, p)[j] = step[Above(p, j)][p[j]]
    BY <1>2, <2>1
  <2>7. QED
    BY <2>2, <2>3, <2>5, <2>6
<1>6. QED
  BY <1>1, <1>2, <1>4, <1>5

LEMMA MovedApart ==
  ASSUME NEW t, IsTree(t), NEW step, Renames(t, step),
         NEW p \in Kept(t, step), NEW q \in Kept(t, step), Moved(step, p) = Moved(step, q)
  PROVE  p = q
<1>1. /\ p \in Seq(Key) /\ q \in Seq(Key) /\ Len(p) = Len(q) /\ DOMAIN p = DOMAIN q
      /\ DOMAIN p \subseteq Nat
  BY KeptPaths
<1>2. SUFFICES ASSUME \E i \in DOMAIN p : p[i] # q[i] PROVE FALSE
  BY <1>1, SamePath
<1> DEFINE T == {i \in DOMAIN p : p[i] # q[i]}
<1>3. PICK i \in T : \A j \in T : i <= j
  <2>1. T \subseteq Nat /\ T # {}
    BY <1>1, <1>2
  <2> HIDE DEF T
  <2>2. QED
    BY <2>1, FirstOf
<1>4. i \in DOMAIN p /\ i \in DOMAIN q /\ p[i] # q[i]
  BY <1>1, <1>3
<1>5. Above(p, i) = Above(q, i)
  <2>1. /\ i \in Nat /\ Above(p, i) \in Seq(Key) /\ Len(Above(p, i)) = i - 1
        /\ DOMAIN Above(p, i) = 1..(i - 1)
        /\ \A j \in 1..(i - 1) : Above(p, i)[j] = p[j] /\ j \in DOMAIN p
    BY <1>1, <1>4, AbovePath
  <2>2. /\ Above(q, i) \in Seq(Key) /\ Len(Above(q, i)) = i - 1
        /\ \A j \in 1..(i - 1) : Above(q, i)[j] = q[j]
    BY <1>1, <1>4, AbovePath
  <2>3. \A j \in 1..(i - 1) : p[j] = q[j]
    BY <1>3, <2>1
  <2>4. QED
    BY <2>1, <2>2, <2>3, SamePath
<1>6. /\ p[i] \in DOMAIN step[Above(p, i)] /\ q[i] \in DOMAIN step[Above(p, i)]
      /\ Above(p, i) \in Kept(t, step)
      /\ step[Above(p, i)][p[i]] = step[Above(p, i)][q[i]]
  <2>1. /\ p[i] \in DOMAIN step[Above(p, i)] /\ Above(p, i) \in Kept(t, step)
        /\ Moved(step, p)[i] = step[Above(p, i)][p[i]]
    BY <1>4, KeptPaths
  <2>2. /\ q[i] \in DOMAIN step[Above(q, i)]
        /\ Moved(step, q)[i] = step[Above(q, i)][q[i]]
    BY <1>4, KeptPaths
  <2>3. QED
    BY <1>5, <2>1, <2>2
<1>7. Above(p, i) \in DOMAIN t
  BY <1>6 DEF Kept
<1>8. QED
  BY <1>4, <1>6, <1>7 DEF Renames

LEMMA CarriedTree ==
  ASSUME NEW t, IsTree(t), NEW step, Renames(t, step), NEW label
  PROVE  /\ IsTree(Carried(t, step, label))
         /\ \A q \in DOMAIN Carried(t, step, label) : \E p \in Kept(t, step) : q = Moved(step, p)
         /\ <<>> \in Kept(t, step) /\ Moved(step, <<>>) = <<>>
         /\ \A p \in Kept(t, step) :
              /\ Moved(step, p) \in DOMAIN Carried(t, step, label)
              /\ Carried(t, step, label)[Moved(step, p)] = label[p]
              /\ \A k : k \in KeysAt(Carried(t, step, label), Moved(step, p))
                       <=> \E j \in DOMAIN step[p] : k = step[p][j]
<1> DEFINE c == Carried(t, step, label)
<1>1. DOMAIN c = {Moved(step, p) : p \in Kept(t, step)}
  BY DEF Carried
<1>2. ASSUME NEW p \in Kept(t, step) PROVE c[Moved(step, p)] = label[p]
  <2>1. (CHOOSE q \in Kept(t, step) : Moved(step, q) = Moved(step, p)) = p
    BY MovedApart
  <2>2. QED
    BY <2>1 DEF Carried
<1>3. <<>> \in Kept(t, step) /\ Moved(step, <<>>) = <<>>
  BY DEF IsTree, Kept, Moved
<1>4. IsTree(c)
  <2>1. IsFiniteSet(DOMAIN c)
    <3>1. IsFiniteSet(Kept(t, step))
      BY FS_Subset DEF IsTree, Kept
    <3>2. [p \in Kept(t, step) |-> Moved(step, p)] \in Surjection(Kept(t, step), DOMAIN c)
      BY <1>1 DEF Surjection
    <3>3. QED
      BY <3>1, <3>2, FS_Surjection
  <2>2. ASSUME NEW p \in Kept(t, step)
        PROVE  /\ Moved(step, p) \in Seq(Key)
               /\ \A i \in DOMAIN Moved(step, p) : Above(Moved(step, p), i) \in DOMAIN c
    <3>1. /\ Moved(step, p) \in Seq(Key) /\ DOMAIN Moved(step, p) = DOMAIN p
          /\ \A i \in DOMAIN p : /\ Above(p, i) \in Kept(t, step)
                                 /\ Moved(step, Above(p, i)) = Above(Moved(step, p), i)
      BY KeptPaths
    <3>2. QED
      BY <3>1, <1>1
  <2>3. <<>> \in DOMAIN c
    BY <1>1, <1>3
  <2>4. c = [q \in DOMAIN c |-> c[q]]
    BY DEF Carried
  <2> HIDE DEF c
  <2>5. QED
    BY <1>1, <2>1, <2>2, <2>3, <2>4 DEF IsTree
<1>5. ASSUME NEW p \in Kept(t, step)
      PROVE  \A k : k \in KeysAt(c, Moved(step, p)) <=> \E j \in DOMAIN step[p] : k = step[p][j]
  <2>0. /\ p \in DOMAIN t /\ Moved(step, p) \in DOMAIN c
        /\ DOMAIN p = 1..Len(p) /\ Len(p) \in Nat /\ p \in Seq(Key)
        /\ DOMAIN Moved(step, p) = DOMAIN p /\ Len(Moved(step, p)) = Len(p)
        /\ Moved(step, p) \in Seq(Key)
    BY <1>1, KeptPaths
  <2>1. ASSUME NEW k \in KeysAt(c, Moved(step, p)) PROVE \E j \in DOMAIN step[p] : k = step[p][j]
    <3>1. PICK q \in Kept(t, step) : Below(Moved(step, p), k, Moved(step, q))
      BY <1>1, <1>4, <2>0, <2>1, KeysOfNodes
    <3>2. /\ Len(q) = Len(p) + 1 /\ DOMAIN q = 1..Len(q) /\ q \in Seq(Key)
          /\ Moved(step, q)[Len(p) + 1] = k /\ Moved(step, q) \in Seq(Key)
          /\ DOMAIN Moved(step, q) = DOMAIN q
          /\ \A i \in DOMAIN p : Moved(step, q)[i] = Moved(step, p)[i]
      BY <2>0, <3>1, KeptPaths DEF Below
    <3>3. PICK m \in DOMAIN q : m = Len(p) + 1
      BY <2>0, <3>2
    <3>4. /\ Above(q, m) \in Kept(t, step) /\ q[m] \in DOMAIN step[Above(q, m)]
          /\ k = step[Above(q, m)][q[m]]
          /\ Moved(step, Above(q, m)) = Above(Moved(step, q), m)
      BY <3>2, <3>3, KeptPaths
    <3>5. Above(Moved(step, q), m) = Moved(step, p)
      <4>1. m \in DOMAIN Moved(step, q)
        BY <3>2, <3>3
      <4>2. /\ Above(Moved(step, q), m) \in Seq(Key)
            /\ Len(Above(Moved(step, q), m)) = m - 1
            /\ DOMAIN Above(Moved(step, q), m) = 1..(m - 1)
            /\ \A j \in 1..(m - 1) : Above(Moved(step, q), m)[j] = Moved(step, q)[j]
        BY <3>2, <4>1, AbovePath
      <4>3. m - 1 = Len(p)
        BY <2>0, <3>3
      <4>4. Len(Above(Moved(step, q), m)) = Len(Moved(step, p))
        BY <2>0, <4>2, <4>3
      <4>5. \A j \in DOMAIN Above(Moved(step, q), m) :
              Above(Moved(step, q), m)[j] = Moved(step, p)[j]
        BY <2>0, <3>2, <4>2, <4>3
      <4>6. Above(Moved(step, q), m) \in Seq(Key) /\ Moved(step, p) \in Seq(Key)
        BY <2>0, <4>2
      <4>7. QED
        BY <4>4, <4>5, <4>6, SamePath
    <3>6. Above(q, m) = p
      BY <3>4, <3>5, MovedApart
    <3>7. QED
      BY <3>4, <3>6
  <2>2. ASSUME NEW j \in DOMAIN step[p] PROVE step[p][j] \in KeysAt(c, Moved(step, p))
    <3>1. j \in KeysAt(t, p)
      BY <2>0 DEF Renames
    <3>2. PICK q \in DOMAIN t : Below(p, j, q)
      BY <2>0, <3>1, KeysOfNodes
    <3>3. /\ q \in Seq(Key) /\ Len(q) = Len(p) + 1 /\ DOMAIN q = 1..(Len(p) + 1)
          /\ \A i \in DOMAIN p : q[i] = p[i] /\ i \in DOMAIN q
          /\ q[Len(p) + 1] = j
      BY <2>0, <3>2 DEF Below, IsTree
    <3>4. /\ \A i \in DOMAIN p : Above(q, i) = Above(p, i)
          /\ Above(q, Len(p) + 1) = p
      <4>1. ASSUME NEW i \in DOMAIN p PROVE Above(q, i) = Above(p, i)
        <5>1. /\ i \in Nat /\ Above(p, i) \in Seq(Key) /\ Len(Above(p, i)) = i - 1
              /\ DOMAIN Above(p, i) = 1..(i - 1)
              /\ \A n \in 1..(i - 1) : Above(p, i)[n] = p[n] /\ n \in DOMAIN p
          <6>1. p \in Seq(Key)
            BY <2>0
          <6>2. QED
            BY <6>1, AbovePath
        <5>2. i \in DOMAIN q
          BY <3>3
        <5>3. /\ Above(q, i) \in Seq(Key) /\ Len(Above(q, i)) = i - 1
              /\ \A n \in 1..(i - 1) : Above(q, i)[n] = q[n]
          BY <3>3, <5>2, AbovePath
        <5>4. Len(Above(p, i)) = Len(Above(q, i)) /\ Above(p, i) \in Seq(Key) /\ Above(q, i) \in Seq(Key)
          BY <5>1, <5>3
        <5>5. \A n \in DOMAIN Above(p, i) : Above(p, i)[n] = Above(q, i)[n]
          BY <3>3, <5>1, <5>3
        <5>6. QED
          BY <5>4, <5>5, SamePath
      <4>2. PICK m \in DOMAIN q : m = Len(p) + 1
        BY <2>0, <3>3
      <4>3. /\ Above(q, m) \in Seq(Key) /\ Len(Above(q, m)) = m - 1
            /\ \A n \in 1..(m - 1) : Above(q, m)[n] = q[n]
        BY <3>3, AbovePath
      <4>4. Above(q, m) = p
        <5>1. p \in Seq(Key) /\ Above(q, m) \in Seq(Key) /\ Len(Above(q, m)) = Len(p)
          BY <2>0, <4>2, <4>3
        <5>2. \A n \in DOMAIN Above(q, m) : Above(q, m)[n] = p[n]
          BY <2>0, <3>3, <4>2, <4>3
        <5>3. QED
          BY <5>1, <5>2, SamePath
      <4>5. QED
        BY <4>1, <4>2, <4>4
    <3>5. q \in Kept(t, step)
      <4>1. \A i \in DOMAIN p : p[i] \in DOMAIN step[Above(p, i)]
        BY DEF Kept
      <4>2. \A i \in DOMAIN q : q[i] \in DOMAIN step[Above(q, i)]
        <5>1. SUFFICES ASSUME NEW i \in DOMAIN q PROVE q[i] \in DOMAIN step[Above(q, i)]
          OBVIOUS
        <5>2. i \in DOMAIN p \/ i = Len(p) + 1
          BY <2>0, <3>3
        <5>3. QED
          BY <3>3, <3>4, <4>1, <5>2
      <4>3. QED
        BY <4>2 DEF Kept
    <3>6. /\ DOMAIN Moved(step, q) = DOMAIN q /\ Len(Moved(step, q)) = Len(q)
          /\ \A i \in DOMAIN q : Moved(step, q)[i] = step[Above(q, i)][q[i]]
          /\ \A i \in DOMAIN p : Moved(step, p)[i] = step[Above(p, i)][p[i]]
      BY <3>5, KeptPaths
    <3>7. /\ Len(Moved(step, q)) = Len(Moved(step, p)) + 1
          /\ \A i \in DOMAIN Moved(step, p) : Moved(step, q)[i] = Moved(step, p)[i]
          /\ Moved(step, q)[Len(Moved(step, p)) + 1] = step[p][j]
      BY <2>0, <3>3, <3>4, <3>6
    <3>8. Below(Moved(step, p), step[p][j], Moved(step, q)) /\ Moved(step, q) \in DOMAIN c
      BY <1>1, <3>5, <3>7 DEF Below
    <3>9. QED
      BY <1>4, <2>0, <3>8, KeysOfNodes
  <2>3. QED
    BY <2>1, <2>2
<1>6. QED
  BY <1>1, <1>2, <1>3, <1>4, <1>5

\* Nothing dropped and nothing renamed.
LEMMA CarriedWhole ==
  ASSUME NEW t, IsTree(t), NEW step, NEW S, NEW label \in [DOMAIN t -> S],
         \A p \in DOMAIN t : \A k \in KeysAt(t, p) : k \in DOMAIN step[p] /\ step[p][k] = k
  PROVE  Carried(t, step, label) = label
<1>1. ASSUME NEW p \in DOMAIN t PROVE p \in Kept(t, step) /\ Moved(step, p) = p
  <2>1. \A i \in DOMAIN p : Above(p, i) \in DOMAIN t /\ p[i] \in KeysAt(t, Above(p, i))
    BY KeysOfNodes
  <2>2. \A i \in DOMAIN p : /\ p[i] \in DOMAIN step[Above(p, i)]
                            /\ step[Above(p, i)][p[i]] = p[i]
    BY <2>1
  <2>3. p \in Seq(Key)
    BY DEF IsTree
  <2>4. QED
    BY <2>2, <2>3 DEF Kept, Moved
<1>2. Kept(t, step) = DOMAIN t
  BY <1>1 DEF Kept
<1>3. {Moved(step, p) : p \in Kept(t, step)} = DOMAIN t
  BY <1>1, <1>2
<1>4. \A q \in DOMAIN t : (CHOOSE p \in Kept(t, step) : Moved(step, p) = q) = q
  BY <1>1, <1>2
<1>5. QED
  BY <1>2, <1>3, <1>4 DEF Carried

-----------------------------------------------------------------------------
(* From a host's object to a Value.                                        *)

LEMMA LabelsApart ==
  /\ <<"list">>[1] = "list" /\ <<"tuple">>[1] = "tuple" /\ <<"map">>[1] = "map"
  /\ <<"table">>[1] = "table" /\ <<"userdata">>[1] = "userdata"
  /\ Nil[1] = "nil" /\ Function[1] = "function" /\ No[1] = "refused"
  /\ \A f : <<"map", f>>[1] = "map" /\ <<"map", f>>[2] = f
  /\ \A f : <<"function", f>>[1] = "function" /\ <<"function", f>>[2] = f
  /\ \A x : SharedLabel(x) => x[1] \in {"nil", "bool", "int", "float", "str"}
  /\ SharedLabel(Nil)
BY DEF Nil, Function, No, SharedLabel

LEMMA KeysHaveTexts ==
  ASSUME NEW k \in Key
  PROVE  KeyText(k) \in Text /\ Named(KeyText(k)) \in Key /\ Named(KeyText(k))[1] = "string"
BY KeyKinds, DigitsAssumption DEF KeyText

LEMMA HostKeysRename ==
  ASSUME NEW o, HostTree(o)
  PROVE  /\ Renames(o, HostKeys(o))
         /\ \A p \in DOMAIN o :
              IF o[p][1] = "map" THEN \A k \in DOMAIN HostKeys(o)[p] : HostKeys(o)[p][k][1] = "string"
              ELSE HostKeys(o)[p] = [k \in KeysAt(o, p) |-> k]
<1>1. SUFFICES ASSUME NEW p \in DOMAIN o
               PROVE  /\ DOMAIN HostKeys(o)[p] \subseteq KeysAt(o, p)
                      /\ \A k \in DOMAIN HostKeys(o)[p] : HostKeys(o)[p][k] \in Key
                      /\ \A j, k \in DOMAIN HostKeys(o)[p] :
                           HostKeys(o)[p][j] = HostKeys(o)[p][k] => j = k
                      /\ IF o[p][1] = "map" THEN \A k \in DOMAIN HostKeys(o)[p] : HostKeys(o)[p][k][1] = "string"
                         ELSE HostKeys(o)[p] = [k \in KeysAt(o, p) |-> k]
  BY DEF Renames
<1>2. KeysAt(o, p) \subseteq Key
  BY KeysOfNodes DEF HostTree
<1>3. CASE o[p][1] # "map"
  <2>1. HostKeys(o)[p] = [k \in KeysAt(o, p) |-> k]
    BY <1>3 DEF HostKeys
  <2>2. QED
    BY <1>2, <1>3, <2>1
<1>4. CASE o[p][1] = "map"
  <2> DEFINE latest == {k \in KeysAt(o, p) : \A j \in KeysAt(o, p) :
                          KeyText(j) = KeyText(k) => o[p][2][j] <= o[p][2][k]}
  <2>1. HostKeys(o)[p] = [k \in latest |-> Named(KeyText(k))]
    BY <1>4 DEF HostKeys
  <2>2. /\ \A k \in KeysAt(o, p) : o[p][2][k] \in Nat
        /\ \A j, k \in KeysAt(o, p) : o[p][2][j] = o[p][2][k] => j = k
    BY <1>4, LabelsApart DEF HostTree, Function
  <2>3. \A k \in latest : Named(KeyText(k)) \in Key /\ Named(KeyText(k))[1] = "string"
    BY <1>2, KeysHaveTexts
  <2>4. ASSUME NEW j \in latest, NEW k \in latest, Named(KeyText(j)) = Named(KeyText(k))
        PROVE  j = k
    <3>1. KeyText(j) = KeyText(k)
      BY <2>4, KeyKinds
    <3>2. o[p][2][j] <= o[p][2][k] /\ o[p][2][k] <= o[p][2][j]
      BY <3>1
    <3>3. QED
      BY <2>2, <3>2
  <2> HIDE DEF latest
  <2>5. latest \subseteq KeysAt(o, p)
    BY DEF latest
  <2>6. QED
    BY <1>4, <2>1, <2>3, <2>4, <2>5
<1>5. QED
  BY <1>3, <1>4

LEMMA ScalarsAreValues ==
  ASSUME NEW l, NEW x, Scalar(l, x) # No
  PROVE  /\ SharedLabel(Scalar(l, x)) \/ Scalar(l, x) = Function
         /\ Scalar(l, x) = Function => l = Uniffi
BY DEF Scalar, PyScalar, SymbolScalar, VariantScalar, FfiScalar, JsonScalar, SharedLabel,
       Function, No, Nil, Python, Ruby, Godot, Uniffi

\* An object that is not refused is a Value, with functions from UniFFI only.
LEMMA FromHostIsValue ==
  ASSUME NEW l, NEW o, HostTree(o), FromHost(l, o) # Refused
  PROVE  /\ ValueTree(FromHost(l, o))
         /\ l # Uniffi => \A p \in DOMAIN FromHost(l, o) : FromHost(l, o)[p] # Function
         /\ Fits(l, FromHost(l, o))
<1> DEFINE label == [p \in DOMAIN o |-> ReadLabel(l, o, p)]
           c == Carried(o, HostKeys(o), label)
<1>1. FromHost(l, o) = c /\ \A p \in DOMAIN o : ReadLabel(l, o, p) # No
  BY DEF FromHost
<1>2. IsTree(o) /\ Renames(o, HostKeys(o))
  BY HostKeysRename DEF HostTree
<1>a. c = Carried(o, HostKeys(o), label)
  OBVIOUS
<1>b. \A p \in DOMAIN o : label[p] = ReadLabel(l, o, p)
  OBVIOUS
<1> HIDE DEF label, c
<1>3. /\ IsTree(c)
      /\ \A q \in DOMAIN c : \E p \in Kept(o, HostKeys(o)) : q = Moved(HostKeys(o), p)
      /\ \A p \in Kept(o, HostKeys(o)) :
           /\ c[Moved(HostKeys(o), p)] = label[p]
           /\ \A k : k \in KeysAt(c, Moved(HostKeys(o), p))
                    <=> \E j \in DOMAIN HostKeys(o)[p] : k = HostKeys(o)[p][j]
  BY <1>a, <1>2, CarriedTree
<1>4. ASSUME NEW p \in Kept(o, HostKeys(o))
      PROVE  LET keys == KeysAt(c, Moved(HostKeys(o), p))
             IN  /\ \/ label[p] = <<"list">> /\ Numbered(keys)
                    \/ label[p] = <<"map">> /\ \A k \in keys : k[1] = "string"
                    \/ (SharedLabel(label[p]) \/ label[p] = Function) /\ keys = {}
                 /\ l # Uniffi => label[p] # Function
  <2>1. p \in DOMAIN o /\ label[p] = ReadLabel(l, o, p) /\ label[p] # No
    BY <1>b, <1>1 DEF Kept
  <2>2. CASE o[p][1] = "map"
    <3>1. label[p] = <<"map">>
      BY <2>1, <2>2 DEF ReadLabel
    <3>2. \A k \in DOMAIN HostKeys(o)[p] : HostKeys(o)[p][k][1] = "string"
      BY <2>1, <2>2, HostKeysRename
    <3>3. QED
      BY <1>3, <3>1, <3>2 DEF Function
  <2>3. CASE o[p][1] # "map"
    <3>1. KeysAt(c, Moved(HostKeys(o), p)) = KeysAt(o, p)
      <4>1. HostKeys(o)[p] = [k \in KeysAt(o, p) |-> k]
        BY <2>1, <2>3, HostKeysRename
      <4>2. /\ DOMAIN HostKeys(o)[p] = KeysAt(o, p)
            /\ \A k \in KeysAt(o, p) : HostKeys(o)[p][k] = k
        BY <4>1
      <4>3. QED
        BY <1>3, <4>2
    <3>2. CASE o[p] \in {<<"list">>, <<"tuple">>}
      <4>1. o[p][1] \in {"list", "tuple"}
        BY <3>2, LabelsApart
      <4>2. label[p] = <<"list">>
        BY <2>1, <4>1 DEF ReadLabel
      <4>3. Numbered(KeysAt(o, p))
        BY <2>1, <3>2, <4>1, LabelsApart DEF HostTree
      <4>4. QED
        BY <3>1, <4>2, <4>3 DEF Function
    <3>3. CASE o[p] \notin {<<"list">>, <<"tuple">>}
      <4>1. /\ SharedLabel(o[p]) \/ o[p] = Function \/ o[p][1] \in {"symbol", "bigint", "object"}
            /\ KeysAt(o, p) = {}
        BY <2>1, <2>3, <3>3, LabelsApart DEF HostTree
      <4>2. label[p] = Scalar(l, o[p])
        BY <2>1, <4>1, LabelsApart DEF ReadLabel
      <4>3. QED
        BY <2>1, <3>1, <4>1, <4>2, ScalarsAreValues
    <3>4. QED
      BY <3>2, <3>3
  <2>4. QED
    BY <2>2, <2>3
<1>5. ASSUME NEW p \in Kept(o, HostKeys(o))
      PROVE  InReach(l, c[Moved(HostKeys(o), p)], Moved(HostKeys(o), p))
  <2>1. /\ p \in DOMAIN o /\ Len(Moved(HostKeys(o), p)) = Len(p)
        /\ c[Moved(HostKeys(o), p)] = ReadLabel(l, o, p) /\ ReadLabel(l, o, p) # No
    BY <1>b, <1>1, <1>2, <1>3, KeptPaths
  <2>2. InReach(l, o[p], p)
    BY <2>1 DEF ReadLabel
  <2>3. ReadLabel(l, o, p)[1] \in Containers => o[p][1] \in Containers
    <3>1. SUFFICES ASSUME o[p][1] \notin Containers PROVE ReadLabel(l, o, p)[1] \notin Containers
      OBVIOUS
    <3>2. ReadLabel(l, o, p) = Scalar(l, o[p])
      BY <2>2, <3>1 DEF ReadLabel, Containers
    <3>3. SharedLabel(Scalar(l, o[p])) \/ Scalar(l, o[p]) = Function
      BY <2>1, <3>2, ScalarsAreValues
    <3>4. QED
      BY <3>2, <3>3, LabelsApart DEF Containers
  <2>4. QED
    BY <2>1, <2>2, <2>3 DEF InReach
<1>6. ValueTree(c) /\ (l # Uniffi => \A p \in DOMAIN c : c[p] # Function)
  BY <1>3, <1>4 DEF ValueTree
<1>7. Fits(l, c)
  BY <1>3, <1>5 DEF Fits
<1>8. QED
  BY <1>1, <1>6, <1>7

-----------------------------------------------------------------------------
(* The order of the functions of a tree.                                   *)

\* Keys that a Lua table or a Value may have.
Ordered(k) == k \in Key /\ k[1] # "symbol"

LEMMA TierIs ==
  ASSUME NEW k, Ordered(k)
  PROVE  /\ Tier(k) \in {0, 1, 2}
         /\ Tier(k) = 0 => k = At(k[2]) /\ k[2] \in Nat
         /\ Tier(k) = 1 => k = <<"string", k[2]>> /\ k[2] \in Text
         /\ Tier(k) = 2 => k = <<"other", k[2]>> /\ k[2] \in Text
<1>1. k \in Key /\ k[1] \in {"integer", "string", "other"}
  BY KeyKinds DEF Ordered
<1>2. CASE k[1] = "integer"
  BY <1>1, <1>2, KeyKinds, DigitsAssumption DEF Tier
<1>3. CASE k[1] = "string"
  <2>1. Tier(k) = 1
    BY <1>3 DEF Tier
  <2>2. QED
    BY <1>1, <1>3, <2>1, KeyKinds
<1>4. CASE k[1] = "other"
  <2>1. Tier(k) = 2
    BY <1>4 DEF Tier
  <2>2. QED
    BY <1>1, <1>4, <2>1, KeyKinds
<1>5. QED
  BY <1>1, <1>2, <1>3, <1>4

LEMMA KeyOrder ==
  ASSUME NEW a, NEW b, NEW c, Ordered(a), Ordered(b), Ordered(c)
  PROVE  /\ a = b \/ KeyBefore(a, b) \/ KeyBefore(b, a)
         /\ KeyBefore(a, b) => a # b /\ ~KeyBefore(b, a)
         /\ KeyBefore(a, b) /\ KeyBefore(b, c) => KeyBefore(a, c)
<1>1. /\ Tier(a) \in {0, 1, 2} /\ Tier(b) \in {0, 1, 2} /\ Tier(c) \in {0, 1, 2}
      /\ Tier(a) = 0 => a[2] \in Nat
      /\ Tier(b) = 0 => b[2] \in Nat
      /\ Tier(c) = 0 => c[2] \in Nat
      /\ Tier(a) # 0 => a[2] \in Text
      /\ Tier(b) # 0 => b[2] \in Text
      /\ Tier(c) # 0 => c[2] \in Text
      /\ Tier(a) = Tier(b) /\ a[2] = b[2] => a = b
  <2>1. ASSUME Tier(a) = Tier(b), a[2] = b[2] PROVE a = b
    BY <2>1, TierIs
  <2>2. QED
    BY <2>1, TierIs
<1>2. a = b \/ KeyBefore(a, b) \/ KeyBefore(b, a)
  BY <1>1, TextAssumption DEF KeyBefore
<1>3. KeyBefore(a, b) => a # b /\ ~KeyBefore(b, a)
  BY <1>1, TextAssumption DEF KeyBefore
<1>4. KeyBefore(a, b) /\ KeyBefore(b, c) => KeyBefore(a, c)
  BY <1>1, TextAssumption DEF KeyBefore
<1>5. QED
  BY <1>2, <1>3, <1>4

\* Before in a walk: an order of paths without the keys of hosts alone.
LEMMA WalkOrder ==
  ASSUME NEW p \in Seq({k \in Key : Ordered(k)}), NEW q \in Seq({k \in Key : Ordered(k)}),
         NEW r \in Seq({k \in Key : Ordered(k)})
  PROVE  /\ WalkBefore(p, q) => p # q /\ ~WalkBefore(q, p)
         /\ WalkBefore(p, q) /\ WalkBefore(q, r) => WalkBefore(p, r)
<1>1. /\ DOMAIN p = 1..Len(p) /\ DOMAIN q = 1..Len(q) /\ DOMAIN r = 1..Len(r)
      /\ Len(p) \in Nat /\ Len(q) \in Nat /\ Len(r) \in Nat
      /\ \A i \in DOMAIN p : Ordered(p[i])
      /\ \A i \in DOMAIN q : Ordered(q[i])
      /\ \A i \in DOMAIN r : Ordered(r[i])
  OBVIOUS
<1>2. ASSUME WalkBefore(p, q) PROVE p # q /\ ~WalkBefore(q, p)
  <2>1. PICK i \in DOMAIN p \cap DOMAIN q : /\ \A j \in 1..(i - 1) : p[j] = q[j]
                                           /\ KeyBefore(p[i], q[i])
    BY <1>2 DEF WalkBefore
  <2>2. p[i] # q[i] /\ ~KeyBefore(q[i], p[i]) /\ ~KeyBefore(p[i], p[i]) /\ i \in Nat
    BY <1>1, <2>1, KeyOrder
  <2>3. ASSUME NEW m \in DOMAIN q \cap DOMAIN p, \A j \in 1..(m - 1) : q[j] = p[j],
               KeyBefore(q[m], p[m])
        PROVE  FALSE
    <3>1. q[m] # p[m] /\ m \in Nat
      BY <1>1, <2>3, KeyOrder
    <3>2. m = i
      BY <1>1, <2>1, <2>2, <2>3, <3>1
    <3>3. QED
      BY <2>2, <2>3, <3>2
  <2>4. QED
    BY <2>2, <2>3 DEF WalkBefore
<1>3. ASSUME WalkBefore(p, q), WalkBefore(q, r) PROVE WalkBefore(p, r)
  <2>1. PICK i \in DOMAIN p \cap DOMAIN q : /\ \A j \in 1..(i - 1) : p[j] = q[j]
                                           /\ KeyBefore(p[i], q[i])
    BY <1>3 DEF WalkBefore
  <2>2. PICK m \in DOMAIN q \cap DOMAIN r : /\ \A j \in 1..(m - 1) : q[j] = r[j]
                                           /\ KeyBefore(q[m], r[m])
    BY <1>3 DEF WalkBefore
  <2>3. CASE i < m
    <3>a. i \in 1..(m - 1) /\ \A j \in 1..(i - 1) : j \in 1..(m - 1)
      BY <1>1, <2>3
    <3>b. i \in DOMAIN r
      BY <1>1, <2>3
    <3>1. i \in DOMAIN r /\ q[i] = r[i] /\ \A j \in 1..(i - 1) : p[j] = r[j]
      BY <2>1, <2>2, <3>a, <3>b
    <3>2. QED
      BY <2>1, <3>1 DEF WalkBefore
  <2>4. CASE m < i
    <3>a. m \in 1..(i - 1) /\ \A j \in 1..(m - 1) : j \in 1..(i - 1)
      BY <1>1, <2>4
    <3>b. m \in DOMAIN p
      BY <1>1, <2>4
    <3>1. m \in DOMAIN p /\ p[m] = q[m] /\ \A j \in 1..(m - 1) : p[j] = r[j]
      BY <2>1, <2>2, <3>a, <3>b
    <3>2. QED
      BY <2>2, <3>1 DEF WalkBefore
  <2>5. CASE m = i
    <3>1. KeyBefore(p[i], r[i])
      BY <1>1, <2>1, <2>2, <2>5, KeyOrder
    <3>2. \A j \in 1..(i - 1) : p[j] = r[j]
      BY <2>1, <2>2, <2>5
    <3>3. QED
      BY <2>1, <2>2, <2>5, <3>1, <3>2 DEF WalkBefore
  <2>6. QED
    BY <1>1, <2>1, <2>2, <2>3, <2>4, <2>5
<1>4. QED
  BY <1>2, <1>3

\* What makes the order of a tree's functions the order of a walk.
Walkable(t) == /\ IsTree(t)
               /\ \A p \in DOMAIN t : \A k \in KeysAt(t, p) : k[1] # "symbol"
               /\ \A p \in Functions(t) : KeysAt(t, p) = {}

LEMMA WalkablePaths ==
  ASSUME NEW t, Walkable(t), NEW p \in DOMAIN t
  PROVE  p \in Seq({k \in Key : Ordered(k)})
<1>1. p \in Seq(Key) /\ \A i \in DOMAIN p : p[i] \in Key /\ p[i] \in KeysAt(t, Above(p, i)) /\ Above(p, i) \in DOMAIN t
  BY KeysOfNodes DEF Walkable
<1>2. \A i \in DOMAIN p : Ordered(p[i])
  BY <1>1 DEF Ordered, Walkable
<1>3. QED
  BY <1>1, <1>2

\* A path that goes on from another passes one of its keys.
LEMMA GoesOn ==
  ASSUME NEW t, IsTree(t), NEW p \in DOMAIN t, NEW q \in DOMAIN t, Len(p) < Len(q),
         \A i \in DOMAIN p : p[i] = q[i]
  PROVE  KeysAt(t, p) # {}
<1>1. /\ p \in Seq(Key) /\ q \in Seq(Key) /\ Len(p) \in Nat /\ Len(q) \in Nat
      /\ DOMAIN p = 1..Len(p) /\ DOMAIN q = 1..Len(q)
  BY DEF IsTree
<1>2. PICK m \in DOMAIN q : m = Len(p) + 1
  BY <1>1
<1>3. /\ Above(q, m) \in Seq(Key) /\ Len(Above(q, m)) = m - 1
      /\ \A j \in 1..(m - 1) : Above(q, m)[j] = q[j]
  BY <1>1, AbovePath
<1>4. Above(q, m) = p
  <2>1. Len(Above(q, m)) = Len(p)
    BY <1>1, <1>2, <1>3
  <2>2. \A n \in DOMAIN Above(q, m) : Above(q, m)[n] = p[n]
    BY <1>1, <1>2, <1>3
  <2>3. QED
    BY <1>1, <1>3, <2>1, <2>2, SamePath
<1>5. q[m] \in KeysAt(t, Above(q, m))
  BY KeysOfNodes
<1>6. QED
  BY <1>4, <1>5

LEMMA WalkIsTotal ==
  ASSUME NEW t, Walkable(t), NEW p \in Functions(t), NEW q \in Functions(t), p # q
  PROVE  WalkBefore(p, q) \/ WalkBefore(q, p)
<1>1. /\ p \in DOMAIN t /\ q \in DOMAIN t /\ KeysAt(t, p) = {} /\ KeysAt(t, q) = {} /\ IsTree(t)
  BY DEF Walkable, Functions
<1>2. /\ p \in Seq(Key) /\ q \in Seq(Key) /\ Len(p) \in Nat /\ Len(q) \in Nat
      /\ DOMAIN p = 1..Len(p) /\ DOMAIN q = 1..Len(q)
  BY <1>1 DEF IsTree
<1> DEFINE T == {i \in DOMAIN p \cap DOMAIN q : p[i] # q[i]}
<1>3. T # {}
  <2>1. SUFFICES ASSUME \A i \in DOMAIN p \cap DOMAIN q : p[i] = q[i] PROVE FALSE
    OBVIOUS
  <2>2. CASE Len(p) < Len(q)
    <3>1. \A i \in DOMAIN p : p[i] = q[i]
      BY <1>2, <2>1, <2>2
    <3>2. QED
      BY <1>1, <2>2, <3>1, GoesOn
  <2>3. CASE Len(q) < Len(p)
    <3>1. \A i \in DOMAIN q : q[i] = p[i]
      BY <1>2, <2>1, <2>3
    <3>2. QED
      BY <1>1, <2>3, <3>1, GoesOn
  <2>4. CASE Len(p) = Len(q)
    <3>1. \A i \in DOMAIN p : p[i] = q[i]
      BY <1>2, <2>1, <2>4
    <3>2. QED
      BY <1>2, <2>4, <3>1, SamePath
  <2>5. Len(p) < Len(q) \/ Len(q) < Len(p) \/ Len(p) = Len(q)
    <3>1. Len(p) \in Nat /\ Len(q) \in Nat
      BY <1>2
    <3>2. \A a, b \in Nat : a < b \/ b < a \/ a = b
      OBVIOUS
    <3>3. QED
      BY <3>1, <3>2
  <2>6. QED
    BY <2>2, <2>3, <2>4, <2>5
<1>4. PICK i \in T : \A j \in T : i <= j
  <2>1. T \subseteq Nat
    BY <1>2
  <2> HIDE DEF T
  <2>2. QED
    BY <1>3, <2>1, FirstOf
<1>5. i \in DOMAIN p /\ i \in DOMAIN q /\ p[i] # q[i] /\ i \in Nat
  BY <1>2
<1>6. \A j \in 1..(i - 1) : p[j] = q[j]
  BY <1>2, <1>4, <1>5
<1>7. Ordered(p[i]) /\ Ordered(q[i])
  <2>1. p \in Seq({k \in Key : Ordered(k)}) /\ q \in Seq({k \in Key : Ordered(k)})
    BY <1>1, WalkablePaths
  <2>2. QED
    BY <1>5, <2>1
<1>8. KeyBefore(p[i], q[i]) \/ KeyBefore(q[i], p[i])
  BY <1>5, <1>7, KeyOrder
<1>9. CASE KeyBefore(p[i], q[i])
  BY <1>5, <1>6, <1>9 DEF WalkBefore
<1>10. CASE KeyBefore(q[i], p[i])
  <2>1. \A j \in 1..(i - 1) : q[j] = p[j]
    BY <1>6
  <2>2. QED
    BY <1>5, <1>10, <2>1 DEF WalkBefore
<1>11. QED
  BY <1>8, <1>9, <1>10

\* Every function of a tree has a turn of its own.
LEMMA Turns ==
  ASSUME NEW t, Walkable(t)
  PROVE  /\ IsFiniteSet(Functions(t)) /\ Cardinality(Functions(t)) \in Nat
         /\ \A p \in Functions(t) : Turn(t, p) \in 1..Cardinality(Functions(t))
         /\ \A p, q \in Functions(t) : Turn(t, p) = Turn(t, q) => p = q
<1> DEFINE F == Functions(t)
           upTo(p) == {q \in F : q = p \/ WalkBefore(q, p)}
<1>1. IsFiniteSet(F) /\ Cardinality(F) \in Nat
  BY FS_Subset, FS_CardinalityType DEF Walkable, IsTree, Functions
<1>2. ASSUME NEW p \in F
      PROVE  /\ Turn(t, p) = Cardinality(upTo(p)) /\ IsFiniteSet(upTo(p))
             /\ Turn(t, p) \in 1..Cardinality(F)
  <2>1. Turn(t, p) = Cardinality(upTo(p))
    BY DEF Turn
  <2>2. upTo(p) \subseteq F /\ p \in upTo(p)
    OBVIOUS
  <2> HIDE DEF F, upTo
  <2>3. IsFiniteSet(upTo(p)) /\ Cardinality(upTo(p)) <= Cardinality(F) /\ Cardinality(upTo(p)) \in Nat
    BY <1>1, <2>2, FS_Subset, FS_CardinalityType
  <2>4. Cardinality(upTo(p)) # 0
    BY <2>2, <2>3, FS_EmptySet
  <2>5. QED
    BY <1>1, <2>1, <2>3, <2>4
<1>3. ASSUME NEW p \in F, NEW q \in F, WalkBefore(p, q)
      PROVE  Turn(t, p) < Turn(t, q)
  <2>1. \A r \in F : r \in Seq({k \in Key : Ordered(k)})
    BY WalkablePaths DEF Functions
  <2>2. upTo(p) \subseteq upTo(q)
    BY <1>3, <2>1, WalkOrder
  <2>3. q \in upTo(q) /\ q \notin upTo(p)
    BY <1>3, <2>1, WalkOrder
  <2> HIDE DEF F, upTo
  <2>4. IsFiniteSet(upTo(q)) /\ upTo(p) # upTo(q)
    BY <1>2, <2>3
  <2>5. /\ Cardinality(upTo(p)) <= Cardinality(upTo(q))
        /\ Cardinality(upTo(p)) # Cardinality(upTo(q))
    BY <2>2, <2>4, FS_Subset
  <2>6. /\ Turn(t, p) = Cardinality(upTo(p)) /\ Turn(t, q) = Cardinality(upTo(q))
        /\ Turn(t, p) \in 1..Cardinality(F) /\ Turn(t, q) \in 1..Cardinality(F)
    BY <1>2
  <2>7. QED
    BY <1>1, <2>5, <2>6
<1>4. \A p, q \in F : Turn(t, p) = Turn(t, q) => p = q
  <2>1. SUFFICES ASSUME NEW p \in F, NEW q \in F, p # q PROVE Turn(t, p) # Turn(t, q)
    OBVIOUS
  <2>2. Turn(t, p) \in Nat /\ Turn(t, q) \in Nat
    <3>1. Turn(t, p) \in 1..Cardinality(F) /\ Turn(t, q) \in 1..Cardinality(F)
      BY <1>2
    <3>2. QED
      BY <1>1, <3>1
  <2>3. WalkBefore(p, q) \/ WalkBefore(q, p)
    BY <2>1, WalkIsTotal
  <2>4. QED
    BY <1>3, <2>2, <2>3
<1>5. QED
  BY <1>1, <1>2, <1>4

-----------------------------------------------------------------------------
(* Into Lua and out of it.                                                 *)

LEMMA NumberedKeys ==
  ASSUME NEW K, K \subseteq Key, Numbered(K)
  PROVE  \A k \in K : k[1] = "integer"
BY KeyKinds DEF Numbered

LEMMA LuaTreesAreWalkable ==
  ASSUME NEW t, LuaTree(t)
  PROVE  /\ Walkable(t)
         /\ \A p \in DOMAIN t : p \in Functions(t) => t[p] = <<"function", t[p][2]>>
<1>1. IsTree(t)
  BY DEF LuaTree
<1>2. ASSUME NEW p \in DOMAIN t
      PROVE  /\ \A k \in KeysAt(t, p) : k[1] # "symbol"
             /\ t[p][1] = "function" => KeysAt(t, p) = {} /\ t[p] = <<"function", t[p][2]>>
  <2>1. CASE t[p] = <<"table">> /\ \A k \in KeysAt(t, p) : k[1] # "symbol"
    BY <2>1, LabelsApart
  <2>2. CASE (SharedLabel(t[p]) \/ t[p] = <<"userdata">>) /\ KeysAt(t, p) = {}
    <3>1. t[p][1] # "function"
      BY <2>2, LabelsApart
    <3>2. QED
      BY <2>2, <3>1
  <2>3. CASE t[p] = <<"function", t[p][2]>> /\ KeysAt(t, p) = {}
    BY <2>3
  <2>4. QED
    BY <2>1, <2>2, <2>3 DEF LuaTree
<1>3. QED
  BY <1>1, <1>2 DEF Walkable, Functions

LEMMA ValueTreesAreWalkable ==
  ASSUME NEW v, ValueTree(v)
  PROVE  /\ Walkable(v)
         /\ \A p \in DOMAIN v : p \in Functions(v) <=> v[p] = Function
<1>1. IsTree(v)
  BY DEF ValueTree
<1>2. ASSUME NEW p \in DOMAIN v
      PROVE  /\ \A k \in KeysAt(v, p) : k[1] # "symbol"
             /\ v[p][1] = "function" <=> v[p] = Function
             /\ v[p] = Function => KeysAt(v, p) = {}
  <2>1. CASE v[p] = <<"list">> /\ Numbered(KeysAt(v, p))
    <3>1. \A k \in KeysAt(v, p) : k[1] = "integer"
      BY <1>1, <2>1, KeysOfNodes, NumberedKeys
    <3>2. v[p][1] = "list" /\ Function[1] = "function"
      BY <2>1, LabelsApart
    <3>3. QED
      BY <3>1, <3>2
  <2>2. CASE v[p] = <<"map">> /\ \A k \in KeysAt(v, p) : k[1] = "string"
    <3>1. v[p][1] = "map" /\ Function[1] = "function"
      BY <2>2, LabelsApart
    <3>2. QED
      BY <2>2, <3>1
  <2>3. CASE (SharedLabel(v[p]) \/ v[p] = Function) /\ KeysAt(v, p) = {}
    BY <2>3, LabelsApart
  <2>4. QED
    BY <2>1, <2>2, <2>3 DEF ValueTree
<1>3. QED
  BY <1>1, <1>2 DEF Walkable, Functions

\* Every function leaves Lua in its turn.
LEMMA StashedInTurn ==
  ASSUME NEW t, Walkable(t)
  PROVE  /\ LuaToAbi(t).stashed \in Seq({t[p][2] : p \in Functions(t)})
         /\ Len(LuaToAbi(t).stashed) = Cardinality(Functions(t))
         /\ \A p \in Functions(t) : LuaToAbi(t).stashed[Turn(t, p)] = t[p][2]
<1> DEFINE n == Cardinality(Functions(t))
           at(m) == CHOOSE p \in Functions(t) : Turn(t, p) = m
           s == LuaToAbi(t).stashed
<1>1. IsFiniteSet(Functions(t)) /\ n \in Nat
  BY Turns
<1>2. s = [m \in 1..n |-> t[at(m)][2]]
  BY DEF LuaToAbi
<1>3. \A p \in Functions(t) : Turn(t, p) \in 1..n /\ at(Turn(t, p)) = p
  BY Turns
<1>4. \A m \in 1..n : at(m) \in Functions(t)
  <2>1. [p \in Functions(t) |-> Turn(t, p)] \in Injection(Functions(t), 1..n)
    <3> DEFINE f == [p \in Functions(t) |-> Turn(t, p)]
    <3>1. f \in [Functions(t) -> 1..n]
      BY <1>3
    <3>2. \A p, q \in Functions(t) : f[p] = f[q] => p = q
      BY Turns
    <3> HIDE DEF f
    <3>3. f \in Injection(Functions(t), 1..n)
      BY <3>1, <3>2 DEF Injection, IsInjective
    <3>4. QED
      BY <3>3 DEF f
  <2>2. IsFiniteSet(1..n) /\ Cardinality(1..n) = n
    <3>1. 1 \in Int /\ n \in Int /\ (1 > n \/ n - 1 + 1 = n)
      BY <1>1
    <3>2. /\ IsFiniteSet(1..n)
          /\ Cardinality(1..n) = IF 1 > n THEN 0 ELSE n - 1 + 1
      BY <3>1, FS_Interval
    <3>3. QED
      BY <1>1, <3>1, <3>2
  <2>3. [p \in Functions(t) |-> Turn(t, p)] \in Surjection(Functions(t), 1..n)
    BY <1>1, <2>1, <2>2, FS_Injection
  <2>4. \A m \in 1..n : \E p \in Functions(t) : Turn(t, p) = m
    BY <2>3 DEF Surjection
  <2>5. QED
    BY <2>4
<1> HIDE DEF s, at, n
<1>5. s \in Seq({t[p][2] : p \in Functions(t)})
  <2>1. \A m \in 1..n : t[at(m)][2] \in {t[p][2] : p \in Functions(t)}
    BY <1>4
  <2>2. QED
    BY <1>1, <1>2, <2>1
<1>6. Len(s) = n
  BY <1>1, <1>2
<1>7. \A p \in Functions(t) : s[Turn(t, p)] = t[p][2]
  BY <1>2, <1>3
<1>8. QED
  BY <1>5, <1>6, <1>7 DEF n, s

\* A Value in Lua: the nils inside it are gone, and everything else is there.
LEMMA IntoLua ==
  ASSUME NEW v, ValueTree(v), NEW S, NEW queue \in Seq(S),
         Cardinality(Functions(v)) <= Len(queue),
         NEW z, z = AbiToLua(v, queue).value
  PROVE  /\ AbiToLua(v, queue).queue \in Seq(S)
         /\ \A p : p \in DOMAIN z <=> p \in DOMAIN v /\ (p = <<>> \/ v[p] # Nil)
         /\ \A p \in DOMAIN z :
              /\ v[p] \in {<<"list">>, <<"map">>} => z[p] = <<"table">>
              /\ v[p] = Function => z[p] = <<"function", queue[Turn(v, p)]>>
              /\ v[p] \notin {<<"list">>, <<"map">>, Function} => z[p] = v[p]
         /\ IsTree(z)
         /\ \A p \in DOMAIN z : KeysAt(z, p) \subseteq KeysAt(v, p)
         /\ Functions(z) = Functions(v)
         /\ Walkable(z)
         /\ z # Refused
<1>0. IsTree(v) /\ Cardinality(Functions(v)) \in Nat /\ Len(queue) \in Nat
  BY ValueTreesAreWalkable, Turns DEF ValueTree
<1>1. /\ z = [p \in {q \in DOMAIN v : q = <<>> \/ v[q] # Nil} |->
                CASE v[p] \in {<<"list">>, <<"map">>} -> <<"table">>
                  [] v[p] = Function -> <<"function", queue[Turn(v, p)]>>
                  [] OTHER -> v[p]]
      /\ AbiToLua(v, queue).queue = SubSeq(queue, Cardinality(Functions(v)) + 1, Len(queue))
  BY <1>0 DEF AbiToLua
<1>2. AbiToLua(v, queue).queue \in Seq(S)
  BY <1>0, <1>1
<1>3. \A p : p \in DOMAIN z <=> p \in DOMAIN v /\ (p = <<>> \/ v[p] # Nil)
  BY <1>1
<1>4. \A p \in DOMAIN z :
        /\ v[p] \in {<<"list">>, <<"map">>} => z[p] = <<"table">>
        /\ v[p] = Function => z[p] = <<"function", queue[Turn(v, p)]>>
        /\ v[p] \notin {<<"list">>, <<"map">>, Function} => z[p] = v[p]
  BY <1>1, LabelsApart
<1>5. IsTree(z)
  <2>1. IsFiniteSet(DOMAIN z)
    BY <1>0, <1>3, FS_Subset DEF IsTree
  <2>2. <<>> \in DOMAIN z
    BY <1>0, <1>3 DEF IsTree
  <2>3. ASSUME NEW p \in DOMAIN z, NEW i \in DOMAIN p PROVE Above(p, i) \in DOMAIN z
    <3>1. Above(p, i) \in DOMAIN v /\ KeysAt(v, Above(p, i)) # {}
      BY <1>0, <1>3, KeysOfNodes
    <3>2. v[Above(p, i)] # Nil
      <4>1. SUFFICES ASSUME v[Above(p, i)] = Nil PROVE FALSE
        OBVIOUS
      <4>2. v[Above(p, i)][1] = "nil"
        BY <4>1, LabelsApart
      <4>3. v[Above(p, i)] # <<"list">> /\ v[Above(p, i)] # <<"map">>
        BY <4>2, LabelsApart
      <4>4. QED
        BY <3>1, <4>3 DEF ValueTree
    <3>3. QED
      BY <1>3, <3>1, <3>2
  <2>4. \A p \in DOMAIN z : p \in Seq(Key)
    BY <1>0, <1>3 DEF IsTree
  <2>5. z = [p \in DOMAIN z |-> z[p]]
    BY <1>1
  <2>6. QED
    BY <2>1, <2>2, <2>3, <2>4, <2>5 DEF IsTree
<1>6. ASSUME NEW p \in DOMAIN z PROVE KeysAt(z, p) \subseteq KeysAt(v, p)
  BY <1>3 DEF KeysAt
<1>7. Functions(z) = Functions(v)
  <2>1. ASSUME NEW p \in DOMAIN z PROVE z[p][1] = "function" <=> v[p][1] = "function"
    <3>1. v[p][1] = "function" <=> v[p] = Function
      BY <1>3, ValueTreesAreWalkable DEF Functions
    <3>2. CASE v[p] \in {<<"list">>, <<"map">>}
      BY <1>4, <3>1, <3>2, LabelsApart
    <3>3. CASE v[p] = Function
      BY <1>4, <3>1, <3>3, LabelsApart
    <3>4. CASE v[p] \notin {<<"list">>, <<"map">>, Function}
      BY <1>4, <3>4
    <3>5. QED
      BY <3>2, <3>3, <3>4
  <2>2. ASSUME NEW p \in DOMAIN v, v[p][1] = "function" PROVE p \in DOMAIN z
    BY <1>3, <2>2, LabelsApart
  <2>3. QED
    BY <1>3, <2>1, <2>2 DEF Functions
<1>8. Walkable(z)
  <2>1. Walkable(v)
    BY ValueTreesAreWalkable
  <2>2. QED
    BY <1>3, <1>5, <1>6, <1>7, <2>1 DEF Walkable, Functions
<1>9. z # Refused
  <2>1. <<>> \in DOMAIN v /\ <<>> \in DOMAIN z
    BY <1>0, <1>5 DEF IsTree
  <2>2. z[<<>>][1] # "refused"
    <3>1. CASE v[<<>>] \in {<<"list">>, <<"map">>}
      BY <1>4, <2>1, <3>1, LabelsApart
    <3>2. CASE v[<<>>] = Function
      BY <1>4, <2>1, <3>2, LabelsApart
    <3>3. CASE v[<<>>] \notin {<<"list">>, <<"map">>, Function}
      <4>1. SharedLabel(v[<<>>]) /\ z[<<>>] = v[<<>>]
        BY <1>4, <2>1, <3>3 DEF ValueTree
      <4>2. QED
        BY <4>1, LabelsApart
    <3>4. QED
      BY <3>1, <3>2, <3>3
  <2>3. Refused[<<>>] = No
    BY DEF Refused, Leaf
  <2>4. QED
    BY <2>2, <2>3, LabelsApart
<1>10. QED
  BY <1>2, <1>3, <1>4, <1>5, <1>6, <1>7, <1>8, <1>9

\* Sequences and tables of texts keep their keys on the way out.
LEMMA KeysStay ==
  ASSUME NEW t, NEW p \in DOMAIN t,
         Numbered(KeysAt(t, p)) \/ \A k \in KeysAt(t, p) : k[1] = "string"
  PROVE  \A k \in KeysAt(t, p) : k \in DOMAIN AbiKeys(t)[p] /\ AbiKeys(t)[p][k] = k
<1> DEFINE K == KeysAt(t, p)
<1>1. AbiKeys(t)[p] = IF Numbered(K) THEN [k \in K |-> k]
                      ELSE IF \A k \in K : k[1] = "integer" THEN [k \in K |-> Named(Digits(k[2]))]
                      ELSE [k \in {j \in K : j[1] = "string"} |-> k]
  BY DEF AbiKeys
<1>2. SUFFICES ASSUME NEW k \in K PROVE k \in DOMAIN AbiKeys(t)[p] /\ AbiKeys(t)[p][k] = k
  OBVIOUS
<1> HIDE DEF K
<1>3. CASE Numbered(K)
  BY <1>1, <1>3
<1>4. CASE ~Numbered(K)
  <2>1. \A j \in K : j[1] = "string"
    BY <1>4 DEF K
  <2>2. AbiKeys(t)[p] = [j \in {i \in K : i[1] = "string"} |-> j]
    BY <1>1, <1>4, <2>1
  <2>3. QED
    BY <2>1, <2>2
<1>5. QED
  BY <1>3, <1>4

LEMMA WholeOutOfLua ==
  ASSUME NEW t, IsTree(t),
         \A p \in DOMAIN t : \/ Numbered(KeysAt(t, p))
                             \/ \A k \in KeysAt(t, p) : k[1] = "string"
  PROVE  /\ DOMAIN LuaToAbi(t).value = DOMAIN t
         /\ \A p \in DOMAIN t : LuaToAbi(t).value[p] = AbiLabel(t, p)
         /\ LuaToAbi(t).value = [p \in DOMAIN t |-> AbiLabel(t, p)]
<1> DEFINE label == [p \in DOMAIN t |-> AbiLabel(t, p)]
           S == {AbiLabel(t, p) : p \in DOMAIN t}
<1>1. label \in [DOMAIN t -> S]
  OBVIOUS
<1>2. LuaToAbi(t).value = Carried(t, AbiKeys(t), label)
  BY DEF LuaToAbi
<1>3. \A p \in DOMAIN t : \A k \in KeysAt(t, p) : k \in DOMAIN AbiKeys(t)[p] /\ AbiKeys(t)[p][k] = k
  BY KeysStay
<1>4. label = [p \in DOMAIN t |-> AbiLabel(t, p)]
  OBVIOUS
<1> HIDE DEF label, S
<1>5. LuaToAbi(t).value = label
  BY <1>1, <1>2, <1>3, CarriedWhole
<1>6. QED
  BY <1>4, <1>5

\* A module of sequences and tables of texts arrives whole when the queue holds
\* its functions and no other.
LEMMA ModuleComesWhole ==
  ASSUME NEW t, LuaTree(t), Regular(t)
  PROVE  AbiToLua(LuaToAbi(t).value, LuaToAbi(t).stashed).value = t
<1> DEFINE v == LuaToAbi(t).value
           s == LuaToAbi(t).stashed
           S == {t[p][2] : p \in Functions(t)}
           z == AbiToLua(v, s).value
<1>1. /\ Walkable(t) /\ IsTree(t)
      /\ \A p \in DOMAIN t : p \in Functions(t) => t[p] = <<"function", t[p][2]>>
  BY LuaTreesAreWalkable DEF LuaTree
<1>2. /\ DOMAIN v = DOMAIN t
      /\ \A p \in DOMAIN t : v[p] = AbiLabel(t, p)
  BY <1>1, WholeOutOfLua DEF Regular
<1>3. ASSUME NEW p \in DOMAIN t
      PROVE  /\ KeysAt(v, p) = KeysAt(t, p)
             /\ v[p] # Nil
             /\ \/ /\ t[p] = <<"table">> /\ t[p][1] # "function"
                   /\ \/ v[p] = <<"list">> /\ Numbered(KeysAt(t, p))
                      \/ v[p] = <<"map">> /\ \A k \in KeysAt(t, p) : k[1] = "string"
                \/ /\ t[p][1] = "function" /\ v[p] = Function /\ KeysAt(t, p) = {}
                \/ /\ SharedLabel(t[p]) /\ t[p][1] # "function" /\ KeysAt(t, p) = {}
                   /\ v[p] = t[p] /\ v[p] \notin {<<"list">>, <<"map">>, Function}
  <2>1. KeysAt(v, p) = KeysAt(t, p)
    BY <1>2 DEF KeysAt
  <2>2. t[p] # Nil /\ t[p] # <<"userdata">>
    BY <1>3 DEF Regular
  <2>3. CASE t[p] = <<"table">>
    <3>1. v[p] = IF Numbered(KeysAt(t, p)) THEN <<"list">> ELSE <<"map">>
      BY <1>2, <2>3 DEF AbiLabel
    <3>2. Numbered(KeysAt(t, p)) \/ \A k \in KeysAt(t, p) : k[1] = "string"
      BY <1>3 DEF Regular
    <3>3. <<"list">> # Nil /\ <<"map">> # Nil /\ t[p][1] # "function"
      BY <2>3, LabelsApart
    <3>4. QED
      BY <2>1, <2>3, <3>1, <3>2, <3>3
  <2>4. CASE t[p] # <<"table">> /\ t[p][1] = "function"
    <3>1. v[p] = Function /\ Function # Nil
      BY <1>2, <2>4, LabelsApart DEF AbiLabel
    <3>2. KeysAt(t, p) = {}
      BY <1>1, <2>4 DEF Walkable, Functions
    <3>3. QED
      BY <2>1, <2>4, <3>1, <3>2
  <2>5. CASE t[p] # <<"table">> /\ t[p][1] # "function"
    <3>1. v[p] = t[p]
      BY <1>2, <2>2, <2>5 DEF AbiLabel
    <3>2. SharedLabel(t[p]) /\ KeysAt(t, p) = {}
      BY <2>2, <2>5 DEF LuaTree
    <3>3. t[p] \notin {<<"list">>, <<"map">>, Function}
      BY <3>2, LabelsApart
    <3>4. QED
      BY <2>1, <2>2, <2>5, <3>1, <3>2, <3>3
  <2>6. QED
    BY <2>3, <2>4, <2>5
<1>4. Functions(v) = Functions(t)
  <2>1. \A p \in DOMAIN t : v[p][1] = "function" <=> t[p][1] = "function"
    BY <1>3, LabelsApart
  <2>2. QED
    BY <1>2, <2>1 DEF Functions
<1>5. s \in Seq(S) /\ Len(s) = Cardinality(Functions(v)) /\ Cardinality(Functions(t)) \in Nat
      /\ \A p \in Functions(t) : s[Turn(t, p)] = t[p][2]
  BY <1>1, <1>4, StashedInTurn, Turns
<1>6. \A p \in DOMAIN t : Turn(v, p) = Turn(t, p)
  BY <1>4 DEF Turn
<1>7. IsTree(v)
  <2>1. v = [p \in DOMAIN t |-> AbiLabel(t, p)]
    BY <1>1, WholeOutOfLua DEF Regular
  <2>2. v = [p \in DOMAIN v |-> v[p]]
    BY <2>1
  <2> HIDE DEF v
  <2>3. QED
    BY <1>1, <1>2, <2>2 DEF IsTree
<1>8. ValueTree(v)
  <2>1. \A p \in DOMAIN v :
          \/ v[p] = <<"list">> /\ Numbered(KeysAt(v, p))
          \/ v[p] = <<"map">> /\ \A k \in KeysAt(v, p) : k[1] = "string"
          \/ (SharedLabel(v[p]) \/ v[p] = Function) /\ KeysAt(v, p) = {}
    BY <1>2, <1>3
  <2>2. QED
    BY <1>7, <2>1 DEF ValueTree
<1>9. /\ Cardinality(Functions(v)) <= Len(s)
      /\ z = AbiToLua(v, s).value
  BY <1>4, <1>5
<1> HIDE DEF v, s, S, z
<1>10. /\ IsTree(z)
       /\ \A p : p \in DOMAIN z <=> p \in DOMAIN v /\ (p = <<>> \/ v[p] # Nil)
       /\ \A p \in DOMAIN z :
            /\ v[p] \in {<<"list">>, <<"map">>} => z[p] = <<"table">>
            /\ v[p] = Function => z[p] = <<"function", s[Turn(v, p)]>>
            /\ v[p] \notin {<<"list">>, <<"map">>, Function} => z[p] = v[p]
  BY <1>5, <1>8, <1>9, IntoLua
<1>11. \A p : p \in DOMAIN z <=> p \in DOMAIN t
  BY <1>2, <1>3, <1>10
<1>12. ASSUME NEW p \in DOMAIN t PROVE z[p] = t[p]
  <2>1. CASE t[p] = <<"table">> /\ v[p] \in {<<"list">>, <<"map">>}
    BY <1>10, <1>11, <2>1
  <2>2. CASE t[p][1] = "function" /\ v[p] = Function
    <3>1. p \in Functions(t) /\ t[p] = <<"function", t[p][2]>>
      BY <1>1, <2>2 DEF Functions
    <3>2. z[p] = <<"function", s[Turn(v, p)]>>
      BY <1>10, <1>11, <2>2
    <3>3. s[Turn(v, p)] = t[p][2]
      BY <1>5, <1>6, <3>1
    <3>4. QED
      BY <3>1, <3>2, <3>3
  <2>3. CASE v[p] = t[p] /\ v[p] \notin {<<"list">>, <<"map">>, Function}
    BY <1>10, <1>11, <2>3
  <2>4. QED
    BY <1>3, <2>1, <2>2, <2>3
<1>13. z = t
  <2>1. t = [p \in DOMAIN t |-> t[p]] /\ z = [p \in DOMAIN z |-> z[p]]
    BY <1>1, <1>10 DEF IsTree
  <2>2. DOMAIN z = DOMAIN t
    BY <1>11
  <2>3. QED
    BY <1>12, <2>1, <2>2
<1>14. QED
  BY <1>13 DEF z, v, s

\* What a plugin that echoes a Value can answer: no nil inside, no empty map.
Echoed(w) == /\ ValueTree(w)
             /\ \A p \in DOMAIN w : /\ p # <<>> => w[p] # Nil
                                    /\ w[p] = <<"map">> => KeysAt(w, p) # {}

LEMMA EchoComesBack ==
  ASSUME NEW w, Echoed(w), NEW S, NEW queue \in Seq(S),
         Cardinality(Functions(w)) <= Len(queue),
         NEW z, z = AbiToLua(w, queue).value
  PROVE  /\ z # Refused /\ Walkable(z)
         /\ LuaToAbi(z).value = w
         /\ Functions(z) = Functions(w)
         /\ AbiToLua(w, queue).queue \in Seq(S)
<1>1. ValueTree(w) /\ IsTree(w)
  BY DEF Echoed, ValueTree
<1>2. /\ z # Refused /\ Walkable(z) /\ IsTree(z) /\ Functions(z) = Functions(w)
      /\ AbiToLua(w, queue).queue \in Seq(S)
      /\ \A p : p \in DOMAIN z <=> p \in DOMAIN w /\ (p = <<>> \/ w[p] # Nil)
      /\ \A p \in DOMAIN z :
           /\ w[p] \in {<<"list">>, <<"map">>} => z[p] = <<"table">>
           /\ w[p] = Function => z[p] = <<"function", queue[Turn(w, p)]>>
           /\ w[p] \notin {<<"list">>, <<"map">>, Function} => z[p] = w[p]
  BY <1>1, IntoLua
<1>3. DOMAIN z = DOMAIN w /\ \A p \in DOMAIN w : KeysAt(z, p) = KeysAt(w, p)
  <2>1. DOMAIN z = DOMAIN w
    BY <1>2 DEF Echoed
  <2>2. QED
    BY <2>1 DEF KeysAt
<1>4. ASSUME NEW p \in DOMAIN w
      PROVE  /\ Numbered(KeysAt(z, p)) \/ \A k \in KeysAt(z, p) : k[1] = "string"
             /\ AbiLabel(z, p) = w[p]
  <2>1. CASE w[p] = <<"list">> /\ Numbered(KeysAt(w, p))
    <3>1. z[p] = <<"table">> /\ Numbered(KeysAt(z, p))
      BY <1>2, <1>3, <2>1
    <3>2. QED
      BY <2>1, <3>1, LabelsApart DEF AbiLabel
  <2>2. CASE w[p] = <<"map">> /\ \A k \in KeysAt(w, p) : k[1] = "string"
    <3>1. z[p] = <<"table">> /\ \A k \in KeysAt(z, p) : k[1] = "string"
      BY <1>2, <1>3, <2>2
    <3>2. KeysAt(z, p) # {} /\ KeysAt(z, p) \subseteq Key
      BY <1>1, <1>3, <2>2, KeysOfNodes DEF Echoed
    <3>3. ~Numbered(KeysAt(z, p))
      BY <3>1, <3>2, NumberedKeys
    <3>4. QED
      BY <2>2, <3>1, <3>3, LabelsApart DEF AbiLabel
  <2>3. CASE w[p] = Function /\ KeysAt(w, p) = {}
    <3>1. z[p] = <<"function", queue[Turn(w, p)]>> /\ KeysAt(z, p) = {}
      BY <1>2, <1>3, <2>3
    <3>2. z[p][1] = "function" /\ z[p] # <<"table">>
      BY <3>1, LabelsApart
    <3>3. QED
      BY <2>3, <3>1, <3>2 DEF AbiLabel
  <2>4. CASE SharedLabel(w[p]) /\ KeysAt(w, p) = {}
    <3>1. w[p] \notin {<<"list">>, <<"map">>, <<"table">>, <<"userdata">>, Function} /\ w[p][1] # "function"
      BY <2>4, LabelsApart
    <3>2. z[p] = w[p]
      BY <1>2, <1>3, <3>1
    <3>3. QED
      BY <1>3, <2>4, <3>1, <3>2 DEF AbiLabel
  <2>5. QED
    BY <1>1, <2>1, <2>2, <2>3, <2>4 DEF ValueTree
<1>5. /\ DOMAIN LuaToAbi(z).value = DOMAIN z
      /\ \A p \in DOMAIN z : LuaToAbi(z).value[p] = AbiLabel(z, p)
      /\ LuaToAbi(z).value = [p \in DOMAIN z |-> AbiLabel(z, p)]
  BY <1>2, <1>3, <1>4, WholeOutOfLua
<1>6. LuaToAbi(z).value = w
  <2>1. w = [p \in DOMAIN w |-> w[p]]
    BY <1>1 DEF IsTree
  <2>2. QED
    BY <1>3, <1>4, <1>5, <2>1
<1>7. QED
  BY <1>2, <1>6

LEMMA NoKeysAreNumbered == Numbered({})
BY FS_EmptySet DEF Numbered

\* After nils are gone a list may have holes: it becomes a map of texts.
LEMMA KeysRenamed ==
  ASSUME NEW z, IsTree(z), NEW p \in DOMAIN z,
         \/ \A k \in KeysAt(z, p) : k[1] = "integer"
         \/ \A k \in KeysAt(z, p) : k[1] = "string"
  PROVE  /\ DOMAIN AbiKeys(z)[p] = KeysAt(z, p)
         /\ \A k \in KeysAt(z, p) : AbiKeys(z)[p][k] \in Key
         /\ \A j, k \in KeysAt(z, p) : AbiKeys(z)[p][j] = AbiKeys(z)[p][k] => j = k
         /\ Numbered(KeysAt(z, p)) => \A k \in KeysAt(z, p) : AbiKeys(z)[p][k] = k
         /\ ~Numbered(KeysAt(z, p)) => /\ KeysAt(z, p) # {}
                                       /\ \A k \in KeysAt(z, p) : AbiKeys(z)[p][k][1] = "string"
<1> DEFINE K == KeysAt(z, p)
<1>1. AbiKeys(z)[p] = IF Numbered(K) THEN [k \in K |-> k]
                      ELSE IF \A k \in K : k[1] = "integer" THEN [k \in K |-> Named(Digits(k[2]))]
                      ELSE [k \in {j \in K : j[1] = "string"} |-> k]
  BY DEF AbiKeys
<1>2. K \subseteq Key
  BY KeysOfNodes
<1>3. \/ \A k \in K : k[1] = "integer"
      \/ \A k \in K : k[1] = "string"
  OBVIOUS
<1> HIDE DEF K
<1>4. CASE Numbered(K)
  BY <1>1, <1>2, <1>4 DEF K
<1>5. CASE ~Numbered(K) /\ \A k \in K : k[1] = "integer"
  <2>1. K # {}
    BY <1>5, NoKeysAreNumbered
  <2>2. AbiKeys(z)[p] = [k \in K |-> Named(Digits(k[2]))]
    BY <1>1, <1>5
  <2>3. \A k \in K : k[2] \in 1..MaxPosition /\ k = At(k[2])
    BY <1>2, <1>5, KeyKinds
  <2>4. \A k \in K : Named(Digits(k[2])) \in Key /\ Named(Digits(k[2]))[1] = "string"
    BY <2>3, DigitsAssumption, KeyKinds
  <2>5. ASSUME NEW j \in K, NEW k \in K, Named(Digits(j[2])) = Named(Digits(k[2])) PROVE j = k
    <3>1. Digits(j[2]) = Digits(k[2])
      BY <2>5, KeyKinds
    <3>2. j[2] = k[2]
      BY <2>3, <3>1, DigitsAssumption
    <3>3. QED
      BY <2>3, <3>2
  <2>6. QED
    BY <1>5, <2>1, <2>2, <2>4, <2>5 DEF K
<1>6. CASE ~Numbered(K) /\ ~(\A k \in K : k[1] = "integer")
  <2>1. \A k \in K : k[1] = "string"
    BY <1>3, <1>6
  <2>2. AbiKeys(z)[p] = [k \in {j \in K : j[1] = "string"} |-> k]
    BY <1>1, <1>6
  <2>3. DOMAIN AbiKeys(z)[p] = K /\ \A k \in K : AbiKeys(z)[p][k] = k
    BY <2>1, <2>2
  <2>4. K # {}
    BY <1>6, NoKeysAreNumbered
  <2>5. QED
    BY <1>2, <1>6, <2>1, <2>3, <2>4 DEF K
<1>7. QED
  BY <1>4, <1>5, <1>6

\* Whatever Value enters a plugin, what its echo comes back as is settled.
LEMMA LuaSettles ==
  ASSUME NEW v, ValueTree(v), NEW S, NEW queue \in Seq(S),
         Cardinality(Functions(v)) <= Len(queue),
         NEW z, z = AbiToLua(v, queue).value,
         NEW r, r = LuaToAbi(z).value
  PROVE  /\ Echoed(r)
         /\ Cardinality(Functions(r)) <= Cardinality(Functions(z))
         /\ (\A p \in DOMAIN v : v[p] # Function) => \A p \in DOMAIN r : r[p] # Function
         /\ \A l : Fits(l, v) => Fits(l, r)
<1> DEFINE step == AbiKeys(z)
           label == [p \in DOMAIN z |-> AbiLabel(z, p)]
<1>1. IsTree(v)
  BY DEF ValueTree
<1>2. /\ Walkable(z) /\ IsTree(z) /\ Functions(z) = Functions(v)
      /\ \A p : p \in DOMAIN z <=> p \in DOMAIN v /\ (p = <<>> \/ v[p] # Nil)
      /\ \A p \in DOMAIN z : KeysAt(z, p) \subseteq KeysAt(v, p)
      /\ \A p \in DOMAIN z :
           /\ v[p] \in {<<"list">>, <<"map">>} => z[p] = <<"table">>
           /\ v[p] = Function => z[p] = <<"function", queue[Turn(v, p)]>>
           /\ v[p] \notin {<<"list">>, <<"map">>, Function} => z[p] = v[p]
  BY IntoLua
<1>3. ASSUME NEW p \in DOMAIN z
      PROVE  \/ \A k \in KeysAt(z, p) : k[1] = "integer"
             \/ \A k \in KeysAt(z, p) : k[1] = "string"
  <2>1. p \in DOMAIN v /\ KeysAt(z, p) \subseteq KeysAt(v, p) /\ KeysAt(v, p) \subseteq Key
    BY <1>1, <1>2, KeysOfNodes
  <2>2. QED
    BY <2>1, NumberedKeys DEF ValueTree
<1>4. \A p \in DOMAIN z :
        /\ DOMAIN step[p] = KeysAt(z, p)
        /\ \A k \in KeysAt(z, p) : step[p][k] \in Key
        /\ \A j, k \in KeysAt(z, p) : step[p][j] = step[p][k] => j = k
        /\ Numbered(KeysAt(z, p)) => \A k \in KeysAt(z, p) : step[p][k] = k
        /\ ~Numbered(KeysAt(z, p)) => /\ KeysAt(z, p) # {}
                                      /\ \A k \in KeysAt(z, p) : step[p][k][1] = "string"
  BY <1>2, <1>3, KeysRenamed
<1>5. Renames(z, step)
  BY <1>4 DEF Renames
<1>6. r = Carried(z, step, label)
  BY DEF LuaToAbi
<1>7. \A p \in DOMAIN z : label[p] = AbiLabel(z, p)
  OBVIOUS
<1> HIDE DEF step, label
<1>8. /\ IsTree(r)
      /\ \A q \in DOMAIN r : \E p \in Kept(z, step) : q = Moved(step, p)
      /\ <<>> \in Kept(z, step) /\ Moved(step, <<>>) = <<>>
      /\ \A p \in Kept(z, step) :
           /\ Moved(step, p) \in DOMAIN r
           /\ r[Moved(step, p)] = label[p]
           /\ \A k : k \in KeysAt(r, Moved(step, p)) <=> \E j \in DOMAIN step[p] : k = step[p][j]
  BY <1>2, <1>5, <1>6, CarriedTree
<1>9. \A p \in Kept(z, step) : /\ p \in DOMAIN z /\ p \in DOMAIN v
                               /\ Len(Moved(step, p)) = Len(p)
  BY <1>2, <1>5, KeptPaths
<1>10. ASSUME NEW p \in Kept(z, step)
       PROVE  LET q == Moved(step, p)
              IN  /\ \/ r[q] = <<"list">> /\ Numbered(KeysAt(r, q))
                     \/ r[q] = <<"map">> /\ KeysAt(r, q) # {} /\ \A k \in KeysAt(r, q) : k[1] = "string"
                     \/ (SharedLabel(r[q]) \/ r[q] = Function) /\ KeysAt(r, q) = {}
                  /\ q # <<>> => r[q] # Nil
                  /\ r[q] = <<"map">> => KeysAt(r, q) # {}
                  /\ r[q] = Function => v[p] = Function
                  /\ r[q][1] = "function" <=> z[p][1] = "function"
                  /\ r[q][1] \in Containers => v[p][1] \in Containers
  <2> DEFINE q == Moved(step, p)
  <2>1. /\ p \in DOMAIN z /\ p \in DOMAIN v /\ r[q] = AbiLabel(z, p)
        /\ \A k : k \in KeysAt(r, q) <=> \E j \in KeysAt(z, p) : k = step[p][j]
    BY <1>4, <1>7, <1>8, <1>9
  <2>2. q # <<>> => p # <<>>
    BY <1>8
  <2>a. /\ Numbered(KeysAt(z, p)) => \A k \in KeysAt(z, p) : step[p][k] = k
        /\ ~Numbered(KeysAt(z, p)) => /\ KeysAt(z, p) # {}
                                      /\ \A k \in KeysAt(z, p) : step[p][k][1] = "string"
    BY <1>4, <2>1
  <2> HIDE DEF q
  <2>3. CASE v[p] \in {<<"list">>, <<"map">>}
    <3>1. z[p] = <<"table">> /\ v[p][1] \in Containers
      BY <1>2, <2>1, <2>3, LabelsApart DEF Containers
    <3>2. CASE Numbered(KeysAt(z, p))
      <4>1. KeysAt(r, q) = KeysAt(z, p)
        <5>1. \A k \in KeysAt(z, p) : step[p][k] = k
          BY <2>a, <3>2
        <5>2. \A k : k \in KeysAt(r, q) <=> \E j \in KeysAt(z, p) : k = step[p][j]
          BY <2>1
        <5>3. \A k : k \in KeysAt(r, q) <=> k \in KeysAt(z, p)
          BY <5>1, <5>2
        <5>4. QED
          BY <5>3
      <4>2. r[q] = <<"list">>
        BY <2>1, <3>1, <3>2 DEF AbiLabel
      <4>3. /\ r[q] # Nil /\ r[q] # Function /\ r[q] # <<"map">>
            /\ r[q][1] # "function" /\ z[p][1] # "function"
        BY <3>1, <4>2, LabelsApart
      <4>4. QED
        BY <3>1, <3>2, <4>1, <4>2, <4>3 DEF q
    <3>3. CASE ~Numbered(KeysAt(z, p))
      <4>1. KeysAt(r, q) # {} /\ \A k \in KeysAt(r, q) : k[1] = "string"
        <5>1. KeysAt(z, p) # {} /\ \A k \in KeysAt(z, p) : step[p][k][1] = "string"
          BY <2>a, <3>3
        <5>2. \A k : k \in KeysAt(r, q) <=> \E j \in KeysAt(z, p) : k = step[p][j]
          BY <2>1
        <5>3. PICK j \in KeysAt(z, p) : TRUE
          BY <5>1
        <5>4. step[p][j] \in KeysAt(r, q)
          BY <5>2
        <5>5. \A k \in KeysAt(r, q) : k[1] = "string"
          BY <5>1, <5>2
        <5>6. QED
          BY <5>4, <5>5
      <4>2. r[q] = <<"map">>
        BY <2>1, <3>1, <3>3 DEF AbiLabel
      <4>3. /\ r[q] # Nil /\ r[q] # Function
            /\ r[q][1] # "function" /\ z[p][1] # "function"
        BY <3>1, <4>2, LabelsApart
      <4>4. QED
        BY <3>1, <4>1, <4>2, <4>3 DEF q
    <3>4. QED
      BY <3>2, <3>3
  <2>4. CASE v[p] \notin {<<"list">>, <<"map">>}
    <3>1. (SharedLabel(v[p]) \/ v[p] = Function) /\ KeysAt(v, p) = {}
      BY <2>1, <2>4 DEF ValueTree
    <3>2. KeysAt(r, q) = {}
      BY <1>2, <2>1, <3>1
    <3>3. CASE v[p] = Function
      <4>1. z[p] = <<"function", queue[Turn(v, p)]>>
        BY <1>2, <2>1, <3>3
      <4>2. z[p][1] = "function" /\ z[p] # <<"table">>
        BY <4>1, LabelsApart
      <4>3. r[q] = Function
        BY <2>1, <4>2 DEF AbiLabel
      <4>4. r[q][1] \notin Containers
        BY <4>3, LabelsApart DEF Containers
      <4>5. QED
        BY <3>2, <3>3, <4>2, <4>3, <4>4, LabelsApart DEF q
    <3>4. CASE SharedLabel(v[p])
      <4>1. v[p] \notin {<<"table">>, <<"userdata">>, Function, <<"map">>} /\ v[p][1] # "function"
        BY <3>4, LabelsApart
      <4>2. z[p] = v[p]
        BY <1>2, <2>1, <2>4, <4>1
      <4>3. r[q] = v[p]
        BY <2>1, <4>1, <4>2 DEF AbiLabel
      <4>4. q # <<>> => r[q] # Nil
        BY <1>2, <2>1, <2>2, <4>3
      <4>5. QED
        BY <3>2, <3>4, <4>1, <4>2, <4>3, <4>4 DEF q
    <3>5. QED
      BY <3>1, <3>3, <3>4
  <2>5. QED
    BY <2>3, <2>4
<1>11. Echoed(r)
  <2>1. ValueTree(r)
    BY <1>8, <1>10 DEF ValueTree
  <2>2. QED
    BY <1>8, <1>10, <2>1 DEF Echoed
<1>12. Cardinality(Functions(r)) <= Cardinality(Functions(z))
  <2> DEFINE D == {p \in Kept(z, step) : z[p][1] = "function"}
             f == [p \in D |-> Moved(step, p)]
  <2>1. D \subseteq Functions(z)
    BY <1>9 DEF Functions
  <2>2. \A p \in D : Moved(step, p) \in Functions(r)
    BY <1>8, <1>10 DEF Functions
  <2>3. \A q \in Functions(r) : \E p \in D : q = Moved(step, p)
    BY <1>8, <1>10 DEF Functions
  <2> HIDE DEF D
  <2>4. f \in Surjection(D, Functions(r))
    BY <2>2, <2>3 DEF Surjection
  <2> HIDE DEF f
  <2>5. IsFiniteSet(Functions(z))
    BY <1>2, Turns
  <2>6. IsFiniteSet(D) /\ Cardinality(D) <= Cardinality(Functions(z))
    BY <2>1, <2>5, FS_Subset
  <2>7. Cardinality(Functions(r)) <= Cardinality(D) /\ IsFiniteSet(Functions(r))
    BY <2>4, <2>6, FS_Surjection
  <2>8. /\ Cardinality(D) \in Nat /\ Cardinality(Functions(z)) \in Nat
        /\ Cardinality(Functions(r)) \in Nat
    BY <2>5, <2>6, <2>7, FS_CardinalityType
  <2>9. QED
    BY <2>6, <2>7, <2>8
<1>13. ASSUME \A p \in DOMAIN v : v[p] # Function PROVE \A p \in DOMAIN r : r[p] # Function
  BY <1>8, <1>9, <1>10, <1>13
<1>14. ASSUME NEW l, Fits(l, v) PROVE Fits(l, r)
  <2>1. ASSUME NEW p \in Kept(z, step) PROVE InReach(l, r[Moved(step, p)], Moved(step, p))
    <3>1. p \in DOMAIN v /\ Len(Moved(step, p)) = Len(p) /\ InReach(l, v[p], p)
      BY <1>9, <1>14 DEF Fits
    <3>2. r[Moved(step, p)][1] \in Containers => v[p][1] \in Containers
      BY <1>10
    <3>3. QED
      BY <3>1, <3>2 DEF InReach
  <2>2. QED
    BY <1>8, <2>1 DEF Fits
<1>15. QED
  BY <1>11, <1>12, <1>13, <1>14

-----------------------------------------------------------------------------
(* From a Value to a host's object and back.                               *)

LEMMA HostScalars ==
  ASSUME NEW l \in Languages, NEW x, SharedLabel(x), HostScalar(l, x) # No
  PROVE  /\ SharedLabel(HostScalar(l, x))
         /\ HostScalar(l, x) = Nil => x = Nil
         /\ HostScalar(l, HostScalar(l, x)) = HostScalar(l, x)
         /\ Scalar(l, HostScalar(l, x)) = HostScalar(l, x)
         /\ l # C => HostScalar(l, x) = x
<1>1. x # Function /\ Nan # Nil /\ <<"int", 0>> # Nan /\ <<"int", 0>> # Function
      /\ <<"int", 0>> # Nil /\ SharedLabel(<<"int", 0>>)
  BY LabelsApart DEF Nan, Nil, SharedLabel, Function
<1>2. \A y : SharedLabel(y) => Scalar(l, y) = y
  <2>1. SUFFICES ASSUME NEW y, SharedLabel(y) PROVE Scalar(l, y) = y
    OBVIOUS
  <2>2. y[1] # "symbol" /\ y[1] # "bigint"
    BY <2>1, LabelsApart
  <2>3. /\ PyScalar(y) = y /\ SymbolScalar(y) = y /\ VariantScalar(y) = y
        /\ FfiScalar(y) = y /\ JsonScalar(y) = y
    BY <2>1, <2>2 DEF PyScalar, SymbolScalar, VariantScalar, FfiScalar, JsonScalar
  <2>4. QED
    BY <2>3 DEF Scalar
<1>3. CASE l = Python
  <2>1. \A y : HostScalar(l, y) = ToPy(y)
    BY <1>3 DEF HostScalar, Python, Ruby, Godot, Uniffi, C, Wire
  <2>2. ToPy(x) = x /\ l # C
    BY <1>1, <1>3 DEF ToPy, Python, C
  <2>3. QED
    BY <1>2, <2>1, <2>2
<1>4. CASE l = Ruby
  <2>1. \A y : HostScalar(l, y) = ToRuby(y)
    BY <1>4 DEF HostScalar, Python, Ruby, Godot, Uniffi, C, Wire
  <2>2. ToRuby(x) = x /\ l # C
    BY <1>1, <1>4 DEF ToRuby, ToPy, Ruby, C
  <2>3. QED
    BY <1>2, <2>1, <2>2
<1>5. CASE l = Godot
  <2>1. \A y : HostScalar(l, y) = ToVariant(y)
    BY <1>5 DEF HostScalar, Python, Ruby, Godot, Uniffi, C, Wire
  <2>2. ToVariant(x) = x /\ l # C
    BY <1>1, <1>5 DEF ToVariant, ToPy, Godot, C
  <2>3. QED
    BY <1>2, <2>1, <2>2
<1>6. CASE l = Uniffi
  <2>1. \A y : HostScalar(l, y) = ToFfi(y)
    BY <1>6 DEF HostScalar, Python, Ruby, Godot, Uniffi, C, Wire
  <2>2. ToFfi(x) = x /\ l # C
    BY <1>6 DEF ToFfi, Uniffi, C
  <2>3. QED
    BY <1>2, <2>1, <2>2
<1>7. CASE l = C
  <2>1. \A y : HostScalar(l, y) = ToJson(y)
    BY <1>7 DEF HostScalar, Python, Ruby, Godot, Uniffi, C, Wire
  <2>2. ToJson(x) = IF x = Nan THEN <<"int", 0>> ELSE x
    BY <1>1 DEF ToJson
  <2>3. ToJson(ToJson(x)) = ToJson(x)
    BY <1>1, <2>2 DEF ToJson
  <2>4. QED
    BY <1>1, <1>2, <1>7, <2>1, <2>2, <2>3
<1>8. CASE l = Wire
  <2>1. \A y : HostScalar(l, y) = ToWire(y)
    BY <1>8 DEF HostScalar, Python, Ruby, Godot, Uniffi, C, Wire
  <2>2. ToWire(x) = x
    BY <2>1 DEF ToWire
  <2>3. QED
    BY <1>2, <2>1, <2>2
<1>9. QED
  BY <1>3, <1>4, <1>5, <1>6, <1>7, <1>8 DEF Languages

LEMMA HostContainers ==
  ASSUME NEW l \in Languages
  PROVE  /\ HostScalar(l, <<"list">>) = <<"list">>
         /\ HostScalar(l, <<"map">>) = <<"map">>
         /\ l = Uniffi => HostScalar(l, Function) = Function /\ Scalar(l, Function) = Function
<1>1. \A x \in {<<"list">>, <<"map">>} : x # Function /\ x # Nan
  BY LabelsApart DEF Nan
<1>2. \A x \in {<<"list">>, <<"map">>} : /\ ToPy(x) = x /\ ToRuby(x) = x /\ ToVariant(x) = x
                                         /\ ToFfi(x) = x /\ ToJson(x) = x /\ ToWire(x) = x
  BY <1>1 DEF ToPy, ToRuby, ToVariant, ToFfi, ToJson, ToWire
<1>3. \A x \in {<<"list">>, <<"map">>} : HostScalar(l, x) = x
  BY <1>2 DEF HostScalar, Languages, Python, Ruby, Godot, Uniffi, C, Wire
<1>4. l = Uniffi => HostScalar(l, Function) = Function /\ Scalar(l, Function) = Function
  <2>1. \A y : HostScalar(Uniffi, y) = ToFfi(y)
    BY DEF HostScalar, Python, Ruby, Godot, Uniffi, C, Wire
  <2>2. \A y : Scalar(Uniffi, y) = FfiScalar(y)
    BY DEF Scalar, Python, Ruby, Godot, Uniffi
  <2>3. QED
    BY <2>1, <2>2 DEF ToFfi, FfiScalar
<1>5. QED
  BY <1>3, <1>4

\* What crosses to a language can be read back in it.
Crosses(l, v) == /\ ValueTree(v)
                 /\ l # Uniffi => \A p \in DOMAIN v : v[p] # Function
                 /\ Fits(l, v)

\* A Value as the language holds it.
Held(l, v) == [p \in DOMAIN v |-> HostScalar(l, v[p])]

LEMMA HeldLabels ==
  ASSUME NEW l \in Languages, NEW v, Crosses(l, v),
         \A p \in DOMAIN v : HostScalar(l, v[p]) # No,
         NEW p \in DOMAIN v
  PROVE  LET x == HostScalar(l, v[p])
         IN  /\ \/ v[p] = <<"list">> /\ x = <<"list">> /\ Numbered(KeysAt(v, p))
                \/ v[p] = <<"map">> /\ x = <<"map">> /\ \A k \in KeysAt(v, p) : k[1] = "string"
                \/ /\ KeysAt(v, p) = {} /\ Scalar(l, x) = x /\ x[1] \notin {"list", "tuple", "map"}
                   /\ x # <<"map">> /\ v[p] # <<"map">>
                   /\ \/ v[p] = Function /\ x = Function
                      \/ SharedLabel(v[p]) /\ SharedLabel(x)
             /\ x = Nil => v[p] = Nil
             /\ x[1] = "function" <=> v[p][1] = "function"
             /\ HostScalar(l, x) = x
             /\ l # C => x = v[p]
<1>1. CASE v[p] = <<"list">> /\ Numbered(KeysAt(v, p))
  BY <1>1, HostContainers, LabelsApart
<1>2. CASE v[p] = <<"map">> /\ \A k \in KeysAt(v, p) : k[1] = "string"
  BY <1>2, HostContainers, LabelsApart
<1>3. CASE v[p] = Function /\ KeysAt(v, p) = {}
  <2>1. l = Uniffi
    BY <1>3 DEF Crosses
  <2>2. HostScalar(l, Function) = Function /\ Scalar(l, Function) = Function
    BY <2>1, HostContainers
  <2>3. Function[1] \notin {"list", "tuple", "map"} /\ Function # <<"map">> /\ Function # Nil
    BY LabelsApart
  <2>4. QED
    BY <1>3, <2>2, <2>3
<1>4. CASE SharedLabel(v[p]) /\ KeysAt(v, p) = {}
  <2> DEFINE x == HostScalar(l, v[p])
  <2>1. /\ SharedLabel(x) /\ (x = Nil => v[p] = Nil) /\ HostScalar(l, x) = x
        /\ Scalar(l, x) = x /\ (l # C => x = v[p])
    BY <1>4, HostScalars
  <2>2. /\ x[1] \notin {"list", "tuple", "map", "function"} /\ x # <<"map">>
        /\ v[p][1] # "function" /\ v[p] # <<"map">>
    <3> HIDE DEF x
    <3>1. QED
      BY <1>4, <2>1, LabelsApart
  <2>3. QED
    BY <1>4, <2>1, <2>2
<1>5. QED
  BY <1>1, <1>2, <1>3, <1>4 DEF Crosses, ValueTree

\* An object made from a Value is read back as what the language holds of it.
LEMMA HostReadsBack ==
  ASSUME NEW l \in Languages, NEW v, Crosses(l, v), NEW g, g = ToHost(l, v), g # Refused
  PROVE  /\ \A p \in DOMAIN v : HostScalar(l, v[p]) # No
         /\ FromHost(l, g) = Held(l, v)
         /\ Fits(l, g)
<1> DEFINE place(p) == [k \in KeysAt(v, p) |-> Cardinality({j \in KeysAt(v, p) : KeyBefore(j, k)})]
           mark(p) == IF v[p] = <<"map">> THEN <<"map", place(p)>> ELSE HostScalar(l, v[p])
           label == [p \in DOMAIN g |-> ReadLabel(l, g, p)]
<1>1. IsTree(v)
  BY DEF Crosses, ValueTree
<1>2. \A p \in DOMAIN v : HostScalar(l, v[p]) # No
  BY DEF ToHost
<1>3. g = [p \in DOMAIN v |-> mark(p)]
  BY <1>2 DEF ToHost
<1>4. DOMAIN g = DOMAIN v /\ \A p \in DOMAIN v : g[p] = mark(p)
  BY <1>3
<1>a. Fits(l, g)
  <2>1. SUFFICES ASSUME NEW p \in DOMAIN v PROVE InReach(l, g[p], p)
    BY <1>4 DEF Fits
  <2>2. InReach(l, v[p], p)
    BY DEF Crosses, Fits
  <2>3. g[p][1] \in Containers => v[p][1] \in Containers
    <3>1. CASE v[p] \in {<<"list">>, <<"map">>}
      BY <3>1, LabelsApart DEF Containers
    <3>2. CASE v[p] \notin {<<"list">>, <<"map">>}
      <4> HIDE DEF mark
      <4>1. HostScalar(l, v[p])[1] \notin {"list", "tuple", "map"}
        BY <1>2, <3>2, HeldLabels
      <4>2. g[p] = HostScalar(l, v[p])
        BY <1>4, <3>2 DEF mark
      <4>3. QED
        BY <4>1, <4>2 DEF Containers
    <3>3. QED
      BY <3>1, <3>2
  <2>4. QED
    BY <2>2, <2>3 DEF InReach
<1>5. \A p \in DOMAIN v : KeysAt(g, p) = KeysAt(v, p)
  BY <1>4 DEF KeysAt
<1>6. IsTree(g)
  <2>1. g = [p \in DOMAIN g |-> g[p]]
    BY <1>3
  <2>2. QED
    BY <1>1, <1>4, <2>1 DEF IsTree
<1>7. ASSUME NEW p \in DOMAIN v
      PROVE  /\ ReadLabel(l, g, p) = HostScalar(l, v[p])
             /\ \A k \in KeysAt(g, p) : k \in DOMAIN HostKeys(g)[p] /\ HostKeys(g)[p][k] = k
  <2> DEFINE x == HostScalar(l, v[p])
  <2>1. InReach(l, g[p], p)
    BY <1>a, <1>4 DEF Fits
  <2>2. /\ \/ v[p] = <<"list">> /\ x = <<"list">> /\ Numbered(KeysAt(v, p))
           \/ v[p] = <<"map">> /\ x = <<"map">> /\ \A k \in KeysAt(v, p) : k[1] = "string"
           \/ /\ KeysAt(v, p) = {} /\ Scalar(l, x) = x /\ x[1] \notin {"list", "tuple", "map"}
              /\ v[p] # <<"map">>
    BY <1>2, HeldLabels
  <2>3. KeysAt(g, p) = KeysAt(v, p) /\ p \in DOMAIN g
    BY <1>4, <1>5
  <2>4. CASE v[p] = <<"map">> /\ x = <<"map">> /\ \A k \in KeysAt(v, p) : k[1] = "string"
    <3>1. g[p] = <<"map", place(p)>>
      BY <1>4, <2>4
    <3>2. g[p][1] = "map" /\ g[p][2] = place(p)
      BY <3>1, LabelsApart
    <3>3. \A k \in KeysAt(g, p) : k[1] = "string" /\ k \in Key
      BY <1>1, <2>3, <2>4, KeysOfNodes
    <3>4. ReadLabel(l, g, p) = <<"map">>
      BY <2>1, <3>2, <3>3 DEF ReadLabel, HasText
    <3>5. \A k \in KeysAt(g, p) : KeyText(k) = k[2] /\ k = Named(k[2])
      BY <3>3, KeyKinds DEF KeyText
    <3>6. \A k \in KeysAt(g, p) : g[p][2][k] <= g[p][2][k]
      <4>1. ASSUME NEW k \in KeysAt(v, p) PROVE Cardinality({j \in KeysAt(v, p) : KeyBefore(j, k)}) \in Nat
        <5>1. IsFiniteSet(KeysAt(v, p))
          BY <1>1, KeysOfNodes
        <5>2. IsFiniteSet({j \in KeysAt(v, p) : KeyBefore(j, k)})
          BY <5>1, FS_Subset
        <5>3. QED
          BY <5>2, FS_CardinalityType
      <4>2. \A k \in KeysAt(g, p) : g[p][2][k] \in Nat
        BY <2>3, <3>2, <4>1
      <4>3. QED
        BY <4>2
    <3>7. HostKeys(g)[p] = [k \in {i \in KeysAt(g, p) : \A j \in KeysAt(g, p) :
                                     KeyText(j) = KeyText(i) => g[p][2][j] <= g[p][2][i]}
                              |-> Named(KeyText(k))]
      BY <2>3, <3>2 DEF HostKeys
    <3>8. ASSUME NEW k \in KeysAt(g, p)
          PROVE  /\ \A j \in KeysAt(g, p) : KeyText(j) = KeyText(k) => g[p][2][j] <= g[p][2][k]
                 /\ Named(KeyText(k)) = k
      <4>1. \A j \in KeysAt(g, p) : KeyText(j) = KeyText(k) => j = k
        BY <3>5
      <4>2. QED
        BY <3>5, <3>6, <4>1
    <3>9. QED
      BY <2>4, <3>4, <3>7, <3>8
  <2>5. CASE v[p] = <<"list">> /\ x = <<"list">>
    <3>1. g[p] = <<"list">>
      BY <1>4, <2>5, LabelsApart
    <3>2. g[p][1] = "list"
      BY <3>1, LabelsApart
    <3>3. ReadLabel(l, g, p) = <<"list">>
      BY <2>1, <3>2 DEF ReadLabel
    <3>4. HostKeys(g)[p] = [k \in KeysAt(g, p) |-> k]
      BY <2>3, <3>2 DEF HostKeys
    <3>5. QED
      BY <2>5, <3>3, <3>4
  <2>6. CASE /\ KeysAt(v, p) = {} /\ Scalar(l, x) = x /\ x[1] \notin {"list", "tuple", "map"}
             /\ v[p] # <<"map">>
    <3>1. g[p] = x
      BY <1>4, <2>6
    <3>2. ReadLabel(l, g, p) = x
      BY <2>1, <2>6, <3>1 DEF ReadLabel
    <3>3. QED
      BY <2>3, <2>6, <3>2
  <2>7. QED
    BY <2>2, <2>4, <2>5, <2>6
<1>8. FromHost(l, g) = Carried(g, HostKeys(g), label)
  <2>1. \A p \in DOMAIN g : label[p] # No
    BY <1>2, <1>4, <1>7
  <2>2. QED
    BY <2>1 DEF FromHost
<1>9. label = Held(l, v)
  BY <1>4, <1>7 DEF Held
<1> DEFINE S == {label[p] : p \in DOMAIN g}
<1>10. label \in [DOMAIN g -> S]
  OBVIOUS
<1>11. \A p \in DOMAIN g : \A k \in KeysAt(g, p) : k \in DOMAIN HostKeys(g)[p] /\ HostKeys(g)[p][k] = k
  BY <1>4, <1>7
<1> HIDE DEF label, S
<1>12. Carried(g, HostKeys(g), label) = label
  BY <1>6, <1>10, <1>11, CarriedWhole
<1>13. QED
  BY <1>2, <1>a, <1>8, <1>9, <1>12

LEMMA HeldIsValue ==
  ASSUME NEW l \in Languages, NEW v, Crosses(l, v), \A p \in DOMAIN v : HostScalar(l, v[p]) # No
  PROVE  /\ Crosses(l, Held(l, v))
         /\ Functions(Held(l, v)) = Functions(v)
         /\ Echoed(v) => Echoed(Held(l, v))
         /\ ToHost(l, Held(l, v)) = ToHost(l, v)
         /\ l # C => Held(l, v) = v
         /\ Held(l, v) # Refused
<1> DEFINE h == Held(l, v)
<1>1. IsTree(v)
  BY DEF Crosses, ValueTree
<1>2. DOMAIN h = DOMAIN v /\ \A p \in DOMAIN v : h[p] = HostScalar(l, v[p])
  BY DEF Held
<1>3. \A p \in DOMAIN v : KeysAt(h, p) = KeysAt(v, p)
  BY <1>2 DEF KeysAt
<1>4. \A p \in DOMAIN v :
        /\ \/ v[p] = <<"list">> /\ h[p] = <<"list">> /\ Numbered(KeysAt(v, p))
           \/ v[p] = <<"map">> /\ h[p] = <<"map">> /\ \A k \in KeysAt(v, p) : k[1] = "string"
           \/ /\ KeysAt(v, p) = {} /\ h[p] # <<"map">> /\ v[p] # <<"map">>
              /\ \/ v[p] = Function /\ h[p] = Function
                 \/ SharedLabel(v[p]) /\ SharedLabel(h[p])
        /\ h[p] = Nil => v[p] = Nil
        /\ h[p][1] = "function" <=> v[p][1] = "function"
        /\ HostScalar(l, h[p]) = h[p]
        /\ l # C => h[p] = v[p]
  BY <1>2, HeldLabels
<1>5. IsTree(h) /\ h = [p \in DOMAIN h |-> h[p]]
  <2>1. h = [p \in DOMAIN h |-> h[p]]
    BY DEF Held
  <2> HIDE DEF h
  <2>2. QED
    BY <1>1, <1>2, <2>1 DEF IsTree
<1> HIDE DEF h
<1>6. ValueTree(h)
  BY <1>2, <1>3, <1>4, <1>5 DEF ValueTree
<1>7. Functions(h) = Functions(v)
  BY <1>2, <1>4 DEF Functions
<1>8. \A p \in DOMAIN v : h[p] = Function => v[p] = Function
  BY <1>4, LabelsApart
<1>9. Crosses(l, h)
  <2>1. ASSUME NEW p \in DOMAIN v PROVE InReach(l, h[p], p)
    <3>1. InReach(l, v[p], p)
      BY DEF Crosses, Fits
    <3>2. h[p][1] \in Containers => v[p][1] \in Containers
      BY <1>4, LabelsApart DEF Containers
    <3>3. QED
      BY <3>1, <3>2 DEF InReach
  <2>2. Fits(l, h)
    BY <1>2, <2>1 DEF Fits
  <2>3. QED
    BY <1>2, <1>6, <1>8, <2>2 DEF Crosses
<1>10. ASSUME Echoed(v) PROVE Echoed(h)
  <2>1. \A p \in DOMAIN h : /\ p # <<>> => h[p] # Nil
                            /\ h[p] = <<"map">> => KeysAt(h, p) # {}
    <3>1. \A p \in DOMAIN h : h[p] = <<"map">> => v[p] = <<"map">>
      BY <1>2, <1>4, LabelsApart
    <3>2. QED
      BY <1>2, <1>3, <1>4, <1>10, <3>1 DEF Echoed
  <2>2. QED
    BY <1>6, <2>1 DEF Echoed
<1>11. ToHost(l, h) = ToHost(l, v)
  <2> DEFINE place(t, p) == [k \in KeysAt(t, p) |-> Cardinality({j \in KeysAt(t, p) : KeyBefore(j, k)})]
             mark(t, p) == IF t[p] = <<"map">> THEN <<"map", place(t, p)>> ELSE HostScalar(l, t[p])
  <2>1. \A p \in DOMAIN h : HostScalar(l, h[p]) # No
    BY <1>2, <1>4
  <2>2. ToHost(l, v) = [p \in DOMAIN v |-> mark(v, p)]
    BY DEF ToHost
  <2>3. ToHost(l, h) = [p \in DOMAIN h |-> mark(h, p)]
    BY <2>1 DEF ToHost
  <2>4. ASSUME NEW p \in DOMAIN v PROVE mark(h, p) = mark(v, p)
    <3>1. place(h, p) = place(v, p)
      BY <1>3
    <3>2. h[p] = <<"map">> <=> v[p] = <<"map">>
      BY <1>4, LabelsApart
    <3>3. HostScalar(l, h[p]) = HostScalar(l, v[p])
      BY <1>2, <1>4
    <3> HIDE DEF place
    <3>4. QED
      BY <3>1, <3>2, <3>3
  <2> HIDE DEF mark
  <2>5. QED
    BY <1>2, <2>2, <2>3, <2>4
<1>12. ASSUME l # C PROVE h = v
  <2>1. v = [p \in DOMAIN v |-> v[p]]
    BY <1>1 DEF IsTree
  <2>2. QED
    BY <1>2, <1>4, <1>5, <1>12, <2>1
<1>13. h # Refused
  <2>1. <<>> \in DOMAIN v
    BY <1>1 DEF IsTree
  <2>2. h[<<>>] # No
    BY <1>2, <2>1
  <2>3. QED
    BY <2>2 DEF Refused, Leaf
<1>14. QED
  BY <1>7, <1>9, <1>10, <1>11, <1>12, <1>13 DEF h

-----------------------------------------------------------------------------
(* Plain objects.                                                          *)

LEMMA SharedStays ==
  ASSUME NEW l \in Languages, NEW x, SharedLabel(x), l \in Json => x # Nan
  PROVE  HostScalar(l, x) = x /\ Scalar(l, x) = x /\ x # No
<1>1. x # Function /\ x # No /\ x[1] # "symbol" /\ x[1] # "bigint"
  BY LabelsApart
<1>2. /\ PyScalar(x) = x /\ SymbolScalar(x) = x /\ VariantScalar(x) = x
      /\ FfiScalar(x) = x /\ JsonScalar(x) = x
  BY <1>1 DEF PyScalar, SymbolScalar, VariantScalar, FfiScalar, JsonScalar
<1>3. Scalar(l, x) = x
  BY <1>2 DEF Scalar
<1>4. /\ ToPy(x) = x /\ ToRuby(x) = x /\ ToVariant(x) = x /\ ToFfi(x) = x
      /\ x # Nan => ToJson(x) = x /\ ToWire(x) = x
  BY <1>1 DEF ToPy, ToRuby, ToVariant, ToFfi, ToJson, ToWire
<1>5. HostScalar(l, x) = x
  BY <1>4 DEF HostScalar, Languages, Json, Python, Ruby, Godot, Uniffi, C, Wire
<1>6. QED
  BY <1>1, <1>3, <1>5

LEMMA PlainNodes ==
  ASSUME NEW l \in Languages, NEW o, HostTree(o), Plain(l, o), NEW p \in DOMAIN o
  PROVE  /\ InReach(l, o[p], p)
         /\ \/ /\ o[p][1] = "map" /\ o[p] = <<"map", o[p][2]>> /\ o[p][2] \in [KeysAt(o, p) -> Nat]
               /\ KeysAt(o, p) # {}
               /\ \A k \in KeysAt(o, p) :
                    /\ k[1] = "string" /\ k \in Key /\ Tier(k) = 1
                    /\ o[p][2][k] = Cardinality({j \in KeysAt(o, p) : TextBefore(j[2], k[2])})
            \/ o[p] = <<"list">> /\ Numbered(KeysAt(o, p))
            \/ /\ SharedLabel(o[p]) /\ KeysAt(o, p) = {} /\ (p # <<>> => o[p] # Nil)
               /\ HostScalar(l, o[p]) = o[p] /\ Scalar(l, o[p]) = o[p]
<1>1. p \in Seq(Key) /\ Len(p) \in Nat /\ KeysAt(o, p) \subseteq Key /\ IsTree(o)
  BY KeysOfNodes DEF HostTree
<1>2. InReach(l, o[p], p)
  BY DEF Plain
<1>3. CASE o[p][1] = "map"
  <2>1. /\ o[p] \in {"map"} \X [KeysAt(o, p) -> Nat]
    BY <1>3, LabelsApart DEF HostTree
  <2>2. /\ KeysAt(o, p) # {}
        /\ \A k \in KeysAt(o, p) :
             /\ k[1] = "string"
             /\ o[p][2][k] = Cardinality({j \in KeysAt(o, p) : TextBefore(j[2], k[2])})
    BY <1>3 DEF Plain
  <2>3. \A k \in KeysAt(o, p) : Tier(k) = 1
    BY <2>2 DEF Tier
  <2>4. QED
    BY <1>1, <1>2, <1>3, <2>1, <2>2, <2>3
<1>4. CASE o[p][1] # "map"
  <2>1. o[p][1] \in {"nil", "bool", "int", "str", "list", "float"}
    BY <1>4 DEF Plain
  <2>2. CASE o[p] = <<"list">>
    <3>1. Numbered(KeysAt(o, p))
      BY <2>2, LabelsApart DEF HostTree
    <3>2. QED
      BY <1>2, <2>2, <3>1
  <2>3. CASE o[p] # <<"list">>
    <3>1. o[p] # <<"tuple">> /\ o[p] # Function
      BY <2>1, LabelsApart
    <3>2. SharedLabel(o[p]) /\ KeysAt(o, p) = {}
      BY <1>4, <2>1, <2>3, <3>1, LabelsApart DEF HostTree
    <3>3. l \in Json => o[p] # Nan
      <4>1. CASE o[p][1] = "float"
        BY <1>4, <4>1 DEF Plain, Nan
      <4>2. CASE o[p][1] # "float"
        BY <4>2 DEF Nan
      <4>3. QED
        BY <4>1, <4>2
    <3>4. p # <<>> => o[p] # Nil
      BY DEF Plain
    <3>5. QED
      BY <1>2, <3>2, <3>3, <3>4, SharedStays
  <2>4. QED
    BY <2>2, <2>3
<1>5. QED
  BY <1>3, <1>4

\* A plain object is a Value under the same keys, and the object of that Value.
LEMMA PlainCrosses ==
  ASSUME NEW l \in Languages, NEW o, HostTree(o), Plain(l, o), NEW v, v = FromHost(l, o)
  PROVE  v # Refused /\ Echoed(v) /\ Functions(v) = {} /\ ToHost(l, v) = o
<1> DEFINE value(p) == IF o[p][1] = "map" THEN <<"map">> ELSE o[p]
           label == [p \in DOMAIN o |-> ReadLabel(l, o, p)]
           S == {label[p] : p \in DOMAIN o}
<1>1. IsTree(o) /\ o = [p \in DOMAIN o |-> o[p]]
  BY DEF HostTree, IsTree
<1>2. ASSUME NEW p \in DOMAIN o
      PROVE  /\ ReadLabel(l, o, p) = value(p)
             /\ \A k \in KeysAt(o, p) : k \in DOMAIN HostKeys(o)[p] /\ HostKeys(o)[p][k] = k
  <2>1. /\ InReach(l, o[p], p)
        /\ \/ /\ o[p][1] = "map" /\ o[p][2] \in [KeysAt(o, p) -> Nat]
              /\ \A k \in KeysAt(o, p) : k[1] = "string" /\ k \in Key
           \/ o[p] = <<"list">>
           \/ SharedLabel(o[p]) /\ Scalar(l, o[p]) = o[p]
    BY PlainNodes
  <2>2. CASE /\ o[p][1] = "map" /\ o[p][2] \in [KeysAt(o, p) -> Nat]
             /\ \A k \in KeysAt(o, p) : k[1] = "string" /\ k \in Key
    <3>1. ReadLabel(l, o, p) = <<"map">>
      BY <2>1, <2>2 DEF ReadLabel, HasText
    <3>2. \A k \in KeysAt(o, p) : KeyText(k) = k[2] /\ k = Named(k[2])
      BY <2>2, KeyKinds DEF KeyText
    <3>3. HostKeys(o)[p] = [k \in {i \in KeysAt(o, p) : \A j \in KeysAt(o, p) :
                                     KeyText(j) = KeyText(i) => o[p][2][j] <= o[p][2][i]}
                              |-> Named(KeyText(k))]
      BY <2>2 DEF HostKeys
    <3>4. ASSUME NEW k \in KeysAt(o, p)
          PROVE  /\ \A j \in KeysAt(o, p) : KeyText(j) = KeyText(k) => o[p][2][j] <= o[p][2][k]
                 /\ Named(KeyText(k)) = k
      <4>1. \A j \in KeysAt(o, p) : KeyText(j) = KeyText(k) => j = k
        BY <3>2
      <4>2. o[p][2][k] <= o[p][2][k]
        BY <2>2
      <4>3. QED
        BY <3>2, <4>1, <4>2
    <3>5. QED
      BY <2>2, <3>1, <3>3, <3>4
  <2>3. CASE o[p] = <<"list">>
    <3>1. o[p][1] = "list"
      BY <2>3, LabelsApart
    <3>2. ReadLabel(l, o, p) = <<"list">>
      BY <2>1, <3>1 DEF ReadLabel
    <3>3. HostKeys(o)[p] = [k \in KeysAt(o, p) |-> k]
      BY <3>1 DEF HostKeys
    <3>4. QED
      BY <2>3, <3>1, <3>2, <3>3
  <2>4. CASE SharedLabel(o[p]) /\ Scalar(l, o[p]) = o[p]
    <3>1. o[p][1] \notin {"map", "list", "tuple"}
      BY <2>4, LabelsApart
    <3>2. ReadLabel(l, o, p) = o[p]
      BY <2>1, <2>4, <3>1 DEF ReadLabel
    <3>3. HostKeys(o)[p] = [k \in KeysAt(o, p) |-> k]
      BY <3>1 DEF HostKeys
    <3>4. QED
      BY <3>1, <3>2, <3>3
  <2>5. QED
    BY <2>1, <2>2, <2>3, <2>4
<1>3. \A p \in DOMAIN o :
        \/ /\ o[p][1] = "map" /\ value(p) = <<"map">> /\ KeysAt(o, p) # {}
           /\ \A k \in KeysAt(o, p) : k[1] = "string"
        \/ o[p][1] # "map" /\ value(p) = <<"list">> /\ Numbered(KeysAt(o, p))
        \/ /\ o[p][1] # "map" /\ SharedLabel(value(p)) /\ KeysAt(o, p) = {}
           /\ (p # <<>> => value(p) # Nil)
           /\ value(p) \notin {<<"map">>, <<"list">>}
  <2>1. SUFFICES ASSUME NEW p \in DOMAIN o
                 PROVE  \/ /\ o[p][1] = "map" /\ value(p) = <<"map">> /\ KeysAt(o, p) # {}
                           /\ \A k \in KeysAt(o, p) : k[1] = "string"
                        \/ o[p][1] # "map" /\ value(p) = <<"list">> /\ Numbered(KeysAt(o, p))
                        \/ /\ o[p][1] # "map" /\ SharedLabel(value(p)) /\ KeysAt(o, p) = {}
                           /\ (p # <<>> => value(p) # Nil)
                           /\ value(p) \notin {<<"map">>, <<"list">>}
    OBVIOUS
  <2>2. \/ /\ o[p][1] = "map" /\ KeysAt(o, p) # {}
           /\ \A k \in KeysAt(o, p) : k[1] = "string"
        \/ o[p] = <<"list">> /\ Numbered(KeysAt(o, p))
        \/ SharedLabel(o[p]) /\ KeysAt(o, p) = {} /\ (p # <<>> => o[p] # Nil)
    BY PlainNodes
  <2>3. CASE SharedLabel(o[p])
    BY <2>2, <2>3, LabelsApart
  <2>4. CASE o[p] = <<"list">>
    BY <2>2, <2>4, LabelsApart
  <2>5. QED
    BY <2>2, <2>3, <2>4
<1>4. label \in [DOMAIN o -> S] /\ \A p \in DOMAIN o : label[p] = value(p)
  BY <1>2
<1>5. \A p \in DOMAIN o : label[p] # No
  BY <1>3, <1>4, LabelsApart
<1>6. v = Carried(o, HostKeys(o), label)
  BY <1>5 DEF FromHost
<1>7. \A p \in DOMAIN o : \A k \in KeysAt(o, p) : k \in DOMAIN HostKeys(o)[p] /\ HostKeys(o)[p][k] = k
  BY <1>2
<1> HIDE DEF label, S
<1>8. Carried(o, HostKeys(o), label) = label
  BY <1>1, <1>4, <1>7, CarriedWhole
<1>9. DOMAIN v = DOMAIN o /\ v = [p \in DOMAIN v |-> v[p]] /\ \A p \in DOMAIN o : v[p] = value(p)
  BY <1>4, <1>6, <1>8
<1>10. \A p \in DOMAIN o : KeysAt(v, p) = KeysAt(o, p)
  BY <1>9 DEF KeysAt
<1> HIDE DEF value
<1>11. v # Refused
  <2>1. <<>> \in DOMAIN o
    BY <1>1 DEF IsTree
  <2>2. v[<<>>] # No
    BY <1>4, <1>5, <1>9, <2>1
  <2>3. QED
    BY <2>2 DEF Refused, Leaf
<1>12. IsTree(v)
  BY <1>1, <1>9 DEF IsTree
<1>13. \A p \in DOMAIN v :
         /\ \/ v[p] = <<"map">> /\ KeysAt(v, p) # {} /\ \A k \in KeysAt(v, p) : k[1] = "string"
            \/ v[p] = <<"list">> /\ Numbered(KeysAt(v, p))
            \/ SharedLabel(v[p]) /\ KeysAt(v, p) = {} /\ (p # <<>> => v[p] # Nil) /\ v[p] # <<"map">>
         /\ v[p][1] # "function" /\ (p # <<>> => v[p] # Nil)
  <2>1. \A p \in DOMAIN v :
          \/ v[p] = <<"map">> /\ KeysAt(v, p) # {} /\ \A k \in KeysAt(v, p) : k[1] = "string"
          \/ v[p] = <<"list">> /\ Numbered(KeysAt(v, p))
          \/ SharedLabel(v[p]) /\ KeysAt(v, p) = {} /\ (p # <<>> => v[p] # Nil) /\ v[p] # <<"map">>
    <3>1. SUFFICES ASSUME NEW p \in DOMAIN v
                   PROVE  \/ v[p] = <<"map">> /\ KeysAt(v, p) # {} /\ \A k \in KeysAt(v, p) : k[1] = "string"
                          \/ v[p] = <<"list">> /\ Numbered(KeysAt(v, p))
                          \/ SharedLabel(v[p]) /\ KeysAt(v, p) = {} /\ (p # <<>> => v[p] # Nil) /\ v[p] # <<"map">>
      OBVIOUS
    <3>2. p \in DOMAIN o /\ v[p] = value(p) /\ KeysAt(v, p) = KeysAt(o, p)
      BY <1>9, <1>10
    <3>3. QED
      BY <1>3, <3>2
  <2>2. QED
    BY <2>1, LabelsApart
<1>14. ValueTree(v)
  BY <1>12, <1>13 DEF ValueTree
<1>15. Echoed(v)
  BY <1>13, <1>14, LabelsApart DEF Echoed
<1>16. Functions(v) = {}
  BY <1>13 DEF Functions
<1>17. ToHost(l, v) = o
  <2> DEFINE place(p) == [k \in KeysAt(v, p) |-> Cardinality({j \in KeysAt(v, p) : KeyBefore(j, k)})]
             mark(p) == IF v[p] = <<"map">> THEN <<"map", place(p)>> ELSE HostScalar(l, v[p])
  <2>1. ASSUME NEW p \in DOMAIN o PROVE HostScalar(l, v[p]) # No /\ mark(p) = o[p]
    <3>1. \/ /\ o[p][1] = "map" /\ o[p] = <<"map", o[p][2]>> /\ o[p][2] \in [KeysAt(o, p) -> Nat]
             /\ \A k \in KeysAt(o, p) :
                  /\ k[1] = "string" /\ Tier(k) = 1
                  /\ o[p][2][k] = Cardinality({j \in KeysAt(o, p) : TextBefore(j[2], k[2])})
          \/ o[p] = <<"list">>
          \/ SharedLabel(o[p]) /\ HostScalar(l, o[p]) = o[p]
      BY PlainNodes
    <3>2. CASE /\ o[p][1] = "map" /\ o[p] = <<"map", o[p][2]>> /\ o[p][2] \in [KeysAt(o, p) -> Nat]
               /\ \A k \in KeysAt(o, p) :
                    /\ k[1] = "string" /\ Tier(k) = 1
                    /\ o[p][2][k] = Cardinality({j \in KeysAt(o, p) : TextBefore(j[2], k[2])})
      <4>1. v[p] = <<"map">>
        BY <1>9, <3>2 DEF value
      <4>2. HostScalar(l, v[p]) # No
        BY <4>1, HostContainers, LabelsApart
      <4>3. \A k \in KeysAt(o, p) : \A j \in KeysAt(o, p) : KeyBefore(j, k) <=> TextBefore(j[2], k[2])
        <5>1. SUFFICES ASSUME NEW k \in KeysAt(o, p), NEW j \in KeysAt(o, p)
                       PROVE  KeyBefore(j, k) <=> TextBefore(j[2], k[2])
          OBVIOUS
        <5>2. Tier(j) = 1 /\ Tier(k) = 1
          BY <3>2
        <5>3. ~(1 < 1) /\ 1 # 0
          OBVIOUS
        <5>4. QED
          BY <5>2, <5>3 DEF KeyBefore
      <4>4. \A k \in KeysAt(o, p) : {j \in KeysAt(o, p) : KeyBefore(j, k)}
                                     = {j \in KeysAt(o, p) : TextBefore(j[2], k[2])}
        BY <4>3
      <4>5. \A k \in KeysAt(o, p) : o[p][2][k] = Cardinality({j \in KeysAt(o, p) : KeyBefore(j, k)})
        BY <3>2, <4>4
      <4>6. place(p) = [k \in KeysAt(o, p) |-> Cardinality({j \in KeysAt(o, p) : KeyBefore(j, k)})]
        BY <1>10
      <4>7. place(p) = o[p][2]
        BY <3>2, <4>5, <4>6
      <4> HIDE DEF place
      <4>8. QED
        BY <3>2, <4>1, <4>2, <4>7
    <3>3. CASE o[p] = <<"list">>
      <4>1. v[p] = <<"list">>
        BY <1>9, <3>3, LabelsApart DEF value
      <4>2. QED
        BY <3>3, <4>1, HostContainers, LabelsApart
    <3>4. CASE SharedLabel(o[p]) /\ HostScalar(l, o[p]) = o[p]
      <4>1. o[p][1] # "map" /\ o[p] # <<"map">> /\ o[p] # No
        BY <3>4, LabelsApart
      <4>2. v[p] = o[p]
        BY <1>9, <4>1 DEF value
      <4>3. QED
        BY <3>4, <4>1, <4>2
    <3>5. QED
      BY <3>1, <3>2, <3>3, <3>4
  <2>2. ToHost(l, v) = [p \in DOMAIN v |-> mark(p)]
    BY <1>9, <2>1 DEF ToHost
  <2> HIDE DEF mark
  <2>3. QED
    BY <1>1, <1>9, <2>1, <2>2
<1>18. QED
  BY <1>11, <1>15, <1>16, <1>17

-----------------------------------------------------------------------------
(* The calls.                                                              *)

\* The queue after a Value has entered Lua, whether or not it could.
LEMMA QueueStays ==
  ASSUME NEW v, ValueTree(v), NEW S, NEW queue \in Seq(S)
  PROVE  /\ AbiToLua(v, queue).queue \in Seq(S)
         /\ AbiToLua(v, queue).value # Refused => Cardinality(Functions(v)) <= Len(queue)
<1>1. Cardinality(Functions(v)) \in Nat /\ Len(queue) \in Nat
  BY ValueTreesAreWalkable, Turns
<1>2. CASE Cardinality(Functions(v)) > Len(queue)
  BY <1>1, <1>2 DEF AbiToLua
<1>3. CASE ~(Cardinality(Functions(v)) > Len(queue))
  <2>1. AbiToLua(v, queue).queue = SubSeq(queue, Cardinality(Functions(v)) + 1, Len(queue))
    BY <1>3 DEF AbiToLua
  <2>2. Cardinality(Functions(v)) <= Len(queue)
    BY <1>1, <1>3
  <2>3. QED
    BY <1>1, <2>1, <2>2
<1>4. QED
  BY <1>2, <1>3

\* Any tree of Lua has finitely many functions when it has left Lua.
LEMMA AbiIsFinite ==
  ASSUME NEW t, IsTree(t)
  PROVE  /\ Cardinality(Functions(LuaToAbi(t).value)) \in Nat
<1> DEFINE step == AbiKeys(t)
           label == [p \in DOMAIN t |-> AbiLabel(t, p)]
<1>1. ASSUME NEW p \in DOMAIN t
      PROVE  /\ DOMAIN step[p] \subseteq KeysAt(t, p)
             /\ \A k \in DOMAIN step[p] : step[p][k] \in Key
             /\ \A j, k \in DOMAIN step[p] : step[p][j] = step[p][k] => j = k
  <2> DEFINE K == KeysAt(t, p)
             texts == {j \in K : j[1] = "string"}
  <2>1. K \subseteq Key
    BY KeysOfNodes
  <2>2. step[p] = IF Numbered(K) THEN [k \in K |-> k]
                  ELSE IF \A k \in K : k[1] = "integer" THEN [k \in K |-> Named(Digits(k[2]))]
                  ELSE [k \in texts |-> k]
    BY DEF AbiKeys
  <2>3. texts \subseteq K
    OBVIOUS
  <2>4. CASE \A k \in K : k[1] = "integer"
    <3>1. DOMAIN step[p] = K
      <4> HIDE DEF K, texts, step
      <4>1. QED
        BY <2>2, <2>4
    <3>2. QED
      BY <2>4, <3>1, KeysRenamed
  <2>5. CASE ~(\A k \in K : k[1] = "integer")
    <3>1. ~Numbered(K)
      BY <2>1, <2>5, NumberedKeys
    <3> HIDE DEF K, texts, step
    <3>2. step[p] = [k \in texts |-> k]
      BY <2>2, <2>5, <3>1
    <3>3. QED
      BY <2>1, <2>3, <3>2 DEF K
  <2>6. QED
    BY <2>4, <2>5
<1>2. Renames(t, step)
  BY <1>1 DEF Renames
<1>3. LuaToAbi(t).value = Carried(t, step, label)
  BY DEF LuaToAbi
<1> HIDE DEF step, label
<1>4. IsTree(LuaToAbi(t).value)
  BY <1>2, <1>3, CarriedTree
<1>5. IsFiniteSet(Functions(LuaToAbi(t).value))
  BY <1>4, FS_Subset DEF IsTree, Functions
<1>6. QED
  BY <1>5, FS_CardinalityType

\* The queue of functions holds functions, whatever they are.
IsQueue(q) == \E S : q \in Seq(S)

LEMMA Queues ==
  /\ IsQueue(<<>>)
  /\ \A q, s : IsQueue(q) /\ IsQueue(s) => IsQueue(q \o s)
  /\ \A q, s : IsQueue(q) /\ IsQueue(s) => Len(q \o s) = Len(q) + Len(s) /\ Len(q) \in Nat /\ Len(s) \in Nat
<1>1. IsQueue(<<>>)
  <2>1. <<>> \in Seq({})
    OBVIOUS
  <2>2. QED
    BY <2>1 DEF IsQueue
<1>2. ASSUME NEW q, NEW s, IsQueue(q), IsQueue(s)
      PROVE  IsQueue(q \o s) /\ Len(q \o s) = Len(q) + Len(s) /\ Len(q) \in Nat /\ Len(s) \in Nat
  <2>1. PICK S : q \in Seq(S)
    BY <1>2 DEF IsQueue
  <2>2. PICK T : s \in Seq(T)
    BY <1>2 DEF IsQueue
  <2>3. q \in Seq(S \cup T) /\ s \in Seq(S \cup T)
    BY <2>1, <2>2
  <2>4. q \o s \in Seq(S \cup T)
    BY <2>3
  <2>5. IsQueue(q \o s)
    BY <2>4 DEF IsQueue
  <2>6. QED
    BY <2>3, <2>5
<1>3. QED
  BY <1>1, <1>2

\* What a host has got back from a plugin that echoes, while its functions wait.
Settled(l, g, queue) ==
  \E r : /\ Echoed(r)
         /\ Crosses(l, r)
         /\ g = ToHost(l, r)
         /\ Cardinality(Functions(r)) <= Len(queue)

\* A call with any object of the host.
LEMMA CallOfObject ==
  ASSUME NEW l \in Languages, NEW o, HostTree(o), IsQueue(waiting), Call(l, o)
  PROVE  /\ IsQueue(waiting')
         /\ last' = [by |-> "call", lang |-> l, sent |-> o, got |-> last'.got]
         /\ last'.got # Refused => Settled(l, last'.got, waiting')
<1> DEFINE v == FromHost(l, o)
           argument == AbiToLua(v, waiting)
           z == argument.value
           result == LuaToAbi(z)
<1>1. CASE v = Refused
  <2>1. \/ /\ last' = [by |-> "call", lang |-> l, sent |-> o, got |-> Refused]
           /\ waiting' = waiting
    BY <1>1 DEF Call
  <2>2. QED
    BY <2>1
<1>2. CASE v # Refused
  <2>1. /\ ValueTree(v) /\ Crosses(l, v)
    BY <1>2, FromHostIsValue DEF Crosses
  <2>2. PICK S : waiting \in Seq(S)
    BY DEF IsQueue
  <2>3. /\ argument.queue \in Seq(S)
        /\ z # Refused => Cardinality(Functions(v)) <= Len(waiting)
    BY <2>1, <2>2, QueueStays
  <2>4. CASE z = Refused
    <3>1. /\ last' = [by |-> "call", lang |-> l, sent |-> o, got |-> Refused]
          /\ waiting' = argument.queue
      BY <1>2, <2>4 DEF Call
    <3>2. QED
      BY <2>3, <3>1 DEF IsQueue
  <2>5. CASE z # Refused
    <3>1. /\ last' = [by |-> "call", lang |-> l, sent |-> o,
                      got |-> Received(l, ToHost(l, result.value))]
          /\ waiting' = argument.queue \o result.stashed
      BY <1>2, <2>5 DEF Call
    <3>2. Walkable(z)
      BY <2>1, <2>2, <2>3, <2>5, IntoLua
    <3>3. /\ IsQueue(result.stashed)
          /\ Len(result.stashed) = Cardinality(Functions(z))
          /\ Cardinality(Functions(z)) \in Nat
      BY <3>2, StashedInTurn, Turns DEF IsQueue
    <3>4. IsQueue(argument.queue)
      BY <2>3 DEF IsQueue
    <3>5. /\ IsQueue(waiting')
          /\ Len(waiting') = Len(argument.queue) + Len(result.stashed)
          /\ Len(argument.queue) \in Nat
      BY <3>1, <3>3, <3>4, Queues
    <3> DEFINE r == result.value
    <3>a. Cardinality(Functions(v)) <= Len(waiting) /\ z = AbiToLua(v, waiting).value
      BY <2>3, <2>5
    <3>b. r = LuaToAbi(z).value
      OBVIOUS
    <3> HIDE DEF r, v, z
    <3>6. /\ Echoed(r)
          /\ Cardinality(Functions(r)) <= Cardinality(Functions(z))
          /\ (\A p \in DOMAIN v : v[p] # Function) => \A p \in DOMAIN r : r[p] # Function
          /\ \A n : Fits(n, v) => Fits(n, r)
      BY <2>1, <2>2, <3>a, <3>b, LuaSettles
    <3>7. Crosses(l, r)
      BY <2>1, <3>6 DEF Crosses, Echoed
    <3>8. Cardinality(Functions(r)) <= Len(waiting')
      <4>1. Cardinality(Functions(r)) \in Nat
        BY <3>6, ValueTreesAreWalkable, Turns DEF Echoed
      <4>2. QED
        BY <3>3, <3>5, <3>6, <4>1
    <3>9. Settled(l, ToHost(l, r), waiting')
      BY <3>6, <3>7, <3>8 DEF Settled
    <3>10. last'.got # Refused => last'.got = ToHost(l, r)
      BY <3>1 DEF Received, r, z, v
    <3>11. QED
      BY <3>1, <3>5, <3>9, <3>10 DEF r, z, v
  <2>6. QED
    BY <2>4, <2>5
<1>3. QED
  BY <1>1, <1>2

\* A call with what an earlier call gave back.
LEMMA CallOfEcho ==
  ASSUME NEW l \in Languages, NEW g, g # Refused, Settled(l, g, waiting), IsQueue(waiting), Call(l, g)
  PROVE  /\ IsQueue(waiting')
         /\ last' = [by |-> "call", lang |-> l, sent |-> g, got |-> g]
         /\ Settled(l, g, waiting')
<1>1. PICK r : /\ Echoed(r) /\ Crosses(l, r) /\ g = ToHost(l, r)
               /\ Cardinality(Functions(r)) <= Len(waiting)
  BY DEF Settled
<1>2. PICK S : waiting \in Seq(S)
  BY DEF IsQueue
<1> DEFINE h == Held(l, r)
           z == AbiToLua(h, waiting).value
<1>3. FromHost(l, g) = h /\ Fits(l, g) /\ \A p \in DOMAIN r : HostScalar(l, r[p]) # No
  BY <1>1, HostReadsBack
<1>4. /\ Crosses(l, h) /\ Functions(h) = Functions(r) /\ Echoed(h)
      /\ ToHost(l, h) = g /\ h # Refused
  BY <1>1, <1>3, HeldIsValue
<1> HIDE DEF h
<1>5. /\ z # Refused /\ Walkable(z)
      /\ LuaToAbi(z).value = h /\ Functions(z) = Functions(h)
      /\ AbiToLua(h, waiting).queue \in Seq(S)
  BY <1>1, <1>2, <1>4, EchoComesBack
<1>6. /\ last' = [by |-> "call", lang |-> l, sent |-> g, got |-> g]
      /\ waiting' = AbiToLua(h, waiting).queue \o LuaToAbi(z).stashed
  BY <1>3, <1>4, <1>5 DEF Call, Received
<1>7. /\ IsQueue(LuaToAbi(z).stashed) /\ IsQueue(AbiToLua(h, waiting).queue)
      /\ Len(LuaToAbi(z).stashed) = Cardinality(Functions(r))
      /\ Cardinality(Functions(r)) \in Nat
  BY <1>4, <1>5, StashedInTurn, Turns DEF IsQueue
<1>8. IsQueue(waiting') /\ Cardinality(Functions(r)) <= Len(waiting')
  <2> DEFINE left == AbiToLua(h, waiting).queue
             stashed == LuaToAbi(z).stashed
  <2>1. waiting' = left \o stashed /\ IsQueue(left) /\ IsQueue(stashed)
    BY <1>6, <1>7
  <2>2. Len(stashed) = Cardinality(Functions(r)) /\ Cardinality(Functions(r)) \in Nat
    BY <1>7
  <2> HIDE DEF left, stashed
  <2>3. IsQueue(waiting') /\ Len(waiting') = Len(left) + Len(stashed) /\ Len(left) \in Nat
    BY <2>1, Queues
  <2>4. QED
    BY <2>2, <2>3
<1>9. QED
  BY <1>1, <1>6, <1>8 DEF Settled

LEMMA CallOfPlain ==
  ASSUME NEW l \in Languages, NEW o, HostTree(o), Plain(l, o), IsQueue(waiting), Call(l, o)
  PROVE  last'.got = o
<1> DEFINE v == FromHost(l, o)
           z == AbiToLua(v, waiting).value
<1>1. v # Refused /\ Echoed(v) /\ Functions(v) = {} /\ ToHost(l, v) = o
  BY PlainCrosses
<1>2. PICK S : waiting \in Seq(S)
  BY DEF IsQueue
<1>3. Cardinality(Functions(v)) <= Len(waiting)
  BY <1>1, <1>2, FS_EmptySet
<1>a. z = AbiToLua(v, waiting).value /\ v = FromHost(l, o)
  OBVIOUS
<1> HIDE DEF v, z
<1>4. z # Refused /\ LuaToAbi(z).value = v
  <2>1. \A w : Echoed(w) /\ Cardinality(Functions(w)) <= Len(waiting) =>
                /\ AbiToLua(w, waiting).value # Refused
                /\ LuaToAbi(AbiToLua(w, waiting).value).value = w
    BY <1>2, EchoComesBack
  <2>2. QED
    BY <1>1, <1>3, <1>a, <2>1
<1>5. last' = [by |-> "call", lang |-> l, sent |-> o, got |-> Received(l, ToHost(l, v))]
  <2>1. \/ v = Refused
        \/ z = Refused
        \/ last' = [by |-> "call", lang |-> l, sent |-> o,
                    got |-> Received(l, ToHost(l, LuaToAbi(z).value))]
    BY <1>a, Zenon DEF Call
  <2>2. QED
    BY <1>1, <1>4, <2>1
<1>6. Received(l, o) = o
  BY DEF Plain, Fits, Received
<1>7. QED
  BY <1>1, <1>5, <1>6

-----------------------------------------------------------------------------
(* The crossings of an embedding program.                                  *)

CrossInv ==
  /\ lang \in Languages
  /\ last.lang \in Languages
  /\ IsQueue(waiting)
  /\ last.by = "call" /\ last.got # Refused => Settled(last.lang, last.got, waiting)
  /\ PlainComesBack
  /\ ModuleArrives

LEMMA CrossInit == Init => CrossInv
<1>1. SUFFICES ASSUME Init PROVE CrossInv
  OBVIOUS
<1>2. lang \in Languages /\ waiting = <<>> /\ last = NoCrossing
  <2>1. CrossingsInit /\ HostInit
    BY <1>1 DEF Init
  <2>2. waiting = <<>> /\ last = NoCrossing
    BY <2>1 DEF CrossingsInit
  <2>3. lang \in Languages
    BY <2>1 DEF HostInit
  <2>4. QED
    BY <2>2, <2>3
<1>3. last.by = "nobody" /\ last.lang = Python /\ Python \in Languages
  BY <1>2 DEF NoCrossing, Languages
<1>4. QED
  BY <1>2, <1>3, Queues DEF CrossInv, PlainComesBack, ModuleArrives

\* A call makes the next state one the invariant holds of.
LEMMA CrossCall ==
  ASSUME CrossInv, lang' \in Languages, NEW l \in Languages, NEW o, HostTree(o), Call(l, o)
  PROVE  CrossInv'
<1>1. /\ IsQueue(waiting')
      /\ last' = [by |-> "call", lang |-> l, sent |-> o, got |-> last'.got]
      /\ last'.got # Refused => Settled(l, last'.got, waiting')
  BY CallOfObject DEF CrossInv
<1>2. last'.by = "call" /\ last'.lang = l /\ last'.sent = o
  BY <1>1
<1>3. Plain(l, o) => last'.got = o
  BY CallOfPlain DEF CrossInv
<1>4. PlainComesBack' /\ ModuleArrives'
  BY <1>2, <1>3 DEF PlainComesBack, ModuleArrives
<1>5. QED
  BY <1>1, <1>2, <1>4 DEF CrossInv

LEMMA CrossCallAgain ==
  ASSUME CrossInv, lang' \in Languages, CallAgain
  PROVE  CrossInv' /\ last'.got = last.got
<1>1. /\ last.by = "call" /\ last.got # Refused /\ Call(last.lang, last.got)
      /\ last.lang \in Languages /\ Settled(last.lang, last.got, waiting) /\ IsQueue(waiting)
  BY DEF CallAgain, CrossInv
<1>2. /\ IsQueue(waiting')
      /\ last' = [by |-> "call", lang |-> last.lang, sent |-> last.got, got |-> last.got]
      /\ Settled(last.lang, last.got, waiting')
  BY <1>1, CallOfEcho
<1>3. last'.by = "call" /\ last'.lang = last.lang /\ last'.sent = last.got /\ last'.got = last.got
  BY <1>2
<1>4. PlainComesBack' /\ ModuleArrives'
  BY <1>3 DEF PlainComesBack, ModuleArrives
<1>5. QED
  BY <1>1, <1>2, <1>3, <1>4 DEF CrossInv

LEMMA CrossOthers ==
  ASSUME CrossInv, lang' = lang,
         \/ \E r \in Results : Return(lang, r)
         \/ \E r \in Results, module \in Modules : Provide(lang, r, module)
         \/ \E r \in Results, o \in Objects[lang] : Answer(lang, r, o)
  PROVE  CrossInv' /\ last'.by # "call"
<1>0. lang \in Languages /\ IsQueue(waiting)
  BY DEF CrossInv
<1>1. ASSUME NEW r \in Results, Return(lang, r)
      PROVE  CrossInv' /\ last'.by # "call"
  <2>1. /\ waiting' = waiting \o LuaToAbi(r).stashed
        /\ last' = [by |-> "return", lang |-> lang, sent |-> r,
                    got |-> Received(lang, ToHost(lang, LuaToAbi(r).value))]
    BY <1>1 DEF Return
  <2>2. IsQueue(LuaToAbi(r).stashed)
    BY LuaAssumption, LuaTreesAreWalkable, StashedInTurn DEF IsQueue
  <2>3. IsQueue(waiting')
    BY <1>0, <2>1, <2>2, Queues
  <2>4. last'.by = "return" /\ last'.lang = lang
    BY <2>1
  <2>5. QED
    BY <1>0, <2>3, <2>4 DEF CrossInv, PlainComesBack, ModuleArrives
<1>2. ASSUME NEW r \in Results, NEW module \in Modules, Provide(lang, r, module)
      PROVE  CrossInv' /\ last'.by # "call"
  <2> DEFINE made == LuaToAbi(module)
  <2>1. /\ waiting' = AbiToLua(made.value, made.stashed).queue
        /\ last' = [by |-> "module", lang |-> lang, sent |-> module,
                    got |-> AbiToLua(made.value, made.stashed).value]
    BY <1>2 DEF Provide
  <2>2. LuaTree(module)
    BY LuaAssumption
  <2>3. PICK S : made.stashed \in Seq(S)
    BY <2>2, LuaTreesAreWalkable, StashedInTurn
  <2>4. Cardinality(Functions(made.value)) \in Nat /\ Len(made.stashed) \in Nat
    BY <2>2, <2>3, AbiIsFinite DEF LuaTree
  <2>5. IsQueue(waiting')
    <3> DEFINE s == made.stashed
               n == Cardinality(Functions(made.value))
    <3>1. waiting' = IF n > Len(s) THEN <<>> ELSE SubSeq(s, n + 1, Len(s))
      BY <2>1 DEF AbiToLua
    <3>2. s \in Seq(S) /\ n \in Nat /\ Len(s) \in Nat
      BY <2>3, <2>4
    <3> HIDE DEF s, n
    <3>3. SubSeq(s, n + 1, Len(s)) \in Seq(S) /\ <<>> \in Seq(S)
      BY <3>2
    <3>4. QED
      BY <3>1, <3>3 DEF IsQueue
  <2>6. last'.by = "module" /\ last'.lang = lang /\ last'.sent = module
        /\ last'.got = AbiToLua(made.value, made.stashed).value
    BY <2>1
  <2>7. Regular(module) => last'.got = module
    BY <2>2, <2>6, ModuleComesWhole
  <2>8. QED
    BY <1>0, <2>5, <2>6, <2>7 DEF CrossInv, PlainComesBack, ModuleArrives
<1>3. ASSUME NEW r \in Results, NEW o \in Objects[lang], Answer(lang, r, o)
      PROVE  CrossInv' /\ last'.by # "call"
  <2> DEFINE v == FromHost(lang, o)
             fails == Refused \in {v, Received(lang, ToHost(lang, LuaToAbi(r).value))}
  <2>1. /\ waiting' = IF fails THEN <<>> ELSE AbiToLua(v, <<>>).queue
        /\ last'.by = "answer" /\ last'.lang = lang
    BY <1>3 DEF Answer
  <2>2. IsQueue(waiting')
    <3>1. CASE fails
      BY <2>1, <3>1, Queues
    <3>2. CASE ~fails
      <4>1. ValueTree(v)
        BY <1>0, <3>2, ObjectsAssumption, FromHostIsValue
      <4>2. <<>> \in Seq({})
        OBVIOUS
      <4>3. AbiToLua(v, <<>>).queue \in Seq({})
        BY <4>1, <4>2, QueueStays
      <4>4. QED
        BY <2>1, <3>2, <4>3 DEF IsQueue
    <3>3. QED
      BY <3>1, <3>2
  <2>3. QED
    BY <1>0, <2>1, <2>2 DEF CrossInv, PlainComesBack, ModuleArrives
<1>4. QED
  BY <1>1, <1>2, <1>3

LEMMA CrossStep == CrossInv /\ [Next]_vars => CrossInv'
<1>1. SUFFICES ASSUME CrossInv, [Next]_vars PROVE CrossInv'
  OBVIOUS
<1>2. lang' = lang /\ lang' \in Languages
  <2>1. HostNext => lang' = lang
    BY DEF HostNext, RegisterCapability, SetPolicy, Build, Built, PyNew, PyFromConfigFile, RubyNew,
           GodotOpen, UniffiNew, StanchionInit, BuildRegistry, Load, Invoke, Handed, PyProvider,
           RubyProvider, MainThreadCallable, ProviderBridge, LogProvider, Forwarded
  <2>2. QED
    BY <1>1, <2>1 DEF CrossInv, Next, Configuring, Crossing, vars, hostVars
<1>3. CASE UNCHANGED crossingVars
  BY <1>1, <1>2, <1>3 DEF CrossInv, crossingVars, PlainComesBack, ModuleArrives
<1>4. CASE CrossingsNext(lang)
  <2>1. CASE \E o \in Objects[lang] : Call(lang, o)
    BY <1>1, <1>2, <2>1, ObjectsAssumption, CrossCall DEF CrossInv
  <2>2. CASE CallAgain
    BY <1>1, <1>2, <2>2, CrossCallAgain
  <2>3. CASE \/ \E r \in Results : Return(lang, r)
             \/ \E r \in Results, module \in Modules : Provide(lang, r, module)
             \/ \E r \in Results, o \in Objects[lang] : Answer(lang, r, o)
    BY <1>1, <1>2, <2>3, CrossOthers
  <2>4. QED
    BY <1>4, <2>1, <2>2, <2>3 DEF CrossingsNext
<1>5. QED
  BY <1>1, <1>3, <1>4 DEF Next, Configuring, Crossing, vars

LEMMA CrossAlways == Spec => []CrossInv
BY CrossInit, CrossStep, PTL DEF Spec

\* A plain object comes back from a plugin that echoes it exactly as the host
\* sent it, in every language (stanchion-lua's convert.rs and the conversions of
\* the bindings, there and back).
THEOREM PlainObjectsComeBack == Spec => []PlainComesBack
<1>1. CrossInv => PlainComesBack
  BY DEF CrossInv
<1>2. QED
  BY <1>1, CrossAlways, PTL

\* A module of sequences and tables of texts arrives whole at the plugin that
\* asked for it, every function under the key it was stashed with (convert.rs's
\* queue of functions and the clearing of it before a provider runs).
THEOREM ModulesArrive == Spec => []ModuleArrives
<1>1. CrossInv => ModuleArrives
  BY DEF CrossInv
<1>2. QED
  BY <1>1, CrossAlways, PTL

\* Whatever a host passes to a plugin that echoes, the answer passed on comes back
\* the same (the composition of both conversions of every language with lua_to_abi
\* and abi_to_lua).
THEOREM AnswersSettle == Spec => SettlesAfterOneCall
<1>1. ASSUME CrossInv, [Next]_vars
      PROVE  [/\ last.by = "call" /\ last'.by = "call"
              /\ last'.lang = last.lang /\ last'.sent = last.got
              => last'.got = last.got]_crossingVars
  <2>1. SUFFICES ASSUME last.by = "call", last'.by = "call", last'.lang = last.lang,
                        last'.sent = last.got, crossingVars' # crossingVars
                 PROVE  last'.got = last.got
    OBVIOUS
  <2>2. lang' = lang /\ lang \in Languages /\ CrossingsNext(lang)
    BY <1>1, <2>1 DEF Next, Configuring, Crossing, vars, hostVars, crossingVars, CrossInv
  <2>3. ASSUME NEW o \in Objects[lang], Call(lang, o) PROVE last'.got = last.got
    <3>1. HostTree(o)
      BY <2>2, ObjectsAssumption
    <3>2. last' = [by |-> "call", lang |-> lang, sent |-> o, got |-> last'.got]
      BY <1>1, <2>2, <2>3, <3>1, CallOfObject DEF CrossInv
    <3>3. last.got = o /\ last.lang = lang
      BY <2>1, <3>2
    <3>4. o # Refused
      <4>1. SUFFICES ASSUME o = Refused PROVE FALSE
        OBVIOUS
      <4>2. <<>> \in DOMAIN o /\ o[<<>>] = No
        BY <4>1 DEF Refused, Leaf
      <4>3. ~SharedLabel(No) /\ No # Function /\ No # <<"list">> /\ No # <<"tuple">>
            /\ No[1] \notin {"map", "symbol", "bigint", "object"}
        BY LabelsApart
      <4>4. QED
        BY <3>1, <4>2, <4>3 DEF HostTree
    <3>5. Settled(lang, o, waiting) /\ IsQueue(waiting)
      BY <1>1, <2>1, <3>3, <3>4 DEF CrossInv
    <3>6. last' = [by |-> "call", lang |-> lang, sent |-> o, got |-> o]
      BY <2>2, <2>3, <3>4, <3>5, CallOfEcho
    <3>7. QED
      BY <3>3, <3>6
  <2>4. CASE CallAgain
    BY <1>1, <2>2, <2>4, CrossCallAgain
  <2>5. CASE \/ \E r \in Results : Return(lang, r)
             \/ \E r \in Results, module \in Modules : Provide(lang, r, module)
             \/ \E r \in Results, o \in Objects[lang] : Answer(lang, r, o)
    BY <1>1, <2>1, <2>2, <2>5, CrossOthers
  <2>6. QED
    BY <2>2, <2>3, <2>4, <2>5 DEF CrossingsNext
<1>2. QED
  BY <1>1, CrossAlways, PTL DEF Spec, SettlesAfterOneCall

-----------------------------------------------------------------------------
(* The configuration of an embedding program.                              *)

\* Everything bound is a Value that its language can hold.
Grant == bound \notin {Unbound, Failed}

HostInv ==
  /\ lang \in Languages
  /\ asked.policy \in BOOLEAN /\ (asked.policy => lang \in WithPolicy)
  /\ host = NotBuilt => bound = Unbound
  /\ host # NotBuilt => host.allowed = Granted \cup (IF lang = C THEN {Log} ELSE {})
  /\ OnlyYesBinds
  /\ Grant => ValueTree(bound[2]) /\ (lang # Uniffi => \A p \in DOMAIN bound[2] : bound[2][p] # Function)
  /\ \/ seen = Leaf(Nil)
     \/ Grant /\ lang # C /\ seen # Refused /\ seen = ToHost(lang, bound[2])

LEMMA HostInitially == Init => HostInv
<1>1. SUFFICES ASSUME Init PROVE HostInv
  OBVIOUS
<1>2. HostInit
  BY <1>1 DEF Init
<1>3. /\ lang \in Languages /\ host = NotBuilt /\ bound = Unbound /\ seen = Leaf(Nil)
      /\ asked.policy => lang \in WithPolicy
  BY <1>2 DEF HostInit
<1>4. asked.policy \in BOOLEAN
  BY <1>2 DEF HostInit
<1>5. QED
  BY <1>3, <1>4 DEF HostInv, OnlyYesBinds, Grant

\* The constructors, and Godot's registrations before them.
LEMMA HostBuilds ==
  ASSUME HostInv,
         \/ \E name \in Capabilities : RegisterCapability(name)
         \/ SetPolicy
         \/ Build
  PROVE  HostInv'
<1>1. ASSUME NEW name \in Capabilities, RegisterCapability(name) PROVE HostInv'
  <2>1. /\ lang' = lang /\ host' = host /\ bound' = bound /\ seen' = seen /\ host = NotBuilt
        /\ asked' = [asked EXCEPT !.callbacks = asked.callbacks \cup {name}]
    BY <1>1 DEF RegisterCapability
  <2>2. asked'.policy = asked.policy
    BY <2>1
  <2>3. QED
    BY <2>1, <2>2 DEF HostInv, OnlyYesBinds, Grant
<1>2. CASE SetPolicy
  <2>1. /\ lang' = lang /\ host' = host /\ bound' = bound /\ seen' = seen /\ host = NotBuilt
        /\ lang = Godot
    BY <1>2 DEF SetPolicy
  <2>2. asked'.policy \in BOOLEAN /\ lang' \in WithPolicy
    BY <1>2, <2>1 DEF SetPolicy, WithPolicy
  <2>3. QED
    BY <2>1, <2>2 DEF HostInv, OnlyYesBinds, Grant
<1>3. CASE Build
  <2>1. /\ lang' = lang /\ asked' = asked /\ bound' = bound /\ seen' = seen /\ host = NotBuilt
        /\ host'.allowed = Granted \cup (IF lang = C THEN {Log} ELSE {})
    <3>1. \A l \in {Python, Ruby, Godot, Uniffi, Wire} : l # C
      BY DEF Python, Ruby, Godot, Uniffi, Wire, C
    <3>2. \A l, offered, allowed, limit :
            Built(l, offered, allowed, limit) =>
              /\ lang = l /\ host = NotBuilt /\ host'.allowed = allowed
              /\ lang' = lang /\ asked' = asked /\ bound' = bound /\ seen' = seen
      BY DEF Built
    <3>3. QED
      BY <1>3, <3>1, <3>2 DEF Build, PyNew, PyFromConfigFile, RubyNew, GodotOpen, UniffiNew,
                              StanchionInit, BuildRegistry
  <2>2. Granted' = Granted /\ bound = Unbound
    BY <2>1 DEF Granted, HostInv
  <2>3. QED
    BY <2>1, <2>2 DEF HostInv, OnlyYesBinds, Grant
<1>4. QED
  BY <1>1, <1>2, <1>3

LEMMA AnswerShapes ==
  ASSUME NEW l \in WithPolicy, NEW answer \in PolicyAnswers(l)
  PROVE  /\ l # Godot => /\ answer[1] \in {"grant", "deny", "raise", "garbage", "grant_with"}
                         /\ answer[1] = "grant_with" => answer[2] \in PolicyParams
                         /\ l = Uniffi => answer[1] \in {"grant", "deny", "grant_with"}
         /\ l = Godot => /\ answer[1] \in {"raise", "bool", "str", "dict"}
                         /\ answer[1] = "dict" /\ answer[2] = "grant_with" => answer[3] \in PolicyParams
<1>1. CASE l = Godot
  <2>1. \/ answer \in {<<"raise">>, <<"bool", TRUE>>, <<"bool", FALSE>>, <<"str", "a">>,
                       <<"dict", "deny", Leaf(<<"str", "a">>)>>, <<"dict", "a", Leaf(Nil)>>}
        \/ \E p \in PolicyParams : answer = <<"dict", "grant_with", p>>
    BY <1>1 DEF PolicyAnswers, Godot, Uniffi
  <2>2. /\ <<"raise">>[1] = "raise" /\ <<"bool", TRUE>>[1] = "bool" /\ <<"bool", FALSE>>[1] = "bool"
        /\ <<"str", "a">>[1] = "str"
        /\ \A t, x : <<"dict", t, x>>[1] = "dict" /\ <<"dict", t, x>>[2] = t /\ <<"dict", t, x>>[3] = x
    OBVIOUS
  <2>3. /\ answer[1] \in {"raise", "bool", "str", "dict"}
        /\ answer[1] = "dict" /\ answer[2] = "grant_with" => answer[3] \in PolicyParams
    <3>1. CASE answer \in {<<"raise">>, <<"bool", TRUE>>, <<"bool", FALSE>>, <<"str", "a">>}
      BY <2>2, <3>1
    <3>2. CASE answer = <<"dict", "deny", Leaf(<<"str", "a">>)>> \/ answer = <<"dict", "a", Leaf(Nil)>>
      BY <2>2, <3>2
    <3>3. CASE \E p \in PolicyParams : answer = <<"dict", "grant_with", p>>
      BY <2>2, <3>3
    <3>4. QED
      BY <2>1, <3>1, <3>2, <3>3
  <2>4. QED
    BY <1>1, <2>3
<1>2. CASE l # Godot
  <2>1. \/ answer \in {<<"grant">>, <<"deny">>}
        \/ l # Uniffi /\ answer \in {<<"raise">>, <<"garbage">>}
        \/ \E p \in PolicyParams : answer = <<"grant_with", p>>
    BY <1>2 DEF PolicyAnswers, Godot, Uniffi
  <2>2. /\ <<"raise">>[1] = "raise" /\ <<"grant">>[1] = "grant" /\ <<"deny">>[1] = "deny"
        /\ <<"garbage">>[1] = "garbage"
        /\ \A x : <<"grant_with", x>>[1] = "grant_with" /\ <<"grant_with", x>>[2] = x
    OBVIOUS
  <2>3. QED
    BY <1>2, <2>1, <2>2
<1>3. QED
  BY <1>1, <1>2

\* What a policy is taken to have granted, it has said yes to.
LEMMA DecisionIsYes ==
  ASSUME HostInv, asked.policy, NEW name, NEW params \in Params, NEW answer \in PolicyAnswers(lang),
         NEW d, d = Decide(name, params, answer), d # Refused, said' = answer, lang' = lang
  PROVE  /\ Yes'
         /\ \A o \in GrantNamed' : FromHost(lang, o) = d
         /\ d = params \/ \E o \in PolicyParams : d = FromHost(lang, o)
<1>1. lang \in WithPolicy
  BY DEF HostInv
<1>2. Python # Ruby /\ Python # Godot /\ Python # Uniffi /\ Ruby # Godot /\ Ruby # Uniffi /\ Godot # Uniffi
  BY DEF Python, Ruby, Godot, Uniffi
<1>3. CASE lang # Godot
  <2>1. /\ answer[1] \in {"grant", "deny", "raise", "garbage", "grant_with"}
        /\ answer[1] = "grant_with" => answer[2] \in PolicyParams
        /\ lang = Uniffi => answer[1] \in {"grant", "deny", "grant_with"}
    BY <1>1, <1>3, AnswerShapes
  <2>2. \/ answer[1] = "grant" /\ d = params
        \/ answer[1] = "grant_with" /\ d = FromHost(lang, answer[2])
    <3>1. CASE lang = Python
      <4>1. d = PyPolicy(answer, params)
        BY <1>2, <3>1 DEF Decide
      <4>2. QED
        BY <2>1, <3>1, <4>1 DEF PyPolicy
    <3>2. CASE lang = Ruby
      <4>1. d = RubyPolicy(answer, params)
        BY <1>2, <3>2 DEF Decide
      <4>2. QED
        BY <2>1, <3>2, <4>1 DEF RubyPolicy
    <3>3. CASE lang = Uniffi
      <4>1. d = PolicyBridge(answer, params)
        BY <1>2, <3>3 DEF Decide
      <4>2. QED
        BY <2>1, <3>3, <4>1 DEF PolicyBridge
    <3>4. QED
      BY <1>1, <1>3, <3>1, <3>2, <3>3 DEF WithPolicy
  <2>3. CASE answer[1] = "grant" /\ d = params
    <3>1. GrantNamed' = {}
      BY <2>3 DEF GrantNamed
    <3>2. Yes'
      BY <2>3 DEF Yes
    <3>3. QED
      BY <2>3, <3>1, <3>2
  <2>4. CASE answer[1] = "grant_with" /\ d = FromHost(lang, answer[2])
    <3>1. GrantNamed' = {answer[2]}
      BY <2>4 DEF GrantNamed
    <3>2. Yes'
      BY <2>4 DEF Yes
    <3>3. QED
      BY <2>1, <2>4, <3>1, <3>2
  <2>5. QED
    BY <2>2, <2>3, <2>4
<1>4. CASE lang = Godot
  <2>1. /\ answer[1] \in {"raise", "bool", "str", "dict"}
        /\ answer[1] = "dict" /\ answer[2] = "grant_with" => answer[3] \in PolicyParams
    BY <1>1, <1>4, AnswerShapes
  <2>2. d = InterpretDecision(answer, params)
    BY <1>2, <1>4 DEF Decide
  <2>3. \/ answer = <<"bool", TRUE>> /\ d = params
        \/ answer[1] = "dict" /\ answer[2] = "grant_with" /\ d = FromHost(Godot, answer[3])
    BY <2>2 DEF InterpretDecision
  <2>4. CASE answer = <<"bool", TRUE>> /\ d = params
    <3>1. answer[1] = "bool"
      BY <2>4
    <3>2. GrantNamed' = {}
      BY <3>1 DEF GrantNamed
    <3>3. Yes'
      BY <1>4, <2>4 DEF Yes
    <3>4. QED
      BY <2>4, <3>2, <3>3
  <2>5. CASE answer[1] = "dict" /\ answer[2] = "grant_with" /\ d = FromHost(Godot, answer[3])
    <3>1. GrantNamed' = {answer[3]}
      BY <2>5 DEF GrantNamed
    <3>2. Yes'
      BY <1>4, <2>5 DEF Yes
    <3>3. QED
      BY <1>4, <2>1, <2>5, <3>1, <3>2
  <2>6. QED
    BY <2>3, <2>4, <2>5
<1>5. QED
  BY <1>3, <1>4

LEMMA HostLoads ==
  ASSUME HostInv, NEW name \in Capabilities, NEW params \in Params, NEW optional \in BOOLEAN,
         NEW answer \in PolicyAnswers(lang), Load(name, params, optional, answer)
  PROVE  HostInv'
<1> DEFINE d == Decide(name, params, answer)
<1>1. /\ host # NotBuilt /\ bound = Unbound /\ bound' = Approve(name, optional, d) /\ said' = answer
      /\ lang' = lang /\ asked' = asked /\ host' = host /\ seen' = seen
  BY DEF Load
<1>2. Granted' = Granted
  BY <1>1 DEF Granted
<1>3. seen = Leaf(Nil)
  BY <1>1 DEF HostInv, Grant
<1>4. CASE bound' \in {Unbound, Failed}
  BY <1>1, <1>2, <1>3, <1>4 DEF HostInv, OnlyYesBinds, Grant
<1>5. CASE bound' \notin {Unbound, Failed}
  <2>1. name \in host.offered /\ d # Refused /\ bound' = <<name, d>>
    BY <1>1, <1>5 DEF Approve
  <2>2. bound'[1] = name /\ bound'[2] = d
    BY <2>1
  <2>3. CASE asked.policy
    <3>1. /\ Yes' /\ \A o \in GrantNamed' : FromHost(lang, o) = d
          /\ d = params \/ \E o \in PolicyParams : d = FromHost(lang, o)
      BY <1>1, <2>1, <2>3, DecisionIsYes
    <3>2. ValueTree(d) /\ (lang # Uniffi => \A p \in DOMAIN d : d[p] # Function)
      BY <2>1, <3>1, ParamsAssumption, FromHostIsValue
    <3> HIDE DEF d
    <3>3. OnlyYesBinds'
      BY <1>1, <2>1, <2>2, <2>3, <3>1 DEF OnlyYesBinds
    <3>4. QED
      BY <1>1, <1>2, <1>3, <2>2, <3>2, <3>3 DEF HostInv, Grant
  <2>4. CASE ~asked.policy
    <3>1. name \in host.allowed /\ d = params
      BY <2>1, <2>4 DEF Decide, AllowList
    <3>2. ValueTree(d) /\ (lang # Uniffi => \A p \in DOMAIN d : d[p] # Function)
      BY <3>1, ParamsAssumption
    <3>3. name \in Granted \cup (IF lang = C THEN {Log} ELSE {})
      BY <1>1, <3>1 DEF HostInv
    <3> HIDE DEF d
    <3>4. OnlyYesBinds'
      BY <1>1, <1>2, <2>1, <2>2, <2>4, <3>3 DEF OnlyYesBinds
    <3>5. QED
      BY <1>1, <1>2, <1>3, <2>2, <3>2, <3>4 DEF HostInv, Grant
  <2>5. QED
    BY <2>3, <2>4
<1>6. QED
  BY <1>4, <1>5

LEMMA AlwaysHeldInProcess ==
  ASSUME NEW l \in {Python, Ruby, Godot, Uniffi}, NEW v, ValueTree(v),
         l # Uniffi => \A p \in DOMAIN v : v[p] # Function
  PROVE  ToHost(l, v) # Refused
<1>1. IsTree(v) /\ <<>> \in DOMAIN v
  BY DEF ValueTree, IsTree
<1>2. l \in Languages /\ l \notin Json
  BY DEF Languages, Json, Python, Ruby, Godot, Uniffi, C, Wire
<1>3. ASSUME NEW p \in DOMAIN v PROVE HostScalar(l, v[p]) # No
  <2>1. CASE v[p] \in {<<"list">>, <<"map">>}
    BY <1>2, <2>1, HostContainers, LabelsApart
  <2>2. CASE v[p] = Function
    BY <1>2, <2>2, HostContainers, LabelsApart
  <2>3. CASE SharedLabel(v[p])
    BY <1>2, <2>3, SharedStays
  <2>4. QED
    BY <2>1, <2>2, <2>3 DEF ValueTree
<1> DEFINE place(p) == [k \in KeysAt(v, p) |-> Cardinality({j \in KeysAt(v, p) : KeyBefore(j, k)})]
           mark(p) == IF v[p] = <<"map">> THEN <<"map", place(p)>> ELSE HostScalar(l, v[p])
<1>4. ToHost(l, v) = [p \in DOMAIN v |-> mark(p)]
  BY <1>3 DEF ToHost
<1>5. mark(<<>>) # No
  BY <1>1, <1>3, LabelsApart DEF No
<1> HIDE DEF mark
<1>6. ToHost(l, v)[<<>>] # No
  BY <1>1, <1>4, <1>5
<1>7. QED
  BY <1>6 DEF Refused, Leaf

LEMMA HostInvokes ==
  ASSUME HostInv, Invoke
  PROVE  HostInv'
<1>1. /\ lang' = lang /\ asked' = asked /\ host' = host /\ bound' = bound /\ said' = said /\ Grant
      /\ \/ lang \in {Python, Ruby, Godot, Uniffi} /\ seen' = ToHost(lang, bound[2])
         \/ seen' = Leaf(Nil)
         \/ lang = Wire /\ seen' = ToHost(lang, bound[2]) /\ seen' # Refused
  <2>1. \A l, grant : Handed(l, grant) => /\ lang = l /\ seen' = grant /\ Grant
                                          /\ lang' = lang /\ asked' = asked /\ host' = host
                                          /\ bound' = bound /\ said' = said
    BY DEF Handed, Grant
  <2>2. CASE PyProvider
    BY <2>1, <2>2 DEF PyProvider
  <2>3. CASE RubyProvider
    BY <2>1, <2>3 DEF RubyProvider
  <2>4. CASE MainThreadCallable
    BY <2>1, <2>4 DEF MainThreadCallable
  <2>5. CASE ProviderBridge
    BY <2>1, <2>5 DEF ProviderBridge
  <2>6. CASE LogProvider
    BY <2>1, <2>6 DEF LogProvider
  <2>7. CASE Forwarded
    <3> DEFINE grant == ToHost(Wire, bound[2])
    <3>1. Handed(Wire, IF grant = Refused THEN Leaf(Nil) ELSE grant)
      BY <2>7 DEF Forwarded
    <3>2. QED
      BY <2>1, <3>1
  <2>8. QED
    BY <2>2, <2>3, <2>4, <2>5, <2>6, <2>7 DEF Invoke
<1>2. \/ seen' = Leaf(Nil)
      \/ Grant /\ lang # C /\ seen' # Refused /\ seen' = ToHost(lang, bound[2])
  <2>1. CASE lang \in {Python, Ruby, Godot, Uniffi} /\ seen' = ToHost(lang, bound[2])
    <3>1. ToHost(lang, bound[2]) # Refused
      BY <1>1, <2>1, AlwaysHeldInProcess DEF HostInv
    <3>2. lang # C
      BY <2>1 DEF Python, Ruby, Godot, Uniffi, C
    <3>3. QED
      BY <1>1, <2>1, <3>1, <3>2
  <2>2. Wire # C
    BY DEF Wire, C
  <2>3. QED
    BY <1>1, <2>1, <2>2
<1>3. Granted' = Granted /\ Grant' = Grant /\ OnlyYesBinds'
  BY <1>1 DEF Granted, Grant, HostInv, OnlyYesBinds, Yes, GrantNamed
<1>4. QED
  BY <1>1, <1>2, <1>3 DEF HostInv

LEMMA HostStep == HostInv /\ [Next]_vars => HostInv'
<1>1. SUFFICES ASSUME HostInv, [Next]_vars PROVE HostInv'
  OBVIOUS
<1>2. CASE HostNext
  <2>1. CASE (\E name \in Capabilities : RegisterCapability(name)) \/ SetPolicy \/ Build
    BY <1>1, <2>1, HostBuilds
  <2>2. CASE \E name \in Capabilities, params \in Params, optional \in BOOLEAN,
                answer \in PolicyAnswers(lang) : Load(name, params, optional, answer)
    BY <1>1, <2>2, HostLoads
  <2>3. CASE Invoke
    BY <1>1, <2>3, HostInvokes
  <2>4. QED
    BY <1>2, <2>1, <2>2, <2>3 DEF HostNext
<1>3. CASE UNCHANGED hostVars
  BY <1>1, <1>3 DEF hostVars, HostInv, OnlyYesBinds, Granted, Grant, Yes, GrantNamed
<1>4. QED
  BY <1>1, <1>2, <1>3 DEF Next, Configuring, Crossing, vars

LEMMA HostAlways == Spec => []HostInv
BY HostInitially, HostStep, PTL DEF Spec

\* Nothing is bound that nobody answers for, and nothing without a yes of the
\* program's policy or its allow list; an answer that raises or cannot be read
\* denies (the constructors, the policies of the bindings and approve_capabilities).
THEOREM NothingBindsUnasked == Spec => []OnlyYesBinds
<1>1. HostInv => OnlyYesBinds
  BY DEF HostInv
<1>2. QED
  BY <1>1, HostAlways, PTL

\* The grant a provider is handed in its own language reads back as the grant that
\* was approved (the bindings' providers and plugin-host's forwarding).
THEOREM ProvidersReadTheGrant == Spec => []ProviderSeesGrant
<1>1. ASSUME HostInv PROVE ProviderSeesGrant
  <2>1. SUFFICES ASSUME seen # Leaf(Nil), Fits(lang, seen)
                 PROVE  FromHost(lang, seen) = bound[2]
    BY DEF ProviderSeesGrant
  <2>2. /\ Grant /\ lang # C /\ seen # Refused /\ seen = ToHost(lang, bound[2]) /\ lang \in Languages
        /\ ValueTree(bound[2]) /\ (lang # Uniffi => \A p \in DOMAIN bound[2] : bound[2][p] # Function)
    BY <1>1, <2>1 DEF HostInv
  <2>3. DOMAIN seen = DOMAIN bound[2]
    BY <2>2 DEF ToHost
  <2>4. Crosses(lang, bound[2])
    <3>1. ASSUME NEW p \in DOMAIN bound[2] PROVE InReach(lang, bound[2][p], p)
      <4>1. InReach(lang, seen[p], p)
        BY <2>1, <2>3 DEF Fits
      <4>2. bound[2][p][1] \in Containers => seen[p][1] \in Containers
        <5>1. SUFFICES ASSUME bound[2][p][1] \in Containers PROVE seen[p][1] \in Containers
          OBVIOUS
        <5>2. bound[2][p] \in {<<"list">>, <<"map">>}
          BY <2>2, <5>1, LabelsApart DEF ValueTree, Containers
        <5>3. \/ seen[p] = HostScalar(lang, bound[2][p])
              \/ \E f : seen[p] = <<"map", f>>
          BY <2>2 DEF ToHost
        <5>4. HostScalar(lang, bound[2][p]) = bound[2][p]
          BY <2>2, <5>2, HostContainers
        <5>5. QED
          BY <5>1, <5>3, <5>4, LabelsApart DEF Containers
      <4>3. QED
        BY <4>1, <4>2 DEF InReach
    <3>2. QED
      BY <2>2, <3>1 DEF Crosses, Fits
  <2>5. FromHost(lang, seen) = Held(lang, bound[2])
        /\ \A p \in DOMAIN bound[2] : HostScalar(lang, bound[2][p]) # No
    BY <2>2, <2>4, HostReadsBack
  <2>6. QED
    BY <2>2, <2>4, <2>5, HeldIsValue
<1>2. QED
  BY <1>1, HostAlways, PTL

=============================================================================
