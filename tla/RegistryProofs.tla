--------------------------- MODULE RegistryProofs ---------------------------
(***************************************************************************)
(* For any builds, directories, registries and changes of the disk: `index` *)
(* and `plugins` agree in every step of every call, what runs was admitted, *)
(* and the two together implement a map of running plugins.                 *)
(***************************************************************************)
EXTENDS Registry, TLAPS, SequenceTheorems, FiniteSetTheorems, WellFoundedInduction

RegistryInv == TypeOK /\ BatchSound /\ IndexConsistent

LEMMA BuildsAreNamed ==
    /\ \A m \in Manifest : NameOf(m) \in Name
    /\ \A m \in ItemSet : NameOf(m) \in Name
    /\ \A p \in LoadedPlugin : NameOf(p) \in Name
BY BuildAssumption DEF NameOf, Manifest, ItemSet, LoadedPlugin

\* What a verified directory is recorded as.
LEMMA ItemIsTyped ==
    ASSUME TypeOK, NEW m, m \in Manifest \/ m \in ItemSet, ~VerifyRefuses(m)
    PROVE  /\ Item(m, DigestAt(m.dir), SignerAt(m.dir)) \in ItemSet
           /\ NameOf(Item(m, DigestAt(m.dir), SignerAt(m.dir))) = NameOf(m)
<1>1. m.dir \in Dir /\ m.build \in Build
  BY DEF Manifest, ItemSet
<1>2. disk[m.dir] \in Build \cup {NoDir}
  BY <1>1 DEF TypeOK
<1>3. WantsDigest => disk[m.dir] \in Build
  BY <1>2 DEF VerifyRefuses
<1>4. DigestAt(m.dir) \in Build \cup {NoDigest}
  BY <1>3 DEF DigestAt
<1>5. SignerAt(m.dir) \in Identity \cup {Unsigned}
  BY DEF SignerAt
<1> QED BY <1>1, <1>4, <1>5 DEF Item, ItemSet, NameOf

\* What is built from an item and the entry it was bound to.
LEMMA PluginIsTyped ==
    ASSUME NEW item \in ItemSet, NEW bytes \in Content
    PROVE  /\ PluginOf(item, bytes) \in LoadedPlugin
           /\ NameOf(PluginOf(item, bytes)) = NameOf(item)
<1>1. item.signer \in Identity \cup {Unsigned}
  BY DEF ItemSet
<1>2. GrantsOf(item, item.signer) \subseteq Capability
  BY <1>1, PolicyAssumption DEF GrantsOf
<1> QED BY <1>2 DEF PluginOf, LoadedPlugin, ItemSet, NameOf

LEMMA EntryIsContent ==
    ASSUME TypeOK, NEW m \in ItemSet, EntryExists(m)
    PROVE  EntryAt(m) \in Content
<1>1. disk[m.dir] \in Build
  BY DEF TypeOK, ItemSet, EntryExists
<1> QED BY <1>1, BuildAssumption DEF EntryExists, EntryAt

\* What waits for a backend.
LEMMA ReadyIsTyped ==
    ASSUME TypeOK, NEW i \in DOMAIN ready
    PROVE  ready[i].item \in ItemSet /\ ready[i].bytes \in Content
<1> DEFINE Verified == [item : ItemSet, bytes : Content]
<1>1. ready \in Seq(Verified)
  BY DEF TypeOK
<1> HIDE DEF Verified
<1>2. ready[i] \in Verified
  BY <1>1
<1> QED BY <1>2 DEF Verified

-----------------------------------------------------------------------------
(* The vector and its index *)

\* Removing the plugin at p shifts every later one down by one place.
LEMMA WithoutShifts ==
    ASSUME NEW S, NEW s \in Seq(S), NEW p \in 1 .. Len(s)
    PROVE  /\ Without(s, p) \in Seq(S)
           /\ Len(Without(s, p)) = Len(s) - 1
           /\ \A i \in 1 .. Len(s) - 1 :
                Without(s, p)[i] = IF i < p THEN s[i] ELSE s[i + 1]
<1>1. Len(s) - 1 \in Nat /\ \A i \in 1 .. Len(s) - 1 : s[i] \in S /\ s[i + 1] \in S
  OBVIOUS
<1>2. Without(s, p) = [i \in 1 .. Len(s) - 1 |-> IF i < p THEN s[i] ELSE s[i + 1]]
  BY DEF Without
<1> DEFINE r == Without(s, p)
<1>3. r \in [1 .. Len(s) - 1 -> S]
  BY <1>1, <1>2
<1>4. r \in Seq(S) /\ Len(r) = Len(s) - 1
  <2>1. r \in Seq(S)
    BY <1>1, <1>3, SeqDef
  <2>2. DOMAIN r = 1 .. Len(r) /\ DOMAIN r = 1 .. Len(s) - 1 /\ Len(r) \in Nat
    BY <1>3, <2>1, LenProperties
  <2> QED BY <1>1, <2>1, <2>2
<1> QED BY <1>2, <1>4

\* Unloading keeps the two in agreement, and every other name registered.
LEMMA UnloadKeeps ==
    ASSUME TypeOK, IndexConsistent, NEW n \in DOMAIN index, Unload(n)
    PROVE  /\ plugins' \in Seq(LoadedPlugin)
           /\ DOMAIN index' = DOMAIN index \ {n}
           /\ \A m \in DOMAIN index' : index'[m] \in DOMAIN plugins'
           /\ IndexConsistent'
           /\ surfaces' \subseteq Name
<1> DEFINE p == index[n]
           s == plugins
           r == Without(plugins, p)
<1>1. s \in Seq(LoadedPlugin) /\ p \in 1 .. Len(s) /\ Len(s) \in Nat /\ NameOf(s[p]) = n
  BY DEF TypeOK, IndexConsistent
<1>2. plugins' = r /\ index' = IndexOf(r)
  BY DEF Unload
<1>3. /\ r \in Seq(LoadedPlugin) /\ Len(r) = Len(s) - 1
      /\ \A i \in 1 .. Len(s) - 1 : r[i] = IF i < p THEN s[i] ELSE s[i + 1]
  BY <1>1, WithoutShifts
<1> HIDE DEF p, r
<1>4. \A i, j \in 1 .. Len(s) : NameOf(s[i]) = NameOf(s[j]) => i = j
  BY <1>1 DEF IndexConsistent
<1>5. \A i, j \in 1 .. Len(r) : NameOf(r[i]) = NameOf(r[j]) => i = j
  BY <1>1, <1>3, <1>4
<1>6. DOMAIN r = 1 .. Len(r)
  BY <1>3
<1>7. {NameOf(r[i]) : i \in DOMAIN r} = {NameOf(s[i]) : i \in DOMAIN s} \ {n}
  <2>1. ASSUME NEW i \in 1 .. Len(r)
        PROVE  \E j \in 1 .. Len(s) : NameOf(r[i]) = NameOf(s[j]) /\ NameOf(r[i]) # n
    <3>1. CASE i < p
      BY <3>1, <1>1, <1>3, <1>4
    <3>2. CASE ~(i < p)
      <4>1. r[i] = s[i + 1] /\ i + 1 \in 1 .. Len(s) /\ i + 1 # p
        BY <3>2, <1>1, <1>3
      <4> QED BY <4>1, <1>1, <1>4
    <3> QED BY <3>1, <3>2
  <2>2. ASSUME NEW j \in 1 .. Len(s), NameOf(s[j]) # n
        PROVE  \E i \in 1 .. Len(r) : NameOf(r[i]) = NameOf(s[j])
    <3>1. CASE j < p
      BY <3>1, <1>1, <1>3
    <3>2. CASE ~(j < p)
      <4>1. j - 1 \in 1 .. Len(r) /\ r[j - 1] = s[j]
        BY <3>2, <2>2, <1>1, <1>3
      <4> QED BY <4>1
    <3> QED BY <3>1, <3>2
  <2>3. DOMAIN s = 1 .. Len(s)
    BY <1>1
  <2>4. {NameOf(r[i]) : i \in 1 .. Len(r)} = {NameOf(s[i]) : i \in 1 .. Len(s)} \ {n}
    BY <2>1, <2>2
  <2> QED BY <2>3, <2>4, <1>6
<1>8. DOMAIN IndexOf(r) = {NameOf(r[i]) : i \in DOMAIN r}
  BY DEF IndexOf
<1>9. \A i \in DOMAIN r : IndexOf(r)[NameOf(r[i])] = i
  <2> SUFFICES ASSUME NEW i \in DOMAIN r PROVE IndexOf(r)[NameOf(r[i])] = i
    OBVIOUS
  <2> DEFINE Last(k) == /\ NameOf(r[k]) = NameOf(r[i])
                        /\ \A j \in DOMAIN r : NameOf(r[j]) = NameOf(r[i]) => j =< k
  <2>1. \A k \in DOMAIN r : Last(k) <=> k = i
    BY <1>3, <1>5, <1>6
  <2>2. (CHOOSE k \in DOMAIN r : Last(k)) = i
    BY <2>1
  <2> QED BY <2>2 DEF IndexOf
<1>10. DOMAIN index = {NameOf(s[i]) : i \in DOMAIN s}
  BY DEF IndexConsistent, PluginNames
<1>11. IndexConsistent'
  BY <1>2, <1>8, <1>9 DEF IndexConsistent, PluginNames
<1> QED BY <1>2, <1>3, <1>7, <1>8, <1>10, <1>11 DEF IndexConsistent, Unload, TypeOK

\* A plugin appended under a name nobody carries is found under it.
LEMMA RegisterKeeps ==
    ASSUME TypeOK, IndexConsistent, NEW q \in LoadedPlugin, NameOf(q) \notin DOMAIN index,
           plugins' = Append(plugins, q),
           index' = [n \in DOMAIN index \cup {NameOf(q)} |->
                       IF n = NameOf(q) THEN Len(plugins) + 1 ELSE index[n]]
    PROVE  /\ plugins' \in Seq(LoadedPlugin)
           /\ DOMAIN index' \subseteq Name
           /\ \A m \in DOMAIN index' : index'[m] \in DOMAIN plugins'
           /\ IndexConsistent'
<1> DEFINE s == plugins
           r == Append(s, q)
           k == NameOf(q)
<1>1. s \in Seq(LoadedPlugin) /\ Len(s) \in Nat /\ DOMAIN s = 1 .. Len(s)
  BY DEF TypeOK
<1>2. /\ r \in Seq(LoadedPlugin) /\ Len(r) = Len(s) + 1
      /\ \A i \in 1 .. Len(s) : r[i] = s[i]
      /\ r[Len(s) + 1] = q
  BY <1>1, AppendProperties
<1>3. DOMAIN r = 1 .. Len(s) + 1
  BY <1>2
<1>4. /\ DOMAIN index' = DOMAIN index \cup {k}
      /\ index'[k] = Len(s) + 1
      /\ \A n \in DOMAIN index : index'[n] = index[n]
  OBVIOUS
<1>5. k \in Name
  BY BuildsAreNamed
<1>6. /\ DOMAIN index = {NameOf(s[i]) : i \in 1 .. Len(s)}
      /\ \A n \in DOMAIN index : index[n] \in 1 .. Len(s) /\ NameOf(s[index[n]]) = n
      /\ \A i \in 1 .. Len(s) : index[NameOf(s[i])] = i
  BY <1>1 DEF IndexConsistent, PluginNames
<1> HIDE DEF r, k
<1>7. plugins' = r /\ NameOf(r[Len(s) + 1]) = k /\ k \notin DOMAIN index
  BY <1>2 DEF r, k
<1>8. {NameOf(r[i]) : i \in DOMAIN r} = DOMAIN index'
  <2>1. \A i \in 1 .. Len(s) : NameOf(r[i]) = NameOf(s[i])
    BY <1>2
  <2>2. \A i \in 1 .. Len(s) + 1 : NameOf(r[i]) \in DOMAIN index'
    BY <2>1, <1>1, <1>4, <1>6, <1>7
  <2>3. \A n \in DOMAIN index' : \E i \in 1 .. Len(s) + 1 : NameOf(r[i]) = n
    <3> SUFFICES ASSUME NEW n \in DOMAIN index'
                 PROVE  \E i \in 1 .. Len(s) + 1 : NameOf(r[i]) = n
      OBVIOUS
    <3>1. CASE n = k
      BY <3>1, <1>1, <1>7
    <3>2. CASE n # k
      <4>1. n \in DOMAIN index /\ index[n] \in 1 .. Len(s) /\ NameOf(s[index[n]]) = n
        BY <3>2, <1>4, <1>6
      <4>2. index[n] \in 1 .. Len(s) + 1 /\ NameOf(r[index[n]]) = n
        BY <4>1, <2>1, <1>1
      <4> QED BY <4>2
    <3> QED BY <3>1, <3>2
  <2> QED BY <2>2, <2>3, <1>3
<1>9. \A n \in DOMAIN index' : index'[n] \in DOMAIN r /\ NameOf(r[index'[n]]) = n
  BY <1>1, <1>2, <1>3, <1>4, <1>6, <1>7
<1>10. \A i \in DOMAIN r : index'[NameOf(r[i])] = i
  <2> SUFFICES ASSUME NEW i \in 1 .. Len(s) + 1 PROVE index'[NameOf(r[i])] = i
    BY <1>3
  <2>1. CASE i = Len(s) + 1
    BY <2>1, <1>4, <1>7
  <2>2. CASE i # Len(s) + 1
    <3>1. i \in 1 .. Len(s) /\ NameOf(r[i]) = NameOf(s[i])
      BY <2>2, <1>1, <1>2
    <3>2. NameOf(s[i]) \in DOMAIN index
      BY <3>1, <1>6
    <3> QED BY <3>1, <3>2, <1>4, <1>6
  <2> QED BY <2>1, <2>2
<1>11. IndexConsistent'
  <2> SUFFICES /\ DOMAIN index' = {NameOf(plugins'[i]) : i \in DOMAIN plugins'}
               /\ \A n \in DOMAIN index' :
                    index'[n] \in DOMAIN plugins' /\ NameOf(plugins'[index'[n]]) = n
               /\ \A i \in DOMAIN plugins' : index'[NameOf(plugins'[i])] = i
    BY DEF IndexConsistent, PluginNames, NameOf
  <2>1. {NameOf(plugins'[i]) : i \in DOMAIN plugins'} = {NameOf(r[i]) : i \in DOMAIN r}
    BY <1>7, Zenon
  <2>2. \A n \in DOMAIN index' :
          index'[n] \in DOMAIN plugins' /\ NameOf(plugins'[index'[n]]) = n
    BY <1>7, <1>9, Zenon
  <2>3. \A i \in DOMAIN plugins' : index'[NameOf(plugins'[i])] = i
    BY <1>7, <1>10, Zenon
  <2> QED BY <2>1, <2>2, <2>3, <1>8
<1>12. DOMAIN index' \subseteq Name
  BY <1>4, <1>5 DEF TypeOK
<1> QED BY <1>2, <1>7, <1>9, <1>11, <1>12 DEF r

-----------------------------------------------------------------------------
(* The steps of load_dir *)

LEMMA LoadDirKeeps == RegistryInv /\ LoadDir => RegistryInv'
<1> SUFFICES ASSUME RegistryInv, LoadDir PROVE RegistryInv'
  OBVIOUS
<1> DEFINE name == NamesFound
           edges == EdgesAmong(name)
<1>1. PICK n \in 0 .. Cardinality(DOMAIN edges) : \E s \in [1 .. n -> DOMAIN edges] :
        /\ IsLoadOrder(DOMAIN edges, name, edges, s)
        /\ todo' = [i \in 1 .. n |-> ManifestOf(s[i])]
        /\ failures' = OrderFailures(name, edges, s)
  BY DEF LoadDir
<1>2. PICK s \in [1 .. n -> DOMAIN edges] :
        /\ NamesDistinct(name, s)
        /\ todo' = [i \in 1 .. n |-> ManifestOf(s[i])]
        /\ failures' = OrderFailures(name, edges, s)
  BY <1>1 DEF IsLoadOrder
<1>3. /\ failed' = {f.name : f \in failures'}
      /\ seen' = {ManifestOf(d) : d \in {e \in Dir : disk[e] # NoDir}}
      /\ phase' = "scan" /\ ready' = <<>> /\ handled' = {} /\ loaded' = <<>>
      /\ UNCHANGED <<host, book, current, purge>>
  BY DEF LoadDir
<1>4. DOMAIN edges \subseteq ReadableDirs /\ DOMAIN name = ReadableDirs
  BY DEF EdgesAmong, NamesFound
<1>5. \A d \in Dir : disk[d] # NoDir => ManifestOf(d) \in Manifest
  BY DEF ManifestOf, Manifest, RegistryInv, TypeOK
<1>6. \A d \in ReadableDirs : d \in Dir /\ disk[d] # NoDir /\ NameOf(ManifestOf(d)) = name[d]
  BY DEF ReadableDirs, NamesFound, ManifestOf, NameOf
<1>7. n \in Nat
  OBVIOUS
<1> HIDE DEF name, edges
<1>8. todo' \in Seq(Manifest) /\ DOMAIN todo' = 1 .. n
      /\ \A i \in 1 .. n : todo'[i] = ManifestOf(s[i]) /\ s[i] \in ReadableDirs
  <2>1. \A i \in 1 .. n : s[i] \in ReadableDirs /\ ManifestOf(s[i]) \in Manifest
    BY <1>2, <1>4, <1>5, <1>6
  <2>2. todo' \in [1 .. n -> Manifest]
    BY <2>1, <1>2
  <2> QED BY <2>1, <2>2, <1>2, <1>7, SeqDef
<1>9. \A i, j \in DOMAIN todo' : NameOf(todo'[i]) = NameOf(todo'[j]) => i = j
  BY <1>2, <1>6, <1>8 DEF NamesDistinct
<1>10. failed' \subseteq Name
  <2>1. \A d \in {e \in Dir : disk[e] # NoDir} : NameOf(ManifestOf(d)) \in Name
    BY <1>5, BuildsAreNamed
  <2>2. ASSUME NEW f \in failures' PROVE f.name \in Name
    <3>1. \/ \E d \in Dir : f = [dir |-> d, name |-> BaseName[d], reason |-> "manifest"]
          \/ \E d \in DOMAIN name : f = Failure(ManifestOf(d), "missing")
          \/ \E d \in DOMAIN edges : f = Failure(ManifestOf(d), "cycle")
      BY <2>2, <1>2 DEF OrderFailures, Kept
    <3>2. DOMAIN edges \subseteq {e \in Dir : disk[e] # NoDir}
          /\ DOMAIN name \subseteq {e \in Dir : disk[e] # NoDir}
      BY <1>4, <1>6
    <3>3. \A d, why : Failure(ManifestOf(d), why).name = NameOf(ManifestOf(d))
      BY DEF Failure
    <3>4. CASE \E d \in Dir : f = [dir |-> d, name |-> BaseName[d], reason |-> "manifest"]
      BY <3>4, BaseNameAssumption
    <3>5. CASE \E d \in DOMAIN name : f = Failure(ManifestOf(d), "missing")
      BY <3>5, <3>2, <3>3, <2>1
    <3>6. CASE \E d \in DOMAIN edges : f = Failure(ManifestOf(d), "cycle")
      BY <3>6, <3>2, <3>3, <2>1
    <3> QED BY <3>1, <3>4, <3>5, <3>6
  <2> QED BY <2>2, <1>3
<1>11. seen' \subseteq Manifest
  BY <1>3, <1>5
<1>12. TypeOK'
  BY <1>3, <1>8, <1>10, <1>11 DEF RegistryInv, TypeOK, host, book, Phase
<1>13. BatchSound'
  BY <1>3, <1>9 DEF BatchSound
<1>14. IndexConsistent'
  BY <1>3 DEF RegistryInv, IndexConsistent, PluginNames, book
<1> QED BY <1>12, <1>13, <1>14 DEF RegistryInv
\* A manifest that is refused leaves the batch.
LEMMA RefuseKeeps ==
    ASSUME RegistryInv, phase \in {"scan", "entry"}, todo # <<>>, NEW why,
           Refuse(Head(todo), why), current' \in {current, NoManifest}
    PROVE  RegistryInv'
<1>1. /\ todo \in Seq(Manifest) /\ Head(todo) \in Manifest
      /\ Tail(todo) \in Seq(Manifest) /\ Len(Tail(todo)) = Len(todo) - 1
      /\ \A i \in DOMAIN Tail(todo) :
           i + 1 \in DOMAIN todo /\ Tail(todo)[i] = todo[i + 1]
  BY DEF RegistryInv, TypeOK
<1>2. /\ todo' = Tail(todo) /\ phase' = "scan"
      /\ failed' = failed \cup {NameOf(Head(todo))}
      /\ UNCHANGED <<host, book, ready, handled, loaded, seen, purge>>
  BY DEF Refuse
<1>3. NameOf(Head(todo)) \in Name
  BY <1>1, BuildsAreNamed
<1>4. TypeOK'
  BY <1>1, <1>2, <1>3 DEF RegistryInv, TypeOK, host, book, Phase
<1>5. BatchSound'
  <2>1. handled = {}
    BY DEF RegistryInv, BatchSound
  <2>2. \A i, j \in DOMAIN todo' : NameOf(todo'[i]) = NameOf(todo'[j]) => i = j
    BY <1>1, <1>2 DEF RegistryInv, BatchSound
  <2>3. \A i \in DOMAIN todo', j \in DOMAIN ready : NameOf(todo'[i]) # NameOf(ready[j].item)
    BY <1>1, <1>2 DEF RegistryInv, BatchSound
  <2> QED BY <1>2, <2>1, <2>2, <2>3 DEF RegistryInv, BatchSound, book
<1>6. IndexConsistent'
  BY <1>2 DEF RegistryInv, IndexConsistent, PluginNames, book
<1> QED BY <1>4, <1>5, <1>6 DEF RegistryInv

LEMMA ScanRefuseKeeps == RegistryInv /\ ScanRefuse => RegistryInv'
<1> SUFFICES ASSUME RegistryInv, ScanRefuse PROVE RegistryInv'
  OBVIOUS
<1>1. PICK why : Refuse(Head(todo), why)
  BY DEF ScanRefuse
<1> QED BY <1>1, RefuseKeeps DEF ScanRefuse

LEMMA EntryRefuseKeeps == RegistryInv /\ EntryRefuse => RegistryInv'
<1> SUFFICES ASSUME RegistryInv, EntryRefuse PROVE RegistryInv'
  OBVIOUS
<1>1. todo # <<>>
  BY DEF RegistryInv, BatchSound, EntryRefuse
<1> QED BY <1>1, RefuseKeeps DEF EntryRefuse

LEMMA ScanVerifyKeeps == RegistryInv /\ ScanVerify => RegistryInv'
<1> SUFFICES ASSUME RegistryInv, ScanVerify PROVE RegistryInv'
  OBVIOUS
<1>1. Head(todo) \in Manifest
  BY DEF RegistryInv, TypeOK, ScanVerify
<1>2. /\ current' \in ItemSet /\ NameOf(current') = NameOf(Head(todo))
      /\ NameOf(Head(todo)) \notin DOMAIN index
      /\ phase' = "entry" /\ todo # <<>>
      /\ UNCHANGED <<host, book, load, purge>>
  BY <1>1, ItemIsTyped DEF RegistryInv, ScanVerify
<1>3. TypeOK'
  BY <1>2 DEF RegistryInv, TypeOK, host, book, load, Phase
<1>4. BatchSound'
  BY <1>2 DEF RegistryInv, BatchSound, ScanVerify, book, load, NameOf
<1>5. IndexConsistent'
  BY <1>2 DEF RegistryInv, IndexConsistent, PluginNames, book
<1> QED BY <1>3, <1>4, <1>5 DEF RegistryInv

\* The bound item moves from the manifests to the items, under its name.
LEMMA EntryReadKeeps == RegistryInv /\ EntryRead => RegistryInv'
<1> SUFFICES ASSUME RegistryInv, EntryRead PROVE RegistryInv'
  OBVIOUS
<1> DEFINE new == [item |-> current, bytes |-> EntryAt(current)]
<1>1. /\ current \in ItemSet /\ todo # <<>> /\ NameOf(current) = NameOf(Head(todo))
      /\ NameOf(current) \notin DOMAIN index /\ handled = {}
  BY DEF RegistryInv, BatchSound, EntryRead
<1>2. new \in [item : ItemSet, bytes : Content]
  BY <1>1, EntryIsContent DEF RegistryInv, EntryRead
<1>3. /\ Tail(todo) \in Seq(Manifest) /\ Len(Tail(todo)) = Len(todo) - 1
      /\ Head(todo) = todo[1] /\ 1 \in DOMAIN todo
      /\ \A i \in DOMAIN Tail(todo) :
           i + 1 \in DOMAIN todo /\ i + 1 # 1 /\ Tail(todo)[i] = todo[i + 1]
  BY <1>1 DEF RegistryInv, TypeOK
<1>4. /\ ready' = Append(ready, new) /\ todo' = Tail(todo) /\ phase' = "scan"
      /\ current' = NoManifest
      /\ UNCHANGED <<host, book, handled, failed, failures, loaded, seen, purge>>
  BY DEF EntryRead
<1> HIDE DEF new
<1>5. /\ ready' \in Seq([item : ItemSet, bytes : Content]) /\ ready \in Seq([item : ItemSet, bytes : Content])
      /\ DOMAIN ready' = DOMAIN ready \cup {Len(ready) + 1}
      /\ \A i \in DOMAIN ready : ready'[i] = ready[i] /\ i # Len(ready) + 1
      /\ ready'[Len(ready) + 1] = new
  BY <1>2, <1>4, AppendProperties DEF RegistryInv, TypeOK
<1>6. new.item = current
  BY DEF new
<1>7. TypeOK'
  BY <1>1, <1>3, <1>4, <1>5 DEF RegistryInv, TypeOK, host, book, Phase
<1>8. BatchSound'
  <2>1. \A i, j \in DOMAIN todo' : NameOf(todo'[i]) = NameOf(todo'[j]) => i = j
    BY <1>3, <1>4 DEF RegistryInv, BatchSound, EntryRead
  <2>2. \A i \in DOMAIN todo : \A j \in DOMAIN ready : NameOf(todo[i]) # NameOf(ready[j].item)
    BY DEF RegistryInv, BatchSound, EntryRead
  <2>3. \A i \in DOMAIN todo' : NameOf(todo'[i]) # NameOf(current)
    BY <1>1, <1>3, <1>4 DEF RegistryInv, BatchSound, EntryRead
  <2>4. \A i \in DOMAIN todo', j \in DOMAIN ready' : NameOf(todo'[i]) # NameOf(ready'[j].item)
    BY <2>2, <2>3, <1>3, <1>4, <1>5, <1>6
  <2>5. \A j \in DOMAIN ready : NameOf(ready[j].item) # NameOf(current)
    BY <2>2, <1>1, <1>3
  <2>6. \A i, j \in DOMAIN ready : NameOf(ready[i].item) = NameOf(ready[j].item) => i = j
    BY DEF RegistryInv, BatchSound, EntryRead
  <2>7. \A i, j \in DOMAIN ready' : NameOf(ready'[i].item) = NameOf(ready'[j].item) => i = j
    BY <2>5, <2>6, <1>5, <1>6
  <2>8. \A i \in DOMAIN ready : NameOf(ready[i].item) \notin DOMAIN index
    BY <1>1 DEF RegistryInv, BatchSound, EntryRead
  <2>9. \A i \in DOMAIN ready' : NameOf(ready'[i].item) \notin DOMAIN index
    BY <2>8, <1>1, <1>5, <1>6
  <2> QED BY <2>1, <2>4, <2>7, <2>9, <1>1, <1>4 DEF BatchSound, book
<1>9. IndexConsistent'
  BY <1>4 DEF RegistryInv, IndexConsistent, PluginNames, book
<1> QED BY <1>7, <1>8, <1>9 DEF RegistryInv

LEMMA ScanDoneKeeps == RegistryInv /\ ScanDone => RegistryInv'
<1> SUFFICES ASSUME RegistryInv, ScanDone PROVE RegistryInv'
  OBVIOUS
<1>1. TypeOK'
  BY DEF RegistryInv, TypeOK, ScanDone, host, book, load, Phase
<1>2. BatchSound'
  BY DEF RegistryInv, BatchSound, ScanDone, book, load
<1>3. IndexConsistent'
  BY DEF RegistryInv, IndexConsistent, PluginNames, ScanDone, book
<1> QED BY <1>1, <1>2, <1>3 DEF RegistryInv

-----------------------------------------------------------------------------
(* The backends *)

LEMMA BackendFailKeeps ==
    ASSUME RegistryInv, phase = "backend", NEW i \in DOMAIN ready, IsNext(i),
           BackendFail(i), UNCHANGED <<host, phase, current, todo, ready, seen, purge>>
    PROVE  RegistryInv'
<1>1. NameOf(ready[i].item) \in Name
  BY ReadyIsTyped, BuildsAreNamed DEF RegistryInv
<1>2. /\ handled' = handled \cup {i} /\ failed' = failed \cup {NameOf(ready[i].item)}
      /\ UNCHANGED <<book, loaded>>
  BY DEF BackendFail, Answer
<1>3. TypeOK'
  BY <1>1, <1>2 DEF RegistryInv, TypeOK, host, book
<1>4. BatchSound'
  BY <1>2 DEF RegistryInv, BatchSound, book
<1>5. IndexConsistent'
  BY <1>2 DEF RegistryInv, IndexConsistent, PluginNames, book
<1> QED BY <1>3, <1>4, <1>5 DEF RegistryInv

LEMMA BackendSilentKeeps ==
    ASSUME RegistryInv, phase = "backend", NEW i \in DOMAIN ready, IsNext(i),
           BackendSilent(i), UNCHANGED <<host, phase, current, todo, ready, seen, purge>>
    PROVE  RegistryInv'
<1>1. handled' = handled \cup {i} /\ UNCHANGED <<book, failed, failures, loaded>>
  BY DEF BackendSilent, Answer
<1>2. TypeOK'
  BY <1>1 DEF RegistryInv, TypeOK, host, book
<1>3. BatchSound'
  BY <1>1 DEF RegistryInv, BatchSound, book
<1>4. IndexConsistent'
  BY <1>1 DEF RegistryInv, IndexConsistent, PluginNames, book
<1> QED BY <1>2, <1>3, <1>4 DEF RegistryInv

LEMMA BackendStrayKeeps ==
    ASSUME RegistryInv, phase = "backend", NEW i \in DOMAIN ready, IsNext(i),
           BackendStray(i), UNCHANGED <<host, phase, current, todo, ready, seen, purge>>
    PROVE  RegistryInv'
<1>1. failed' \subseteq Name /\ UNCHANGED <<book, handled, loaded>>
  BY DEF BackendStray, RegistryInv, TypeOK
<1>2. TypeOK'
  BY <1>1 DEF RegistryInv, TypeOK, host, book
<1>3. BatchSound'
  BY <1>1 DEF RegistryInv, BatchSound, book
<1>4. IndexConsistent'
  BY <1>1 DEF RegistryInv, IndexConsistent, PluginNames, book
<1> QED BY <1>2, <1>3, <1>4 DEF RegistryInv

\* The items of a batch carry different names, so the name just registered is
\* not the name of one that still waits.
LEMMA BackendLoadKeeps ==
    ASSUME RegistryInv, phase = "backend", NEW i \in DOMAIN ready, IsNext(i),
           BackendLoad(i), UNCHANGED <<host, phase, current, todo, ready, seen, purge>>
    PROVE  RegistryInv'
<1> DEFINE item == ready[i].item
           q == PluginOf(item, ready[i].bytes)
<1>1. item \in ItemSet /\ ready[i].bytes \in Content
  BY ReadyIsTyped DEF RegistryInv
<1>2. q \in LoadedPlugin /\ NameOf(q) = NameOf(item)
  BY <1>1, PluginIsTyped
<1>3. i \notin handled
  BY DEF IsNext
<1>4. NameOf(item) \notin DOMAIN index
  BY <1>3 DEF RegistryInv, BatchSound
<1>5. NameOf(item) \in Name
  BY <1>1, BuildsAreNamed
<1>6. /\ handled' = handled \cup {i}
      /\ loaded' = Append(loaded, NameOf(item))
      /\ plugins' = Append(plugins, q)
      /\ index' = [n \in DOMAIN index \cup {NameOf(item)} |->
                     IF n = NameOf(item) THEN Len(plugins) + 1 ELSE index[n]]
      /\ surfaces' \subseteq surfaces \cup {NameOf(item)}
      /\ UNCHANGED <<revocations, failed, failures>>
  BY DEF BackendLoad, Answer
<1> HIDE DEF item, q
<1>7. index' = [n \in DOMAIN index \cup {NameOf(q)} |->
                  IF n = NameOf(q) THEN Len(plugins) + 1 ELSE index[n]]
  BY <1>2, <1>6
<1>8. /\ plugins' \in Seq(LoadedPlugin)
      /\ DOMAIN index' \subseteq Name
      /\ \A m \in DOMAIN index' : index'[m] \in DOMAIN plugins'
      /\ IndexConsistent'
  BY <1>2, <1>4, <1>6, <1>7, RegisterKeeps DEF RegistryInv
<1>9. loaded' \in Seq(Name)
  BY <1>5, <1>6, AppendProperties DEF RegistryInv, TypeOK
<1>10. TypeOK'
  BY <1>5, <1>6, <1>8, <1>9 DEF RegistryInv, TypeOK, host
<1>11. BatchSound'
  <2>1. DOMAIN index' = DOMAIN index \cup {NameOf(item)}
    BY <1>6
  <2>2. \A j \in DOMAIN ready \ handled' : NameOf(ready[j].item) \notin DOMAIN index'
    BY <2>1, <1>6 DEF RegistryInv, BatchSound, item
  <2> QED BY <2>2 DEF RegistryInv, BatchSound
<1> QED BY <1>8, <1>10, <1>11 DEF RegistryInv

LEMMA BackendKeeps == RegistryInv /\ Backend => RegistryInv'
<1> SUFFICES ASSUME RegistryInv, Backend PROVE RegistryInv'
  OBVIOUS
<1>1. PICK i \in DOMAIN ready :
        IsNext(i) /\ (BackendFail(i) \/ BackendLoad(i) \/ BackendSilent(i) \/ BackendStray(i))
  BY DEF Backend
<1>2. phase = "backend" /\ UNCHANGED <<host, phase, current, todo, ready, seen, purge>>
  BY DEF Backend
<1> QED BY <1>1, <1>2, BackendFailKeeps, BackendLoadKeeps, BackendSilentKeeps, BackendStrayKeeps

LEMMA SweepKeeps == RegistryInv /\ Sweep => RegistryInv'
<1> SUFFICES ASSUME RegistryInv, Sweep PROVE RegistryInv'
  OBVIOUS
<1>1. \A i \in DOMAIN ready : NameOf(ready[i].item) \in Name
  BY ReadyIsTyped, BuildsAreNamed DEF RegistryInv
<1>2. failed' \subseteq Name
  BY <1>1 DEF RegistryInv, TypeOK, Sweep, Mute
<1>3. /\ phase' = "idle"
      /\ UNCHANGED <<host, book, current, todo, ready, handled, loaded, seen, purge>>
  BY DEF Sweep, SweepEnds
<1>4. TypeOK'
  BY <1>2, <1>3 DEF RegistryInv, TypeOK, host, book, Phase
<1>5. BatchSound'
  BY <1>3 DEF BatchSound
<1>6. IndexConsistent'
  BY <1>3 DEF RegistryInv, IndexConsistent, PluginNames, book
<1> QED BY <1>4, <1>5, <1>6 DEF RegistryInv

-----------------------------------------------------------------------------
(* The calls on loaded plugins *)

\* A plugin replaced by one of the same name is found where it was.
LEMMA ReplaceKeeps ==
    ASSUME TypeOK, IndexConsistent, NEW n \in DOMAIN index, NEW q \in LoadedPlugin,
           NameOf(q) = n, plugins' = [plugins EXCEPT ![index[n]] = q], index' = index
    PROVE  /\ plugins' \in Seq(LoadedPlugin)
           /\ DOMAIN plugins' = DOMAIN plugins
           /\ IndexConsistent'
<1>1. plugins \in Seq(LoadedPlugin) /\ index[n] \in DOMAIN plugins
      /\ NameOf(plugins[index[n]]) = n
  BY DEF TypeOK, IndexConsistent
<1>2. plugins' \in Seq(LoadedPlugin) /\ DOMAIN plugins' = DOMAIN plugins
  BY <1>1
<1>3. \A i \in DOMAIN plugins : NameOf(plugins'[i]) = NameOf(plugins[i])
  BY <1>1
<1>4. {NameOf(plugins'[i]) : i \in DOMAIN plugins'} = {NameOf(plugins[i]) : i \in DOMAIN plugins}
  BY <1>2, <1>3
<1>5. IndexConsistent'
  BY <1>2, <1>3, <1>4 DEF IndexConsistent, PluginNames
<1> QED BY <1>2, <1>5

\* A call that begins forgets the batch of the one before.
LEMMA FreshLocalsAreTyped ==
    FreshLocals => /\ todo' \in Seq(Manifest)
                   /\ ready' \in Seq([item : ItemSet, bytes : Content])
                   /\ handled' \subseteq DOMAIN ready' /\ failed' \subseteq Name
                   /\ loaded' \in Seq(Name) /\ seen' \subseteq Manifest
BY EmptySeq DEF FreshLocals

LEMMA ReloadKeeps == ASSUME NEW n \in Name PROVE RegistryInv /\ Reload(n) => RegistryInv'
<1> SUFFICES ASSUME RegistryInv, Reload(n) PROVE RegistryInv'
  OBVIOUS
<1> DEFINE d == plugins[index[n]].dir
<1>1. n \in DOMAIN index /\ plugins[index[n]] \in LoadedPlugin
  BY DEF Reload, RegistryInv, TypeOK
<1>2. d \in Dir /\ disk[d] \in Build
  BY <1>1 DEF Reload, RegistryInv, TypeOK, LoadedPlugin
<1>3. /\ current' = ManifestOf(d) /\ NameOf(ManifestOf(d)) = n /\ phase' = "reverify"
      /\ FreshLocals /\ UNCHANGED <<host, book, purge>>
  BY DEF Reload
<1>4. current' \in Manifest /\ NameOf(current') = n
  BY <1>2, <1>3 DEF ManifestOf, Manifest
<1> HIDE DEF d
<1>5. TypeOK'
  BY <1>3, <1>4, FreshLocalsAreTyped DEF RegistryInv, TypeOK, host, book, Phase
<1>6. BatchSound'
  BY <1>1, <1>3, <1>4 DEF BatchSound, FreshLocals, book, NameOf
<1>7. IndexConsistent'
  BY <1>3 DEF RegistryInv, IndexConsistent, PluginNames, book
<1> QED BY <1>5, <1>6, <1>7 DEF RegistryInv

LEMMA ReloadVerifyKeeps == RegistryInv /\ ReloadVerify => RegistryInv'
<1> SUFFICES ASSUME RegistryInv, ReloadVerify PROVE RegistryInv'
  OBVIOUS
<1>1. current \in Manifest /\ NameOf(current) \in DOMAIN index
  BY DEF RegistryInv, BatchSound, ReloadVerify
<1>2. UNCHANGED <<host, book, load, purge>>
  BY DEF ReloadVerify
<1>3. \/ phase' = "idle" /\ current' = NoManifest
      \/ /\ phase' = "reread" /\ current' \in ItemSet
         /\ NameOf(current') = NameOf(current)
  BY <1>1, ItemIsTyped DEF RegistryInv, ReloadVerify
<1>4. TypeOK'
  BY <1>2, <1>3 DEF RegistryInv, TypeOK, host, book, load, Phase
<1>5. BatchSound'
  BY <1>1, <1>2, <1>3 DEF BatchSound, book, NameOf
<1>6. IndexConsistent'
  BY <1>2 DEF RegistryInv, IndexConsistent, PluginNames, book
<1> QED BY <1>4, <1>5, <1>6 DEF RegistryInv

LEMMA ReloadSwapKeeps == RegistryInv /\ ReloadSwap => RegistryInv'
<1> SUFFICES ASSUME RegistryInv, ReloadSwap PROVE RegistryInv'
  OBVIOUS
<1> DEFINE q == PluginOf(current, EntryAt(current))
           n == NameOf(current)
<1>1. current \in ItemSet /\ n \in DOMAIN index
  BY DEF RegistryInv, BatchSound, ReloadSwap
<1>2. EntryAt(current) \in Content
  BY <1>1, EntryIsContent DEF RegistryInv, ReloadSwap
<1>3. q \in LoadedPlugin /\ NameOf(q) = n
  BY <1>1, <1>2, PluginIsTyped
<1>4. /\ plugins' = [plugins EXCEPT ![index[n]] = q]
      /\ surfaces' \subseteq surfaces \cup {n}
      /\ phase' = "idle" /\ current' = NoManifest
      /\ UNCHANGED <<host, index, revocations, load, purge>>
  BY DEF ReloadSwap
<1>5. n \in Name
  BY <1>1, BuildsAreNamed
<1> HIDE DEF q, n
<1>6. /\ plugins' \in Seq(LoadedPlugin) /\ DOMAIN plugins' = DOMAIN plugins
      /\ IndexConsistent'
  BY <1>1, <1>3, <1>4, ReplaceKeeps DEF RegistryInv
<1>7. TypeOK'
  BY <1>4, <1>5, <1>6 DEF RegistryInv, TypeOK, host, load, Phase
<1>8. BatchSound'
  BY <1>4 DEF BatchSound
<1> QED BY <1>6, <1>7, <1>8 DEF RegistryInv

LEMMA ReloadFailKeeps == RegistryInv /\ ReloadFail => RegistryInv'
<1> SUFFICES ASSUME RegistryInv, ReloadFail PROVE RegistryInv'
  OBVIOUS
<1>1. phase' = "idle" /\ current' = NoManifest /\ UNCHANGED <<host, book, load, purge>>
  BY DEF ReloadFail
<1>2. TypeOK'
  BY <1>1 DEF RegistryInv, TypeOK, host, book, load, Phase
<1>3. BatchSound'
  BY <1>1 DEF BatchSound
<1>4. IndexConsistent'
  BY <1>1 DEF RegistryInv, IndexConsistent, PluginNames, book
<1> QED BY <1>2, <1>3, <1>4 DEF RegistryInv

LEMMA RemoveKeeps == ASSUME NEW n \in Name PROVE RegistryInv /\ Remove(n) => RegistryInv'
<1> SUFFICES ASSUME RegistryInv, Remove(n) PROVE RegistryInv'
  OBVIOUS
<1>1. /\ n \in DOMAIN index /\ Unload(n) /\ FreshLocals /\ phase = "idle"
      /\ UNCHANGED <<host, revocations, phase, current, purge>>
  BY DEF Remove
<1>2. /\ plugins' \in Seq(LoadedPlugin)
      /\ DOMAIN index' = DOMAIN index \ {n}
      /\ \A m \in DOMAIN index' : index'[m] \in DOMAIN plugins'
      /\ IndexConsistent'
      /\ surfaces' \subseteq Name
  BY <1>1, UnloadKeeps DEF RegistryInv
<1>3. TypeOK'
  BY <1>1, <1>2, FreshLocalsAreTyped DEF RegistryInv, TypeOK, host
<1>4. BatchSound'
  BY <1>1 DEF BatchSound
<1> QED BY <1>2, <1>3, <1>4 DEF RegistryInv

LEMMA ApplyRevocationsKeeps ==
    ASSUME NEW list \in Lists PROVE RegistryInv /\ ApplyRevocations(list) => RegistryInv'
<1> SUFFICES ASSUME RegistryInv, ApplyRevocations(list) PROVE RegistryInv'
  OBVIOUS
<1>1. purge' \subseteq PluginNames
  BY DEF ApplyRevocations, PluginNames
<1>2. purge' \subseteq DOMAIN index
  BY <1>1 DEF RegistryInv, IndexConsistent
<1>3. /\ revocations' = list /\ phase' = "purge" /\ FreshLocals
      /\ UNCHANGED <<host, plugins, index, surfaces, current>>
  BY DEF ApplyRevocations
<1>4. TypeOK'
  BY <1>2, <1>3, FreshLocalsAreTyped, ListAssumption
  DEF RegistryInv, TypeOK, host, Phase
<1>5. BatchSound'
  BY <1>2, <1>3 DEF BatchSound
<1>6. IndexConsistent'
  BY <1>3 DEF RegistryInv, IndexConsistent, PluginNames
<1> QED BY <1>4, <1>5, <1>6 DEF RegistryInv

LEMMA PurgeKeeps == RegistryInv /\ Purge => RegistryInv'
<1> SUFFICES ASSUME RegistryInv, Purge PROVE RegistryInv'
  OBVIOUS
<1>1. phase = "purge" /\ UNCHANGED <<host, revocations, load, current>>
  BY DEF Purge
<1>2. ASSUME NEW n \in purge, Unload(n), purge' = purge \ {n}, UNCHANGED phase
      PROVE  RegistryInv'
  <2>1. n \in DOMAIN index
    BY <1>1 DEF RegistryInv, BatchSound
  <2>2. /\ plugins' \in Seq(LoadedPlugin)
        /\ DOMAIN index' = DOMAIN index \ {n}
        /\ \A m \in DOMAIN index' : index'[m] \in DOMAIN plugins'
        /\ IndexConsistent'
        /\ surfaces' \subseteq Name
    BY <1>2, <2>1, UnloadKeeps DEF RegistryInv
  <2>3. TypeOK'
    BY <1>1, <1>2, <2>2 DEF RegistryInv, TypeOK, host, load
  <2>4. BatchSound'
    BY <1>1, <1>2, <2>2 DEF RegistryInv, BatchSound
  <2> QED BY <2>2, <2>3, <2>4 DEF RegistryInv
<1>3. ASSUME phase' = "idle", UNCHANGED <<plugins, index, surfaces, purge>>
      PROVE  RegistryInv'
  <2>1. TypeOK'
    BY <1>1, <1>3 DEF RegistryInv, TypeOK, host, load, Phase
  <2>2. BatchSound'
    BY <1>3 DEF BatchSound
  <2>3. IndexConsistent'
    BY <1>3 DEF RegistryInv, IndexConsistent, PluginNames
  <2> QED BY <2>1, <2>2, <2>3 DEF RegistryInv
<1> QED BY <1>2, <1>3 DEF Purge

LEMMA RevokeKeeps ==
    ASSUME NEW n \in Name, NEW c \in Capability
    PROVE  RegistryInv /\ Revoke(n, c) => RegistryInv'
<1> SUFFICES ASSUME RegistryInv, Revoke(n, c) PROVE RegistryInv'
  OBVIOUS
<1> DEFINE old == plugins[index[n]]
           q == [old EXCEPT !.granted = @ \ {c}]
<1>1. /\ n \in DOMAIN index /\ phase = "idle" /\ FreshLocals
      /\ plugins' = [plugins EXCEPT ![index[n]].granted = @ \ {c}]
      /\ UNCHANGED <<host, index, revocations, surfaces, phase, current, purge>>
  BY DEF Revoke
<1>2. old \in LoadedPlugin /\ NameOf(old) = n
  BY <1>1 DEF RegistryInv, TypeOK, IndexConsistent
<1>3. q \in LoadedPlugin /\ q.build = old.build
  BY <1>2 DEF LoadedPlugin
<1>4. plugins' = [plugins EXCEPT ![index[n]] = q]
  BY <1>1
<1>5. NameOf(q) = n
  BY <1>2, <1>3 DEF NameOf
<1> HIDE DEF q
<1>6. /\ plugins' \in Seq(LoadedPlugin) /\ DOMAIN plugins' = DOMAIN plugins
      /\ IndexConsistent'
  BY <1>1, <1>3, <1>4, <1>5, ReplaceKeeps DEF RegistryInv
<1>7. TypeOK'
  BY <1>1, <1>6, FreshLocalsAreTyped DEF RegistryInv, TypeOK, host
<1>8. BatchSound'
  BY <1>1 DEF BatchSound
<1> QED BY <1>6, <1>7, <1>8 DEF RegistryInv

LEMMA EditDiskKeeps ==
    ASSUME NEW e \in Edits PROVE RegistryInv /\ EditDisk(e[1], e[2]) => RegistryInv'
<1> SUFFICES ASSUME RegistryInv, EditDisk(e[1], e[2]) PROVE RegistryInv'
  OBVIOUS
<1>1. e[1] \in Dir /\ e[2] \in Build \cup {NoDir}
  BY DiskAssumption
<1>2. /\ disk' = [disk EXCEPT ![e[1]] = e[2]] /\ edits' = edits + 1 /\ edits < MaxEdits
      /\ UNCHANGED <<config, book, phase, load, current, purge>>
  BY DEF EditDisk
<1>3. edits' \in 0 .. MaxEdits
  BY <1>2, BoundAssumption DEF RegistryInv, TypeOK
<1>4. disk' \in [Dir -> Build \cup {NoDir}]
  BY <1>1, <1>2 DEF RegistryInv, TypeOK
<1>5. TypeOK'
  BY <1>2, <1>3, <1>4 DEF RegistryInv, TypeOK, book, load
<1>6. BatchSound'
  BY <1>2 DEF RegistryInv, BatchSound, book, load
<1>7. IndexConsistent'
  BY <1>2 DEF RegistryInv, IndexConsistent, PluginNames, book
<1> QED BY <1>5, <1>6, <1>7 DEF RegistryInv

-----------------------------------------------------------------------------
(* The theorems *)

LEMMA RegistryInvInit == Init => RegistryInv
<1> SUFFICES ASSUME Init PROVE RegistryInv
  OBVIOUS
<1>1. TypeOK
  BY EmptySeq, ConfigAssumption, DiskAssumption, BoundAssumption DEF Init, TypeOK, Phase
<1>2. BatchSound
  BY DEF Init, BatchSound
<1>3. IndexConsistent
  <2>1. plugins = <<>> /\ DOMAIN plugins = {} /\ DOMAIN index = {}
    BY DEF Init
  <2> QED BY <2>1 DEF IndexConsistent, PluginNames
<1> QED BY <1>1, <1>2, <1>3 DEF RegistryInv

LEMMA RegistryInvInductive == RegistryInv /\ [Next]_vars => RegistryInv'
<1> SUFFICES ASSUME RegistryInv, [Next]_vars PROVE RegistryInv'
  OBVIOUS
<1>1. CASE Step
  BY <1>1, ScanRefuseKeeps, ScanVerifyKeeps, EntryRefuseKeeps, EntryReadKeeps,
     ScanDoneKeeps, BackendKeeps, SweepKeeps, ReloadVerifyKeeps, ReloadSwapKeeps,
     ReloadFailKeeps, PurgeKeeps DEF Step
<1>2. CASE Call
  BY <1>2, LoadDirKeeps, ReloadKeeps, RemoveKeeps, ApplyRevocationsKeeps, RevokeKeeps
  DEF Call
<1>3. CASE \E e \in Edits : EditDisk(e[1], e[2])
  BY <1>3, EditDiskKeeps
<1>4. CASE UNCHANGED vars
  <2>1. UNCHANGED <<host, book, phase, load, current, purge>>
    BY <1>4 DEF vars
  <2>2. TypeOK'
    BY <2>1 DEF RegistryInv, TypeOK, host, book, load
  <2>3. BatchSound'
    BY <2>1 DEF RegistryInv, BatchSound, book, load
  <2>4. IndexConsistent'
    BY <2>1 DEF RegistryInv, IndexConsistent, PluginNames, book
  <2> QED BY <2>2, <2>3, <2>4 DEF RegistryInv
<1> QED BY <1>1, <1>2, <1>3, <1>4 DEF Next

LEMMA RegistryInvAlways == Spec => []RegistryInv
BY RegistryInvInit, RegistryInvInductive, PTL DEF Spec

(* Every variable of the registry keeps its type, whatever the host calls and
   whoever rewrites the plugin directories between two steps of a call. *)
THEOREM RegistryTypes == Spec => []TypeOK
BY RegistryInvAlways, PTL DEF RegistryInv

(* `index` and `plugins` never part: through load_dir, reload, remove,
   apply_revocations and revoke, in every step of each, a name resolves to the
   plugin that carries it and no plugin is out of reach. *)
THEOREM IndexFollowsPlugins == Spec => []IndexConsistent
BY RegistryInvAlways, PTL DEF RegistryInv

(* A batch never registers a name twice: the plugins a load_dir still has to
   verify or build are different ones and not registered, a reload replaces a
   registered one, and a purge removes only what is there. *)
THEOREM BatchesAreSound == Spec => []BatchSound
BY RegistryInvAlways, PTL DEF RegistryInv
-----------------------------------------------------------------------------
(* What runs, and how it was let in.  The records of plugins and of items on *)
(* their way to a backend share their fields.                                *)

\* What with_lockfile and require_signatures ask of a plugin.
Admitted(p) ==
    /\ config.required => p.signer \in Identity
    /\ config.lockfile # NoLock =>
         /\ NameOf(p) \in DOMAIN config.lockfile
         /\ p.digest = config.lockfile[NameOf(p)].digest
         /\ config.lockfile[NameOf(p)].signer \in {AnyPin, p.signer}
         /\ config.lockfile[NameOf(p)].issuer \in {AnyPin, IssuerOf[p.signer]}

Denied(p) == Denies(revocations, p.digest, p.signer)

Cleared(item) == Admitted(item) /\ ~Denied(item)

PluginsAdmitted ==
    \A i \in DOMAIN plugins :
      /\ Admitted(plugins[i])
      /\ Bound(plugins[i], plugins[i].digest, plugins[i].ran)

\* Whom the list in force denies is out, or about to be purged.
DeniedArePurged ==
    \A i \in DOMAIN plugins :
      Denied(plugins[i]) => phase = "purge" /\ NameOf(plugins[i]) \in purge

\* What a backend is given was cleared, and its entry is bound to its digest.
ReadyCleared ==
    phase \in {"scan", "entry", "backend"} =>
      \A i \in DOMAIN ready :
        /\ Cleared(ready[i].item)
        /\ Bound(ready[i].item, ready[i].item.digest, ready[i].bytes)

CurrentCleared == phase \in {"entry", "reread"} => Cleared(current)

NoneLoadedYet == phase \in {"scan", "entry"} => loaded = <<>>

AdmissionInv ==
    /\ PluginsAdmitted
    /\ DeniedArePurged
    /\ ReadyCleared
    /\ CurrentCleared
    /\ NoneLoadedYet

LEMMA AdmissionStarts == Init => AdmissionInv
<1> SUFFICES ASSUME Init PROVE AdmissionInv
  OBVIOUS
<1>1. DOMAIN plugins = {} /\ DOMAIN ready = {} /\ phase = "idle"
  BY DEF Init
<1> QED BY <1>1 DEF AdmissionInv, PluginsAdmitted, DeniedArePurged, ReadyCleared,
          CurrentCleared, NoneLoadedYet

\* verify_plugin: what it lets through is pinned, signed as required and not denied.
LEMMA VerifiedIsCleared ==
    ASSUME TypeOK, NEW m, m \in Manifest \/ m \in ItemSet, ~VerifyRefuses(m)
    PROVE  Cleared(Item(m, DigestAt(m.dir), SignerAt(m.dir)))
<1> DEFINE digest == DigestAt(m.dir)
           signer == SignerAt(m.dir)
           item == Item(m, digest, signer)
<1>1. /\ item.digest = digest /\ item.signer = signer /\ NameOf(item) = NameOf(m)
  BY DEF Item, NameOf
<1>2. /\ ~(WantsDigest /\ disk[m.dir] = NoDir)
      /\ ~SignatureRefused(m.dir) /\ ~Denies(revocations, digest, signer)
      /\ ~LockRefuses(m, digest, signer)
  BY DEF VerifyRefuses
<1>3. config.required => signer \in Identity
  <2>1. SUFFICES ASSUME config.required PROVE signer \in Identity
    OBVIOUS
  <2>2. config.verifier /\ Info[disk[m.dir]].sig \notin {"missing", "bad"}
    BY <1>2, <2>1, Zenon DEF SignatureRefused
  <2>3. disk[m.dir] \in Build
    BY <1>2, <2>2 DEF WantsDigest, TypeOK, Manifest, ItemSet
  <2>4. Info[disk[m.dir]].sig \in Identity
    BY <2>2, <2>3, BuildAssumption
  <2> QED BY <2>2, <2>4 DEF SignerAt
<1> HIDE DEF digest, signer, item
<1>4. config.lockfile # NoLock =>
        /\ NameOf(m) \in DOMAIN config.lockfile
        /\ digest = config.lockfile[NameOf(m)].digest
        /\ config.lockfile[NameOf(m)].signer \in {AnyPin, signer}
        /\ config.lockfile[NameOf(m)].issuer \in {AnyPin, IssuerOf[signer]}
  BY <1>2 DEF LockRefuses
<1>5. Admitted(item)
  BY <1>1, <1>3, <1>4, Zenon DEF Admitted
<1>6. ~Denied(item)
  BY <1>1, <1>2 DEF Denied
<1> QED BY <1>5, <1>6 DEF Cleared, item, digest, signer

\* While the list and the plugins stay, and no purge is under way, a call goes on.
LEMMA CallGoesOn ==
    ASSUME AdmissionInv, UNCHANGED <<config, revocations, plugins>>, phase # "purge",
           \/ /\ UNCHANGED <<ready, loaded>>
              /\ phase' \in {"scan", "entry", "backend"} => phase \in {"scan", "entry", "backend"}
           \/ ready' = <<>>,
           CurrentCleared', NoneLoadedYet'
    PROVE  AdmissionInv'
<1>1. PluginsAdmitted'
  BY DEF AdmissionInv, PluginsAdmitted, Admitted, Bound, NameOf
<1>2. DeniedArePurged'
  BY DEF AdmissionInv, DeniedArePurged, Denied, Denies
<1>3. ReadyCleared'
  <2>1. CASE ready' = <<>>
    <3>1. DOMAIN ready' = {}
      BY <2>1
    <3> QED BY <3>1 DEF ReadyCleared
  <2>2. CASE /\ UNCHANGED <<ready, loaded>>
             /\ phase' \in {"scan", "entry", "backend"} => phase \in {"scan", "entry", "backend"}
    BY <2>2 DEF AdmissionInv, ReadyCleared, Cleared, Admitted, Denied, Denies, Bound, NameOf
  <2> QED BY <2>1, <2>2
<1> QED BY <1>1, <1>2, <1>3 DEF AdmissionInv

LEMMA AdmissionStutters ==
    ASSUME AdmissionInv, UNCHANGED <<config, book, phase, load, current, purge>>
    PROVE  AdmissionInv'
<1> USE DEF book, load, Admitted, Denied, Denies, Cleared, Bound, NameOf
<1>1. PluginsAdmitted' /\ DeniedArePurged'
  BY DEF AdmissionInv, PluginsAdmitted, DeniedArePurged
<1>2. ReadyCleared' /\ CurrentCleared' /\ NoneLoadedYet'
  BY DEF AdmissionInv, ReadyCleared, CurrentCleared, NoneLoadedYet
<1> QED BY <1>1, <1>2 DEF AdmissionInv

\* The steps that verify a batch: what is put with the ready was cleared when its digest
\* was taken, and is bound to that digest when its entry is read.
LEMMA ScanAdmits ==
    ASSUME RegistryInv, AdmissionInv,
           ScanRefuse \/ ScanVerify \/ EntryRefuse \/ ScanDone
    PROVE  AdmissionInv'
<1>1. ASSUME phase \in {"scan", "entry"}, UNCHANGED <<host, book, ready, loaded>>,
             phase' \in {"scan", "backend"} \/ (phase' = "entry" /\ Cleared(current)')
      PROVE  AdmissionInv'
  <2>1. CurrentCleared' /\ NoneLoadedYet'
    BY <1>1 DEF AdmissionInv, CurrentCleared, NoneLoadedYet
  <2> QED BY <1>1, <2>1, CallGoesOn DEF host, book
<1>2. CASE ScanRefuse
  BY <1>1, <1>2 DEF ScanRefuse, Refuse
<1>3. CASE EntryRefuse
  BY <1>1, <1>3 DEF EntryRefuse, Refuse
<1>4. CASE ScanDone
  BY <1>1, <1>4 DEF ScanDone, load
<1>5. CASE ScanVerify
  <2> DEFINE m == Head(todo)
             item == Item(m, DigestAt(m.dir), SignerAt(m.dir))
  <2>1. m \in Manifest /\ ~VerifyRefuses(m) /\ current' = item
    BY <1>5 DEF ScanVerify, RegistryInv, TypeOK
  <2>2. Cleared(item)
    BY <2>1, VerifiedIsCleared DEF RegistryInv
  <2>3. UNCHANGED <<host, book, load>> /\ phase = "scan" /\ phase' = "entry"
    BY <1>5 DEF ScanVerify
  <2> HIDE DEF item
  <2>4. Cleared(current)'
    BY <2>1, <2>2, <2>3 DEF Cleared, Admitted, Denied, Denies, NameOf, host, book
  <2> QED BY <1>1, <2>3, <2>4 DEF load
<1> QED BY <1>2, <1>3, <1>4, <1>5

LEMMA EntryReadAdmits ==
    ASSUME RegistryInv, AdmissionInv, EntryRead
    PROVE  AdmissionInv'
<1> DEFINE new == [item |-> current, bytes |-> EntryAt(current)]
<1>1. /\ phase = "entry" /\ phase' = "scan" /\ ready' = Append(ready, new)
      /\ Bound(current, current.digest, EntryAt(current))
      /\ loaded = <<>> /\ Cleared(current)
      /\ UNCHANGED <<config, revocations, plugins, loaded>>
  BY DEF EntryRead, AdmissionInv, NoneLoadedYet, CurrentCleared, host, book
<1>2. new.item = current /\ new.bytes = EntryAt(current)
  OBVIOUS
<1>3. ready \in Seq([item : ItemSet, bytes : Content])
  BY DEF RegistryInv, TypeOK
<1>4. \A i \in DOMAIN ready' : ready'[i] = new \/ (i \in DOMAIN ready /\ ready'[i] = ready[i])
  BY <1>1, <1>3
<1> HIDE DEF new
<1>5. \A i \in DOMAIN ready' :
        /\ Cleared(ready'[i].item)
        /\ Bound(ready'[i].item, ready'[i].item.digest, ready'[i].bytes)
  BY <1>1, <1>2, <1>4 DEF AdmissionInv, ReadyCleared
<1>6. ReadyCleared'
  BY <1>1, <1>5 DEF ReadyCleared, Cleared, Admitted, Denied, Denies, Bound, NameOf
<1>7. PluginsAdmitted' /\ DeniedArePurged'
  BY <1>1 DEF AdmissionInv, PluginsAdmitted, DeniedArePurged, Admitted, Denied, Denies,
              Bound, NameOf
<1>8. CurrentCleared' /\ NoneLoadedYet'
  BY <1>1 DEF CurrentCleared, NoneLoadedYet
<1> QED BY <1>6, <1>7, <1>8 DEF AdmissionInv

\* A plugin is admitted as its item was, and none is denied.
LEMMA PluginAdmitted ==
    ASSUME NEW item \in ItemSet, NEW bytes \in Content,
           Cleared(item), Bound(item, item.digest, bytes)
    PROVE  LET q == PluginOf(item, bytes)
           IN  Admitted(q) /\ ~Denied(q) /\ Bound(q, q.digest, q.ran)
<1> DEFINE q == PluginOf(item, bytes)
<1>1. /\ q.build = item.build /\ q.digest = item.digest /\ q.signer = item.signer
      /\ q.ran = bytes
  BY DEF PluginOf
<1> HIDE DEF q
<1>2. Admitted(q) /\ ~Denied(q) /\ Bound(q, q.digest, q.ran)
  BY <1>1 DEF Cleared, Admitted, Denied, Bound, NameOf
<1> QED BY <1>2 DEF q

\* What a backend loads was cleared.
LEMMA BackendLoadAdmits ==
    ASSUME RegistryInv, AdmissionInv, phase = "backend",
           NEW i \in DOMAIN ready, IsNext(i), BackendLoad(i),
           UNCHANGED <<host, phase, current, todo, ready, seen, purge>>
    PROVE  AdmissionInv'
<1> DEFINE item == ready[i].item
           q == PluginOf(item, ready[i].bytes)
<1>1. item \in ItemSet /\ ready[i].bytes \in Content
  BY ReadyIsTyped DEF RegistryInv
<1>2. Cleared(item) /\ Bound(item, item.digest, ready[i].bytes)
  BY DEF AdmissionInv, ReadyCleared
<1>3. Admitted(q) /\ ~Denied(q) /\ Bound(q, q.digest, q.ran)
  BY <1>1, <1>2, PluginAdmitted
<1>4. plugins' = Append(plugins, q) /\ UNCHANGED <<config, revocations, ready, phase>>
  BY DEF BackendLoad, host
<1>5. plugins \in Seq(LoadedPlugin)
  BY DEF RegistryInv, TypeOK
<1>6. \A k \in DOMAIN plugins' :
        plugins'[k] = q \/ (k \in DOMAIN plugins /\ plugins'[k] = plugins[k])
  BY <1>4, <1>5
<1>7. PluginsAdmitted' /\ DeniedArePurged'
  <2> HIDE DEF q
  <2>1. \A k \in DOMAIN plugins' :
          /\ Admitted(plugins'[k]) /\ ~Denied(plugins'[k])
          /\ Bound(plugins'[k], plugins'[k].digest, plugins'[k].ran)
    BY <1>3, <1>6 DEF AdmissionInv, PluginsAdmitted, DeniedArePurged
  <2> QED BY <1>4, <2>1 DEF PluginsAdmitted, DeniedArePurged, Admitted, Denied, Denies,
                            Bound, NameOf
<1>8. ReadyCleared' /\ CurrentCleared' /\ NoneLoadedYet'
  BY <1>4 DEF AdmissionInv, ReadyCleared, CurrentCleared, NoneLoadedYet, Cleared, Admitted,
              Denied, Denies, Bound, NameOf
<1> QED BY <1>7, <1>8 DEF AdmissionInv

LEMMA BackendAdmits ==
    ASSUME RegistryInv, AdmissionInv, Backend \/ Sweep
    PROVE  AdmissionInv'
<1>1. ASSUME phase = "backend", phase' \in {"backend", "idle"},
             UNCHANGED <<host, book, ready, loaded>>
      PROVE  AdmissionInv'
  <2>1. CurrentCleared' /\ NoneLoadedYet'
    BY <1>1 DEF CurrentCleared, NoneLoadedYet
  <2> QED BY <1>1, <2>1, CallGoesOn DEF host, book
<1>2. CASE Sweep
  BY <1>1, <1>2 DEF Sweep, SweepEnds
<1>3. CASE Backend
  <2>1. PICK i \in DOMAIN ready :
          IsNext(i) /\ (BackendFail(i) \/ BackendLoad(i) \/ BackendSilent(i) \/ BackendStray(i))
    BY <1>3 DEF Backend
  <2>2. phase = "backend" /\ UNCHANGED <<host, phase, current, todo, ready, seen, purge>>
    BY <1>3 DEF Backend
  <2>3. CASE BackendLoad(i)
    BY <2>1, <2>2, <2>3, BackendLoadAdmits
  <2>4. CASE BackendFail(i) \/ BackendSilent(i) \/ BackendStray(i)
    BY <1>1, <2>2, <2>4 DEF BackendFail, BackendSilent, BackendStray
  <2> QED BY <2>1, <2>3, <2>4
<1> QED BY <1>2, <1>3

\* load_dir begins with nothing ready; a reload verifies before it reads, and a failing one
\* changes nothing.
LEMMA CallAdmits ==
    ASSUME RegistryInv, AdmissionInv,
           \/ LoadDir \/ (\E n \in Name : Reload(n)) \/ ReloadVerify \/ ReloadFail
    PROVE  AdmissionInv'
<1>1. CASE LoadDir
  <2>1. /\ UNCHANGED <<host, book>> /\ phase = "idle" /\ phase' = "scan"
        /\ ready' = <<>> /\ loaded' = <<>>
    BY <1>1 DEF LoadDir
  <2>2. CurrentCleared' /\ NoneLoadedYet'
    BY <2>1 DEF CurrentCleared, NoneLoadedYet
  <2> QED BY <2>1, <2>2, CallGoesOn DEF host, book
<1>2. ASSUME NEW n \in Name, Reload(n) PROVE AdmissionInv'
  <2>1. /\ UNCHANGED <<host, book>> /\ phase = "idle" /\ phase' = "reverify"
        /\ ready' = <<>>
    BY <1>2 DEF Reload, FreshLocals
  <2>2. CurrentCleared' /\ NoneLoadedYet'
    BY <2>1 DEF CurrentCleared, NoneLoadedYet
  <2> QED BY <2>1, <2>2, CallGoesOn DEF host, book
<1>3. CASE ReloadVerify
  <2> DEFINE item == Item(current, DigestAt(current.dir), SignerAt(current.dir))
  <2>1. current \in Manifest
    BY <1>3 DEF ReloadVerify, RegistryInv, BatchSound
  <2>2. ~VerifyRefuses(current) => Cleared(item)
    BY <2>1, VerifiedIsCleared DEF RegistryInv
  <2>3. /\ UNCHANGED <<host, book, load, purge>> /\ phase = "reverify"
        /\ \/ phase' = "idle"
           \/ ~VerifyRefuses(current) /\ phase' = "reread" /\ current' = item
    BY <1>3 DEF ReloadVerify
  <2> HIDE DEF item
  <2>4. CurrentCleared' /\ NoneLoadedYet'
    BY <2>2, <2>3 DEF CurrentCleared, NoneLoadedYet, Cleared, Admitted, Denied, Denies,
                      NameOf, host, book
  <2> QED BY <2>3, <2>4, CallGoesOn DEF host, book, load
<1>4. CASE ReloadFail
  <2>1. UNCHANGED <<host, book, load, purge>> /\ phase = "reread" /\ phase' = "idle"
    BY <1>4 DEF ReloadFail
  <2>2. CurrentCleared' /\ NoneLoadedYet'
    BY <2>1 DEF CurrentCleared, NoneLoadedYet
  <2> QED BY <2>1, <2>2, CallGoesOn DEF host, book, load
<1> QED BY <1>1, <1>2, <1>3, <1>4

\* Between calls a plugin may be replaced by another that is admitted.
LEMMA ReplaceAdmits ==
    ASSUME RegistryInv, AdmissionInv, NEW n \in DOMAIN index, NEW q,
           Admitted(q), ~Denied(q), Bound(q, q.digest, q.ran),
           plugins' = [plugins EXCEPT ![index[n]] = q],
           phase # "purge", phase' = "idle", UNCHANGED <<config, revocations>>,
           UNCHANGED <<ready, loaded>> \/ ready' = <<>>
    PROVE  AdmissionInv'
<1>1. plugins \in Seq(LoadedPlugin) /\ index[n] \in DOMAIN plugins
  BY DEF RegistryInv, TypeOK
<1>2. \A i \in DOMAIN plugins' :
        plugins'[i] = q \/ (i \in DOMAIN plugins /\ plugins'[i] = plugins[i])
  BY <1>1
<1>3. \A i \in DOMAIN plugins' :
        /\ Admitted(plugins'[i]) /\ ~Denied(plugins'[i])
        /\ Bound(plugins'[i], plugins'[i].digest, plugins'[i].ran)
  BY <1>2 DEF AdmissionInv, PluginsAdmitted, DeniedArePurged
<1>4. PluginsAdmitted' /\ DeniedArePurged'
  BY <1>3 DEF PluginsAdmitted, DeniedArePurged, Admitted, Denied, Denies, Bound, NameOf
<1>5. ReadyCleared' /\ CurrentCleared' /\ NoneLoadedYet'
  BY DEF ReadyCleared, CurrentCleared, NoneLoadedYet
<1> QED BY <1>4, <1>5 DEF AdmissionInv

LEMMA ReloadSwapAdmits ==
    ASSUME RegistryInv, AdmissionInv, ReloadSwap
    PROVE  AdmissionInv'
<1> DEFINE q == PluginOf(current, EntryAt(current))
           n == NameOf(current)
<1>1. current \in ItemSet /\ n \in DOMAIN index /\ phase = "reread"
  BY DEF RegistryInv, BatchSound, ReloadSwap
<1>2. EntryAt(current) \in Content
  BY <1>1, EntryIsContent DEF RegistryInv, ReloadSwap
<1>3. Cleared(current) /\ Bound(current, current.digest, EntryAt(current))
  BY <1>1 DEF AdmissionInv, CurrentCleared, ReloadSwap
<1>4. Admitted(q) /\ ~Denied(q) /\ Bound(q, q.digest, q.ran)
  BY <1>1, <1>2, <1>3, PluginAdmitted
<1>5. /\ plugins' = [plugins EXCEPT ![index[n]] = q] /\ phase' = "idle"
      /\ UNCHANGED <<config, revocations, ready, loaded>>
  BY DEF ReloadSwap, host, load
<1> HIDE DEF q, n
<1> QED BY <1>1, <1>4, <1>5, ReplaceAdmits

LEMMA RevokeAdmits ==
    ASSUME RegistryInv, AdmissionInv, NEW n \in Name, NEW c \in Capability, Revoke(n, c)
    PROVE  AdmissionInv'
<1> DEFINE old == plugins[index[n]]
           q == [old EXCEPT !.granted = @ \ {c}]
<1>1. /\ n \in DOMAIN index /\ phase = "idle" /\ phase' = "idle" /\ ready' = <<>>
      /\ plugins' = [plugins EXCEPT ![index[n]].granted = @ \ {c}]
      /\ UNCHANGED <<config, revocations>>
  BY DEF Revoke, FreshLocals, host
<1>2. old \in LoadedPlugin /\ index[n] \in DOMAIN plugins
  BY <1>1 DEF RegistryInv, TypeOK
<1>3. q.build = old.build /\ q.digest = old.digest /\ q.signer = old.signer /\ q.ran = old.ran
  BY <1>2 DEF LoadedPlugin
<1>4. plugins' = [plugins EXCEPT ![index[n]] = q]
  BY <1>1
<1>5. Admitted(old) /\ ~Denied(old) /\ Bound(old, old.digest, old.ran)
  BY <1>1, <1>2 DEF AdmissionInv, PluginsAdmitted, DeniedArePurged
<1> HIDE DEF q, old
<1>6. Admitted(q) /\ ~Denied(q) /\ Bound(q, q.digest, q.ran)
  BY <1>3, <1>5 DEF Admitted, Denied, Bound, NameOf
<1> QED BY <1>1, <1>4, <1>6, ReplaceAdmits

\* Unloading takes the plugin of that name out and leaves the others as they are.
LEMMA UnloadTakesOut ==
    ASSUME RegistryInv, NEW n \in DOMAIN index, Unload(n)
    PROVE  \A i \in DOMAIN plugins' :
             \E j \in DOMAIN plugins : plugins'[i] = plugins[j] /\ NameOf(plugins[j]) # n
<1> DEFINE p == index[n]
           r == Without(plugins, p)
<1>1. /\ plugins \in Seq(LoadedPlugin) /\ p \in 1 .. Len(plugins) /\ Len(plugins) \in Nat
      /\ DOMAIN plugins = 1 .. Len(plugins) /\ NameOf(plugins[p]) = n
      /\ \A i \in DOMAIN plugins : NameOf(plugins[i]) = n => i = p
  BY DEF RegistryInv, TypeOK, IndexConsistent
<1>2. plugins' = r
  BY DEF Unload
<1>3. /\ r \in Seq(LoadedPlugin) /\ Len(r) = Len(plugins) - 1
      /\ \A i \in 1 .. Len(plugins) - 1 : r[i] = IF i < p THEN plugins[i] ELSE plugins[i + 1]
  BY <1>1, WithoutShifts
<1> HIDE DEF p, r
<1>4. SUFFICES ASSUME NEW i \in 1 .. Len(plugins) - 1
               PROVE  \E j \in DOMAIN plugins : r[i] = plugins[j] /\ NameOf(plugins[j]) # n
  <2>1. DOMAIN r = 1 .. Len(plugins) - 1
    BY <1>1, <1>3
  <2> QED BY <2>1, <1>2
<1>5. CASE i < p
  <2>1. i \in DOMAIN plugins /\ i # p /\ r[i] = plugins[i]
    BY <1>1, <1>3, <1>5
  <2> QED BY <2>1, <1>1
<1>6. CASE ~(i < p)
  <2>1. i + 1 \in DOMAIN plugins /\ i + 1 # p /\ r[i] = plugins[i + 1]
    BY <1>1, <1>3, <1>6
  <2> QED BY <2>1, <1>1
<1> QED BY <1>5, <1>6

\* remove and the purge of a new list unload; what the list denies leaves with the purge.
LEMMA UnloadAdmits ==
    ASSUME RegistryInv, AdmissionInv, NEW n \in DOMAIN index, Unload(n),
           UNCHANGED <<config, revocations, phase>>,
           \/ phase = "idle" /\ ready' = <<>>
           \/ phase = "purge" /\ purge' = purge \ {n} /\ UNCHANGED <<ready, loaded>>
    PROVE  AdmissionInv'
<1>1. \A i \in DOMAIN plugins' :
        /\ Admitted(plugins'[i])
        /\ Bound(plugins'[i], plugins'[i].digest, plugins'[i].ran)
        /\ Denied(plugins'[i]) => phase = "purge" /\ NameOf(plugins'[i]) \in purge \ {n}
  BY UnloadTakesOut DEF AdmissionInv, PluginsAdmitted, DeniedArePurged
<1>2. PluginsAdmitted' /\ DeniedArePurged'
  BY <1>1 DEF PluginsAdmitted, DeniedArePurged, Admitted, Denied, Denies, Bound, NameOf
<1>3. ReadyCleared' /\ CurrentCleared' /\ NoneLoadedYet'
  BY DEF ReadyCleared, CurrentCleared, NoneLoadedYet
<1> QED BY <1>2, <1>3 DEF AdmissionInv

\* A new list: whom it denies is on the way out, also a plugin nobody took a digest of.
LEMMA ApplyRevocationsAdmits ==
    ASSUME RegistryInv, AdmissionInv, NEW list \in Lists, ApplyRevocations(list)
    PROVE  AdmissionInv'
<1>1. /\ revocations' = list /\ phase' = "purge" /\ ready' = <<>>
      /\ purge' = {NameOf(plugins[i]) : i \in {j \in DOMAIN plugins :
                                                 RefusedBy(list, plugins[j])}}
      /\ UNCHANGED <<config, plugins>>
  BY DEF ApplyRevocations, FreshLocals, host
<1>2. list.digests \subseteq Build
  BY ListAssumption
<1>3. \A i \in DOMAIN plugins :
        Denies(list, plugins[i].digest, plugins[i].signer) => RefusedBy(list, plugins[i])
  BY <1>2, BuildAssumption DEF RefusedBy, Denies
<1>4. \A i \in DOMAIN plugins :
        Denies(list, plugins[i].digest, plugins[i].signer) => NameOf(plugins[i]) \in purge'
  BY <1>1, <1>3
<1>5. DeniedArePurged'
  BY <1>1, <1>4 DEF DeniedArePurged, Denied, Denies, NameOf
<1>6. PluginsAdmitted'
  BY <1>1 DEF AdmissionInv, PluginsAdmitted, Admitted, Bound, NameOf
<1>7. DOMAIN ready' = {}
  BY <1>1
<1>8. ReadyCleared' /\ CurrentCleared' /\ NoneLoadedYet'
  BY <1>1, <1>7 DEF ReadyCleared, CurrentCleared, NoneLoadedYet
<1> QED BY <1>5, <1>6, <1>8 DEF AdmissionInv

LEMMA PurgeAdmits ==
    ASSUME RegistryInv, AdmissionInv, Purge
    PROVE  AdmissionInv'
<1>1. phase = "purge" /\ UNCHANGED <<config, revocations, ready, loaded>>
  BY DEF Purge, host, load
<1>2. ASSUME NEW n \in purge, Unload(n), purge' = purge \ {n}, UNCHANGED phase
      PROVE  AdmissionInv'
  <2>1. n \in DOMAIN index
    BY <1>1 DEF RegistryInv, BatchSound
  <2> QED BY <1>1, <1>2, <2>1, UnloadAdmits
<1>3. ASSUME purge = {}, phase' = "idle", UNCHANGED <<plugins, index, surfaces, purge>>
      PROVE  AdmissionInv'
  <2>1. PluginsAdmitted' /\ DeniedArePurged'
    BY <1>1, <1>3 DEF AdmissionInv, PluginsAdmitted, DeniedArePurged, Admitted, Denied,
                      Denies, Bound, NameOf
  <2>2. ReadyCleared' /\ CurrentCleared' /\ NoneLoadedYet'
    BY <1>3 DEF ReadyCleared, CurrentCleared, NoneLoadedYet
  <2> QED BY <2>1, <2>2 DEF AdmissionInv
<1> QED BY <1>2, <1>3 DEF Purge

LEMMA AdmissionStep == RegistryInv /\ AdmissionInv /\ [Next]_vars => AdmissionInv'
<1> SUFFICES ASSUME RegistryInv, AdmissionInv, [Next]_vars PROVE AdmissionInv'
  OBVIOUS
<1>1. CASE Step
  BY <1>1, ScanAdmits, EntryReadAdmits, BackendAdmits, CallAdmits, ReloadSwapAdmits,
     PurgeAdmits DEF Step
<1>2. ASSUME NEW n \in Name, Remove(n) PROVE AdmissionInv'
  BY <1>2, UnloadAdmits DEF Remove, FreshLocals, host
<1>3. CASE Call
  BY <1>2, <1>3, CallAdmits, ApplyRevocationsAdmits, RevokeAdmits DEF Call
<1>4. CASE \E e \in Edits : EditDisk(e[1], e[2])
  BY <1>4, AdmissionStutters DEF EditDisk
<1>5. CASE UNCHANGED vars
  BY <1>5, AdmissionStutters DEF vars, host
<1> QED BY <1>1, <1>3, <1>4, <1>5 DEF Next

LEMMA AdmissionAlways == Spec => []AdmissionInv
BY AdmissionStarts, AdmissionStep, RegistryInvAlways, PTL DEF Spec

(* What runs is the entry of the very build its digest was taken of, whoever
   rewrites the directory between the digest, the entry and the backend, in
   load_dir and in reload. *)
THEOREM EntriesAreVerified == Spec => []EntryIsVerified
<1>1. AdmissionInv => EntryIsVerified
  BY DEF AdmissionInv, PluginsAdmitted, Bound, EntryIsVerified
<1> QED BY <1>1, AdmissionAlways, PTL

(* Every plugin that runs is the build and the signer the host pinned, and
   signed when that is required: no order of calls and edits lets another in. *)
THEOREM OnlyAdmittedRun == Spec => []AdmittedOnly
<1>1. AdmissionInv => AdmittedOnly
  BY DEF AdmissionInv, PluginsAdmitted, Admitted, AdmittedOnly
<1> QED BY <1>1, AdmissionAlways, PTL

(* Between calls nothing runs that the list in force denies: neither a plugin
   that was there when the list came nor one that was loaded or reloaded since. *)
THEOREM RevokedAreOut == Spec => []RevokedStayOut
<1>1. AdmissionInv => RevokedStayOut
  BY DEF AdmissionInv, DeniedArePurged, Denied, RevokedStayOut
<1> QED BY <1>1, AdmissionAlways, PTL

-----------------------------------------------------------------------------
(* The report of load_dir: what is found stays in sight until it is reported. *)

\* The names a load_dir still has before it, or has given to the backends.
AtHand(n) == \/ \E i \in DOMAIN todo : NameOf(todo[i]) = n
             \/ \E i \in DOMAIN ready : NameOf(ready[i].item) = n

ReportInv ==
    /\ \A n \in failed : \E f \in failures : f.name = n
    /\ \A m \in seen : \/ Label(m) \in failed \cup LoadedNames
                       \/ phase # "idle" /\ AtHand(Label(m))
    /\ phase \notin {"idle", "scan", "entry", "backend"} => seen = {}
    /\ phase = "backend" => todo = <<>>
    /\ phase \in {"scan", "entry", "backend"} =>
         \A i \in DOMAIN ready :
           NameOf(ready[i].item) \in DOMAIN index => NameOf(ready[i].item) \in LoadedNames

\* Without a largest member, taking the least one away would go on for ever.
LEMMA LargestExists ==
    ASSUME NEW S, S \subseteq Nat, S # {}, IsFiniteSet(S)
    PROVE  \E x \in S : \A y \in S : y =< x
<1> DEFINE Above == {x \in S : \A y \in S : y =< x}
           Bad == {A \in SUBSET S : A # {} /\ \A x \in A : \E y \in A : x < y}
<1>1. SUFFICES ASSUME Above = {} PROVE FALSE
  OBVIOUS
<1>2. S \in Bad
  BY <1>1
<1>3. IsWellFoundedOn(StrictSubsetOrdering(S), SUBSET S)
  BY FS_StrictSubsetOrderingWellFounded, FS_FiniteSubsetsOfFinite
<1>4. PICK A \in Bad : \A B \in Bad : ~(<<B, A>> \in StrictSubsetOrdering(S))
  <2>1. Bad \subseteq SUBSET S /\ Bad # {}
    BY <1>2
  <2> HIDE DEF Bad
  <2> QED BY <2>1, <1>3, WFMin
<1>5. PICK least \in A : \A y \in A : least =< y
  <2>1. PICK x \in A : \A y \in A : ~(<<y, x>> \in OpToRel(<, Nat))
    BY <1>4, NatLessThanWellFounded, WFMin
  <2>2. \A y \in A : ~(y < x)
    BY <2>1 DEF OpToRel
  <2> QED BY <2>2
<1>6. A \ {least} \in Bad
  <2>1. PICK z \in A : least < z
    BY <1>4, <1>5
  <2>2. ASSUME NEW x \in A \ {least} PROVE \E y \in A \ {least} : x < y
    <3>1. PICK y \in A : x < y
      BY <1>4, <2>2
    <3>2. least =< x /\ x \in Nat /\ y \in Nat /\ least \in Nat
      BY <1>5, <1>4, <2>2, <3>1
    <3> QED BY <3>1, <3>2
  <2>3. z \in A \ {least}
    BY <2>1, <1>4
  <2> QED BY <2>2, <2>3
<1>7. <<A \ {least}, A>> \in StrictSubsetOrdering(S)
  BY <1>5 DEF StrictSubsetOrdering
<1> QED BY <1>4, <1>6, <1>7

\* Of the manifests that share a name one is kept, so the name is ordered or refused.
LEMMA OneIsKept ==
    ASSUME NEW P, P \subseteq Dir, NEW name, NEW d \in P
    PROVE  \E e \in Kept(P, name) : name[e] = name[d]
<1> DEFINE Same == {e \in P : name[e] = name[d]}
<1>1. Same \subseteq Nat /\ Same # {} /\ IsFiniteSet(Same)
  BY DirAssumption, FS_Subset
<1>2. PICK e \in Same : \A x \in Same : x =< e
  BY <1>1, LargestExists
<1> QED BY <1>2 DEF Kept

LEMMA LoadDirReports ==
    ASSUME RegistryInv, LoadDir
    PROVE  ReportInv'
<1> DEFINE name == NamesFound
           edges == EdgesAmong(name)
<1>1. PICK n \in 0 .. Cardinality(DOMAIN edges) : \E s \in [1 .. n -> DOMAIN edges] :
        /\ todo' = [i \in 1 .. n |-> ManifestOf(s[i])]
        /\ failures' = OrderFailures(name, edges, s)
  BY DEF LoadDir
<1>2. PICK s \in [1 .. n -> DOMAIN edges] :
        /\ todo' = [i \in 1 .. n |-> ManifestOf(s[i])]
        /\ failures' = OrderFailures(name, edges, s)
  BY <1>1
<1>3. /\ failed' = {f.name : f \in failures'}
      /\ seen' = {ManifestOf(d) : d \in {e \in Dir : disk[e] # NoDir}}
      /\ phase' = "scan" /\ ready' = <<>>
  BY DEF LoadDir
<1>4. /\ DOMAIN edges \subseteq ReadableDirs /\ DOMAIN name = ReadableDirs
      /\ ReadableDirs \subseteq Dir
  BY DEF EdgesAmong, NamesFound, ReadableDirs
<1>5. \A d \in ReadableDirs :
        /\ name[d] = NameOf(ManifestOf(d)) /\ Label(ManifestOf(d)) = name[d]
        /\ disk[d] # NoDir
  BY DEF ReadableDirs, NamesFound, ManifestOf, NameOf, Label
<1>6. \A d, why : Failure(ManifestOf(d), why).name = NameOf(ManifestOf(d))
  BY DEF Failure
<1> HIDE DEF name, edges
<1>7. ASSUME NEW d \in Dir, disk[d] # NoDir
      PROVE  Label(ManifestOf(d)) \in failed' \/ \E i \in DOMAIN todo' :
               NameOf(todo'[i]) = Label(ManifestOf(d))
  <2>1. CASE d \notin ReadableDirs
    <3>1. Label(ManifestOf(d)) = BaseName[d]
      BY <1>7, <2>1 DEF ReadableDirs, Label, ManifestOf
    <3>2. [dir |-> d, name |-> BaseName[d], reason |-> "manifest"] \in failures'
      BY <1>2, <1>4, <1>7, <2>1 DEF OrderFailures
    <3> QED BY <3>1, <3>2, <1>3
  <2>2. CASE d \in DOMAIN name \ DOMAIN edges
    <3>1. Failure(ManifestOf(d), "missing") \in failures'
      BY <1>2, <2>2 DEF OrderFailures
    <3>2. Label(ManifestOf(d)) = Failure(ManifestOf(d), "missing").name
      BY <1>4, <1>5, <1>6, <2>2
    <3> QED BY <3>1, <3>2, <1>3
  <2>3. CASE d \in DOMAIN edges
    <3>1. PICK e \in Kept(DOMAIN edges, name) : name[e] = name[d]
      BY <1>4, <2>3, OneIsKept
    <3>2. e \in DOMAIN edges /\ e \in ReadableDirs
      BY <1>4 DEF Kept
    <3>3. CASE \E i \in DOMAIN s : name[s[i]] = name[e]
      <4>1. PICK i \in 1 .. n : name[s[i]] = name[e]
        BY <3>3
      <4>2. s[i] \in ReadableDirs /\ todo'[i] = ManifestOf(s[i]) /\ i \in DOMAIN todo'
        BY <1>2, <1>4
      <4>3. NameOf(todo'[i]) = Label(ManifestOf(d))
        BY <4>1, <4>2, <3>1, <1>4, <1>5, <2>3
      <4> QED BY <4>2, <4>3
    <3>4. CASE ~\E i \in DOMAIN s : name[s[i]] = name[e]
      <4>1. name[e] \notin {name[s[i]] : i \in DOMAIN s}
        BY <3>4
      <4>2. Failure(ManifestOf(e), "cycle") \in failures'
        BY <1>2, <3>1, <4>1 DEF OrderFailures
      <4>3. Label(ManifestOf(d)) = Failure(ManifestOf(e), "cycle").name
        BY <1>4, <1>5, <1>6, <2>3, <3>1, <3>2
      <4> QED BY <4>2, <4>3, <1>3
    <3> QED BY <3>3, <3>4
  <2> QED BY <1>4, <2>1, <2>2, <2>3
<1>8. ASSUME NEW m \in seen'
      PROVE  Label(m) \in failed' \/ \E i \in DOMAIN todo' : NameOf(todo'[i]) = Label(m)
  BY <1>3, <1>7, <1>8
<1>9. DOMAIN ready' = {}
  BY <1>3
<1>10. \A n1 \in failed' : \E f \in failures' : f.name = n1
  BY <1>3
<1> QED BY <1>3, <1>8, <1>9, <1>10 DEF ReportInv, AtHand, Label, NameOf

\* A manifest that is refused is a failure, under its name.
LEMMA RefuseReports ==
    ASSUME RegistryInv, ReportInv, phase \in {"scan", "entry"}, todo # <<>>, NEW why,
           Refuse(Head(todo), why)
    PROVE  ReportInv'
<1>1. /\ todo' = Tail(todo) /\ phase' = "scan"
      /\ failed' = failed \cup {NameOf(Head(todo))}
      /\ failures' = failures \cup {Failure(Head(todo), why)}
      /\ UNCHANGED <<index, ready, loaded, seen>>
  BY DEF Refuse, book
<1>2. \A i \in DOMAIN todo : todo[i] = Head(todo) \/ \E j \in DOMAIN Tail(todo) : Tail(todo)[j] = todo[i]
  <2>1. ASSUME NEW i \in DOMAIN todo, i # 1
        PROVE  i - 1 \in DOMAIN Tail(todo) /\ Tail(todo)[i - 1] = todo[i]
    BY <2>1 DEF RegistryInv, TypeOK
  <2>2. Head(todo) = todo[1]
    BY DEF RegistryInv, TypeOK
  <2> QED BY <2>1, <2>2
<1>3. Failure(Head(todo), why).name = NameOf(Head(todo))
  BY DEF Failure
<1>4. \A n \in failed' : \E f \in failures' : f.name = n
  BY <1>1, <1>3 DEF ReportInv
<1>5. ASSUME NEW n, AtHand(n)
      PROVE  \/ n \in failed'
             \/ \E i \in DOMAIN todo' : NameOf(todo'[i]) = n
             \/ \E i \in DOMAIN ready' : NameOf(ready'[i].item) = n
  BY <1>1, <1>2, <1>5 DEF AtHand
<1>6. ASSUME NEW m \in seen'
      PROVE  \/ Label(m) \in failed' \cup LoadedNames
             \/ \E i \in DOMAIN todo' : NameOf(todo'[i]) = Label(m)
             \/ \E i \in DOMAIN ready' : NameOf(ready'[i].item) = Label(m)
  BY <1>1, <1>5, <1>6 DEF ReportInv
<1> QED BY <1>1, <1>4, <1>6 DEF ReportInv, AtHand, Label, NameOf, LoadedNames

LEMMA EntryReadReports ==
    ASSUME RegistryInv, ReportInv, EntryRead
    PROVE  ReportInv'
<1>1. /\ todo # <<>> /\ NameOf(current) = NameOf(Head(todo))
      /\ NameOf(current) \notin DOMAIN index
      /\ todo \in Seq(Manifest) /\ ready \in Seq([item : ItemSet, bytes : Content])
  BY DEF RegistryInv, TypeOK, BatchSound, EntryRead
<1>2. /\ todo' = Tail(todo) /\ phase = "entry" /\ phase' = "scan"
      /\ ready' = Append(ready, [item |-> current, bytes |-> EntryAt(current)])
      /\ UNCHANGED <<index, failed, failures, loaded, seen>>
  BY DEF EntryRead, book
<1>3. \A i \in DOMAIN todo : todo[i] = Head(todo) \/ \E j \in DOMAIN Tail(todo) : Tail(todo)[j] = todo[i]
  <2>1. ASSUME NEW i \in DOMAIN todo, i # 1
        PROVE  i - 1 \in DOMAIN Tail(todo) /\ Tail(todo)[i - 1] = todo[i]
    BY <1>1, <2>1
  <2> QED BY <2>1
<1>4. /\ \A i \in DOMAIN ready : i \in DOMAIN ready' /\ ready'[i] = ready[i]
      /\ Len(ready) + 1 \in DOMAIN ready' /\ ready'[Len(ready) + 1].item = current
      /\ \A i \in DOMAIN ready' : ready'[i].item = current \/ (i \in DOMAIN ready /\ ready'[i] = ready[i])
  BY <1>1, <1>2
<1>5. ASSUME NEW n, AtHand(n)
      PROVE  \/ \E i \in DOMAIN todo' : NameOf(todo'[i]) = n
             \/ \E i \in DOMAIN ready' : NameOf(ready'[i].item) = n
  <2>1. CASE \E i \in DOMAIN todo : NameOf(todo[i]) = n
    BY <1>1, <1>2, <1>3, <1>4, <2>1
  <2>2. CASE \E i \in DOMAIN ready : NameOf(ready[i].item) = n
    BY <1>4, <2>2
  <2> QED BY <1>5, <2>1, <2>2 DEF AtHand
<1>6. \A i \in DOMAIN ready' : NameOf(ready'[i].item) \in DOMAIN index
                                => NameOf(ready'[i].item) \in LoadedNames
  <2>1. \A i \in DOMAIN ready : NameOf(ready[i].item) \in DOMAIN index
                                => NameOf(ready[i].item) \in LoadedNames
    BY <1>2 DEF ReportInv
  <2>2. ASSUME NEW i \in DOMAIN ready', NameOf(ready'[i].item) \in DOMAIN index
        PROVE  NameOf(ready'[i].item) \in LoadedNames
    <3>1. ready'[i].item # current
      BY <1>1, <2>2
    <3> QED BY <1>4, <2>1, <2>2, <3>1
  <2> QED BY <2>2
<1>7. ASSUME NEW m \in seen'
      PROVE  \/ Label(m) \in failed' \cup LoadedNames
             \/ \E i \in DOMAIN todo' : NameOf(todo'[i]) = Label(m)
             \/ \E i \in DOMAIN ready' : NameOf(ready'[i].item) = Label(m)
  BY <1>2, <1>5, <1>7 DEF ReportInv
<1>8. \A n \in failed' : \E f \in failures' : f.name = n
  BY <1>2 DEF ReportInv
<1> QED BY <1>2, <1>6, <1>7, <1>8 DEF ReportInv, AtHand, Label, NameOf, LoadedNames

\* The backends' answers, and the sweep behind them.
LEMMA BackendReports ==
    ASSUME RegistryInv, ReportInv, Backend
    PROVE  ReportInv'
<1>1. PICK i \in DOMAIN ready :
        IsNext(i) /\ (BackendFail(i) \/ BackendLoad(i) \/ BackendSilent(i) \/ BackendStray(i))
  BY DEF Backend
<1>2. phase = "backend" /\ UNCHANGED <<phase, todo, ready, seen>>
  BY DEF Backend
<1>3. CASE BackendFail(i)
  <2>1. /\ failed' = failed \cup {NameOf(ready[i].item)}
        /\ failures' = failures \cup {Failure(ready[i].item, "backend")}
        /\ UNCHANGED <<index, loaded>>
    BY <1>3 DEF BackendFail, book
  <2>2. Failure(ready[i].item, "backend").name = NameOf(ready[i].item)
    BY DEF Failure
  <2> QED BY <1>2, <2>1, <2>2 DEF ReportInv, AtHand, Label, NameOf, LoadedNames
<1>4. CASE BackendLoad(i)
  <2> DEFINE x == NameOf(ready[i].item)
  <2>1. /\ loaded' = Append(loaded, x) /\ DOMAIN index' = DOMAIN index \cup {x}
        /\ UNCHANGED <<failed, failures>> /\ loaded \in Seq(Name)
    BY <1>4 DEF BackendLoad, RegistryInv, TypeOK
  <2> HIDE DEF x
  <2>2. /\ \A k \in DOMAIN loaded : k \in DOMAIN loaded' /\ loaded'[k] = loaded[k]
        /\ Len(loaded) + 1 \in DOMAIN loaded' /\ loaded'[Len(loaded) + 1] = x
    BY <2>1
  <2>3. LoadedNames \subseteq LoadedNames' /\ x \in LoadedNames'
    BY <2>2 DEF LoadedNames
  <2> QED BY <1>2, <2>1, <2>3 DEF ReportInv, AtHand, Label, NameOf
<1>5. CASE BackendSilent(i)
  BY <1>2, <1>5 DEF BackendSilent, book, ReportInv, AtHand, Label, NameOf, LoadedNames
<1>6. CASE BackendStray(i)
  <2>1. PICK x : /\ failed' = failed \cup {x}
                 /\ failures' = failures \cup {[dir |-> NoDir, name |-> x, reason |-> "unknown"]}
    BY <1>6 DEF BackendStray
  <2>2. UNCHANGED <<index, loaded>>
    BY <1>6 DEF BackendStray, book
  <2>3. [dir |-> NoDir, name |-> x, reason |-> "unknown"].name = x
    OBVIOUS
  <2>4. \A n \in failed' : \E f \in failures' : f.name = n
    BY <2>1, <2>3 DEF ReportInv
  <2>5. LoadedNames' = LoadedNames /\ failed \subseteq failed'
    BY <2>1, <2>2 DEF LoadedNames
  <2> QED BY <1>2, <2>2, <2>4, <2>5 DEF ReportInv, AtHand, Label, NameOf
<1> QED BY <1>1, <1>3, <1>4, <1>5, <1>6

LEMMA SweepReports ==
    ASSUME ReportInv, Sweep
    PROVE  ReportInv'
<1>1. /\ phase = "backend" /\ phase' = "idle"
      /\ UNCHANGED <<index, todo, ready, loaded, seen>>
      /\ failed' = failed \cup {NameOf(ready[i].item) : i \in Mute}
      /\ failures' = failures \cup {Failure(ready[i].item, Said(i)) : i \in Mute}
  BY DEF Sweep, SweepEnds, book
<1>2. \A i \in Mute : Failure(ready[i].item, Said(i)).name = NameOf(ready[i].item)
  BY DEF Failure
<1>3. \A n \in failed' : \E f \in failures' : f.name = n
  BY <1>1, <1>2 DEF ReportInv
<1>4. DOMAIN todo = {}
  BY <1>1 DEF ReportInv
<1>5. \A i \in DOMAIN ready : NameOf(ready[i].item) \in failed' \cup LoadedNames
  BY <1>1 DEF ReportInv, Mute
<1>6. \A m \in seen : Label(m) \in failed' \cup LoadedNames
  BY <1>1, <1>4, <1>5 DEF ReportInv, AtHand
<1> QED BY <1>1, <1>3, <1>6 DEF ReportInv, AtHand, Label, NameOf, LoadedNames

LEMMA ReportStutters ==
    ASSUME RegistryInv, ReportInv, UNCHANGED load,
           \/ UNCHANGED <<phase, index>>
           \/ phase = "scan" /\ phase' = "entry" /\ index' = index
           \/ phase = "scan" /\ phase' = "backend" /\ todo = <<>> /\ index' = index
           \/ phase \in {"reverify", "reread", "purge"}
              /\ phase' \in {"idle", "reverify", "reread", "purge"}
    PROVE  ReportInv'
<1>1. UNCHANGED <<todo, ready, failed, failures, loaded, seen>>
  BY DEF load
<1> QED BY <1>1 DEF ReportInv, AtHand, Label, NameOf, LoadedNames

LEMMA FreshReports ==
    ASSUME FreshLocals, phase' \in {"idle", "reverify", "purge"}
    PROVE  ReportInv'
BY DEF FreshLocals, ReportInv, AtHand

LEMMA ReportStep == RegistryInv /\ ReportInv /\ [Next]_vars => ReportInv'
<1> SUFFICES ASSUME RegistryInv, ReportInv, [Next]_vars PROVE ReportInv'
  OBVIOUS
<1>1. CASE ScanRefuse
  BY <1>1, RefuseReports DEF ScanRefuse
<1>2. CASE EntryRefuse
  <2>1. todo # <<>>
    BY <1>2 DEF RegistryInv, BatchSound, EntryRefuse
  <2> QED BY <1>2, <2>1, RefuseReports DEF EntryRefuse
<1>3. CASE ScanVerify \/ ScanDone
  BY <1>3, ReportStutters DEF ScanVerify, ScanDone, book
<1>4. CASE ReloadVerify \/ ReloadSwap \/ ReloadFail
  BY <1>4, ReportStutters DEF ReloadVerify, ReloadSwap, ReloadFail, book
<1>5. CASE Purge
  BY <1>5, ReportStutters DEF Purge
<1>6. CASE Step
  BY <1>1, <1>2, <1>3, <1>4, <1>5, <1>6, EntryReadReports, BackendReports, SweepReports
     DEF Step
<1>7. ASSUME NEW n \in Name, Reload(n) \/ Remove(n) PROVE ReportInv'
  BY <1>7, FreshReports DEF Reload, Remove
<1>8. ASSUME NEW list \in Lists, ApplyRevocations(list) PROVE ReportInv'
  BY <1>8, FreshReports DEF ApplyRevocations
<1>9. ASSUME NEW n \in Name, NEW c \in Capability, Revoke(n, c) PROVE ReportInv'
  BY <1>9, FreshReports DEF Revoke
<1>10. CASE Call
  BY <1>10, <1>7, <1>8, <1>9, LoadDirReports DEF Call
<1>11. CASE \E e \in Edits : EditDisk(e[1], e[2])
  BY <1>11, ReportStutters DEF EditDisk, book
<1>12. CASE UNCHANGED vars
  BY <1>12, ReportStutters DEF vars, book
<1> QED BY <1>6, <1>10, <1>11, <1>12 DEF Next

LEMMA ReportStarts == Init => ReportInv
BY DEF Init, ReportInv, AtHand

(* No plugin is silently dropped: whatever name load_dir found under the root is
   in its report, also when manifests share a name, a backend leaves one out or
   answers for another, and whoever rewrites the directories meanwhile. *)
THEOREM NothingIsDropped == Spec => []EveryNameReported
<1>1. ReportInv => EveryNameReported
  BY DEF ReportInv, EveryNameReported
<1>2. Spec => []ReportInv
  BY ReportStarts, ReportStep, RegistryInvAlways, PTL DEF Spec
<1> QED BY <1>1, <1>2, PTL

-----------------------------------------------------------------------------
(* The registry is a map of running plugins.                               *)

LEMMA MapIsIndexed ==
    ASSUME RegistryInv
    PROVE  /\ DOMAIN RunningMap = DOMAIN index
           /\ \A n \in DOMAIN index : /\ RunningMap[n] = plugins[index[n]]
                                      /\ index[n] \in DOMAIN plugins
                                      /\ n \in Name
BY DEF RunningMap, RegistryInv, TypeOK

\* While no list is being enforced, nothing runs that the one in force denies.
LEMMA NoneDenied ==
    ASSUME RegistryInv, AdmissionInv, phase # "purge"
    PROVE  Running!Enforced
BY MapIsIndexed
   DEF Running!Enforced, Running!Allowed, AdmissionInv, DeniedArePurged, Denied, Denies

\* What an item becomes may run under its name.
LEMMA ItemIsStartable ==
    ASSUME NEW item \in ItemSet, NEW bytes \in Content, Cleared(item),
           ~PolicyRefuses(item, item.signer)
    PROVE  LET q == PluginOf(item, bytes)
           IN  /\ q \in StartablePlugins[NameOf(item)]
               /\ Running!Allowed(q)
<1> DEFINE q == PluginOf(item, bytes)
<1>1. q \in LoadedPlugin /\ NameOf(q) = NameOf(item) /\ NameOf(item) \in Name
  BY PluginIsTyped, BuildsAreNamed
<1>2. /\ q.signer = item.signer /\ q.digest = item.digest /\ q.build = item.build
      /\ q.granted = GrantsOf(item, item.signer)
  BY DEF PluginOf
<1>3. Running!Allowed(q)
  BY <1>2 DEF Running!Allowed, Cleared, Denied, Denies
<1>4. /\ q.granted \subseteq Policy[q.signer]
      /\ Info[q.build].needs \subseteq q.granted
      /\ q.granted \subseteq Info[q.build].needs \cup Info[q.build].asks
  BY <1>2 DEF GrantsOf, PolicyRefuses
<1> HIDE DEF q
<1>5. QED
  BY <1>1, <1>3, <1>4 DEF StartablePlugins, q

LEMMA LoadIsStart ==
    ASSUME RegistryInv, AdmissionInv, phase = "backend", NEW i \in DOMAIN ready, IsNext(i),
           BackendLoad(i)
    PROVE  Running!Start(NameOf(ready[i].item)) /\ NameOf(ready[i].item) \in Name
<1> DEFINE item == ready[i].item
           n == NameOf(item)
           q == PluginOf(item, ready[i].bytes)
<1>1. /\ item \in ItemSet /\ ready[i].bytes \in Content
  BY ReadyIsTyped DEF RegistryInv
<1>2. n \notin DOMAIN index /\ n \in Name
  BY <1>1, BuildsAreNamed DEF RegistryInv, BatchSound, IsNext
<1>3. Cleared(item) /\ ~PolicyRefuses(item, item.signer)
  BY DEF AdmissionInv, ReadyCleared, BackendLoad, BackendRefuses
<1>4. q \in StartablePlugins[n] /\ Running!Allowed(q)
  BY <1>1, <1>3, ItemIsStartable
<1>5. /\ plugins' = Append(plugins, q)
      /\ index' = [m \in DOMAIN index \cup {n} |->
                     IF m = n THEN Len(plugins) + 1 ELSE index[m]]
      /\ revocations' = revocations
  BY DEF BackendLoad
<1>6. /\ plugins \in Seq(LoadedPlugin) /\ q \in LoadedPlugin
      /\ DOMAIN plugins = 1 .. Len(plugins) /\ Len(plugins) \in Nat
  BY <1>1, PluginIsTyped DEF RegistryInv, TypeOK
<1> HIDE DEF q, n
<1>7. /\ plugins'[Len(plugins) + 1] = q
      /\ \A k \in DOMAIN plugins : plugins'[k] = plugins[k]
  BY <1>5, <1>6, AppendProperties
<1>8. /\ DOMAIN index' = DOMAIN index \cup {n} /\ index'[n] = Len(plugins) + 1
      /\ \A m \in DOMAIN index : index'[m] = index[m]
  BY <1>2, <1>5
<1>9. RunningMap' = [m \in DOMAIN index \cup {n} |-> IF m = n THEN q ELSE RunningMap[m]]
  BY <1>2, <1>7, <1>8, MapIsIndexed DEF RunningMap
<1>10. RunningMap'[n] = q /\ n \in DOMAIN RunningMap'
  BY <1>9
<1>11. Running!Enforced
  BY NoneDenied
<1>12. n \notin DOMAIN RunningMap /\ DOMAIN RunningMap = DOMAIN index
  BY <1>2, MapIsIndexed
<1>13. Running!Start(n)
  BY <1>4, <1>5, <1>9, <1>10, <1>11, <1>12 DEF Running!Start
<1>14. QED
  BY <1>2, <1>13 DEF n

LEMMA SwapIsReplace ==
    ASSUME RegistryInv, AdmissionInv, ReloadSwap
    PROVE  Running!Replace(NameOf(current)) /\ NameOf(current) \in Name
<1> DEFINE n == NameOf(current)
           q == PluginOf(current, EntryAt(current))
<1>1. current \in ItemSet /\ n \in DOMAIN index
  BY DEF RegistryInv, BatchSound, ReloadSwap
<1>2. EntryAt(current) \in Content
  BY <1>1, EntryIsContent DEF RegistryInv, ReloadSwap
<1>3. Cleared(current) /\ ~PolicyRefuses(current, current.signer)
  BY DEF AdmissionInv, CurrentCleared, ReloadSwap
<1>4. q \in StartablePlugins[n] /\ Running!Allowed(q)
  BY <1>1, <1>2, <1>3, ItemIsStartable
<1>5. /\ plugins' = [plugins EXCEPT ![index[n]] = q]
      /\ index' = index /\ revocations' = revocations
  BY DEF ReloadSwap
<1>6. /\ \A m, o \in DOMAIN index : index[m] = index[o] => m = o
      /\ \A m \in DOMAIN index : index[m] \in DOMAIN plugins
  BY DEF RegistryInv, IndexConsistent
<1> HIDE DEF q, n
<1>7. RunningMap' = [RunningMap EXCEPT ![n] = q]
  BY <1>1, <1>5, <1>6, MapIsIndexed DEF RunningMap
<1>8. RunningMap'[n] = q /\ n \in DOMAIN RunningMap' /\ n \in DOMAIN RunningMap
  BY <1>1, <1>7, MapIsIndexed
<1>9. Running!Enforced
  BY NoneDenied DEF ReloadSwap
<1>10. Running!Replace(n)
  BY <1>4, <1>5, <1>7, <1>8, <1>9 DEF Running!Replace
<1>11. n \in Name
  BY <1>1, MapIsIndexed
<1>12. QED
  BY <1>10, <1>11 DEF n

\* Removing one position and numbering the rest anew takes one name from the map.
LEMMA UnloadIsStop ==
    ASSUME RegistryInv, NEW n \in DOMAIN index, Unload(n), revocations' = revocations
    PROVE  Running!Stop(n)
<1> DEFINE p == index[n]
<1>1. /\ plugins \in Seq(LoadedPlugin) /\ p \in 1 .. Len(plugins) /\ Len(plugins) \in Nat
      /\ DOMAIN plugins = 1 .. Len(plugins)
      /\ \A m \in DOMAIN index : index[m] \in DOMAIN plugins /\ NameOf(plugins[index[m]]) = m
      /\ \A i \in DOMAIN plugins : index[NameOf(plugins[i])] = i
  BY DEF RegistryInv, TypeOK, IndexConsistent
<1>2. /\ Len(plugins') = Len(plugins) - 1
      /\ \A i \in 1 .. Len(plugins) - 1 :
           plugins'[i] = IF i < p THEN plugins[i] ELSE plugins[i + 1]
  BY <1>1, WithoutShifts DEF Unload
<1>3. /\ plugins' \in Seq(LoadedPlugin)
      /\ DOMAIN index' = DOMAIN index \ {n} /\ IndexConsistent'
  BY UnloadKeeps DEF RegistryInv
<1>4. \A m \in DOMAIN index' : /\ index'[m] \in DOMAIN plugins'
                               /\ NameOf(plugins'[index'[m]]) = m
  BY <1>3 DEF IndexConsistent, NameOf
<1>5. DOMAIN plugins' = 1 .. Len(plugins) - 1
  BY <1>2, <1>3
<1> HIDE DEF p
<1>6. ASSUME NEW m \in DOMAIN index' PROVE plugins'[index'[m]] = plugins[index[m]]
  <2>1. index'[m] \in 1 .. Len(plugins) - 1 /\ NameOf(plugins'[index'[m]]) = m
    BY <1>4, <1>5, <1>6
  <2>2. PICK k \in DOMAIN plugins : plugins'[index'[m]] = plugins[k]
    <3>1. CASE index'[m] < p
      BY <3>1, <2>1, <1>1, <1>2
    <3>2. CASE ~(index'[m] < p)
      <4>1. index'[m] + 1 \in DOMAIN plugins
        BY <2>1, <1>1
      <4>2. QED
        BY <3>2, <4>1, <2>1, <1>2
    <3>3. QED
      BY <3>1, <3>2
  <2>3. NameOf(plugins[k]) = m
    BY <2>1, <2>2
  <2>4. index[m] = k
    BY <2>3, <1>1
  <2>5. QED
    BY <2>2, <2>4
<1>7. RunningMap' = [m \in DOMAIN index \ {n} |-> RunningMap[m]]
  BY <1>3, <1>6, MapIsIndexed DEF RunningMap
<1>8. QED
  BY <1>7, MapIsIndexed DEF Running!Stop

LEMMA RevokeIsNarrow ==
    ASSUME RegistryInv, AdmissionInv, NEW n \in Name, NEW c, Revoke(n, c)
    PROVE  /\ n \in DOMAIN RunningMap /\ c \in RunningMap[n].granted
           /\ Running!Narrow(n, c)
<1>1. /\ n \in DOMAIN index /\ c \in plugins[index[n]].granted /\ phase = "idle"
      /\ plugins' = [plugins EXCEPT ![index[n]].granted = @ \ {c}]
      /\ index' = index /\ revocations' = revocations
  BY DEF Revoke
<1>2. /\ \A m, o \in DOMAIN index : index[m] = index[o] => m = o
      /\ \A m \in DOMAIN index : index[m] \in DOMAIN plugins
  BY DEF RegistryInv, IndexConsistent
<1>3. RunningMap' = [RunningMap EXCEPT ![n].granted = @ \ {c}]
  BY <1>1, <1>2, MapIsIndexed DEF RunningMap
<1>4. n \in DOMAIN RunningMap /\ c \in RunningMap[n].granted
  BY <1>1, MapIsIndexed
<1>5. Running!Enforced
  BY <1>1, NoneDenied
<1>6. QED
  BY <1>1, <1>3, <1>4, <1>5 DEF Running!Narrow

LEMMA RunningStarts == Init => Running!Init
<1> SUFFICES ASSUME Init PROVE Running!Init
  OBVIOUS
<1>1. DOMAIN index = {} /\ revocations \in [digests : SUBSET Build, signers : SUBSET Identity]
  BY ConfigAssumption DEF Init
<1>2. RunningMap = [n \in {} |-> n]
  BY <1>1 DEF RunningMap
<1>3. QED
  BY <1>1, <1>2 DEF Running!Init

LEMMA QuietSteps ==
    ASSUME UNCHANGED book PROVE UNCHANGED <<RunningMap, revocations>>
BY DEF book, RunningMap

LEMMA RunningStep ==
    ASSUME RegistryInv, AdmissionInv, [Next]_vars
    PROVE  [Running!Next]_<<RunningMap, revocations>>
<1>0. DOMAIN StartablePlugins = Name
  BY DEF StartablePlugins
<1>1. ASSUME Backend PROVE [Running!Next]_<<RunningMap, revocations>>
  <2>1. PICK i \in DOMAIN ready :
          IsNext(i) /\ (BackendFail(i) \/ BackendLoad(i) \/ BackendSilent(i) \/ BackendStray(i))
    BY <1>1 DEF Backend
  <2>2. CASE BackendLoad(i)
    <3>1. Running!Start(NameOf(ready[i].item)) /\ NameOf(ready[i].item) \in Name
      BY <1>1, <2>1, <2>2, LoadIsStart DEF Backend
    <3>2. QED
      BY <3>1, <1>0 DEF Running!Next, Running!Names
  <2>3. CASE BackendFail(i) \/ BackendSilent(i) \/ BackendStray(i)
    BY <2>3, QuietSteps DEF BackendFail, BackendSilent, BackendStray
  <2>4. QED
    BY <2>1, <2>2, <2>3
<1>2. ASSUME ReloadSwap PROVE Running!Next
  <2>1. Running!Replace(NameOf(current)) /\ NameOf(current) \in Name
    BY <1>2, SwapIsReplace
  <2>2. QED
    BY <2>1, <1>0 DEF Running!Next, Running!Names
<1>3. ASSUME NEW n \in Name, Remove(n) PROVE Running!Next
  <2>1. n \in DOMAIN index /\ Running!Stop(n)
    BY <1>3, UnloadIsStop DEF Remove
  <2>2. n \in DOMAIN RunningMap
    BY <2>1, MapIsIndexed
  <2>3. QED
    BY <2>1, <2>2 DEF Running!Next
<1>4. ASSUME Purge PROVE [Running!Next]_<<RunningMap, revocations>>
  <2>1. CASE UNCHANGED <<plugins, index, surfaces, purge>>
    BY <2>1, <1>4, QuietSteps DEF Purge, book
  <2>2. ASSUME NEW n \in purge, Unload(n) PROVE Running!Next
    <3>1. n \in DOMAIN index /\ revocations' = revocations
      BY <1>4, <2>2 DEF Purge, RegistryInv, BatchSound
    <3>2. n \in DOMAIN RunningMap /\ Running!Stop(n)
      BY <2>2, <3>1, UnloadIsStop, MapIsIndexed
    <3>3. QED
      BY <3>2 DEF Running!Next
  <2>3. QED
    BY <1>4, <2>1, <2>2 DEF Purge
<1>5. ASSUME NEW l \in Lists, ApplyRevocations(l) PROVE Running!Next
  <2>1. /\ revocations' = l /\ UNCHANGED <<plugins, index>> /\ phase = "idle"
        /\ l \in [digests : SUBSET Build, signers : SUBSET Identity]
    BY <1>5, ListAssumption DEF ApplyRevocations
  <2>2. RunningMap' = RunningMap
    BY <2>1 DEF RunningMap
  <2>3. Running!Govern
    BY <2>1, <2>2, NoneDenied DEF Running!Govern
  <2>4. QED
    BY <2>3 DEF Running!Next
<1>6. ASSUME NEW n \in Name, NEW c \in Capability, Revoke(n, c) PROVE Running!Next
  <2>1. /\ n \in DOMAIN RunningMap /\ c \in RunningMap[n].granted
        /\ Running!Narrow(n, c)
    BY <1>6, RevokeIsNarrow
  <2>2. QED
    BY <2>1 DEF Running!Next
<1>7. ASSUME NEW n \in Name, Reload(n) PROVE UNCHANGED book
  BY <1>7 DEF Reload
<1>8. ASSUME \/ ScanRefuse \/ ScanVerify \/ EntryRefuse \/ EntryRead \/ ScanDone \/ Sweep
             \/ ReloadVerify \/ ReloadFail
      PROVE  UNCHANGED book
  BY <1>8 DEF ScanRefuse, Refuse, ScanVerify, EntryRefuse, EntryRead, ScanDone, Sweep,
              SweepEnds, ReloadVerify, ReloadFail
<1>9. ASSUME NEW d, NEW b, EditDisk(d, b) PROVE UNCHANGED book
  BY <1>9 DEF EditDisk
<1>10. ASSUME LoadDir PROVE UNCHANGED book
  BY <1>10 DEF LoadDir
<1>11. ASSUME UNCHANGED vars PROVE UNCHANGED book
  BY <1>11 DEF vars
<1>12. CASE Step
  BY <1>12, <1>1, <1>2, <1>4, <1>8, QuietSteps DEF Step
<1>13. CASE Call
  BY <1>13, <1>3, <1>5, <1>6, <1>7, <1>10, QuietSteps DEF Call
<1>14. CASE \E e \in Edits : EditDisk(e[1], e[2])
  BY <1>14, <1>9, QuietSteps
<1>15. QED
  BY <1>11, <1>12, <1>13, <1>14, QuietSteps DEF Next

(* The registry implements the map RunningPlugins specifies, for any builds,
   registries, policies and rewrites of the disk: what the calls do to the vector
   and its index changes one name at a time, gives no plugin more than the policy
   gives its signer, and starts nothing while a revoked plugin still runs. *)
THEOREM RegistryIsAMap == Spec => ImplementsRunning
BY RunningStarts, RunningStep, RegistryInvAlways, AdmissionAlways, PTL
   DEF Spec, ImplementsRunning, Running!Spec
=============================================================================
