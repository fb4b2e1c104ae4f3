--------------------------- MODULE InstallProofs ---------------------------
(* What the checks of the installer guarantee, for any plugins, index, source,
   flows and number of faults, where the paths of one plugin are not those of
   another and each plugin is installed by one flow; what chains of reviewed
   upgrades ask for; and what the verification of rocks decides. *)
EXTENDS Install, Upgrades, Rocks, FiniteSetTheorems, WellFoundedInduction, TLAPS

\* No name is the staging or previous directory of one, and no two names share
\* such a directory.
SeparatePaths ==
    \A n, m \in Name :
      /\ StagingOf[n] # m /\ PreviousOf[n] # m /\ StagingOf[n] # PreviousOf[m]
      /\ n # m => StagingOf[n] # StagingOf[m] /\ PreviousOf[n] # PreviousOf[m]

OneFlowPerName == \A f, g \in Flow : f # g => Installs[f] \cap Installs[g] = {}

PinAgrees(n, c) == n \in DOMAIN pins => c \in {pins[n].digest, Nothing}

NameInv(n) == Admissible(n, root[n]) /\ PinAgrees(n, root[n])

\* The staged files pass the checks.
Checked(f) ==
    /\ root[Staging(f)] = job[f].release.digest
    /\ Info[job[f].release.digest].name = NameOf(f)
    /\ Info[job[f].release.digest].version = job[f].release.version

FlowInv(f) ==
    /\ pc[f] # "idle" => /\ NameOf(f) \in Installs[f]
                         /\ job[f].release \in Releases[NameOf(f)]
                         /\ PinAgrees(NameOf(f), job[f].release.digest)
    /\ pc[f] \in {"staged", "aside", "promote"} => Checked(f)
    /\ pc[f] = "promote" /\ f \in moved =>
         /\ Admissible(NameOf(f), root[Previous(f)])
         /\ PinAgrees(NameOf(f), root[Previous(f)])
    /\ pc[f] \in {"retire", "pin"} => root[Target(f)] = job[f].release.digest

FileInPins ==
    \A n \in DOMAIN file : n \in DOMAIN pins /\ pins[n].digest = file[n].digest

InstallInv ==
    /\ TypeOK
    /\ FileInPins
    /\ \A n \in Name : NameInv(n)
    /\ \A f \in Flow : FlowInv(f)

-----------------------------------------------------------------------------

(* The directories of a name are paths. *)
LEMMA PathsOf ==
    ASSUME NEW n \in Name PROVE n \in Path /\ StagingOf[n] \in Path /\ PreviousOf[n] \in Path
BY PathAssumption DEF Path, Range

(* A digest that agrees with a pin is not `Nothing`, so it is the pinned one. *)
LEMMA DigestIsBuild ==
    ASSUME TypeOK, NEW f \in Flow
    PROVE  /\ job[f].release.digest \in Build /\ NameOf(f) \in Name
           /\ job[f].release.digest # Nothing
BY BuildAssumption DEF TypeOK, Job, Release, NameOf

(* A step of one flow that keeps to the paths of its name, and changes neither
   the lockfile nor what it installs, leaves the others alone. *)
LEMMA LocalStep ==
    ASSUME SeparatePaths, OneFlowPerName, InstallInv, NEW f \in Flow,
           pc[f] # "idle", NEW w \in Step, Goto(f, w),
           UNCHANGED <<file, pins, job, old, past>>,
           moved' \subseteq Flow, moved' \ {f} = moved \ {f},
           faults' \in 0 .. MaxFaults,
           root' \in [Path -> Build \cup {Half, Nothing}],
           \A p \in Path \ {Target(f), Staging(f), Previous(f)} : root'[p] = root[p],
           NameInv(NameOf(f))',
           w \in {"staged", "aside", "promote"} => Checked(f)',
           w = "promote" /\ f \in moved' =>
             /\ Admissible(NameOf(f), root[Previous(f)])'
             /\ PinAgrees(NameOf(f), root[Previous(f)])',
           w \in {"retire", "pin"} => (root[Target(f)] = job[f].release.digest)'
    PROVE  InstallInv'
<1> USE DEF InstallInv
<1>1. TypeOK'
  BY DEF TypeOK, Goto
<1>2. FileInPins'
  BY DEF FileInPins
<1>f. NameOf(f) \in Name /\ FlowInv(f) /\ pc \in [Flow -> Step]
  BY DigestIsBuild DEF TypeOK
<1>3. ASSUME NEW n \in Name PROVE NameInv(n)'
  <2>1. CASE n = NameOf(f)
    BY <2>1 DEF NameOf, NameInv, Admissible, PinAgrees, Verified
  <2>2. CASE n # NameOf(f)
    <3>1. root'[n] = root[n]
      BY <2>2, <1>f, PathsOf DEF SeparatePaths, Target, Staging, Previous
    <3> QED BY <3>1 DEF NameInv, Admissible, PinAgrees, Verified
  <2> QED BY <2>1, <2>2
<1>4. ASSUME NEW g \in Flow PROVE FlowInv(g)'
  <2>1. CASE g = f
    <3>1. pc'[f] = w
      BY <1>f DEF Goto
    <3> QED BY <2>1, <3>1, <1>f DEF FlowInv, NameOf, Target, Staging, Previous, Checked,
                                     PinAgrees, Admissible, Verified
  <2>2. CASE g # f
    <3>1. pc'[g] = pc[g] /\ (g \in moved' <=> g \in moved) /\ FlowInv(g)
      BY <2>2, <1>f DEF Goto
    <3>2. CASE pc[g] = "idle"
      BY <3>1, <3>2 DEF FlowInv
    <3>3. CASE pc[g] # "idle"
      <4>1. NameOf(g) \in Name /\ NameOf(g) # NameOf(f)
        BY <2>2, <3>3, <3>1, <1>f, DigestIsBuild DEF FlowInv, OneFlowPerName
      <4>2. /\ root'[Staging(g)] = root[Staging(g)]
            /\ root'[Previous(g)] = root[Previous(g)]
            /\ root'[Target(g)] = root[Target(g)]
        BY <4>1, <1>f, PathsOf DEF SeparatePaths, Target, Staging, Previous
      <4>3. /\ NameOf(g)' = NameOf(g) /\ job'[g] = job[g]
            /\ Staging(g)' = Staging(g) /\ Previous(g)' = Previous(g)
            /\ Target(g)' = Target(g)
        BY DEF NameOf, Target, Staging, Previous
      <4>4. /\ root'[Staging(g)'] = root[Staging(g)]
            /\ root'[Previous(g)'] = root[Previous(g)]
            /\ root'[Target(g)'] = root[Target(g)]
        BY <4>2, <4>3
      <4>5. Checked(g) => Checked(g)'
        BY <4>3, <4>4 DEF Checked
      <4>6. ASSUME NEW c
            PROVE  /\ PinAgrees(NameOf(g), c) => PinAgrees(NameOf(g), c)'
                   /\ Admissible(NameOf(g), c) => Admissible(NameOf(g), c)'
        BY <4>3 DEF PinAgrees, Admissible, Verified
      <4>7. /\ PinAgrees(NameOf(g), job[g].release.digest)'
            /\ (NameOf(g) \in Installs[g])' /\ (job[g].release \in Releases[NameOf(g)])'
        BY <3>1, <3>3, <4>3, <4>6 DEF FlowInv, PinAgrees
      <4>8. pc[g] = "promote" /\ g \in moved =>
              /\ Admissible(NameOf(g), root[Previous(g)])'
              /\ PinAgrees(NameOf(g), root[Previous(g)])'
        BY <3>1, <4>4, <4>3, <4>6 DEF FlowInv, PinAgrees, Admissible, Verified
      <4> QED BY <4>3, <4>4, <4>5, <4>7, <4>8, <3>1 DEF FlowInv
    <3> QED BY <3>2, <3>3
  <2> QED BY <2>1, <2>2
<1> QED BY <1>1, <1>2, <1>3, <1>4

-----------------------------------------------------------------------------
(* One lemma for each kind of step *)

(* A request concerns its own flow only. *)
LEMMA RequestStep ==
    ASSUME InstallInv, NEW f \in Flow, NEW n \in Installs[f], NEW r \in Releases[n],
           Request(f, n, r)
    PROVE  InstallInv'
<1> USE DEF InstallInv
<1>n. n \in Name /\ r \in Release
  BY FlowAssumption, IndexAssumption
<1>u. UNCHANGED <<root, file, pins, moved, faults, old, past>>
  BY DEF Request
<1>j. job' = [job EXCEPT ![f] = [name |-> n, release |-> r]] /\ pc' = [pc EXCEPT ![f] = "fetched"]
  BY DEF Request, Goto
<1>1. TypeOK'
  BY <1>n, <1>u, <1>j DEF TypeOK, Job, Step, Busy
<1>2. FileInPins'
  BY <1>u DEF FileInPins
<1>3. \A m \in Name : NameInv(m)'
  BY <1>u DEF NameInv, Admissible, PinAgrees, Verified
<1>4. FlowInv(f)'
  <2>1. pc'[f] = "fetched" /\ job'[f] = [name |-> n, release |-> r] /\ f \in Flow
    BY <1>j DEF TypeOK
  <2>2. NameOf(f)' = n
    BY <2>1 DEF NameOf
  <2>3. PinAgrees(NameOf(f), job[f].release.digest)'
    BY <2>1, <2>2, <1>u DEF Request, PinAllows, PinAgrees
  <2> QED BY <2>1, <2>2, <2>3 DEF FlowInv
<1>5. ASSUME NEW g \in Flow, g # f PROVE FlowInv(g)'
  <2>1. pc'[g] = pc[g] /\ job'[g] = job[g] /\ FlowInv(g)
    BY <1>j, <1>5 DEF TypeOK
  <2>2. /\ NameOf(g)' = NameOf(g) /\ Target(g)' = Target(g)
        /\ Staging(g)' = Staging(g) /\ Previous(g)' = Previous(g)
    BY <2>1 DEF NameOf, Target, Staging, Previous
  <2>3. Checked(g)' <=> Checked(g)
    BY <2>1, <2>2, <1>u DEF Checked
  <2>4. /\ Admissible(NameOf(g), root[Previous(g)])' <=> Admissible(NameOf(g), root[Previous(g)])
        /\ PinAgrees(NameOf(g), root[Previous(g)])' <=> PinAgrees(NameOf(g), root[Previous(g)])
    BY <2>2, <1>u DEF Admissible, PinAgrees, Verified
  <2>5. PinAgrees(NameOf(g), job[g].release.digest)' <=> PinAgrees(NameOf(g), job[g].release.digest)
    BY <2>1, <2>2, <1>u DEF PinAgrees
  <2> QED BY <2>1, <2>2, <2>3, <2>4, <2>5, <1>u DEF FlowInv
<1> QED BY <1>1, <1>2, <1>3, <1>4, <1>5

(* What is in the staging directory matters only once it is checked. *)
LEMMA StagingStep ==
    ASSUME SeparatePaths, OneFlowPerName, InstallInv, NEW f \in Flow, pc[f] # "idle",
           NEW w \in {"idle", "unpack", "check"}, Goto(f, w),
           NEW c \in Build \cup {Half, Nothing}, root' = Put(root, Staging(f), c),
           UNCHANGED <<file, pins, job, moved, faults, old, past>>
    PROVE  InstallInv'
<1>t. TypeOK /\ NameOf(f) \in Name /\ NameInv(NameOf(f))
  BY DigestIsBuild DEF InstallInv
<1>1. root' \in [Path -> Build \cup {Half, Nothing}]
  BY <1>t DEF Put, TypeOK
<1>2. \A p \in Path \ {Staging(f)} : root'[p] = root[p]
  BY <1>t DEF Put, TypeOK
<1>3. NameInv(NameOf(f))'
  <2>1. root'[NameOf(f)] = root[NameOf(f)] /\ NameOf(f)' = NameOf(f)
    BY <1>2, <1>t, PathsOf DEF SeparatePaths, Staging, NameOf
  <2> QED BY <2>1, <1>t DEF NameInv, Admissible, PinAgrees, Verified
<1>4. w \in Step /\ moved' \subseteq Flow /\ faults' \in 0 .. MaxFaults
  BY <1>t DEF TypeOK, Step, Busy
<1> QED BY <1>1, <1>2, <1>3, <1>4, LocalStep

(* The old version's directory is cleared before or after it is of use. *)
LEMMA PreviousStep ==
    ASSUME SeparatePaths, OneFlowPerName, InstallInv, NEW f \in Flow,
           NEW w \in {"aside", "pin"}, Goto(f, w),
           pc[f] = IF w = "aside" THEN "staged" ELSE "retire",
           root' \in {root, Put(root, Previous(f), Nothing)},
           faults' \in 0 .. MaxFaults,
           UNCHANGED <<file, pins, job, moved, old, past>>
    PROVE  InstallInv'
<1>t. TypeOK /\ NameOf(f) \in Name /\ NameInv(NameOf(f)) /\ FlowInv(f)
  BY DigestIsBuild DEF InstallInv
<1>1. root' \in [Path -> Build \cup {Half, Nothing}]
  BY <1>t DEF Put, TypeOK
<1>2. \A p \in Path \ {Previous(f)} : root'[p] = root[p]
  BY <1>t DEF Put, TypeOK
<1>p. NameOf(f) \in Path \ {Previous(f)} /\ Staging(f) \in Path \ {Previous(f)}
  BY <1>t, PathsOf DEF SeparatePaths, Staging, Previous
<1>s. /\ root'[NameOf(f)] = root[NameOf(f)] /\ root'[Staging(f)] = root[Staging(f)]
      /\ NameOf(f)' = NameOf(f) /\ Staging(f)' = Staging(f) /\ Target(f)' = Target(f)
  BY <1>2, <1>p DEF NameOf, Staging, Target
<1>3. NameInv(NameOf(f))'
  BY <1>s, <1>t DEF NameInv, Admissible, PinAgrees, Verified
<1>4. w \in {"staged", "aside", "promote"} => Checked(f)'
  BY <1>s, <1>t DEF FlowInv, Checked
<1>5. w \in {"retire", "pin"} => (root[Target(f)] = job[f].release.digest)'
  BY <1>s, <1>t DEF FlowInv, Target
<1>6. w \in Step /\ moved' \subseteq Flow /\ pc[f] # "idle"
  BY <1>t DEF TypeOK, Step, Busy
<1> QED BY <1>1, <1>2, <1>3, <1>4, <1>5, <1>6, LocalStep

(* A step that leaves the root alone: the files passed the checks, or the flow
   gives up. *)
LEMMA QuietStep ==
    ASSUME SeparatePaths, OneFlowPerName, InstallInv, NEW f \in Flow, pc[f] # "idle",
           NEW w \in {"idle", "staged"}, Goto(f, w), w = "staged" => Checked(f),
           faults' \in 0 .. MaxFaults,
           UNCHANGED <<root, file, pins, job, moved, old, past>>
    PROVE  InstallInv'
<1>t. TypeOK /\ NameOf(f) \in Name /\ NameInv(NameOf(f))
  BY DigestIsBuild DEF InstallInv
<1>1. NameInv(NameOf(f))'
  <2>1. NameOf(f)' = NameOf(f)
    BY DEF NameOf
  <2> QED BY <2>1, <1>t DEF NameInv, Admissible, PinAgrees, Verified
<1>2. Checked(f) => Checked(f)'
  BY DEF Checked, Staging, NameOf
<1>3. /\ w \in Step /\ moved' \subseteq Flow
      /\ root' \in [Path -> Build \cup {Half, Nothing}]
  BY <1>t DEF TypeOK, Step, Busy
<1> QED BY <1>1, <1>2, <1>3, LocalStep

(* The plugin moved aside is what was installed, and its name is free. *)
LEMMA MoveAsideStep ==
    ASSUME SeparatePaths, OneFlowPerName, InstallInv, NEW f \in Flow, MoveAside(f)
    PROVE  InstallInv'
<1>t. TypeOK /\ NameOf(f) \in Name /\ NameInv(NameOf(f)) /\ FlowInv(f)
  BY DigestIsBuild DEF InstallInv
<1>u. /\ pc[f] = "aside" /\ Goto(f, "promote")
      /\ UNCHANGED <<file, pins, job, faults, old, past>>
  BY DEF MoveAside
<1>p. /\ NameOf(f) \in Path /\ Staging(f) \in Path /\ Previous(f) \in Path
      /\ Staging(f) # NameOf(f) /\ Previous(f) # NameOf(f) /\ Staging(f) # Previous(f)
  BY <1>t, PathsOf DEF SeparatePaths, Staging, Previous
<1>1. \/ root' = root /\ moved' = moved \ {f}
      \/ /\ moved' = moved \cup {f}
         /\ root' = Put(Put(root, Previous(f), root[NameOf(f)]), NameOf(f), Nothing)
  BY DEF MoveAside, Target
<1>2. /\ root' \in [Path -> Build \cup {Half, Nothing}]
      /\ \A p \in Path \ {NameOf(f), Previous(f)} : root'[p] = root[p]
      /\ root'[NameOf(f)] \in {root[NameOf(f)], Nothing}
      /\ f \in moved' => root'[Previous(f)] = root[NameOf(f)]
  BY <1>1, <1>p, <1>t DEF Put, TypeOK
<1>s. NameOf(f)' = NameOf(f) /\ Staging(f)' = Staging(f) /\ Previous(f)' = Previous(f)
  BY <1>u DEF NameOf, Staging, Previous
<1>3. NameInv(NameOf(f))'
  BY <1>2, <1>s, <1>u, <1>t DEF NameInv, Admissible, PinAgrees, Verified
<1>4. Checked(f)'
  <2>1. root'[Staging(f)] = root[Staging(f)]
    BY <1>2, <1>p
  <2> QED BY <2>1, <1>u, <1>s, <1>t DEF FlowInv, Checked
<1>5. f \in moved' => /\ Admissible(NameOf(f), root[Previous(f)])'
                      /\ PinAgrees(NameOf(f), root[Previous(f)])'
  BY <1>2, <1>s, <1>u, <1>t DEF NameInv, Admissible, PinAgrees, Verified
<1>6. /\ "promote" \in Step /\ moved' \subseteq Flow /\ moved' \ {f} = moved \ {f}
      /\ faults' \in 0 .. MaxFaults
  BY <1>1, <1>u, <1>t DEF TypeOK, Step, Busy
<1>7. \A p \in Path \ {Target(f), Staging(f), Previous(f)} : root'[p] = root[p]
  BY <1>2 DEF Target
<1> QED BY <1>u, <1>2, <1>3, <1>4, <1>5, <1>6, <1>7, LocalStep

(* What is renamed into place passed the checks. *)
LEMMA PromoteStep ==
    ASSUME SeparatePaths, OneFlowPerName, InstallInv, NEW f \in Flow, Promote(f)
    PROVE  InstallInv'
<1>t. /\ TypeOK /\ NameOf(f) \in Name /\ FlowInv(f)
      /\ job[f].release.digest \in Build
  BY DigestIsBuild DEF InstallInv
<1>u. /\ pc[f] = "promote" /\ Goto(f, "retire")
      /\ UNCHANGED <<file, pins, job, moved, faults, old, past>>
      /\ root' = Put(Put(root, NameOf(f), root[Staging(f)]), Staging(f), Nothing)
  BY DEF Promote, Target
<1>p. NameOf(f) \in Path /\ Staging(f) \in Path /\ Staging(f) # NameOf(f)
  BY <1>t, PathsOf DEF SeparatePaths, Staging
<1>1. /\ root' \in [Path -> Build \cup {Half, Nothing}]
      /\ \A p \in Path \ {NameOf(f), Staging(f)} : root'[p] = root[p]
      /\ root'[NameOf(f)] = root[Staging(f)]
  BY <1>u, <1>p, <1>t DEF Put, TypeOK
<1>s. NameOf(f)' = NameOf(f) /\ Target(f)' = NameOf(f)
  BY <1>u DEF NameOf, Target
<1>2. root'[NameOf(f)] = job[f].release.digest
  BY <1>1, <1>u, <1>t DEF FlowInv, Checked
<1>3. Verified(NameOf(f), job[f].release.digest)
  BY <1>u, <1>t DEF Verified, FlowInv, Checked
<1>4. NameInv(NameOf(f))'
  <2>1. Admissible(NameOf(f), root[NameOf(f)])'
    BY <1>2, <1>3, <1>s, <1>u DEF Admissible, Verified
  <2>2. PinAgrees(NameOf(f), root[NameOf(f)])'
    BY <1>2, <1>s, <1>u, <1>t DEF PinAgrees, FlowInv
  <2> QED BY <2>1, <2>2 DEF NameInv
<1>5. (root[Target(f)] = job[f].release.digest)'
  BY <1>2, <1>s, <1>u
<1>6. "retire" \in Step /\ moved' \subseteq Flow /\ faults' \in 0 .. MaxFaults
  BY <1>u, <1>t DEF TypeOK, Step, Busy
<1>7. \A p \in Path \ {Target(f), Staging(f), Previous(f)} : root'[p] = root[p]
  BY <1>1 DEF Target
<1> QED BY <1>u, <1>1, <1>4, <1>5, <1>6, <1>7, LocalStep

(* What is put back is what was moved aside. *)
LEMMA PromoteFailsStep ==
    ASSUME SeparatePaths, OneFlowPerName, InstallInv, NEW f \in Flow, PromoteFails(f)
    PROVE  InstallInv'
<1>t. /\ TypeOK /\ NameOf(f) \in Name /\ FlowInv(f) /\ NameInv(NameOf(f))
      /\ MaxFaults \in Nat
  BY DigestIsBuild, FlowAssumption DEF InstallInv
<1>u. /\ pc[f] = "promote" /\ Goto(f, "idle")
      /\ UNCHANGED <<file, pins, job, moved, old, past>>
      /\ faults' = faults \/ Fault
  BY DEF PromoteFails
<1>p. /\ NameOf(f) \in Path /\ Staging(f) \in Path /\ Previous(f) \in Path
      /\ Staging(f) # NameOf(f) /\ Previous(f) # NameOf(f)
  BY <1>t, PathsOf DEF SeparatePaths, Staging, Previous
<1>r. \/ f \notin moved /\ root' = Put(root, Staging(f), Nothing)
      \/ /\ f \in moved
         /\ root' = Put(Put(Put(root, NameOf(f), root[Previous(f)]), Previous(f), Nothing),
                        Staging(f), Nothing)
  BY DEF PromoteFails, RolledBack, Target
<1>1. /\ root' \in [Path -> Build \cup {Half, Nothing}]
      /\ \A p \in Path \ {NameOf(f), Staging(f), Previous(f)} : root'[p] = root[p]
      /\ root'[NameOf(f)] = IF f \in moved THEN root[Previous(f)] ELSE root[NameOf(f)]
  BY <1>r, <1>p, <1>t DEF Put, TypeOK
<1>2. /\ Admissible(NameOf(f), root'[NameOf(f)])
      /\ PinAgrees(NameOf(f), root'[NameOf(f)])
  BY <1>1, <1>t, <1>u DEF NameInv, FlowInv
<1>3. NameInv(NameOf(f))'
  <2>1. NameOf(f)' = NameOf(f)
    BY <1>u DEF NameOf
  <2> QED BY <2>1, <1>2, <1>u DEF NameInv, Admissible, PinAgrees, Verified
<1>4. "idle" \in Step /\ moved' \subseteq Flow /\ faults' \in 0 .. MaxFaults
  BY <1>u, <1>t DEF TypeOK, Step, Fault
<1>5. \A p \in Path \ {Target(f), Staging(f), Previous(f)} : root'[p] = root[p]
  BY <1>1 DEF Target
<1> QED BY <1>u, <1>1, <1>3, <1>4, <1>5, LocalStep

(* The pin recorded is that of what was installed, and the file keeps its pins, or
   loses them all. *)
LEMMA PinStep ==
    ASSUME OneFlowPerName, InstallInv, NEW f \in Flow, PinIn(f),
           NEW w \in Step, w \in {"idle", "save"}, Goto(f, w), file' \in {file, NoPins},
           NEW S \in SUBSET Name, Remember(f, S),
           faults' \in 0 .. MaxFaults, UNCHANGED <<root, job, moved, old>>
    PROVE  InstallInv'
<1>t. /\ TypeOK /\ NameOf(f) \in Name /\ FlowInv(f)
      /\ job[f].release \in Release
  BY DigestIsBuild DEF InstallInv, TypeOK, Job
<1>u. /\ pc[f] = "pin" /\ pc' = [pc EXCEPT ![f] = w] /\ pins' = Pinned(f)
  BY DEF PinIn, Goto
<1>1. TypeOK'
  <2>1. DOMAIN pins \subseteq Name /\ pins \in [DOMAIN pins -> Pin]
    BY <1>t DEF TypeOK, LockSet
  <2>2. Recorded(job[f].release) \in Pin
    BY <1>t DEF Recorded, Pin, Release
  <2>3. DOMAIN pins \cup {NameOf(f)} \in SUBSET Name
    BY <2>1, <1>t
  <2>4. Pinned(f) \in [DOMAIN pins \cup {NameOf(f)} -> Pin]
    BY <2>1, <2>2 DEF Pinned
  <2>5. pins' \in LockSet
    BY <1>u, <2>3, <2>4 DEF LockSet
  <2>6. file' \in LockSet
    <3>e. {} \in SUBSET Name /\ NoPins \in [{} -> Pin]
      BY DEF NoPins
    <3>1. NoPins \in LockSet
      BY <3>e DEF LockSet
    <3>2. file \in LockSet
      BY <1>t DEF TypeOK
    <3> QED BY <3>1, <3>2
  <2>7. past' \in [sealed : [Name -> Build \cup {Nothing}], unsaved : SUBSET Name,
                   bare : SUBSET Name]
    BY <1>t, DigestIsBuild DEF Remember, TypeOK
  <2> QED BY <2>5, <2>6, <2>7, <1>u, <1>t DEF TypeOK
<1>p. /\ pins'[NameOf(f)].digest = job[f].release.digest
      /\ \A n \in Name \ {NameOf(f)} : /\ n \in DOMAIN pins' <=> n \in DOMAIN pins
                                       /\ n \in DOMAIN pins => pins'[n] = pins[n]
  BY <1>u DEF Pinned, Recorded
<1>2. FileInPins'
  <2>1. \A n \in DOMAIN file : n \in Name /\ n \in DOMAIN pins /\ pins[n].digest = file[n].digest
    BY <1>t DEF InstallInv, FileInPins, TypeOK, LockSet
  <2>2. NameOf(f) \in DOMAIN pins => pins[NameOf(f)].digest = job[f].release.digest
    BY <1>t, <1>u, DigestIsBuild DEF FlowInv, PinAgrees
  <2>3. NameOf(f) \in DOMAIN pins'
    BY <1>u DEF Pinned
  <2>4. \A n \in DOMAIN file' : n \in DOMAIN file /\ file'[n] = file[n]
    BY DEF NoPins
  <2> QED BY <2>1, <2>2, <2>3, <2>4, <1>p DEF FileInPins
<1>3. ASSUME NEW n \in Name PROVE NameInv(n)'
  <2>1. NameInv(n)
    BY DEF InstallInv
  <2>2. Admissible(n, root[n])'
    BY <2>1, <1>u DEF NameInv, Admissible, Verified
  <2>3. n = NameOf(f) => root'[n] = job[f].release.digest
    BY <1>u, <1>t DEF FlowInv, Target
  <2>4. PinAgrees(n, root[n])'
    BY <2>1, <2>3, <1>p, <1>u DEF NameInv, PinAgrees
  <2> QED BY <2>2, <2>4 DEF NameInv
<1>4. ASSUME NEW g \in Flow PROVE FlowInv(g)'
  <2>1. CASE g = f
    <3>1. pc'[f] = w /\ NameOf(f)' = NameOf(f) /\ job'[f] = job[f]
      BY <1>u, <1>t DEF TypeOK, NameOf
    <3>2. PinAgrees(NameOf(f), job[f].release.digest)'
      BY <3>1, <1>p DEF PinAgrees
    <3> QED BY <2>1, <3>1, <3>2, <1>t, <1>u DEF FlowInv
  <2>2. CASE g # f /\ pc[g] # "idle"
    <3>1. pc'[g] = pc[g] /\ FlowInv(g) /\ NameOf(g) \in Name
      BY <2>2, <1>u, <1>t, DigestIsBuild DEF TypeOK, InstallInv
    <3>2. NameOf(g) # NameOf(f)
      BY <2>2, <3>1, <1>t, <1>u DEF FlowInv, OneFlowPerName
    <3>3. /\ NameOf(g)' = NameOf(g) /\ Staging(g)' = Staging(g)
          /\ Previous(g)' = Previous(g) /\ Target(g)' = Target(g) /\ job'[g] = job[g]
      BY <1>u DEF NameOf, Staging, Previous, Target
    <3>4. ASSUME NEW c
          PROVE  /\ PinAgrees(NameOf(g), c) => PinAgrees(NameOf(g), c)'
                 /\ Admissible(NameOf(g), c) => Admissible(NameOf(g), c)'
      BY <3>1, <3>2, <3>3, <1>p, <1>u DEF PinAgrees, Admissible, Verified
    <3>5. PinAgrees(NameOf(g), job[g].release.digest)'
      BY <3>1, <3>3, <3>4, <2>2 DEF FlowInv, PinAgrees
    <3>6. pc[g] = "promote" /\ g \in moved =>
            /\ Admissible(NameOf(g), root[Previous(g)])'
            /\ PinAgrees(NameOf(g), root[Previous(g)])'
      BY <3>1, <3>3, <3>4, <1>u DEF FlowInv, PinAgrees, Admissible, Verified
    <3>7. Checked(g) => Checked(g)'
      BY <3>3, <1>u DEF Checked
    <3> QED BY <2>2, <3>1, <3>3, <3>5, <3>6, <3>7, <1>u DEF FlowInv
  <2>3. CASE g # f /\ pc[g] = "idle"
    <3>1. pc'[g] = "idle"
      BY <2>3, <1>u, <1>t DEF TypeOK
    <3> QED BY <3>1 DEF FlowInv
  <2> QED BY <2>1, <2>2, <2>3
<1> QED BY <1>1, <1>2, <1>3, <1>4 DEF InstallInv

(* Between a save and the next pin the two lockfiles are the same. *)
LEMMA SaveStep ==
    ASSUME InstallInv, NEW f \in Flow, Save(f) \/ WriteFails(f)
    PROVE  InstallInv'
<1>t. TypeOK
  BY DEF InstallInv
<1>u. /\ pc' = [pc EXCEPT ![f] = "idle"] /\ file' \in {file, pins}
      /\ past' \in {past, [past EXCEPT !.unsaved = {}]} /\ faults' \in 0 .. MaxFaults
      /\ UNCHANGED <<root, pins, job, moved, old>>
  BY <1>t, FlowAssumption DEF Save, WriteFails, Goto, Fault, TypeOK
<1>1. TypeOK' /\ FileInPins'
  <2>1. past' \in [sealed : [Name -> Build \cup {Nothing}], unsaved : SUBSET Name,
                   bare : SUBSET Name]
    BY <1>t, <1>u DEF TypeOK
  <2> QED BY <2>1, <1>t, <1>u DEF TypeOK, FileInPins, Step, InstallInv
<1>2. \A n \in Name : NameInv(n)'
  BY <1>u DEF InstallInv, NameInv, Admissible, PinAgrees, Verified
<1>3. ASSUME NEW g \in Flow PROVE FlowInv(g)'
  <2>1. FlowInv(g) /\ (pc'[g] = pc[g] \/ pc'[g] = "idle")
    BY <1>t, <1>u DEF InstallInv, TypeOK
  <2> QED BY <2>1, <1>u DEF FlowInv, NameOf, Target, Staging, Previous, Checked,
                            PinAgrees, Admissible, Verified
<1> QED BY <1>1, <1>2, <1>3 DEF InstallInv

(* A restart finds no more pins than the host had. *)
LEMMA CrashStep ==
    ASSUME InstallInv, Crash
    PROVE  InstallInv'
<1>t. TypeOK /\ FileInPins /\ MaxFaults \in Nat
  BY FlowAssumption DEF InstallInv
<1>u. /\ pc' = [f \in Flow |-> "idle"] /\ pins' = file /\ Fault
      /\ UNCHANGED <<root, file, job, moved, old>>
  BY DEF Crash
<1>1. TypeOK'
  <2>1. past' \in [sealed : [Name -> Build \cup {Nothing}], unsaved : SUBSET Name,
                   bare : SUBSET Name]
    BY <1>t DEF Crash, TypeOK
  <2> QED BY <2>1, <1>t, <1>u DEF TypeOK, Step, Fault
<1>2. FileInPins'
  BY <1>u DEF FileInPins
<1>3. \A n \in Name : NameInv(n)'
  BY <1>t, <1>u DEF InstallInv, NameInv, Admissible, PinAgrees, Verified, FileInPins
<1>4. \A f \in Flow : FlowInv(f)'
  BY <1>u DEF FlowInv
<1> QED BY <1>1, <1>2, <1>3, <1>4 DEF InstallInv

-----------------------------------------------------------------------------
(* The invariant, and what follows from it *)

(* It holds at first. *)
LEMMA InstallInit ==
    ASSUME Init PROVE InstallInv
<1>1. PICK there \in Roots : root = [p \in Path |-> IF p \in Name THEN there[p] ELSE Nothing]
  BY DEF Init
<1>2. /\ there \in [Name -> Build \cup {Nothing}]
      /\ file \in LockSet /\ pins = file /\ MaxFaults \in Nat
      /\ \A n \in DOMAIN file : root[n] \in {file[n].digest, Nothing}
  BY StartAssumption, FlowAssumption DEF Init
<1>3. root \in [Path -> Build \cup {Half, Nothing}]
  BY <1>1, <1>2
<1>4. \A f \in Flow : job[f] \in Job
  BY JobAssumption DEF Init
<1>h. past \in [sealed : [Name -> Build \cup {Nothing}], unsaved : SUBSET Name,
                bare : SUBSET Name]
  <2>1. \A n \in DOMAIN file : file[n].digest \in Build
    BY <1>2 DEF LockSet, Pin
  <2> QED BY <2>1 DEF Init
<1>5. TypeOK
  BY <1>2, <1>3, <1>4, <1>h DEF Init, TypeOK, Step
<1>6. FileInPins
  BY <1>2 DEF FileInPins
<1>7. \A n \in Name : NameInv(n)
  BY <1>2 DEF Init, NameInv, Admissible, PinAgrees
<1>8. \A f \in Flow : FlowInv(f)
  BY DEF Init, FlowInv
<1> QED BY <1>5, <1>6, <1>7, <1>8 DEF InstallInv

(* Every step keeps it. *)
LEMMA InstallSteps ==
    ASSUME SeparatePaths, OneFlowPerName, InstallInv, [Next]_vars
    PROVE  InstallInv'
<1>t. TypeOK /\ MaxFaults \in Nat
  BY FlowAssumption DEF InstallInv
<1>1. ASSUME NEW f \in Flow, NEW n \in Installs[f], NEW r \in Releases[n],
             Stage(f, n, r) \/ StageUpgrade(f, n, r)
      PROVE  InstallInv'
  BY <1>1, RequestStep DEF Stage, StageUpgrade
<1>2. ASSUME NEW f \in Flow, StagingDir(f) PROVE InstallInv'
  BY <1>2, StagingStep DEF StagingDir
<1>3. ASSUME NEW f \in Flow, Unpack(f) PROVE InstallInv'
  <2>1. PICK b \in Served : root' = Put(root, Staging(f), b)
    BY <1>3 DEF Unpack
  <2>2. b \in Build \cup {Half, Nothing}
    BY BuildAssumption
  <2> QED BY <1>3, <2>1, <2>2, StagingStep DEF Unpack
<1>4. ASSUME NEW f \in Flow, UnpackFails(f) PROVE InstallInv'
  BY <1>4, StagingStep DEF UnpackFails, StageFails
<1>5. ASSUME NEW f \in Flow, Check(f) PROVE InstallInv'
  <2>1. CASE Matches(f) /\ Goto(f, "staged") /\ UNCHANGED <<root, file, pins, job, moved, faults, old, past>>
    <3>1. Checked(f)
      BY <2>1 DEF Matches, Checked
    <3>2. pc[f] # "idle" /\ faults' \in 0 .. MaxFaults
      BY <1>5, <2>1, <1>t DEF Check, TypeOK
    <3> QED BY <2>1, <3>1, <3>2, QuietStep
  <2>2. CASE StageFails(f)
    BY <1>5, <2>2, StagingStep DEF Check, StageFails
  <2> QED BY <1>5, <2>1, <2>2 DEF Check
<1>6. ASSUME NEW f \in Flow, Discard(f) PROVE InstallInv'
  BY <1>6, StagingStep DEF Discard, StageFails
<1>7. ASSUME NEW f \in Flow, ClearPrevious(f) PROVE InstallInv'
  <2>1. faults' \in 0 .. MaxFaults
    BY <1>7, <1>t DEF ClearPrevious, TypeOK
  <2> QED BY <1>7, <2>1, PreviousStep DEF ClearPrevious
<1>8. ASSUME NEW f \in Flow, MoveAside(f) PROVE InstallInv'
  BY <1>8, MoveAsideStep
<1>9. ASSUME NEW f \in Flow, Promote(f) PROVE InstallInv'
  BY <1>9, PromoteStep
<1>10. ASSUME NEW f \in Flow, Retire(f) PROVE InstallInv'
  <2>1. root' \in {root, Put(root, Previous(f), Nothing)}
    BY <1>10 DEF Retire, Retired
  <2>2. faults' \in 0 .. MaxFaults
    BY <1>10, <1>t DEF Retire, TypeOK
  <2> QED BY <1>10, <2>1, <2>2, PreviousStep DEF Retire
<1>11. ASSUME NEW f \in Flow, PinAndTruncate(f) \/ OpenFails(f) PROVE InstallInv'
  <2>1. CASE PinAndTruncate(f)
    <3>1. faults' \in 0 .. MaxFaults /\ "save" \in Step
      BY <2>1, <1>t DEF PinAndTruncate, TypeOK, Step
    <3> QED BY <2>1, <3>1, PinStep DEF PinAndTruncate
  <2>2. CASE OpenFails(f)
    <3>1. faults' \in 0 .. MaxFaults /\ "idle" \in Step
      BY <2>2, <1>t DEF OpenFails, Fault, TypeOK, Step
    <3>2. past.unsaved \cup {NameOf(f)} \in SUBSET Name
      BY <1>t, DigestIsBuild DEF TypeOK
    <3> QED BY <2>2, <3>1, <3>2, PinStep DEF OpenFails
  <2> QED BY <1>11, <2>1, <2>2
<1>12. ASSUME NEW f \in Flow, Save(f) \/ WriteFails(f) PROVE InstallInv'
  BY <1>12, SaveStep
<1>13. ASSUME NEW f \in Flow, DropHandle(f) \/ CommitStops(f) PROVE InstallInv'
  <2>1. /\ pc[f] # "idle" /\ Goto(f, "idle") /\ Fault
        /\ UNCHANGED <<root, file, pins, job, moved, old, past>>
    BY <1>13 DEF DropHandle, CommitStops
  <2>2. faults' \in 0 .. MaxFaults
    BY <2>1, <1>t DEF Fault, TypeOK
  <2> QED BY <2>1, <2>2, QuietStep
<1>14. ASSUME NEW f \in Flow, PromoteFails(f) PROVE InstallInv'
  BY <1>14, PromoteFailsStep
<1>15. ASSUME NEW f \in Flow, RetireFails(f) PROVE InstallInv'
  <2>1. faults' \in 0 .. MaxFaults
    BY <1>15, <1>t DEF RetireFails, Fault, TypeOK
  <2> QED BY <1>15, <2>1, PreviousStep DEF RetireFails
<1>16. ASSUME Crash PROVE InstallInv'
  BY <1>16, CrashStep
<1>17. ASSUME UNCHANGED vars PROVE InstallInv'
  <2>1. TypeOK' /\ FileInPins'
    BY <1>17 DEF vars, InstallInv, TypeOK, FileInPins
  <2>2. \A n \in Name : NameInv(n)'
    BY <1>17 DEF vars, InstallInv, NameInv, Admissible, Verified, PinAgrees
  <2>3. ASSUME NEW f \in Flow PROVE FlowInv(f)'
    <3>1. FlowInv(f)
      BY DEF InstallInv
    <3>2. UNCHANGED <<root, file, pins, pc, job, moved, faults, old, past>>
      BY <1>17 DEF vars
    <3>3. QED
      BY <3>1, <3>2 DEF FlowInv, Checked, Admissible, Verified, PinAgrees, NameOf, Target,
                        Staging, Previous
  <2>4. QED
    BY <2>1, <2>2, <2>3 DEF InstallInv
<1> QED BY <1>1, <1>2, <1>3, <1>4, <1>5, <1>6, <1>7, <1>8, <1>9, <1>10, <1>11, <1>12,
           <1>13, <1>14, <1>15, <1>16, <1>17 DEF Next

(* Every reachable state of the installer and its lockfile is well typed, and
   each flow's files, pins and release agree. *)
THEOREM InstallIsSound ==
    ASSUME SeparatePaths, OneFlowPerName PROVE Spec => []InstallInv
BY InstallInit, InstallSteps, PTL DEF Spec

(* The state of the installer has its type. *)
THEOREM InstallTypes ==
    ASSUME SeparatePaths, OneFlowPerName PROVE Spec => []TypeOK
<1>1. InstallInv => TypeOK
  BY DEF InstallInv
<1> QED BY <1>1, InstallIsSound, PTL

(* "A plugin that fails any check never exists there" (install.rs). *)
THEOREM OnlyVerifiedInstalled ==
    ASSUME SeparatePaths, OneFlowPerName PROVE Spec => []OnlyVerified
<1>1. InstallInv => OnlyVerified
  BY DEF InstallInv, NameInv, OnlyVerified
<1> QED BY <1>1, InstallIsSound, PTL

(* One flow works on a plugin at a time. *)
LEMMA FlowAlone ==
    ASSUME OneFlowPerName, InstallInv, NEW f \in Flow, NEW g \in Flow,
           pc[f] # "idle", pc[g] # "idle", NameOf(g) = NameOf(f)
    PROVE  g = f
BY DEF OneFlowPerName, InstallInv, FlowInv

-----------------------------------------------------------------------------
(* What was pinned stays pinned, and what is installed without a pin is what a crash
   left: the pins the file may lack are remembered, and so are the names whose
   build had no pin when the process died. *)

\* The build is one of the first, or its name is pinned, or remembered to be without.
Accounted(n, c) == c \notin {old[n], Nothing} => n \in DOMAIN pins \cup past.bare

\* The file has the pins it may not lack.
Sealed(n) ==
    /\ past.sealed[n] # Nothing => n \in DOMAIN pins /\ pins[n].digest = past.sealed[n]
    /\ n \notin past.unsaved => /\ n \in DOMAIN file <=> n \in DOMAIN pins
                                /\ n \in DOMAIN pins => file[n].digest = pins[n].digest

Promised(n) == Accounted(n, root[n]) \/ Working(n, {"retire", "pin"})

AsideIsAccounted(f) ==
    pc[f] = "promote" /\ f \in moved => Accounted(NameOf(f), root[Previous(f)])

PastInv ==
    /\ \A n \in Name : Sealed(n) /\ Promised(n)
    /\ \A f \in Flow : AsideIsAccounted(f)

(* A step of one flow on the paths of its plugin that leaves the lockfile alone. *)
LEMMA PastLocal ==
    ASSUME SeparatePaths, OneFlowPerName, InstallInv, PastInv, NEW f \in Flow,
           pc[f] # "idle", NEW w, Goto(f, w),
           UNCHANGED <<file, pins, job, old, past>>, moved' \ {f} = moved \ {f},
           \A p \in Path \ {Target(f), Staging(f), Previous(f)} : root'[p] = root[p],
           Accounted(NameOf(f), root'[NameOf(f)]) \/ w \in {"retire", "pin"},
           w = "promote" /\ f \in moved' => Accounted(NameOf(f), root'[Previous(f)])
    PROVE  PastInv'
<1>t. /\ pc \in [Flow -> Step] /\ NameOf(f) \in Name
  BY DigestIsBuild DEF InstallInv, TypeOK
<1>n. \A g \in Flow : NameOf(g)' = NameOf(g)
  BY DEF NameOf
<1>g. \A g \in Flow \ {f} : pc'[g] = pc[g] /\ (g \in moved' <=> g \in moved)
  BY <1>t DEF Goto
<1>f. pc'[f] = w
  BY <1>t DEF Goto
<1>1. \A n \in Name : Sealed(n)'
  BY DEF PastInv, Sealed
<1>2. ASSUME NEW n \in Name PROVE Promised(n)'
  <2>1. CASE n = NameOf(f)
    BY <2>1, <1>f, <1>n DEF Promised, Accounted, Working
  <2>2. CASE n # NameOf(f)
    <3>1. root'[n] = root[n] /\ Promised(n)
      BY <2>2, <1>t, PathsOf DEF PastInv, SeparatePaths, Target, Staging, Previous
    <3>2. Working(n, {"retire", "pin"}) => Working(n, {"retire", "pin"})'
      BY <2>2, <1>g, <1>n DEF Working
    <3> QED BY <3>1, <3>2 DEF Promised, Accounted
  <2> QED BY <2>1, <2>2
<1>3. ASSUME NEW g \in Flow PROVE AsideIsAccounted(g)'
  <2>1. CASE g = f
    BY <2>1, <1>f, <1>n DEF AsideIsAccounted, Accounted, Previous
  <2>2. CASE g # f
    <3>1. SUFFICES ASSUME pc[g] = "promote", g \in moved
                   PROVE  Accounted(NameOf(g), root[Previous(g)])'
      BY <2>2, <1>g DEF AsideIsAccounted
    <3>2. NameOf(g) # NameOf(f) /\ NameOf(g) \in Name
      BY <2>2, <3>1, FlowAlone, DigestIsBuild DEF InstallInv
    <3>3. root'[Previous(g)] = root[Previous(g)] /\ Previous(g)' = Previous(g)
      BY <3>2, <1>n, <1>t, PathsOf DEF SeparatePaths, Target, Staging, Previous
    <3>4. Accounted(NameOf(g), root[Previous(g)])
      BY <3>1 DEF PastInv, AsideIsAccounted
    <3> QED BY <3>3, <3>4, <1>n DEF Accounted
  <2> QED BY <2>1, <2>2
<1> QED BY <1>1, <1>2, <1>3 DEF PastInv

(* The plugin's own flow promises for it. *)
LEMMA FlowPromises ==
    ASSUME OneFlowPerName, InstallInv, PastInv, NEW f \in Flow,
           pc[f] \notin {"idle", "retire", "pin"}
    PROVE  Accounted(NameOf(f), root[NameOf(f)])
<1>1. NameOf(f) \in Name /\ Promised(NameOf(f))
  BY DigestIsBuild DEF PastInv, InstallInv
<1>2. ~Working(NameOf(f), {"retire", "pin"})
  BY FlowAlone DEF Working
<1> QED BY <1>1, <1>2 DEF Promised

(* The pin is made: from now on the name is pinned, or still is. *)
LEMMA PastPin ==
    ASSUME OneFlowPerName, InstallInv, PastInv, NEW f \in Flow, PinIn(f),
           NEW w, w \in {"idle", "save"}, Goto(f, w),
           NEW S \in SUBSET Name, Remember(f, S),
           \/ file' = NoPins /\ S = Name
           \/ file' = file /\ S = past.unsaved \cup {NameOf(f)},
           UNCHANGED <<root, job, moved, old>>
    PROVE  PastInv'
<1>t. /\ pc \in [Flow -> Step] /\ NameOf(f) \in Name /\ FlowInv(f) /\ InstallInv
      /\ job[f].release.digest \in Build /\ job[f].release.digest # Nothing
      /\ past \in [sealed : [Name -> Build \cup {Nothing}], unsaved : SUBSET Name,
                   bare : SUBSET Name]
  BY DigestIsBuild DEF InstallInv, TypeOK
<1>u. /\ pc[f] = "pin" /\ pc'[f] = w /\ pins' = Pinned(f)
      /\ \A g \in Flow \ {f} : pc'[g] = pc[g]
      /\ \A g \in Flow : NameOf(g)' = NameOf(g) /\ Previous(g)' = Previous(g)
  BY <1>t DEF PinIn, Goto, NameOf, Previous
<1>p. /\ NameOf(f) \in DOMAIN pins' /\ pins'[NameOf(f)].digest = job[f].release.digest
      /\ \A n \in Name \ {NameOf(f)} : /\ n \in DOMAIN pins' <=> n \in DOMAIN pins
                                       /\ n \in DOMAIN pins => pins'[n] = pins[n]
  BY <1>u DEF Pinned, Recorded
<1>h. /\ past'.unsaved = S /\ past'.bare = past.bare \ {NameOf(f)}
      /\ \A n \in Name \ {NameOf(f)} : past'.sealed[n] = past.sealed[n]
      /\ past'.sealed[NameOf(f)] = IF past.sealed[NameOf(f)] = Nothing
                                   THEN job[f].release.digest ELSE past.sealed[NameOf(f)]
  BY <1>t DEF Remember
<1>a. \A n \in Name : \A c : Accounted(n, c) => Accounted(n, c)'
  BY <1>p, <1>h DEF Accounted
<1>1. ASSUME NEW n \in Name PROVE Sealed(n)'
  <2>1. CASE n = NameOf(f)
    <3>1. past.sealed[n] # Nothing => past.sealed[n] = job[f].release.digest
      BY <2>1, <1>t, <1>u DEF PastInv, Sealed, FlowInv, PinAgrees
    <3>2. n \in past'.unsaved
      BY <2>1, <1>h
    <3> QED BY <2>1, <3>1, <3>2, <1>h, <1>p DEF Sealed
  <2>2. CASE n # NameOf(f)
    <3>1. Sealed(n) /\ (n \notin S => file' = file /\ n \notin past.unsaved)
      BY <2>2 DEF PastInv
    <3> QED BY <2>2, <3>1, <1>h, <1>p DEF Sealed
  <2> QED BY <2>1, <2>2
<1>2. ASSUME NEW n \in Name PROVE Promised(n)'
  <2>1. CASE n = NameOf(f)
    BY <2>1, <1>p DEF Promised, Accounted
  <2>2. CASE n # NameOf(f)
    <3>1. Working(n, {"retire", "pin"}) => Working(n, {"retire", "pin"})'
      BY <2>2, <1>u DEF Working
    <3>2. Promised(n)
      BY DEF PastInv
    <3>3. Accounted(n, root[n]) => Accounted(n, root[n])'
      BY <2>2, <1>p, <1>h DEF Accounted
    <3> QED BY <3>1, <3>2, <3>3 DEF Promised
  <2> QED BY <2>1, <2>2
<1>3. ASSUME NEW g \in Flow PROVE AsideIsAccounted(g)'
  <2>1. SUFFICES ASSUME g # f, pc[g] = "promote", g \in moved
                 PROVE  Accounted(NameOf(g), root[Previous(g)])'
    BY <1>u DEF AsideIsAccounted
  <2>2. NameOf(g) # NameOf(f) /\ NameOf(g) \in Name
    BY <2>1, <1>u, <1>t, FlowAlone, DigestIsBuild DEF InstallInv
  <2>3. Accounted(NameOf(g), root[Previous(g)])
    BY <2>1 DEF PastInv, AsideIsAccounted
  <2> QED BY <2>2, <2>3, <1>u, <1>p, <1>h DEF Accounted
<1> QED BY <1>1, <1>2, <1>3 DEF PastInv

(* The file takes up the pins, or is left as it was truncated. *)
LEMMA PastSave ==
    ASSUME InstallInv, PastInv, NEW f \in Flow, Save(f) \/ WriteFails(f)
    PROVE  PastInv'
<1>t. /\ pc \in [Flow -> Step]
      /\ past \in [sealed : [Name -> Build \cup {Nothing}], unsaved : SUBSET Name,
                   bare : SUBSET Name]
  BY DEF InstallInv, TypeOK
<1>u. /\ pc[f] = "save" /\ pc'[f] = "idle" /\ \A g \in Flow \ {f} : pc'[g] = pc[g]
      /\ UNCHANGED <<root, pins, job, moved, old>>
      /\ past'.sealed = past.sealed /\ past'.bare = past.bare
      /\ file' = pins \/ (file' = file /\ past' = past)
  BY <1>t DEF Save, WriteFails, Goto
<1>1. \A n \in Name : Sealed(n)'
  BY <1>u DEF PastInv, Sealed
<1>2. ASSUME NEW n \in Name PROVE Promised(n)'
  <2>1. Working(n, {"retire", "pin"}) => Working(n, {"retire", "pin"})'
    BY <1>u DEF Working, NameOf
  <2> QED BY <2>1, <1>u DEF PastInv, Promised, Accounted
<1>3. \A g \in Flow : AsideIsAccounted(g)'
  BY <1>u DEF PastInv, AsideIsAccounted, Accounted, Previous, NameOf
<1> QED BY <1>1, <1>2, <1>3 DEF PastInv

(* A restart: what may be lost is no longer held to be pinned. *)
LEMMA PastCrash ==
    ASSUME InstallInv, PastInv, Crash
    PROVE  PastInv'
<1>u. /\ pc' = [f \in Flow |-> "idle"] /\ pins' = file
      /\ UNCHANGED <<root, file, job, moved, old>>
      /\ past'.sealed = [n \in Name |-> IF n \in past.unsaved THEN Nothing ELSE past.sealed[n]]
      /\ past'.bare = past.bare \cup past.unsaved
                        \cup {n \in Name : Working(n, {"retire", "pin"})}
  BY DEF Crash
<1>1. \A n \in Name : Sealed(n)'
  BY <1>u DEF PastInv, Sealed
<1>2. ASSUME NEW n \in Name PROVE Promised(n)'
  <2>1. Promised(n) /\ Sealed(n)
    BY DEF PastInv
  <2>2. n \in DOMAIN pins => n \in DOMAIN file \cup past.unsaved
    BY <2>1 DEF Sealed
  <2> QED BY <2>1, <2>2, <1>u DEF Promised, Accounted
<1>3. \A g \in Flow : AsideIsAccounted(g)'
  BY <1>u DEF AsideIsAccounted
<1> QED BY <1>1, <1>2, <1>3 DEF PastInv

LEMMA PastInit ==
    ASSUME Init PROVE PastInv
<1>1. /\ past.sealed = [n \in Name |-> IF n \in DOMAIN file THEN file[n].digest ELSE Nothing]
      /\ past.unsaved = {} /\ pins = file /\ moved = {} /\ old = root
  BY DEF Init
<1> QED BY <1>1 DEF PastInv, Sealed, Promised, Accounted, AsideIsAccounted

LEMMA PastNext ==
    ASSUME SeparatePaths, OneFlowPerName, InstallInv, PastInv, [Next]_vars
    PROVE  PastInv'
<1>t. /\ root \in [Path -> Build \cup {Half, Nothing}] /\ pc \in [Flow -> Step]
      /\ moved \subseteq Flow /\ \A f \in Flow : NameOf(f) \in Name /\ AsideIsAccounted(f)
  BY DigestIsBuild DEF InstallInv, TypeOK, PastInv
<1>a. \A n \in Name : Accounted(n, Nothing)
  BY DEF Accounted
<1>1. ASSUME NEW f \in Flow, NEW n, NEW r, Request(f, n, r) PROVE PastInv'
  <2>1. /\ pc[f] = "idle" /\ pc' = [pc EXCEPT ![f] = "fetched"]
        /\ job' = [job EXCEPT ![f] = [name |-> n, release |-> r]]
        /\ UNCHANGED <<root, file, pins, moved, old, past>>
    BY <1>1 DEF Request, Goto
  <2>2. \A g \in Flow \ {f} : pc'[g] = pc[g] /\ NameOf(g)' = NameOf(g) /\ Previous(g)' = Previous(g)
    BY <1>t, <2>1 DEF NameOf, Previous
  <2>3. pc'[f] = "fetched"
    BY <1>t, <2>1
  <2>4. \A g \in Flow : AsideIsAccounted(g)'
    BY <2>1, <2>2, <2>3, <1>t DEF AsideIsAccounted, Accounted
  <2>5. \A m \in Name : Sealed(m)'
    BY <2>1 DEF PastInv, Sealed
  <2>6. ASSUME NEW m \in Name PROVE Promised(m)'
    <3>1. Working(m, {"retire", "pin"}) => Working(m, {"retire", "pin"})'
      BY <2>1, <2>2 DEF Working
    <3> QED BY <3>1, <2>1 DEF PastInv, Promised, Accounted
  <2> QED BY <2>4, <2>5, <2>6 DEF PastInv
<1>s. ASSUME NEW f \in Flow, pc[f] \notin {"idle", "promote", "retire", "pin"},
             NEW w, w # "promote", Goto(f, w),
             root' = root \/ \E c : root' = Put(root, Staging(f), c)
                          \/ root' = Put(root, Previous(f), c),
             UNCHANGED <<file, pins, job, moved, old, past>>
      PROVE  PastInv'
  <2>1. /\ \A p \in Path \ {Staging(f), Previous(f)} : root'[p] = root[p]
        /\ root'[NameOf(f)] = root[NameOf(f)]
    BY <1>t, <1>s, PathsOf DEF Put, SeparatePaths, Staging, Previous
  <2> QED BY <1>s, <2>1, FlowPromises, PastLocal
<1>2. ASSUME NEW f \in Flow, StagingDir(f) \/ Unpack(f) \/ UnpackFails(f) \/ Check(f) \/ Discard(f)
      PROVE  PastInv'
  <2>1. CASE StagingDir(f)
    BY <2>1, <1>s DEF StagingDir
  <2>2. CASE Unpack(f)
    BY <2>2, <1>s DEF Unpack
  <2>3. CASE UnpackFails(f)
    BY <2>3, <1>s DEF UnpackFails, StageFails
  <2>4. CASE Check(f)
    BY <2>4, <1>s DEF Check, StageFails
  <2>5. CASE Discard(f)
    BY <2>5, <1>s DEF Discard, StageFails
  <2> QED BY <1>2, <2>1, <2>2, <2>3, <2>4, <2>5
<1>3. ASSUME NEW f \in Flow, ClearPrevious(f) \/ DropHandle(f) \/ CommitStops(f) PROVE PastInv'
  <2>1. CASE ClearPrevious(f)
    BY <2>1, <1>s DEF ClearPrevious
  <2>2. CASE DropHandle(f)
    BY <2>2, <1>s DEF DropHandle
  <2>3. CASE CommitStops(f)
    BY <2>3, <1>s DEF CommitStops
  <2> QED BY <1>3, <2>1, <2>2, <2>3
<1>4. ASSUME NEW f \in Flow, MoveAside(f) PROVE PastInv'
  <2>1. /\ pc[f] = "aside" /\ Goto(f, "promote") /\ UNCHANGED <<file, pins, job, old, past>>
        /\ moved' \in {moved \ {f}, moved \cup {f}}
        /\ Accounted(NameOf(f), root[NameOf(f)])
    BY <1>4, FlowPromises DEF MoveAside
  <2>2. /\ NameOf(f) \in Path /\ Previous(f) \in Path /\ Previous(f) # NameOf(f)
    BY <1>t, PathsOf DEF SeparatePaths, Previous
  <2>3. CASE root[NameOf(f)] = Nothing
    <3>1. moved' = moved \ {f} /\ root' = root
      BY <1>4, <2>3 DEF MoveAside, Target
    <3> QED BY <2>1, <3>1, PastLocal
  <2>4. CASE root[NameOf(f)] # Nothing
    <3>1. root' = Put(Put(root, Previous(f), root[NameOf(f)]), NameOf(f), Nothing)
      BY <1>4, <2>4 DEF MoveAside, Target
    <3>2. /\ \A p \in Path \ {Target(f), Staging(f), Previous(f)} : root'[p] = root[p]
          /\ root'[NameOf(f)] = Nothing /\ root'[Previous(f)] = root[NameOf(f)]
      BY <3>1, <2>2, <1>t DEF Put, Target
    <3> QED BY <2>1, <3>2, <1>a, <1>t, PastLocal
  <2> QED BY <2>3, <2>4
<1>5. ASSUME NEW f \in Flow, Promote(f) PROVE PastInv'
  <2>1. /\ pc[f] = "promote" /\ Goto(f, "retire") /\ UNCHANGED <<file, pins, job, moved, old, past>>
        /\ \A p \in Path \ {Target(f), Staging(f), Previous(f)} : root'[p] = root[p]
    BY <1>5, <1>t, PathsOf DEF Promote, Put, Target, Staging
  <2> QED BY <2>1, PastLocal
<1>6. ASSUME NEW f \in Flow, PromoteFails(f) PROVE PastInv'
  <2>1. /\ pc[f] = "promote" /\ Goto(f, "idle") /\ UNCHANGED <<file, pins, job, moved, old, past>>
        /\ Accounted(NameOf(f), root[NameOf(f)])
    BY <1>6, FlowPromises DEF PromoteFails
  <2>2. /\ NameOf(f) \in Path /\ Staging(f) \in Path /\ Previous(f) \in Path
        /\ Staging(f) # NameOf(f) /\ Previous(f) # NameOf(f)
    BY <1>t, PathsOf DEF SeparatePaths, Staging, Previous
  <2>3. \/ f \notin moved /\ root' = Put(root, Staging(f), Nothing)
        \/ /\ f \in moved
           /\ root' = Put(Put(Put(root, NameOf(f), root[Previous(f)]), Previous(f), Nothing),
                          Staging(f), Nothing)
    BY <1>6 DEF PromoteFails, RolledBack, Target
  <2>4. /\ \A p \in Path \ {Target(f), Staging(f), Previous(f)} : root'[p] = root[p]
        /\ root'[NameOf(f)] = IF f \in moved THEN root[Previous(f)] ELSE root[NameOf(f)]
    BY <2>2, <2>3, <1>t DEF Put, Target
  <2>5. Accounted(NameOf(f), root'[NameOf(f)])
    BY <2>1, <2>4, <1>t DEF AsideIsAccounted
  <2> QED BY <2>1, <2>4, <2>5, PastLocal
<1>7. ASSUME NEW f \in Flow, Retire(f) \/ RetireFails(f) PROVE PastInv'
  <2>1. /\ pc[f] = "retire" /\ Goto(f, "pin") /\ UNCHANGED <<file, pins, job, moved, old, past>>
        /\ root' \in {root, Put(root, Previous(f), Nothing)}
    BY <1>7 DEF Retire, RetireFails, Retired
  <2>2. \A p \in Path \ {Target(f), Staging(f), Previous(f)} : root'[p] = root[p]
    BY <2>1, <1>t DEF Put
  <2> QED BY <2>1, <2>2, PastLocal
<1>8. ASSUME NEW f \in Flow, PinAndTruncate(f) \/ OpenFails(f) PROVE PastInv'
  <2>1. past.unsaved \cup {NameOf(f)} \in SUBSET Name
    BY <1>t DEF InstallInv, TypeOK
  <2>2. CASE PinAndTruncate(f)
    BY <2>2, PastPin DEF PinAndTruncate
  <2>3. CASE OpenFails(f)
    BY <2>1, <2>3, PastPin DEF OpenFails
  <2> QED BY <1>8, <2>2, <2>3
<1>9. ASSUME NEW f \in Flow, Save(f) \/ WriteFails(f) PROVE PastInv'
  BY <1>9, PastSave
<1>10. ASSUME Crash PROVE PastInv'
  BY <1>10, PastCrash
<1>11. ASSUME UNCHANGED vars PROVE PastInv'
  BY <1>11 DEF vars, PastInv, Sealed, Promised, Accounted, AsideIsAccounted, Working, NameOf,
               Previous
<1> QED BY <1>1, <1>2, <1>3, <1>4, <1>5, <1>6, <1>7, <1>8, <1>9, <1>10, <1>11
        DEF Next, Stage, StageUpgrade

(* What the host pinned stays pinned at that digest and is what is installed under
   the name, until a restart finds a lockfile that may lack the pin; and only a
   crash before the pin is saved leaves a new build without one (install.rs,
   commit, and lock.rs, pin and save). *)
THEOREM PinsHold ==
    ASSUME SeparatePaths, OneFlowPerName PROVE Spec => []PinHolds
<1>1. Init => PastInv
  BY PastInit
<1>2. InstallInv /\ PastInv /\ [Next]_vars => PastInv'
  BY PastNext
<1>3. InstallInv /\ PastInv => PinHolds
  <2>1. SUFFICES ASSUME InstallInv, PastInv, NEW n \in Name
                 PROVE  /\ past.sealed[n] # Nothing =>
                             /\ n \in DOMAIN pins /\ pins[n].digest = past.sealed[n]
                             /\ root[n] \in {past.sealed[n], Nothing}
                             /\ n \notin past.unsaved =>
                                  n \in DOMAIN file /\ file[n].digest = past.sealed[n]
                        /\ root[n] \notin {old[n], Nothing} =>
                             n \in DOMAIN pins \cup past.bare \/ Working(n, {"retire", "pin"})
    BY DEF PinHolds
  <2> QED BY <2>1 DEF InstallInv, NameInv, PinAgrees, PastInv, Sealed, Promised, Accounted
<1> QED BY <1>1, <1>2, <1>3, InstallIsSound, PTL DEF Spec

-----------------------------------------------------------------------------
(* What one fault leaves.  While a commit is under way the plugin is in its
   staging directory too, and where a commit ended at a fault that emptied the
   plugin's own path, it is in the directory of the previous version, which only
   the next commit clears, when it has staged files that passed the checks. *)

\* A build of plugin n.
Own(n, c) == c \in Build /\ Info[c].name = n

Survives(n) ==
    old[n] # Nothing =>
      /\ faults = 0 => \/ root[n] # Nothing
                       \/ \E f \in Flow : NameOf(f) = n /\ pc[f] = "promote" /\ f \in moved
      /\ faults =< 1 => \/ root[n] # Nothing
                        \/ Own(n, root[PreviousOf[n]])
                        \/ Working(n, {"aside", "promote"})

\* A plugin moved aside is a whole build of it.
AsideIsOwn(f) == pc[f] = "promote" /\ f \in moved => Own(NameOf(f), root[Previous(f)])

KeepInv ==
    /\ \A n \in Name : old[n] # Nothing => Own(n, old[n])
    /\ \A f \in Flow : AsideIsOwn(f)
    /\ \A n \in Name : Survives(n)

\* What is installed at first under a name is a build of that plugin.
RootsAreOwn ==
    \A there \in Roots, n \in Name : there[n] # Nothing => Own(n, there[n])

(* What is admissible under a name, and there, is a build of the plugin. *)
LEMMA AdmissibleIsOwn ==
    ASSUME KeepInv, NEW n \in Name, NEW c, Admissible(n, c), c # Nothing
    PROVE  Own(n, c)
BY DEF KeepInv, Admissible, Verified, Own

(* A step of one flow on the paths of its plugin leaves the others as they are. *)
LEMMA KeepLocal ==
    ASSUME SeparatePaths, OneFlowPerName, InstallInv, KeepInv, NEW f \in Flow,
           pc[f] # "idle", NEW w, Goto(f, w),
           UNCHANGED <<job, old>>, moved' \ {f} = moved \ {f},
           faults' \in {faults, faults + 1},
           \A p \in Path \ {Target(f), Staging(f), Previous(f)} : root'[p] = root[p],
           Survives(NameOf(f))', AsideIsOwn(f)'
    PROVE  KeepInv'
<1>t. /\ pc \in [Flow -> Step] /\ faults \in Nat /\ NameOf(f) \in Name
  BY DigestIsBuild, FlowAssumption DEF InstallInv, TypeOK
<1>n. \A g \in Flow : NameOf(g)' = NameOf(g)
  BY DEF NameOf
<1>g. \A g \in Flow \ {f} : pc'[g] = pc[g] /\ (g \in moved' <=> g \in moved)
  BY <1>t DEF Goto
<1>1. \A n \in Name : old'[n] # Nothing => Own(n, old'[n])
  BY DEF KeepInv
<1>2. ASSUME NEW g \in Flow, g # f PROVE AsideIsOwn(g)'
  <2>1. SUFFICES ASSUME pc[g] = "promote", g \in moved PROVE Own(NameOf(g), root'[Previous(g)])
    BY <1>2, <1>g, <1>n DEF AsideIsOwn, Previous, Own
  <2>2. NameOf(g) # NameOf(f) /\ NameOf(g) \in Name
    BY <1>2, <2>1, FlowAlone, DigestIsBuild DEF InstallInv
  <2>3. root'[Previous(g)] = root[Previous(g)]
    BY <2>2, <1>t, PathsOf DEF SeparatePaths, Target, Staging, Previous
  <2> QED BY <2>1, <2>3 DEF KeepInv, AsideIsOwn
<1>3. ASSUME NEW n \in Name, n # NameOf(f) PROVE Survives(n)'
  <2>1. Survives(n)
    BY DEF KeepInv
  <2>2. root'[n] = root[n] /\ root'[PreviousOf[n]] = root[PreviousOf[n]]
    BY <1>3, <1>t, PathsOf DEF SeparatePaths, Target, Staging, Previous
  <2>3. \A g \in Flow : NameOf(g) = n => g # f
    BY <1>3
  <2>4. Working(n, {"aside", "promote"}) => Working(n, {"aside", "promote"})'
    BY <2>3, <1>g, <1>n DEF Working
  <2>5. (\E g \in Flow : NameOf(g) = n /\ pc[g] = "promote" /\ g \in moved)
          => (\E g \in Flow : NameOf(g) = n /\ pc[g] = "promote" /\ g \in moved)'
    BY <2>3, <1>g, <1>n
  <2>6. (faults' = 0 => faults = 0) /\ (faults' =< 1 => faults =< 1)
    BY <1>t
  <2> QED BY <2>1, <2>2, <2>4, <2>5, <2>6 DEF Survives, Own
<1>4. ASSUME NEW n \in Name, n = NameOf(f) PROVE Survives(n)'
  <2>1. NameOf(f)' = n
    BY <1>4, <1>n
  <2> QED BY <2>1 DEF Survives, Working, Own
<1>5. \A n \in Name : Survives(n)'
  BY <1>3, <1>4
<1>6. \A g \in Flow : AsideIsOwn(g)'
  BY <1>2
<1> QED BY <1>1, <1>5, <1>6 DEF KeepInv

(* Where the flow of a plugin stands, its survival is a matter of that flow. *)
LEMMA FlowSurvives ==
    ASSUME OneFlowPerName, InstallInv, KeepInv, NEW f \in Flow, pc[f] # "idle",
           old[NameOf(f)] # Nothing
    PROVE  /\ faults = 0 => root[NameOf(f)] # Nothing \/ (pc[f] = "promote" /\ f \in moved)
           /\ faults =< 1 => \/ root[NameOf(f)] # Nothing \/ Own(NameOf(f), root[Previous(f)])
                             \/ pc[f] \in {"aside", "promote"}
<1>1. NameOf(f) \in Name /\ Survives(NameOf(f))
  BY DigestIsBuild DEF KeepInv, InstallInv
<1>2. \A g \in Flow : NameOf(g) = NameOf(f) /\ pc[g] # "idle" => g = f
  BY FlowAlone
<1>3. Working(NameOf(f), {"aside", "promote"}) => pc[f] \in {"aside", "promote"}
  BY <1>2 DEF Working
<1> QED BY <1>1, <1>2, <1>3 DEF Survives, Previous

(* The steps that leave the plugin's own path and its previous version alone. *)
LEMMA KeepQuiet ==
    ASSUME SeparatePaths, OneFlowPerName, InstallInv, KeepInv, NEW f \in Flow,
           pc[f] \notin {"idle", "aside", "promote"},
           NEW w, w # "promote", Goto(f, w), UNCHANGED <<job, old, moved>>,
           faults' \in {faults, faults + 1},
           \A p \in Path \ {Staging(f)} : root'[p] = root[p]
    PROVE  KeepInv'
<1>t. pc \in [Flow -> Step] /\ faults \in Nat /\ NameOf(f) \in Name
  BY DigestIsBuild, FlowAssumption DEF InstallInv, TypeOK
<1>p. /\ NameOf(f)' = NameOf(f)
      /\ root'[NameOf(f)] = root[NameOf(f)] /\ root'[Previous(f)] = root[Previous(f)]
  BY <1>t, PathsOf DEF SeparatePaths, Staging, Previous, NameOf
<1>1. (faults' = 0 => faults = 0) /\ (faults' =< 1 => faults =< 1)
  BY <1>t
<1>2. Survives(NameOf(f))'
  BY <1>p, <1>1, FlowSurvives DEF Survives, Own, Previous
<1>3. AsideIsOwn(f)'
  BY <1>t DEF AsideIsOwn, Goto
<1> QED BY <1>2, <1>3, KeepLocal

(* A commit begins with staged files that passed the checks. *)
LEMMA KeepClear ==
    ASSUME SeparatePaths, OneFlowPerName, InstallInv, KeepInv, NEW f \in Flow,
           ClearPrevious(f)
    PROVE  KeepInv'
<1>t. pc \in [Flow -> Step] /\ root \in [Path -> Build \cup {Half, Nothing}] /\ NameOf(f) \in Name
  BY DigestIsBuild DEF InstallInv, TypeOK
<1>u. /\ pc[f] = "staged" /\ Goto(f, "aside") /\ root' = Put(root, Previous(f), Nothing)
      /\ UNCHANGED <<job, moved, faults, old, past>>
  BY DEF ClearPrevious
<1>p. /\ NameOf(f)' = NameOf(f) /\ pc'[f] = "aside"
      /\ \A p \in Path \ {Previous(f)} : root'[p] = root[p]
      /\ root'[NameOf(f)] = root[NameOf(f)]
  BY <1>t, <1>u, PathsOf DEF SeparatePaths, Previous, NameOf, Put, Goto
<1>1. Survives(NameOf(f))'
  <2>1. Working(NameOf(f), {"aside", "promote"})'
    BY <1>p DEF Working
  <2>2. old[NameOf(f)] # Nothing /\ faults = 0 => root[NameOf(f)] # Nothing
    BY <1>u, FlowSurvives
  <2> QED BY <1>p, <1>u, <2>1, <2>2 DEF Survives
<1>2. AsideIsOwn(f)'
  BY <1>p DEF AsideIsOwn
<1> QED BY <1>u, <1>p, <1>1, <1>2, KeepLocal

(* What is moved aside is the plugin that was installed. *)
LEMMA KeepMoveAside ==
    ASSUME SeparatePaths, OneFlowPerName, InstallInv, KeepInv, NEW f \in Flow,
           MoveAside(f)
    PROVE  KeepInv'
<1>t. /\ pc \in [Flow -> Step] /\ root \in [Path -> Build \cup {Half, Nothing}]
      /\ NameOf(f) \in Name /\ moved \subseteq Flow
  BY DigestIsBuild DEF InstallInv, TypeOK
<1>u. /\ pc[f] = "aside" /\ Goto(f, "promote") /\ UNCHANGED <<job, faults, old, past>>
  BY DEF MoveAside
<1>p. /\ NameOf(f) \in Path /\ Previous(f) \in Path /\ Previous(f) # NameOf(f)
      /\ NameOf(f)' = NameOf(f) /\ Previous(f)' = Previous(f) /\ pc'[f] = "promote"
  BY <1>t, <1>u, PathsOf DEF SeparatePaths, Previous, NameOf, Goto
<1>b. Working(NameOf(f), {"aside", "promote"})'
  BY <1>p DEF Working
<1>1. CASE root[NameOf(f)] = Nothing
  <2>1. moved' = moved \ {f} /\ root' = root
    BY <1>1 DEF MoveAside, Target
  <2>2. old[NameOf(f)] # Nothing => faults # 0
    BY <1>1, <1>u, FlowSurvives
  <2>3. Survives(NameOf(f))'
    BY <1>p, <1>u, <1>b, <2>2 DEF Survives
  <2>4. AsideIsOwn(f)'
    BY <2>1 DEF AsideIsOwn
  <2> QED BY <1>u, <2>1, <2>3, <2>4, KeepLocal
<1>2. CASE root[NameOf(f)] # Nothing
  <2>1. /\ moved' = moved \cup {f}
        /\ root' = Put(Put(root, Previous(f), root[NameOf(f)]), NameOf(f), Nothing)
    BY <1>2 DEF MoveAside, Target
  <2>2. /\ \A p \in Path \ {NameOf(f), Previous(f)} : root'[p] = root[p]
        /\ root'[Previous(f)] = root[NameOf(f)]
    BY <2>1, <1>t, <1>p DEF Put
  <2>3. Own(NameOf(f), root[NameOf(f)])
    BY <1>2, <1>t, AdmissibleIsOwn DEF InstallInv, NameInv
  <2>4. AsideIsOwn(f)'
    BY <2>2, <2>3, <1>p DEF AsideIsOwn, Own
  <2>5. (\E g \in Flow : NameOf(g) = NameOf(f) /\ pc[g] = "promote" /\ g \in moved)'
    BY <1>p, <2>1
  <2>6. Survives(NameOf(f))'
    BY <1>p, <1>b, <2>5 DEF Survives
  <2>7. \A p \in Path \ {Target(f), Staging(f), Previous(f)} : root'[p] = root[p]
    BY <2>2 DEF Target
  <2> QED BY <1>u, <2>1, <2>4, <2>6, <2>7, KeepLocal
<1> QED BY <1>1, <1>2

(* After the rename the plugin is in place. *)
LEMMA KeepPromote ==
    ASSUME SeparatePaths, OneFlowPerName, InstallInv, KeepInv, NEW f \in Flow,
           Promote(f)
    PROVE  KeepInv'
<1>t. pc \in [Flow -> Step] /\ root \in [Path -> Build \cup {Half, Nothing}] /\ NameOf(f) \in Name
  BY DigestIsBuild DEF InstallInv, TypeOK
<1>u. /\ pc[f] = "promote" /\ Goto(f, "retire") /\ UNCHANGED <<job, moved, faults, old, past>>
      /\ root[Staging(f)] # Nothing
      /\ root' = Put(Put(root, NameOf(f), root[Staging(f)]), Staging(f), Nothing)
  BY DEF Promote, Target
<1>p. /\ NameOf(f)' = NameOf(f) /\ pc'[f] = "retire"
      /\ root'[NameOf(f)] = root[Staging(f)]
      /\ \A p \in Path \ {NameOf(f), Staging(f)} : root'[p] = root[p]
  BY <1>t, <1>u, PathsOf DEF SeparatePaths, Staging, NameOf, Put, Goto
<1>1. Survives(NameOf(f))'
  BY <1>u, <1>p DEF Survives
<1>2. AsideIsOwn(f)'
  BY <1>p DEF AsideIsOwn
<1>3. \A p \in Path \ {Target(f), Staging(f), Previous(f)} : root'[p] = root[p]
  BY <1>p DEF Target
<1> QED BY <1>u, <1>1, <1>2, <1>3, KeepLocal

(* A rename that fails is a fault, for the staged files are there; if it is the
   first, the plugin is put back. *)
LEMMA KeepPromoteFails ==
    ASSUME SeparatePaths, OneFlowPerName, InstallInv, KeepInv, NEW f \in Flow,
           PromoteFails(f)
    PROVE  KeepInv'
<1>t. /\ pc \in [Flow -> Step] /\ root \in [Path -> Build \cup {Half, Nothing}]
      /\ NameOf(f) \in Name /\ FlowInv(f) /\ faults \in Nat
  BY DigestIsBuild, FlowAssumption DEF InstallInv, TypeOK
<1>u. /\ pc[f] = "promote" /\ Goto(f, "idle") /\ UNCHANGED <<job, moved, old, past>>
  BY DEF PromoteFails
<1>f. faults' = faults + 1
  <2>1. root[Staging(f)] # Nothing
    BY <1>t, <1>u, DigestIsBuild DEF FlowInv, Checked, InstallInv
  <2> QED BY <2>1 DEF PromoteFails, Fault
<1>q. /\ NameOf(f) \in Path /\ Staging(f) \in Path /\ Previous(f) \in Path
      /\ Staging(f) # NameOf(f) /\ Previous(f) # NameOf(f)
  BY <1>t, PathsOf DEF SeparatePaths, Staging, Previous
<1>r. \/ f \notin moved /\ root' = Put(root, Staging(f), Nothing)
      \/ /\ f \in moved
         /\ root' = Put(Put(Put(root, NameOf(f), root[Previous(f)]), Previous(f), Nothing),
                        Staging(f), Nothing)
  BY DEF PromoteFails, RolledBack, Target
<1>1. /\ \A p \in Path \ {NameOf(f), Staging(f), Previous(f)} : root'[p] = root[p]
      /\ root'[NameOf(f)] = IF f \in moved THEN root[Previous(f)] ELSE root[NameOf(f)]
  BY <1>r, <1>q, <1>t DEF Put
<1>2. f \in moved => root[Previous(f)] # Nothing
  BY <1>u, BuildAssumption DEF KeepInv, AsideIsOwn, Own
<1>3. old[NameOf(f)] # Nothing /\ faults' =< 1 => root'[NameOf(f)] # Nothing
  BY <1>1, <1>2, <1>f, <1>t, <1>u, FlowSurvives
<1>4. NameOf(f)' = NameOf(f) /\ faults' # 0
  BY <1>u, <1>f, <1>t DEF NameOf
<1>5. Survives(NameOf(f))'
  BY <1>3, <1>4, <1>u DEF Survives
<1>6. AsideIsOwn(f)'
  BY <1>u, <1>t DEF AsideIsOwn, Goto
<1>7. \A p \in Path \ {Target(f), Staging(f), Previous(f)} : root'[p] = root[p]
  BY <1>1 DEF Target
<1> QED BY <1>u, <1>f, <1>5, <1>6, <1>7, KeepLocal

(* A request, with nothing under way for the plugin. *)
LEMMA KeepRequest ==
    ASSUME InstallInv, KeepInv, NEW f \in Flow, NEW n, NEW r, Request(f, n, r)
    PROVE  KeepInv'
<1>t. pc \in [Flow -> Step] /\ job \in [Flow -> Job]
  BY DEF InstallInv, TypeOK
<1>u. /\ pc[f] = "idle" /\ pc' = [pc EXCEPT ![f] = "fetched"]
      /\ job' = [job EXCEPT ![f] = [name |-> n, release |-> r]]
      /\ UNCHANGED <<root, moved, faults, old, past>>
  BY DEF Request, Goto
<1>1. \A g \in Flow \ {f} : pc'[g] = pc[g] /\ NameOf(g)' = NameOf(g) /\ Previous(g)' = Previous(g)
  BY <1>t, <1>u DEF NameOf, Previous
<1>2. pc'[f] = "fetched"
  BY <1>t, <1>u
<1>3. \A g \in Flow : AsideIsOwn(g)'
  BY <1>1, <1>2, <1>u DEF KeepInv, AsideIsOwn, Own
<1>4. ASSUME NEW m \in Name PROVE Survives(m)'
  <2>1. Survives(m)
    BY DEF KeepInv
  <2>2. Working(m, {"aside", "promote"}) => Working(m, {"aside", "promote"})'
    BY <1>1, <1>u DEF Working
  <2>3. (\E g \in Flow : NameOf(g) = m /\ pc[g] = "promote" /\ g \in moved)
          => (\E g \in Flow : NameOf(g) = m /\ pc[g] = "promote" /\ g \in moved)'
    BY <1>1, <1>u
  <2> QED BY <2>1, <2>2, <2>3, <1>u DEF Survives, Own
<1> QED BY <1>3, <1>4, <1>u DEF KeepInv

(* The first crash finds the plugin in place or moved aside. *)
LEMMA KeepCrash ==
    ASSUME InstallInv, KeepInv, Crash
    PROVE  KeepInv'
<1>t. faults \in Nat
  BY FlowAssumption DEF InstallInv, TypeOK
<1>u. /\ pc' = [f \in Flow |-> "idle"] /\ faults' = faults + 1
      /\ UNCHANGED <<root, job, moved, old>>
  BY DEF Crash, Fault
<1>1. \A f \in Flow : AsideIsOwn(f)'
  BY <1>u DEF AsideIsOwn
<1>2. ASSUME NEW n \in Name, old[n] # Nothing, faults = 0
      PROVE  root[n] # Nothing \/ Own(n, root[PreviousOf[n]])
  <2>1. Survives(n)
    BY DEF KeepInv
  <2> QED BY <1>2, <2>1 DEF Survives, KeepInv, AsideIsOwn, Previous
<1>3. ASSUME NEW n \in Name PROVE Survives(n)'
  BY <1>2, <1>t, <1>u DEF Survives, Own
<1> QED BY <1>1, <1>3, <1>u DEF KeepInv

LEMMA KeepNext ==
    ASSUME SeparatePaths, OneFlowPerName, InstallInv, KeepInv, [Next]_vars
    PROVE  KeepInv'
<1>t. /\ root \in [Path -> Build \cup {Half, Nothing}] /\ pc \in [Flow -> Step] /\ faults \in Nat
      /\ \A f \in Flow : NameOf(f) \in Name
  BY DigestIsBuild, FlowAssumption DEF InstallInv, TypeOK
<1>1. ASSUME NEW f \in Flow, NEW n \in Installs[f], NEW r \in Releases[n],
             Stage(f, n, r) \/ StageUpgrade(f, n, r)
      PROVE  KeepInv'
  BY <1>1, KeepRequest DEF Stage, StageUpgrade
<1>s. ASSUME NEW f \in Flow, NEW c, pc[f] \notin {"idle", "aside", "promote"}, NEW w, w # "promote",
             Goto(f, w), root' \in {root, Put(root, Staging(f), c)},
             UNCHANGED <<job, moved, old>>, faults' \in {faults, faults + 1}
      PROVE  KeepInv'
  <2>1. \A p \in Path \ {Staging(f)} : root'[p] = root[p]
    BY <1>t, <1>s DEF Put
  <2> QED BY <1>s, <2>1, KeepQuiet
<1>2. ASSUME NEW f \in Flow, StagingDir(f) \/ Unpack(f) \/ UnpackFails(f) \/ Check(f) \/ Discard(f)
      PROVE  KeepInv'
  <2>1. CASE StagingDir(f)
    BY <2>1, <1>s DEF StagingDir
  <2>2. CASE Unpack(f)
    BY <2>2, <1>s DEF Unpack
  <2>3. CASE UnpackFails(f)
    BY <2>3, <1>s DEF UnpackFails, StageFails
  <2>4. CASE Check(f)
    BY <2>4, <1>s DEF Check, StageFails
  <2>5. CASE Discard(f)
    BY <2>5, <1>s DEF Discard, StageFails
  <2> QED BY <1>2, <2>1, <2>2, <2>3, <2>4, <2>5
<1>3. ASSUME NEW f \in Flow, PinAndTruncate(f) \/ Save(f) \/ OpenFails(f) \/ WriteFails(f)
      PROVE  KeepInv'
  BY <1>3, <1>s DEF PinAndTruncate, PinIn, Save, OpenFails, WriteFails, Fault
<1>4. ASSUME NEW f \in Flow, ClearPrevious(f) \/ MoveAside(f) \/ Promote(f) \/ PromoteFails(f)
      PROVE  KeepInv'
  BY <1>4, KeepClear, KeepMoveAside, KeepPromote, KeepPromoteFails
<1>5. ASSUME NEW f \in Flow, Retire(f) \/ RetireFails(f) PROVE KeepInv'
  <2>1. /\ pc[f] = "retire" /\ Goto(f, "pin") /\ UNCHANGED <<job, moved, old, past>>
        /\ faults' \in {faults, faults + 1}
        /\ root' \in {root, Put(root, Previous(f), Nothing)}
    BY <1>5 DEF Retire, RetireFails, Retired, Fault
  <2>2. NameOf(f) \in Path \ {Previous(f)} /\ NameOf(f)' = NameOf(f) /\ pc'[f] = "pin"
    BY <1>t, <2>1, PathsOf DEF SeparatePaths, Previous, NameOf, Goto
  <2>3. \A p \in Path \ {Previous(f)} : root'[p] = root[p]
    BY <1>t, <2>1 DEF Put
  <2>4. root[NameOf(f)] # Nothing
    BY <2>1, DigestIsBuild DEF InstallInv, FlowInv, Target
  <2>5. Survives(NameOf(f))'
    BY <2>2, <2>3, <2>4 DEF Survives
  <2>6. AsideIsOwn(f)'
    BY <2>2 DEF AsideIsOwn
  <2> QED BY <2>1, <2>3, <2>5, <2>6, KeepLocal
<1>6. ASSUME NEW f \in Flow, DropHandle(f) PROVE KeepInv'
  BY <1>6, KeepQuiet DEF DropHandle, Fault
<1>7. ASSUME NEW f \in Flow, CommitStops(f) PROVE KeepInv'
  <2>1. /\ Goto(f, "idle") /\ UNCHANGED <<root, job, moved, old, past>> /\ faults' = faults + 1
        /\ \/ pc[f] = "staged"
           \/ pc[f] = "aside" /\ root[NameOf(f)] # Nothing
    BY <1>7 DEF CommitStops, Fault, Target
  <2>2. NameOf(f)' = NameOf(f) /\ pc'[f] = "idle" /\ faults' # 0 /\ (faults' =< 1 => faults =< 1)
    BY <1>t, <2>1 DEF NameOf, Goto
  <2>3. Survives(NameOf(f))'
    BY <2>1, <2>2, FlowSurvives DEF Survives, Own, Previous
  <2>4. AsideIsOwn(f)'
    BY <2>2 DEF AsideIsOwn
  <2> QED BY <2>1, <2>3, <2>4, KeepLocal
<1>8. ASSUME Crash PROVE KeepInv'
  BY <1>8, KeepCrash
<1>9. ASSUME UNCHANGED vars PROVE KeepInv'
  BY <1>9 DEF vars, KeepInv, Survives, AsideIsOwn, Working, Own, NameOf, Previous
<1> QED BY <1>1, <1>2, <1>3, <1>4, <1>5, <1>6, <1>7, <1>8, <1>9 DEF Next

LEMMA KeepInit ==
    ASSUME RootsAreOwn, Init PROVE KeepInv
<1>1. PICK there \in Roots : root = [p \in Path |-> IF p \in Name THEN there[p] ELSE Nothing]
  BY DEF Init
<1>2. \A n \in Name : n \in Path /\ old[n] = there[n] /\ root[n] = old[n]
  BY <1>1, PathsOf DEF Init
<1> QED BY <1>2 DEF Init, RootsAreOwn, KeepInv, Survives, AsideIsOwn

(* Installing over a plugin does not lose it: whatever goes wrong once, between any
   two steps of a commit (install.rs), a whole build of the plugin is in one of its directories,
   and when nothing did it is installed. *)
THEOREM OneFaultKeepsAll ==
    ASSUME SeparatePaths, OneFlowPerName, RootsAreOwn PROVE Spec => []OneFaultLosesNothing
<1>1. ASSUME InstallInv, KeepInv, NEW n \in Name, old[n] # Nothing, faults =< 1
      PROVE  Held(n)
  <2>1. Survives(n) /\ Admissible(n, root[n])
    BY <1>1 DEF KeepInv, InstallInv, NameInv
  <2>2. CASE root[n] # Nothing
    <3>1. Own(n, root[n])
      BY <1>1, <2>1, <2>2, AdmissibleIsOwn
    <3> QED BY <3>1 DEF Held, Own
  <2>3. CASE Own(n, root[PreviousOf[n]])
    BY <2>3 DEF Held, Own
  <2>4. ASSUME NEW f \in Flow, NameOf(f) = n, pc[f] \in {"aside", "promote"} PROVE Held(n)
    <3>1. Checked(f) /\ job[f].release.digest \in Build
      BY <1>1, <2>4, DigestIsBuild DEF InstallInv, FlowInv
    <3> QED BY <2>4, <3>1 DEF Checked, Staging, Held
  <2> QED BY <1>1, <2>1, <2>2, <2>3, <2>4 DEF Survives, Working
<1>2. ASSUME KeepInv, NEW n \in Name, old[n] # Nothing, faults = 0, ~Working(n, Committing)
      PROVE  root[n] # Nothing
  BY <1>2 DEF KeepInv, Survives, Working, Committing
<1>3. InstallInv /\ KeepInv => OneFaultLosesNothing
  BY <1>1, <1>2 DEF OneFaultLosesNothing
<1>4. Init => KeepInv
  BY KeepInit
<1>5. InstallInv /\ KeepInv /\ [Next]_vars => KeepInv'
  BY KeepNext
<1> QED BY <1>3, <1>4, <1>5, InstallIsSound, PTL DEF Spec

-----------------------------------------------------------------------------
(* Upgrade reviews: a chain of upgrades that no review stopped asks for     *)
(* nothing that a person has not agreed to, whatever the versions declare.  *)

\* A change that widens and is in the review stops it.
LEMMA WideningStops ==
  ASSUME NEW i, NEW m, ~Widens(Between(i, m)),
         NEW kind, NEW name, Changed(kind, name, TRUE) \in Between(i, m)
  PROVE  FALSE
BY DEF Widens, Changed

\* A review that does not widen shows a newer version with the same entry chunk.
LEMMA SameEntry ==
  ASSUME NEW i, NEW m, ~Widens(Between(i, m))
  PROVE  ~(m.version <= i.version) /\ m.entry = i.entry
<1>1. ~(m.version <= i.version)
  <2>1. SUFFICES ASSUME m.version <= i.version PROVE FALSE
    OBVIOUS
  <2>2. Changed("not newer", "version", TRUE) \in Between(i, m)
    BY <2>1 DEF Between
  <2>3. QED
    BY <2>2, WideningStops
<1>2. m.entry = i.entry
  <2>1. SUFFICES ASSUME m.entry # i.entry PROVE FALSE
    OBVIOUS
  <2>2. Changed("entry", "entry", TRUE) \in Between(i, m)
    BY <2>1 DEF Between
  <2>3. QED
    BY <2>2, WideningStops
<1>3. QED
  BY <1>1, <1>2

\* A review that does not widen shows no new name.
LEMMA NoNewName ==
  ASSUME NEW i, NEW m, ~Widens(Between(i, m))
  PROVE  /\ DOMAIN m.capabilities \subseteq DOMAIN i.capabilities
         /\ DOMAIN m.dependencies \subseteq DOMAIN i.dependencies
         /\ DOMAIN m.rocks \subseteq DOMAIN i.rocks
<1>1. DOMAIN m.capabilities \subseteq DOMAIN i.capabilities
  <2>1. SUFFICES ASSUME NEW n \in DOMAIN m.capabilities, n \notin DOMAIN i.capabilities
                 PROVE  FALSE
    OBVIOUS
  <2>2. Changed("added", n, TRUE) \in Between(i, m)
    BY <2>1 DEF Between, CapabilityChanges
  <2>3. QED
    BY <2>2, WideningStops
<1>2. DOMAIN m.dependencies \subseteq DOMAIN i.dependencies
  <2>1. SUFFICES ASSUME NEW n \in DOMAIN m.dependencies, n \notin DOMAIN i.dependencies
                 PROVE  FALSE
    OBVIOUS
  <2>2. Changed("dependency", n, TRUE) \in Between(i, m)
    BY <2>1 DEF Between, NameChanges
  <2>3. QED
    BY <2>2, WideningStops
<1>3. DOMAIN m.rocks \subseteq DOMAIN i.rocks
  <2>1. SUFFICES ASSUME NEW n \in DOMAIN m.rocks, n \notin DOMAIN i.rocks PROVE FALSE
    OBVIOUS
  <2>2. Changed("rock", n, TRUE) \in Between(i, m)
    BY <2>1 DEF Between, NameChanges
  <2>3. QED
    BY <2>2, WideningStops
<1>4. QED
  BY <1>1, <1>2, <1>3

\* What a capability that stays may look like: Narrows, with equality as a special case.
NoMore(before, after) ==
  /\ DOMAIN after = DOMAIN before
  /\ \A k \in DOMAIN after : \/ after[k] = before[k]
                             \/ after[k][1] = "list" /\ after[k][2] \subseteq before[k][2]

\* A review that does not widen shows no capability asking for more.
LEMMA NoWiderCapability ==
  ASSUME NEW i, NEW m, ~Widens(Between(i, m)), NEW c \in DOMAIN m.capabilities
  PROVE  NoMore(i.capabilities[c].params, m.capabilities[c].params)
<1> DEFINE before == i.capabilities[c].params
           after == m.capabilities[c].params
<1>1. c \in DOMAIN i.capabilities
  BY NoNewName
<1>2. CASE before = after
  BY <1>2 DEF NoMore
<1>3. CASE before # after
  <2>1. Changed("params", c, ~Narrows(before, after)) \in Between(i, m)
    BY <1>1, <1>3 DEF Between, CapabilityChanges
  <2>2. Narrows(before, after)
    <3>1. SUFFICES ASSUME ~Narrows(before, after) PROVE FALSE
      OBVIOUS
    <3>2. (~Narrows(before, after)) = TRUE
      BY <3>1
    <3>3. QED
      BY <2>1, <3>2, WideningStops
  <2>3. QED
    BY <2>2 DEF Narrows, NoMore
<1>4. QED
  BY <1>2, <1>3

\* Asking for no more is transitive.
LEMMA NoMoreChains ==
  ASSUME NEW a, NEW b, NEW c, NoMore(a, b), NoMore(b, c)
  PROVE  NoMore(a, c)
BY DEF NoMore

UpgradeTypeOK == installed \in Manifests /\ approved \in Manifests

IInv == UpgradeTypeOK /\ UnattendedNeverGrows

LEMMA IInvInit == UpgradeInit => IInv
BY ManifestAssumption DEF UpgradeInit, IInv, UpgradeTypeOK, UnattendedNeverGrows

LEMMA IInvStep == IInv /\ [UpgradeNext]_upgradeVars => IInv'
<1> SUFFICES ASSUME IInv, [UpgradeNext]_upgradeVars PROVE IInv'
  OBVIOUS
<1>1. ASSUME NEW m \in Manifests, ApplyUnattended(m) PROVE IInv'
  <2>1. /\ ~Widens(Between(installed, m)) /\ installed' = m /\ approved' = approved
    BY <1>1 DEF ApplyUnattended
  <2>2. UpgradeTypeOK'
    BY <2>1 DEF IInv, UpgradeTypeOK
  <2>3. m.version >= approved.version /\ m.entry = approved.entry
    <3>1. m.version \in Nat /\ installed.version \in Nat /\ approved.version \in Nat
      BY ManifestAssumption DEF IInv, UpgradeTypeOK
    <3>2. ~(m.version <= installed.version) /\ m.entry = installed.entry
      BY <2>1, SameEntry
    <3>3. installed.version >= approved.version /\ installed.entry = approved.entry
      BY DEF IInv, UnattendedNeverGrows
    <3>4. QED
      BY <3>1, <3>2, <3>3
  <2>4. /\ DOMAIN m.capabilities \subseteq DOMAIN approved.capabilities
        /\ DOMAIN m.dependencies \subseteq DOMAIN approved.dependencies
        /\ DOMAIN m.rocks \subseteq DOMAIN approved.rocks
    BY <2>1, NoNewName DEF IInv, UnattendedNeverGrows
  <2>5. ASSUME NEW c \in DOMAIN m.capabilities
        PROVE  NoMore(approved.capabilities[c].params, m.capabilities[c].params)
    <3>1. c \in DOMAIN installed.capabilities
      BY <2>1, NoNewName
    <3>2. NoMore(approved.capabilities[c].params, installed.capabilities[c].params)
      BY <3>1 DEF IInv, UnattendedNeverGrows, NoMore
    <3>3. NoMore(installed.capabilities[c].params, m.capabilities[c].params)
      BY <2>1, NoWiderCapability
    <3>4. QED
      BY <3>2, <3>3, NoMoreChains
  <2>6. UnattendedNeverGrows'
    BY <2>1, <2>3, <2>4, <2>5 DEF UnattendedNeverGrows, NoMore
  <2>7. QED
    BY <2>2, <2>6 DEF IInv
<1>2. ASSUME NEW m \in Manifests, ApplyApproved(m) PROVE IInv'
  <2>1. installed' = m /\ approved' = m
    BY <1>2 DEF ApplyApproved
  <2>2. m.version \in Nat
    BY ManifestAssumption
  <2>3. QED
    BY <2>1, <2>2 DEF IInv, UpgradeTypeOK, UnattendedNeverGrows
<1>3. CASE UNCHANGED upgradeVars
  BY <1>3 DEF upgradeVars, IInv, UpgradeTypeOK, UnattendedNeverGrows
<1>4. QED
  BY <1>1, <1>2, <1>3 DEF UpgradeNext

\* Staged::widens is enough to gate on: whatever the versions declare and however many
\* go by unattended, the installed one asks for nothing the approved one did not.
THEOREM UnattendedUpgradesNeverGrow == UpgradeSpec => []UnattendedNeverGrows
<1>1. IInv => UnattendedNeverGrows
  BY DEF IInv
<1>2. QED
  BY IInvInit, IInvStep, <1>1, PTL DEF UpgradeSpec

-----------------------------------------------------------------------------
(* Versions of rocks are in one order, however many components they have.  *)

LEMMA Components ==
  ASSUME NEW a, IsVersion(a), NEW b, IsVersion(b)
  PROVE  /\ Width(a, b) \in Nat /\ Width(a, b) = Width(b, a)
         /\ Width(a, b) >= Len(a.parts) /\ Width(a, b) >= Len(b.parts)
         /\ Len(a.parts) \in Nat \ {0} /\ DOMAIN a.parts = 1..Len(a.parts)
         /\ \A i \in Nat : PartOf(a, i) \in Nat \/ i = 0
         /\ \A i \in Nat : i > Len(a.parts) => PartOf(a, i) = 0
         /\ \A i \in Nat : i \in DOMAIN a.parts => PartOf(a, i) = a.parts[i]
         /\ a.revision \in Nat
<1>1. /\ a.parts \in Seq(Nat) /\ a.parts # <<>> /\ b.parts \in Seq(Nat)
      /\ a.revision \in Nat
  BY DEF IsVersion
<1>2. /\ Len(a.parts) \in Nat \ {0} /\ Len(b.parts) \in Nat
      /\ DOMAIN a.parts = 1..Len(a.parts)
      /\ \A i \in DOMAIN a.parts : a.parts[i] \in Nat
  BY <1>1
<1>3. /\ Width(a, b) \in Nat /\ Width(a, b) = Width(b, a)
      /\ Width(a, b) >= Len(a.parts) /\ Width(a, b) >= Len(b.parts)
  BY <1>2 DEF Width
<1>4. ASSUME NEW i \in Nat
      PROVE  /\ PartOf(a, i) \in Nat \/ i = 0
             /\ i > Len(a.parts) => PartOf(a, i) = 0
             /\ i \in DOMAIN a.parts => PartOf(a, i) = a.parts[i]
  <2>1. CASE i > Len(a.parts)
    BY <1>2, <2>1 DEF PartOf
  <2>2. CASE i \in 1..Len(a.parts)
    BY <1>2, <2>2 DEF PartOf
  <2>3. CASE i = 0
    BY <1>2, <2>3
  <2>4. QED
    BY <1>2, <2>1, <2>2, <2>3
<1>5. QED
  BY <1>1, <1>2, <1>3, <1>4

\* The first difference decides, whatever width is looked at beyond the components.
LEMMA OlderAt ==
  ASSUME NEW a, IsVersion(a), NEW b, IsVersion(b), NEW n \in Nat, n >= Width(a, b)
  PROVE  /\ Older(a, b) <=>
              \/ \E i \in 1..n : /\ PartOf(a, i) < PartOf(b, i)
                                 /\ \A j \in 1..(i - 1) : PartOf(a, j) = PartOf(b, j)
              \/ /\ \A i \in 1..n : PartOf(a, i) = PartOf(b, i)
                 /\ a.revision < b.revision
         /\ SameVersion(a, b) <=>
              (\A i \in 1..n : PartOf(a, i) = PartOf(b, i)) /\ a.revision = b.revision
<1> DEFINE w == Width(a, b)
<1>1. /\ w \in Nat /\ w >= Len(a.parts) /\ w >= Len(b.parts)
      /\ Len(a.parts) \in Nat /\ Len(b.parts) \in Nat
      /\ \A i \in Nat : i > Len(a.parts) => PartOf(a, i) = 0
      /\ \A i \in Nat : i > Len(b.parts) => PartOf(b, i) = 0
  BY Components
<1> HIDE DEF w
<1>2. \A i \in 1..n : i \in 1..w \/ (PartOf(a, i) = 0 /\ PartOf(b, i) = 0)
  BY <1>1
<1>3. \A i \in 1..w : i \in 1..n
  BY <1>1 DEF w
<1>4. (\A i \in 1..n : PartOf(a, i) = PartOf(b, i)) <=> (\A i \in 1..w : PartOf(a, i) = PartOf(b, i))
  BY <1>2, <1>3
<1>5. \A i \in 1..n : PartOf(a, i) < PartOf(b, i) => i \in 1..w
  BY <1>2
<1>6. QED
  BY <1>3, <1>4, <1>5 DEF Older, SameVersion, w

\* Of two versions one is older or they are the same, and the code's order is that one.
LEMMA VersionOrder ==
  ASSUME NEW a, IsVersion(a), NEW b, IsVersion(b)
  PROVE  /\ Before(a, b) <=> Older(a, b)
         /\ Older(a, b) \/ Older(b, a) \/ SameVersion(a, b)
         /\ ~(Older(a, b) /\ Older(b, a))
         /\ SameVersion(a, b) => ~Older(a, b)
         /\ SameVersion(a, b) <=> SameVersion(b, a)
<1> DEFINE w == Width(a, b)
           differ == {i \in 1..w : PartOf(a, i) # PartOf(b, i)}
<1>1. /\ w \in Nat /\ Width(b, a) = w
      /\ \A i \in 1..w : PartOf(a, i) \in Nat /\ PartOf(b, i) \in Nat
      /\ a.revision \in Nat /\ b.revision \in Nat
  <2>1. \A i \in 1..w : i \in Nat /\ i # 0
    BY Components
  <2>2. QED
    BY <2>1, Components
<1>a. /\ Older(a, b) <=> \/ \E i \in 1..w : /\ PartOf(a, i) < PartOf(b, i)
                                         /\ \A j \in 1..(i - 1) : PartOf(a, j) = PartOf(b, j)
                      \/ /\ \A i \in 1..w : PartOf(a, i) = PartOf(b, i)
                         /\ a.revision < b.revision
      /\ SameVersion(a, b) <=> (\A i \in 1..w : PartOf(a, i) = PartOf(b, i)) /\ a.revision = b.revision
  BY DEF Older, SameVersion
<1>b. /\ Older(b, a) <=> \/ \E i \in 1..w : /\ PartOf(b, i) < PartOf(a, i)
                                         /\ \A j \in 1..(i - 1) : PartOf(b, j) = PartOf(a, j)
                      \/ /\ \A i \in 1..w : PartOf(b, i) = PartOf(a, i)
                         /\ b.revision < a.revision
      /\ SameVersion(b, a) <=> (\A i \in 1..w : PartOf(b, i) = PartOf(a, i)) /\ b.revision = a.revision
  BY <1>1 DEF Older, SameVersion
<1>2. CASE differ = {}
  <2>1. \A i \in 1..w : PartOf(a, i) = PartOf(b, i)
    BY <1>2
  <2>2. Before(a, b) <=> a.revision < b.revision
    BY <1>2 DEF Before
  <2>3. \A i \in 1..w : ~(PartOf(a, i) < PartOf(b, i)) /\ ~(PartOf(b, i) < PartOf(a, i))
    BY <1>1, <2>1
  <2>4. QED
    BY <1>1, <1>a, <1>b, <2>1, <2>2, <2>3
<1>3. CASE differ # {}
  <2> DEFINE first == CHOOSE i \in differ : \A j \in differ : i <= j
  <2>1. \E i \in differ : \A j \in differ : i <= j
    <3>1. differ \subseteq Nat /\ differ # {}
      BY <1>1, <1>3
    <3>2. PICK i \in differ : \A j \in differ : <<j, i>> \notin OpToRel(<, Nat)
      BY <3>1, NatLessThanWellFounded, WFMin
    <3>3. \A j \in differ : j \in Nat /\ i \in Nat /\ ~(j < i)
      BY <3>1, <3>2 DEF OpToRel
    <3>4. QED
      BY <3>3
  <2>2. first \in differ /\ \A j \in differ : first <= j
    BY <2>1
  <2>3. Before(a, b) <=> PartOf(a, first) < PartOf(b, first)
    BY <1>3 DEF Before
  <2> HIDE DEF first
  <2>4. /\ first \in 1..w /\ PartOf(a, first) # PartOf(b, first)
        /\ \A j \in 1..(first - 1) : PartOf(a, j) = PartOf(b, j)
    BY <1>1, <2>2
  <2>5. ASSUME NEW i \in 1..w, PartOf(a, i) # PartOf(b, i),
               \A j \in 1..(i - 1) : PartOf(a, j) = PartOf(b, j)
        PROVE  i = first
    <3>1. first <= i
      BY <2>2, <2>5
    <3>2. ~(first < i)
      BY <1>1, <2>4, <2>5
    <3>3. QED
      BY <1>1, <2>4, <3>1, <3>2
  <2>6. Older(a, b) <=> PartOf(a, first) < PartOf(b, first)
    <3>1. PartOf(a, first) < PartOf(b, first) => Older(a, b)
      BY <1>a, <2>4
    <3>2. ASSUME Older(a, b) PROVE PartOf(a, first) < PartOf(b, first)
      <4>1. PICK i \in 1..w : /\ PartOf(a, i) < PartOf(b, i)
                              /\ \A j \in 1..(i - 1) : PartOf(a, j) = PartOf(b, j)
        BY <1>a, <2>4, <3>2
      <4>2. i = first
        BY <1>1, <2>5, <4>1
      <4>3. QED
        BY <4>1, <4>2
    <3>3. QED
      BY <3>1, <3>2
  <2>7. Older(b, a) <=> PartOf(b, first) < PartOf(a, first)
    <3>1. PartOf(b, first) < PartOf(a, first) => Older(b, a)
      BY <1>b, <2>4
    <3>2. ASSUME Older(b, a) PROVE PartOf(b, first) < PartOf(a, first)
      <4>1. PICK i \in 1..w : /\ PartOf(b, i) < PartOf(a, i)
                              /\ \A j \in 1..(i - 1) : PartOf(b, j) = PartOf(a, j)
        BY <1>b, <2>4, <3>2
      <4>2. i = first
        BY <1>1, <2>5, <4>1
      <4>3. QED
        BY <4>1, <4>2
    <3>3. QED
      BY <3>1, <3>2
  <2>8. PartOf(a, first) \in Nat /\ PartOf(b, first) \in Nat
    BY <1>1, <2>4
  <2>9. ~SameVersion(a, b) /\ ~SameVersion(b, a)
    BY <1>a, <1>b, <2>4
  <2>10. QED
    BY <2>3, <2>4, <2>6, <2>7, <2>8, <2>9
<1>4. QED
  BY <1>2, <1>3

LEMMA OlderTransitive ==
  ASSUME NEW a, IsVersion(a), NEW b, IsVersion(b), NEW c, IsVersion(c)
  PROVE  /\ Older(a, b) /\ Older(b, c) => Older(a, c)
         /\ SameVersion(a, b) /\ SameVersion(b, c) => SameVersion(a, c)
<1>1. PICK n \in Nat : n >= Width(a, b) /\ n >= Width(b, c) /\ n >= Width(a, c)
  <2>1. Width(a, b) \in Nat /\ Width(b, c) \in Nat /\ Width(a, c) \in Nat
    BY Components
  <2>2. Width(a, b) + Width(b, c) + Width(a, c) \in Nat
    BY <2>1
  <2>3. QED
    BY <2>1, <2>2
<1>2. /\ \A i \in 1..n : PartOf(a, i) \in Nat /\ PartOf(b, i) \in Nat /\ PartOf(c, i) \in Nat
      /\ a.revision \in Nat /\ b.revision \in Nat /\ c.revision \in Nat
  <2>1. \A i \in 1..n : i \in Nat /\ i # 0
    OBVIOUS
  <2>2. QED
    BY <2>1, Components
<1> DEFINE Less(x, y) == \/ \E i \in 1..n : /\ PartOf(x, i) < PartOf(y, i)
                                          /\ \A j \in 1..(i - 1) : PartOf(x, j) = PartOf(y, j)
                         \/ /\ \A i \in 1..n : PartOf(x, i) = PartOf(y, i)
                            /\ x.revision < y.revision
           Same(x, y) == (\A i \in 1..n : PartOf(x, i) = PartOf(y, i)) /\ x.revision = y.revision
<1>4. /\ Older(a, b) <=> Less(a, b)
      /\ Older(b, c) <=> Less(b, c)
      /\ Older(a, c) <=> Less(a, c)
      /\ SameVersion(a, b) <=> Same(a, b)
      /\ SameVersion(b, c) <=> Same(b, c)
      /\ SameVersion(a, c) <=> Same(a, c)
  BY <1>1, OlderAt
<1>5. ASSUME Less(a, b), Less(b, c)
      PROVE  Less(a, c)
  <2>1. CASE \E i \in 1..n : /\ PartOf(a, i) < PartOf(b, i)
                              /\ \A j \in 1..(i - 1) : PartOf(a, j) = PartOf(b, j)
    <3>1. PICK i \in 1..n : /\ PartOf(a, i) < PartOf(b, i)
                            /\ \A j \in 1..(i - 1) : PartOf(a, j) = PartOf(b, j)
      BY <2>1
    <3>2. CASE \E k \in 1..n : /\ PartOf(b, k) < PartOf(c, k)
                                /\ \A j \in 1..(k - 1) : PartOf(b, j) = PartOf(c, j)
      <4>1. PICK k \in 1..n : /\ PartOf(b, k) < PartOf(c, k)
                              /\ \A j \in 1..(k - 1) : PartOf(b, j) = PartOf(c, j)
        BY <3>2
      <4>2. CASE i <= k
        <5>1. PartOf(a, i) < PartOf(c, i)
          <6>1. CASE i = k
            BY <1>2, <3>1, <4>1, <6>1
          <6>2. CASE i < k
            <7>1. i \in 1..(k - 1)
              BY <6>2
            <7>2. QED
              BY <3>1, <4>1, <7>1
          <6>3. QED
            BY <4>2, <6>1, <6>2
        <5>2. \A j \in 1..(i - 1) : j \in 1..(k - 1)
          BY <4>2
        <5>3. \A j \in 1..(i - 1) : PartOf(a, j) = PartOf(c, j)
          BY <3>1, <4>1, <5>2
        <5>4. QED
          BY <5>1, <5>3
      <4>3. CASE k < i
        <5>1. k \in 1..(i - 1)
          BY <4>3
        <5>2. PartOf(a, k) < PartOf(c, k)
          BY <3>1, <4>1, <5>1
        <5>3. \A j \in 1..(k - 1) : j \in 1..(i - 1)
          BY <4>3
        <5>4. \A j \in 1..(k - 1) : PartOf(a, j) = PartOf(c, j)
          BY <3>1, <4>1, <5>3
        <5>5. QED
          BY <5>2, <5>4
      <4>4. QED
        BY <4>2, <4>3
    <3>3. CASE \A k \in 1..n : PartOf(b, k) = PartOf(c, k)
      <4>1. PartOf(a, i) < PartOf(c, i)
        BY <3>1, <3>3
      <4>2. \A j \in 1..(i - 1) : j \in 1..n
        OBVIOUS
      <4>3. \A j \in 1..(i - 1) : PartOf(a, j) = PartOf(c, j)
        BY <3>1, <3>3, <4>2
      <4>4. QED
        BY <4>1, <4>3
    <3>4. QED
      BY <1>5, <3>2, <3>3
  <2>2. CASE /\ \A i \in 1..n : PartOf(a, i) = PartOf(b, i)
             /\ a.revision < b.revision
    <3>1. CASE \E k \in 1..n : /\ PartOf(b, k) < PartOf(c, k)
                                /\ \A j \in 1..(k - 1) : PartOf(b, j) = PartOf(c, j)
      <4>1. PICK k \in 1..n : /\ PartOf(b, k) < PartOf(c, k)
                              /\ \A j \in 1..(k - 1) : PartOf(b, j) = PartOf(c, j)
        BY <3>1
      <4>2. PartOf(a, k) < PartOf(c, k)
        BY <2>2, <4>1
      <4>3. \A j \in 1..(k - 1) : j \in 1..n
        OBVIOUS
      <4>4. \A j \in 1..(k - 1) : PartOf(a, j) = PartOf(c, j)
        BY <2>2, <4>1, <4>3
      <4>5. QED
        BY <4>2, <4>4
    <3>2. CASE /\ \A i \in 1..n : PartOf(b, i) = PartOf(c, i)
               /\ b.revision < c.revision
      <4>1. a.revision < c.revision
        BY <1>2, <2>2, <3>2
      <4>2. QED
        BY <2>2, <3>2, <4>1
    <3>3. QED
      BY <1>5, <3>1, <3>2
  <2>3. QED
    BY <1>5, <2>1, <2>2
<1>6. Same(a, b) /\ Same(b, c) => Same(a, c)
  OBVIOUS
<1>7. QED
  BY <1>4, <1>5, <1>6

\* Versions that are the same are told apart by no requirement and no other version.
LEMMA SameIsAlike ==
  ASSUME NEW a, IsVersion(a), NEW b, IsVersion(b), SameVersion(a, b), NEW c, IsVersion(c)
  PROVE  /\ Older(a, c) <=> Older(b, c)
         /\ Older(c, a) <=> Older(c, b)
         /\ SameVersion(a, c) <=> SameVersion(b, c)
         /\ SameVersion(c, a) <=> SameVersion(c, b)
         /\ StartsWith(a, c) <=> StartsWith(b, c)
         /\ a.revision = b.revision
<1>1. PICK n \in Nat : /\ n >= Width(a, b) /\ n >= Width(b, c) /\ n >= Width(a, c)
                        /\ n >= Width(c, a) /\ n >= Width(c, b)
  <2>1. /\ Width(a, b) \in Nat /\ Width(b, c) \in Nat /\ Width(a, c) \in Nat
        /\ Width(c, a) = Width(a, c) /\ Width(c, b) = Width(b, c)
    BY Components
  <2>2. Width(a, b) + Width(b, c) + Width(a, c) \in Nat
    BY <2>1
  <2>3. QED
    BY <2>1, <2>2
<1>2. (\A i \in 1..n : PartOf(a, i) = PartOf(b, i)) /\ a.revision = b.revision
  BY <1>1, OlderAt
<1>3. \A i \in 1..n : \A j \in 1..(i - 1) : j \in 1..n
  OBVIOUS
<1>4. StartsWith(a, c) <=> StartsWith(b, c)
  <2>1. DOMAIN c.parts = 1..Len(c.parts) /\ Len(c.parts) \in Nat /\ Len(c.parts) <= Width(a, c)
        /\ Width(a, c) \in Nat
    BY Components
  <2>2. \A i \in DOMAIN c.parts : i \in 1..n
    BY <1>1, <2>1
  <2>3. QED
    BY <1>2, <2>2 DEF StartsWith
<1> DEFINE Less(x, y) == \/ \E i \in 1..n : /\ PartOf(x, i) < PartOf(y, i)
                                          /\ \A j \in 1..(i - 1) : PartOf(x, j) = PartOf(y, j)
                         \/ /\ \A i \in 1..n : PartOf(x, i) = PartOf(y, i)
                            /\ x.revision < y.revision
           Same(x, y) == (\A i \in 1..n : PartOf(x, i) = PartOf(y, i)) /\ x.revision = y.revision
<1>5. /\ Older(a, c) <=> Less(a, c)
      /\ Older(b, c) <=> Less(b, c)
      /\ SameVersion(a, c) <=> Same(a, c)
      /\ SameVersion(b, c) <=> Same(b, c)
  BY <1>1, OlderAt
<1>6. /\ Older(c, a) <=> Less(c, a)
      /\ Older(c, b) <=> Less(c, b)
      /\ SameVersion(c, a) <=> Same(c, a)
      /\ SameVersion(c, b) <=> Same(c, b)
  BY <1>1, OlderAt
<1>7. Less(a, c) <=> Less(b, c)
  BY <1>2, <1>3
<1>8. Less(c, a) <=> Less(c, b)
  BY <1>2, <1>3
<1>9. (Same(a, c) <=> Same(b, c)) /\ (Same(c, a) <=> Same(c, b))
  BY <1>2
<1>10. QED
  BY <1>2, <1>4, <1>5, <1>6, <1>7, <1>8, <1>9

\* A finite tree that holds a version of a rock holds a newest one.
LEMMA NewestExists ==
  ASSUME NEW S, IsFiniteSet(S), S # {}, \A v \in S : IsVersion(v)
  PROVE  \E v \in S : \A w \in S : ~Older(v, w)
<1> DEFINE Above(v) == {w \in S : Older(v, w)}
           Rank(v) == Cardinality(Above(v))
           Ranks == {Rank(v) : v \in S}
<1>1. ASSUME NEW v \in S
      PROVE  IsFiniteSet(Above(v)) /\ Rank(v) \in Nat
  <2>1. Above(v) \in SUBSET S
    OBVIOUS
  <2> HIDE DEF Above
  <2>2. IsFiniteSet(Above(v))
    BY <2>1, FS_Subset
  <2>3. QED
    BY <2>2, FS_CardinalityType
<1>2. Ranks \subseteq Nat /\ Ranks # {}
  BY <1>1
<1>3. PICK least \in Ranks : \A k \in Ranks : <<k, least>> \notin OpToRel(<, Nat)
  <2> HIDE DEF Ranks
  <2>1. QED
    BY <1>2, NatLessThanWellFounded, WFMin
<1>4. \A k \in Ranks : ~(k < least)
  BY <1>2, <1>3 DEF OpToRel
<1>5. PICK v \in S : Rank(v) = least
  BY <1>3
<1>6. ASSUME NEW w \in S, Older(v, w)
      PROVE  FALSE
  <2>1. ASSUME NEW x \in Above(w) PROVE x \in Above(v)
    <3>1. x \in S /\ Older(w, x) /\ IsVersion(x) /\ IsVersion(v) /\ IsVersion(w)
      BY <2>1
    <3>2. Older(v, x)
      BY <1>6, <3>1, OlderTransitive
    <3>3. QED
      BY <3>1, <3>2
  <2>2. w \in Above(v)
    BY <1>6
  <2>3. w \notin Above(w)
    <3>1. IsVersion(w)
      OBVIOUS
    <3>2. ~Older(w, w)
      BY <3>1, VersionOrder
    <3>3. QED
      BY <3>2
  <2>4. Rank(w) \in Ranks /\ ~(Rank(w) < Rank(v))
    <3>1. Rank(w) \in Ranks
      OBVIOUS
    <3>2. QED
      BY <1>4, <1>5, <3>1
  <2>5. IsFiniteSet(Above(v)) /\ Rank(v) \in Nat /\ Rank(w) \in Nat
    BY <1>1
  <2>6. Above(w) \in SUBSET Above(v)
    BY <2>1
  <2> HIDE DEF Above
  <2>7. Rank(w) <= Rank(v) /\ (Rank(v) = Rank(w) => Above(v) = Above(w))
    BY <2>5, <2>6, FS_Subset
  <2>8. Rank(v) = Rank(w)
    <3> HIDE DEF Rank
    <3>1. QED
      BY <2>4, <2>5, <2>7
  <2>9. QED
    BY <2>2, <2>3, <2>7, <2>8
<1>7. QED
  BY <1>6

\* The highest version of a rock, which `require` finds, is a newest of the tree, and any
\* other newest one is the same version.
LEMMA HighestIsNewest ==
  ASSUME NEW S, IsFiniteSet(S), S # {}, \A v \in S : IsVersion(v)
  PROVE  /\ Highest(S) \in S
         /\ \A w \in S : ~Older(Highest(S), w)
         /\ \A v \in S : (\A w \in S : ~Older(v, w)) => SameVersion(v, Highest(S))
<1>1. \A v, w \in S : Before(v, w) <=> Older(v, w)
  BY VersionOrder
<1>2. \E v \in S : \A w \in S : ~Older(v, w)
  BY NewestExists
<1>3. \E v \in S : v \in Newest(S)
  BY <1>1, <1>2 DEF Newest
<1>4. Highest(S) \in S /\ Highest(S) \in Newest(S)
  BY <1>3 DEF Highest
<1>5. \A w \in S : ~Older(Highest(S), w)
  BY <1>1, <1>4 DEF Newest
<1>6. ASSUME NEW v \in S, \A w \in S : ~Older(v, w)
      PROVE  SameVersion(v, Highest(S))
  <2>1. ~Older(v, Highest(S)) /\ ~Older(Highest(S), v)
    BY <1>4, <1>5, <1>6
  <2>2. IsVersion(v) /\ IsVersion(Highest(S))
    BY <1>4
  <2>3. QED
    BY <2>1, <2>2, VersionOrder
<1>7. QED
  BY <1>4, <1>5, <1>6

\* `~>` as the code decides it: not below the version, and below the next increment of
\* its last component.  What that accepts begins with the version's components.
LEMMA CompatibleStarts ==
  ASSUME NEW v, IsVersion(v), NEW c, IsVersion(c), ~Older(v, c)
  PROVE  Older(v, NextCompatible(c)) <=> StartsWith(v, c)
<1> DEFINE next == NextCompatible(c)
           n == Len(c.parts)
<1>1. /\ n \in Nat \ {0} /\ DOMAIN c.parts = 1..n
      /\ c.parts \in Seq(Nat)
  BY Components DEF IsVersion
<1>2. /\ next.parts \in Seq(Nat) /\ Len(next.parts) = n /\ next.revision = 0
      /\ next.parts # <<>>
      /\ \A i \in 1..n : i # n => next.parts[i] = c.parts[i]
      /\ next.parts[n] = c.parts[n] + 1
  <2>1. next.parts = [c.parts EXCEPT ![n] = @ + 1] /\ next.revision = 0
    BY DEF NextCompatible, NoRevision
  <2>2. c.parts[n] \in Nat
    BY <1>1
  <2>3. QED
    BY <1>1, <2>1, <2>2
<1>3. IsVersion(next)
  BY <1>2 DEF IsVersion
<1> HIDE DEF next
<1>4. PICK m \in Nat : m >= Width(v, c) /\ m >= Width(v, next) /\ m >= n
  <2>1. Width(v, c) \in Nat /\ Width(v, next) \in Nat
    BY <1>3, Components
  <2>2. Width(v, c) + Width(v, next) + n \in Nat
    BY <1>1, <2>1
  <2>3. QED
    BY <1>1, <2>1, <2>2
<1>5. /\ \A i \in 1..m : PartOf(v, i) \in Nat /\ PartOf(c, i) \in Nat /\ PartOf(next, i) \in Nat
      /\ \A i \in 1..m : i > n => PartOf(c, i) = 0 /\ PartOf(next, i) = 0
      /\ \A i \in 1..n : PartOf(c, i) = c.parts[i]
      /\ \A i \in 1..n : i # n => PartOf(next, i) = PartOf(c, i)
      /\ PartOf(next, n) = PartOf(c, n) + 1
      /\ v.revision \in Nat
  <2>1. \A i \in 1..m : i \in Nat /\ i # 0
    OBVIOUS
  <2>2. \A i \in 1..m : PartOf(v, i) \in Nat /\ PartOf(c, i) \in Nat /\ PartOf(next, i) \in Nat
    BY <1>3, <2>1, Components
  <2>3. \A i \in 1..m : i > n => PartOf(c, i) = 0 /\ PartOf(next, i) = 0
    BY <1>2 DEF PartOf
  <2>4. \A i \in 1..n : PartOf(c, i) = c.parts[i] /\ PartOf(next, i) = next.parts[i]
    BY <1>1, <1>2 DEF PartOf
  <2>5. v.revision \in Nat
    BY DEF IsVersion
  <2>6. n \in 1..n
    BY <1>1
  <2>7. QED
    BY <1>2, <2>2, <2>3, <2>4, <2>5, <2>6
<1>6. Older(v, next) <=> \/ \E i \in 1..m : /\ PartOf(v, i) < PartOf(next, i)
                                            /\ \A j \in 1..(i - 1) : PartOf(v, j) = PartOf(next, j)
                         \/ /\ \A i \in 1..m : PartOf(v, i) = PartOf(next, i)
                            /\ v.revision < next.revision
  BY <1>3, <1>4, OlderAt
<1>7. \A i \in 1..m : ~(/\ PartOf(v, i) < PartOf(c, i)
                       /\ \A j \in 1..(i - 1) : PartOf(v, j) = PartOf(c, j))
  BY <1>4, OlderAt
<1>8. StartsWith(v, c) <=> \A i \in 1..n : PartOf(v, i) = PartOf(c, i)
  BY <1>1, <1>5 DEF StartsWith
<1> HIDE DEF n
<1>9. n \in 1..m /\ \A i \in 1..n : i \in 1..m
  BY <1>1, <1>4
<1>10. ASSUME \A i \in 1..n : PartOf(v, i) = PartOf(c, i)
       PROVE  Older(v, next)
  <2>1. PartOf(v, n) < PartOf(next, n)
    BY <1>1, <1>5, <1>9, <1>10
  <2>2. \A j \in 1..(n - 1) : j \in 1..n /\ j # n
    BY <1>1
  <2>3. \A j \in 1..(n - 1) : PartOf(v, j) = PartOf(next, j)
    BY <1>5, <1>10, <2>2
  <2>4. QED
    BY <1>6, <1>9, <2>1, <2>3
<1>11. ASSUME Older(v, next)
       PROVE  \A i \in 1..n : PartOf(v, i) = PartOf(c, i)
  <2>1. ~(v.revision < next.revision)
    BY <1>2, <1>5
  <2>2. PICK i \in 1..m : /\ PartOf(v, i) < PartOf(next, i)
                          /\ \A j \in 1..(i - 1) : PartOf(v, j) = PartOf(next, j)
    BY <1>6, <1>11, <2>1
  <2>3. ~(n < i)
    <3>1. i > n => PartOf(next, i) = 0 /\ PartOf(v, i) \in Nat
      BY <1>5
    <3>2. QED
      BY <1>1, <2>2, <3>1
  <2>4. \A j \in 1..(i - 1) : j \in 1..n /\ j # n
    BY <1>1, <2>3
  <2>5. \A j \in 1..(i - 1) : PartOf(v, j) = PartOf(c, j)
    BY <1>5, <2>2, <2>4
  <2>6. ~(PartOf(v, i) < PartOf(c, i))
    BY <1>7, <2>5
  <2>7. i = n
    <3>1. i # n => i \in 1..n /\ PartOf(next, i) = PartOf(c, i)
      BY <1>1, <1>5, <2>3
    <3>2. QED
      BY <2>2, <2>6, <3>1
  <2>8. PartOf(v, n) = PartOf(c, n)
    BY <1>5, <1>9, <2>2, <2>6, <2>7
  <2>9. QED
    BY <1>1, <2>5, <2>7, <2>8
<1>12. QED
  BY <1>8, <1>10, <1>11 DEF next

\* Constraint::matches decides what each operator means.
LEMMA MatchesAsMeant ==
  ASSUME NEW v, IsVersion(v), NEW c, IsVersion(c.version),
         c.op \in {"=", "~=", "<", "<=", ">", ">=", "~>"}
  PROVE  Satisfies(v, c) <=> Meaning(v, c)
<1> DEFINE required == c.version
<1>1. /\ Before(v, required) <=> Older(v, required)
      /\ Before(required, v) <=> Older(required, v)
      /\ ~Older(v, required) <=> Older(required, v) \/ SameVersion(required, v)
      /\ ~Older(required, v) <=> Older(v, required) \/ SameVersion(v, required)
  BY VersionOrder
<1>2. EqualAsSpecified(v, required) <=>
        StartsWith(v, required) /\ required.revision \in {NoRevision, v.revision}
  BY DEF EqualAsSpecified, StartsWith
<1>3. IsVersion(NextCompatible(required))
  <2>1. required.parts \in Seq(Nat) /\ required.parts # <<>>
    BY DEF IsVersion
  <2>2. Len(required.parts) \in 1..Len(required.parts)
    BY <2>1
  <2>3. [required.parts EXCEPT ![Len(required.parts)] = @ + 1] \in Seq(Nat) \ {<<>>}
    BY <2>1, <2>2
  <2>4. QED
    BY <2>3 DEF IsVersion, NextCompatible, NoRevision
<1>4. Before(v, NextCompatible(required)) <=> Older(v, NextCompatible(required))
  BY <1>3, VersionOrder
<1>5. ~Older(v, required) => (Older(v, NextCompatible(required)) <=> StartsWith(v, required))
  BY CompatibleStarts
<1>6. CASE c.op = "="
  BY <1>2, <1>6 DEF Satisfies, Meaning
<1>7. CASE c.op = "~="
  BY <1>2, <1>7 DEF Satisfies, Meaning
<1>8. CASE c.op = "<"
  BY <1>1, <1>8 DEF Satisfies, Meaning
<1>9. CASE c.op = "<="
  BY <1>1, <1>9 DEF Satisfies, Meaning
<1>10. CASE c.op = ">"
  BY <1>1, <1>10 DEF Satisfies, Meaning
<1>11. CASE c.op = ">="
  BY <1>1, <1>11 DEF Satisfies, Meaning
<1>12. CASE c.op = "~>"
  BY <1>1, <1>4, <1>5, <1>12 DEF Satisfies, Meaning
<1>13. QED
  BY <1>6, <1>7, <1>8, <1>9, <1>10, <1>11, <1>12

\* Of two versions that are the same each means what the other does.
LEMMA SameMeaning ==
  ASSUME NEW a, IsVersion(a), NEW b, IsVersion(b), SameVersion(a, b),
         NEW c, IsVersion(c.version),
         c.op \in {"=", "~=", "<", "<=", ">", ">=", "~>"}
  PROVE  Meaning(a, c) <=> Meaning(b, c)
<1> DEFINE required == c.version
<1>1. /\ Older(a, required) <=> Older(b, required)
      /\ Older(required, a) <=> Older(required, b)
      /\ SameVersion(a, required) <=> SameVersion(b, required)
      /\ SameVersion(required, a) <=> SameVersion(required, b)
      /\ StartsWith(a, required) <=> StartsWith(b, required)
      /\ a.revision = b.revision
  BY SameIsAlike
<1>2. CASE c.op \in {"=", "~="}
  BY <1>1, <1>2 DEF Meaning
<1>3. CASE c.op \in {"<", ">"}
  BY <1>1, <1>3 DEF Meaning
<1>4. CASE c.op \in {"<=", ">=", "~>"}
  BY <1>1, <1>4 DEF Meaning
<1>5. QED
  BY <1>2, <1>3, <1>4

-----------------------------------------------------------------------------
(* What the verification of a load decides.  The tree holds released       *)
(* versions of the rocks, and the manifests are among those declared.      *)

RocksInv ==
  /\ needs \in Demands
  /\ DOMAIN tree = Rocks
  /\ \A r \in Rocks : tree[r] \subseteq Released[r]
  /\ DOMAIN todo \subseteq Rocks

LEMMA RocksHold == RocksSpec => []RocksInv
<1>1. RocksInit => RocksInv
  BY DEF RocksInit, RocksInv
<1>2. RocksInv /\ [RocksNext]_rockVars => RocksInv'
  <2> SUFFICES ASSUME RocksInv, [RocksNext]_rockVars
               PROVE  RocksInv'
    OBVIOUS
  <2>1. CASE InstallRocks
    <3>1. DOMAIN Wanted \subseteq Rocks
      BY DEF Wanted
    <3>2. QED
      BY <2>1, <3>1 DEF InstallRocks, RocksInv
  <2>2. CASE InstallNext
    <3>1. PICK r \in DOMAIN todo :
            /\ todo' = [s \in DOMAIN todo \ {r} |-> todo[s]]
            /\ \/ UNCHANGED tree
               \/ \E v \in Fetched(r, todo[r]), kept \in {{}, tree[r]} :
                    tree' = [tree EXCEPT ![r] = kept \cup {v}]
            /\ needs' = needs
      BY <2>2 DEF InstallNext
    <3>2. DOMAIN todo' \subseteq Rocks /\ r \in Rocks /\ needs' \in Demands
      BY <3>1 DEF RocksInv
    <3>3. CASE UNCHANGED tree
      BY <3>2, <3>3 DEF RocksInv
    <3>4. CASE \E v \in Fetched(r, todo[r]), kept \in {{}, tree[r]} :
                 tree' = [tree EXCEPT ![r] = kept \cup {v}]
      <4>1. PICK v \in Fetched(r, todo[r]), kept \in {{}, tree[r]} :
              tree' = [tree EXCEPT ![r] = kept \cup {v}]
        BY <3>4
      <4>2. v \in Released[r]
        BY <4>1 DEF Fetched, Newest
      <4>3. kept \cup {v} \subseteq Released[r]
        BY <3>2, <4>2 DEF RocksInv
      <4>4. DOMAIN tree' = Rocks /\ \A s \in Rocks : tree'[s] \subseteq Released[s]
        BY <3>2, <4>1, <4>3 DEF RocksInv
      <4>5. QED
        BY <3>2, <4>4 DEF RocksInv
    <3>5. QED
      BY <3>1, <3>3, <3>4
  <2>3. CASE Operator
    <3>1. PICK r \in Rocks : \E v \in Released[r] :
            tree' = [tree EXCEPT ![r] = IF v \in @ THEN @ \ {v} ELSE @ \cup {v}]
      BY <2>3 DEF Operator
    <3>2. DOMAIN tree' = Rocks /\ \A s \in Rocks : tree'[s] \subseteq Released[s]
      BY <3>1 DEF RocksInv
    <3>3. QED
      BY <2>3, <3>2 DEF Operator, RocksInv
  <2>4. CASE LoadDir
    BY <2>4 DEF LoadDir, RocksInv
  <2>5. CASE UNCHANGED rockVars
    BY <2>5 DEF rockVars, RocksInv
  <2>6. QED
    BY <2>1, <2>2, <2>3, <2>4, <2>5 DEF RocksNext
<1>3. QED
  BY <1>1, <1>2, PTL DEF RocksSpec

\* verify_rocks accepts the version it is shown exactly when every newest version of the
\* tree is one that the requirement means.
LEMMA ShownIsMeant ==
  ASSUME RocksInv, NEW p \in Plugins, NEW r \in DOMAIN needs[p], tree[r] # {}
  PROVE  RockMatches(needs[p][r], Highest(tree[r])) <=>
           \A v \in tree[r] : (\A w \in tree[r] : ~Older(v, w))
                              => \A c \in needs[p][r] : Meaning(v, c)
<1>1. /\ r \in Rocks
      /\ \A c \in needs[p][r] :
           /\ c.op \in {"=", "~=", "<", "<=", ">", ">=", "~>"}
           /\ IsVersion(c.version)
  BY RocksAssumption DEF RocksInv
<1>2. /\ IsFiniteSet(Released[r]) /\ tree[r] \in SUBSET Released[r]
      /\ \A v \in tree[r] : IsVersion(v)
  BY <1>1, RocksAssumption DEF RocksInv
<1>3. IsFiniteSet(tree[r])
  BY <1>2, FS_Subset
<1>4. /\ Highest(tree[r]) \in tree[r]
      /\ \A w \in tree[r] : ~Older(Highest(tree[r]), w)
      /\ \A v \in tree[r] : (\A w \in tree[r] : ~Older(v, w))
                            => SameVersion(v, Highest(tree[r]))
  BY <1>2, <1>3, HighestIsNewest
<1> DEFINE shown == Highest(tree[r])
<1>5. IsVersion(shown)
  BY <1>2, <1>4
<1>6. \A c \in needs[p][r] : Satisfies(shown, c) <=> Meaning(shown, c)
  BY <1>1, <1>5, MatchesAsMeant
<1>7. ASSUME NEW v \in tree[r], \A w \in tree[r] : ~Older(v, w), NEW c \in needs[p][r]
      PROVE  Meaning(v, c) <=> Meaning(shown, c)
  <2>1. /\ SameVersion(v, shown) /\ IsVersion(v) /\ IsVersion(c.version)
        /\ c.op \in {"=", "~=", "<", "<=", ">", ">=", "~>"}
    BY <1>1, <1>2, <1>4, <1>7
  <2> HIDE DEF shown
  <2>2. QED
    BY <1>5, <2>1, SameMeaning
<1> HIDE DEF shown
<1>8. RockMatches(needs[p][r], shown) <=> \A c \in needs[p][r] : Meaning(shown, c)
  BY <1>6 DEF RockMatches
<1>9. shown \in tree[r] /\ \A w \in tree[r] : ~Older(shown, w)
  BY <1>4 DEF shown
<1>10. QED
  BY <1>7, <1>8, <1>9 DEF shown

\* Whatever versions the rocks have and whatever the plugins require of them, a load's
\* verification (verify_rocks) passes a plugin exactly when each rock it declares is there
\* in the version that each operator of the requirement means.
THEOREM VerdictsAreMeant == RocksSpec => VerdictIsMeant
<1> DEFINE Meant(p) == \A r \in DOMAIN needs[p] :
                         /\ tree[r] # {}
                         /\ \A v \in tree[r] :
                              (\A w \in tree[r] : ~Older(v, w))
                                => \A c \in needs[p][r] : Meaning(v, c)
           Fits == verdict' = verdict \/ \A p \in Plugins : verdict'[p] <=> Meant(p)
<1>1. ASSUME RocksInv, LoadDir
      PROVE  \A p \in Plugins : verdict'[p] <=> Meant(p)
  <2> SUFFICES ASSUME NEW p \in Plugins
               PROVE  InOrder(p, Listing(tree)) <=> Meant(p)
    BY <1>1 DEF LoadDir
  <2>1. DOMAIN needs[p] \subseteq Rocks
    BY <1>1, RocksAssumption DEF RocksInv
  <2>2. ASSUME NEW r \in DOMAIN needs[p]
        PROVE  /\ r \in DOMAIN Listing(tree) <=> tree[r] # {}
               /\ tree[r] # {} => Listing(tree)[r] = Highest(tree[r])
    BY <2>1, <2>2 DEF Listing
  <2>3. ASSUME NEW r \in DOMAIN needs[p], tree[r] # {}
        PROVE  RockMatches(needs[p][r], Highest(tree[r])) <=>
                 \A v \in tree[r] : (\A w \in tree[r] : ~Older(v, w))
                                    => \A c \in needs[p][r] : Meaning(v, c)
    BY <1>1, <2>3, ShownIsMeant
  <2>4. QED
    BY <2>2, <2>3 DEF InOrder
<1>2. ASSUME RocksInv, [RocksNext]_rockVars
      PROVE  Fits
  <2>1. CASE LoadDir
    BY <1>1, <1>2, <2>1
  <2>2. CASE InstallRocks \/ InstallNext \/ Operator \/ UNCHANGED rockVars
    BY <2>2 DEF InstallRocks, InstallNext, Operator, rockVars
  <2>3. QED
    BY <1>2, <2>1, <2>2 DEF RocksNext
<1>3. RocksInv /\ [RocksNext]_rockVars => [Fits]_rockVars
  BY <1>2
<1>4. QED
  BY <1>3, RocksHold, PTL DEF RocksSpec, VerdictIsMeant

=============================================================================
