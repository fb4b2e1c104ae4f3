------------------------------ MODULE Install ------------------------------
(***************************************************************************)
(* The installer of stanchion-dist (crates/stanchion-dist/src/install.rs):  *)
(* staging a release beside the installed plugins, checking it, and         *)
(* committing it by renames, one action per step that changes the plugin    *)
(* root, so that the process can die, or a file operation fail, between any *)
(* two of them.  The host pins what it committed and saves its lockfile, as *)
(* the module's own example does.                                           *)
(*                                                                         *)
(* Paths of the plugin root are numbers in the order `discover` sorts them; *)
(* a plugin's name is the path it is installed at.  A path holds a build,   *)
(* which stands for all its files and is its own digest; `Half`, an archive *)
(* not yet unpacked; or nothing.                                            *)
(***************************************************************************)
EXTENDS Naturals, FiniteSets, Functions, FiniteSetsExt

CONSTANTS
    Flow,       \* installs the host has under way at a time, one handle each
    Name,       \* plugin names
    Build,      \* builds: packages and what is installed
    Info,       \* what the manifest of each build says: name and version
    Version,
    StagingOf,  \* root/.<name>.staging of each name
    PreviousOf, \* target.with_extension("previous") of each name
    Releases,   \* what the index lists for each name
    Served,     \* what the source may answer a fetch with
    Installs,   \* the names each flow may install
    Roots,      \* what may be installed at first
    Locks,      \* the lockfiles the host may start with
    Nothing,    \* no directory
    Half,       \* a directory that is being unpacked into
    AnyVersion, \* a pin without a version
    MaxFaults   \* how often the process dies, drops a handle or fails to change a file

Path == Name \cup Range(StagingOf) \cup Range(PreviousOf)

Release == [version : Version, digest : Build, yanked : BOOLEAN]

Job == [name : Name, release : Release]

Pin == [digest : Build, version : Version \cup {AnyVersion}]

LockSet == UNION {[S -> Pin] : S \in SUBSET Name}

ASSUME NameAssumption == Name \subseteq Nat
ASSUME JobAssumption == Job # {}
ASSUME BuildAssumption ==
    /\ Info \in [Build -> [name : Name, version : Version]]
    /\ Nothing \notin Build /\ Half \notin Build /\ Half # Nothing
    /\ Served \subseteq Build
ASSUME PathAssumption ==
    /\ StagingOf \in [Name -> Nat] /\ PreviousOf \in [Name -> Nat]
ASSUME IndexAssumption == Releases \in [Name -> SUBSET Release]
ASSUME FlowAssumption == Installs \in [Flow -> SUBSET Name] /\ MaxFaults \in Nat
ASSUME StartAssumption ==
    Roots \subseteq [Name -> Build \cup {Nothing}] /\ Locks \subseteq LockSet

VARIABLES
    root,    \* [Path -> Build \cup {Half, Nothing}]
    file,    \* the lockfile on disk
    pins,    \* the host's Lockfile value
    pc,      \* where each flow is
    job,     \* the name, release and digest of each flow
    moved,   \* flows whose commit moved an installed plugin aside
    faults,  \* faults so far
    old,     \* what was installed at first (not changed here)
    past     \* history: the digest each name was first pinned at since pins were last
             \* lost, the names whose pin the file may lack, and the names a crash
             \* left installed without a pin

vars == <<root, file, pins, pc, job, moved, faults, old, past>>

NameOf(f) == job[f].name

Target(f) == NameOf(f)

Staging(f) == StagingOf[NameOf(f)]

Previous(f) == PreviousOf[NameOf(f)]

\* Inside a call of the installer, or of the lockfile.
Busy == {"fetched", "unpack", "check", "aside", "promote", "retire"}

Committing == {"aside", "promote", "retire"}

\* The host makes the calls about one name one after the other, and changes its
\* one Lockfile by one call at a time.
Alone(f, n) == \A g \in Flow \ {f} : pc[g] \in Busy => NameOf(g) # n

Working(n, where) == \E f \in Flow : pc[f] \in where /\ NameOf(f) = n

Goto(f, where) == pc' = [pc EXCEPT ![f] = where]

Put(r, p, c) == [r EXCEPT ![p] = c]

-----------------------------------------------------------------------------
(* Staged: fetch, unpack, check *)

\* Fault: a pin of another digest does not stop the release.
PinIgnored(n, r) == TRUE

\* The pin overrides what the index says the digest is.
PinAllows(n, r) == n \in DOMAIN pins => pins[n].digest = r.digest

\* A requirement may select any release that is not yanked.
BestMatch(r) == ~r.yanked

\* stage takes the pinned version when the pin has one, yanked or not.
Resolved(n, r) ==
    IF n \in DOMAIN pins /\ pins[n].version # AnyVersion
    THEN r.version = pins[n].version
    ELSE BestMatch(r)

Request(f, n, r) ==
    /\ pc[f] = "idle" /\ Alone(f, n)
    /\ n \in Installs[f] /\ r \in Releases[n]
    /\ PinAllows(n, r)
    /\ job' = [job EXCEPT ![f] = [name |-> n, release |-> r]]
    /\ Goto(f, "fetched")
    /\ UNCHANGED <<root, file, pins, moved, faults, old, past>>

Stage(f, n, r) == Resolved(n, r) /\ Request(f, n, r)

\* stage_upgrade does not look at the pinned version; the digest is still checked.
StageUpgrade(f, n, r) == BestMatch(r) /\ Request(f, n, r)

\* Whatever an earlier install left in the staging directory is removed.
StagingDir(f) ==
    /\ pc[f] = "fetched"
    /\ root' = Put(root, Staging(f), Half)
    /\ Goto(f, "unpack")
    /\ UNCHANGED <<file, pins, job, moved, faults, old, past>>

Unpack(f) ==
    /\ pc[f] = "unpack"
    /\ \E b \in Served : root' = Put(root, Staging(f), b)
    /\ Goto(f, "check")
    /\ UNCHANGED <<file, pins, job, moved, faults, old, past>>

\* Every way out after the staging directory was made removes it.
StageFails(f) ==
    /\ root' = Put(root, Staging(f), Nothing)
    /\ Goto(f, "idle")
    /\ UNCHANGED <<file, pins, job, moved, faults, old, past>>

UnpackFails(f) == pc[f] = "unpack" /\ StageFails(f)

\* Fault: the digest is all that is compared.
CheckDigestOnly(f) == root[Staging(f)] = job[f].release.digest

\* The digest is the release's, and the manifest says what the index says.
Matches(f) ==
    /\ root[Staging(f)] = job[f].release.digest
    /\ Info[root[Staging(f)]].name = NameOf(f)
    /\ Info[root[Staging(f)]].version = job[f].release.version

Check(f) ==
    /\ pc[f] = "check"
    /\ \/ Matches(f) /\ Goto(f, "staged")
          /\ UNCHANGED <<root, file, pins, job, moved, faults, old, past>>
       \/ ~Matches(f) /\ StageFails(f)

-----------------------------------------------------------------------------
(* Staged::discard, Staged::commit *)

Discard(f) == pc[f] = "staged" /\ Alone(f, NameOf(f)) /\ StageFails(f)

\* commit: the leftovers of an earlier commit go first.
ClearPrevious(f) ==
    /\ pc[f] = "staged" /\ Alone(f, NameOf(f))
    /\ root' = Put(root, Previous(f), Nothing)
    /\ Goto(f, "aside")
    /\ UNCHANGED <<file, pins, job, moved, faults, old, past>>

\* Fault: the installed plugin is deleted instead of moved aside.
DeleteTarget(f) ==
    /\ pc[f] = "aside"
    /\ root' = Put(root, Target(f), Nothing)
    /\ moved' = moved \ {f}
    /\ Goto(f, "promote")
    /\ UNCHANGED <<file, pins, job, faults, old, past>>

MoveAside(f) ==
    /\ pc[f] = "aside"
    /\ IF root[Target(f)] = Nothing
       THEN moved' = moved \ {f} /\ UNCHANGED root
       ELSE /\ root' = Put(Put(root, Previous(f), root[Target(f)]), Target(f), Nothing)
            /\ moved' = moved \cup {f}
    /\ Goto(f, "promote")
    /\ UNCHANGED <<file, pins, job, faults, old, past>>

Promote(f) ==
    /\ pc[f] = "promote"
    /\ root[Staging(f)] # Nothing
    /\ root' = Put(Put(root, Target(f), root[Staging(f)]), Staging(f), Nothing)
    /\ Goto(f, "retire")
    /\ UNCHANGED <<file, pins, job, moved, faults, old, past>>

\* The old version is put back, and the staged one removed.
RolledBack(f) ==
    LET back == IF f \in moved
                THEN Put(Put(root, Target(f), root[Previous(f)]), Previous(f), Nothing)
                ELSE root
    IN  Put(back, Staging(f), Nothing)

Retired(f) == IF f \in moved THEN Put(root, Previous(f), Nothing) ELSE root

Retire(f) ==
    /\ pc[f] = "retire"
    /\ root' = Retired(f)
    /\ Goto(f, "pin")
    /\ UNCHANGED <<file, pins, job, moved, faults, old, past>>

-----------------------------------------------------------------------------
(* The host: lockfile.pin(name, staged.commit()?), lockfile.save(path) *)

NoPins == [n \in {} |-> AnyVersion]

Recorded(r) == [digest |-> r.digest, version |-> r.version]

Pinned(f) ==
    [n \in DOMAIN pins \cup {NameOf(f)} |->
       IF n = NameOf(f) THEN Recorded(job[f].release) ELSE pins[n]]

\* The pin is remembered; `lacking` are the names the file has no pin of now.
Remember(f, lacking) ==
    past' = [sealed  |-> [past.sealed EXCEPT ![NameOf(f)] =
                            IF @ = Nothing THEN job[f].release.digest ELSE @],
             unsaved |-> lacking,
             bare    |-> past.bare \ {NameOf(f)}]

PinIn(f) ==
    /\ pc[f] = "pin"
    /\ \A g \in Flow : pc[g] # "save"
    /\ pins' = Pinned(f)

\* save truncates the file before it writes, and a file of length zero is read
\* as a lockfile that pins nothing.
PinAndTruncate(f) ==
    /\ PinIn(f)
    /\ file' = NoPins
    /\ Remember(f, Name)
    /\ Goto(f, "save")
    /\ UNCHANGED <<root, job, moved, faults, old>>

Save(f) ==
    /\ pc[f] = "save"
    /\ file' = pins
    /\ past' = [past EXCEPT !.unsaved = {}]
    /\ Goto(f, "idle")
    /\ UNCHANGED <<root, pins, job, moved, faults, old>>

-----------------------------------------------------------------------------
(* Faults *)

Fault == faults < MaxFaults /\ faults' = faults + 1

\* The process dies and starts again with the lockfile it finds.
Crash ==
    /\ Fault
    /\ \E f \in Flow : pc[f] # "idle"
    /\ pc' = [f \in Flow |-> "idle"]
    /\ pins' = file
    /\ past' = [sealed  |-> [n \in Name |-> IF n \in past.unsaved THEN Nothing ELSE past.sealed[n]],
                unsaved |-> {},
                bare    |-> past.bare \cup past.unsaved
                              \cup {n \in Name : Working(n, {"retire", "pin"})}]
    /\ UNCHANGED <<root, file, job, moved, old>>

\* A Staged value goes out of scope.
DropHandle(f) ==
    /\ Fault
    /\ pc[f] = "staged"
    /\ Goto(f, "idle")
    /\ UNCHANGED <<root, file, pins, job, moved, old, past>>

\* A removal or the first rename fails: commit returns and leaves the rest.
CommitStops(f) ==
    /\ Fault
    /\ \/ pc[f] = "staged" /\ Alone(f, NameOf(f)) /\ root[Previous(f)] # Nothing
       \/ pc[f] = "aside" /\ root[Target(f)] # Nothing
    /\ Goto(f, "idle")
    /\ UNCHANGED <<root, file, pins, job, moved, old, past>>

\* The rename into place fails, which is no fault when another handle of the same
\* plugin has used the staging directory.
PromoteFails(f) ==
    /\ pc[f] = "promote"
    /\ IF root[Staging(f)] = Nothing THEN UNCHANGED faults ELSE Fault
    /\ root' = RolledBack(f)
    /\ Goto(f, "idle")
    /\ UNCHANGED <<file, pins, job, moved, old, past>>

\* Removing the old version fails, which commit does not report.
RetireFails(f) ==
    /\ Fault
    /\ pc[f] = "retire" /\ f \in moved
    /\ Goto(f, "pin")
    /\ UNCHANGED <<root, file, pins, job, moved, old, past>>

\* save fails: the file is not opened, and stays what it was, or it is not written
\* to its end after it was truncated.  The host has the pin, the file has not.
OpenFails(f) ==
    /\ Fault
    /\ PinIn(f)
    /\ Remember(f, past.unsaved \cup {NameOf(f)})
    /\ Goto(f, "idle")
    /\ UNCHANGED <<root, file, job, moved, old>>

WriteFails(f) ==
    /\ Fault
    /\ pc[f] = "save"
    /\ Goto(f, "idle")
    /\ UNCHANGED <<root, file, pins, job, moved, old, past>>

-----------------------------------------------------------------------------

\* The lockfile the host starts with is of what is installed, or of what is not
\* installed yet.
Init ==
    /\ \E there \in Roots :
         root = [p \in Path |-> IF p \in Name THEN there[p] ELSE Nothing]
    /\ file \in {l \in Locks : \A n \in DOMAIN l : root[n] \in {l[n].digest, Nothing}}
    /\ pins = file
    /\ pc = [f \in Flow |-> "idle"]
    /\ job = [f \in Flow |-> CHOOSE j \in Job : TRUE]
    /\ moved = {} /\ faults = 0
    /\ old = root
    /\ past = [sealed  |-> [n \in Name |-> IF n \in DOMAIN file THEN file[n].digest ELSE Nothing],
               unsaved |-> {}, bare |-> {}]

Next ==
    \/ \E f \in Flow :
         \/ \E n \in Installs[f] : \E r \in Releases[n] :
              Stage(f, n, r) \/ StageUpgrade(f, n, r)
         \/ StagingDir(f) \/ Unpack(f) \/ UnpackFails(f) \/ Check(f)
         \/ Discard(f)
         \/ ClearPrevious(f) \/ MoveAside(f) \/ Promote(f)
         \/ Retire(f) \/ PinAndTruncate(f) \/ Save(f)
         \/ DropHandle(f) \/ CommitStops(f) \/ PromoteFails(f) \/ RetireFails(f)
         \/ OpenFails(f) \/ WriteFails(f)
    \/ Crash

Spec == Init /\ [][Next]_vars

-----------------------------------------------------------------------------

Step == Busy \cup {"idle", "staged", "pin", "save"}

TypeOK ==
    /\ root \in [Path -> Build \cup {Half, Nothing}]
    /\ file \in LockSet /\ pins \in LockSet
    /\ pc \in [Flow -> Step]
    /\ job \in [Flow -> Job]
    /\ moved \subseteq Flow
    /\ faults \in 0 .. MaxFaults
    /\ past \in [sealed : [Name -> Build \cup {Nothing}], unsaved : SUBSET Name,
                bare : SUBSET Name]

Verified(n, c) ==
    /\ c \in Build
    /\ Info[c].name = n
    /\ \E r \in Releases[n] : r.digest = c /\ r.version = Info[c].version

Admissible(n, c) == c \in {Nothing, old[n]} \/ Verified(n, c)

(* "A plugin that fails any check never exists there": under a plugin's name is
   what was there at first, or a build the index offers for that name whose
   manifest says so, whatever the index claims and the source answers, and
   wherever earlier installs died (install.rs, check_staged to commit). *)
OnlyVerified == \A n \in Name : Admissible(n, root[n])

(* What the host once pinned stays pinned at that digest, and under that name is the
   pinned build or nothing, through every sequence of stages, upgrades, commits,
   failures and restarts: only a restart that finds the lockfile truncated, or not
   written by the last save, loses a pin, and only one that this file may lack.  A
   new build is there without a pin only while its commit goes on to the pin, or
   where the process died before the pin was made and saved. *)
PinHolds ==
    \A n \in Name :
      /\ past.sealed[n] # Nothing =>
           /\ n \in DOMAIN pins /\ pins[n].digest = past.sealed[n]
           /\ root[n] \in {past.sealed[n], Nothing}
           /\ n \notin past.unsaved => n \in DOMAIN file /\ file[n].digest = past.sealed[n]
      /\ root[n] \notin {old[n], Nothing} =>
           n \in DOMAIN pins \cup past.bare \/ Working(n, {"retire", "pin"})

(* A restart takes up every pin the host had.  It does not, where the process dies
   between the truncation of the lockfile and its write (lock.rs, save). *)
RestartKeepsPins ==
    [][(\A f \in Flow : pc'[f] = "idle") => DOMAIN pins \subseteq DOMAIN pins']_vars

\* Some directory of n holds a whole build of n.
Held(n) ==
    \E p \in {n, StagingOf[n], PreviousOf[n]} :
      root[p] \in Build /\ Info[root[p]].name = n

(* Installing over a plugin does not lose it: with no fault it is replaced or put
   back, and after one crash, dropped handle or failed file operation, at any
   moment, a whole build of it is still in the root. *)
OneFaultLosesNothing ==
    \A n \in Name : old[n] # Nothing =>
      /\ faults =< 1 => Held(n)
      /\ faults = 0 /\ ~Working(n, Committing) => root[n] # Nothing

\* The directories `discover` finds a manifest in that says n.
Found(n) == {p \in Path : root[p] \in Build /\ Info[root[p]].name = n}

(* "Any previous version is moved aside and deleted only once the new one is in
   place" (install.rs, commit). *)
PreviousKeptUntilReplaced ==
    [][\A n \in Name :
         root[PreviousOf[n]] \in Build /\ root'[PreviousOf[n]] = Nothing => root'[n] # Nothing]_vars

(* "The registry is never asked to reason about a directory that is mid-install"
   (install.rs): what it finds is installed. *)
OnlyInstalledFound == \A n \in Name : Found(n) \subseteq Name

(* commit "moves the staged plugin into the plugin root and returns the pin to
   record": a commit that returns a pin returns that of what it installed. *)
PinIsOfMoved ==
    [][\A f \in Flow : pc[f] = "retire" /\ pc'[f] = "pin" =>
         root'[Target(f)] = job[f].release.digest]_vars
=============================================================================
