------------------------------- MODULE Rocks -------------------------------
(***************************************************************************)
(* The LuaRocks tree a registry is given (stanchion-abi, rocks.rs): the    *)
(* versions it holds and the requirements of plugins on them, provisioning *)
(* with Registry::install_rocks and the verification at the start of a     *)
(* load.  A version is [parts, revision], its dotted numbers and the       *)
(* revision LuaRocks appends; a requirement is a set of [op, version].     *)
(***************************************************************************)
EXTENDS Integers, Sequences, FiniteSets

CONSTANTS Rocks,        \* rock names
          Released,       \* the versions of each rock on the rocks server
          Plugins,        \* plugins, as the numbers that order their directories
          Demands         \* [Plugins -> [names -> requirements]] a root may declare

VARIABLES tree,         \* the versions in the tree, by rock
          needs,        \* the manifests' [rocks] tables
          todo,         \* install_rocks: the requirements still to see to
          listed,       \* the listing install_rocks or load_dir works with
          report,       \* install_rocks: what became of each rock
          verdict       \* load_dir: whether each plugin's rocks are in order

rockVars == <<tree, needs, todo, listed, report, verdict>>

NoRevision == 0     \* LuaRocks' revisions start at 1

IsVersion(v) == v.parts \in Seq(Nat) /\ v.parts # <<>> /\ v.revision \in Nat
ASSUME RocksAssumption ==
  /\ \A r \in Rocks : IsFiniteSet(Released[r]) /\ \A v \in Released[r] : IsVersion(v)
  /\ \A d \in Demands, p \in Plugins :
       /\ DOMAIN d[p] \subseteq Rocks
       /\ \A r \in DOMAIN d[p] : \A c \in d[p][r] :
            c.op \in {"=", "~=", "<", "<=", ">", ">=", "~>"} /\ IsVersion(c.version)

-----------------------------------------------------------------------------

\* RockVersion::part: a component that is not there is 0.
PartOf(v, i) == IF i <= Len(v.parts) THEN v.parts[i] ELSE 0

Width(a, b) == IF Len(a.parts) > Len(b.parts) THEN Len(a.parts) ELSE Len(b.parts)

\* Ord for RockVersion: component by component, then by revision.
Before(a, b) ==
  LET differ == {i \in 1..Width(a, b) : PartOf(a, i) # PartOf(b, i)}
  IN IF differ = {} THEN a.revision < b.revision
     ELSE LET first == CHOOSE i \in differ : \A j \in differ : i <= j
          IN PartOf(a, first) < PartOf(b, first)

\* cmp_specified is Equal: only what the requirement spells out counts.
EqualAsSpecified(v, required) ==
  /\ \A i \in DOMAIN required.parts : PartOf(v, i) = required.parts[i]
  /\ required.revision # NoRevision => v.revision = required.revision

\* Fault: the first component is bumped, not the last.
NextMajor(v) == [parts |-> [v.parts EXCEPT ![1] = @ + 1], revision |-> NoRevision]

\* next_compatible: the last component, bumped.
NextCompatible(v) == [parts |-> [v.parts EXCEPT ![Len(v.parts)] = @ + 1],
                      revision |-> NoRevision]

\* Constraint::matches.
Satisfies(v, c) ==
  CASE c.op = "=" -> EqualAsSpecified(v, c.version)
    [] c.op = "~=" -> ~EqualAsSpecified(v, c.version)
    [] c.op = "<" -> Before(v, c.version)
    [] c.op = "<=" -> ~Before(c.version, v)
    [] c.op = ">" -> Before(c.version, v)
    [] c.op = ">=" -> ~Before(v, c.version)
    [] c.op = "~>" -> ~Before(v, c.version) /\ Before(v, NextCompatible(c.version))

\* Requirement::matches; the empty requirement accepts any version.
RockMatches(requirement, v) == \A c \in requirement : Satisfies(v, c)

\* pinned_version: the version `luarocks install` is given.
PinnedVersion(requirement) ==
  {c.version : c \in {d \in requirement : Cardinality(requirement) = 1 /\ d.op = "="}}

Newest(versions) == {v \in versions : \A w \in versions : ~Before(v, w)}
Highest(versions) == CHOOSE v \in versions : v \in Newest(versions)

\* RocksConfig::installed: the highest version of each rock the tree holds.
Listing(t) == [r \in {s \in Rocks : t[s] # {}} |-> Highest(t[r])]

-----------------------------------------------------------------------------

RocksInit == /\ tree = [r \in Rocks |-> {}]
             /\ needs \in Demands
             /\ todo = <<>> /\ listed = <<>> /\ report = <<>> /\ verdict = <<>>

NotInstalling == DOMAIN todo = {}

\* Of several plugins that declare one rock, the last directory's requirement is
\* the one install_rocks goes by.
Wanted == LET declaring(r) == {p \in Plugins : r \in DOMAIN needs[p]}
          IN [r \in {s \in Rocks : declaring(s) # {}} |->
                needs[CHOOSE p \in declaring(r) : \A q \in declaring(r) : q <= p][r]]

InstallRocks == /\ NotInstalling
                /\ Wanted # <<>>
                /\ todo' = Wanted
                /\ listed' = Listing(tree)
                /\ report' = <<>>
                /\ UNCHANGED <<tree, needs, verdict>>

\* What `luarocks install` fetches: the pinned version, or the newest there is.
Fetched(r, requirement) ==
  IF PinnedVersion(requirement) = {} THEN Newest(Released[r])
  ELSE {v \in Released[r] : \A required \in PinnedVersion(requirement) : EqualAsSpecified(v, required)}

Reported(r, what) == report' = [s \in DOMAIN report \cup {r} |->
                                  IF s = r THEN what ELSE report[s]]

\* One rock of install_rocks, in the order of their names; the command may fail
\* and may remove the versions that were there.
InstallNext ==
  \E r \in DOMAIN todo :
    /\ todo' = [s \in DOMAIN todo \ {r} |-> todo[s]]
    /\ \/ /\ r \in DOMAIN listed /\ RockMatches(todo[r], listed[r])
          /\ Reported(r, "satisfied")
          /\ UNCHANGED tree
       \/ /\ ~(r \in DOMAIN listed /\ RockMatches(todo[r], listed[r]))
          /\ \/ \E v \in Fetched(r, todo[r]), kept \in {{}, tree[r]} :
                  /\ tree' = [tree EXCEPT ![r] = kept \cup {v}]
                  /\ Reported(r, "installed")
             \/ /\ Reported(r, "failed")
                /\ UNCHANGED tree
    /\ UNCHANGED <<needs, listed, verdict>>

\* The operator's own `luarocks install` and `luarocks remove`, between provisionings.
Operator == /\ NotInstalling
            /\ \E r \in Rocks : \E v \in Released[r] :
                 tree' = [tree EXCEPT ![r] = IF v \in @ THEN @ \ {v} ELSE @ \cup {v}]
            /\ UNCHANGED <<needs, todo, listed, report, verdict>>

\* verify_rocks: each declared rock is there, and the version `require` finds fits.
InOrder(p, listing) ==
  \A r \in DOMAIN needs[p] : r \in DOMAIN listing /\ RockMatches(needs[p][r], listing[r])

\* load_dir: one listing, by prepare_rocks, for all plugins.
LoadDir == /\ NotInstalling
           /\ listed' = Listing(tree)
           /\ verdict' = [p \in Plugins |-> InOrder(p, Listing(tree))]
           /\ UNCHANGED <<tree, needs, todo, report>>

RocksNext == InstallRocks \/ InstallNext \/ Operator \/ LoadDir
RocksSpec == RocksInit /\ [][RocksNext]_rockVars

-----------------------------------------------------------------------------

\* What each operator means.  A requirement of n components that asks for equality, or
\* for a compatible version, names the first n; the others compare versions whole.
StartsWith(v, required) == \A i \in DOMAIN required.parts : PartOf(v, i) = required.parts[i]
Older(a, b) ==
  \/ \E i \in 1..Width(a, b) : /\ PartOf(a, i) < PartOf(b, i)
                              /\ \A j \in 1..(i - 1) : PartOf(a, j) = PartOf(b, j)
  \/ /\ \A i \in 1..Width(a, b) : PartOf(a, i) = PartOf(b, i)
     /\ a.revision < b.revision
SameVersion(a, b) == /\ \A i \in 1..Width(a, b) : PartOf(a, i) = PartOf(b, i)
                     /\ a.revision = b.revision

Meaning(v, c) ==
  LET required == c.version
      named == /\ StartsWith(v, required)
               /\ required.revision \in {NoRevision, v.revision}
      atLeast == Older(required, v) \/ SameVersion(required, v)
  IN CASE c.op = "=" -> named
       [] c.op = "~=" -> ~named
       [] c.op = "<" -> Older(v, required)
       [] c.op = "<=" -> Older(v, required) \/ SameVersion(v, required)
       [] c.op = ">" -> Older(required, v)
       [] c.op = ">=" -> atLeast
       [] c.op = "~>" -> atLeast /\ StartsWith(v, required)

\* A plugin passes the verification of a load (verify_rocks) exactly when every rock it
\* declares is in the tree and the version that `require` would find, the highest, is
\* one that each part of its requirement means.
VerdictIsMeant ==
  [][verdict' = verdict
       \/ \A p \in Plugins :
            verdict'[p] <=> \A r \in DOMAIN needs[p] :
                              /\ tree[r] # {}
                              /\ \A v \in tree[r] :
                                   (\A w \in tree[r] : ~Older(v, w))
                                     => \A c \in needs[p][r] : Meaning(v, c)]_rockVars

\* After a provisioning that reports no failure, the next load finds the rocks of every
\* plugin in order.  Not so: a range fetches the newest release, and one of two plugins
\* that declare the same rock is not asked.
ProvisionedLoads ==
  [][NotInstalling \/ ~NotInstalling' \/ (\E r \in DOMAIN report' : report'[r] = "failed")
       \/ \A p \in Plugins : InOrder(p, Listing(tree'))]_rockVars

=============================================================================
