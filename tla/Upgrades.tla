------------------------------ MODULE Upgrades ------------------------------
(***************************************************************************)
(* UpgradeReview (stanchion-registry, upgrade.rs) and the chain of         *)
(* upgrades a host lets through on its word: a candidate whose review does *)
(* not widen is applied unattended, any other one waits for a person.      *)
(*                                                                         *)
(* A manifest is [version, entry, capabilities, dependencies, rocks].  A   *)
(* capability declares [optional, params]; a parameter is <<"list", set>>, *)
(* an array of which only the elements matter, or <<"scalar", x>>.         *)
(* Dependencies and rocks map names to requirements.                       *)
(***************************************************************************)
EXTENDS Naturals, FiniteSets

CONSTANTS Manifests     \* what the versions of one plugin may declare

ASSUME ManifestAssumption == \A m \in Manifests : m.version \in Nat

VARIABLES installed,    \* the manifest of the installed version
          approved      \* the manifest a person last agreed to

upgradeVars == <<installed, approved>>

Changed(kind, name, widens) == [kind |-> kind, name |-> name, widens |-> widens]

\* Fault: a parameter the candidate no longer declares is a simplification.
NarrowsDropped(before, after) ==
  \A k \in DOMAIN after :
    /\ k \in DOMAIN before
    /\ \/ before[k] = after[k]
       \/ /\ before[k][1] = "list" /\ after[k][1] = "list"
          /\ after[k][2] \subseteq before[k][2]

\* Only what can be proved to ask for no more: the same keys, each with the same
\* value or with an array of elements the old array had.
Narrows(before, after) ==
  /\ DOMAIN before = DOMAIN after
  /\ \A k \in DOMAIN after :
       \/ before[k] = after[k]
       \/ /\ before[k][1] = "list" /\ after[k][1] = "list"
          /\ after[k][2] \subseteq before[k][2]

\* diff_capabilities.
CapabilityChanges(from, to) ==
  {Changed("added", c, TRUE) : c \in DOMAIN to \ DOMAIN from}
  \cup {Changed("removed", c, FALSE) : c \in DOMAIN from \ DOMAIN to}
  \cup {Changed("params", c, ~Narrows(from[c].params, to[c].params)) :
          c \in {d \in DOMAIN from \cap DOMAIN to : from[d].params # to[d].params}}
  \cup {Changed("optionality", c, FALSE) :
          c \in {d \in DOMAIN from \cap DOMAIN to : from[d].optional # to[d].optional}}

\* The names that appear and disappear: of dependencies and of rocks alike.
NameChanges(kind, from, to) ==
  {Changed(kind, n, TRUE) : n \in DOMAIN to \ DOMAIN from}
  \cup {Changed("removed", n, FALSE) : n \in DOMAIN from \ DOMAIN to}

\* UpgradeReview::between.
Between(from, to) ==
  (IF to.version <= from.version THEN {Changed("not newer", "version", TRUE)} ELSE {})
  \cup (IF to.entry # from.entry THEN {Changed("entry", "entry", TRUE)} ELSE {})
  \cup CapabilityChanges(from.capabilities, to.capabilities)
  \cup NameChanges("dependency", from.dependencies, to.dependencies)
  \cup NameChanges("rock", from.rocks, to.rocks)

Widens(review) == \E change \in review : change.widens

UpgradeInit == installed \in Manifests /\ approved = installed

\* Staged::widens is false, and the host commits without asking.
ApplyUnattended(m) == /\ ~Widens(Between(installed, m))
                      /\ installed' = m
                      /\ UNCHANGED approved

\* A person has read the concerns and agreed.
ApplyApproved(m) == /\ Widens(Between(installed, m))
                    /\ installed' = m
                    /\ approved' = m

UpgradeNext == \E m \in Manifests : ApplyUnattended(m) \/ ApplyApproved(m)

UpgradeSpec == UpgradeInit /\ [][UpgradeNext]_upgradeVars

-----------------------------------------------------------------------------

\* However many versions went by unattended, the installed one reaches nothing the
\* approved one did not: no new name of any kind, no other entry chunk, no older
\* version, the same constraints on every capability it kept and no new element in
\* any of them.
UnattendedNeverGrows ==
  /\ installed.version >= approved.version
  /\ installed.entry = approved.entry
  /\ DOMAIN installed.capabilities \subseteq DOMAIN approved.capabilities
  /\ DOMAIN installed.dependencies \subseteq DOMAIN approved.dependencies
  /\ DOMAIN installed.rocks \subseteq DOMAIN approved.rocks
  /\ \A c \in DOMAIN installed.capabilities :
       LET now == installed.capabilities[c].params
           then == approved.capabilities[c].params
       IN /\ DOMAIN now = DOMAIN then
          /\ \A k \in DOMAIN now : \/ now[k] = then[k]
                                   \/ now[k][1] = "list" /\ now[k][2] \subseteq then[k][2]

\* `UpgradeReview::is_empty` says of itself: "Whether the two manifests declare
\* exactly the same things."  Not so for the requirements on names that stay.
EmptyMeansSame ==
  [][\/ Between(installed, installed') # {}
     \/ /\ installed'.dependencies = installed.dependencies
        /\ installed'.rocks = installed.rocks]_upgradeVars

=============================================================================
