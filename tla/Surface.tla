------------------------------ MODULE Surface ------------------------------
(***************************************************************************)
(* One embedding program: it builds its host, loads a plugin and exchanges *)
(* values with it.                                                         *)
(***************************************************************************)
EXTENDS Crossings, HostConfig

vars == <<crossingVars, hostVars>>

Init == CrossingsInit /\ HostInit

Configuring == HostNext /\ UNCHANGED crossingVars

\* Values cross once there is a host, whatever it was built from.
Crossing == host # NotBuilt /\ CrossingsNext(lang) /\ UNCHANGED hostVars

Next == Configuring \/ Crossing
Spec == Init /\ [][Next]_vars

=============================================================================
