------------------------------ MODULE MCRemote ------------------------------
(* Three calls and two callbacks, where everything that can go wrong may go  *)
(* wrong together: with a deadline, and without.                             *)
EXTENDS Remote

ManyWorlds == {Happenings, Happenings \ {"deadline"}}
=============================================================================
