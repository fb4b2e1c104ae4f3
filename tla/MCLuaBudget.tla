---------------------------- MODULE MCLuaBudget ----------------------------
(* Calls of both kinds on one state, an allowance of two turns of the hook, and *)
(* code that would run for twice that, catching every error it can.             *)
EXTENDS LuaBudget, TLC

=============================================================================
