----------------------------- MODULE MCBindings -----------------------------
(* Two threads that call plugins and one that polls a future, on three instances
   whose providers only call later ones, or their own. *)
EXTENDS Bindings, TLC

MCInstance == 1 .. 3
MCNest == {p \in MCInstance \X MCInstance : p[1] =< p[2]}
MCTarget == "f" :> 1
MCNoTarget == <<>>

\* Providers that may call any instance, and a second future, of the other instance.
AnyNest == MCInstance \X MCInstance
TwoTargets == "f" :> 1 @@ "g" :> 2
=============================================================================
