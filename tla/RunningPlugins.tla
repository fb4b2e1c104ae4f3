--------------------------- MODULE RunningPlugins ---------------------------
(***************************************************************************)
(* What a host may rely on of the plugins that run, whatever the registry's *)
(* tables, the order of its checks and the disk do meanwhile: a name stands  *)
(* for one plugin or none, and a step concerns one name only; a plugin is    *)
(* given what the policy gives to its signer, and from then on only loses;   *)
(* a new list is enforced before anything else starts, is replaced or loses. *)
(***************************************************************************)
CONSTANTS
    Startable,   \* the plugins, with their grants, that may run under each name
    AllLists     \* what may be withdrawn

VARIABLES
    running,     \* name -> the plugin that runs under it
    list         \* the digests and signers that are withdrawn

Names == DOMAIN Startable

Allowed(p) == p.digest \notin list.digests /\ p.signer \notin list.signers

Enforced == \A n \in DOMAIN running : Allowed(running[n])

Init == /\ running = [n \in {} |-> n]
        /\ list \in AllLists

\* A plugin begins to run under a name nobody had.
Start(n) ==
    /\ n \notin DOMAIN running /\ n \in DOMAIN running'
    /\ Enforced
    /\ LET new == running'[n]
       IN  /\ new \in Startable[n] /\ Allowed(new)
           /\ running' = [m \in DOMAIN running \union {n} |->
                            IF m = n THEN new ELSE running[m]]
    /\ UNCHANGED list

\* Another instance takes its place.
Replace(n) ==
    /\ n \in DOMAIN running /\ n \in DOMAIN running'
    /\ Enforced
    /\ LET new == running'[n]
       IN  /\ new \in Startable[n] /\ Allowed(new)
           /\ running' = [running EXCEPT ![n] = new]
    /\ UNCHANGED list

Stop(n) ==
    /\ n \in DOMAIN running
    /\ running' = [m \in DOMAIN running \ {n} |-> running[m]]
    /\ UNCHANGED list

\* A plugin loses a capability while it runs.
Narrow(n, c) ==
    /\ n \in DOMAIN running
    /\ Enforced
    /\ c \in running[n].granted
    /\ running' = [running EXCEPT ![n].granted = @ \ {c}]
    /\ UNCHANGED list

\* Another list is in force; those it names still run.
Govern == /\ Enforced
          /\ list' \in AllLists
          /\ UNCHANGED running

Next == \/ \E n \in Names : Start(n) \/ Replace(n)
        \/ \E n \in DOMAIN running : Stop(n) \/ \E c \in running[n].granted : Narrow(n, c)
        \/ Govern

Spec == Init /\ [][Next]_<<running, list>>
=============================================================================
