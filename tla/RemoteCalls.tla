---------------------------- MODULE RemoteCalls ----------------------------
(***************************************************************************)
(* What a caller of RemoteRegistry may rely on, whatever becomes of the    *)
(* host process: a call is made once, its request runs at most once, it is *)
(* answered only with what its own run produced, and a call that failed    *)
(* may or may not have run.                                                *)
(***************************************************************************)
EXTENDS Naturals

CONSTANT Call            \* the numbers of the calls

VARIABLES state,         \* "new", "open", "answered" or "failed", per call
          ran            \* the calls whose request has run in the host

Init == /\ state = [c \in Call |-> "new"]
        /\ ran = {}

\* The application makes call c.
Make(c) == /\ state[c] = "new"
           /\ state' = [state EXCEPT ![c] = "open"]
           /\ UNCHANGED ran

\* The host runs the request of c, perhaps after the caller gave up on it.
Run(c) == /\ state[c] \in {"open", "failed"}
          /\ c \notin ran
          /\ ran' = ran \union {c}
          /\ UNCHANGED state

\* The caller gets the answer of c.
Answer(c) == /\ state[c] = "open"
             /\ c \in ran
             /\ state' = [state EXCEPT ![c] = "answered"]
             /\ UNCHANGED ran

\* The caller gets an error of the transport for c.
Fail(c) == /\ state[c] \in {"new", "open"}
           /\ state' = [state EXCEPT ![c] = "failed"]
           /\ UNCHANGED ran

Next == \E c \in Call : Make(c) \/ Run(c) \/ Answer(c) \/ Fail(c)

Spec == Init /\ [][Next]_<<state, ran>>
=============================================================================
