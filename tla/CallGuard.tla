----------------------------- MODULE CallGuard -----------------------------
(***************************************************************************)
(* Calls into Stanchion instances (crates/stanchion-ffi/src/host.rs) and    *)
(* the guard that refuses re-entry (crates/stanchion-ffi/src/guard.rs).     *)
(* Each instance has one lock around its registry.  A provider runs inside  *)
(* a call, on its thread, and may call instances itself.                    *)
(*                                                                         *)
(* tokio::sync::Mutex is external: it serves its waiters first in, first    *)
(* out, and hands the lock over to the next one.  So the lock is a queue    *)
(* whose head owns it.                                                      *)
(***************************************************************************)
EXTENDS Naturals, Sequences

CONSTANTS
    Thread, Instance,
    Task,     \* futures of call_async and dispatch_async
    Target,   \* the instance each of them calls
    Nest,     \* <<i, j>>: a provider of i may call j
    Callers,  \* threads the host makes synchronous calls from
    Pollers,  \* threads that run the host's executors
    MaxDepth  \* bound on how deep calls nest

ASSUME InstanceAssumption == Instance \subseteq Nat \ {0}
ASSUME TaskAssumption == Target \in [Task -> Instance]
ASSUME NestAssumption == Nest \subseteq Instance \X Instance
ASSUME ThreadAssumption == Callers \subseteq Thread /\ Pollers \subseteq Thread
ASSUME DepthAssumption == MaxDepth \in Nat

VARIABLES
    active, \* ACTIVE: the instance each thread is inside, or NONE
    stack,  \* the calls each thread is inside, outermost first
    queue,  \* who owns and who awaits each instance's lock
    status  \* of each future

vars == <<active, stack, queue, status>>

NONE == 0

Depth(t) == Len(stack[t])
Top(t) == stack[t][Depth(t)]

\* One entry of a lock's queue: a future, or the k-th call of a thread.
Sync(t, k) == <<"call", t, k>>
Async(f) == <<"future", f>>

Frame(t, i, caller) == [id |-> i, previous |-> active[t], caller |-> caller]

Owns(c, i) == queue[i] # <<>> /\ Head(queue[i]) = c

Inside(t) == stack[t] # <<>> /\ Owns(Top(t).caller, Top(t).id)

\* The host's code outside any call, or a provider inside one.
MayCall(t, i, from) ==
    \/ stack[t] = <<>> /\ t \in from
    \/ Inside(t) /\ <<Top(t).id, i>> \in Nest

Polled(f) == \E t \in Thread : \E k \in DOMAIN stack[t] : stack[t][k].caller = Async(f)

Push(t, i, caller) ==
    /\ Depth(t) < MaxDepth
    /\ stack' = [stack EXCEPT ![t] = Append(@, Frame(t, i, caller))]
    /\ active' = [active EXCEPT ![t] = i]

\* CallGuard's Drop, and the end of Guarded::poll.
Pop(t) ==
    /\ stack' = [stack EXCEPT ![t] = SubSeq(@, 1, Len(@) - 1)]
    /\ active' = [active EXCEPT ![t] = Top(t).previous]

\* A waiter that is dropped takes its own entry out of the queue.
Without(c, q) ==
    IF \A k \in DOMAIN q : q[k] # c THEN q
    ELSE LET at == CHOOSE k \in DOMAIN q : q[k] = c
         IN  SubSeq(q, 1, at - 1) \o SubSeq(q, at + 1, Len(q))

-----------------------------------------------------------------------------

\* Fault: the guard is checked outside calls only.
EnterUnguarded(t, i) ==
    /\ MayCall(t, i, Callers)
    /\ stack[t] = <<>> => active[t] # i
    /\ Push(t, i, Sync(t, Depth(t) + 1))
    /\ queue' = [queue EXCEPT ![i] = Append(@, Sync(t, Depth(t) + 1))]
    /\ UNCHANGED status

\* enter, call, dispatch: the guard, then the lock.  Re-entry is an error, which
\* changes nothing.
Enter(t, i) ==
    /\ MayCall(t, i, Callers)
    /\ active[t] # i
    /\ Push(t, i, Sync(t, Depth(t) + 1))
    /\ queue' = [queue EXCEPT ![i] = Append(@, Sync(t, Depth(t) + 1))]
    /\ UNCHANGED status

\* The k-th call of t returns.
Leave(t, k) ==
    /\ Depth(t) = k /\ Inside(t)
    /\ Top(t).caller = Sync(t, k)
    /\ Pop(t)
    /\ queue' = [queue EXCEPT ![Top(t).id] = Tail(@)]
    /\ UNCHANGED status

\* Guarded::poll.  The first poll joins the lock's queue; one from inside the
\* same instance ends the future with an error.
Poll(t, f) ==
    LET i == Target[f]
    IN  /\ status[f] # "done" /\ ~Polled(f)
        /\ MayCall(t, i, Pollers)
        /\ \/ /\ active[t] = i
              /\ status' = [status EXCEPT ![f] = "done"]
              /\ queue' = [queue EXCEPT ![i] = Without(Async(f), @)]
              /\ UNCHANGED <<active, stack>>
           \/ /\ active[t] # i
              /\ Push(t, i, Async(f))
              /\ status' = [status EXCEPT ![f] = "begun"]
              /\ queue' = IF status[f] = "new"
                          THEN [queue EXCEPT ![i] = Append(@, Async(f))]
                          ELSE queue

\* Waiting for the lock, or the plugin yields: it keeps the lock meanwhile.
PollPending(t) ==
    /\ stack[t] # <<>> /\ Top(t).caller \in {Async(f) : f \in Task}
    /\ Pop(t)
    /\ UNCHANGED <<queue, status>>

PollReady(t, f) ==
    /\ Inside(t) /\ Top(t).caller = Async(f)
    /\ Pop(t)
    /\ status' = [status EXCEPT ![f] = "done"]
    /\ queue' = [queue EXCEPT ![Top(t).id] = Tail(@)]

\* The host drops a future it polled before.
Cancel(f) ==
    /\ status[f] = "begun" /\ ~Polled(f)
    /\ status' = [status EXCEPT ![f] = "done"]
    /\ queue' = [queue EXCEPT ![Target[f]] = Without(Async(f), @)]
    /\ UNCHANGED <<active, stack>>

Init == /\ active = [t \in Thread |-> NONE]
        /\ stack = [t \in Thread |-> <<>>]
        /\ queue = [i \in Instance |-> <<>>]
        /\ status = [f \in Task |-> "new"]

Next == \/ \E t \in Thread : \/ \E i \in Instance : Enter(t, i)
                             \/ \E k \in 1 .. MaxDepth : Leave(t, k)
                             \/ \E f \in Task : Poll(t, f) \/ PollReady(t, f)
                             \/ PollPending(t)
        \/ \E f \in Task : Cancel(f)

Spec == Init /\ [][Next]_vars

-----------------------------------------------------------------------------

Caller == {Sync(t, k) : t \in Thread, k \in 1 .. MaxDepth} \cup {Async(f) : f \in Task}

FrameSet == [id : Instance, previous : Instance \cup {NONE}, caller : Caller]

TypeOK ==
    /\ active \in [Thread -> Instance \cup {NONE}]
    /\ stack \in [Thread -> Seq(FrameSet)]
    /\ queue \in [Instance -> Seq(Caller)]
    /\ status \in [Task -> {"new", "begun", "done"}]

(* "The previous id is restored on the way out" (guard.rs): a thread's flag is
   the innermost call it is inside, however calls and polls nest. *)
ActiveIsInnermost ==
    \A t \in Thread : active[t] = IF stack[t] = <<>> THEN NONE ELSE Top(t).id

(* A provider that calls the instance it serves is refused before it waits for
   the lock its own call holds. *)
NoDirectReentry ==
    \A t \in Thread : \A k \in 1 .. Depth(t) - 1 : stack[t][k].id # stack[t][k + 1].id

(* "Calling back into that same registry would deadlock.  It does not"
   (docs/bindings.md): no thread waits for a lock that one of its own calls,
   further out, holds. *)
NoSelfWait ==
    \A t \in Thread : \A k \in DOMAIN stack[t] :
      stack[t][k].id = Top(t).id => k = Depth(t)

Waiting(t) == stack[t] # <<>> /\ ~Inside(t) /\ Top(t).caller[1] = "call"

\* t waits for a call that u is inside.
WaitsFor(t, u) ==
    Waiting(t) /\ \E k \in DOMAIN stack[u] : Owns(stack[u][k].caller, Top(t).id)

(* "That is exactly the window where re-entry has to be caught" (guard.rs,
   Guarded): no thread blocks on a lock a suspended future holds when it is the
   only one that can poll that future. *)
NoWaitOnOwnFuture ==
    \A t \in Thread : Waiting(t) /\ Pollers = {t} =>
      ~\E f \in Task : Owns(Async(f), Top(t).id)

(* "Calls from several threads serialize rather than race" (docs/bindings.md):
   every thread that waits gets its turn. *)
EveryCallServed == \A t \in Thread : Waiting(t) ~> ~Waiting(t)
=============================================================================
