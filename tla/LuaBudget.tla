----------------------------- MODULE LuaBudget -----------------------------
(***************************************************************************)
(* The instruction allowance of one Lua state (stanchion-lua, backend.rs   *)
(* and sandbox.rs): who resets the counter, and who is charged, when       *)
(* synchronous and asynchronous calls of the state overlap.                *)
(*                                                                         *)
(* A synchronous call holds the state's mutex from before it is counted    *)
(* until after it is discounted.  An asynchronous call holds the gate, is  *)
(* counted before it takes the mutex for the first time, and runs its      *)
(* coroutine without the mutex: between its resumptions the interpreter is *)
(* free for others.  States share nothing here, so one is enough.          *)
(***************************************************************************)
EXTENDS Integers, FiniteSets, Functions

CONSTANTS SyncCall,       \* the synchronous calls, each made once
          AsyncCall,      \* the asynchronous calls, each made once
          NoCall,         \* model value: nobody
          Limit,          \* Budget::limit, in the unit of Step
          Interval,       \* the hook's interval before it is clamped
          Work            \* bound: steps of plugin code a call is given to run

CallId == SyncCall \union AsyncCall

ASSUME CallAssumption == SyncCall \intersect AsyncCall = {} /\ NoCall \notin CallId
ASSUME LimitAssumption == Limit \in Nat /\ Interval \in Nat \ {0} /\ Work \in Nat

\* install_limit: how many instructions are charged at a time.
Step == IF Limit < 1 THEN 1 ELSE IF Limit > Interval THEN Interval ELSE Limit

\* What code that has the counter for itself is charged when the first error comes.
Allowance == (Limit \div Step + 1) * Step

VARIABLES pc,           \* where each call is
          mutex,        \* who holds SharedState::lua
          gate,         \* who holds SharedState::gate
          vm,           \* whose code the interpreter runs
          inFlight,     \* SharedState::in_flight
          used,         \* Budget::used
          threads,      \* "one" or "many": whether calls run on different threads
          spent,        \* history: what each call was charged
          granted,      \* history: what of it was charged without raising the error
          overlapped    \* history: calls that were in flight together with another

budgetVars == <<pc, mutex, gate, vm, inFlight, used, threads, spent, granted, overlapped>>

(***************************************************************************)
(* "new"; "queued": waits for the gate; "counted": counted as the          *)
(* outermost, and about to reset; "entered"; "ready": its coroutine can be *)
(* resumed; "running"; "ended": its code is done, in what way `outcome`    *)
(* tells; "left": discounted; "done", "exceeded", "cancelled".             *)
(***************************************************************************)
Over == {"done", "exceeded", "cancelled"}
\* Where a call is while other calls may use its thread: before it begins, at an
\* await and after its end.
Away == {"new", "queued", "ready"} \union Over
Turn(c) == threads = "many" \/ \A d \in CallId \ {c} : pc[d] \in Away

Entered == {"counted", "entered", "ready", "running", "ended", "failing"}
InFlight == {c \in CallId : pc[c] \in Entered}

Goes(c, to) == pc' = [pc EXCEPT ![c] = to]

BudgetInit ==
  /\ pc = [c \in CallId |-> "new"]
  /\ mutex = NoCall /\ gate = NoCall /\ vm = NoCall
  /\ inFlight = 0
  /\ used = 0
  /\ threads \in {"one", "many"}
  /\ spent = [c \in CallId |-> 0] /\ granted = spent
  /\ overlapped = {}
-----------------------------------------------------------------------------

\* InFlight::enter, its first half: the call is counted, and the outermost goes on
\* to reset the allowance.
Count(c) == /\ inFlight' = inFlight + 1
            /\ Goes(c, IF inFlight = 0 THEN "counted" ELSE "entered")
            /\ overlapped' = IF InFlight = {} THEN overlapped
                             ELSE overlapped \union InFlight \union {c}

\* call_guarded takes the mutex and enters.
SyncEnter(c) ==
  /\ Turn(c)
  /\ pc[c] = "new"
  /\ mutex = NoCall
  /\ mutex' = c
  /\ Count(c)
  /\ UNCHANGED <<gate, vm, used, threads, spent, granted>>

\* call_async_inner waits for the gate and enters.
AsyncBegin(c) ==
  /\ Turn(c)
  /\ pc[c] = "new"
  /\ Goes(c, "queued")
  /\ UNCHANGED <<mutex, gate, vm, inFlight, used, threads, spent, granted, overlapped>>

AsyncEnter(c) ==
  /\ Turn(c)
  /\ pc[c] = "queued"
  /\ gate = NoCall
  /\ gate' = c
  /\ Count(c)
  /\ UNCHANGED <<mutex, vm, used, threads, spent, granted>>

\* Fault: the allowance is that of the state's lifetime.
ResetNever(c) ==
  /\ pc[c] = "counted"
  /\ Goes(c, "entered")
  /\ UNCHANGED <<mutex, gate, vm, inFlight, used, threads, spent, granted, overlapped>>

\* InFlight::enter, its second half: two atomics, not one.
Reset(c) ==
  /\ pc[c] = "counted"
  /\ used' = 0
  /\ Goes(c, "entered")
  /\ UNCHANGED <<mutex, gate, vm, inFlight, threads, spent, granted, overlapped>>

\* The asynchronous call converts its arguments under the mutex, in one go.
Convert(c) ==
  /\ pc[c] = "entered"
  /\ mutex = NoCall
  /\ Goes(c, "ready")
  /\ UNCHANGED <<mutex, gate, vm, inFlight, used, threads, spent, granted, overlapped>>

\* The interpreter runs the call's code: to its end, or, for a coroutine, to the
\* next yield.  Only one thread is inside it at a time.
Resume(c) ==
  /\ Turn(c)
  /\ pc[c] = IF c \in AsyncCall THEN "ready" ELSE "entered"
  /\ vm = NoCall
  /\ vm' = c
  /\ Goes(c, "running")
  /\ UNCHANGED <<mutex, gate, inFlight, used, threads, spent, granted, overlapped>>

\* A turn of the hook.  The error is one plugin code may catch (pcall), and go on:
\* nothing is set back, and the next turn raises it again.
Charged(c) ==
  /\ spent' = [spent EXCEPT ![c] = @ + Step]
  /\ granted' = [granted EXCEPT ![c] = IF used' > Limit THEN @ ELSE @ + Step]
  /\ \/ UNCHANGED <<vm, pc>>
     \/ used' > Limit /\ vm' = NoCall /\ Goes(c, "failing")
  /\ UNCHANGED <<mutex, gate, inFlight, threads, overlapped>>

\* Fault: the hook is set on the main thread of the state only, not on coroutines.
ConsumeOnMain(c) ==
  /\ pc[c] = "running"
  /\ spent[c] < Work
  /\ used' = IF c \in AsyncCall THEN used ELSE used + Step
  /\ Charged(c)

\* Budget::consume, called by the hook after so many instructions: past the limit
\* it raises an error.
Consume(c) ==
  /\ pc[c] = "running"
  /\ spent[c] < Work
  /\ used' = used + Step
  /\ Charged(c)

Yield(c) ==
  /\ pc[c] = "running"
  /\ vm' = NoCall
  /\ Goes(c, "ready")
  /\ UNCHANGED <<mutex, gate, inFlight, used, threads, spent, granted, overlapped>>

\* The code returns, raises an error of its own or panics: either way the call ends.
CodeEnds(c) ==
  /\ pc[c] = "running"
  /\ vm' = NoCall
  /\ Goes(c, "ended")
  /\ UNCHANGED <<mutex, gate, inFlight, used, threads, spent, granted, overlapped>>

\* The end of call_guarded: its guards are dropped in the reverse order, the call is
\* discounted while it still holds the mutex.
SyncLeave(c) ==
  /\ pc[c] \in {"ended", "failing"}
  /\ inFlight' = inFlight - 1
  /\ mutex' = NoCall
  /\ Goes(c, IF pc[c] = "ended" THEN "done" ELSE "exceeded")
  /\ UNCHANGED <<gate, vm, used, threads, spent, granted, overlapped>>

\* Fault: a call that failed leaves the gate shut.
AsyncLeaveShut(c) ==
  /\ pc[c] = "failing" \/ (pc[c] = "ended" /\ mutex = NoCall)
  /\ inFlight' = inFlight - 1
  /\ gate' = IF pc[c] = "failing" THEN gate ELSE NoCall
  /\ Goes(c, IF pc[c] = "ended" THEN "done" ELSE "exceeded")
  /\ UNCHANGED <<mutex, vm, used, threads, spent, granted, overlapped>>

\* The end of call_async_inner: after a success the mutex is needed once more, for
\* the result; then the call is discounted, and then the gate opened.
AsyncLeave(c) ==
  /\ pc[c] = "failing" \/ (pc[c] = "ended" /\ mutex = NoCall)
  /\ inFlight' = inFlight - 1
  /\ gate' = NoCall
  /\ Goes(c, IF pc[c] = "ended" THEN "done" ELSE "exceeded")
  /\ UNCHANGED <<mutex, vm, used, threads, spent, granted, overlapped>>

\* The caller drops the future, while it waits for the gate or between resumptions.
Cancel(c) ==
  /\ Turn(c)
  /\ \/ /\ pc[c] = "queued"
        /\ UNCHANGED <<gate, inFlight>>
     \/ /\ pc[c] = "ready"
        /\ gate' = NoCall
        /\ inFlight' = inFlight - 1
  /\ Goes(c, "cancelled")
  /\ UNCHANGED <<mutex, vm, used, threads, spent, granted, overlapped>>

\* load_one clears the allowance and runs a plugin's chunk and constructor under the
\* mutex.  The registry loads and reloads through `&mut self`, when no call is under
\* way and no future of one exists.
LoadPlugin ==
  /\ \A c \in CallId : pc[c] \in {"new"} \union Over
  /\ \E charged \in {0, Allowance} : used' = charged  \* more, if the chunk catches the error
  /\ UNCHANGED <<pc, mutex, gate, vm, inFlight, threads, spent, granted, overlapped>>
-----------------------------------------------------------------------------
SyncStep(c) == SyncEnter(c) \/ Reset(c) \/ Resume(c) \/ Consume(c) \/ CodeEnds(c) \/ SyncLeave(c)

AsyncStep(c) == \/ AsyncBegin(c) \/ AsyncEnter(c) \/ Reset(c) \/ Convert(c) \/ Resume(c)
                \/ Consume(c) \/ Yield(c) \/ CodeEnds(c) \/ AsyncLeave(c) \/ Cancel(c)

BudgetNext ==
  \/ \E c \in SyncCall : SyncStep(c)
  \/ \E c \in AsyncCall : AsyncStep(c)
  \/ LoadPlugin

BudgetSpec == BudgetInit /\ [][BudgetNext]_budgetVars

(***************************************************************************)
(* A thread goes on with a call it is in, the executor polls a future that *)
(* was begun until it is over, and code that runs, or is resumed again and *)
(* again, ends or reaches the hook.  Nothing makes a call begin, yield or  *)
(* be cancelled, or code that has caught the error end.                    *)
(***************************************************************************)
\* The code of this call has met the error, and gone on.
Caught(c) == spent[c] > granted[c] /\ pc[c] \in {"running", "ready"}

Continues(c) == \/ Reset(c)
                \/ (c \in SyncCall /\ (Resume(c) \/ SyncLeave(c)))
                \/ (c \in AsyncCall /\ (AsyncEnter(c) \/ Convert(c) \/ Resume(c) \/ AsyncLeave(c)))

FairSpec ==
  BudgetSpec /\ \A c \in CallId : /\ WF_budgetVars(Continues(c))
                                 /\ SF_budgetVars(~Caught(c) /\ (Consume(c) \/ CodeEnds(c)))
-----------------------------------------------------------------------------
BudgetTypeOK ==
  /\ pc \in [CallId -> {"new", "queued"} \union Entered \union Over]
  /\ mutex \in SyncCall \union {NoCall}
  /\ gate \in AsyncCall \union {NoCall}
  /\ vm \in CallId \union {NoCall}
  /\ inFlight \in Nat /\ used \in Nat
  /\ threads \in {"one", "many"}
  /\ spent \in [CallId -> Nat] /\ granted \in [CallId -> Nat]
  /\ overlapped \subseteq CallId

\* With several threads too, no call runs for more than two allowances (less the two turns
\* that raise) undisturbed: the late reset happens once in a period of overlapping calls,
\* and past the limit every turn of the hook raises, also for code that catches the error.
TwoAllowances == \A c \in CallId : granted[c] <= 2 * (Allowance - Step)

\* A call nobody overlapped is stopped only for what it used itself, whatever calls,
\* failures, cancelled futures and loads came before it.
OwnAllowance == \A c \in CallId : pc[c] \in {"failing", "exceeded"} /\ c \notin overlapped
                                    => spent[c] > Limit

\* Every call that began ends, code that would never return included: its limit ends it,
\* though a coroutine lets others in between its resumptions; unless code catches the error
\* of the limit and goes on for ever.
CallsEnd == (\A d \in CallId : []<>~Caught(d)) =>
              \A c \in CallId : (pc[c] \in {"queued"} \union Entered) ~> (pc[c] \in Over)

\* "A runaway loop surfaces as a failed call rather than a hung process" (sandbox.rs): no
\* call is charged past the error that tells it so.
StoppedAtTheLimit == \A c \in CallId : spent[c] <= granted[c] + Step

\* What the comment at backend.rs:79 says of every case: a call that joins does not renew
\* the allowance of those it joins.  With several threads the outermost call may still be
\* about to reset when the joiner already runs.
NeverRestarted == FoldFunctionOnSet(+, 0, spent, InFlight) <= used
=============================================================================
