------------------------------ MODULE Bindings ------------------------------
(***************************************************************************)
(* The language bindings over the call guard.  A binding adds what its      *)
(* language locks:                                                         *)
(*   "python"  gives the GIL back while the host runs (py.detach) and takes  *)
(*             it again around a provider (Python::attach);                 *)
(*   "ruby"    keeps the GVL for the whole call;                            *)
(*   "godot"   borrows the object of the registry for the whole call;       *)
(*   "uniffi"  locks nothing;                                               *)
(*   "c"       locks nothing, and has no foreign providers.                 *)
(* Calls, locks and futures are those of CallGuard, which this module       *)
(* implements.                                                             *)
(*                                                                         *)
(* The interpreters are external: a thread of Python or Ruby runs foreign   *)
(* code only while it holds the lock, and may lose it there (a switch       *)
(* interval, sleep, I/O).                                                  *)
(***************************************************************************)
EXTENDS CallGuard

CONSTANTS
    Disciplines, \* the bindings considered
    Switching,   \* those whose providers may lose the lock half way
    Nobody       \* what holds the interpreter's lock when no thread does

ASSUME DisciplineAssumption == Disciplines \subseteq {"python", "ruby", "godot", "uniffi", "c"}
ASSUME NobodyAssumption == Nobody \notin Thread

VARIABLES
    discipline, \* the binding of this process
    interp,     \* the thread that holds the GIL or the GVL, or Nobody
    side        \* what each thread runs: "foreign" code, or the host and its
                \* plugins, before ("native") or after ("answered") a provider

bvars == <<vars, discipline, interp, side>>

Interpreted == discipline \in {"python", "ruby"}

Runs(t) == side[t] = "foreign" /\ (Interpreted => interp = t)

Crosses(t, to) == side' = [side EXCEPT ![t] = to]

-----------------------------------------------------------------------------
(* The interpreter's scheduler. *)

Resume(t) ==
    /\ Interpreted /\ side[t] = "foreign" /\ interp = Nobody
    /\ interp' = t
    /\ UNCHANGED <<vars, discipline, side>>

Yield(t) ==
    /\ side[t] = "foreign" /\ interp = t
    /\ stack[t] = <<>> \/ discipline \in Switching
    /\ interp' = Nobody
    /\ UNCHANGED <<vars, discipline, side>>

-----------------------------------------------------------------------------
(* Foreign code calls a plugin. *)

EnterUniffi(t, i) ==
    /\ discipline = "uniffi" /\ Runs(t)
    /\ Enter(t, i)
    /\ Crosses(t, "native")
    /\ UNCHANGED <<discipline, interp>>

\* The exported functions, once the handle and the arguments are found sound.
EnterC(t, i) ==
    /\ discipline = "c" /\ Runs(t)
    /\ Enter(t, i)
    /\ Crosses(t, "native")
    /\ UNCHANGED <<discipline, interp>>

\* with_host takes the object by &mut self, which the engine lends once.
Lent(i) == \E u \in Thread : \E k \in DOMAIN stack[u] : stack[u][k].id = i

EnterBorrowed(t, i) ==
    /\ discipline = "godot" /\ Runs(t) /\ ~Lent(i)
    /\ Enter(t, i)
    /\ Crosses(t, "native")
    /\ UNCHANGED <<discipline, interp>>

\* Fault: the call is made without py.detach.
EnterAttached(t, i) ==
    /\ discipline = "python" /\ Runs(t)
    /\ Enter(t, i)
    /\ Crosses(t, "native")
    /\ UNCHANGED <<discipline, interp>>

\* py.detach around every operation of the host.
EnterDetached(t, i) ==
    /\ discipline = "python" /\ Runs(t)
    /\ Enter(t, i)
    /\ Crosses(t, "native")
    /\ interp' = Nobody
    /\ UNCHANGED discipline

EnterHolding(t, i) ==
    /\ discipline = "ruby" /\ Runs(t)
    /\ Enter(t, i)
    /\ Crosses(t, "native")
    /\ UNCHANGED <<discipline, interp>>

\* Fault: an error unwinds past the host, whose registry stays locked.
LeaveUnwinding(t, k) ==
    /\ side[t] # "foreign" /\ Depth(t) = k /\ Inside(t)
    /\ Top(t).caller = Sync(t, k)
    /\ Pop(t)
    /\ Crosses(t, "foreign")
    /\ UNCHANGED <<queue, status, discipline, interp>>

\* The host returns.  Python then waits for the GIL, as any foreign code does.
LeaveNative(t, k) ==
    /\ side[t] # "foreign" /\ Leave(t, k)
    /\ Crosses(t, "foreign")
    /\ UNCHANGED <<discipline, interp>>

-----------------------------------------------------------------------------
(* A plugin calls a capability, or the registry asks the policy: at most once in
   a call (a bound). *)

\* ProviderBridge, PolicyBridge and MainThreadCallable.
InvokeBare(t) ==
    /\ discipline \in {"uniffi", "godot"} /\ side[t] = "native" /\ Inside(t)
    /\ Crosses(t, "foreign")
    /\ UNCHANGED <<vars, discipline, interp>>

\* Python::attach waits for the GIL on the thread of the call.
InvokeAttaching(t) ==
    /\ discipline = "python" /\ side[t] = "native" /\ Inside(t)
    /\ interp = Nobody
    /\ interp' = t
    /\ Crosses(t, "foreign")
    /\ UNCHANGED <<vars, discipline>>

InvokeHolding(t) ==
    /\ discipline = "ruby" /\ side[t] = "native" /\ Inside(t)
    /\ Crosses(t, "foreign")
    /\ UNCHANGED <<vars, discipline, interp>>

\* Fault: the provider returns to the plugin with the GIL.
AnswerAttached(t, k) ==
    /\ k > 0 /\ Depth(t) = k /\ Runs(t)
    /\ Crosses(t, "answered")
    /\ UNCHANGED <<vars, discipline, interp>>

\* Fault: a provider that failed is asked again.
AnswerRetried(t, k) ==
    /\ k > 0 /\ Depth(t) = k /\ Runs(t)
    /\ Crosses(t, "native")
    /\ interp' = IF discipline = "python" THEN Nobody ELSE interp
    /\ UNCHANGED <<vars, discipline>>

\* The provider of t's k-th call returns, or raises, which its plugin sees as an
\* error.
Answer(t, k) ==
    /\ k > 0 /\ Depth(t) = k /\ Runs(t)
    /\ Crosses(t, "answered")
    /\ interp' = IF discipline = "python" THEN Nobody ELSE interp
    /\ UNCHANGED <<vars, discipline>>

-----------------------------------------------------------------------------
(* Futures.  Python's are polled by threads of its runtime that hold no GIL,
   UniFFI's by the foreign executor, even from a provider.  Ruby's call_async
   drives the coroutine to its end in one blocking call; the others have none. *)

PollFrom(t, f) ==
    /\ \/ discipline = "uniffi" /\ Runs(t)
       \/ discipline = "python" /\ stack[t] = <<>> /\ interp # t
    /\ Poll(t, f)
    /\ Crosses(t, IF stack'[t] = stack[t] THEN side[t] ELSE "native")
    /\ UNCHANGED <<discipline, interp>>

PendingTo(t) ==
    /\ side[t] # "foreign" /\ PollPending(t)
    /\ Crosses(t, "foreign")
    /\ UNCHANGED <<discipline, interp>>

ReadyTo(t, f) ==
    /\ side[t] # "foreign" /\ PollReady(t, f)
    /\ Crosses(t, "foreign")
    /\ UNCHANGED <<discipline, interp>>

CancelFrom(f) == Cancel(f) /\ UNCHANGED <<discipline, interp, side>>

BInit == /\ Init
         /\ discipline \in Disciplines
         /\ interp = Nobody
         /\ side = [t \in Thread |-> "foreign"]

BNext ==
    \/ \E t \in Thread :
         \/ Resume(t) \/ Yield(t)
         \/ InvokeBare(t) \/ InvokeAttaching(t) \/ InvokeHolding(t)
         \/ PendingTo(t)
         \/ \E i \in Instance : \/ EnterDetached(t, i) \/ EnterHolding(t, i)
                                \/ EnterUniffi(t, i) \/ EnterC(t, i) \/ EnterBorrowed(t, i)
         \/ \E k \in 1 .. MaxDepth : LeaveNative(t, k) \/ Answer(t, k)
         \/ \E f \in Task : PollFrom(t, f) \/ ReadyTo(t, f)
    \/ \E f \in Task : CancelFrom(f)

BSpec == BInit /\ [][BNext]_bvars

\* A plugin call ends and a poll returns; a provider ends, though the interpreter
\* may stop it many times before; a thread that asks for the interpreter's lock is
\* not passed over for ever; an executor polls a begun future until it is ready.
BFairSpec ==
    /\ BSpec
    /\ \A t \in Thread, k \in 1 .. MaxDepth : /\ WF_bvars(LeaveNative(t, k))
                                             /\ SF_bvars(Answer(t, k))
    /\ \A t \in Thread : /\ WF_bvars(Yield(t))
                         /\ SF_bvars(Resume(t))
                         /\ WF_bvars(PendingTo(t))
    /\ \A f \in Task :
         /\ SF_bvars(\E t \in Pollers : status[f] = "begun" /\ PollFrom(t, f))
         /\ SF_bvars(\E t \in Thread : ReadyTo(t, f))

-----------------------------------------------------------------------------

BTypeOK ==
    /\ TypeOK
    /\ discipline \in Disciplines
    /\ interp \in Thread \cup {Nobody}
    /\ side \in [Thread -> {"foreign", "native", "answered"}]

(* "Everything that decides behaviour lives in stanchion-ffi" (python/src/lib.rs
   and ruby/src/lib.rs): whatever the interpreter does with its lock, what the
   host sees is a behaviour of the guarded calls. *)
ImplementsCallGuard == Spec

(* "The GIL goes back while Lua runs, so other Python threads keep going"
   (python/src/lib.rs): no thread is inside the host with the GIL, neither in a
   plugin nor waiting for a registry. *)
HostRunsWithoutGil ==
    \A t \in Thread : discipline = "python" /\ side[t] # "foreign" => interp # t

\* t waits for a registry u is inside, or for the lock of the interpreter.
BlockedBy(t, u) ==
    \/ WaitsFor(t, u)
    \/ Interpreted /\ side[t] = "foreign" /\ u # t /\ interp = u

(* "Same thread, so this cannot deadlock against that release"
   (python/src/lib.rs, PyProvider), and "calls from several threads serialize
   rather than race" (docs/bindings.md): the registries' locks and the
   interpreter's are never waited for in a circle, nor does a thread wait for a
   call of its own. *)
NoCircleThroughInterpreter ==
    \A W \in SUBSET Thread : W # {} => \E t \in W : \A u \in W : ~BlockedBy(t, u)
=============================================================================
