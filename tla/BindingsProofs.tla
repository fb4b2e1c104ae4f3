--------------------------- MODULE BindingsProofs ---------------------------
(***************************************************************************)
(* What the re-entrancy guard promises, for any number of threads,         *)
(* instances and futures and any nesting of calls; that every binding      *)
(* implements the guarded calls, so that it holds for each language; that  *)
(* Python's host never runs with the GIL; and what it takes for threads to *)
(* wait for one another in a circle.                                       *)
(***************************************************************************)
EXTENDS Bindings, SequenceTheorems, FiniteSetTheorems, WellFoundedInduction, TLAPS

StackTypeOK ==
    /\ active \in [Thread -> Instance \cup {NONE}]
    /\ stack \in [Thread -> Seq(FrameSet)]

\* The calls of a thread, outermost first: each remembers the one around it.
LinkedFrames(s) ==
    /\ s # <<>> => s[1].previous = NONE
    /\ \A k \in 1 .. Len(s) - 1 :
         s[k + 1].previous = s[k].id /\ s[k + 1].id # s[k].id

GuardInv ==
    /\ StackTypeOK
    /\ ActiveIsInnermost
    /\ \A t \in Thread : LinkedFrames(stack[t])

\* A call of another instance than the innermost one keeps the invariant.
LEMMA PushKeeps ==
    ASSUME GuardInv, NEW t \in Thread, NEW i \in Instance, NEW c \in Caller,
           active[t] # i, Push(t, i, c)
    PROVE  GuardInv'
<1> DEFINE f == Frame(t, i, c)
           s == stack[t]
           r == Append(s, f)
<1>1. s \in Seq(FrameSet) /\ active[t] \in Instance \cup {NONE}
  BY DEF GuardInv, StackTypeOK
<1>2. f \in FrameSet /\ f.id = i /\ f.previous = active[t]
  BY <1>1 DEF Frame, FrameSet
<1>3. stack' = [stack EXCEPT ![t] = r] /\ active' = [active EXCEPT ![t] = i]
  BY DEF Push
<1>4. /\ r \in Seq(FrameSet) /\ r # <<>> /\ Len(r) = Len(s) + 1
      /\ \A k \in 1 .. Len(s) : r[k] = s[k]
      /\ r[Len(s) + 1] = f
  BY <1>1, <1>2, AppendProperties
<1>5. StackTypeOK'
  BY <1>3, <1>4 DEF GuardInv, StackTypeOK
<1>6. ActiveIsInnermost'
  BY <1>1, <1>2, <1>3, <1>4 DEF GuardInv, StackTypeOK, ActiveIsInnermost, Top, Depth
<1>7. LinkedFrames(r)
  <2>1. active[t] = IF s = <<>> THEN NONE ELSE s[Len(s)].id
    BY DEF GuardInv, ActiveIsInnermost, Top, Depth
  <2>2. Len(s) \in Nat /\ (s = <<>> <=> Len(s) = 0)
    BY <1>1
  <2>3. r[1].previous = NONE
    <3>1. CASE s = <<>>
      BY <3>1, <2>1, <2>2, <1>2, <1>4
    <3>2. CASE s # <<>>
      BY <3>2, <2>2, <1>4 DEF GuardInv, LinkedFrames
    <3> QED BY <3>1, <3>2
  <2>4. ASSUME NEW k \in 1 .. Len(r) - 1
        PROVE  r[k + 1].previous = r[k].id /\ r[k + 1].id # r[k].id
    <3>1. CASE k = Len(s)
      <4>1. r[k + 1] = f /\ r[k] = s[Len(s)] /\ s # <<>>
        BY <3>1, <2>2, <1>4
      <4> QED BY <4>1, <2>1, <1>2
    <3>2. CASE k # Len(s)
      <4>1. k \in 1 .. Len(s) - 1 /\ r[k + 1] = s[k + 1] /\ r[k] = s[k]
        BY <3>2, <2>2, <1>4
      <4> QED BY <4>1 DEF GuardInv, LinkedFrames
    <3> QED BY <3>1, <3>2
  <2> QED BY <2>3, <2>4 DEF LinkedFrames
<1>8. \A u \in Thread : LinkedFrames(stack'[u])
  BY <1>3, <1>7 DEF GuardInv, StackTypeOK
<1> QED BY <1>5, <1>6, <1>8 DEF GuardInv, LinkedFrames

\* Leaving the innermost call puts the thread back inside the one around it.
LEMMA PopKeeps ==
    ASSUME GuardInv, NEW t \in Thread, stack[t] # <<>>, Pop(t)
    PROVE  GuardInv'
<1> DEFINE s == stack[t]
           n == Len(s) - 1
           r == SubSeq(s, 1, n)
<1>1. s \in Seq(FrameSet) /\ s # <<>> /\ LinkedFrames(s)
  BY DEF GuardInv, StackTypeOK
<1>2. n \in Nat /\ Len(s) = n + 1
  BY <1>1, EmptySeq
<1>3. r \in Seq(FrameSet) /\ Len(r) = n /\ \A k \in 1 .. n : r[k] = s[k]
  BY <1>1, <1>2
<1>4. stack' = [stack EXCEPT ![t] = r]
      /\ active' = [active EXCEPT ![t] = s[n + 1].previous]
  BY <1>2 DEF Pop, Top, Depth
<1> HIDE DEF n, r
<1>5. s[n + 1].previous = IF n = 0 THEN NONE ELSE s[n].id
  <2>1. CASE n = 0
    BY <2>1, <1>1 DEF LinkedFrames
  <2>2. CASE n # 0
    <3>1. n \in 1 .. Len(s) - 1
      BY <2>2, <1>1, <1>2
    <3> QED BY <3>1, <2>2, <1>1 DEF LinkedFrames
  <2> QED BY <2>1, <2>2
<1>6. s[n + 1].previous \in Instance \cup {NONE}
  <2>1. s[n + 1] \in FrameSet
    BY <1>1, <1>2, ElementOfSeq
  <2> QED BY <2>1 DEF FrameSet
<1>7. StackTypeOK'
  BY <1>3, <1>4, <1>6 DEF GuardInv, StackTypeOK
<1>8. r = <<>> <=> n = 0
  BY <1>3
<1>9. ActiveIsInnermost'
  BY <1>2, <1>3, <1>4, <1>5, <1>8 DEF GuardInv, StackTypeOK, ActiveIsInnermost, Top, Depth
<1>10. LinkedFrames(r)
  <2>1. r # <<>> => r[1] = s[1]
    BY <1>2, <1>3, <1>8
  <2>2. \A k \in 1 .. n - 1 : k \in 1 .. Len(s) - 1 /\ r[k] = s[k] /\ r[k + 1] = s[k + 1]
    BY <1>2, <1>3
  <2> QED BY <2>1, <2>2, <1>1, <1>3 DEF LinkedFrames
<1>11. \A u \in Thread : LinkedFrames(stack'[u])
  BY <1>4, <1>10 DEF GuardInv, StackTypeOK
<1> QED BY <1>7, <1>9, <1>11 DEF GuardInv, LinkedFrames

LEMMA CallersAreTyped ==
    /\ \A t \in Thread, k \in 1 .. MaxDepth : Sync(t, k) \in Caller
    /\ \A f \in Task : Async(f) \in Caller
BY DEF Caller

LEMMA GuardInvInductive == GuardInv /\ [Next]_vars => GuardInv'
<1> SUFFICES ASSUME GuardInv, [Next]_vars PROVE GuardInv'
  OBVIOUS
<1>1. ASSUME NEW t \in Thread, NEW i \in Instance, Enter(t, i) PROVE GuardInv'
  <2>1. stack[t] \in Seq(FrameSet) /\ Depth(t) < MaxDepth
    BY <1>1 DEF Enter, Push, GuardInv, StackTypeOK
  <2>2. Sync(t, Depth(t) + 1) \in Caller
    BY <2>1, DepthAssumption, CallersAreTyped DEF Depth
  <2> QED BY <1>1, <2>2, PushKeeps DEF Enter
<1>2. ASSUME NEW t \in Thread, NEW k \in 1 .. MaxDepth, Leave(t, k) PROVE GuardInv'
  BY <1>2, PopKeeps DEF Leave, Inside
<1>3. ASSUME NEW t \in Thread, NEW f \in Task, Poll(t, f) PROVE GuardInv'
  <2>1. Target[f] \in Instance /\ Async(f) \in Caller
    BY TaskAssumption, CallersAreTyped
  <2>2. CASE active[t] = Target[f]
    <3>1. UNCHANGED <<active, stack>>
      BY <1>3, <2>2 DEF Poll
    <3> QED BY <3>1 DEF GuardInv, StackTypeOK, ActiveIsInnermost, LinkedFrames, Top, Depth
  <2>3. CASE active[t] # Target[f]
    BY <1>3, <2>1, <2>3, PushKeeps DEF Poll
  <2> QED BY <2>2, <2>3
<1>4. ASSUME NEW t \in Thread, PollPending(t) PROVE GuardInv'
  BY <1>4, PopKeeps DEF PollPending
<1>5. ASSUME NEW t \in Thread, NEW f \in Task, PollReady(t, f) PROVE GuardInv'
  BY <1>5, PopKeeps DEF PollReady, Inside
<1>6. CASE UNCHANGED <<active, stack>>
  BY <1>6 DEF GuardInv, StackTypeOK, ActiveIsInnermost, LinkedFrames, Top, Depth
<1>7. ASSUME NEW f \in Task, Cancel(f) PROVE GuardInv'
  BY <1>6, <1>7 DEF Cancel
<1> QED BY <1>1, <1>2, <1>3, <1>4, <1>5, <1>6, <1>7 DEF Next, vars

LEMMA GuardInvInit == Init => GuardInv
<1> SUFFICES ASSUME Init PROVE GuardInv
  OBVIOUS
<1>1. StackTypeOK /\ \A t \in Thread : stack[t] = <<>> /\ active[t] = NONE
  BY DEF Init, StackTypeOK
<1> QED BY <1>1 DEF GuardInv, ActiveIsInnermost, LinkedFrames

LEMMA GuardInvAlways == Spec => []GuardInv
BY GuardInvInit, GuardInvInductive, PTL DEF Spec

(* The flag of a thread is the innermost call it is inside, however the calls of
   threads and the polls of futures nest and interleave (guard.rs, `enter`, `drop`
   and `poll`). *)
THEOREM FlagFollowsCalls == Spec => []ActiveIsInnermost
<1>1. GuardInv => ActiveIsInnermost
  BY DEF GuardInv
<1> QED BY <1>1, GuardInvAlways, PTL

(* No call waits for the lock that the call right around it holds: the re-entry
   guard.rs is about is refused, in any number of threads and instances. *)
THEOREM DirectReentryRefused == Spec => []NoDirectReentry
<1>1. GuardInv => NoDirectReentry
  BY DEF GuardInv, LinkedFrames, NoDirectReentry, Depth
<1> QED BY <1>1, GuardInvAlways, PTL

-----------------------------------------------------------------------------
(* The bindings.                                                           *)

\* Each step of a binding is one of the guard, or invisible to it.
LEMMA StepsAreGuarded == BNext => [Next]_vars
<1> SUFFICES ASSUME BNext PROVE [Next]_vars
  OBVIOUS
<1>1. ASSUME NEW t \in Thread,
             \/ Resume(t) \/ Yield(t)
             \/ InvokeBare(t) \/ InvokeAttaching(t) \/ InvokeHolding(t)
             \/ \E k \in 1 .. MaxDepth : Answer(t, k)
      PROVE  UNCHANGED vars
  BY <1>1, Zenon DEF Resume, Yield, InvokeBare, InvokeAttaching, InvokeHolding, Answer
<1>2. ASSUME NEW t \in Thread, NEW i \in Instance,
             \/ EnterDetached(t, i) \/ EnterHolding(t, i)
             \/ EnterUniffi(t, i) \/ EnterC(t, i) \/ EnterBorrowed(t, i)
      PROVE  Next
  <2>1. Enter(t, i)
    BY <1>2, Zenon DEF EnterDetached, EnterHolding, EnterUniffi, EnterC, EnterBorrowed
  <2> QED BY <2>1, Zenon DEF Next
<1>3. ASSUME NEW t \in Thread, NEW k \in 1 .. MaxDepth, LeaveNative(t, k) PROVE Next
  BY <1>3, Zenon DEF LeaveNative, Next
<1>4. ASSUME NEW t \in Thread, NEW f \in Task, PollFrom(t, f) \/ ReadyTo(t, f)
      PROVE  Next
  BY <1>4, Zenon DEF PollFrom, ReadyTo, Next
<1>5. ASSUME NEW t \in Thread, PendingTo(t) PROVE Next
  BY <1>5, Zenon DEF PendingTo, Next
<1>6. ASSUME NEW f \in Task, CancelFrom(f) PROVE Next
  BY <1>6, Zenon DEF CancelFrom, Next
<1> QED BY <1>1, <1>2, <1>3, <1>4, <1>5, <1>6, Zenon DEF BNext

(* Whatever an interpreter does with its lock and a binding with its threads, the
   host sees a behaviour of CallGuard: nothing that decides behaviour has leaked
   into a binding. *)
THEOREM BindingsImplementCallGuard == BSpec => ImplementsCallGuard
<1>1. BInit => Init
  BY DEF BInit
<1>2. [BNext]_bvars => [Next]_vars
  BY StepsAreGuarded DEF bvars
<1> QED BY <1>1, <1>2, PTL DEF BSpec, ImplementsCallGuard, Spec

(* In every binding: a thread's flag is the innermost call it is inside. *)
THEOREM FlagFollowsCallsInBindings == BSpec => []ActiveIsInnermost
  BY BindingsImplementCallGuard, FlagFollowsCalls, PTL DEF ImplementsCallGuard

-----------------------------------------------------------------------------

GilInv ==
    /\ side \in [Thread -> {"foreign", "native", "answered"}]
    /\ HostRunsWithoutGil

LEMMA GilInvInductive == GilInv /\ [BNext]_bvars => GilInv'
<1> SUFFICES ASSUME GilInv, [BNext]_bvars PROVE GilInv'
  OBVIOUS
<1> USE NobodyAssumption DEF GilInv, HostRunsWithoutGil, Crosses
<1>1. ASSUME NEW t \in Thread, Resume(t) PROVE GilInv'
  BY <1>1 DEF Resume
<1>2. ASSUME NEW t \in Thread, Yield(t) PROVE GilInv'
  BY <1>2 DEF Yield
<1>3. ASSUME NEW t \in Thread, InvokeBare(t) \/ InvokeAttaching(t) \/ InvokeHolding(t)
      PROVE  GilInv'
  BY <1>3 DEF InvokeBare, InvokeAttaching, InvokeHolding
<1>4. ASSUME NEW t \in Thread, NEW k \in 1 .. MaxDepth, Answer(t, k) PROVE GilInv'
  BY <1>4 DEF Answer
<1>5. ASSUME NEW t \in Thread, NEW i \in Instance,
             EnterUniffi(t, i) \/ EnterC(t, i) \/ EnterBorrowed(t, i) \/ EnterHolding(t, i)
      PROVE  GilInv'
  BY <1>5 DEF EnterUniffi, EnterC, EnterBorrowed, EnterHolding
<1>6. ASSUME NEW t \in Thread, NEW i \in Instance, EnterDetached(t, i) PROVE GilInv'
  BY <1>6 DEF EnterDetached
<1>7. ASSUME NEW t \in Thread, NEW k \in 1 .. MaxDepth, LeaveNative(t, k) PROVE GilInv'
  BY <1>7 DEF LeaveNative
<1>8. ASSUME NEW t \in Thread, NEW f \in Task, PollFrom(t, f) PROVE GilInv'
  BY <1>8 DEF PollFrom
<1>9. ASSUME NEW t \in Thread, PendingTo(t) PROVE GilInv'
  BY <1>9 DEF PendingTo
<1>10. ASSUME NEW t \in Thread, NEW f \in Task, ReadyTo(t, f) PROVE GilInv'
  BY <1>10 DEF ReadyTo
<1>11. ASSUME NEW f \in Task, CancelFrom(f) PROVE GilInv'
  BY <1>11 DEF CancelFrom
<1>12. CASE UNCHANGED bvars
  BY <1>12 DEF bvars
<1> QED
  BY <1>1, <1>2, <1>3, <1>4, <1>5, <1>6, <1>7, <1>8, <1>9, <1>10, <1>11, <1>12, Zenon
     DEF BNext

(* No thread of Python is inside the host with the GIL, whichever threads,
   instances, futures and providers there are: other Python threads go on. *)
THEOREM PythonReleasesTheGil == BSpec => []HostRunsWithoutGil
<1>1. BInit => GilInv
  BY DEF BInit, GilInv, HostRunsWithoutGil
<1>2. GilInv => HostRunsWithoutGil
  BY DEF GilInv
<1> QED BY <1>1, <1>2, GilInvInductive, PTL DEF BSpec

-----------------------------------------------------------------------------
(* The queues of waiting calls, and what appending, taking the head and        *)
(* withdrawing one caller do to who is in them and who leads.                *)

Has(q, c) == \E k \in DOMAIN q : q[k] = c

Once(q) == \A j, k \in DOMAIN q : q[j] = q[k] => j = k

\* c is at the head of q.
Leads(q, c) == q # <<>> /\ Head(q) = c

LEMMA Appended ==
    ASSUME NEW S, NEW q \in Seq(S), NEW c \in S
    PROVE  LET r == Append(q, c)
           IN  /\ r \in Seq(S)
               /\ \A d : Has(r, d) => Has(q, d) \/ d = c
               /\ Has(r, c)
               /\ \A d : Has(q, d) => Has(r, d)
               /\ Once(q) /\ ~Has(q, c) => Once(r)
               /\ \A d : Leads(q, d) => Leads(r, d)
<1> DEFINE r == Append(q, c)
           n == Len(q)
<1>1. /\ r \in Seq(S) /\ n \in Nat /\ Len(r) = n + 1
      /\ DOMAIN r = 1 .. n + 1 /\ DOMAIN q = 1 .. n
      /\ \A k \in 1 .. n : r[k] = q[k]
      /\ r[n + 1] = c
  BY AppendProperties
<1>2. q # <<>> => n # 0 /\ r # <<>> /\ Head(q) = q[1] /\ Head(r) = r[1]
  BY <1>1
<1> HIDE DEF r, n
<1>3. \A d : Has(r, d) => Has(q, d) \/ d = c
  BY <1>1 DEF Has
<1>4. Has(r, c) /\ \A d : Has(q, d) => Has(r, d)
  BY <1>1 DEF Has
<1>5. ASSUME Once(q), ~Has(q, c) PROVE Once(r)
  <2> SUFFICES ASSUME NEW j \in 1 .. n + 1, NEW k \in 1 .. n + 1, r[j] = r[k], j < k
               PROVE  FALSE
    BY <1>1 DEF Once
  <2>1. j \in 1 .. n /\ r[j] = q[j]
    BY <1>1
  <2>2. k # n + 1
    BY <2>1, <1>1, <1>5 DEF Has
  <2>3. k \in 1 .. n /\ r[k] = q[k]
    BY <2>2, <1>1
  <2>4. q[j] = q[k]
    BY <2>1, <2>3
  <2>5. j = k
    BY <2>1, <2>3, <2>4, <1>1, <1>5 DEF Once
  <2>6. QED
    BY <2>5, <2>1, <1>1
<1>6. \A d : Leads(q, d) => Leads(r, d)
  BY <1>1, <1>2 DEF Leads
<1>7. QED
  BY <1>1, <1>3, <1>4, <1>5, <1>6 DEF r

LEMMA Tailed ==
    ASSUME NEW S, NEW q \in Seq(S), NEW c, Once(q), Leads(q, c)
    PROVE  LET r == Tail(q)
           IN  /\ r \in Seq(S)
               /\ \A d : Has(r, d) => Has(q, d) /\ d # c
               /\ Once(r)
<1> DEFINE r == Tail(q)
           n == Len(r)
<1>1. /\ r \in Seq(S) /\ n \in Nat /\ Len(q) = n + 1
      /\ DOMAIN r = 1 .. n /\ DOMAIN q = 1 .. n + 1
      /\ \A k \in 1 .. n : r[k] = q[k + 1]
      /\ q[1] = c
  BY HeadTailProperties DEF Leads
<1> HIDE DEF r, n
<1>2. \A d : Has(r, d) => Has(q, d) /\ d # c
  BY <1>1 DEF Has, Once
<1>3. Once(r)
  BY <1>1 DEF Once
<1>4. QED
  BY <1>1, <1>2, <1>3 DEF r

LEMMA Withdrawn ==
    ASSUME NEW S, NEW q \in Seq(S), NEW c, Once(q)
    PROVE  LET r == Without(c, q)
           IN  /\ r \in Seq(S)
               /\ \A d : Has(r, d) => Has(q, d) /\ d # c
               /\ Once(r)
               /\ \A d : d # c /\ Leads(q, d) => Leads(r, d)
<1> DEFINE r == Without(c, q)
           n == Len(q)
<1>1. n \in Nat /\ DOMAIN q = 1 .. n
  OBVIOUS
<1>2. CASE ~Has(q, c)
  BY <1>2 DEF Has, Without
<1>3. CASE Has(q, c)
  <2>1. PICK at \in 1 .. n :
          /\ q[at] = c
          /\ r = SubSeq(q, 1, at - 1) \o SubSeq(q, at + 1, n)
    BY <1>1, <1>3 DEF Has, Without
  <2> DEFINE a == SubSeq(q, 1, at - 1)
             b == SubSeq(q, at + 1, n)
  <2>2. /\ a \in Seq(S) /\ Len(a) = at - 1 /\ \A k \in 1 .. at - 1 : a[k] = q[k]
        /\ b \in Seq(S) /\ Len(b) = n - at /\ \A k \in 1 .. n - at : b[k] = q[at + k]
    <3>1. /\ \A k \in 1 .. at - 1 : q[k] \in S
          /\ \A k \in at + 1 .. n : q[k] \in S
      BY <1>1, <2>1, ElementOfSeq
    <3>2. at \in Nat /\ at - 1 \in Int /\ at + 1 \in Int /\ n \in Int
      BY <1>1, <2>1
    <3>3. /\ a \in Seq(S) /\ Len(a) = IF 1 =< at - 1 THEN at - 1 - 1 + 1 ELSE 0
          /\ \A k \in 1 .. at - 1 - 1 + 1 : a[k] = q[1 + k - 1]
      BY <3>1, <3>2, SubSeqProperties
    <3>4. /\ b \in Seq(S) /\ Len(b) = IF at + 1 =< n THEN n - (at + 1) + 1 ELSE 0
          /\ \A k \in 1 .. n - (at + 1) + 1 : b[k] = q[at + 1 + k - 1]
      BY <3>1, <3>2, SubSeqProperties
    <3> HIDE DEF a, b, n
    <3>5. Len(a) = at - 1 /\ \A k \in 1 .. at - 1 : a[k] = q[k]
      BY <3>2, <3>3
    <3>6. Len(b) = n - at /\ \A k \in 1 .. n - at : b[k] = q[at + k]
      <4>1. n \in Nat /\ at \in 1 .. n
        BY <1>1, <2>1
      <4>2. Len(b) = n - at
        BY <4>1, <3>4
      <4>3. ASSUME NEW k \in 1 .. n - at PROVE b[k] = q[at + k]
        <5>1. k \in 1 .. n - (at + 1) + 1 /\ at + 1 + k - 1 = at + k
          BY <4>1
        <5>2. QED
          BY <5>1, <3>4
      <4>4. QED
        BY <4>2, <4>3
    <3>7. QED
      BY <3>3, <3>4, <3>5, <3>6
  <2> HIDE DEF a, b, n
  <2>3. /\ r \in Seq(S) /\ Len(r) = n - 1 /\ DOMAIN r = 1 .. n - 1
        /\ \A k \in 1 .. n - 1 : r[k] = IF k < at THEN q[k] ELSE q[k + 1]
    <3>1. r = a \o b
      BY <2>1 DEF a, b
    <3> HIDE DEF r
    <3>2. /\ r \in Seq(S) /\ Len(r) = n - 1 /\ DOMAIN r = 1 .. n - 1
          /\ \A k \in 1 .. n - 1 : r[k] = IF k =< at - 1 THEN a[k] ELSE b[k - (at - 1)]
      <4>1. /\ r \in Seq(S) /\ Len(r) = Len(a) + Len(b)
            /\ \A k \in 1 .. Len(a) + Len(b) :
                 r[k] = IF k =< Len(a) THEN a[k] ELSE b[k - Len(a)]
        BY <3>1, <2>2, ConcatProperties
      <4>2. Len(a) + Len(b) = n - 1
        BY <2>1, <2>2, <1>1
      <4>3. QED
        BY <4>1, <4>2, <2>2
    <3>3. ASSUME NEW k \in 1 .. n - 1 PROVE r[k] = IF k < at THEN q[k] ELSE q[k + 1]
      <4>1. CASE k < at
        BY <4>1, <3>2, <2>1, <2>2, <1>1
      <4>2. CASE ~(k < at)
        <5>1. k - (at - 1) \in 1 .. n - at /\ at + (k - (at - 1)) = k + 1
          BY <4>2, <2>1, <1>1
        <5>2. r[k] = b[k - (at - 1)]
          <6>1. ~(k =< at - 1)
            BY <4>2, <1>1
          <6>2. QED
            BY <6>1, <3>2
        <5>3. b[k - (at - 1)] = q[at + (k - (at - 1))]
          BY <5>1, <2>2
        <5>4. r[k] = q[k + 1]
          BY <5>1, <5>2, <5>3
        <5>5. QED
          BY <5>4, <4>2
      <4>3. QED
        BY <4>1, <4>2
    <3>4. QED
      BY <3>2, <3>3
  <2> HIDE DEF r, n
  <2>4. ASSUME NEW k \in 1 .. n - 1
        PROVE  /\ k < at => k \in 1 .. n /\ r[k] = q[k] /\ k # at
               /\ ~(k < at) => k + 1 \in 1 .. n /\ r[k] = q[k + 1] /\ k + 1 # at
    BY <2>3, <2>1, <1>1
  <2>5. \A d : Has(r, d) => Has(q, d) /\ d # c
    <3> SUFFICES ASSUME NEW k \in 1 .. n - 1 PROVE Has(q, r[k]) /\ r[k] # c
      BY <2>3 DEF Has
    <3>1. \A i \in 1 .. n : i # at => Has(q, q[i]) /\ q[i] # c
      BY <2>1, <1>1 DEF Has, Once
    <3>2. QED
      BY <3>1, <2>4
  <2>6. Once(r)
    <3> SUFFICES ASSUME NEW j \in 1 .. n - 1, NEW k \in 1 .. n - 1, r[j] = r[k]
                 PROVE  j = k
      BY <2>3 DEF Once
    <3>1. \A x, y \in 1 .. n : q[x] = q[y] => x = y
      BY <1>1 DEF Once
    <3>2. at \in Nat /\ n \in Nat
      BY <1>1, <2>1
    <3>3. QED
      BY <3>1, <3>2, <2>4
  <2>7. ASSUME NEW d, d # c, Leads(q, d) PROVE Leads(r, d)
    <3>1. q[1] = d /\ at # 1
      BY <2>7, <2>1, <1>1 DEF Leads
    <3>2. r # <<>> /\ r[1] = d
      BY <3>1, <2>1, <2>3, <1>1
    <3>3. QED
      BY <3>2, <2>3 DEF Leads
  <2>8. QED
    BY <2>3, <2>5, <2>6, <2>7 DEF r
<1>4. QED
  BY <1>2, <1>3

LEMMA CallersDiffer ==
    /\ \A t, u, k, j : Sync(t, k) = Sync(u, j) => t = u /\ k = j
    /\ \A f, g : Async(f) = Async(g) => f = g
    /\ \A t, k, f : Sync(t, k) # Async(f)
BY DEF Sync, Async

-----------------------------------------------------------------------------
(* The registries' locks: a caller is in one queue, once, for one call, and a *)
(* call around another leads the queue of its instance until it goes on.      *)

LockTypes ==
    /\ queue \in [Instance -> Seq(Caller)]
    /\ status \in [Task -> {"new", "begun", "done"}]

\* A call waits under its own name, a poll under its future's, for its target.
FramesAreCallers ==
    \A t \in Thread : \A k \in DOMAIN stack[t] :
      \/ stack[t][k].caller = Sync(t, k)
      \/ \E f \in Task : stack[t][k].caller = Async(f) /\ stack[t][k].id = Target[f]

OneFrameEach ==
    \A t, u \in Thread : \A k \in DOMAIN stack[t], j \in DOMAIN stack[u] :
      stack[t][k].caller = stack[u][j].caller => t = u /\ k = j

\* Who is in a queue is a call that runs or a future that was polled, once.
QueuesHoldCallers ==
    \A i \in Instance :
      /\ Once(queue[i])
      /\ \A t \in Thread, k \in Nat : Has(queue[i], Sync(t, k)) =>
           /\ k \in DOMAIN stack[t]
           /\ stack[t][k].caller = Sync(t, k)
           /\ stack[t][k].id = i
      /\ \A f \in Task : Has(queue[i], Async(f)) => Target[f] = i /\ status[f] = "begun"

OuterCallsOwn ==
    \A t \in Thread : \A k \in DOMAIN stack[t] :
      k < Depth(t) => Leads(queue[stack[t][k].id], stack[t][k].caller)

LockInv == /\ GuardInv
           /\ LockTypes /\ FramesAreCallers /\ OneFrameEach /\ QueuesHoldCallers
           /\ OuterCallsOwn

\* A step takes the lock from no call that goes on.
OwnersStay ==
    \A u \in Thread : \A k \in DOMAIN stack[u] \cap DOMAIN stack'[u] :
      Leads(queue[stack[u][k].id], stack[u][k].caller) =>
        Leads(queue'[stack'[u][k].id], stack'[u][k].caller)

LEMMA OwnsIsLeads == \A c, i : Owns(c, i) <=> Leads(queue[i], c)
BY DEF Owns, Leads

LEMMA FramesAreTyped ==
    ASSUME GuardInv, NEW u \in Thread, NEW k \in DOMAIN stack[u]
    PROVE  k \in Nat /\ stack[u][k].id \in Instance /\ stack[u][k].caller \in Caller
<1>1. k \in Nat /\ stack[u][k] \in FrameSet
  BY ElementOfSeq DEF GuardInv, StackTypeOK
<1>2. QED
  BY <1>1 DEF FrameSet

\* A caller is only in the queue of the instance its frame is of.
LEMMA OwnedIsInside ==
    ASSUME LockInv, NEW u \in Thread, NEW k \in DOMAIN stack[u], NEW i \in Instance,
           Has(queue[i], stack[u][k].caller)
    PROVE  stack[u][k].id = i
<1>1. k \in Nat
  BY DEF LockInv, GuardInv, StackTypeOK
<1>2. CASE stack[u][k].caller = Sync(u, k)
  BY <1>1, <1>2 DEF LockInv, QueuesHoldCallers
<1>3. ASSUME NEW f \in Task, stack[u][k].caller = Async(f), stack[u][k].id = Target[f]
      PROVE  stack[u][k].id = i
  BY <1>3 DEF LockInv, QueuesHoldCallers
<1>4. QED
  BY <1>2, <1>3 DEF LockInv, FramesAreCallers

LEMMA MapsInto ==
    ASSUME NEW A, NEW B, NEW g, g = [x \in A |-> g[x]], \A x \in A : g[x] \in B
    PROVE  g \in [A -> B]
OBVIOUS

LEMMA LeaderIsIn ==
    ASSUME NEW S, NEW q \in Seq(S), NEW c, Leads(q, c)
    PROVE  Has(q, c)
<1>1. Len(q) \in Nat /\ Len(q) # 0 /\ DOMAIN q = 1 .. Len(q)
  BY DEF Leads
<1>2. 1 \in DOMAIN q /\ q[1] = c
  BY <1>1 DEF Leads
<1>3. QED
  BY <1>2 DEF Has

\* The frames after a push.
LEMMA PushedFrames ==
    ASSUME GuardInv, NEW t \in Thread, NEW i \in Instance, NEW c \in Caller, Push(t, i, c)
    PROVE  /\ Len(stack[t]) \in Nat
           /\ DOMAIN stack[t] = 1 .. Len(stack[t])
           /\ DOMAIN stack'[t] = 1 .. Len(stack[t]) + 1
           /\ Len(stack'[t]) = Len(stack[t]) + 1
           /\ \A k \in 1 .. Len(stack[t]) : stack'[t][k] = stack[t][k]
           /\ stack'[t][Len(stack[t]) + 1].id = i
           /\ stack'[t][Len(stack[t]) + 1].caller = c
           /\ \A u \in Thread : u # t => stack'[u] = stack[u]
<1>1. stack[t] \in Seq(FrameSet) /\ active[t] \in Instance \cup {NONE}
      /\ stack \in [Thread -> Seq(FrameSet)]
  BY DEF GuardInv, StackTypeOK
<1> DEFINE f == Frame(t, i, c)
<1>2. f \in FrameSet /\ f.id = i /\ f.caller = c
  BY <1>1 DEF Frame, FrameSet
<1>3. stack' = [stack EXCEPT ![t] = Append(stack[t], f)]
  BY DEF Push
<1> HIDE DEF f
<1>4. stack'[t] = Append(stack[t], f) /\ \A u \in Thread : u # t => stack'[u] = stack[u]
  BY <1>1, <1>3
<1>5. QED
  BY <1>1, <1>2, <1>4, AppendProperties

\* The frames after a pop.
LEMMA PoppedFrames ==
    ASSUME GuardInv, NEW t \in Thread, stack[t] # <<>>, Pop(t)
    PROVE  /\ Len(stack[t]) \in Nat \ {0}
           /\ DOMAIN stack[t] = 1 .. Len(stack[t])
           /\ DOMAIN stack'[t] = 1 .. Len(stack[t]) - 1
           /\ Len(stack'[t]) = Len(stack[t]) - 1
           /\ \A k \in 1 .. Len(stack[t]) - 1 : stack'[t][k] = stack[t][k]
           /\ \A u \in Thread : u # t => stack'[u] = stack[u]
<1> DEFINE s == stack[t]
           n == Len(s) - 1
           r == SubSeq(s, 1, n)
<1>1. s \in Seq(FrameSet) /\ s # <<>> /\ stack \in [Thread -> Seq(FrameSet)]
  BY DEF GuardInv, StackTypeOK
<1>2. n \in Nat /\ Len(s) = n + 1 /\ DOMAIN s = 1 .. n + 1
  BY <1>1, EmptySeq
<1>3. r \in Seq(FrameSet) /\ Len(r) = n /\ \A k \in 1 .. n : r[k] = s[k]
  BY <1>1, <1>2
<1>4. stack'[t] = r /\ \A u \in Thread : u # t => stack'[u] = stack[u]
  BY <1>1 DEF Pop
<1> HIDE DEF n, r
<1>5. DOMAIN r = 1 .. n
  BY <1>3
<1>6. Len(s) \in Nat \ {0} /\ Len(s) - 1 = n
  BY <1>2
<1>7. QED
  BY <1>2, <1>3, <1>4, <1>5, <1>6

\* What a push needs of the queues to keep the frames in order.
LEMMA PushKeepsFrames ==
    ASSUME LockInv, NEW t \in Thread, NEW i \in Instance, NEW c \in Caller, Push(t, i, c),
           stack[t] = <<>> \/ Inside(t),
           \/ c = Sync(t, Depth(t) + 1)
           \/ \E f \in Task : c = Async(f) /\ Target[f] = i /\ ~Polled(f),
           \A j \in Instance, d \in Caller : Leads(queue[j], d) => Leads(queue'[j], d)
    PROVE  FramesAreCallers' /\ OneFrameEach' /\ OuterCallsOwn' /\ OwnersStay
<1> DEFINE n == Len(stack[t])
<1>0. GuardInv
  BY DEF LockInv
<1>1. /\ n \in Nat
      /\ DOMAIN stack[t] = 1 .. n
      /\ DOMAIN stack'[t] = 1 .. n + 1
      /\ Len(stack'[t]) = n + 1
      /\ \A k \in 1 .. n : stack'[t][k] = stack[t][k]
      /\ stack'[t][n + 1].id = i
      /\ stack'[t][n + 1].caller = c
      /\ \A u \in Thread : u # t => stack'[u] = stack[u]
  BY <1>0, PushedFrames
<1>2. \A u \in Thread : \A k \in DOMAIN stack[u] :
         k \in Nat /\ stack[u][k].id \in Instance /\ stack[u][k].caller \in Caller
  BY <1>0, FramesAreTyped
<1>3. c = Sync(t, n + 1) \/ \E f \in Task : c = Async(f) /\ Target[f] = i /\ ~Polled(f)
  BY DEF Depth
<1>4. \A u \in Thread : \A k \in DOMAIN stack[u] : stack[u][k].caller # c
  <2> SUFFICES ASSUME NEW u \in Thread, NEW k \in DOMAIN stack[u], stack[u][k].caller = c
               PROVE  FALSE
    OBVIOUS
  <2>1. CASE c = Sync(t, n + 1)
    <3>1. u = t /\ k = n + 1
      BY <2>1, CallersDiffer DEF LockInv, FramesAreCallers
    <3>2. QED
      BY <3>1, <1>1
  <2>2. ASSUME NEW f \in Task, c = Async(f), ~Polled(f) PROVE FALSE
    BY <2>2 DEF Polled
  <2>3. QED
    BY <2>1, <2>2, <1>3
<1>5. stack[t] # <<>> => Leads(queue[stack[t][n].id], stack[t][n].caller)
  BY OwnsIsLeads DEF Inside, Top, Depth
<1>6. n # 0 => stack[t] # <<>>
  BY <1>1
<1> HIDE DEF n
<1>7. FramesAreCallers'
  <2> SUFFICES ASSUME NEW u \in Thread, NEW k \in DOMAIN stack'[u]
               PROVE  \/ stack'[u][k].caller = Sync(u, k)
                      \/ \E f \in Task : stack'[u][k].caller = Async(f) /\ stack'[u][k].id = Target[f]
    BY DEF FramesAreCallers
  <2>1. CASE u = t /\ k = n + 1
    BY <2>1, <1>1, <1>3
  <2>2. CASE ~(u = t /\ k = n + 1)
    <3>1. k \in DOMAIN stack[u] /\ stack'[u][k] = stack[u][k]
      BY <2>2, <1>1
    <3>2. QED
      BY <3>1 DEF LockInv, FramesAreCallers
  <2>3. QED
    BY <2>1, <2>2
<1>8. OneFrameEach'
  <2> SUFFICES ASSUME NEW u \in Thread, NEW v \in Thread,
                      NEW k \in DOMAIN stack'[u], NEW j \in DOMAIN stack'[v],
                      stack'[u][k].caller = stack'[v][j].caller
               PROVE  u = v /\ k = j
    BY DEF OneFrameEach
  <2>1. ~(u = t /\ k = n + 1) => k \in DOMAIN stack[u] /\ stack'[u][k] = stack[u][k]
    BY <1>1
  <2>2. ~(v = t /\ j = n + 1) => j \in DOMAIN stack[v] /\ stack'[v][j] = stack[v][j]
    BY <1>1
  <2>3. QED
    BY <2>1, <2>2, <1>1, <1>4 DEF LockInv, OneFrameEach
<1>9. OuterCallsOwn'
  <2> SUFFICES ASSUME NEW u \in Thread, NEW k \in DOMAIN stack'[u], k < Len(stack'[u])
               PROVE  Leads(queue'[stack'[u][k].id], stack'[u][k].caller)
    BY DEF OuterCallsOwn, Depth
  <2>1. k \in DOMAIN stack[u] /\ stack'[u][k] = stack[u][k]
    BY <1>1
  <2>2. Leads(queue[stack[u][k].id], stack[u][k].caller)
    <3>1. CASE u # t
      BY <3>1, <2>1, <1>1 DEF LockInv, OuterCallsOwn, Depth
    <3>2. CASE u = t /\ k < n
      BY <3>2, <2>1 DEF LockInv, OuterCallsOwn, Depth, n
    <3>3. CASE u = t /\ k = n
      BY <3>3, <2>1, <1>1, <1>5, <1>6
    <3>4. QED
      BY <3>1, <3>2, <3>3, <2>1, <1>1
  <2>3. QED
    BY <2>1, <2>2, <1>2
<1>10. OwnersStay
  <2> SUFFICES ASSUME NEW u \in Thread, NEW k \in DOMAIN stack[u],
                      Leads(queue[stack[u][k].id], stack[u][k].caller)
               PROVE  Leads(queue'[stack'[u][k].id], stack'[u][k].caller)
    BY DEF OwnersStay
  <2>1. stack'[u][k] = stack[u][k]
    BY <1>1
  <2>2. QED
    BY <2>1, <1>2
<1>11. QED
  BY <1>7, <1>8, <1>9, <1>10

\* What a pop needs of the queues.
LEMMA PopKeepsFrames ==
    ASSUME LockInv, NEW t \in Thread, stack[t] # <<>>, Pop(t),
           \A u \in Thread : \A k \in DOMAIN stack[u] :
             ~(u = t /\ k = Depth(t)) /\ Leads(queue[stack[u][k].id], stack[u][k].caller)
               => Leads(queue'[stack[u][k].id], stack[u][k].caller)
    PROVE  FramesAreCallers' /\ OneFrameEach' /\ OuterCallsOwn' /\ OwnersStay
<1> DEFINE n == Len(stack[t])
<1>0. GuardInv
  BY DEF LockInv
<1>1. /\ n \in Nat \ {0}
      /\ DOMAIN stack[t] = 1 .. n
      /\ DOMAIN stack'[t] = 1 .. n - 1
      /\ Len(stack'[t]) = n - 1
      /\ \A k \in 1 .. n - 1 : stack'[t][k] = stack[t][k]
      /\ \A u \in Thread : u # t => stack'[u] = stack[u]
  BY <1>0, PoppedFrames
<1>2. \A u \in Thread : \A k \in DOMAIN stack[u] : k \in Nat
  BY DEF LockInv, GuardInv, StackTypeOK
<1>3. ASSUME NEW u \in Thread, NEW k \in DOMAIN stack'[u]
      PROVE  k \in DOMAIN stack[u] /\ stack'[u][k] = stack[u][k] /\ ~(u = t /\ k = n)
  BY <1>1
<1> HIDE DEF n
<1>4. FramesAreCallers'
  <2> SUFFICES ASSUME NEW u \in Thread, NEW k \in DOMAIN stack'[u]
               PROVE  \/ stack'[u][k].caller = Sync(u, k)
                      \/ \E f \in Task : stack'[u][k].caller = Async(f) /\ stack'[u][k].id = Target[f]
    BY DEF FramesAreCallers
  <2>1. QED
    BY <1>3 DEF LockInv, FramesAreCallers
<1>5. OneFrameEach'
  BY <1>3 DEF LockInv, OneFrameEach
<1>6. OuterCallsOwn'
  <2> SUFFICES ASSUME NEW u \in Thread, NEW k \in DOMAIN stack'[u], k < Len(stack'[u])
               PROVE  Leads(queue'[stack'[u][k].id], stack'[u][k].caller)
    BY DEF OuterCallsOwn, Depth
  <2>1. k \in DOMAIN stack[u] /\ stack'[u][k] = stack[u][k] /\ ~(u = t /\ k = n)
    BY <1>3
  <2>2. k < Len(stack[u])
    <3>1. CASE u = t
      BY <3>1, <1>1, <1>2, <2>1 DEF n
    <3>2. CASE u # t
      BY <3>2, <1>1
    <3>3. QED
      BY <3>1, <3>2
  <2>3. Leads(queue[stack[u][k].id], stack[u][k].caller)
    BY <2>1, <2>2 DEF LockInv, OuterCallsOwn, Depth
  <2>4. QED
    BY <2>1, <2>3 DEF n, Depth
<1>7. OwnersStay
  <2> SUFFICES ASSUME NEW u \in Thread, NEW k \in DOMAIN stack[u], k \in DOMAIN stack'[u],
                      Leads(queue[stack[u][k].id], stack[u][k].caller)
               PROVE  Leads(queue'[stack'[u][k].id], stack'[u][k].caller)
    BY DEF OwnersStay
  <2>1. stack'[u][k] = stack[u][k] /\ ~(u = t /\ k = n)
    BY <1>3
  <2>2. QED
    BY <2>1 DEF n, Depth
<1>8. QED
  BY <1>4, <1>5, <1>6, <1>7

-----------------------------------------------------------------------------

LEMMA EnterKeepsLocks ==
    ASSUME LockInv, NEW t \in Thread, NEW i \in Instance, Enter(t, i)
    PROVE  LockInv' /\ OwnersStay
<1> DEFINE c == Sync(t, Depth(t) + 1)
<1>1. /\ MayCall(t, i, Callers) /\ active[t] # i /\ Push(t, i, c)
      /\ queue' = [queue EXCEPT ![i] = Append(@, c)]
      /\ status' = status
  BY DEF Enter
<1>2. Depth(t) \in Nat /\ c \in Caller
  BY <1>1, DepthAssumption, CallersAreTyped DEF LockInv, GuardInv, StackTypeOK, Push, Depth
<1>3. GuardInv'
  BY <1>1, <1>2, PushKeeps DEF LockInv
<1>4. queue \in [Instance -> Seq(Caller)]
  BY DEF LockInv, LockTypes
<1>5. /\ DOMAIN stack[t] = 1 .. Depth(t)
      /\ DOMAIN stack'[t] = 1 .. Depth(t) + 1
      /\ \A k \in 1 .. Depth(t) : stack'[t][k] = stack[t][k]
      /\ stack'[t][Depth(t) + 1].id = i
      /\ stack'[t][Depth(t) + 1].caller = c
      /\ \A u \in Thread : u # t => stack'[u] = stack[u]
  BY <1>1, <1>2, PushedFrames DEF LockInv, Depth
<1>6. ~Has(queue[i], c)
  BY <1>2, <1>5 DEF LockInv, QueuesHoldCallers
<1>7. /\ queue'[i] \in Seq(Caller) /\ Once(queue'[i])
      /\ \A d : Has(queue'[i], d) => Has(queue[i], d) \/ d = c
      /\ \A d : Leads(queue[i], d) => Leads(queue'[i], d)
      /\ \A j \in Instance : j # i => queue'[j] = queue[j]
  <2>1. queue'[i] = Append(queue[i], c) /\ \A j \in Instance : j # i => queue'[j] = queue[j]
    BY <1>1, <1>4
  <2>2. Once(queue[i]) /\ queue[i] \in Seq(Caller)
    BY <1>4 DEF LockInv, QueuesHoldCallers
  <2>3. QED
    BY <2>1, <2>2, <1>2, <1>6, Appended
<1>8. LockTypes'
  BY <1>1, <1>4, <1>7 DEF LockInv, LockTypes
<1>9. stack[t] = <<>> \/ Inside(t)
  BY <1>1 DEF MayCall
<1>10. \A j \in Instance, d \in Caller : Leads(queue[j], d) => Leads(queue'[j], d)
  BY <1>7
<1>11. FramesAreCallers' /\ OneFrameEach' /\ OuterCallsOwn' /\ OwnersStay
  BY <1>1, <1>2, <1>9, <1>10, PushKeepsFrames
<1>12. QueuesHoldCallers'
  <2> HIDE DEF c
  <2>1. ASSUME NEW j \in Instance, NEW u \in Thread, NEW k \in Nat,
               Has(queue[j], Sync(u, k))
        PROVE  /\ k \in DOMAIN stack'[u]
               /\ stack'[u][k].caller = Sync(u, k)
               /\ stack'[u][k].id = j
    <3>1. k \in DOMAIN stack[u] /\ stack[u][k].caller = Sync(u, k) /\ stack[u][k].id = j
      BY <2>1 DEF LockInv, QueuesHoldCallers
    <3>2. k \in DOMAIN stack'[u] /\ stack'[u][k] = stack[u][k]
      BY <3>1, <1>2, <1>5
    <3>3. QED
      BY <3>1, <3>2
  <2>2. ASSUME NEW u \in Thread, NEW k \in Nat, Sync(u, k) = c
        PROVE  /\ k \in DOMAIN stack'[u]
               /\ stack'[u][k].caller = Sync(u, k)
               /\ stack'[u][k].id = i
    <3>1. u = t /\ k = Depth(t) + 1
      BY <2>2, CallersDiffer DEF c
    <3>2. QED
      BY <3>1, <2>2, <1>2, <1>5
  <2>3. \A f \in Task : Async(f) # c
    BY CallersDiffer DEF c
  <2>4. ASSUME NEW j \in Instance
        PROVE  /\ Once(queue'[j])
               /\ \A d : Has(queue'[j], d) => Has(queue[j], d) \/ (d = c /\ j = i)
    BY <1>7 DEF LockInv, QueuesHoldCallers
  <2>5. \A j \in Instance, f \in Task :
          Has(queue[j], Async(f)) => Target[f] = j /\ status'[f] = "begun"
    BY <1>1 DEF LockInv, QueuesHoldCallers
  <2>6. QED
    BY <2>1, <2>2, <2>3, <2>4, <2>5 DEF QueuesHoldCallers
<1>13. QED
  BY <1>3, <1>8, <1>11, <1>12 DEF LockInv

\* A call returns or a poll is ready: the head of a queue goes, with its frame.
LEMMA ReleaseKeepsLocks ==
    ASSUME LockInv, NEW t \in Thread, Inside(t), Pop(t),
           queue' = [queue EXCEPT ![Top(t).id] = Tail(@)],
           status' \in [Task -> {"new", "begun", "done"}],
           \A f \in Task : Async(f) # Top(t).caller => status'[f] = status[f]
    PROVE  LockInv' /\ OwnersStay
<1> DEFINE n == Depth(t)
           i == Top(t).id
           c == Top(t).caller
<1>0. GuardInv /\ stack[t] # <<>>
  BY DEF LockInv, Inside
<1>1. /\ n \in Nat \ {0}
      /\ DOMAIN stack[t] = 1 .. n
      /\ DOMAIN stack'[t] = 1 .. n - 1
      /\ \A k \in 1 .. n - 1 : stack'[t][k] = stack[t][k]
      /\ \A u \in Thread : u # t => stack'[u] = stack[u]
  BY <1>0, PoppedFrames DEF Depth
<1>2. n \in DOMAIN stack[t] /\ c = stack[t][n].caller /\ i = stack[t][n].id /\ i \in Instance
  <2>1. n \in DOMAIN stack[t] /\ stack[t] \in Seq(FrameSet)
    BY <1>1 DEF LockInv, GuardInv, StackTypeOK
  <2>2. stack[t][n] \in FrameSet
    BY <2>1, ElementOfSeq
  <2>3. QED
    BY <2>1, <2>2 DEF Top, FrameSet
<1>3. GuardInv'
  BY <1>0, PopKeeps
<1>4. queue \in [Instance -> Seq(Caller)] /\ \A j \in Instance : Once(queue[j])
  BY DEF LockInv, LockTypes, QueuesHoldCallers
<1>5. Leads(queue[i], c)
  BY OwnsIsLeads DEF Inside
<1> HIDE DEF n, i, c
<1>6. queue'[i] = Tail(queue[i]) /\ \A j \in Instance : j # i => queue'[j] = queue[j]
  BY <1>2, <1>4 DEF i
<1>7. /\ queue'[i] \in Seq(Caller) /\ Once(queue'[i])
      /\ \A d : Has(queue'[i], d) => Has(queue[i], d) /\ d # c
  BY <1>2, <1>4, <1>5, <1>6, Tailed
<1>8. \A j \in Instance : Has(queue[j], c) => j = i
  BY <1>2, OwnedIsInside
<1>9. \A j \in Instance : \A d : Has(queue'[j], d) => Has(queue[j], d) /\ d # c
  BY <1>6, <1>7, <1>8
<1>10. LockTypes'
  BY <1>4, <1>6, <1>7, <1>2 DEF LockTypes, i
<1>11. FramesAreCallers' /\ OneFrameEach' /\ OuterCallsOwn' /\ OwnersStay
  <2>1. ASSUME NEW u \in Thread, NEW k \in DOMAIN stack[u], ~(u = t /\ k = n),
               Leads(queue[stack[u][k].id], stack[u][k].caller)
        PROVE  Leads(queue'[stack[u][k].id], stack[u][k].caller)
    <3>1. stack[u][k].caller # c
      BY <2>1, <1>2 DEF LockInv, OneFrameEach
    <3>2. stack[u][k].id # i
      BY <2>1, <3>1, <1>5 DEF Leads
    <3>3. stack[u][k].id \in Instance
      BY FramesAreTyped DEF LockInv
    <3>4. QED
      BY <2>1, <3>2, <3>3, <1>6
  <2>2. QED
    BY <2>1, <1>0, PopKeepsFrames DEF n
<1>12. QueuesHoldCallers'
  <2>1. \A j \in Instance : Once(queue'[j])
    BY <1>4, <1>6, <1>7
  <2>2. ASSUME NEW j \in Instance, NEW u \in Thread, NEW k \in Nat,
               Has(queue'[j], Sync(u, k))
        PROVE  /\ k \in DOMAIN stack'[u]
               /\ stack'[u][k].caller = Sync(u, k)
               /\ stack'[u][k].id = j
    <3>1. Has(queue[j], Sync(u, k)) /\ Sync(u, k) # c
      BY <2>2, <1>9
    <3>2. k \in DOMAIN stack[u] /\ stack[u][k].caller = Sync(u, k) /\ stack[u][k].id = j
      BY <3>1 DEF LockInv, QueuesHoldCallers
    <3>3. ~(u = t /\ k = n)
      BY <3>1, <3>2, <1>2
    <3>4. k \in DOMAIN stack'[u] /\ stack'[u][k] = stack[u][k]
      BY <3>2, <3>3, <1>1
    <3>5. QED
      BY <3>2, <3>4
  <2>3. ASSUME NEW j \in Instance, NEW f \in Task, Has(queue'[j], Async(f))
        PROVE  Target[f] = j /\ status'[f] = "begun"
    <3>1. Has(queue[j], Async(f)) /\ Async(f) # c
      BY <2>3, <1>9
    <3>2. QED
      BY <3>1 DEF LockInv, QueuesHoldCallers, c
  <2>4. QED
    BY <2>1, <2>2, <2>3 DEF QueuesHoldCallers
<1>13. QED
  BY <1>3, <1>10, <1>11, <1>12 DEF LockInv

\* A future that no thread polls leaves its queue, refused or dropped.
LEMMA WithdrawKeepsLocks ==
    ASSUME LockInv, NEW f \in Task, ~Polled(f), UNCHANGED <<active, stack>>,
           queue' = [queue EXCEPT ![Target[f]] = Without(Async(f), @)],
           status' = [status EXCEPT ![f] = "done"]
    PROVE  LockInv' /\ OwnersStay
<1> DEFINE i == Target[f]
           c == Async(f)
<1>1. i \in Instance
  BY TaskAssumption
<1>2. /\ queue \in [Instance -> Seq(Caller)]
      /\ \A j \in Instance : Once(queue[j])
      /\ status \in [Task -> {"new", "begun", "done"}]
  BY DEF LockInv, LockTypes, QueuesHoldCallers
<1>3. queue'[i] = Without(c, queue[i]) /\ \A j \in Instance : j # i => queue'[j] = queue[j]
  BY <1>1, <1>2
<1>4. /\ queue'[i] \in Seq(Caller) /\ Once(queue'[i])
      /\ \A d : Has(queue'[i], d) => Has(queue[i], d) /\ d # c
      /\ \A d : d # c /\ Leads(queue[i], d) => Leads(queue'[i], d)
  BY <1>1, <1>2, <1>3, Withdrawn
<1>5. \A j \in Instance : Has(queue[j], c) => j = i
  BY DEF LockInv, QueuesHoldCallers
<1>6. \A j \in Instance : \A d : Has(queue'[j], d) => Has(queue[j], d) /\ d # c
  BY <1>3, <1>4, <1>5
<1>7. \A j \in Instance : \A d : d # c /\ Leads(queue[j], d) => Leads(queue'[j], d)
  BY <1>3, <1>4
<1>8. \A j \in Instance : Once(queue'[j]) /\ queue'[j] \in Seq(Caller)
  BY <1>2, <1>3, <1>4
<1>9. GuardInv'
  BY DEF LockInv, GuardInv, StackTypeOK, ActiveIsInnermost, LinkedFrames, Top, Depth
<1>10. LockTypes'
  <2>1. queue' = [j \in Instance |-> queue'[j]]
    BY <1>2
  <2>2. queue' \in [Instance -> Seq(Caller)]
    BY <2>1, <1>8, MapsInto
  <2>3. status' \in [Task -> {"new", "begun", "done"}]
    BY <1>2
  <2>4. QED
    BY <2>2, <2>3 DEF LockTypes
<1>11. FramesAreCallers' /\ OneFrameEach'
  BY DEF LockInv, FramesAreCallers, OneFrameEach
<1> HIDE DEF i, c
<1>12. OwnersStay /\ OuterCallsOwn'
  <2> SUFFICES ASSUME NEW u \in Thread, NEW k \in DOMAIN stack[u],
                      Leads(queue[stack[u][k].id], stack[u][k].caller)
               PROVE  Leads(queue'[stack[u][k].id], stack[u][k].caller)
    BY DEF LockInv, OuterCallsOwn, OwnersStay, Depth
  <2>2. stack[u][k].caller # c
    BY DEF Polled, c
  <2>3. stack[u][k].id \in Instance
    BY FramesAreTyped DEF LockInv
  <2>4. QED
    BY <2>2, <2>3, <1>7
<1>13. QueuesHoldCallers'
  <2>1. \A u \in Thread : \A k : Sync(u, k) # c
    BY CallersDiffer DEF c
  <2>2. \A g \in Task : Async(g) # c => status'[g] = status[g]
    BY <1>2 DEF c
  <2>3. ASSUME NEW j \in Instance, NEW u \in Thread, NEW k \in Nat,
               Has(queue'[j], Sync(u, k))
        PROVE  /\ k \in DOMAIN stack[u]
               /\ stack[u][k].caller = Sync(u, k)
               /\ stack[u][k].id = j
    <3>1. Has(queue[j], Sync(u, k))
      BY <2>3, <1>6
    <3>2. QED
      BY <3>1 DEF LockInv, QueuesHoldCallers
  <2>4. ASSUME NEW j \in Instance, NEW g \in Task, Has(queue'[j], Async(g))
        PROVE  Target[g] = j /\ status'[g] = "begun"
    <3>1. Has(queue[j], Async(g)) /\ Async(g) # c
      BY <2>4, <1>6
    <3>2. QED
      BY <3>1, <2>2 DEF LockInv, QueuesHoldCallers
  <2>5. QED
    BY <2>3, <2>4, <1>8 DEF QueuesHoldCallers
<1>14. QED
  BY <1>9, <1>10, <1>11, <1>12, <1>13 DEF LockInv

\* The polls of a future whose flag lets it in: the first joins the queue.
LEMMA PollKeepsLocks ==
    ASSUME LockInv, NEW t \in Thread, NEW f \in Task, Poll(t, f)
    PROVE  LockInv' /\ OwnersStay
<1> DEFINE i == Target[f]
           c == Async(f)
<1>1. /\ status[f] # "done" /\ ~Polled(f) /\ MayCall(t, i, Pollers)
      /\ i \in Instance /\ c \in Caller
  BY TaskAssumption, CallersAreTyped DEF Poll
<1>2. CASE active[t] = i
  BY <1>1, <1>2, WithdrawKeepsLocks DEF Poll
<1>3. CASE active[t] # i
  <2>1. /\ Push(t, i, c)
        /\ status' = [status EXCEPT ![f] = "begun"]
        /\ queue' = IF status[f] = "new" THEN [queue EXCEPT ![i] = Append(@, c)] ELSE queue
    BY <1>3 DEF Poll
  <2>2. /\ queue \in [Instance -> Seq(Caller)]
        /\ \A j \in Instance : Once(queue[j])
        /\ status \in [Task -> {"new", "begun", "done"}]
    BY DEF LockInv, LockTypes, QueuesHoldCallers
  <2>3. GuardInv'
    BY <2>1, <1>1, <1>3, PushKeeps DEF LockInv
  <2>4. /\ DOMAIN stack[t] = 1 .. Len(stack[t])
        /\ DOMAIN stack'[t] = 1 .. Len(stack[t]) + 1
        /\ Len(stack[t]) \in Nat
        /\ \A k \in 1 .. Len(stack[t]) : stack'[t][k] = stack[t][k]
        /\ \A u \in Thread : u # t => stack'[u] = stack[u]
    BY <2>1, <1>1, PushedFrames DEF LockInv
  <2>5. /\ \A j \in Instance : queue'[j] \in Seq(Caller) /\ Once(queue'[j])
        /\ \A j \in Instance : \A d : Has(queue'[j], d) => Has(queue[j], d) \/ (d = c /\ j = i)
        /\ \A j \in Instance : \A d : Leads(queue[j], d) => Leads(queue'[j], d)
        /\ queue' = [j \in Instance |-> queue'[j]]
    <3>1. CASE status[f] = "new"
      <4>1. /\ queue'[i] = Append(queue[i], c)
            /\ \A j \in Instance : j # i => queue'[j] = queue[j]
            /\ queue' = [j \in Instance |-> queue'[j]]
        BY <3>1, <2>1, <2>2, <1>1
      <4>2. ~Has(queue[i], c)
        BY <3>1, <1>1 DEF LockInv, QueuesHoldCallers
      <4>3. /\ queue'[i] \in Seq(Caller) /\ Once(queue'[i])
            /\ \A d : Has(queue'[i], d) => Has(queue[i], d) \/ d = c
            /\ \A d : Leads(queue[i], d) => Leads(queue'[i], d)
        BY <4>1, <4>2, <2>2, <1>1, Appended
      <4> HIDE DEF i, c
      <4>4. QED
        BY <4>1, <4>3, <2>2
    <3>2. CASE status[f] # "new"
      <4>1. queue' = queue
        BY <3>2, <2>1
      <4>2. QED
        BY <4>1, <2>2
    <3>3. QED
      BY <3>1, <3>2
  <2> HIDE DEF i, c
  <2>6. LockTypes'
    <3>1. queue' \in [Instance -> Seq(Caller)]
      BY <2>5, MapsInto
    <3>2. status' \in [Task -> {"new", "begun", "done"}]
      BY <2>1, <2>2
    <3>3. QED
      BY <3>1, <3>2 DEF LockTypes
  <2>7. stack[t] = <<>> \/ Inside(t)
    BY <1>1 DEF MayCall
  <2>8. FramesAreCallers' /\ OneFrameEach' /\ OuterCallsOwn' /\ OwnersStay
    <3>1. \E g \in Task : c = Async(g) /\ Target[g] = i /\ ~Polled(g)
      BY <1>1 DEF c, i
    <3>2. \A j \in Instance, d \in Caller : Leads(queue[j], d) => Leads(queue'[j], d)
      BY <2>5
    <3>3. QED
      BY <3>1, <3>2, <2>1, <2>7, <1>1, PushKeepsFrames
  <2>9. QueuesHoldCallers'
    <3>1. \A u \in Thread : \A k : Sync(u, k) # c
      BY CallersDiffer DEF c
    <3>2. ASSUME NEW j \in Instance, NEW u \in Thread, NEW k \in Nat,
                 Has(queue'[j], Sync(u, k))
          PROVE  /\ k \in DOMAIN stack'[u]
                 /\ stack'[u][k].caller = Sync(u, k)
                 /\ stack'[u][k].id = j
      <4>1. Has(queue[j], Sync(u, k))
        BY <3>1, <3>2, <2>5
      <4>2. k \in DOMAIN stack[u] /\ stack[u][k].caller = Sync(u, k) /\ stack[u][k].id = j
        BY <4>1 DEF LockInv, QueuesHoldCallers
      <4>3. k \in DOMAIN stack'[u] /\ stack'[u][k] = stack[u][k]
        BY <4>2, <2>4
      <4>4. QED
        BY <4>2, <4>3
    <3>3. ASSUME NEW j \in Instance, NEW g \in Task, Has(queue'[j], Async(g))
          PROVE  Target[g] = j /\ status'[g] = "begun"
      <4>1. CASE g = f
        <5>1. Has(queue[j], Async(f)) \/ j = i
          BY <3>3, <4>1, <2>5
        <5>2. QED
          BY <5>1, <4>1, <2>1, <2>2 DEF LockInv, QueuesHoldCallers, i
      <4>2. CASE g # f
        <5>1. Async(g) # c
          BY <4>2, CallersDiffer DEF c
        <5>2. Has(queue[j], Async(g)) /\ status'[g] = status[g]
          BY <3>3, <5>1, <4>2, <2>1, <2>2, <2>5
        <5>3. QED
          BY <5>2 DEF LockInv, QueuesHoldCallers
      <4>3. QED
        BY <4>1, <4>2
    <3>4. QED
      BY <3>2, <3>3, <2>5 DEF QueuesHoldCallers
  <2>10. QED
    BY <2>3, <2>6, <2>8, <2>9 DEF LockInv
<1>4. QED
  BY <1>2, <1>3

\* A poll that ends pending takes its frame away and leaves the queues.
LEMMA PendingKeepsLocks ==
    ASSUME LockInv, NEW t \in Thread, PollPending(t)
    PROVE  LockInv' /\ OwnersStay
<1> DEFINE n == Len(stack[t])
<1>1. stack[t] # <<>> /\ Pop(t) /\ queue' = queue /\ status' = status
      /\ \E f \in Task : Top(t).caller = Async(f)
  BY DEF PollPending
<1>2. GuardInv'
  BY <1>1, PopKeeps DEF LockInv
<1>3. FramesAreCallers' /\ OneFrameEach' /\ OuterCallsOwn' /\ OwnersStay
  BY <1>1, PopKeepsFrames
<1>4. LockTypes'
  BY <1>1 DEF LockInv, LockTypes
<1>5. /\ n \in Nat \ {0}
      /\ DOMAIN stack[t] = 1 .. n
      /\ DOMAIN stack'[t] = 1 .. n - 1
      /\ \A k \in 1 .. n - 1 : stack'[t][k] = stack[t][k]
      /\ \A u \in Thread : u # t => stack'[u] = stack[u]
  BY <1>1, PoppedFrames DEF LockInv
<1>6. \A u \in Thread : \A k : Sync(u, k) # stack[t][n].caller
  BY <1>1, CallersDiffer DEF Top, Depth
<1> HIDE DEF n
<1>7. ASSUME NEW j \in Instance, NEW u \in Thread, NEW k \in Nat,
             Has(queue[j], Sync(u, k))
      PROVE  /\ k \in DOMAIN stack'[u]
             /\ stack'[u][k].caller = Sync(u, k)
             /\ stack'[u][k].id = j
  <2>1. k \in DOMAIN stack[u] /\ stack[u][k].caller = Sync(u, k) /\ stack[u][k].id = j
    BY <1>7 DEF LockInv, QueuesHoldCallers
  <2>2. ~(u = t /\ k = n)
    BY <2>1, <1>6
  <2>3. k \in DOMAIN stack'[u] /\ stack'[u][k] = stack[u][k]
    BY <2>1, <2>2, <1>5
  <2>4. QED
    BY <2>1, <2>3
<1>8. QueuesHoldCallers'
  BY <1>1, <1>7 DEF LockInv, QueuesHoldCallers
<1>9. QED
  BY <1>2, <1>3, <1>4, <1>8 DEF LockInv

LEMMA LockInvInductive == LockInv /\ [Next]_vars => LockInv' /\ OwnersStay
<1> SUFFICES ASSUME LockInv, [Next]_vars PROVE LockInv' /\ OwnersStay
  OBVIOUS
<1>1. ASSUME NEW t \in Thread, NEW i \in Instance, Enter(t, i) PROVE LockInv' /\ OwnersStay
  BY <1>1, EnterKeepsLocks
<1>2. ASSUME NEW t \in Thread, NEW k \in 1 .. MaxDepth, Leave(t, k) PROVE LockInv' /\ OwnersStay
  <2>1. Inside(t) /\ Pop(t) /\ status' = status
        /\ queue' = [queue EXCEPT ![Top(t).id] = Tail(@)]
    BY <1>2 DEF Leave
  <2>2. QED
    BY <2>1, ReleaseKeepsLocks DEF LockInv, LockTypes
<1>3. ASSUME NEW t \in Thread, NEW f \in Task, Poll(t, f) PROVE LockInv' /\ OwnersStay
  BY <1>3, PollKeepsLocks
<1>4. ASSUME NEW t \in Thread, PollPending(t) PROVE LockInv' /\ OwnersStay
  BY <1>4, PendingKeepsLocks
<1>5. ASSUME NEW t \in Thread, NEW f \in Task, PollReady(t, f) PROVE LockInv' /\ OwnersStay
  <2>1. Inside(t) /\ Pop(t) /\ status' = [status EXCEPT ![f] = "done"]
        /\ queue' = [queue EXCEPT ![Top(t).id] = Tail(@)] /\ Top(t).caller = Async(f)
    BY <1>5 DEF PollReady
  <2>2. /\ status' \in [Task -> {"new", "begun", "done"}]
        /\ \A g \in Task : Async(g) # Top(t).caller => status'[g] = status[g]
    BY <2>1 DEF LockInv, LockTypes
  <2>3. QED
    BY <2>1, <2>2, ReleaseKeepsLocks
<1>6. ASSUME NEW f \in Task, Cancel(f) PROVE LockInv' /\ OwnersStay
  BY <1>6, WithdrawKeepsLocks DEF Cancel
<1>7. CASE UNCHANGED vars
  <2>1. GuardInv'
    BY <1>7, GuardInvInductive DEF LockInv
  <2>2. QED
    BY <2>1, <1>7 DEF vars, LockInv, LockTypes, FramesAreCallers, OneFrameEach,
                      QueuesHoldCallers, OuterCallsOwn, OwnersStay, Depth
<1>8. QED
  BY <1>1, <1>2, <1>3, <1>4, <1>5, <1>6, <1>7 DEF Next

LEMMA LockInvInit == Init => LockInv
<1> SUFFICES ASSUME Init PROVE LockInv
  OBVIOUS
<1>1. /\ \A t \in Thread : stack[t] = <<>> /\ DOMAIN stack[t] = {}
      /\ \A i \in Instance : queue[i] = <<>> /\ DOMAIN queue[i] = {}
      /\ LockTypes
  BY DEF Init, LockTypes
<1>2. QED
  BY <1>1, GuardInvInit DEF LockInv, FramesAreCallers, OneFrameEach, QueuesHoldCallers,
     OuterCallsOwn, Has, Once

-----------------------------------------------------------------------------
(* The interpreter's lock on top: a provider runs inside its call.            *)

Busy == {t \in Thread : stack[t] # <<>>}

\* Foreign code that runs inside a call is a provider: the call has its lock.
ProvidersAreInside ==
    \A t \in Thread : side[t] = "foreign" /\ stack[t] # <<>> => Inside(t)

LocksInv ==
    /\ LockInv /\ GilInv
    /\ discipline \in Disciplines
    /\ interp \in Thread \cup {Nobody}
    /\ ProvidersAreInside
    /\ IsFiniteSet(Busy)

LEMMA InsideIsLeading ==
    ASSUME GuardInv, NEW u \in Thread
    PROVE  Inside(u) <=>
             /\ stack[u] # <<>>
             /\ Leads(queue[stack[u][Len(stack[u])].id], stack[u][Len(stack[u])].caller)
BY OwnsIsLeads DEF Inside, Top, Depth

\* A thread a step leaves alone stays inside its call.
LEMMA StaysInside ==
    ASSUME LockInv, OwnersStay, GuardInv', NEW u \in Thread, stack'[u] = stack[u], Inside(u)
    PROVE  Inside(u)'
<1> DEFINE n == Len(stack[u])
<1>1. stack[u] # <<>> /\ stack[u] \in Seq(FrameSet)
  BY DEF Inside, LockInv, GuardInv, StackTypeOK
<1>2. n \in DOMAIN stack[u] /\ n \in DOMAIN stack'[u]
  BY <1>1, EmptySeq
<1>3. Leads(queue[stack[u][n].id], stack[u][n].caller)
  BY InsideIsLeading DEF LockInv
<1>4. Leads(queue'[stack'[u][n].id], stack'[u][n].caller)
  BY <1>2, <1>3 DEF OwnersStay
<1>5. QED
  BY <1>1, <1>4 DEF Inside, Owns, Leads, Top, Depth

\* A thread whose innermost call ends is inside the one around it.
LEMMA BackInside ==
    ASSUME LockInv, OwnersStay, NEW u \in Thread, stack[u] # <<>>, Pop(u), stack'[u] # <<>>
    PROVE  Inside(u)'
<1> DEFINE n == Len(stack'[u])
<1>1. /\ Len(stack[u]) \in Nat \ {0} /\ n = Len(stack[u]) - 1
      /\ DOMAIN stack[u] = 1 .. Len(stack[u]) /\ DOMAIN stack'[u] = 1 .. n
      /\ \A k \in 1 .. n : stack'[u][k] = stack[u][k]
  BY PoppedFrames DEF LockInv
<1>2. n # 0
  <2>1. GuardInv'
    BY PopKeeps DEF LockInv
  <2>2. stack'[u] \in Seq(FrameSet)
    BY <2>1 DEF GuardInv, StackTypeOK
  <2>3. QED
    BY <2>2, EmptySeq
<1>3. n \in DOMAIN stack[u] /\ n \in DOMAIN stack'[u] /\ n < Len(stack[u])
  BY <1>1, <1>2
<1>4. Leads(queue[stack[u][n].id], stack[u][n].caller)
  BY <1>3 DEF LockInv, OuterCallsOwn, Depth
<1>5. Leads(queue'[stack'[u][n].id], stack'[u][n].caller)
  BY <1>3, <1>4 DEF OwnersStay
<1>6. QED
  BY <1>5 DEF Inside, Owns, Leads, Top, Depth

-----------------------------------------------------------------------------

\* Only t moves in a step.
Moves(t) == \A u \in Thread : u # t => stack'[u] = stack[u] /\ side'[u] = side[u]

\* It is enough to look at the thread that moves.
LEMMA OthersStayInside ==
    ASSUME LockInv, OwnersStay, GuardInv', ProvidersAreInside, NEW t \in Thread, Moves(t),
           side'[t] = "foreign" /\ stack'[t] # <<>> => Inside(t)'
    PROVE  ProvidersAreInside'
<1> SUFFICES ASSUME NEW u \in Thread, u # t, side'[u] = "foreign", stack'[u] # <<>>
             PROVE  Inside(u)'
  BY DEF ProvidersAreInside
<1>1. stack'[u] = stack[u] /\ side'[u] = side[u]
  BY DEF Moves
<1>2. Inside(u)
  BY <1>1 DEF ProvidersAreInside
<1>3. QED
  BY <1>1, <1>2, StaysInside

LEMMA PushMovesOne ==
    ASSUME LockInv, NEW t \in Thread, NEW i \in Instance, NEW c, Push(t, i, c)
    PROVE  \A u \in Thread : u # t => stack'[u] = stack[u]
BY DEF LockInv, GuardInv, StackTypeOK, Push

LEMMA PopMovesOne ==
    ASSUME LockInv, NEW t \in Thread, Pop(t)
    PROVE  \A u \in Thread : u # t => stack'[u] = stack[u]
BY DEF LockInv, GuardInv, StackTypeOK, Pop

LEMMA CrossMovesOne ==
    ASSUME GilInv, NEW t \in Thread, NEW to, Crosses(t, to)
    PROVE  side'[t] = to /\ \A u \in Thread : u # t => side'[u] = side[u]
BY DEF GilInv, Crosses

LEMMA ProvidersStayInside ==
    ASSUME LockInv, LockInv', OwnersStay, GilInv, ProvidersAreInside, BNext
    PROVE  ProvidersAreInside'
<1>0. GuardInv /\ GuardInv'
  BY DEF LockInv
<1>1. ASSUME NEW t \in Thread, Resume(t) \/ Yield(t) PROVE ProvidersAreInside'
  <2>1. UNCHANGED <<vars, side>>
    BY <1>1 DEF Resume, Yield
  <2>2. QED
    BY <2>1 DEF vars, ProvidersAreInside, Inside, Owns, Top, Depth
<1>2. ASSUME NEW t \in Thread, InvokeBare(t) \/ InvokeAttaching(t) \/ InvokeHolding(t)
      PROVE  ProvidersAreInside'
  <2>1. Inside(t) /\ Crosses(t, "foreign") /\ UNCHANGED vars
    BY <1>2 DEF InvokeBare, InvokeAttaching, InvokeHolding
  <2>2. stack' = stack /\ Moves(t)
    BY <2>1, CrossMovesOne DEF vars, Moves
  <2>3. Inside(t)'
    BY <2>1, <2>2, <1>0, StaysInside
  <2>4. QED
    BY <2>2, <2>3, <1>0, OthersStayInside
<1>3. ASSUME NEW t \in Thread, NEW k \in 1 .. MaxDepth, Answer(t, k)
      PROVE  ProvidersAreInside'
  <2>1. Crosses(t, "answered") /\ UNCHANGED vars
    BY <1>3 DEF Answer
  <2>2. stack' = stack /\ Moves(t) /\ side'[t] = "answered"
    BY <2>1, CrossMovesOne DEF vars, Moves
  <2>3. QED
    BY <2>2, <1>0, OthersStayInside
<1>4. ASSUME NEW t \in Thread, NEW i \in Instance,
             \/ EnterUniffi(t, i) \/ EnterC(t, i) \/ EnterBorrowed(t, i)
             \/ EnterHolding(t, i) \/ EnterDetached(t, i)
      PROVE  ProvidersAreInside'
  <2>1. Crosses(t, "native") /\ Enter(t, i)
    BY <1>4 DEF EnterUniffi, EnterC, EnterBorrowed, EnterHolding, EnterDetached
  <2>2. Moves(t) /\ side'[t] = "native"
    BY <2>1, CrossMovesOne, PushMovesOne DEF Moves, Enter
  <2>3. QED
    BY <2>2, <1>0, OthersStayInside
<1>5. ASSUME NEW t \in Thread,
             \/ \E k \in 1 .. MaxDepth : LeaveNative(t, k)
             \/ PendingTo(t)
             \/ \E f \in Task : ReadyTo(t, f)
      PROVE  ProvidersAreInside'
  <2>1. Crosses(t, "foreign") /\ stack[t] # <<>> /\ Pop(t)
    BY <1>5 DEF LeaveNative, PendingTo, ReadyTo, Leave, PollPending, PollReady, Inside
  <2>2. Moves(t)
    BY <2>1, CrossMovesOne, PopMovesOne DEF Moves
  <2>3. stack'[t] # <<>> => Inside(t)'
    BY <2>1, BackInside
  <2>4. QED
    BY <2>2, <2>3, <1>0, OthersStayInside
<1>6. ASSUME NEW t \in Thread, NEW f \in Task, PollFrom(t, f) PROVE ProvidersAreInside'
  <2>1. /\ Poll(t, f)
        /\ Crosses(t, IF stack'[t] = stack[t] THEN side[t] ELSE "native")
    BY <1>6 DEF PollFrom
  <2>2. \A u \in Thread : u # t => stack'[u] = stack[u]
    BY <2>1, TaskAssumption, PushMovesOne DEF Poll
  <2>3. Moves(t) /\ side'[t] = IF stack'[t] = stack[t] THEN side[t] ELSE "native"
    BY <2>1, <2>2, CrossMovesOne DEF Moves
  <2>4. ASSUME side'[t] = "foreign", stack'[t] # <<>> PROVE Inside(t)'
    <3>1. stack'[t] = stack[t] /\ side[t] = "foreign"
      BY <2>3, <2>4
    <3>2. Inside(t)
      BY <3>1, <2>4 DEF ProvidersAreInside
    <3>3. QED
      BY <3>1, <3>2, <1>0, StaysInside
  <2>5. QED
    BY <2>3, <2>4, <1>0, OthersStayInside
<1>7. ASSUME NEW f \in Task, CancelFrom(f) PROVE ProvidersAreInside'
  <2>1. stack' = stack /\ side' = side
    BY <1>7 DEF CancelFrom, Cancel
  <2> SUFFICES ASSUME NEW u \in Thread, side[u] = "foreign", stack[u] # <<>>
               PROVE  Inside(u)'
    BY <2>1 DEF ProvidersAreInside
  <2>2. Inside(u)
    BY DEF ProvidersAreInside
  <2>3. QED
    BY <2>1, <2>2, <1>0, StaysInside
<1>8. QED
  BY <1>1, <1>2, <1>3, <1>4, <1>5, <1>6, <1>7 DEF BNext

\* Finitely many threads are inside a call at any time.
LEMMA BusyStaysFinite ==
    ASSUME LockInv, IsFiniteSet(Busy), [Next]_vars
    PROVE  IsFiniteSet(Busy')
<1>1. \E t : Busy' \subseteq Busy \cup {t}
  <2>1. ASSUME NEW t \in Thread, \A u \in Thread : u # t => stack'[u] = stack[u]
        PROVE  \E v : Busy' \subseteq Busy \cup {v}
    <3>1. Busy' \subseteq Busy \cup {t}
      BY <2>1 DEF Busy
    <3>2. QED
      BY <3>1
  <2>2. ASSUME UNCHANGED stack PROVE \E v : Busy' \subseteq Busy \cup {v}
    BY <2>2 DEF Busy
  <2>3. ASSUME NEW t \in Thread, NEW i \in Instance, Enter(t, i)
        PROVE  \E v : Busy' \subseteq Busy \cup {v}
    BY <2>1, <2>3, PushMovesOne DEF Enter
  <2>4. ASSUME NEW t \in Thread, NEW f \in Task, Poll(t, f)
        PROVE  \E v : Busy' \subseteq Busy \cup {v}
    <3>1. \A u \in Thread : u # t => stack'[u] = stack[u]
      BY <2>4, TaskAssumption, PushMovesOne DEF Poll
    <3>2. QED
      BY <2>1, <3>1
  <2>5. ASSUME NEW t \in Thread, Pop(t) PROVE \E v : Busy' \subseteq Busy \cup {v}
    BY <2>1, <2>5, PopMovesOne
  <2>6. QED
    BY <2>2, <2>3, <2>4, <2>5 DEF Next, Leave, PollPending, PollReady, Cancel, vars
<1>2. QED
  BY <1>1, FS_AddElement, FS_Subset

LEMMA LocksInvInductive == LocksInv /\ [BNext]_bvars => LocksInv'
<1> SUFFICES ASSUME LocksInv, [BNext]_bvars PROVE LocksInv'
  OBVIOUS
<1>1. [Next]_vars
  BY StepsAreGuarded DEF bvars
<1>2. LockInv' /\ OwnersStay
  BY <1>1, LockInvInductive DEF LocksInv
<1>4. GilInv'
  BY GilInvInductive DEF LocksInv
<1>5. IsFiniteSet(Busy')
  BY <1>1, BusyStaysFinite DEF LocksInv
<1>6. CASE UNCHANGED bvars
  BY <1>2, <1>4, <1>5, <1>6
     DEF LocksInv, bvars, vars, ProvidersAreInside, Inside, Owns, Top, Depth
<1>7. CASE BNext
  <2>1. ProvidersAreInside'
    BY <1>2, <1>7, ProvidersStayInside DEF LocksInv
  <2>3. discipline' = discipline /\ interp' \in Thread \cup {Nobody}
    BY <1>7 DEF LocksInv, BNext, Resume, Yield, InvokeBare, InvokeAttaching, InvokeHolding,
       Answer, EnterDetached, EnterHolding, EnterUniffi, EnterC, EnterBorrowed, LeaveNative,
       PendingTo, ReadyTo, PollFrom, CancelFrom
  <2>4. QED
    BY <1>2, <1>4, <1>5, <2>1, <2>3 DEF LocksInv
<1>8. QED
  BY <1>6, <1>7

LEMMA LocksInvInit == BInit => LocksInv
<1> SUFFICES ASSUME BInit PROVE LocksInv
  OBVIOUS
<1>1. /\ Init /\ discipline \in Disciplines /\ interp = Nobody
      /\ side = [t \in Thread |-> "foreign"]
      /\ \A t \in Thread : stack[t] = <<>>
  BY DEF BInit, Init
<1>2. LockInv /\ GuardInv
  BY <1>1, LockInvInit, GuardInvInit
<1>4. GilInv
  BY <1>1 DEF GilInv, HostRunsWithoutGil
<1>5. Busy = {}
  BY <1>1 DEF Busy
<1>6. QED
  BY <1>1, <1>2, <1>4, <1>5, FS_EmptySet DEF LocksInv, ProvidersAreInside

-----------------------------------------------------------------------------
(* What a circle takes.  Rank the instances in any order: if the calls of     *)
(* each thread in the circle rise in it, and Ruby's GVL is where its call is,  *)
(* who holds the interpreter's lock waits for nothing, and of threads that     *)
(* wait for one another's registries one is in the highest.                   *)

\* A thread's calls nest in the order of the ranks.
Rising(rank, s) == \A j, k \in DOMAIN s : j < k => rank[s[j].id] < rank[s[k].id]

\* A thread is inside a call of Ruby, but the VM has taken the GVL from it.
GvlTakenAway == discipline = "ruby" /\ \E t \in Thread : stack[t] # <<>> /\ interp # t

\* Threads that wait in a circle, the one thread that waits for itself included.
Circle(W) == W # {} /\ \A t \in W : \E u \in W : BlockedBy(t, u)

\* However the instances are ranked, one of the threads in a circle nests its calls
\* against the ranks, or the VM has switched away from a call of Ruby.
CircleHasItsCause ==
    \A W \in SUBSET Thread : Circle(W) =>
      \/ GvlTakenAway
      \/ \A rank \in [Instance -> Nat] : \E t \in W : ~Rising(rank, stack[t])

\* Of finitely many threads, one has the greatest number.
LEMMA OneIsGreatest ==
    ASSUME NEW W, IsFiniteSet(W), W # {}, NEW h, \A t \in W : h[t] \in Nat
    PROVE  \E t \in W : \A u \in W : h[u] =< h[t]
<1> DEFINE HasGreatest(A) == \E t \in A : \A u \in A : h[u] =< h[t]
           Bad == {A \in SUBSET W : A # {} /\ ~HasGreatest(A)}
<1>1. SUFFICES ASSUME ~HasGreatest(W) PROVE FALSE
  OBVIOUS
<1>2. Bad \subseteq SUBSET W /\ Bad # {}
  BY <1>1
<1>3. IsWellFoundedOn(StrictSubsetOrdering(W), SUBSET W)
  BY FS_StrictSubsetOrderingWellFounded, FS_FiniteSubsetsOfFinite
<1>4. PICK A \in Bad : \A B \in Bad : ~(<<B, A>> \in StrictSubsetOrdering(W))
  <2> HIDE DEF Bad
  <2>1. QED
    BY <1>2, <1>3, WFMin
<1>5. PICK t \in A : TRUE
  OBVIOUS
<1>6. CASE A \ {t} = {}
  <2>1. h[t] =< h[t] /\ \A u \in A : u = t
    BY <1>5, <1>6
  <2>2. QED
    BY <2>1, <1>5
<1>7. CASE A \ {t} # {}
  <2>1. <<A \ {t}, A>> \in StrictSubsetOrdering(W)
    BY <1>5 DEF StrictSubsetOrdering
  <2>2. HasGreatest(A \ {t})
    BY <1>4, <1>7, <2>1
  <2>3. PICK m \in A \ {t} : \A u \in A \ {t} : h[u] =< h[m]
    BY <2>2
  <2>4. \A u \in A : h[u] \in Nat
    BY <1>4
  <2>5. CASE h[t] =< h[m]
    BY <2>3, <2>5
  <2>6. CASE ~(h[t] =< h[m])
    <3>1. \A u \in A : h[u] =< h[t]
      BY <2>3, <2>4, <2>6, <1>5
    <3>2. QED
      BY <3>1, <1>5
  <2>7. QED
    BY <2>5, <2>6
<1>8. QED
  BY <1>6, <1>7

\* The call of u that t waits for is of the instance t wants.
LEMMA WaitedForIsThere ==
    ASSUME LockInv, NEW t \in Thread, NEW u \in Thread, WaitsFor(t, u)
    PROVE  \E k \in DOMAIN stack[u] :
             Owns(stack[u][k].caller, Top(t).id) /\ stack[u][k].id = Top(t).id
<1>1. PICK k \in DOMAIN stack[u] : Owns(stack[u][k].caller, Top(t).id)
  BY DEF WaitsFor
<1>2. Top(t).id \in Instance
  <2>1. stack[t] # <<>> /\ stack[t] \in Seq(FrameSet)
    BY DEF WaitsFor, Waiting, LockInv, GuardInv, StackTypeOK
  <2>2. Len(stack[t]) \in DOMAIN stack[t]
    BY <2>1, EmptySeq
  <2>3. QED
    BY <2>2, FramesAreTyped DEF LockInv, Top, Depth
<1>3. Has(queue[Top(t).id], stack[u][k].caller)
  <2>1. queue[Top(t).id] \in Seq(Caller)
    BY <1>2 DEF LockInv, LockTypes
  <2>2. QED
    BY <1>1, <2>1, LeaderIsIn, OwnsIsLeads
<1>4. QED
  BY <1>1, <1>2, <1>3, OwnedIsInside

\* A thread that waits for a registry is not the one that has it, and one that
\* waits as well is in a higher one.
LEMMA WaitsForLater ==
    ASSUME LockInv, NEW t \in Thread, NEW u \in Thread, WaitsFor(t, u), Waiting(u),
           NEW rank, Rising(rank, stack[u])
    PROVE  rank[Top(t).id] < rank[Top(u).id]
<1>1. PICK k \in DOMAIN stack[u] :
        Owns(stack[u][k].caller, Top(t).id) /\ stack[u][k].id = Top(t).id
  BY WaitedForIsThere
<1>2. stack[u] # <<>> /\ stack[u] \in Seq(FrameSet) /\ ~Inside(u)
  BY DEF Waiting, LockInv, GuardInv, StackTypeOK
<1>3. k \in 1 .. Len(stack[u]) /\ Len(stack[u]) \in 1 .. Len(stack[u])
      /\ Len(stack[u]) \in Nat
  BY <1>2, EmptySeq
<1>4. k # Len(stack[u])
  BY <1>1, <1>2 DEF Inside, Top, Depth
<1>5. QED
  BY <1>1, <1>3, <1>4 DEF Rising, Top, Depth

\* The instance a thread waits for has a rank.
LEMMA RanksAreNumbers ==
    ASSUME LockInv, NEW t \in Thread, stack[t] # <<>>, NEW rank \in [Instance -> Nat]
    PROVE  rank[Top(t).id] \in Nat
<1>1. stack[t] \in Seq(FrameSet)
  BY DEF LockInv, GuardInv, StackTypeOK
<1>2. Len(stack[t]) \in DOMAIN stack[t]
  BY <1>1, EmptySeq
<1>3. QED
  BY <1>2, FramesAreTyped DEF LockInv, Top, Depth

\* The thread that holds the interpreter's lock waits for nobody.
LEMMA HolderIsFree ==
    ASSUME LocksInv, ~GvlTakenAway, Interpreted, NEW u \in Thread, interp = u, NEW v \in Thread,
           NEW rank \in [Instance -> Nat], Rising(rank, stack[u])
    PROVE  ~BlockedBy(u, v)
<1>1. ~(Interpreted /\ side[u] = "foreign" /\ v # u /\ interp = v)
  OBVIOUS
<1>2. ASSUME WaitsFor(u, v) PROVE FALSE
  <2>1. Waiting(u) /\ stack[u] # <<>> /\ ~Inside(u)
    BY <1>2 DEF WaitsFor, Waiting
  <2>2. CASE discipline = "python"
    <3>1. side[u] = "foreign"
      BY <2>2 DEF LocksInv, GilInv, HostRunsWithoutGil
    <3>2. QED
      BY <3>1, <2>1 DEF LocksInv, ProvidersAreInside
  <2>3. CASE discipline = "ruby"
    <3>1. PICK k \in DOMAIN stack[v] : TRUE
      BY <1>2 DEF WaitsFor
    <3>2. stack[v] # <<>>
      BY <3>1
    <3>3. u = v
      BY <3>2, <2>3 DEF GvlTakenAway
    <3>4. rank[Top(u).id] < rank[Top(u).id]
      BY <1>2, <2>1, <3>3, WaitsForLater DEF LocksInv
    <3>5. rank[Top(u).id] \in Nat
      BY <2>1, RanksAreNumbers DEF LocksInv
    <3>6. QED
      BY <3>4, <3>5
  <2>4. QED
    BY <2>2, <2>3 DEF Interpreted
<1>3. QED
  BY <1>1, <1>2 DEF BlockedBy

LEMMA CauseOfCircle == LocksInv => CircleHasItsCause
<1> SUFFICES ASSUME LocksInv, NEW W \in SUBSET Thread, Circle(W), ~GvlTakenAway,
                    NEW rank \in [Instance -> Nat], \A t \in W : Rising(rank, stack[t])
             PROVE  FALSE
  BY DEF CircleHasItsCause
<1>1. \A t \in W : \E u \in W : WaitsFor(t, u)
  <2> SUFFICES ASSUME NEW t \in W, NEW u \in W,
                      Interpreted, interp = u
               PROVE  FALSE
    BY DEF BlockedBy, Circle
  <2>1. QED
    BY HolderIsFree DEF Circle
<1>2. \A t \in W : Waiting(t) /\ stack[t] # <<>>
  BY <1>1 DEF WaitsFor, Waiting
<1>3. IsFiniteSet(W)
  <2>1. W \in SUBSET Busy
    BY <1>2 DEF Busy
  <2>2. QED
    BY <2>1, FS_Subset DEF LocksInv
<1> DEFINE h == [t \in W |-> rank[Top(t).id]]
<1>5. \A t \in W : h[t] = rank[Top(t).id] /\ h[t] \in Nat
  BY <1>2, RanksAreNumbers DEF LocksInv
<1> HIDE DEF h
<1>6. PICK t \in W : \A u \in W : h[u] =< h[t]
  BY <1>3, <1>5, OneIsGreatest DEF Circle
<1>7. PICK u \in W : WaitsFor(t, u)
  BY <1>1
<1>8. h[t] < h[u]
  BY <1>2, <1>5, <1>7, WaitsForLater DEF LocksInv
<1>9. h[u] =< h[t] /\ h[u] \in Nat /\ h[t] \in Nat
  BY <1>5, <1>6
<1>10. QED
  BY <1>8, <1>9

(* What it takes for threads to wait in a circle for the registries' locks and *)
(* the interpreter's (host.rs, guard.rs and the bindings), for any threads,    *)
(* instances, futures, languages and calls of providers: whatever order one    *)
(* gives the instances, a thread of the circle nests its calls against it (A   *)
(* calls B calls A, or one thread A and B, another B and A), or a Ruby VM has  *)
(* switched away from a provider.  Nothing else leads there, neither a future  *)
(* dropped half way nor Python's GIL.                                          *)
THEOREM CirclesHaveCauses == BSpec => []CircleHasItsCause
BY LocksInvInit, LocksInvInductive, CauseOfCircle, PTL DEF BSpec
=============================================================================
