---------------------------- MODULE RemoteProofs ----------------------------
(***************************************************************************)
(* The requests of a remote registry run in order, each once, and a caller *)
(* is answered with what its own request produced: for any number of calls *)
(* and callbacks and every world, and as an implementation of RemoteCalls. *)
(***************************************************************************)
EXTENDS Remote, SequenceTheorems, TLAPS

-----------------------------------------------------------------------------
(* The inductive invariant.  A request goes from stdin, perhaps through the *)
(* queue, to the plugins; `line` is what it is called on its way.           *)

Requests == [kind : {"request"}, id : Nat, op : Operation]

\* The requests of a line, in the order they were made.
InOrder(line) ==
  \A i, j \in 1..Len(line) :
    i < j /\ line[i].kind = "request" /\ line[j].kind = "request" => line[i].id < line[j].id

\* Every request of a line is one of the numbers below next, and after all that ran.
Between(line, ran, next) ==
  \A i \in 1..Len(line) :
    line[i].kind = "request" => /\ line[i].id \in Call /\ line[i].id < next
                                /\ \A k \in 1..Len(ran) : ran[k] < line[i].id

\* What is queued was made before what is still in the pipe.
QueuedFirst ==
  \A i \in 1..Len(queued), j \in 1..Len(stdin) :
    stdin[j].kind = "request" => queued[i].id < stdin[j].id

\* Every reply under way is that of a request that ran, to that request.
Truthful(line, ran) ==
  \A i \in 1..Len(line) :
    line[i].kind = "response"
      => line[i].of = line[i].id /\ \E k \in 1..Len(ran) : ran[k] = line[i].id

Lines == /\ ServedInOrder
         /\ InOrder(queued) /\ InOrder(stdin) /\ QueuedFirst
         /\ Between(queued, served, nextId) /\ Between(stdin, served, nextId)
         /\ \A k \in 1..Len(served) : served[k] \in Call /\ served[k] < nextId

Replies == /\ Truthful(stdout, served)
           /\ Truthful(incoming, served)
           /\ host.request # NoRequest => host.request.id \in Ran

\* The numbers used up are those below nextId; an answer is that of the call's own run.
Results == /\ \A c \in Call : result[c] = "none" <=> ~(c < nextId)
           /\ \A c \in Call : result[c] = "answered" => answer[c] = c /\ c \in Ran
           /\ InCall => client.id \in Call /\ result[client.id] = "open"

RemoteInv == TypeOK /\ Lines /\ Replies /\ Results

-----------------------------------------------------------------------------
(* Types.  What goes through the pipes is kept abstract: frames, and the     *)
(* marks of a broken line and of its end.                                    *)

FromHost == Frames \union {Garbage}
ToClient == Frames \union {Garbage, EndOfStream}

LEMMA FramesAreTyped ==
  /\ \A id \in Nat, op \in Operation : RequestFrame(id, op) \in Frames \intersect Requests
  /\ \A id, of \in Nat : ResponseFrame(id, of) \in Frames
  /\ NoRequest \in Requests
  /\ Frames \subseteq FromHost /\ FromHost \subseteq ToClient
  /\ Garbage \in FromHost /\ EndOfStream \in ToClient
  /\ \A frame \in Frames : frame.id \in Nat /\ (frame.kind = "request" => frame \in Requests)
  /\ \A frame \in ToClient : frame.kind = "response" => frame.id \in Nat /\ frame.of \in Nat
  /\ \A frame \in ToClient : frame.kind = "request" => frame.id \in Nat
  /\ \A frame \in FromHost : frame.kind = "request" => frame \in Requests
  /\ Garbage.kind # "request" /\ Garbage.kind # "response"
  /\ \A frame \in Requests : frame.kind = "request" /\ frame.id \in Nat /\ frame.op \in Operation
BY DEF RequestFrame, ResponseFrame, Frames, Requests, NoRequest, Operation, FromHost, ToClient,
   Garbage, EndOfStream

ClientTypes ==
  client \in [pc : {"idle", "writing", "waiting", "reaping", "leaving", "closed", "dead"},
              id : Nat, op : Operation \union {"deep"}]

HostTypes == host \in [pc : {"reading", "running", "awaiting", "hung"},
                       request : Requests, callback : Nat]

\* The types, part by part: those of what the client's steps change, and the others.
ClientParts ==
  /\ ClientTypes
  /\ nextId \in 1..(MaxCalls + 1)
  /\ result \in [Call -> {"none", "open", "answered", "transport", "gone", "timeout"}]
  /\ answer \in [Call -> Nat]
  /\ stdin \in Seq(FromHost) /\ incoming \in Seq(ToClient)
  /\ reader \in {"on", "off"} /\ proc \in {"up", "closed", "gone"}

OtherParts ==
  /\ world \in Worlds /\ HostTypes
  /\ stdout \in Seq(FromHost) /\ queued \in Seq(Requests)
  /\ nextCallback \in 1..(MaxCallbacks + 1)
  /\ served \in Seq(Nat)
  /\ spent \subseteq {"print", "stray"}

LEMMA TypesInParts ==
  /\ TypeOK <=> ClientParts /\ OtherParts
  /\ TypeOK' <=> ClientParts' /\ OtherParts'
BY DEF TypeOK, ClientParts, OtherParts, ClientTypes, HostTypes, FromHost, ToClient, Requests

\* A frame put on a line is its last.
LEMMA PutOn ==
  ASSUME NEW S, NEW line \in Seq(S), NEW frame \in S
  PROVE  LET longer == Append(line, frame)
         IN  /\ longer \in Seq(S) /\ Len(longer) = Len(line) + 1 /\ Len(line) \in Nat
             /\ \A i \in 1..Len(line) : longer[i] = line[i]
             /\ longer[Len(line) + 1] = frame
BY AppendProperties

\* A frame taken off a line was its first, and the others come one place nearer.
LEMMA TakenOff ==
  ASSUME NEW S, NEW line \in Seq(S), line # <<>>
  PROVE  /\ Tail(line) \in Seq(S) /\ Len(Tail(line)) = Len(line) - 1
         /\ Len(line) \in Nat \ {0}
         /\ Head(line) = line[1] /\ Head(line) \in S
         /\ \A i \in 1..(Len(line) - 1) : Tail(line)[i] = line[i + 1]
BY HeadTailProperties

LEMMA RemoteTypesStart == Init => TypeOK
<1> USE WorldAssumption, BoundAssumption, FramesAreTyped, EmptySeq
<1>1. SUFFICES ASSUME Init PROVE TypeOK
  OBVIOUS
<1>2. ClientTypes /\ HostTypes
  BY <1>1 DEF Init, ClientTypes, HostTypes, Idle, Operation
<1>3. ClientParts
  BY <1>1, <1>2 DEF Init, ClientParts, Call
<1>4. OtherParts
  BY <1>1, <1>2 DEF Init, OtherParts
<1>5. QED
  BY <1>3, <1>4, TypesInParts

LEMMA IdleIsTyped ==
  \A pc \in {"idle", "leaving", "closed", "dead"} :
    /\ [Idle EXCEPT !.pc = pc].pc = pc
    /\ [Idle EXCEPT !.pc = pc]
          \in [pc : {"idle", "writing", "waiting", "reaping", "leaving", "closed", "dead"},
              id : Nat, op : Operation \union {"deep"}]
BY DEF Idle, Operation

\* A call ends with a result, and the client is in none.
LEMMA ReturnsTyped ==
  ASSUME ClientParts, NEW id \in Call, NEW op,
         NEW how \in {"answered", "transport", "gone", "timeout"}, Returns(id, op, how)
  PROVE  /\ ClientTypes' /\ ~InCall'
         /\ result' = [result EXCEPT ![id] = how]
         /\ result' \in [Call -> {"none", "open", "answered", "transport", "gone", "timeout"}]
<1>1. /\ client' \in {Idle, [Idle EXCEPT !.pc = "leaving"]}
      /\ result' = [result EXCEPT ![id] = how]
  BY DEF Returns
<1>2. ClientTypes'
  BY <1>1, IdleIsTyped DEF ClientTypes, Idle, Operation
<1>3. ~InCall'
  BY <1>1, IdleIsTyped DEF InCall, Idle
<1>4. QED
  BY <1>1, <1>2, <1>3 DEF ClientParts

\* The frame of a request, and that of an answer: the message, or none.
RequestOn(op, size) ==
  IF size = "deep request" THEN Garbage ELSE RequestFrame(nextId, op)

AnswerOn(size) ==
  IF size = "deep answer" THEN Garbage ELSE ResponseFrame(Head(incoming).id, Head(incoming).id)

LEMMA DiagnosisIsError == Diagnosis \in {"transport", "gone"}
BY DEF Diagnosis

\* A new request.
LEMMA RequestTyped ==
  ASSUME ClientParts, NEW op \in Operation, NEW size, Request(op, size)
  PROVE  ClientParts'
<1>1a. /\ nextId \in Call /\ nextId' = nextId + 1
       /\ UNCHANGED <<answer, incoming, reader, proc>>
  BY DEF Request
<1>1. /\ nextId \in Call /\ nextId \in Nat /\ nextId' \in 1..(MaxCalls + 1)
      /\ UNCHANGED <<answer, incoming, reader, proc>>
  BY <1>1a, BoundAssumption DEF Call
<1>2. CASE size = "long request" \/ proc # "up"
  <2>1. Returns(nextId, op, Diagnosis) /\ UNCHANGED stdin
    BY <1>2 DEF Request
  <2>2. QED
    BY <1>1, <2>1, ReturnsTyped, DiagnosisIsError DEF ClientParts
<1>3. CASE ~(size = "long request" \/ proc # "up")
  <2>1. /\ stdin' = Append(stdin, RequestOn(op, size))
        /\ client' = [pc |-> IF size = "bulk" THEN "writing" ELSE "waiting",
                      id |-> nextId, op |-> IF size = "deep request" THEN "deep" ELSE op]
        /\ result' = [result EXCEPT ![nextId] = "open"]
    BY <1>3 DEF Request, RequestOn
  <2>2. RequestOn(op, size) \in FromHost
    BY <1>1, FramesAreTyped DEF RequestOn
  <2>3. stdin' \in Seq(FromHost)
    BY <2>1, <2>2, PutOn DEF ClientParts
  <2>4. ClientTypes'
    BY <1>1, <2>1 DEF ClientTypes
  <2>5. QED
    BY <1>1, <2>1, <2>3, <2>4 DEF ClientParts
<1>4. QED
  BY <1>2, <1>3

\* What the client takes off its channel.
LEMMA ReceivingTyped ==
  ASSUME ClientParts, Results, Receiving
  PROVE  /\ incoming' \in Seq(ToClient) /\ Head(incoming) \in ToClient
         /\ client.id \in Call
         /\ UNCHANGED <<nextId, reader, proc>>
BY TakenOff DEF ClientParts, Receiving, Results, InCall

LEMMA AnswerCallbackTyped ==
  ASSUME ClientParts, Results, NEW size, AnswerCallback(size)
  PROVE  ClientParts'
<1>1. /\ incoming' \in Seq(ToClient) /\ Head(incoming) \in ToClient
      /\ client.id \in Call /\ Head(incoming).kind = "request"
      /\ UNCHANGED <<nextId, reader, proc, answer>>
  BY ReceivingTyped DEF AnswerCallback
<1>2. CASE size = "long answer" \/ proc # "up"
  <2>1. Returns(client.id, client.op, Diagnosis) /\ UNCHANGED stdin
    BY <1>2 DEF AnswerCallback
  <2>2. QED
    BY <1>1, <2>1, ReturnsTyped, DiagnosisIsError DEF ClientParts
<1>3. CASE ~(size = "long answer" \/ proc # "up")
  <2>1. /\ stdin' = Append(stdin, AnswerOn(size))
        /\ UNCHANGED <<client, result>>
    BY <1>3 DEF AnswerCallback, AnswerOn
  <2>2. AnswerOn(size) \in FromHost
    BY <1>1, FramesAreTyped DEF AnswerOn
  <2>3. stdin' \in Seq(FromHost)
    BY <2>1, <2>2, PutOn DEF ClientParts
  <2>4. QED
    BY <1>1, <2>1, <2>3 DEF ClientParts, ClientTypes
<1>4. QED
  BY <1>2, <1>3

LEMMA ClientStepTyped ==
  ASSUME ClientParts, Results, ClientStep \/ DropRegistry \/ ApplicationDies
  PROVE  ClientParts'
<1> USE DiagnosisIsError
<1>1. CASE WriteEnds
  <2>1. client.id \in Call /\ UNCHANGED <<nextId, answer, stdin, incoming, reader, proc>>
    BY <1>1 DEF WriteEnds, Results, InCall
  <2>2. CASE proc # "up"
    BY <1>1, <2>1, <2>2, ReturnsTyped DEF WriteEnds, ClientParts
  <2>3. CASE proc = "up"
    BY <1>1, <2>1, <2>3 DEF WriteEnds, ClientParts, ClientTypes
  <2>4. QED
    BY <2>2, <2>3
<1>2. CASE ReceiveReply
  <2>1. /\ incoming' \in Seq(ToClient) /\ Head(incoming) \in ToClient
        /\ client.id \in Call /\ Head(incoming).kind = "response"
        /\ UNCHANGED <<nextId, reader, proc, stdin>>
        /\ Returns(client.id, client.op, "answered")
        /\ answer' = [answer EXCEPT ![client.id] = Head(incoming).of]
    BY <1>2, ReceivingTyped DEF ReceiveReply, IsReply
  <2>2. Head(incoming).of \in Nat
    BY <2>1, FramesAreTyped
  <2>3. QED
    BY <2>1, <2>2, ReturnsTyped DEF ClientParts
<1>3. CASE SkipReply
  BY <1>3, ReceivingTyped DEF SkipReply, ClientParts, ClientTypes
<1>4. ASSUME NEW size, AnswerCallback(size) PROVE ClientParts'
  BY <1>4, AnswerCallbackTyped
<1>5. CASE ReceiveError
  <2>1. /\ incoming' \in Seq(ToClient) /\ client.id \in Call
        /\ UNCHANGED <<nextId, reader, proc, stdin, answer>>
        /\ Returns(client.id, client.op, Diagnosis)
    BY <1>5, ReceivingTyped DEF ReceiveError
  <2>2. QED
    BY <2>1, ReturnsTyped DEF ClientParts
<1>6. CASE ReceiveEnd
  BY <1>6, ReceivingTyped DEF ReceiveEnd, ClientParts, ClientTypes
<1>7. CASE Disconnected
  BY <1>7 DEF Disconnected, ClientParts, ClientTypes
<1>8. CASE Reaped
  <2>1. client.id \in Call
    BY <1>8 DEF Reaped, Results, InCall
  <2>2. QED
    BY <1>8, <2>1, ReturnsTyped DEF Reaped, ClientParts
<1>9. CASE Timeout
  <2>1. client.id \in Call
    BY <1>9 DEF Timeout, Results, InCall
  <2>2. QED
    BY <1>9, <2>1, ReturnsTyped DEF Timeout, ClientParts
<1>10. CASE ShutdownEnds \/ DropRegistry \/ ApplicationDies
  <2>1. client' \in {[Idle EXCEPT !.pc = "closed"], [Idle EXCEPT !.pc = "dead"]}
    BY <1>10 DEF ShutdownEnds, DropRegistry, ApplicationDies
  <2>2. ClientTypes'
    BY <2>1, IdleIsTyped DEF ClientTypes
  <2>3. QED
    BY <1>10, <2>2 DEF ShutdownEnds, DropRegistry, ApplicationDies, ClientParts
<1>11. QED
  BY <1>1, <1>2, <1>3, <1>4, <1>5, <1>6, <1>7, <1>8, <1>9, <1>10 DEF ClientStep

\* The other types are none of the client's business.
LEMMA ClientLeavesOthers ==
  ASSUME OtherParts,
         \/ \E op \in Operation, size \in {"fits", "bulk", "long request", "deep request"} : Request(op, size)
         \/ ClientStep \/ DropRegistry \/ ApplicationDies
  PROVE  OtherParts'
<1>1. UNCHANGED <<world, host, stdout, queued, nextCallback, served, spent>>
  BY DEF Request, ClientStep, DropRegistry, ApplicationDies, WriteEnds, ReceiveReply, SkipReply,
     AnswerCallback, ReceiveError, ReceiveEnd, Disconnected, Reaped, Timeout, ShutdownEnds,
     Receiving, hostVars
<1>2. QED
  BY <1>1 DEF OtherParts, HostTypes

LEMMA ReaderStepTyped ==
  ASSUME ClientParts, OtherParts, ReaderStep
  PROVE  ClientParts' /\ OtherParts'
<1>1. CASE ReadFrame
  <2>1. /\ stdout' \in Seq(FromHost) /\ Head(stdout) \in ToClient
        /\ incoming' \in {incoming, Append(incoming, Head(stdout))}
        /\ reader' \in {"on", "off"}
        /\ UNCHANGED <<world, client, nextId, result, answer, stdin, proc, host, queued,
                      nextCallback, served, spent>>
    BY <1>1, TakenOff, FramesAreTyped DEF ReadFrame, OtherParts, clientVars, hostVars
  <2>2. incoming' \in Seq(ToClient)
    <3>1. incoming \in Seq(ToClient)
      BY DEF ClientParts
    <3>2. Append(incoming, Head(stdout)) \in Seq(ToClient)
      BY <2>1, <3>1, PutOn
    <3>3. QED
      BY <2>1, <3>1, <3>2
  <2>3. QED
    BY <2>1, <2>2 DEF ClientParts, OtherParts, ClientTypes, HostTypes
<1>2. CASE ReadEnd
  <2>1. /\ incoming' \in {incoming, Append(incoming, EndOfStream)}
        /\ reader' = "off"
        /\ UNCHANGED <<world, client, nextId, result, answer, stdin, stdout, proc, host, queued,
                      nextCallback, served, spent>>
    BY <1>2 DEF ReadEnd, clientVars, hostVars
  <2>2. incoming' \in Seq(ToClient)
    <3>1. incoming \in Seq(ToClient) /\ EndOfStream \in ToClient
      BY FramesAreTyped DEF ClientParts
    <3>2. Append(incoming, EndOfStream) \in Seq(ToClient)
      BY <3>1, PutOn
    <3>3. QED
      BY <2>1, <3>1, <3>2
  <2>3. QED
    BY <2>1, <2>2 DEF ClientParts, OtherParts, ClientTypes, HostTypes
<1>3. QED
  BY <1>1, <1>2 DEF ReaderStep

\* A request that begins to run.
LEMMA ServesTyped ==
  ASSUME OtherParts, NEW request \in Requests, Serves(request)
  PROVE  HostTypes' /\ served' \in Seq(Nat)
<1>1. HostTypes'
  BY DEF Serves, HostTypes
<1>2. served' \in Seq(Nat)
  BY PutOn, FramesAreTyped DEF Serves, OtherParts
<1>3. QED
  BY <1>1, <1>2

LEMMA HostStepTyped ==
  ASSUME ClientParts, OtherParts, HostStep
  PROVE  ClientParts' /\ OtherParts'
<1> USE FramesAreTyped
<1>1. CASE HostTakesQueued
  <2>1. /\ queued' \in Seq(Requests) /\ Head(queued) \in Requests
        /\ Serves(Head(queued))
        /\ UNCHANGED <<world, client, nextId, result, answer, stdin, stdout, incoming, reader, proc,
                      nextCallback, spent>>
    BY <1>1, TakenOff DEF HostTakesQueued, OtherParts, clientVars
  <2>2. QED
    BY <2>1, ServesTyped DEF ClientParts, OtherParts, ClientTypes
<1>2. CASE HostReads
  <2>1. /\ stdin' \in Seq(FromHost) /\ Head(stdin) \in FromHost
        /\ proc' \in {proc, "closed"}
        /\ UNCHANGED <<world, client, nextId, result, answer, stdout, incoming, reader,
                      queued, nextCallback, spent>>
    BY <1>2, TakenOff DEF HostReads, Exits, ClientParts, clientVars
  <2>2. HostTypes' /\ served' \in Seq(Nat)
    <3>1. CASE Head(stdin).kind = "request"
      BY <1>2, <2>1, <3>1, ServesTyped DEF HostReads
    <3>2. CASE Head(stdin).kind # "request"
      BY <1>2, <3>2 DEF HostReads, OtherParts, HostTypes
    <3>3. QED
      BY <3>1, <3>2
  <2>3. QED
    BY <2>1, <2>2 DEF ClientParts, OtherParts, ClientTypes
<1>3. CASE HostSeesEnd
  BY <1>3 DEF HostSeesEnd, Exits, ClientParts, OtherParts, ClientTypes, HostTypes, clientVars, hostVars
<1>4. ASSUME NEW size, Finish(size) PROVE ClientParts' /\ OtherParts'
  <2>1. /\ stdout' \in {stdout, Append(stdout, ResponseFrame(host.request.id, host.request.id))}
        /\ proc' \in {proc, "closed"}
        /\ host' = [pc |-> "reading", request |-> NoRequest, callback |-> 0]
        /\ UNCHANGED <<world, client, nextId, result, answer, stdin, incoming, reader, queued,
                      nextCallback, served, spent>>
    BY <1>4 DEF Finish, Exits, clientVars
  <2>2. ResponseFrame(host.request.id, host.request.id) \in FromHost
    BY DEF OtherParts, HostTypes
  <2>3. stdout' \in Seq(FromHost)
    <3>1. stdout \in Seq(FromHost)
      BY DEF OtherParts
    <3>2. Append(stdout, ResponseFrame(host.request.id, host.request.id)) \in Seq(FromHost)
      BY <2>2, <3>1, PutOn
    <3>3. QED
      BY <2>1, <3>1, <3>2
  <2>4. HostTypes'
    BY <2>1 DEF HostTypes
  <2>5. QED
    BY <2>1, <2>3, <2>4 DEF ClientParts, OtherParts, ClientTypes
<1>5. CASE HostAwaits
  <2>1. /\ stdin' \in Seq(FromHost) /\ Head(stdin) \in FromHost
        /\ queued' = IF Head(stdin).kind = "request" THEN Append(queued, Head(stdin)) ELSE queued
        /\ UNCHANGED <<world, client, nextId, result, answer, stdout, incoming, reader, proc,
                      nextCallback, served, spent>>
    BY <1>5, TakenOff DEF HostAwaits, ClientParts, clientVars
  <2>2. queued' \in Seq(Requests)
    BY <2>1, PutOn DEF OtherParts
  <2>3. HostTypes'
    <3>1. host' = [host EXCEPT !.pc = "running", !.callback = 0] \/ UNCHANGED host
      BY <1>5 DEF HostAwaits, Resumes
    <3>2. CASE host' = [host EXCEPT !.pc = "running", !.callback = 0]
      BY <3>2 DEF OtherParts, HostTypes
    <3>3. CASE UNCHANGED host
      BY <3>3 DEF OtherParts, HostTypes
    <3>4. QED
      BY <3>1, <3>2, <3>3
  <2>4. QED
    BY <2>1, <2>2, <2>3 DEF ClientParts, OtherParts, ClientTypes
<1>6. CASE HostAwaitsEnd
  <2>1. HostTypes'
    BY <1>6 DEF HostAwaitsEnd, Resumes, OtherParts, HostTypes
  <2>2. QED
    BY <1>6, <2>1 DEF HostAwaitsEnd, ClientParts, OtherParts, ClientTypes, clientVars
<1>7. QED
  BY <1>1, <1>2, <1>3, <1>4, <1>5, <1>6 DEF HostStep

\* What plugin code and the process do.
Mishap == \/ ProcessEnds \/ LoadFails \/ CallApplication \/ HostCrashes \/ PluginHangs
          \/ PluginPrints \/ \E c \in Call : RepeatReply(c)

LEMMA MishapTyped ==
  ASSUME ClientParts, OtherParts, Mishap
  PROVE  ClientParts' /\ OtherParts'
<1> USE FramesAreTyped
<1>1. CASE ProcessEnds \/ LoadFails \/ HostCrashes
  BY <1>1 DEF ProcessEnds, LoadFails, HostCrashes, Exits, ClientParts, OtherParts, ClientTypes,
     HostTypes, clientVars, hostVars
<1>2. CASE CallApplication
  <2>1. /\ nextCallback \in Nat /\ nextCallback' \in 1..(MaxCallbacks + 1)
        /\ \/ UNCHANGED <<stdout, host>>
           \/ /\ stdout' = Append(stdout, RequestFrame(nextCallback, "call"))
              /\ host' = [host EXCEPT !.pc = "awaiting", !.callback = nextCallback]
        /\ UNCHANGED <<world, client, nextId, result, answer, stdin, incoming, reader, proc, queued,
                      served, spent>>
    BY <1>2, BoundAssumption DEF CallApplication, Callback, clientVars
  <2>2. RequestFrame(nextCallback, "call") \in FromHost
    BY <2>1 DEF Operation
  <2>3. stdout' \in Seq(FromHost)
    <3>1. stdout \in Seq(FromHost)
      BY DEF OtherParts
    <3>2. Append(stdout, RequestFrame(nextCallback, "call")) \in Seq(FromHost)
      BY <2>2, <3>1, PutOn
    <3>3. QED
      BY <2>1, <3>1, <3>2
  <2>4. HostTypes'
    BY <2>1 DEF HostTypes, OtherParts
  <2>5. QED
    BY <2>1, <2>3, <2>4 DEF ClientParts, OtherParts, ClientTypes
<1>3. CASE PluginHangs
  <2>1. HostTypes'
    BY <1>3 DEF PluginHangs, OtherParts, HostTypes
  <2>2. QED
    BY <1>3, <2>1 DEF PluginHangs, ClientParts, OtherParts, ClientTypes, clientVars
<1>4. CASE PluginPrints
  <2>1. stdout' \in Seq(FromHost)
    BY <1>4, PutOn DEF PluginPrints, OtherParts
  <2>2. QED
    BY <1>4, <2>1 DEF PluginPrints, ClientParts, OtherParts, ClientTypes, HostTypes, clientVars, hostVars
<1>5. ASSUME NEW c \in Call, RepeatReply(c) PROVE ClientParts' /\ OtherParts'
  <2>1. ResponseFrame(c, c) \in FromHost
    BY DEF Call
  <2>2. stdout' \in Seq(FromHost)
    BY <1>5, <2>1, PutOn DEF RepeatReply, OtherParts
  <2>3. QED
    BY <1>5, <2>2 DEF RepeatReply, ClientParts, OtherParts, ClientTypes, HostTypes, clientVars, hostVars
<1>6. QED
  BY <1>1, <1>2, <1>3, <1>4, <1>5 DEF Mishap

LEMMA RemoteTypesKept ==
  ASSUME TypeOK, Results, Next
  PROVE  TypeOK'
<1>1. ClientParts /\ OtherParts
  BY TypesInParts
<1>2. CASE \E op \in Operation, size \in {"fits", "bulk", "long request", "deep request"} : Request(op, size)
  BY <1>1, <1>2, RequestTyped, ClientLeavesOthers, TypesInParts
<1>3. CASE ClientStep \/ DropRegistry \/ ApplicationDies
  BY <1>1, <1>3, ClientStepTyped, ClientLeavesOthers, TypesInParts
<1>4. CASE ReaderStep
  BY <1>1, <1>4, ReaderStepTyped, TypesInParts
<1>5. CASE HostStep
  BY <1>1, <1>5, HostStepTyped, TypesInParts
<1>6. CASE Mishap
  BY <1>1, <1>6, MishapTyped, TypesInParts
<1>7. QED
  BY <1>2, <1>3, <1>4, <1>5, <1>6 DEF Next, Mishap

-----------------------------------------------------------------------------
(* Order.  What a frame more, or one less, does to a line.                   *)

LEMMA PutOnInOrder ==
  ASSUME NEW S, NEW line \in Seq(S), NEW frame \in S, InOrder(line),
         frame.kind = "request"
           => \A i \in 1..Len(line) : line[i].kind = "request" => line[i].id < frame.id
  PROVE  InOrder(Append(line, frame))
<1> DEFINE longer == Append(line, frame)
<1>1. /\ Len(longer) = Len(line) + 1 /\ Len(line) \in Nat
      /\ \A i \in 1..Len(line) : longer[i] = line[i]
      /\ longer[Len(line) + 1] = frame
  BY PutOn
<1>2. ASSUME NEW i \in 1..Len(longer), NEW j \in 1..Len(longer), i < j,
             longer[i].kind = "request", longer[j].kind = "request"
      PROVE  longer[i].id < longer[j].id
  <2>1. i \in 1..Len(line) /\ longer[i] = line[i]
    BY <1>1, <1>2
  <2>2. CASE j \in 1..Len(line)
    BY <1>1, <1>2, <2>1, <2>2 DEF InOrder
  <2>3. CASE j = Len(line) + 1
    BY <1>1, <1>2, <2>1, <2>3
  <2>4. QED
    BY <1>1, <2>2, <2>3
<1>3. QED
  BY <1>2 DEF InOrder

LEMMA TakenOffInOrder ==
  ASSUME NEW S, NEW line \in Seq(S), line # <<>>, InOrder(line)
  PROVE  InOrder(Tail(line))
<1>1. /\ Len(Tail(line)) = Len(line) - 1 /\ Len(line) \in Nat
      /\ \A i \in 1..(Len(line) - 1) : Tail(line)[i] = line[i + 1]
  BY TakenOff
<1>2. ASSUME NEW i \in 1..Len(Tail(line)), NEW j \in 1..Len(Tail(line)), i < j,
             Tail(line)[i].kind = "request", Tail(line)[j].kind = "request"
      PROVE  Tail(line)[i].id < Tail(line)[j].id
  <2>1. /\ i + 1 \in 1..Len(line) /\ j + 1 \in 1..Len(line) /\ i + 1 < j + 1
        /\ Tail(line)[i] = line[i + 1] /\ Tail(line)[j] = line[j + 1]
    BY <1>1, <1>2
  <2>2. QED
    BY <1>2, <2>1 DEF InOrder
<1>3. QED
  BY <1>2 DEF InOrder

\* The frames of a shorter line were all on the line; those of a longer one, but its last.
LEMMA TakenOffIsOf ==
  ASSUME NEW S, NEW line \in Seq(S), line # <<>>, NEW i \in 1..Len(Tail(line))
  PROVE  \E j \in 1..Len(line) : 1 < j /\ Tail(line)[i] = line[j]
<1>1. i + 1 \in 1..Len(line) /\ 1 < i + 1 /\ Tail(line)[i] = line[i + 1]
  BY TakenOff
<1>2. QED
  BY <1>1

LEMMA PutOnIsOf ==
  ASSUME NEW S, NEW line \in Seq(S), NEW frame \in S, NEW i \in 1..Len(Append(line, frame))
  PROVE  Append(line, frame)[i] = frame \/ \E j \in 1..Len(line) : Append(line, frame)[i] = line[j]
<1>1. i \in 1..Len(line) \/ i = Len(line) + 1
  BY PutOn
<1>2. QED
  BY <1>1, PutOn

LEMMA PutOnBetween ==
  ASSUME NEW S, NEW line \in Seq(S), NEW frame \in S, NEW ran, NEW next, Between(line, ran, next),
         frame.kind = "request" => /\ frame.id \in Call /\ frame.id < next
                                   /\ \A k \in 1..Len(ran) : ran[k] < frame.id
  PROVE  Between(Append(line, frame), ran, next)
BY PutOnIsOf DEF Between

LEMMA TakenOffBetween ==
  ASSUME NEW S, NEW line \in Seq(S), line # <<>>, NEW ran, NEW next, Between(line, ran, next)
  PROVE  Between(Tail(line), ran, next)
BY TakenOffIsOf DEF Between

\* A later number leaves the requests of a line below it.
LEMMA NextBetween ==
  ASSUME NEW line, NEW ran, NEW next \in Nat, Between(line, ran, next)
  PROVE  Between(line, ran, next + 1)
BY DEF Between, Call

\* The run of a request that comes before all of a line.
LEMMA RanBetween ==
  ASSUME NEW line, NEW ran \in Seq(Nat), NEW id \in Nat, NEW next, Between(line, ran, next),
         \A i \in 1..Len(line) : line[i].kind = "request" => id < line[i].id
  PROVE  Between(line, Append(ran, id), next)
<1>1. ASSUME NEW i \in 1..Len(line), line[i].kind = "request", NEW k \in 1..Len(Append(ran, id))
      PROVE  Append(ran, id)[k] < line[i].id
  <2>1. Append(ran, id)[k] = id \/ \E j \in 1..Len(ran) : Append(ran, id)[k] = ran[j]
    BY PutOnIsOf
  <2>2. QED
    BY <1>1, <2>1 DEF Between
<1>2. QED
  BY <1>1 DEF Between

\* A request runs that was made after all that ran.
LEMMA RanInOrder ==
  ASSUME TypeOK, Lines, NEW id \in Call, served' = Append(served, id), UNCHANGED nextId,
         id < nextId, \A k \in 1..Len(served) : served[k] < id
  PROVE  /\ ServedInOrder'
         /\ (\A k \in 1..Len(served) : served[k] \in Call /\ served[k] < nextId)'
<1>1. /\ Len(served') = Len(served) + 1 /\ Len(served) \in Nat
      /\ \A k \in 1..Len(served) : served'[k] = served[k]
      /\ served'[Len(served) + 1] = id
  BY PutOn DEF TypeOK, Call
<1>2. ASSUME NEW i \in 1..Len(served'), NEW j \in 1..Len(served'), i < j
      PROVE  served'[i] < served'[j]
  <2>1. i \in 1..Len(served)
    BY <1>1, <1>2
  <2>2. CASE j \in 1..Len(served)
    BY <1>1, <1>2, <2>1, <2>2 DEF Lines, ServedInOrder
  <2>3. CASE j = Len(served) + 1
    BY <1>1, <2>1, <2>3
  <2>4. QED
    BY <1>1, <2>2, <2>3
<1>3. ASSUME NEW k \in 1..Len(served')
      PROVE  served'[k] \in Call /\ served'[k] < nextId'
  <2>1. k \in 1..Len(served) \/ k = Len(served) + 1
    BY <1>1
  <2>2. QED
    BY <1>1, <2>1 DEF Lines
<1>4. QED
  BY <1>2, <1>3 DEF ServedInOrder

LEMMA LinesStay ==
  ASSUME Lines, UNCHANGED <<queued, stdin, served, nextId>>
  PROVE  Lines'
BY DEF Lines, ServedInOrder, QueuedFirst, InOrder, Between

\* A request is made: its number is the largest.
LEMMA RequestInLine ==
  ASSUME RemoteInv, NEW op \in Operation, NEW size, Request(op, size)
  PROVE  Lines'
<1>1. /\ stdin \in Seq(FromHost) /\ queued \in Seq(Requests) /\ served \in Seq(Nat)
      /\ nextId \in Nat /\ nextId \in Call /\ Lines
      /\ nextId' = nextId + 1 /\ UNCHANGED <<queued, served>>
  <2>1. /\ stdin \in Seq(FromHost) /\ queued \in Seq(Requests) /\ served \in Seq(Nat) /\ Lines
    BY DEF RemoteInv, TypeOK, Requests, FromHost
  <2>2. nextId \in Call /\ nextId' = nextId + 1 /\ UNCHANGED <<queued, served>>
    BY DEF Request, hostVars
  <2>3. QED
    BY <2>1, <2>2 DEF Call
<1>2. UNCHANGED stdin \/ stdin' = Append(stdin, RequestOn(op, size))
  BY DEF Request, RequestOn
<1> DEFINE frame == RequestOn(op, size)
<1>3. frame \in FromHost /\ (frame.kind = "request" => frame.id = nextId)
  BY <1>1, FramesAreTyped DEF RequestFrame, RequestOn
<1> HIDE DEF frame
<1>4. Between(stdin, served, nextId + 1) /\ Between(queued, served, nextId + 1)
  BY <1>1, NextBetween DEF Lines
<1>5. \A k \in 1..Len(served) : served[k] \in Call /\ served[k] < nextId
  BY <1>1 DEF Lines
<1>6. ServedInOrder' /\ InOrder(queued') /\ Between(queued', served', nextId')
  BY <1>1, <1>4 DEF Lines, ServedInOrder
<1>7. CASE UNCHANGED stdin
  BY <1>1, <1>4, <1>5, <1>6, <1>7 DEF Lines, QueuedFirst, InOrder, Between, Call
<1>8. CASE stdin' = Append(stdin, frame)
  <2>1. InOrder(stdin')
    BY <1>1, <1>3, <1>8, PutOnInOrder DEF Lines, Between
  <2>2. Between(stdin', served', nextId')
    <3>1. frame.kind = "request" => /\ frame.id \in Call /\ frame.id < nextId + 1
                                    /\ \A k \in 1..Len(served) : served[k] < frame.id
      BY <1>1, <1>3, <1>5
    <3>2. Between(Append(stdin, frame), served, nextId + 1)
      BY <1>1, <1>3, <1>4, <3>1, PutOnBetween
    <3> QED BY <1>1, <1>8, <3>2
  <2>3. ASSUME NEW i \in 1..Len(queued), NEW j \in 1..Len(stdin'), stdin'[j].kind = "request"
        PROVE  queued[i].id < stdin'[j].id
    <3>1. stdin'[j] = frame \/ \E n \in 1..Len(stdin) : stdin'[j] = stdin[n]
      BY <1>1, <1>3, <1>8, PutOnIsOf
    <3>2. queued[i] \in Requests /\ queued[i].kind = "request"
      BY <1>1, FramesAreTyped
    <3>3. queued[i].id < nextId
      BY <1>1, <3>2 DEF Lines, Between
    <3>4. QED
      BY <1>1, <1>3, <2>3, <3>1, <3>3 DEF Lines, QueuedFirst
  <2>4. QueuedFirst'
    BY <1>1, <2>3 DEF QueuedFirst
  <2>5. QED
    BY <1>1, <1>5, <1>6, <2>1, <2>2, <2>4 DEF Lines, Call, InOrder, Between
<1>9. QED
  BY <1>2, <1>7, <1>8 DEF frame

\* An answer comes on the line; it is no request.
LEMMA AnswerInLine ==
  ASSUME RemoteInv, NEW size, AnswerCallback(size)
  PROVE  Lines'
<1>1. /\ stdin \in Seq(FromHost) /\ Lines /\ UNCHANGED <<nextId, queued, served>>
  BY DEF AnswerCallback, Receiving, hostVars, RemoteInv, TypeOK, FromHost
<1>2. UNCHANGED stdin
        \/ stdin' = Append(stdin, AnswerOn(size))
  BY DEF AnswerCallback, AnswerOn
<1> DEFINE frame == AnswerOn(size)
<1>3. frame \in FromHost /\ frame.kind # "request"
  <2>1. ClientParts /\ Results /\ Receiving /\ Head(incoming).kind = "request"
    BY TypesInParts DEF RemoteInv, AnswerCallback
  <2>2. Head(incoming).id \in Nat
    BY <2>1, ReceivingTyped, FramesAreTyped
  <2>3. QED
    BY <2>2, FramesAreTyped DEF ResponseFrame, AnswerOn
<1> HIDE DEF frame
<1>4. CASE stdin' = Append(stdin, frame)
  <2>1. InOrder(stdin') /\ Between(stdin', served, nextId)
    BY <1>1, <1>3, <1>4, PutOnInOrder, PutOnBetween DEF Lines
  <2>2. \A j \in 1..Len(stdin') :
          stdin'[j].kind = "request" => \E n \in 1..Len(stdin) : stdin'[j] = stdin[n]
    BY <1>1, <1>3, <1>4, PutOnIsOf
  <2>3. QueuedFirst'
    BY <1>1, <2>2 DEF Lines, QueuedFirst
  <2>4. QED
    BY <1>1, <2>1, <2>3 DEF Lines, ServedInOrder, InOrder, Between
<1>5. QED
  BY <1>1, <1>2, <1>4, LinesStay DEF frame

\* The host takes up the request it queued first.
LEMMA QueuedIsServed ==
  ASSUME RemoteInv, HostTakesQueued
  PROVE  Lines'
<1>1. /\ stdin \in Seq(FromHost) /\ queued \in Seq(Requests) /\ served \in Seq(Nat) /\ Lines
  BY DEF RemoteInv, TypeOK, Requests, FromHost
<1>2. /\ queued # <<>> /\ queued' = Tail(queued) /\ UNCHANGED <<nextId, stdin>>
      /\ served' = Append(served, Head(queued).id)
  BY DEF HostTakesQueued, Serves, clientVars
<1> DEFINE id == queued[1].id
<1>3. /\ Head(queued) = queued[1] /\ 1 \in 1..Len(queued)
      /\ queued[1].kind = "request" /\ id \in Nat
  BY <1>1, <1>2, TakenOff, FramesAreTyped
<1>4. id \in Call /\ id < nextId /\ \A k \in 1..Len(served) : served[k] < id
  BY <1>1, <1>3 DEF Lines, Between
<1> HIDE DEF id
<1>5. served' = Append(served, id)
  BY <1>2, <1>3 DEF id
<1>6. /\ ServedInOrder'
      /\ (\A k \in 1..Len(served) : served[k] \in Call /\ served[k] < nextId)'
  BY <1>1, <1>2, <1>4, <1>5, RanInOrder DEF RemoteInv
<1>7. \A i \in 1..Len(Tail(queued)) : \E j \in 1..Len(queued) : 1 < j /\ Tail(queued)[i] = queued[j]
  BY <1>1, <1>2, TakenOffIsOf
<1>8. \A j \in 1..Len(queued) : 1 < j => queued[j].kind = "request" /\ id < queued[j].id
  <2>1. \A j \in 1..Len(queued) : queued[j].kind = "request"
    BY <1>1, FramesAreTyped
  <2>2. QED
    BY <1>1, <1>3, <2>1 DEF Lines, InOrder, id
<1>9. InOrder(queued') /\ Between(Tail(queued), served, nextId)
  BY <1>1, <1>2, TakenOffInOrder, TakenOffBetween DEF Lines
<1>10. \A i \in 1..Len(Tail(queued)) : id < Tail(queued)[i].id
  BY <1>7, <1>8
<1>11. Between(queued', served', nextId')
  BY <1>1, <1>2, <1>3, <1>5, <1>9, <1>10, RanBetween
<1>12. \A j \in 1..Len(stdin) : stdin[j].kind = "request" => id < stdin[j].id
  BY <1>1, <1>3 DEF Lines, QueuedFirst, id
<1>13. Between(stdin', served', nextId')
  BY <1>1, <1>2, <1>3, <1>5, <1>12, RanBetween DEF Lines
<1>14. QueuedFirst'
  BY <1>1, <1>2, <1>7 DEF Lines, QueuedFirst
<1>15. InOrder(stdin')
  BY <1>1, <1>2 DEF Lines
<1>16. QED
  BY <1>6, <1>9, <1>11, <1>13, <1>14, <1>15 DEF Lines, InOrder, Between

\* The host reads a frame, with nothing queued.
LEMMA ReadIsServed ==
  ASSUME RemoteInv, HostReads
  PROVE  Lines'
<1>1. /\ stdin \in Seq(FromHost) /\ queued \in Seq(Requests) /\ served \in Seq(Nat) /\ Lines
  BY DEF RemoteInv, TypeOK, Requests, FromHost
<1>2. /\ stdin # <<>> /\ stdin' = Tail(stdin) /\ UNCHANGED <<nextId, queued>>
      /\ queued = <<>>
  BY DEF HostReads, clientVars
<1>3. Len(queued) = 0 /\ InOrder(queued') /\ QueuedFirst'
  BY <1>1, <1>2, EmptySeq DEF QueuedFirst, InOrder
<1>4. \A next, ran : Between(queued, ran, next)
  BY <1>3 DEF Between
<1>5. InOrder(stdin') /\ Between(Tail(stdin), served, nextId)
  BY <1>1, <1>2, TakenOffInOrder, TakenOffBetween DEF Lines
<1>6. CASE Head(stdin).kind = "request"
  <2> DEFINE id == stdin[1].id
  <2>1. /\ Head(stdin) = stdin[1] /\ 1 \in 1..Len(stdin) /\ stdin[1].kind = "request" /\ id \in Nat
    BY <1>1, <1>2, <1>6, TakenOff, FramesAreTyped
  <2>2. id \in Call /\ id < nextId /\ \A k \in 1..Len(served) : served[k] < id
    BY <1>1, <2>1 DEF Lines, Between
  <2>3. served' = Append(served, id)
    BY <1>6, <2>1 DEF HostReads, Serves
  <2>4. \A j \in 1..Len(stdin) : 1 < j /\ stdin[j].kind = "request" => id < stdin[j].id
    BY <1>1, <2>1 DEF Lines, InOrder
  <2> HIDE DEF id
  <2>5. /\ ServedInOrder'
        /\ (\A k \in 1..Len(served) : served[k] \in Call /\ served[k] < nextId)'
    BY <1>1, <1>2, <2>2, <2>3, RanInOrder DEF RemoteInv
  <2>6. \A i \in 1..Len(Tail(stdin)) : \E j \in 1..Len(stdin) : 1 < j /\ Tail(stdin)[i] = stdin[j]
    BY <1>1, <1>2, TakenOffIsOf
  <2>7. \A i \in 1..Len(Tail(stdin)) : Tail(stdin)[i].kind = "request" => id < Tail(stdin)[i].id
    BY <2>4, <2>6
  <2>8. Between(stdin', served', nextId')
    BY <1>1, <1>2, <1>5, <2>1, <2>3, <2>7, RanBetween
  <2>9. QED
    BY <1>2, <1>3, <1>4, <1>5, <2>5, <2>8 DEF Lines, Between
<1>7. CASE Head(stdin).kind # "request"
  <2>1. UNCHANGED served
    BY <1>7 DEF HostReads
  <2>2. QED
    BY <1>1, <1>2, <1>3, <1>5, <2>1 DEF Lines, ServedInOrder, Between
<1>8. QED
  BY <1>6, <1>7

\* The host, waiting for an answer, puts a request aside.
LEMMA AwaitingQueues ==
  ASSUME RemoteInv, HostAwaits
  PROVE  Lines'
<1>1. /\ stdin \in Seq(FromHost) /\ queued \in Seq(Requests) /\ served \in Seq(Nat) /\ Lines
  BY DEF RemoteInv, TypeOK, Requests, FromHost
<1>2. /\ stdin # <<>> /\ stdin' = Tail(stdin) /\ UNCHANGED <<nextId, served>>
      /\ queued' = IF Head(stdin).kind = "request" THEN Append(queued, Head(stdin)) ELSE queued
  BY DEF HostAwaits, clientVars
<1> DEFINE frame == stdin[1]
<1>3. Head(stdin) = frame /\ 1 \in 1..Len(stdin) /\ frame \in FromHost
  BY <1>1, <1>2, TakenOff
<1>4. InOrder(stdin') /\ Between(stdin', served', nextId')
  BY <1>1, <1>2, TakenOffInOrder, TakenOffBetween DEF Lines
<1>5. \A i \in 1..Len(Tail(stdin)) : \E j \in 1..Len(stdin) : 1 < j /\ Tail(stdin)[i] = stdin[j]
  BY <1>1, <1>2, TakenOffIsOf
<1>6. /\ ServedInOrder'
      /\ (\A k \in 1..Len(served) : served[k] \in Call /\ served[k] < nextId)'
  BY <1>1, <1>2 DEF Lines, ServedInOrder
<1>7. CASE frame.kind # "request"
  <2>1. UNCHANGED queued
    BY <1>2, <1>3, <1>7
  <2>2. QueuedFirst'
    BY <1>1, <1>2, <1>5, <2>1 DEF Lines, QueuedFirst
  <2>3. QED
    BY <1>1, <1>2, <1>4, <1>6, <2>1, <2>2 DEF Lines, InOrder, Between
<1>8. CASE frame.kind = "request"
  <2>1. queued' = Append(queued, frame) /\ frame \in Requests /\ frame.kind = "request"
    BY <1>2, <1>3, <1>8, FramesAreTyped
  <2>2. \A i \in 1..Len(queued) : queued[i].id < frame.id
    BY <1>1, <1>3, <1>8 DEF Lines, QueuedFirst
  <2>3. /\ frame.id \in Call /\ frame.id < nextId
        /\ \A k \in 1..Len(served) : served[k] < frame.id
    BY <1>1, <1>3, <1>8 DEF Lines, Between
  <2>4. \A j \in 1..Len(stdin) : 1 < j /\ stdin[j].kind = "request" => frame.id < stdin[j].id
    BY <1>1, <1>3, <1>8 DEF Lines, InOrder
  <2> HIDE DEF frame
  <2>5. InOrder(queued')
    BY <1>1, <2>1, <2>2, PutOnInOrder DEF Lines
  <2>6. Between(queued', served', nextId')
    BY <1>1, <1>2, <2>1, <2>3, PutOnBetween DEF Lines
  <2>7. ASSUME NEW i \in 1..Len(queued'), NEW j \in 1..Len(stdin'), stdin'[j].kind = "request"
        PROVE  queued'[i].id < stdin'[j].id
    <3>1. PICK n \in 1..Len(stdin) : 1 < n /\ stdin'[j] = stdin[n]
      BY <1>2, <1>5
    <3>2. queued'[i] = frame \/ \E m \in 1..Len(queued) : queued'[i] = queued[m]
      BY <1>1, <2>1, PutOnIsOf
    <3>3. QED
      BY <1>1, <2>4, <2>7, <3>1, <3>2 DEF Lines, QueuedFirst
  <2>8. QueuedFirst'
    BY <2>7 DEF QueuedFirst
  <2>9. QED
    BY <1>4, <1>6, <2>5, <2>6, <2>8 DEF Lines
<1>9. QED
  BY <1>7, <1>8

LEMMA LinesKept ==
  ASSUME RemoteInv, Next
  PROVE  Lines'
<1>1. ASSUME NEW op \in Operation, NEW size, Request(op, size) PROVE Lines'
  BY <1>1, RequestInLine
<1>2. ASSUME NEW size, AnswerCallback(size) PROVE Lines'
  BY <1>2, AnswerInLine
<1>3. CASE HostTakesQueued \/ HostReads \/ HostAwaits
  BY <1>3, QueuedIsServed, ReadIsServed, AwaitingQueues
<1>4. CASE \/ WriteEnds \/ ReceiveReply \/ SkipReply \/ ReceiveError \/ ReceiveEnd
           \/ Disconnected \/ Reaped \/ Timeout \/ ShutdownEnds \/ DropRegistry \/ ApplicationDies
  <2>1. UNCHANGED <<queued, stdin, served, nextId>>
    BY <1>4 DEF WriteEnds, ReceiveReply, SkipReply, ReceiveError, ReceiveEnd, Disconnected, Reaped,
       Timeout, ShutdownEnds, DropRegistry, ApplicationDies, Receiving, hostVars
  <2>2. QED
    BY <2>1, LinesStay DEF RemoteInv
<1>5. CASE \/ ReaderStep \/ HostSeesEnd \/ HostAwaitsEnd \/ Mishap
           \/ \E size \in {"fits", "long reply"} : Finish(size)
  <2>1. UNCHANGED <<queued, stdin, served, nextId>>
    BY <1>5 DEF ReaderStep, ReadFrame, ReadEnd, HostSeesEnd, HostAwaitsEnd, Mishap, Finish,
       ProcessEnds, LoadFails, CallApplication, HostCrashes, PluginHangs, PluginPrints, RepeatReply,
       clientVars, hostVars
  <2>2. QED
    BY <2>1, LinesStay DEF RemoteInv
<1>6. QED
  BY <1>1, <1>2, <1>3, <1>4, <1>5 DEF Next, ClientStep, HostStep, Mishap

-----------------------------------------------------------------------------
(* Replies.                                                                  *)

\* What ran stays run; the run of one more request is all that can be new.
LEMMA RanGrows ==
  ASSUME RemoteInv, Next
  PROVE  /\ served' \in Seq(Nat)
         /\ \/ UNCHANGED served
            \/ /\ \E id \in Nat : served' = Append(served, id) /\ host'.request.id = id
               /\ UNCHANGED <<stdout, incoming, client, result, answer, nextId>>
<1>1. served' \in Seq(Nat)
  BY RemoteTypesKept DEF RemoteInv, TypeOK
<1>2. CASE HostTakesQueued
  <2>1. Head(queued).id \in Nat
    BY <1>2, TakenOff, FramesAreTyped DEF HostTakesQueued, RemoteInv, TypeOK, Requests
  <2>2. QED
    BY <1>1, <1>2, <2>1 DEF HostTakesQueued, Serves, clientVars
<1>3. CASE HostReads
  <2>1. Head(stdin) \in FromHost
    BY <1>3, TakenOff DEF HostReads, RemoteInv, TypeOK, FromHost
  <2>2. Head(stdin).kind = "request" => Head(stdin).id \in Nat
    BY <2>1, FramesAreTyped
  <2>3. QED
    BY <1>1, <1>3, <2>2 DEF HostReads, Serves, clientVars
<1>4. CASE \/ \E op \in Operation, size \in {"fits", "bulk", "long request", "deep request"} : Request(op, size)
           \/ ClientStep \/ DropRegistry \/ ApplicationDies
  BY <1>1, <1>4 DEF Request, ClientStep, DropRegistry, ApplicationDies, WriteEnds, ReceiveReply,
     SkipReply, AnswerCallback, ReceiveError, ReceiveEnd, Disconnected, Reaped, Timeout,
     ShutdownEnds, Receiving, hostVars
<1>5. CASE \/ ReaderStep \/ HostSeesEnd \/ HostAwaitsEnd \/ HostAwaits \/ Mishap
           \/ \E size \in {"fits", "long reply"} : Finish(size)
  BY <1>1, <1>5 DEF ReaderStep, ReadFrame, ReadEnd, HostSeesEnd, HostAwaitsEnd, HostAwaits, Mishap,
     Finish, ProcessEnds, LoadFails, CallApplication, HostCrashes, PluginHangs, PluginPrints,
     RepeatReply, clientVars, hostVars
<1>6. QED
  BY <1>2, <1>3, <1>4, <1>5 DEF Next, HostStep, Mishap

LEMMA LongerRan ==
  ASSUME NEW id \in Nat, served \in Seq(Nat), served' = Append(served, id)
  PROVE  Ran' = Ran \union {id}
<1>1. /\ Len(served') = Len(served) + 1 /\ Len(served) \in Nat
      /\ \A k \in 1..Len(served) : served'[k] = served[k]
      /\ served'[Len(served) + 1] = id
  BY PutOn
<1>2. Ran' \subseteq Ran \union {id}
  BY <1>1, PutOnIsOf DEF Ran
<1>3. Ran \subseteq Ran'
  <2>1. ASSUME NEW k \in 1..Len(served) PROVE served[k] \in Ran'
    BY <1>1, k \in 1..Len(served'), served'[k] = served[k] DEF Ran
  <2>2. QED
    BY <2>1 DEF Ran
<1>4. id \in Ran'
  BY <1>1, Len(served') \in 1..Len(served') DEF Ran
<1>5. QED
  BY <1>2, <1>3, <1>4

LEMMA RanKept ==
  ASSUME RemoteInv, Next
  PROVE  Ran \subseteq Ran'
<1>1. served \in Seq(Nat)
  BY DEF RemoteInv, TypeOK
<1>2. QED
  BY <1>1, RanGrows, LongerRan DEF Ran

LEMMA RanCounted ==
  \A line : Truthful(line, served)
    <=> \A i \in 1..Len(line) :
          line[i].kind = "response" => line[i].of = line[i].id /\ line[i].id \in Ran
BY DEF Truthful, Ran

LEMMA RanCountedNext ==
  \A line : Truthful(line, served')
    <=> \A i \in 1..Len(line) :
          line[i].kind = "response" => line[i].of = line[i].id /\ line[i].id \in Ran'
BY DEF Truthful, Ran

\* A line stays truthful while requests run and true frames are put on it.
LEMMA PutOnTruthful ==
  ASSUME RemoteInv, Next, NEW S, NEW line \in Seq(S), NEW frame \in S, Truthful(line, served),
         frame.kind = "response" => frame.of = frame.id /\ frame.id \in Ran
  PROVE  Truthful(Append(line, frame), served')
<1>1. ASSUME NEW i \in 1..Len(Append(line, frame)), Append(line, frame)[i].kind = "response"
      PROVE  LET f == Append(line, frame)[i] IN f.of = f.id /\ f.id \in Ran'
  <2>1. Append(line, frame)[i] = frame \/ \E j \in 1..Len(line) : Append(line, frame)[i] = line[j]
    BY PutOnIsOf
  <2>2. QED
    BY <1>1, <2>1, RanKept, RanCounted
<1>2. QED
  BY <1>1, RanCountedNext

LEMMA StaysTruthful ==
  ASSUME RemoteInv, Next, NEW line, Truthful(line, served)
  PROVE  Truthful(line, served')
BY RanKept, RanCounted, RanCountedNext

LEMMA TakenOffTruthful ==
  ASSUME RemoteInv, Next, NEW S, NEW line \in Seq(S), line # <<>>, Truthful(line, served)
  PROVE  Truthful(Tail(line), served')
<1>1. ASSUME NEW i \in 1..Len(Tail(line)), Tail(line)[i].kind = "response"
      PROVE  Tail(line)[i].of = Tail(line)[i].id /\ Tail(line)[i].id \in Ran'
  <2>1. \E j \in 1..Len(line) : Tail(line)[i] = line[j]
    BY TakenOffIsOf
  <2>2. QED
    BY <1>1, <2>1, RanKept, RanCounted
<1>2. QED
  BY <1>1, RanCountedNext

LEMMA IncomingTruthful ==
  ASSUME RemoteInv, Next
  PROVE  Truthful(incoming', served')
<1>1. /\ incoming \in Seq(ToClient) /\ stdout \in Seq(FromHost)
      /\ Truthful(incoming, served) /\ Truthful(stdout, served)
  BY DEF RemoteInv, TypeOK, Replies, ToClient, FromHost
<1>2. CASE UNCHANGED incoming
  BY <1>1, <1>2, StaysTruthful
<1>3. CASE Receiving
  BY <1>1, <1>3, TakenOffTruthful DEF Receiving
<1>4. CASE ReadFrame /\ incoming' = Append(incoming, Head(stdout))
  <2>1. Head(stdout) = stdout[1] /\ 1 \in 1..Len(stdout) /\ Head(stdout) \in ToClient
    BY <1>1, <1>4, TakenOff, FramesAreTyped DEF ReadFrame
  <2>2. Head(stdout).kind = "response"
          => Head(stdout).of = Head(stdout).id /\ Head(stdout).id \in Ran
    BY <1>1, <2>1, RanCounted
  <2>3. QED
    BY <1>1, <1>4, <2>1, <2>2, PutOnTruthful
<1>5. CASE incoming' = Append(incoming, EndOfStream)
  <2>1. EndOfStream \in ToClient /\ EndOfStream.kind # "response"
    BY FramesAreTyped DEF EndOfStream
  <2>2. QED
    BY <1>1, <1>5, <2>1, PutOnTruthful
<1>6. UNCHANGED incoming \/ Receiving \/ (ReadFrame /\ incoming' = Append(incoming, Head(stdout)))
        \/ incoming' = Append(incoming, EndOfStream)
  BY DEF Next, ReaderStep, ReadFrame, ReadEnd, Request, ClientStep, DropRegistry, ApplicationDies,
     WriteEnds, ReceiveReply, SkipReply, AnswerCallback, ReceiveError, ReceiveEnd, Disconnected,
     Reaped, Timeout, ShutdownEnds, HostStep, HostTakesQueued, HostReads, HostSeesEnd, HostAwaits,
     HostAwaitsEnd, Finish, ProcessEnds, LoadFails, CallApplication, HostCrashes, PluginHangs,
     PluginPrints, RepeatReply
<1>7. QED
  BY <1>2, <1>3, <1>4, <1>5, <1>6

LEMMA StdoutTruthful ==
  ASSUME RemoteInv, Next
  PROVE  Truthful(stdout', served')
<1>1. stdout \in Seq(FromHost) /\ Truthful(stdout, served)
  BY DEF RemoteInv, TypeOK, Replies, FromHost
<1>2. CASE UNCHANGED stdout
  BY <1>1, <1>2, StaysTruthful
<1>3. CASE ReadFrame
  BY <1>1, <1>3, TakenOffTruthful DEF ReadFrame
<1>4. ASSUME NEW size, Finish(size), stdout' # stdout PROVE Truthful(stdout', served')
  <2> DEFINE frame == ResponseFrame(host.request.id, host.request.id)
  <2>1. stdout' = Append(stdout, frame) /\ host.request # NoRequest
    BY <1>4 DEF Finish
  <2>2. host.request.id \in Nat /\ host.request.id \in Ran
    BY <2>1 DEF RemoteInv, TypeOK, Replies
  <2>3. frame \in FromHost /\ frame.of = frame.id /\ frame.id \in Ran
    BY <2>2, FramesAreTyped DEF ResponseFrame
  <2> HIDE DEF frame
  <2>4. QED
    BY <1>1, <2>1, <2>3, PutOnTruthful
<1>5. ASSUME CallApplication, stdout' # stdout PROVE Truthful(stdout', served')
  <2> DEFINE frame == RequestFrame(nextCallback, "call")
  <2>1. stdout' = Append(stdout, frame) /\ nextCallback \in Nat
    BY <1>5 DEF CallApplication, Callback
  <2>2. frame \in FromHost /\ frame.kind # "response"
    BY <2>1, FramesAreTyped DEF RequestFrame, Operation
  <2> HIDE DEF frame
  <2>3. QED
    BY <1>1, <2>1, <2>2, PutOnTruthful
<1>6. CASE PluginPrints
  <2>1. stdout' = Append(stdout, Garbage) /\ Garbage \in FromHost /\ Garbage.kind # "response"
    BY <1>6, FramesAreTyped DEF PluginPrints, Garbage
  <2>2. QED
    BY <1>1, <2>1, PutOnTruthful
<1>7. ASSUME NEW c \in Call, RepeatReply(c) PROVE Truthful(stdout', served')
  <2> DEFINE frame == ResponseFrame(c, c)
  <2>1. stdout' = Append(stdout, frame) /\ c \in Ran /\ c \in Nat
    BY <1>7 DEF RepeatReply, Ran, Call
  <2>2. frame \in FromHost /\ frame.of = frame.id /\ frame.id \in Ran
    BY <2>1, FramesAreTyped DEF ResponseFrame
  <2> HIDE DEF frame
  <2>3. QED
    BY <1>1, <2>1, <2>2, PutOnTruthful
<1>8. \/ UNCHANGED stdout \/ ReadFrame \/ CallApplication \/ PluginPrints
      \/ \E size \in {"fits", "long reply"} : Finish(size)
      \/ \E c \in Call : RepeatReply(c)
  BY DEF Next, ReaderStep, ReadEnd, Request, ClientStep, DropRegistry, ApplicationDies, Receiving,
     WriteEnds, ReceiveReply, SkipReply, AnswerCallback, ReceiveError, ReceiveEnd, Disconnected,
     Reaped, Timeout, ShutdownEnds, HostStep, HostTakesQueued, HostReads, HostSeesEnd, HostAwaits,
     HostAwaitsEnd, ProcessEnds, LoadFails, HostCrashes, PluginHangs
<1>9. QED
  BY <1>2, <1>3, <1>4, <1>5, <1>6, <1>7, <1>8

LEMMA RepliesKept ==
  ASSUME RemoteInv, Next
  PROVE  Replies'
<1>1. Truthful(stdout, served)' /\ Truthful(incoming, served)'
  BY StdoutTruthful, IncomingTruthful
<1>2. host'.request # NoRequest => host'.request.id \in Ran'
  <2>1. CASE UNCHANGED served
    <3>1. host'.request \in {host.request, NoRequest}
      <4>1. host \in [pc : {"reading", "running", "awaiting", "hung"}, request : Requests, callback : Nat]
        BY DEF RemoteInv, TypeOK, Requests
      <4>2. CASE UNCHANGED host
        BY <4>2
      <4>3. ASSUME NEW size, Finish(size) PROVE host'.request = NoRequest
        BY <4>3 DEF Finish
      <4>4. CASE HostAwaits
        <5>1. UNCHANGED host \/ Resumes
          BY <4>4 DEF HostAwaits
        <5>2. QED
          BY <4>1, <5>1 DEF Resumes
      <4>5. CASE CallApplication
        <5>1. UNCHANGED host \/ host' = [host EXCEPT !.pc = "awaiting", !.callback = nextCallback]
          BY <4>5 DEF CallApplication
        <5>2. QED
          BY <4>1, <5>1
      <4>6. CASE HostAwaitsEnd \/ PluginHangs
        BY <4>1, <4>6 DEF HostAwaitsEnd, Resumes, PluginHangs
      <4>7. CASE HostTakesQueued \/ HostReads
        <5>1. UNCHANGED host \/ \E id : served' = Append(served, id)
          BY <4>7 DEF HostTakesQueued, HostReads, Serves
        <5>2. served \in Seq(Nat) /\ served' \in Seq(Nat)
          BY RanGrows DEF RemoteInv, TypeOK
        <5>3. ASSUME NEW id, served' = Append(served, id) PROVE FALSE
          <6>1. Len(served) \in Nat /\ Len(Append(served, id)) = Len(served) + 1
            BY <5>2
          <6>2. QED
            BY <2>1, <5>3, <6>1
        <5>4. QED
          BY <5>1, <5>3
      <4>8. \/ UNCHANGED host \/ HostAwaits \/ CallApplication \/ HostAwaitsEnd \/ PluginHangs
            \/ HostTakesQueued \/ HostReads
            \/ \E size \in {"fits", "long reply"} : Finish(size)
        BY DEF Next, ReaderStep, ReadFrame, ReadEnd, Request, ClientStep, DropRegistry, ApplicationDies,
           Receiving, WriteEnds, ReceiveReply, SkipReply, AnswerCallback, ReceiveError, ReceiveEnd,
           Disconnected, Reaped, Timeout, ShutdownEnds, HostStep, HostSeesEnd, ProcessEnds, LoadFails,
           HostCrashes, PluginPrints, RepeatReply, hostVars
      <4>9. QED
        BY <4>2, <4>3, <4>4, <4>5, <4>6, <4>7, <4>8
    <3>2. QED
      BY <2>1, <3>1 DEF RemoteInv, Replies, Ran
  <2>2. ASSUME NEW id \in Nat, served' = Append(served, id), host'.request.id = id
        PROVE  host'.request.id \in Ran'
    BY <2>2, LongerRan DEF RemoteInv, TypeOK
  <2>3. QED
    BY <2>1, <2>2, RanGrows
<1>3. QED
  BY <1>1, <1>2 DEF Replies, NoRequest, RequestFrame

-----------------------------------------------------------------------------
(* Results.                                                                  *)

\* Every step does one of these things to the calls.
Opens == /\ nextId \in Call /\ nextId' = nextId + 1
         /\ result' = [result EXCEPT ![nextId] = "open"]
         /\ UNCHANGED answer
         /\ client'.id = nextId

Refuses == /\ nextId \in Call /\ nextId' = nextId + 1
           /\ \E how \in {"transport", "gone"} : result' = [result EXCEPT ![nextId] = how]
           /\ UNCHANGED answer
           /\ ~InCall'

Answers == /\ client.pc = "waiting"
           /\ result' = [result EXCEPT ![client.id] = "answered"]
           /\ answer' = [answer EXCEPT ![client.id] = client.id]
           /\ client.id \in Ran
           /\ UNCHANGED nextId
           /\ ~InCall'

GivesUp == /\ InCall
           /\ \E how \in {"transport", "gone", "timeout"} : result' = [result EXCEPT ![client.id] = how]
           /\ UNCHANGED <<answer, nextId>>
           /\ ~InCall'

GoesOn == /\ UNCHANGED <<result, answer, nextId>>
          /\ InCall' => InCall /\ client'.id = client.id

LEMMA RequestOnCalls ==
  ASSUME RemoteInv, NEW op \in Operation, NEW size, Request(op, size)
  PROVE  UNCHANGED served /\ (Opens \/ Refuses)
<1>1. nextId \in Call /\ nextId' = nextId + 1 /\ UNCHANGED <<answer, served>>
  BY DEF Request, hostVars
<1>2. CASE size = "long request" \/ proc # "up"
  <2>1. Returns(nextId, op, Diagnosis)
    BY <1>2 DEF Request
  <2>2. QED
    BY <1>1, <2>1, ReturnsTyped, DiagnosisIsError, TypesInParts DEF Refuses, RemoteInv
<1>3. CASE ~(size = "long request" \/ proc # "up")
  <2>1. /\ client' = [pc |-> IF size = "bulk" THEN "writing" ELSE "waiting", id |-> nextId,
                      op |-> IF size = "deep request" THEN "deep" ELSE op]
        /\ result' = [result EXCEPT ![nextId] = "open"]
    BY <1>3 DEF Request
  <2>2. QED
    BY <1>1, <2>1 DEF Opens
<1>4. QED
  BY <1>2, <1>3

LEMMA ClientOnCalls ==
  ASSUME RemoteInv, ClientStep
  PROVE  UNCHANGED served /\ (Answers \/ GivesUp \/ GoesOn)
<1> USE DiagnosisIsError
<1>1. ClientParts /\ Results
  BY TypesInParts DEF RemoteInv
<1>2. UNCHANGED <<served, nextId>>
  BY DEF ClientStep, WriteEnds, ReceiveReply, SkipReply, AnswerCallback, ReceiveError, ReceiveEnd,
     Disconnected, Reaped, Timeout, ShutdownEnds, Receiving, hostVars
<1>3. InCall => client.id \in Call
  BY <1>1 DEF Results
<1>4. ASSUME InCall, NEW how \in {"transport", "gone", "timeout"},
             Returns(client.id, client.op, how), UNCHANGED answer
      PROVE  GivesUp
  BY <1>1, <1>2, <1>3, <1>4, ReturnsTyped DEF GivesUp
<1>5. CASE ReceiveReply
  <2>1. /\ client.pc = "waiting" /\ incoming # <<>> /\ IsReply(Head(incoming))
        /\ Returns(client.id, client.op, "answered")
        /\ answer' = [answer EXCEPT ![client.id] = Head(incoming).of]
    BY <1>5 DEF ReceiveReply, Receiving
  <2>2. Head(incoming) = incoming[1] /\ 1 \in 1..Len(incoming)
    BY <1>1, <2>1, TakenOff DEF ClientParts
  <2>3. Head(incoming).of = client.id /\ client.id \in Ran
    BY <2>1, <2>2, RanCounted DEF RemoteInv, Replies, IsReply
  <2>4. client.id \in Call
    BY <1>3, <2>1 DEF InCall
  <2>5. QED
    BY <1>1, <1>2, <2>1, <2>3, <2>4, ReturnsTyped DEF Answers
<1>6. CASE WriteEnds
  <2>1. CASE proc # "up"
    BY <1>2, <1>4, <1>6, <2>1 DEF WriteEnds, InCall
  <2>2. CASE proc = "up"
    BY <1>1, <1>2, <1>6, <2>2 DEF WriteEnds, GoesOn, InCall, ClientParts, ClientTypes
  <2>3. QED
    BY <2>1, <2>2
<1>7. CASE SkipReply
  BY <1>2, <1>7 DEF SkipReply, GoesOn, InCall
<1>8. ASSUME NEW size, AnswerCallback(size) PROVE GivesUp \/ GoesOn
  <2>1. CASE size = "long answer" \/ proc # "up"
    BY <1>4, <1>8, <2>1 DEF AnswerCallback, Receiving, InCall
  <2>2. CASE ~(size = "long answer" \/ proc # "up")
    BY <1>2, <1>8, <2>2 DEF AnswerCallback, GoesOn, InCall
  <2>3. QED
    BY <2>1, <2>2
<1>9. CASE ReceiveError
  BY <1>2, <1>4, <1>9 DEF ReceiveError, Receiving, InCall
<1>10. CASE ReceiveEnd \/ Disconnected
  <2>1. client.pc = "waiting" /\ client' = [client EXCEPT !.pc = "reaping"] /\ UNCHANGED <<result, answer>>
    BY <1>10 DEF ReceiveEnd, Disconnected, Receiving
  <2>2. QED
    BY <1>1, <1>2, <2>1 DEF GoesOn, InCall, ClientParts, ClientTypes
<1>11. CASE Reaped
  BY <1>2, <1>4, <1>11 DEF Reaped, InCall
<1>12. CASE Timeout
  BY <1>2, <1>4, <1>12 DEF Timeout, InCall
<1>13. CASE ShutdownEnds
  BY <1>2, <1>13, IdleIsTyped DEF ShutdownEnds, GoesOn, InCall
<1>14. QED
  BY <1>2, <1>5, <1>6, <1>7, <1>8, <1>9, <1>10, <1>11, <1>12, <1>13 DEF ClientStep

LEMMA OthersOnCalls ==
  ASSUME RemoteInv,
         DropRegistry \/ ApplicationDies \/ ReaderStep \/ HostStep \/ Mishap
  PROVE  GoesOn
<1>1. CASE DropRegistry \/ ApplicationDies
  BY <1>1, IdleIsTyped DEF DropRegistry, ApplicationDies, GoesOn, InCall
<1>2. CASE ReaderStep \/ HostStep \/ Mishap
  <2>1. UNCHANGED <<client, nextId, result, answer>>
    BY <1>2 DEF ReaderStep, ReadFrame, ReadEnd, HostStep, HostTakesQueued, HostReads, HostSeesEnd,
       HostAwaits, HostAwaitsEnd, Finish, Mishap, ProcessEnds, LoadFails, CallApplication, HostCrashes,
       PluginHangs, PluginPrints, RepeatReply, clientVars
  <2>2. QED
    BY <2>1 DEF GoesOn, InCall
<1>3. QED
  BY <1>1, <1>2

LEMMA StepOnCalls ==
  ASSUME RemoteInv, Next
  PROVE  \/ UNCHANGED served /\ (Opens \/ Refuses \/ Answers \/ GivesUp)
         \/ GoesOn
BY RequestOnCalls, ClientOnCalls, OthersOnCalls DEF Next, Mishap

LEMMA ResultsKept ==
  ASSUME RemoteInv, Next
  PROVE  Results'
<1>1. /\ result \in [Call -> {"none", "open", "answered", "transport", "gone", "timeout"}]
      /\ answer \in [Call -> Nat] /\ Results
  BY DEF RemoteInv, TypeOK
<1>2. Ran \subseteq Ran'
  BY RanKept
<1>3. CASE Opens
  BY <1>1, <1>2, <1>3 DEF Opens, Results, Call
<1>4. CASE Refuses
  BY <1>1, <1>2, <1>4 DEF Refuses, Results, Call
<1>5. CASE Answers
  <2>1. InCall
    BY <1>5 DEF Answers, InCall
  <2>2. QED
    BY <1>1, <1>2, <1>5, <2>1 DEF Answers, Results, Call
<1>6. CASE GivesUp
  BY <1>1, <1>2, <1>6 DEF GivesUp, Results, Call
<1>7. CASE GoesOn
  BY <1>1, <1>2, <1>7 DEF GoesOn, Results, Call
<1>8. QED
  BY <1>3, <1>4, <1>5, <1>6, <1>7, StepOnCalls

-----------------------------------------------------------------------------
(* The invariant, and what it is for.                                        *)

LEMMA RemoteInvStarts == Init => RemoteInv
<1>1. SUFFICES ASSUME Init PROVE RemoteInv
  OBVIOUS
<1>2. TypeOK
  BY <1>1, RemoteTypesStart
<1>3. /\ stdin = <<>> /\ stdout = <<>> /\ incoming = <<>> /\ queued = <<>> /\ served = <<>>
      /\ nextId = 1 /\ result = [c \in Call |-> "none"] /\ client = Idle
      /\ host.request = NoRequest
  BY <1>1 DEF Init
<1>4. Len(<<>>) = 0
  BY EmptySeq
<1>5. Lines
  BY <1>3, <1>4 DEF Lines, ServedInOrder, InOrder, QueuedFirst, Between
<1>6. Replies
  BY <1>3, <1>4 DEF Replies, Truthful
<1>7. Results
  BY <1>3 DEF Results, InCall, Idle, Call
<1>8. QED
  BY <1>2, <1>5, <1>6, <1>7 DEF RemoteInv

LEMMA RemoteInvKept == RemoteInv /\ [Next]_vars => RemoteInv'
<1>1. SUFFICES ASSUME RemoteInv, [Next]_vars PROVE RemoteInv'
  OBVIOUS
<1>2. CASE Next
  BY <1>1, <1>2, RemoteTypesKept, LinesKept, RepliesKept, ResultsKept DEF RemoteInv
<1>3. CASE UNCHANGED vars
  <2>1. TypeOK'
    BY <1>1, <1>3 DEF RemoteInv, TypeOK, vars, clientVars, hostVars
  <2>2. Lines'
    BY <1>1, <1>3, LinesStay DEF RemoteInv, vars, clientVars, hostVars
  <2>3. Replies'
    BY <1>1, <1>3 DEF RemoteInv, Replies, Truthful, Ran, vars, clientVars, hostVars
  <2>4. Results'
    BY <1>1, <1>3 DEF RemoteInv, Results, Ran, InCall, vars, clientVars, hostVars
  <2>5. QED
    BY <2>1, <2>2, <2>3, <2>4 DEF RemoteInv
<1>4. QED
  BY <1>1, <1>2, <1>3

LEMMA RemoteInvHolds == Spec => []RemoteInv
BY RemoteInvStarts, RemoteInvKept, PTL DEF Spec

\* The host runs every request at most once and in the order the application made
\* them, however many it put aside while a plugin waited for a capability.
THEOREM RequestsRunInOrder == Spec => []ServedInOrder
<1>1. RemoteInv => ServedInOrder
  BY DEF RemoteInv, Lines
<1> QED
  BY <1>1, RemoteInvHolds, PTL

-----------------------------------------------------------------------------
(* What becomes of a call, seen from the application, is what RemoteCalls    *)
(* says: the state of a call follows its result, for an answer is its own.   *)

\* The state of a call that has this result.
StateOf(r) == CASE r = "none" -> "new" [] r = "open" -> "open" [] r = "answered" -> "answered"
                [] OTHER -> "failed"

LEMMA StatesFollowResults ==
  /\ RemoteInv => CallState = [c \in Call |-> StateOf(result[c])]
  /\ RemoteInv' => CallState' = [c \in Call |-> StateOf(result'[c])]
BY DEF RemoteInv, Results, CallState, StateOf

LEMMA CallsInit == Init => Calls!Init
<1>1. SUFFICES ASSUME Init PROVE Calls!Init
  OBVIOUS
<1>2. result = [c \in Call |-> "none"] /\ served = <<>>
  BY <1>1 DEF Init
<1>3. CallState = [c \in Call |-> "new"]
  BY <1>2 DEF CallState
<1>4. Ran = {}
  BY <1>2, EmptySeq DEF Ran
<1>5. QED
  BY <1>3, <1>4 DEF Calls!Init

\* A call gets a new result, and nothing runs: one step of the abstract call.
LEMMA ResultStep ==
  ASSUME RemoteInv, RemoteInv', NEW c \in Call, NEW r,
         result' = [result EXCEPT ![c] = r], UNCHANGED served
  PROVE  CallState' = [CallState EXCEPT ![c] = StateOf(r)] /\ UNCHANGED Ran
<1>1. result \in [Call -> {"none", "open", "answered", "transport", "gone", "timeout"}]
  BY DEF RemoteInv, TypeOK
<1>2. QED
  BY <1>1, StatesFollowResults DEF Ran

\* A request that begins to run was made, was not answered, and had not run.
LEMMA RunStep ==
  ASSUME RemoteInv, RemoteInv', NEW id \in Nat, served' = Append(served, id),
         UNCHANGED <<result, answer>>
  PROVE  id \in Call /\ Calls!Run(id)
<1>1. /\ served \in Seq(Nat)
      /\ result \in [Call -> {"none", "open", "answered", "transport", "gone", "timeout"}]
      /\ Results
  BY DEF RemoteInv, TypeOK
<1>2. /\ Len(served') = Len(served) + 1 /\ Len(served) \in Nat
      /\ \A k \in 1..Len(served) : served'[k] = served[k]
      /\ served'[Len(served) + 1] = id
  BY <1>1, PutOn
<1>3. id \in Call /\ id < nextId'
  BY <1>2 DEF RemoteInv, Lines
<1>4. \A k \in 1..Len(served) : served[k] < id
  BY <1>2 DEF RemoteInv, Lines, ServedInOrder
<1>5. id \notin Ran
  BY <1>3, <1>4 DEF Ran, Call
<1>6. result[id] \notin {"none", "answered"}
  BY <1>1, <1>3, <1>5 DEF RemoteInv, Results
<1>7. CallState[id] \in {"open", "failed"} /\ UNCHANGED CallState
  BY <1>1, <1>3, <1>6, StatesFollowResults DEF StateOf
<1>8. Ran' = Ran \union {id}
  BY <1>1, LongerRan
<1>9. QED
  BY <1>3, <1>5, <1>7, <1>8 DEF Calls!Run

LEMMA CallsNext == RemoteInv /\ RemoteInv' /\ [Next]_vars => [Calls!Next]_<<CallState, Ran>>
<1>1. SUFFICES ASSUME RemoteInv, RemoteInv', [Next]_vars PROVE [Calls!Next]_<<CallState, Ran>>
  OBVIOUS
<1>2. Results /\ result \in [Call -> {"none", "open", "answered", "transport", "gone", "timeout"}]
  BY <1>1 DEF RemoteInv, TypeOK
<1>3. CallState = [c \in Call |-> StateOf(result[c])]
  BY <1>1, StatesFollowResults
<1>4. CASE UNCHANGED vars
  BY <1>4 DEF vars, clientVars, hostVars, CallState, Ran
<1>5. CASE Next
  <2>1. CASE UNCHANGED served /\ Opens
    <3>1. nextId \in Call /\ result[nextId] = "none"
      BY <1>2, <2>1 DEF Opens, Results, Call
    <3>2. CallState' = [CallState EXCEPT ![nextId] = "open"] /\ UNCHANGED Ran
      BY <1>1, <2>1, <3>1, ResultStep DEF Opens, StateOf
    <3>3. Calls!Make(nextId)
      BY <1>3, <3>1, <3>2 DEF Calls!Make, StateOf
    <3>4. QED
      BY <3>1, <3>3 DEF Calls!Next
  <2>2. CASE UNCHANGED served /\ Refuses
    <3>1. nextId \in Call /\ result[nextId] = "none"
      BY <1>2, <2>2 DEF Refuses, Results, Call
    <3>2. CallState' = [CallState EXCEPT ![nextId] = "failed"] /\ UNCHANGED Ran
      BY <1>1, <2>2, <3>1, ResultStep DEF Refuses, StateOf
    <3>3. Calls!Fail(nextId)
      BY <1>3, <3>1, <3>2 DEF Calls!Fail, StateOf
    <3>4. QED
      BY <3>1, <3>3 DEF Calls!Next
  <2>3. CASE UNCHANGED served /\ Answers
    <3>1. client.id \in Call /\ result[client.id] = "open" /\ client.id \in Ran
      BY <1>2, <2>3 DEF Answers, Results, InCall
    <3>2. CallState' = [CallState EXCEPT ![client.id] = "answered"] /\ UNCHANGED Ran
      BY <1>1, <2>3, <3>1, ResultStep DEF Answers, StateOf
    <3>3. Calls!Answer(client.id)
      BY <1>3, <3>1, <3>2 DEF Calls!Answer, StateOf
    <3>4. QED
      BY <3>1, <3>3 DEF Calls!Next
  <2>4. CASE UNCHANGED served /\ GivesUp
    <3>1. client.id \in Call /\ result[client.id] = "open"
      BY <1>2, <2>4 DEF GivesUp, Results, InCall
    <3>2. CallState' = [CallState EXCEPT ![client.id] = "failed"] /\ UNCHANGED Ran
      BY <1>1, <2>4, <3>1, ResultStep DEF GivesUp, StateOf
    <3>3. Calls!Fail(client.id)
      BY <1>3, <3>1, <3>2 DEF Calls!Fail, StateOf
    <3>4. QED
      BY <3>1, <3>3 DEF Calls!Next
  <2>5. CASE GoesOn
    <3>1. CASE UNCHANGED served
      BY <2>5, <3>1 DEF GoesOn, CallState, Ran
    <3>2. ASSUME NEW id \in Nat, served' = Append(served, id) PROVE Calls!Next
      BY <1>1, <2>5, <3>2, RunStep DEF GoesOn, Calls!Next
    <3>3. QED
      BY <1>1, <1>5, <3>1, <3>2, RanGrows
  <2>6. QED
    BY <1>1, <1>5, <2>1, <2>2, <2>3, <2>4, <2>5, StepOnCalls
<1>6. QED
  BY <1>1, <1>4, <1>5

\* A call is made once and runs at most once; the answer a caller gets is what its own
\* run produced, and never comes after an error was reported for the call.
THEOREM RemoteImplementsCalls == Spec => ImplementsCalls
<1> QED
  BY CallsInit, CallsNext, RemoteInvHolds, PTL DEF Spec, ImplementsCalls, Calls!Spec
=============================================================================
