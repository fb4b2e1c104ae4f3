------------------------------- MODULE Remote -------------------------------
(***************************************************************************)
(* The application's RemoteRegistry (stanchion-remote, client.rs), the     *)
(* host process that serves it (server.rs, bin_common.rs) and the pipes    *)
(* between them (frame.rs), with the thread that reads the host's stdout.  *)
(*                                                                         *)
(* The client sends one request at a time and waits for the reply with     *)
(* its id, answering the capability callbacks that come before it.  The    *)
(* host loads its plugins, then serves; plugin code, in either, may call   *)
(* back, and the host then reads its stdin itself until the answer comes,  *)
(* queueing requests.  Which of the things that can go wrong do, is the    *)
(* set `world`, chosen at the start and kept.                              *)
(***************************************************************************)
EXTENDS Naturals, Sequences

CONSTANTS MaxCalls,       \* bound: calls the application makes
          MaxCallbacks,   \* bound: callbacks plugins make
          Worlds          \* the sets of happenings a behaviour may have

(***************************************************************************)
(* "deadline": calls have a timeout.  "preload": the host was given a      *)
(* plugin root.  "callback": plugins use forwarded capabilities.  "crash": *)
(* the process may die.  "exit": the application may.  "hang": plugin code *)
(* may never return.  "print": it may write a line of its own to stdout.   *)
(* "bulk": a request may be larger than the pipe holds.  "long request",   *)
(* "long reply", "long answer": a message may exceed the frame limit.      *)
(* "deep request", "deep answer": it may nest deeper than its reader       *)
(* parses.  "stray": a host of another make repeats a reply it sent.       *)
(***************************************************************************)
Happenings == {"deadline", "preload", "callback", "crash", "exit", "hang", "print", "bulk",
               "long request", "long reply", "long answer", "deep request", "deep answer",
               "stray"}

ASSUME BoundAssumption == MaxCalls \in Nat /\ MaxCallbacks \in Nat
ASSUME WorldAssumption == Worlds \subseteq SUBSET Happenings

Call == 1..MaxCalls
Callback == 1..MaxCallbacks
Operation == {"call", "shutdown"}

VARIABLES world,        \* the happenings of this behaviour
          client,       \* the application's thread: [pc, id and op of the request it is in;
                        \* "deep" when its frame is no message]
          nextId,       \* RemoteRegistry::next_id
          result,       \* history: how each call ended
          answer,       \* history: the request whose run produced the answer of each call
          stdin,        \* frames in the pipe to the host
          stdout,       \* frames in the pipe from the host
          incoming,     \* the channel from the reader thread
          reader,       \* "on" until the reader thread has ended and closed its pipe
          proc,         \* the process: "up", "closed" (its pipes are shut) or "gone" (it can be waited for)
          host,         \* what it does: [pc, request it runs, callback it waits for]
          queued,       \* ChannelState::queued
          nextCallback, \* ChannelState::next_callback
          served,       \* history: the requests run, in order
          spent         \* bound: "print" and "stray" happen once in a behaviour

clientVars == <<client, nextId, result, answer>>
hostVars == <<host, queued, nextCallback, served>>
vars == <<world, clientVars, stdin, stdout, incoming, reader, proc, hostVars, spent>>

RequestFrame(id, op) == [kind |-> "request", id |-> id, op |-> op]
ResponseFrame(id, of) == [kind |-> "response", id |-> id, of |-> of]
Garbage == [kind |-> "garbage"]
EndOfStream == [kind |-> "end"]

\* A request that is none: what the host is in while it loads, and between requests.
NoRequest == RequestFrame(0, "call")

Idle == [pc |-> "idle", id |-> 0, op |-> "call"]

Init == /\ world \in Worlds
        /\ client = Idle
        /\ nextId = 1
        /\ result = [c \in Call |-> "none"]
        /\ answer = [c \in Call |-> 0]
        /\ stdin = <<>> /\ stdout = <<>> /\ incoming = <<>>
        /\ reader = "on"
        /\ proc = "up"
        /\ host = [pc |-> IF "preload" \in world THEN "running" ELSE "reading",
                   request |-> NoRequest, callback |-> 0]
        /\ queued = <<>>
        /\ nextCallback = 1
        /\ served = <<>>
        /\ spent = {}
-----------------------------------------------------------------------------
(* The client.                                                             *)

\* diagnose: a transport error is reported as a dead host when the process
\* can be waited for already.
Diagnosis == IF proc = "gone" THEN "gone" ELSE "transport"

\* call_host returns `how` for request id; shutdown goes on to wait for the process.
Returns(id, op, how) ==
  /\ result' = [result EXCEPT ![id] = how]
  /\ client' = IF op = "shutdown" THEN [Idle EXCEPT !.pc = "leaving"] ELSE Idle

\* call_host up to the write: a number is used up whatever becomes of the
\* request; a frame over the limit is refused before anything is written; a
\* process that is no longer there breaks the pipe; a frame larger than the
\* pipe blocks the writer until the host has read it, deadline or not.  One
\* that nests too deep is written, and is no message to the host.
Request(op, size) ==
  /\ client.pc = "idle"
  /\ nextId \in Call
  /\ size = "fits" \/ (size \in world /\ op = "call")
  /\ nextId' = nextId + 1
  /\ IF size = "long request" \/ proc # "up"
     THEN /\ Returns(nextId, op, Diagnosis)
          /\ UNCHANGED stdin
     ELSE /\ stdin' = Append(stdin, IF size = "deep request" THEN Garbage
                                                           ELSE RequestFrame(nextId, op))
          /\ client' = [pc |-> IF size = "bulk" THEN "writing" ELSE "waiting",
                        id |-> nextId, op |-> IF size = "deep request" THEN "deep" ELSE op]
          /\ result' = [result EXCEPT ![nextId] = "open"]
  /\ UNCHANGED <<world, answer, stdout, incoming, reader, proc, hostVars, spent>>

\* The write of a large request ends: the host took it, or is no more.
WriteEnds ==
  /\ client.pc = "writing"
  /\ IF proc # "up"
     THEN Returns(client.id, client.op, Diagnosis)
     ELSE /\ stdin = <<>>
          /\ client' = [client EXCEPT !.pc = "waiting"]
          /\ UNCHANGED result
  /\ UNCHANGED <<world, nextId, answer, stdin, stdout, incoming, reader, proc, hostVars, spent>>

\* The loop of call_host takes a frame from the channel.
Receiving == /\ client.pc = "waiting"
             /\ incoming # <<>>
             /\ incoming' = Tail(incoming)
             /\ UNCHANGED <<world, nextId, stdout, reader, proc, hostVars, spent>>

\* Fault: any reply is taken for the one waited for.
AnyReply(frame) == frame.kind = "response"

\* The reply with the id of the request ends the call; any other is passed over.
IsReply(frame) == frame.kind = "response" /\ frame.id = client.id

ReceiveReply ==
  /\ Receiving
  /\ IsReply(Head(incoming))
  /\ Returns(client.id, client.op, "answered")
  /\ answer' = [answer EXCEPT ![client.id] = Head(incoming).of]
  /\ UNCHANGED stdin

SkipReply ==
  /\ Receiving
  /\ Head(incoming).kind = "response"
  /\ ~ IsReply(Head(incoming))
  /\ UNCHANGED <<client, result, answer, stdin>>

\* answer_callback.  Whether the callback is malformed, not allowed, answered by
\* the handler or refused for want of one, a response with its id is written;
\* if that fails, the call ends there.
AnswerCallback(size) ==
  /\ Receiving
  /\ Head(incoming).kind = "request"
  /\ size = "fits" \/ size \in world
  /\ IF size = "long answer" \/ proc # "up"
     THEN /\ Returns(client.id, client.op, Diagnosis)
          /\ UNCHANGED stdin
     ELSE /\ stdin' = Append(stdin, IF size = "deep answer" THEN Garbage
                              ELSE ResponseFrame(Head(incoming).id, Head(incoming).id))
          /\ UNCHANGED <<client, result>>
  /\ UNCHANGED answer

\* A line that is no message, or a broken pipe, ends the call with an error.
ReceiveError ==
  /\ Receiving
  /\ Head(incoming).kind = "garbage"
  /\ Returns(client.id, client.op, Diagnosis)
  /\ UNCHANGED <<answer, stdin>>

\* gone: at the end of the stream, or when the reader thread has ended, the
\* client waits for the process, without a deadline.
ReceiveEnd ==
  /\ Receiving
  /\ Head(incoming).kind = "end"
  /\ client' = [client EXCEPT !.pc = "reaping"]
  /\ UNCHANGED <<result, answer, stdin>>

Disconnected ==
  /\ client.pc = "waiting"
  /\ incoming = <<>> /\ reader = "off"
  /\ client' = [client EXCEPT !.pc = "reaping"]
  /\ UNCHANGED <<world, nextId, result, answer, stdin, stdout, incoming, reader, proc, hostVars, spent>>

Reaped ==
  /\ client.pc = "reaping"
  /\ proc = "gone"
  /\ Returns(client.id, client.op, "gone")
  /\ UNCHANGED <<world, nextId, answer, stdin, stdout, incoming, reader, proc, hostVars, spent>>

\* timed_out: the process is killed and waited for.
Timeout ==
  /\ "deadline" \in world
  /\ client.pc = "waiting"
  /\ incoming = <<>> /\ reader = "on"
  /\ proc' = "gone"
  /\ Returns(client.id, client.op, "timeout")
  /\ UNCHANGED <<world, nextId, answer, stdin, stdout, incoming, reader, hostVars, spent>>

\* shutdown waits for the process whatever its request came to.
ShutdownEnds ==
  /\ client.pc = "leaving"
  /\ proc = "gone"
  /\ client' = [Idle EXCEPT !.pc = "closed"]
  /\ UNCHANGED <<world, nextId, result, answer, stdin, stdout, incoming, reader, proc, hostVars, spent>>

\* Fault: Drop trusts that the process ends when its stdin does.
DropTrusting ==
  /\ client.pc = "idle"
  /\ client' = [Idle EXCEPT !.pc = "closed"]
  /\ UNCHANGED <<world, nextId, result, answer, stdin, stdout, incoming, reader, proc, hostVars, spent>>

\* Drop: stdin was taken out of the child when it was launched, so it is still
\* open when the process is looked at, and what runs then is killed.
DropRegistry ==
  /\ client.pc = "idle"
  /\ client' = [Idle EXCEPT !.pc = "closed"]
  /\ proc' = "gone"
  /\ UNCHANGED <<world, nextId, result, answer, stdin, stdout, incoming, reader, hostVars, spent>>

\* The application's process ends without dropping anything.
ApplicationDies ==
  /\ "exit" \in world
  /\ client.pc \notin {"closed", "dead"}
  /\ client' = [Idle EXCEPT !.pc = "dead"]
  /\ reader' = "off"
  /\ UNCHANGED <<world, nextId, result, answer, stdin, stdout, incoming, proc, hostVars, spent>>
-----------------------------------------------------------------------------
(* The reader thread of spawn_reader.                                      *)

\* It passes on what it reads and ends after an error, or when nobody listens.
ReadFrame ==
  /\ reader = "on"
  /\ stdout # <<>>
  /\ stdout' = Tail(stdout)
  /\ incoming' = IF client.pc = "closed" THEN incoming ELSE Append(incoming, Head(stdout))
  /\ reader' = IF Head(stdout) = Garbage \/ client.pc = "closed" THEN "off" ELSE "on"
  /\ UNCHANGED <<world, clientVars, stdin, proc, hostVars, spent>>

ReadEnd ==
  /\ reader = "on"
  /\ stdout = <<>> /\ proc # "up"
  /\ incoming' = IF client.pc = "closed" THEN incoming ELSE Append(incoming, EndOfStream)
  /\ reader' = "off"
  /\ UNCHANGED <<world, clientVars, stdin, stdout, proc, hostVars, spent>>
-----------------------------------------------------------------------------
(* The host.                                                               *)

StdinClosed == client.pc \in {"closed", "dead"}

\* The host exits, because it served all there was or could not go on.
Exits == proc' = "closed"

Serves(request) == /\ host' = [pc |-> "running", request |-> request, callback |-> 0]
                   /\ served' = Append(served, request.id)

\* Fault: a queued request is looked at and left in the queue.
HostPeeksQueued ==
  /\ proc = "up" /\ host.pc = "reading"
  /\ queued # <<>>
  /\ Serves(Head(queued))
  /\ UNCHANGED <<world, clientVars, stdin, stdout, incoming, reader, proc, queued, nextCallback, spent>>

\* serve and next_request: a queued request first, then what arrives; a reply
\* nobody waits for is passed over; a line that is no message ends serving with
\* an error, as the end of the stream ends it without.
HostTakesQueued ==
  /\ proc = "up" /\ host.pc = "reading"
  /\ queued # <<>>
  /\ Serves(Head(queued))
  /\ queued' = Tail(queued)
  /\ UNCHANGED <<world, clientVars, stdin, stdout, incoming, reader, proc, nextCallback, spent>>

HostReads ==
  /\ proc = "up" /\ host.pc = "reading"
  /\ queued = <<>>
  /\ stdin # <<>>
  /\ stdin' = Tail(stdin)
  /\ IF Head(stdin).kind = "request"
     THEN Serves(Head(stdin))
     ELSE UNCHANGED <<host, served>>
  /\ IF Head(stdin) = Garbage THEN Exits ELSE UNCHANGED proc
  /\ UNCHANGED <<world, clientVars, stdout, incoming, reader, queued, nextCallback, spent>>

HostSeesEnd ==
  /\ proc = "up" /\ host.pc = "reading"
  /\ queued = <<>> /\ stdin = <<>> /\ StdinClosed
  /\ Exits
  /\ UNCHANGED <<world, clientVars, stdin, stdout, incoming, reader, hostVars, spent>>

\* handle has returned, with a value or an error: the response is written.  A
\* pipe without a reader and a response over the limit end serve with an error;
\* after the response to a shutdown it ends too.  Loading sends nothing.
Finish(size) ==
  /\ proc = "up" /\ host.pc = "running"
  /\ size = "fits" \/ (size \in world /\ host.request.op = "call")
  /\ LET request == host.request
         loading == request = NoRequest
         sent == ~ loading /\ reader = "on" /\ size = "fits"
     IN  /\ stdout' = IF sent THEN Append(stdout, ResponseFrame(request.id, request.id)) ELSE stdout
         /\ IF (~ loading /\ ~ sent) \/ request.op = "shutdown" THEN Exits ELSE UNCHANGED proc
         /\ host' = [pc |-> "reading", request |-> NoRequest, callback |-> 0]
  /\ UNCHANGED <<world, clientVars, stdin, incoming, reader, queued, nextCallback, served, spent>>

\* run ends the process when the plugin root cannot be loaded at all.
LoadFails ==
  /\ proc = "up" /\ host.pc = "running" /\ host.request = NoRequest
  /\ Exits
  /\ UNCHANGED <<world, clientVars, stdin, stdout, incoming, reader, hostVars, spent>>

\* call_application: plugin code uses a forwarded capability.  If the request
\* cannot be written, the plugin gets an error and goes on.
CallApplication ==
  /\ "callback" \in world
  /\ proc = "up" /\ host.pc = "running" /\ host.request.op = "call"
  /\ nextCallback \in Callback
  /\ nextCallback' = nextCallback + 1
  /\ IF reader = "on"
     THEN /\ stdout' = Append(stdout, RequestFrame(nextCallback, "call"))
          /\ host' = [host EXCEPT !.pc = "awaiting", !.callback = nextCallback]
     ELSE UNCHANGED <<stdout, host>>
  /\ UNCHANGED <<world, clientVars, stdin, incoming, reader, proc, queued, served, spent>>

\* While it waits the host takes its answer, queues requests and passes over
\* other answers; at the end of the stream, or after a line that is no message,
\* the plugin gets an error.
IsAnswer(frame) == frame.kind = "response" /\ frame.id = host.callback

Resumes == host' = [host EXCEPT !.pc = "running", !.callback = 0]

\* Fault: requests that arrive meanwhile are dropped.
HostAwaitsOnly ==
  /\ proc = "up" /\ host.pc = "awaiting"
  /\ stdin # <<>>
  /\ stdin' = Tail(stdin)
  /\ IF IsAnswer(Head(stdin)) THEN Resumes ELSE UNCHANGED host
  /\ UNCHANGED <<world, clientVars, stdout, incoming, reader, proc, queued, nextCallback, served, spent>>

HostAwaits ==
  /\ proc = "up" /\ host.pc = "awaiting"
  /\ stdin # <<>>
  /\ stdin' = Tail(stdin)
  /\ LET frame == Head(stdin)
     IN  /\ queued' = IF frame.kind = "request" THEN Append(queued, frame) ELSE queued
         /\ IF frame = Garbage \/ IsAnswer(frame) THEN Resumes ELSE UNCHANGED host
  /\ UNCHANGED <<world, clientVars, stdout, incoming, reader, proc, nextCallback, served, spent>>

HostAwaitsEnd ==
  /\ proc = "up" /\ host.pc = "awaiting"
  /\ stdin = <<>> /\ StdinClosed
  /\ Resumes
  /\ UNCHANGED <<world, clientVars, stdin, stdout, incoming, reader, proc, queued, nextCallback, served, spent>>

\* What plugin code may do to its process: end it, never return, or write to stdout.
HostCrashes ==
  /\ "crash" \in world
  /\ proc = "up" /\ host.pc = "running"
  /\ Exits
  /\ UNCHANGED <<world, clientVars, stdin, stdout, incoming, reader, hostVars, spent>>

PluginHangs ==
  /\ "hang" \in world
  /\ proc = "up" /\ host.pc = "running"
  /\ host' = [host EXCEPT !.pc = "hung"]
  /\ UNCHANGED <<world, clientVars, stdin, stdout, incoming, reader, proc, queued, nextCallback, served, spent>>

PluginPrints ==
  /\ "print" \in world
  /\ proc = "up" /\ host.pc = "running" /\ reader = "on"
  /\ "print" \notin spent
  /\ spent' = spent \union {"print"}
  /\ stdout' = Append(stdout, Garbage)
  /\ UNCHANGED <<world, clientVars, stdin, incoming, reader, proc, hostVars>>

\* The process can be waited for some time after its pipes are shut.
ProcessEnds ==
  /\ proc = "closed"
  /\ proc' = "gone"
  /\ UNCHANGED <<world, clientVars, stdin, stdout, incoming, reader, hostVars, spent>>

\* A confused host repeats a reply it sent before.
RepeatReply(c) ==
  /\ "stray" \in world \ spent
  /\ proc = "up" /\ reader = "on"
  /\ \E i \in 1..Len(served) : served[i] = c /\ (host.request.id # c)
  /\ stdout' = Append(stdout, ResponseFrame(c, c))
  /\ spent' = spent \union {"stray"}
  /\ UNCHANGED <<world, clientVars, stdin, incoming, reader, proc, hostVars>>
-----------------------------------------------------------------------------
ClientStep == \/ WriteEnds \/ ReceiveReply \/ SkipReply
              \/ \E size \in {"fits", "long answer", "deep answer"} : AnswerCallback(size)
              \/ ReceiveError \/ ReceiveEnd \/ Disconnected \/ Reaped
              \/ Timeout \/ ShutdownEnds

ReaderStep == ReadFrame \/ ReadEnd

HostStep == \/ HostTakesQueued \/ HostReads \/ HostSeesEnd
            \/ \E size \in {"fits", "long reply"} : Finish(size)
            \/ HostAwaits \/ HostAwaitsEnd

Next == \/ \E op \in Operation, size \in {"fits", "bulk", "long request", "deep request"} :
             Request(op, size)
        \/ DropRegistry \/ ApplicationDies
        \/ ClientStep \/ ReaderStep \/ HostStep \/ ProcessEnds
        \/ LoadFails \/ CallApplication \/ HostCrashes \/ PluginHangs \/ PluginPrints
        \/ \E c \in Call : RepeatReply(c)

Spec == Init /\ [][Next]_vars

(***************************************************************************)
(* The two processes and the thread keep running, plugin code that does    *)
(* not hang returns (the instruction limit sees to Lua), and a process     *)
(* that ended can be waited for.  Nothing makes the application call, or   *)
(* end, and nothing has to go wrong.                                       *)
(***************************************************************************)
FairSpec == /\ Spec
            /\ WF_vars(ClientStep)
            /\ WF_vars(ReaderStep)
            /\ WF_vars(HostStep)
            /\ WF_vars(ProcessEnds)
-----------------------------------------------------------------------------
Frames == [kind : {"request"}, id : Nat, op : Operation]
            \union [kind : {"response"}, id : Nat, of : Nat]

TypeOK == /\ world \in Worlds
          /\ client \in [pc : {"idle", "writing", "waiting", "reaping", "leaving", "closed", "dead"},
                         id : Nat, op : Operation \union {"deep"}]
          /\ nextId \in 1..(MaxCalls + 1)
          /\ result \in [Call -> {"none", "open", "answered", "transport", "gone", "timeout"}]
          /\ answer \in [Call -> Nat]
          /\ stdin \in Seq(Frames \union {Garbage})
          /\ stdout \in Seq(Frames \union {Garbage})
          /\ incoming \in Seq(Frames \union {Garbage, EndOfStream})
          /\ reader \in {"on", "off"}
          /\ proc \in {"up", "closed", "gone"}
          /\ host \in [pc : {"reading", "running", "awaiting", "hung"},
                       request : [kind : {"request"}, id : Nat, op : Operation], callback : Nat]
          /\ queued \in Seq([kind : {"request"}, id : Nat, op : Operation])
          /\ nextCallback \in 1..(MaxCallbacks + 1)
          /\ served \in Seq(Nat)
          /\ spent \subseteq {"print", "stray"}

\* The host runs every request once, in the order they were made, also those it
\* queued while it waited for an answer of the application.
ServedInOrder == \A i, j \in 1..Len(served) : i < j => served[i] < served[j]

\* The calls as the application sees them, and what runs, are those of RemoteCalls:
\* an answer is that of the run of its own request.
CallState == [c \in Call |-> CASE result[c] = "none" -> "new"
                               [] result[c] = "open" -> "open"
                               [] result[c] = "answered" -> IF answer[c] = c THEN "answered" ELSE "wrong"
                               [] OTHER -> "failed"]
Ran == {served[i] : i \in 1..Len(served)}

Calls == INSTANCE RemoteCalls WITH state <- CallState, ran <- Ran

\* What the client and the host do together implements RemoteCalls.
ImplementsCalls == Calls!Spec

\* Inside a request, and inside a method of the registry.
InCall == client.pc \in {"writing", "waiting", "reaping"}
InMethod == InCall \/ client.pc = "leaving"

\* The answer the host waits for is in its pipe, or the application may still write it.
Answerable ==
  \/ \E i \in 1..Len(stdin) : IsAnswer(stdin[i])
  \/ /\ client.pc \in {"writing", "waiting"}
     /\ \E frames \in {incoming, IF reader = "on" THEN stdout ELSE <<>>} :
          \E i \in 1..Len(frames) :
            frames[i].kind = "request" /\ frames[i].id = host.callback

\* The host runs, and will for ever: its plugin code does not come back, or waits
\* for an answer that nobody is going to write.
Stuck == proc = "up" /\ (host.pc = "hung" \/ (host.pc = "awaiting" /\ ~ Answerable))

\* A request that is no message was read where the host waited for an answer: the
\* plugin got the error, and the request has no reply.
Swallowed == client.pc \in {"waiting", "reaping"} /\ client.op = "deep" /\ proc = "up" /\ stdin = <<>>

\* The application waits for it at a place no deadline covers: the write of a
\* request, the wait for the process, or any wait when there is no deadline.
HeldUp == (Stuck \/ Swallowed) /\ ~ (client.pc = "waiting" /\ "deadline" \in world)

(* Every method of the registry returns, shutdown too, whatever is lost, too long or
   no message, unless the application waits where no deadline covers it, and the
   host is stuck or took the request for an answer (client.rs, call_host, gone and
   shutdown; server.rs, call_application). *)
CallsReturn == InMethod ~> (~ InMethod \/ HeldUp)

(* No process is left behind when the registry is dropped; when it is shut down, or
   lost with its application, none is left that is not stuck: a host that waits for
   an answer of an application that is gone sees the end of its stdin (client.rs,
   shutdown and drop; server.rs, call_application). *)
ChildEnds == /\ (client.pc = "closed") ~> (proc = "gone")
             /\ (client.pc = "leaving") ~> (proc = "gone" \/ Stuck \/ client.pc = "dead")
             /\ (client.pc = "dead") ~> (proc = "gone" \/ host.pc = "hung")

(* What docs/remote.md says of the deadline: it kills a host that stops responding
   "rather than blocking your thread".  It does not, where the host does not read a
   request larger than the pipe (client.rs, frame::write before recv_timeout), and
   where the wait is for the process (gone, shutdown). *)
DeadlineFrees == "deadline" \in world => (InMethod ~> ~ InMethod)

(* The host ends with its application: it does not, while plugin code hangs. *)
HostEndsWithApplication == (client.pc = "dead") ~> (proc = "gone")
=============================================================================
