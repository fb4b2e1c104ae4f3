--------------------------- MODULE PackageStream ---------------------------
(***************************************************************************)
(* One package on its way from the index server's disk to a client         *)
(* (stanchion-index, stream.rs and the adapters; HttpSource::fetch): a     *)
(* blocking worker reads chunks into a bounded queue, the adapter drains   *)
(* it into the response's body, and the client counts what arrives.        *)
(***************************************************************************)
EXTENDS Naturals, Sequences

CONSTANTS QueueDepth,   \* QUEUE_DEPTH
          MaxChunks,    \* bound: the chunks of the largest package
          Limit         \* HttpSource::limit, in chunks

ASSUME StreamAssumption == QueueDepth \in Nat \ {0} /\ MaxChunks \in Nat /\ Limit \in Nat

VARIABLES size,         \* the package, in chunks
          known,        \* whether Blob::len is there, so that Content-Length is sent
          unread,       \* chunks the worker has not read yet
          worker,       \* "reading", "holding" a chunk, "failing" with an error, "off"
          queue,        \* the channel
          receiver,     \* "open" until the response body is dropped
          got,          \* chunks the client has
          result        \* "waiting", "package", "over_limit", "transport"

streamVars == <<size, known, unread, worker, queue, receiver, got, result>>

StreamInit == /\ size \in 0..MaxChunks
              /\ known \in BOOLEAN
              /\ unread = size
              /\ worker = "reading"
              /\ queue = <<>>
              /\ receiver = "open"
              /\ got = 0
              /\ result = "waiting"

\* `reader.read`: a chunk, the end of the file, or an error.
Read == /\ worker = "reading"
        /\ \/ unread > 0 /\ worker' = "holding" /\ unread' = unread - 1
           \/ unread = 0 /\ worker' = "off" /\ UNCHANGED unread
           \/ worker' = "failing" /\ UNCHANGED unread
        /\ UNCHANGED <<size, known, queue, receiver, got, result>>

\* Fault: a worker whose client hung up waits for room in the queue.
SendDeaf == /\ worker = "holding"
            /\ Len(queue) < QueueDepth
            /\ queue' = Append(queue, "chunk")
            /\ worker' = "reading"
            /\ UNCHANGED <<size, known, unread, receiver, got, result>>

\* blocking_send of a chunk: waits for room, fails once the receiver is gone.
Send == /\ worker = "holding"
        /\ \/ /\ receiver = "open" /\ Len(queue) < QueueDepth
              /\ queue' = Append(queue, "chunk")
              /\ worker' = "reading"
           \/ /\ receiver = "closed"
              /\ worker' = "off"
              /\ UNCHANGED queue
        /\ UNCHANGED <<size, known, unread, receiver, got, result>>

\* Fault: a failing read ends the stream like the end of the file.
SendErrorMute == /\ worker = "failing"
                 /\ worker' = "off"
                 /\ UNCHANGED <<size, known, unread, queue, receiver, got, result>>

\* blocking_send of the error, whether or not anybody is there to get it.
SendError == /\ worker = "failing"
             /\ \/ receiver = "open" /\ Len(queue) < QueueDepth /\ queue' = Append(queue, "error")
                \/ receiver = "closed" /\ UNCHANGED queue
             /\ worker' = "off"
             /\ UNCHANGED <<size, known, unread, receiver, got, result>>

\* The body is dropped and with it the channel's receiving end.
Drop == receiver' = "closed" /\ queue' = <<>>

\* The adapter passes a chunk on; an error breaks the connection off.
Deliver == /\ receiver = "open" /\ queue # <<>>
           /\ IF Head(queue) = "chunk"
              THEN /\ got' = got + 1
                   /\ queue' = Tail(queue)
                   /\ UNCHANGED <<receiver, result>>
              ELSE /\ result' = "transport"
                   /\ Drop
                   /\ UNCHANGED got
           /\ UNCHANGED <<size, known, unread, worker>>

\* The end of the body.  HTTP itself tells when it is not the announced length.
BodyEnds == /\ receiver = "open" /\ queue = <<>> /\ worker = "off"
            /\ result' = IF known /\ got # size THEN "transport"
                         ELSE IF got > Limit THEN "over_limit" ELSE "package"
            /\ Drop
            /\ UNCHANGED <<size, known, unread, worker, got>>

\* HttpSource::fetch refuses a declared length over the limit, and stops reading one
\* byte past the limit when none was declared.
OverLimit == /\ receiver = "open"
             /\ (known /\ size > Limit) \/ got > Limit
             /\ result' = "over_limit"
             /\ Drop
             /\ UNCHANGED <<size, known, unread, worker, got>>

\* The client's timeout, or the client going away.
HangUp == /\ receiver = "open"
          /\ result' = "transport"
          /\ Drop
          /\ UNCHANGED <<size, known, unread, worker, got>>

StreamNext == Read \/ Send \/ SendError \/ Deliver \/ BodyEnds \/ OverLimit \/ HangUp

\* The worker's thread runs when it can, and the client reads on or gives up.
StreamFair == /\ WF_streamVars(Read) /\ WF_streamVars(Send) /\ WF_streamVars(SendError)
              /\ WF_streamVars(Deliver \/ BodyEnds \/ OverLimit \/ HangUp)

StreamSpec == StreamInit /\ [][StreamNext]_streamVars /\ StreamFair
-----------------------------------------------------------------------------
\* What the client takes for the package is all of it: a read that fails half way is never
\* the end of the body, announced length or not (stream.rs:25).
WholeOrRefused == result = "package" => got = size /\ size <= Limit

\* The worker's thread comes back: a client that hangs up does not leave it waiting for
\* room in a queue that nobody drains (stream.rs:47).
WorkerStops == worker # "off" ~> worker = "off"
=============================================================================
