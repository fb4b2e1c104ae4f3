----------------------------- MODULE IndexProofs -----------------------------
(***************************************************************************)
(* What holds of the index and of a package on its way from it, for every  *)
(* size of a package and of the queue, every lifetime and every clock.     *)
(***************************************************************************)
EXTENDS IndexService, PackageStream, FiniteSetTheorems, WellFoundedInduction, TLAPS

-----------------------------------------------------------------------------
(* The package's stream.                                                   *)

StreamTypes == /\ size \in 0..MaxChunks
               /\ known \in BOOLEAN
               /\ unread \in Nat
               /\ worker \in {"reading", "holding", "failing", "off"}
               /\ queue \in Seq({"chunk", "error"})
               /\ receiver \in {"open", "closed"}
               /\ got \in Nat
               /\ result \in {"waiting", "package", "over_limit", "transport"}

\* So far every chunk is with the client, in the queue, in the worker's hands or unread.
OnTheWay == /\ \A i \in 1..Len(queue) : queue[i] = "chunk"
            /\ got + Len(queue) + unread + (IF worker = "holding" THEN 1 ELSE 0) = size
            /\ worker = "off" => unread = 0

\* A read failed: the error is the last thing in the queue, and nothing comes after it.
BrokenOff == worker = "off" /\ Len(queue) > 0 /\ queue[Len(queue)] = "error"

\* While the body is open the client has no result, and misses nothing without an error
\* being on its way; a result once given stays as it is.
StreamInv == /\ StreamTypes
             /\ receiver = "open" => result = "waiting" /\ (OnTheWay \/ BrokenOff)
             /\ WholeOrRefused

LEMMA StreamStarts == StreamInit => StreamInv
BY StreamAssumption DEF StreamInit, StreamInv, StreamTypes, OnTheWay, WholeOrRefused

LEMMA ReadKeeps == ASSUME StreamInv, Read PROVE StreamInv'
BY DEF StreamInv, StreamTypes, Read, OnTheWay, BrokenOff, WholeOrRefused

LEMMA SendKeeps == ASSUME StreamInv, Send PROVE StreamInv'
BY DEF StreamInv, StreamTypes, Send, OnTheWay, BrokenOff, WholeOrRefused

LEMMA SendErrorKeeps == ASSUME StreamInv, SendError PROVE StreamInv'
BY DEF StreamInv, StreamTypes, SendError, OnTheWay, BrokenOff, WholeOrRefused

LEMMA DeliverKeeps == ASSUME StreamInv, Deliver PROVE StreamInv'
<1> USE DEF StreamInv, StreamTypes
<1>1. CASE Head(queue) = "chunk"
  <2>1. /\ Tail(queue) \in Seq({"chunk", "error"})
        /\ Len(Tail(queue)) = Len(queue) - 1 /\ Len(queue) > 0
        /\ \A i \in 1..Len(Tail(queue)) : Tail(queue)[i] = queue[i + 1]
        /\ Head(queue) = queue[1]
    BY DEF Deliver
  <2>2. got' = got + 1 /\ queue' = Tail(queue) /\ worker' = worker /\ unread' = unread
        /\ size' = size /\ receiver' = receiver /\ result' = result /\ known' = known
    BY <1>1 DEF Deliver
  <2>3. CASE OnTheWay
    <3>1. OnTheWay'
      BY <2>1, <2>2, <2>3 DEF OnTheWay
    <3>2. QED
      BY <2>1, <2>2, <3>1 DEF Deliver, WholeOrRefused
  <2>4. CASE BrokenOff
    <3>1. BrokenOff'
      BY <1>1, <2>1, <2>2, <2>4 DEF BrokenOff
    <3>2. QED
      BY <2>1, <2>2, <3>1 DEF Deliver, WholeOrRefused
  <2>5. QED
    BY <2>3, <2>4 DEF Deliver
<1>2. CASE Head(queue) # "chunk"
  BY <1>2 DEF Deliver, Drop, WholeOrRefused
<1>3. QED
  BY <1>1, <1>2

LEMMA BodyEndsKeeps == ASSUME StreamInv, BodyEnds PROVE StreamInv'
BY StreamAssumption DEF StreamInv, StreamTypes, BodyEnds, Drop, OnTheWay, BrokenOff, WholeOrRefused

LEMMA RefusalKeeps == ASSUME StreamInv, OverLimit \/ HangUp PROVE StreamInv'
<1>0. <<>> \in Seq({"chunk", "error"})
  OBVIOUS
<1>1. StreamTypes'
  BY <1>0 DEF StreamInv, StreamTypes, OverLimit, HangUp, Drop
<1>2. receiver' # "open" /\ result' # "package"
  BY DEF OverLimit, HangUp, Drop
<1>3. QED
  BY <1>1, <1>2 DEF StreamInv, WholeOrRefused

\* What the client takes for the package is all of it, and within the limit: a read that
\* fails half way, a client that hangs up and a queue of any depth included.
THEOREM PackagesAreWhole == StreamSpec => []WholeOrRefused
<1>1. StreamInv /\ [StreamNext]_streamVars => StreamInv'
  <2>1. SUFFICES ASSUME StreamInv, [StreamNext]_streamVars PROVE StreamInv'
    OBVIOUS
  <2>2. CASE UNCHANGED streamVars
    BY <2>1, <2>2 DEF StreamInv, StreamTypes, OnTheWay, BrokenOff, WholeOrRefused, streamVars
  <2>3. QED
    BY <2>1, <2>2, ReadKeeps, SendKeeps, SendErrorKeeps, DeliverKeeps, BodyEndsKeeps,
       RefusalKeeps DEF StreamNext
<1>2. StreamInv => WholeOrRefused
  BY DEF StreamInv
<1>3. QED
  BY StreamStarts, <1>1, <1>2, PTL DEF StreamSpec
-----------------------------------------------------------------------------
(* The index.  A history, `offered`, tells when each version was last on   *)
(* offer; every document under way was on offer no longer ago than its     *)
(* expiry tells.                                                           *)

\* A document that offers a version expires at most a lifetime after the version was last
\* on offer.
Covered(doc, last) == /\ doc.listing \in [Versions -> Status]
                      /\ doc.expires \in Nat
                      /\ \A v \in Versions : doc.listing[v] = "offered"
                                              => doc.expires <= last[v] + Ttl

IndexTypes == /\ now \in Nat
              /\ file \in {"ok", "missing", "malformed", "unreadable"}
              /\ listing \in [Versions -> Status]
              /\ offered \in [Versions -> Int]

\* Nothing was on offer later than now, and what is on offer is on offer now.
OfferedSoFar == \A v \in Versions : /\ offered[v] <= now
                                    /\ file = "ok" /\ listing[v] = "offered"
                                         => offered[v] = now

\* The cache keeps a document with itself as the validator, and not for too long.
CacheKept == cache = None \/ /\ Covered(cache.doc, offered)
                             /\ cache.etag = cache.doc
                             /\ cache.freshUntil \in Nat
                             /\ cache.freshUntil <= cache.doc.expires

MirrorKept == mirror = None \/ (mirror.status = 200 /\ Covered(mirror.doc, offered))

\* A request under way: the validator sent is that of the cache's entry, which stays.
Sent(r) == /\ DOMAIN r = {"step", "way", "ifNoneMatch", "at", "answer"}
           /\ r.at \in Nat /\ r.at <= now
           /\ r.ifNoneMatch # None => cache # None /\ cache.doc = r.ifNoneMatch

\* What the server answered to it: a document that expires when its age has run out, in
\* place or as the one the cache has; or an error, which has no age.
Served(r) ==
  /\ DOMAIN r.answer = {"status", "doc", "etag", "maxAge"}
  /\ r.answer.status \in {200, 304, 400, 404, 500}
  /\ r.answer.status \in {200, 304}
       => /\ Covered(r.answer.etag, offered)
          /\ r.answer.maxAge \in Nat
          /\ r.answer.etag.expires = r.at + r.answer.maxAge
  /\ r.answer.status = 200 => r.answer.doc = r.answer.etag
  /\ r.answer.status = 304 => cache # None /\ cache.doc = r.answer.etag
  /\ r.answer.status \in {400, 404, 500} => r.answer.maxAge = 0
  /\ r.answer.status = 404 => missing

\* What the client is to get.
Answered(r) == /\ r.answer.status = 200 => Covered(r.answer.doc, offered)
               /\ r.answer.status = 404 => missing

RequestKept ==
  request = None \/ /\ request.step \in {"sent", "cached", "answered"}
                    /\ request.step = "sent" => Sent(request)
                    /\ request.step = "cached" => Sent(request) /\ Served(request)
                    /\ request.step = "answered" => Answered(request)
                    /\ request.step = "sent" /\ file = "missing" => missing

IndexInv == /\ IndexTypes /\ OfferedSoFar
            /\ CacheKept
            /\ MirrorKept
            /\ RequestKept
            /\ YankReaches

(* Arithmetic of the windows, and the newest of finitely many versions.    *)

\* A window begins no later than the moment it is for, and ends after what remains.
LEMMA WindowOf ==
  ASSUME NEW t \in Nat
  PROVE  /\ WindowStart(t) \in Nat /\ WindowStart(t) <= t
         /\ Remaining(t) \in Nat
         /\ WindowStart(t) + Ttl = t + Remaining(t)
<1> DEFINE r == t % Ttl
           start == (t \div Ttl) * Ttl
<1>1. Ttl \in Nat \ {0} /\ r \in 0..(Ttl - 1) /\ start \in Nat
  BY TimeAssumption
<1>2. t = start + r
  BY TimeAssumption
<1>3. WindowStart(t) = start /\ Remaining(t) = Ttl - r
  BY DEF WindowStart, Remaining
<1> HIDE DEF r, start
<1>4. QED
  BY <1>1, <1>2, <1>3

\* A finite set of numbers that is not empty has a greatest and a least.
LEMMA ExtremeExists ==
  ASSUME NEW S, S \subseteq Nat, IsFiniteSet(S), S # {}, NEW up \in BOOLEAN
  PROVE  \E x \in S : \A y \in S : IF up THEN x >= y ELSE x =< y
<1> DEFINE HasExtreme(A) == \E x \in A : \A y \in A : IF up THEN x >= y ELSE x =< y
           Bad == {A \in SUBSET S : A # {} /\ ~HasExtreme(A)}
<1>1. SUFFICES ASSUME ~HasExtreme(S) PROVE FALSE
  OBVIOUS
<1>2. Bad \subseteq SUBSET S /\ Bad # {}
  BY <1>1
<1>3. IsWellFoundedOn(StrictSubsetOrdering(S), SUBSET S)
  BY FS_StrictSubsetOrderingWellFounded, FS_FiniteSubsetsOfFinite
<1>4. PICK A \in Bad : \A B \in Bad : ~(<<B, A>> \in StrictSubsetOrdering(S))
  <2> HIDE DEF Bad
  <2>1. QED
    BY <1>2, <1>3, WFMin
<1>5. PICK x \in A : TRUE
  OBVIOUS
<1>6. CASE A \ {x} = {}
  <2>1. x >= x /\ x =< x /\ \A y \in A : y = x
    BY <1>6, <1>5
  <2>2. QED
    BY <2>1, <1>5
<1>7. CASE A \ {x} # {}
  <2>1. <<A \ {x}, A>> \in StrictSubsetOrdering(S)
    BY <1>5 DEF StrictSubsetOrdering
  <2>2. HasExtreme(A \ {x})
    BY <1>4, <1>7, <2>1
  <2>3. PICK m \in A \ {x} : \A y \in A \ {x} : IF up THEN m >= y ELSE m =< y
    BY <2>2
  <2>4. m \in Nat /\ x \in Nat /\ A \subseteq Nat
    BY <1>5
  <2>5. CASE IF up THEN m >= x ELSE m =< x
    BY <2>3, <2>5
  <2>6. CASE IF up THEN x >= m ELSE x =< m
    <3>1. \A y \in A : IF up THEN x >= y ELSE x =< y
      BY <2>3, <2>4, <2>6, <1>5
    <3>2. QED
      BY <3>1, <1>5
  <2>7. QED
    BY <2>4, <2>5, <2>6
<1>8. QED
  BY <1>6, <1>7

\* Max and Min of such a set are members of it.
LEMMA MaxIsMember ==
  ASSUME NEW S, S \subseteq Nat, IsFiniteSet(S), S # {}
  PROVE  Max(S) \in S
<1>1. \E x \in S : \A y \in S : x >= y
  BY ExtremeExists
<1>2. QED
  BY <1>1 DEF Max

LEMMA MinIsMember ==
  ASSUME NEW S, S \subseteq Nat, IsFiniteSet(S), S # {}
  PROVE  Min(S) \in S
<1>1. \E x \in S : \A y \in S : x =< y
  BY ExtremeExists
<1>2. QED
  BY <1>1 DEF Min

\* A document that covered what was last on offer covers it when more was on offer since.
LEMMA StaysCovered ==
  ASSUME NEW doc, NEW last \in [Versions -> Int], NEW since \in [Versions -> Int],
         \A v \in Versions : last[v] <= since[v], Covered(doc, last)
  PROVE  Covered(doc, since)
BY TimeAssumption DEF Covered

-----------------------------------------------------------------------------
(* The steps.                                                              *)

\* Whatever happens, a version that was on offer was on offer no earlier than was known.
OfferedGrows == \A v \in Versions : offered[v] <= offered'[v]

LEMMA HistoryKept ==
  ASSUME IndexTypes, OfferedSoFar, Next
  PROVE  IndexTypes' /\ OfferedSoFar' /\ OfferedGrows
<1> USE TimeAssumption DEF IndexTypes, OfferedSoFar, OfferedGrows, Status
<1>1. CASE Tick
  BY <1>1 DEF Tick
<1>2. ASSUME NEW v \in Versions, Publish(v)
      PROVE  IndexTypes' /\ OfferedSoFar' /\ OfferedGrows
  BY <1>2 DEF Publish
<1>3. ASSUME NEW state \in {"ok", "missing", "malformed", "unreadable"}, Damage(state)
      PROVE  IndexTypes' /\ OfferedSoFar' /\ OfferedGrows
  BY <1>3 DEF Damage
<1>4. CASE UNCHANGED <<now, file, listing, offered>>
  BY <1>4
<1>5. QED
  BY <1>1, <1>2, <1>3, <1>4 DEF Next, Ask, Serve, Store, Receive, Copy, AskMirror

\* What cache and mirror keep stays covered while they are left alone.
LEMMA CacheStays ==
  ASSUME IndexTypes, IndexTypes', OfferedGrows, CacheKept, UNCHANGED cache
  PROVE  CacheKept'
<1>1. cache # None => Covered(cache.doc, offered')
  BY StaysCovered DEF IndexTypes, OfferedGrows, CacheKept
<1>2. QED
  BY <1>1 DEF CacheKept

LEMMA MirrorStays ==
  ASSUME IndexTypes, IndexTypes', OfferedGrows, MirrorKept, UNCHANGED mirror
  PROVE  MirrorKept'
<1>1. mirror # None => Covered(mirror.doc, offered')
  BY StaysCovered DEF IndexTypes, OfferedGrows, MirrorKept
<1>2. QED
  BY <1>1 DEF MirrorKept

\* A request under way stays what it is while nobody handles it.
LEMMA RequestStays ==
  ASSUME IndexTypes, IndexTypes', OfferedGrows, RequestKept, now <= now',
         UNCHANGED <<request, cache>>,
         missing => missing',
         request # None /\ file' = "missing" => missing' \/ file = "missing"
  PROVE  RequestKept'
<1>1. CASE request = None
  BY <1>1 DEF RequestKept
<1>2. CASE request # None /\ request.step = "sent"
  BY <1>2 DEF RequestKept, Sent, IndexTypes
<1>3. CASE request # None /\ request.step = "cached"
  <2>1. request.answer.status \in {200, 304} => Covered(request.answer.etag, offered')
    BY <1>3, StaysCovered DEF RequestKept, Served, IndexTypes, OfferedGrows
  <2>2. Sent(request) /\ Served(request)
    BY <1>3 DEF RequestKept
  <2>3. Sent(request)'
    BY <2>2 DEF Sent, IndexTypes
  <2>4. Served(request)'
    BY <2>1, <2>2 DEF Served
  <2>5. QED
    BY <1>3, <2>3, <2>4 DEF RequestKept
<1>4. CASE request # None /\ request.step = "answered"
  <2>1. request.answer.status = 200 => Covered(request.answer.doc, offered')
    BY <1>4, StaysCovered DEF RequestKept, Answered, IndexTypes, OfferedGrows
  <2>2. QED
    BY <1>4, <2>1 DEF RequestKept, Answered
<1>5. QED
  BY <1>1, <1>2, <1>3, <1>4 DEF RequestKept

\* The client asks: its validator is the entry's, and what the cache gives is covered.
LEMMA AskKeeps ==
  ASSUME IndexInv, IndexTypes', NEW way \in {"straight", "cache"}, Ask(way)
  PROVE  RequestKept'
<1>1. /\ offered' = offered /\ cache' = cache /\ now' = now /\ file' = file
      /\ missing' = (file = "missing")
  BY DEF Ask
<1>2. CASE way = "cache" /\ cache # None /\ now < cache.freshUntil
  <2>1. /\ request'.step = "answered" /\ request'.answer.status = 200
        /\ request'.answer.doc = cache.doc
    BY <1>2 DEF Ask
  <2>2. Covered(cache.doc, offered)
    BY <1>2 DEF IndexInv, CacheKept
  <2>3. Answered(request)'
    BY <1>1, <2>1, <2>2 DEF Answered
  <2>4. QED
    BY <2>1, <2>3 DEF RequestKept
<1>3. CASE ~(way = "cache" /\ cache # None /\ now < cache.freshUntil)
  <2>1. /\ request'.step = "sent" /\ request'.at = now
        /\ request'.ifNoneMatch = IF way = "cache" /\ cache # None THEN cache.etag ELSE None
        /\ DOMAIN request' = {"step", "way", "ifNoneMatch", "at", "answer"}
    BY <1>3 DEF Ask
  <2>2. Sent(request)'
    BY <1>1, <2>1 DEF Sent, IndexInv, IndexTypes, CacheKept
  <2>3. QED
    BY <1>1, <2>1, <2>2 DEF RequestKept
<1>4. QED
  BY <1>2, <1>3

\* The server's answer: its lifetime is that of the window the request came in.
LEMMA ServeKeeps ==
  ASSUME IndexInv, Serve
  PROVE  RequestKept'
<1> DEFINE r == request
           fresh == Releases(r.at)
           answer == Conditional(fresh, r.ifNoneMatch)
<1>1. /\ offered' = offered /\ cache' = cache /\ now' = now /\ file' = file
      /\ missing' = missing
      /\ r # None /\ r.step = "sent" /\ Sent(r)
      /\ r.at \in Nat /\ r.at <= now
      /\ DOMAIN r = {"step", "way", "ifNoneMatch", "at", "answer"}
      /\ file = "missing" => missing
  BY DEF Serve, IndexInv, RequestKept, Sent
<1>2. /\ request'.answer = answer /\ request'.at = r.at
      /\ request'.ifNoneMatch = r.ifNoneMatch
      /\ request'.step = IF r.way = "cache" THEN "cached" ELSE "answered"
      /\ DOMAIN request' = DOMAIN r
  BY <1>1 DEF Serve
<1>3. CASE file = "ok"
  <2> DEFINE doc == [listing |-> listing, updated |-> WindowStart(r.at),
                     expires |-> WindowStart(r.at) + Ttl]
  <2>1. /\ fresh.status = 200 /\ fresh.doc = doc /\ fresh.etag = doc
        /\ fresh.maxAge = Remaining(r.at)
        /\ DOMAIN fresh = {"status", "doc", "etag", "maxAge"}
    BY <1>3 DEF Releases, Document, Window, Etag
  <2>2. Covered(doc, offered)
    <3>1. doc.listing = listing /\ doc.expires = WindowStart(r.at) + Ttl
      OBVIOUS
    <3>2. \A v \in Versions : listing[v] = "offered" => offered[v] = now
      BY <1>3 DEF IndexInv, OfferedSoFar
    <3>3. QED
      BY <1>1, <3>1, <3>2, WindowOf, TimeAssumption DEF Covered, IndexInv, IndexTypes
  <2>3. doc.expires = r.at + Remaining(r.at) /\ Remaining(r.at) \in Nat
    BY <1>1, WindowOf
  <2> HIDE DEF doc
  <2>4. CASE r.ifNoneMatch # None /\ fresh.etag = r.ifNoneMatch
    <3>1. /\ answer.status = 304 /\ answer.etag = doc
          /\ answer.maxAge = Remaining(r.at)
          /\ DOMAIN answer = {"status", "doc", "etag", "maxAge"}
      BY <2>1, <2>4 DEF Conditional
    <3>2. cache # None /\ cache.doc = doc
      BY <1>1, <2>1, <2>4 DEF Sent
    <3>3. Served(request)' /\ Answered(request)'
      BY <1>1, <1>2, <2>2, <2>3, <3>1, <3>2 DEF Served, Answered
    <3>4. Sent(request)'
      BY <1>1, <1>2 DEF Sent
    <3>5. QED
      BY <1>2, <3>3, <3>4 DEF RequestKept
  <2>5. CASE ~(r.ifNoneMatch # None /\ fresh.etag = r.ifNoneMatch)
    <3>1. answer = fresh
      BY <2>5 DEF Conditional
    <3>2. Served(request)' /\ Answered(request)'
      BY <1>1, <1>2, <2>1, <2>2, <2>3, <3>1 DEF Served, Answered
    <3>3. Sent(request)'
      BY <1>1, <1>2 DEF Sent
    <3>4. QED
      BY <1>2, <3>2, <3>3 DEF RequestKept
  <2>6. QED
    BY <2>4, <2>5
<1>4. CASE file # "ok"
  <2>1. /\ fresh.status \in {400, 404, 500} /\ fresh.maxAge = 0
        /\ DOMAIN fresh = {"status", "doc", "etag", "maxAge"}
        /\ fresh.status = 404 => file = "missing"
    BY <1>4 DEF Releases, ErrorFor, ErrorAnswer, IndexInv, IndexTypes
  <2>2. answer = fresh
    BY <2>1 DEF Conditional
  <2>3. Served(request)' /\ Answered(request)'
    BY <1>1, <1>2, <2>1, <2>2 DEF Served, Answered
  <2>4. Sent(request)'
    BY <1>1, <1>2 DEF Sent
  <2>5. QED
    BY <1>2, <2>3, <2>4 DEF RequestKept
<1>5. QED
  BY <1>3, <1>4

\* The cache stores what has an age until it has run out, which is when the document
\* expires: a 304 is for the entry that is there.
LEMMA StoreKeeps ==
  ASSUME IndexInv, Store
  PROVE  CacheKept' /\ RequestKept'
<1> DEFINE r == request
           answer == r.answer
           doc == IF answer.status = 304 THEN cache.doc ELSE answer.doc
<1>1. /\ offered' = offered /\ missing' = missing
      /\ r # None /\ r.step = "cached" /\ Served(r) /\ r.at \in Nat
  BY DEF Store, IndexInv, RequestKept, Sent
<1>2. CASE answer.maxAge > 0
  <2>1. /\ cache' = [doc |-> doc, etag |-> answer.etag, freshUntil |-> r.at + answer.maxAge]
        /\ request' = [r EXCEPT !.step = "answered", !.answer.doc = doc,
                                !.answer.status = IF @ = 304 THEN 200 ELSE @]
    BY <1>2 DEF Store
  <2>2. answer.status \in {200, 304}
    BY <1>1, <1>2 DEF Served
  <2>3. /\ doc = answer.etag /\ Covered(doc, offered)
        /\ doc.expires = r.at + answer.maxAge /\ answer.maxAge \in Nat
    BY <1>1, <2>2 DEF Served
  <2>4. /\ cache'.doc = doc /\ cache'.etag = answer.etag
        /\ cache'.freshUntil = r.at + answer.maxAge
    BY <2>1
  <2> HIDE DEF doc
  <2>5. CacheKept'
    BY <1>1, <2>3, <2>4 DEF CacheKept
  <2>6. request'.step = "answered"
    BY <2>1, <1>1
  <2>7. Answered(request)'
    <3>1. /\ DOMAIN r = {"step", "way", "ifNoneMatch", "at", "answer"}
          /\ DOMAIN answer = {"status", "doc", "etag", "maxAge"}
      BY <1>1 DEF Served, Store, IndexInv, RequestKept, Sent
    <3>2. request'.answer = [answer EXCEPT !.doc = doc, !.status = IF @ = 304 THEN 200 ELSE @]
      BY <2>1, <3>1
    <3>3. request'.answer.doc = doc /\ request'.answer.status = 200
      BY <2>2, <3>1, <3>2
    <3>4. QED
      BY <1>1, <2>3, <3>3 DEF Answered
  <2>8. QED
    BY <2>5, <2>6, <2>7 DEF RequestKept
<1>3. CASE ~(answer.maxAge > 0)
  <2>1. cache' = cache /\ request' = [r EXCEPT !.step = "answered"]
    BY <1>3 DEF Store
  <2>2. CacheKept'
    BY <1>1, <2>1 DEF CacheKept, IndexInv
  <2>3. request'.answer = answer /\ request'.step = "answered"
    BY <2>1, <1>1
  <2>4. Answered(request)'
    BY <1>1, <2>3 DEF Answered, Served
  <2>5. QED
    BY <2>2, <2>3, <2>4 DEF RequestKept
<1>4. QED
  BY <1>2, <1>3

\* A version that is pinned is on offer in a document that is not past its expiry, so
\* it was on offer a lifetime ago at most.
LEMMA ReceiveKeeps ==
  ASSUME IndexInv, Receive
  PROVE  YankReaches'
<1>1. /\ offered' = offered /\ request # None /\ Answered(request)
  BY DEF Receive, IndexInv, RequestKept
<1>2. PICK skew \in Skews, requirement \in Requirements :
        pin' = IF Outcome(request.answer, requirement, skew) = "pinned"
               THEN [version |-> BestMatch(request.answer.doc, requirement),
                     at |-> now, skew |-> skew]
               ELSE pin
  BY DEF Receive
<1>3. CASE Outcome(request.answer, requirement, skew) = "pinned"
  <2> DEFINE doc == request.answer.doc
             found == Matches(doc, requirement)
  <2>1. /\ request.answer.status = 200 /\ Fresh(doc, skew)
        /\ BestMatch(doc, requirement) # None
    BY <1>3, Zenon DEF Outcome
  <2>2. found # {} /\ BestMatch(doc, requirement) = Max(found)
    BY <2>1 DEF BestMatch
  <2>3. found \subseteq Versions
    <3>1. requirement \subseteq Versions
      <4>1. Min(Versions) \in Versions
        BY MinIsMember, VersionsAssumption
      <4>2. QED
        BY <4>1 DEF Requirements
    <3>2. QED
      BY <3>1 DEF Matches
  <2>4. Max(found) \in found
    <3>1. IsFiniteSet(found) /\ found \subseteq Nat
      BY <2>3, FS_Subset, VersionsAssumption
    <3> HIDE DEF found
    <3>2. QED
      BY <2>2, <3>1, MaxIsMember
  <2>5. doc.listing[Max(found)] = "offered" /\ Max(found) \in Versions
    BY <2>3, <2>4 DEF Matches
  <2>6. doc.expires \in Nat /\ doc.expires <= offered[Max(found)] + Ttl
    BY <1>1, <2>1, <2>5 DEF Answered, Covered
  <2>7. Policy # "Ignored" => now + skew <= doc.expires
    BY <2>1 DEF Fresh
  <2>8. pin'.version = Max(found) /\ pin'.at = now /\ pin'.skew = skew
    BY <1>2, <1>3, <2>2
  <2>9. /\ now \in Nat /\ skew \in Int /\ offered[Max(found)] \in Int
        /\ Ttl \in Nat
    BY <2>5, TimeAssumption DEF IndexInv, IndexTypes
  <2> HIDE DEF doc, found
  <2>10. QED
    BY <1>1, <2>6, <2>7, <2>8, <2>9 DEF YankReaches
<1>4. CASE Outcome(request.answer, requirement, skew) # "pinned"
  BY <1>1, <1>2, <1>4 DEF IndexInv, YankReaches
<1>5. QED
  BY <1>3, <1>4

\* What the mirror keeps is an answer under way, and what it gives is what it kept.
LEMMA MirrorKeeps ==
  ASSUME IndexInv, Copy \/ AskMirror
  PROVE  MirrorKept' /\ RequestKept'
<1>1. CASE Copy
  <2>1. /\ mirror' = request.answer /\ request.answer.status = 200
        /\ Covered(request.answer.doc, offered)
    BY <1>1 DEF Copy, IndexInv, RequestKept, Answered
  <2>2. RequestKept'
    BY <1>1 DEF Copy, IndexInv, RequestKept, Answered
  <2>3. QED
    BY <1>1, <2>1, <2>2 DEF Copy, MirrorKept
<1>2. CASE AskMirror
  <2>1. /\ request'.step = "answered" /\ request'.answer = mirror
        /\ mirror.status = 200 /\ Covered(mirror.doc, offered)
    BY <1>2 DEF AskMirror, IndexInv, MirrorKept
  <2>2. Answered(request)'
    BY <1>2, <2>1 DEF AskMirror, Answered
  <2>3. QED
    BY <1>2, <2>1, <2>2 DEF AskMirror, IndexInv, MirrorKept, RequestKept
<1>3. QED
  BY <1>1, <1>2

LEMMA IndexStarts == Init => IndexInv
BY TimeAssumption DEF Init, NoPin, IndexInv, IndexTypes, Status, OfferedSoFar, CacheKept,
   MirrorKept, RequestKept, YankReaches

\* Clock and publisher leave the request alone, and tell it of a missing document.
LEMMA OutsideKeeps ==
  ASSUME IndexInv, IndexTypes', OfferedGrows,
         \/ Tick
         \/ \E v \in Versions : Publish(v)
         \/ \E state \in {"ok", "missing", "malformed", "unreadable"} : Damage(state)
  PROVE  CacheKept' /\ MirrorKept' /\ RequestKept' /\ UNCHANGED pin
<1>1. UNCHANGED <<request, cache, mirror, pin>> /\ now <= now'
  BY DEF Tick, Publish, Damage, IndexInv, IndexTypes
<1>2. /\ missing => missing'
      /\ request # None /\ file' = "missing" => missing' \/ file = "missing"
  <2>1. CASE UNCHANGED <<file, missing>>
    BY <2>1
  <2>2. ASSUME NEW state, Damage(state)
        PROVE  /\ missing => missing'
               /\ request # None /\ file' = "missing" => missing' \/ file = "missing"
    BY <2>2, Zenon DEF Damage
  <2>3. QED
    BY <2>1, <2>2 DEF Tick, Publish
<1>3. QED
  BY <1>1, <1>2, CacheStays, MirrorStays, RequestStays DEF IndexInv

LEMMA IndexStep == IndexInv /\ [Next]_vars => IndexInv'
<1>1. SUFFICES ASSUME IndexInv, [Next]_vars PROVE IndexInv'
  OBVIOUS
<1>2. CASE UNCHANGED vars
  BY <1>1, <1>2 DEF vars, IndexInv, IndexTypes, OfferedSoFar, CacheKept, MirrorKept,
     RequestKept, Sent, Served, Answered, YankReaches
<1>3. CASE Next
  <2>1. IndexTypes' /\ OfferedSoFar' /\ OfferedGrows
    BY <1>1, <1>3, HistoryKept DEF IndexInv
  <2>2. pin.version = None
    BY <1>3 DEF Next, NoPin
  <2>3. UNCHANGED pin => YankReaches'
    BY <2>2 DEF YankReaches
  <2>4. UNCHANGED cache => CacheKept'
    BY <1>1, <2>1, CacheStays DEF IndexInv
  <2>5. UNCHANGED mirror => MirrorKept'
    BY <1>1, <2>1, MirrorStays DEF IndexInv
  <2>6. CASE \/ Tick
             \/ \E v \in Versions : Publish(v)
             \/ \E state \in {"ok", "missing", "malformed", "unreadable"} : Damage(state)
    BY <1>1, <2>1, <2>3, <2>6, OutsideKeeps DEF IndexInv
  <2>7. ASSUME NEW way \in {"straight", "cache"}, Ask(way) PROVE IndexInv'
    BY <1>1, <2>1, <2>3, <2>4, <2>5, <2>7, AskKeeps DEF Ask, IndexInv
  <2>8. CASE Serve
    BY <1>1, <2>1, <2>3, <2>4, <2>5, <2>8, ServeKeeps DEF Serve, IndexInv
  <2>9. CASE Store
    BY <1>1, <2>1, <2>3, <2>5, <2>9, StoreKeeps DEF Store, IndexInv
  <2>10. CASE Receive
    <3>1. RequestKept'
      BY <2>10 DEF Receive, RequestKept
    <3>2. QED
      BY <1>1, <2>1, <2>4, <2>5, <2>10, <3>1, ReceiveKeeps DEF Receive, IndexInv
  <2>11. CASE Copy \/ AskMirror
    BY <1>1, <2>1, <2>3, <2>4, <2>11, MirrorKeeps DEF Copy, AskMirror, IndexInv
  <2>12. QED
    BY <1>3, <2>6, <2>7, <2>8, <2>9, <2>10, <2>11 DEF Next
<1>4. QED
  BY <1>1, <1>2, <1>3

LEMMA IndexAlways == Spec => []IndexInv
BY IndexStarts, IndexStep, PTL DEF Spec

\* A release that was withdrawn makes no new pin once a lifetime has passed, give or take
\* the clocks: whatever the cache kept and renewed, whatever copy the mirror gives, for
\* every lifetime, every number of versions and clocks however far apart.
THEOREM YanksReachEveryone == Spec => []YankReaches
<1>1. IndexInv => YankReaches
  BY DEF IndexInv
<1>2. QED
  BY IndexAlways, <1>1, PTL

\* Nothing a cache may still hand out is past its expiry, however often a 304 answer
\* renewed it.
THEOREM CachesStayFresh == Spec => []CachedIsFresh
<1>1. IndexInv => CachedIsFresh
  BY DEF IndexInv, CacheKept, CachedIsFresh
<1>2. QED
  BY IndexAlways, <1>1, PTL

\* A client gives a plugin up for unknown only when its document was missing while the
\* client asked: no other failure of the server, cached or not, is taken for that.
THEOREM OutagesAreNotAbsence == Spec => []UnknownIsMissing
<1>1. IndexInv => UnknownIsMissing
  <2>1. SUFFICES ASSUME IndexInv, request # None, request.step = "answered",
                        NEW skew \in Skews, NEW requirement \in Requirements,
                        Outcome(request.answer, requirement, skew) = "unknown"
                 PROVE  missing
    BY DEF UnknownIsMissing
  <2>2. request.answer.status = 404
    BY <2>1 DEF Outcome, Fresh
  <2>3. QED
    BY <2>1, <2>2 DEF IndexInv, RequestKept, Answered
<1>2. QED
  BY IndexAlways, <1>1, PTL
=============================================================================
