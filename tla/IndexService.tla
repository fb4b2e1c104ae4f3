---------------------------- MODULE IndexService ----------------------------
(***************************************************************************)
(* The plugin index (stanchion-index, stanchion-dist): a server that gives *)
(* the documents of a directory a new lifetime with every answer, an HTTP  *)
(* cache in front of it, a mirror that keeps an old answer, and a client   *)
(* that resolves a requirement to a release and pins it.  The publisher    *)
(* meanwhile adds releases, withdraws them and damages files.              *)
(*                                                                         *)
(* Cache, mirror and publisher are outside the repository: the cache obeys *)
(* the headers it is sent.  A release's version stands for its digest.     *)
(***************************************************************************)
EXTENDS Integers, FiniteSets, FiniteSetsExt

CONSTANTS Versions,     \* the versions of the one plugin, ordered as numbers
          Ttl,          \* IndexServer::ttl
          Skews,        \* how far the client's clock may be from the server's
          Policy,       \* Freshness of the client: "Required", "Lenient" or "Ignored"
          None,         \* model value: no answer, no document, no pin
          MaxTime       \* bound: the last moment of the clock

ASSUME VersionsAssumption == Versions \subseteq Nat /\ IsFiniteSet(Versions) /\ Versions # {}
ASSUME PolicyAssumption == Policy \in {"Required", "Lenient", "Ignored"}
ASSUME TimeAssumption == Ttl \in Nat \ {0} /\ MaxTime \in Nat /\ Skews \subseteq Int

VARIABLES now,          \* the server's clock
          file,         \* the release document on disk: "ok", "missing", "malformed", "unreadable"
          listing,      \* what the publisher lists: version -> "absent", "offered", "yanked"
          request,      \* the client's request on its way through cache and server
          cache,        \* the cache's entry: the document, and until when it is fresh
          mirror,       \* the answer the mirror keeps
          pin,          \* the pin the client made, when, and how far its clock was off
          offered,      \* history: when each version was last on offer
          missing       \* history: the document was missing at some point of the request

vars == <<now, file, listing, request, cache, mirror, pin, offered, missing>>

Status == {"absent", "offered", "yanked"}
Documents == [listing : [Versions -> Status], updated : Nat, expires : Nat]
-----------------------------------------------------------------------------
(* The server.                                                             *)

WindowStart(t) == (t \div Ttl) * Ttl

\* IndexServer::window.
Window(t) == [updated |-> WindowStart(t), expires |-> WindowStart(t) + Ttl]

\* IndexServer::remaining.
Remaining(t) == Ttl - (t % Ttl)

\* Fault: the validator is that of what is listed, without the lifetime.
EtagOfListing(doc) == [listing |-> doc.listing]

\* etag_of: a hash over the exact bytes, so as good as the document.
Etag(doc) == doc

\* IndexServer::document, of the listing read and the moment the request came.
Document(listed, t) ==
  LET doc == [listing |-> listed, updated |-> Window(t).updated, expires |-> Window(t).expires]
  IN [status |-> 200, doc |-> doc, etag |-> Etag(doc), maxAge |-> Remaining(t)]

\* Served::error: never to be stored, hence the age of zero.
ErrorAnswer(status) == [status |-> status, doc |-> None, etag |-> None, maxAge |-> 0]

\* Fault: whatever the source could not do, the plugin is said not to exist.
ErrorForAlways404(fault) == ErrorAnswer(404)

\* error_for, of what DirectoryIndex::releases reports.
ErrorFor(fault) == ErrorAnswer(CASE fault = "missing" -> 404
                                 [] fault = "malformed" -> 400
                                 [] OTHER -> 500)

\* IndexServer::releases: the source's answer with a new lifetime.
Releases(t) == IF file = "ok" THEN Document(listing, t) ELSE ErrorFor(file)

\* apply_conditional: a matching validator turns a success into a 304, which keeps the
\* other headers.
Conditional(answer, ifNoneMatch) ==
  IF answer.status = 200 /\ ifNoneMatch # None /\ answer.etag = ifNoneMatch
  THEN [answer EXCEPT !.status = 304, !.doc = None] ELSE answer
-----------------------------------------------------------------------------
(* The client.                                                             *)

\* PluginReleases::best_match: the newest that is not withdrawn and satisfies.
Matches(doc, requirement) == {v \in requirement : doc.listing[v] = "offered"}

BestMatch(doc, requirement) ==
  LET found == Matches(doc, requirement)
  IN IF found = {} THEN None ELSE Max(found)

\* Fault: only a document of the distant past is refused.
FreshLate(doc, skew) == Policy = "Ignored" \/ now + skew <= doc.expires + Ttl

\* Freshness::check_at, for documents that carry `expires` as the server's all do.
Fresh(doc, skew) == Policy = "Ignored" \/ now + skew <= doc.expires

\* HttpIndex::get and releases, then PluginIndex::resolve: what an answer comes to.
Outcome(answer, requirement, skew) ==
  CASE answer.status = 404 -> "unknown"
    [] answer.status \notin {200, 404} -> "transport"
    [] answer.status = 200 /\ ~Fresh(answer.doc, skew) -> "stale"
    [] answer.status = 200 /\ Fresh(answer.doc, skew) ->
         IF BestMatch(answer.doc, requirement) = None THEN "no_match" ELSE "pinned"
-----------------------------------------------------------------------------
\* What a client asks for: any version, or the oldest alone.
Requirements == {Versions, {Min(Versions)}}

NoPin == [version |-> None, at |-> 0, skew |-> 0]

Init == /\ now = 0
        /\ file = "ok"
        /\ listing = [v \in Versions |-> "absent"]
        /\ request = None
        /\ cache = None
        /\ mirror = None
        /\ pin = NoPin
        /\ offered = [v \in Versions |-> -1]
        /\ missing = FALSE

\* Time passes: what is on offer is on offer now.
Tick == /\ now < MaxTime
        /\ now' = now + 1
        /\ offered' = [v \in Versions |-> IF file = "ok" /\ listing[v] = "offered"
                                          THEN now + 1 ELSE offered[v]]
        /\ UNCHANGED <<file, listing, request, cache, mirror, pin, missing>>

\* The publisher adds a release to the document, or withdraws one.
Publish(v) ==
  /\ file = "ok"
  /\ \/ listing[v] = "absent" /\ listing' = [listing EXCEPT ![v] = "offered"]
        /\ offered' = [offered EXCEPT ![v] = now]
     \/ listing[v] = "offered" /\ listing' = [listing EXCEPT ![v] = "yanked"]
        /\ UNCHANGED offered
  /\ UNCHANGED <<now, file, request, cache, mirror, pin, missing>>

\* The document is created, damaged or repaired.
Damage(state) ==
  /\ file # state
  /\ "ok" \in {file, state}
  /\ file' = state
  /\ missing' = (missing \/ (state = "missing" /\ request # None))
  /\ offered' = [v \in Versions |-> IF state = "ok" /\ listing[v] = "offered"
                                    THEN now ELSE offered[v]]
  /\ UNCHANGED <<now, listing, request, cache, mirror, pin>>

\* The client asks, straight or through the cache, which has the answer itself while its
\* entry is fresh and otherwise asks on with the entry's validator.  The server looks at
\* the clock before it reads.
Ask(way) ==
  /\ request = None
  /\ missing' = (file = "missing")
  /\ request' = IF way = "cache" /\ cache # None /\ now < cache.freshUntil
                THEN [step |-> "answered", way |-> way,
                      ifNoneMatch |-> None, at |-> now,
                      answer |-> [status |-> 200, doc |-> cache.doc, etag |-> cache.etag,
                                  maxAge |-> cache.freshUntil - now]]
                ELSE [step |-> "sent", way |-> way,
                      ifNoneMatch |-> IF way = "cache" /\ cache # None THEN cache.etag ELSE None,
                      at |-> now, answer |-> None]
  /\ UNCHANGED <<now, file, listing, cache, mirror, pin, offered>>

\* IndexServer::serve_at.
Serve ==
  /\ request # None /\ request.step = "sent"
  /\ LET answer == Conditional(Releases(request.at), request.ifNoneMatch)
     IN request' = [request EXCEPT !.answer = answer,
                                   !.step = IF request.way = "cache" THEN "cached" ELSE "answered"]
  /\ UNCHANGED <<now, file, listing, cache, mirror, pin, offered, missing>>

\* The cache on the way back: what has an age is stored, a 304 renews the entry it has, and
\* the age counts from the request, as RFC 9111 has it.
Store ==
  /\ request # None /\ request.step = "cached"
  /\ LET answer == request.answer
         doc == IF answer.status = 304 THEN cache.doc ELSE answer.doc
     IN IF answer.maxAge > 0
        THEN /\ cache' = [doc |-> doc, etag |-> answer.etag,
                          freshUntil |-> request.at + answer.maxAge]
             /\ request' = [request EXCEPT !.step = "answered", !.answer.doc = doc,
                              !.answer.status = IF @ = 304 THEN 200 ELSE @]
        ELSE /\ request' = [request EXCEPT !.step = "answered"]
             /\ UNCHANGED cache
  /\ UNCHANGED <<now, file, listing, mirror, pin, offered, missing>>

\* HttpIndex::releases, resolve and to_pin.
Receive ==
  /\ request # None /\ request.step = "answered"
  /\ \E skew \in Skews, requirement \in Requirements :
       pin' = IF Outcome(request.answer, requirement, skew) = "pinned"
              THEN [version |-> BestMatch(request.answer.doc, requirement),
                    at |-> now, skew |-> skew]
              ELSE pin
  /\ request' = None
  /\ missing' = FALSE
  /\ UNCHANGED <<now, file, listing, cache, mirror, offered>>

\* The mirror takes a copy of an answer on its way, once.
Copy ==
  /\ mirror = None
  /\ request # None /\ request.step = "answered" /\ request.answer.status = 200
  /\ mirror' = request.answer
  /\ UNCHANGED <<now, file, listing, request, cache, pin, offered, missing>>

\* The client reaches the mirror instead of the server and is given that copy.
AskMirror ==
  /\ request = None /\ mirror # None
  /\ missing' = (file = "missing")
  /\ request' = [step |-> "answered", way |-> "mirror",
                 ifNoneMatch |-> None, at |-> now, answer |-> mirror]
  /\ UNCHANGED <<now, file, listing, cache, mirror, pin, offered>>

\* With its pin the client is done, and so is the model.
Next == /\ pin = NoPin
        /\ \/ Tick
           \/ \E v \in Versions : Publish(v)
           \/ \E state \in {"ok", "missing", "malformed", "unreadable"} : Damage(state)
           \/ \E way \in {"straight", "cache"} : Ask(way)
           \/ Serve \/ Store \/ Receive \/ Copy \/ AskMirror

Spec == Init /\ [][Next]_vars
-----------------------------------------------------------------------------
TypeOK == /\ now \in 0..MaxTime
          /\ file \in {"ok", "missing", "malformed", "unreadable"}
          /\ listing \in [Versions -> Status]
          /\ cache = None \/ (cache.doc \in Documents /\ cache.freshUntil \in Nat)
          /\ mirror = None \/ mirror.doc \in Documents
          /\ pin.version \in Versions \union {None}
          /\ offered \in [Versions -> -1..MaxTime]
          /\ missing \in BOOLEAN

\* A release that was withdrawn makes no new pin once a lifetime has passed, give or take
\* the clocks, whatever a cache or a mirror kept (index.rs:22, server.rs:166).
YankReaches == Policy # "Ignored" /\ pin.version # None
                 => pin.at <= offered[pin.version] + Ttl - pin.skew

\* Nothing a cache may still hand out is past its expiry: neither the counted-down age
\* nor any number of 304 answers carries a document out of its window (server.rs:354).
CachedIsFresh == cache # None => cache.freshUntil <= cache.doc.expires

\* "No such plugin" is said only when the document was missing at some point of the
\* request: an outage never makes a client give up (server.rs:383).
UnknownIsMissing == 
  request # None /\ request.step = "answered"
    => \A skew \in Skews, requirement \in Requirements :
         Outcome(request.answer, requirement, skew) = "unknown" => missing
=============================================================================
