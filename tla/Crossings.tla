----------------------------- MODULE Crossings -----------------------------
(***************************************************************************)
(* The crossings between a host language and the plugins of one thread     *)
(* (stanchion-lua's convert.rs and the calls around it).  Functions have   *)
(* no Value: they wait in FUNCTION_CACHE, a queue per thread that every    *)
(* crossing on the thread shares, while a placeholder crosses for them.    *)
(***************************************************************************)
EXTENDS Values

CONSTANTS Objects,      \* what a host of each language may pass
          Results,      \* Lua values a plugin may pass or return
          Modules,      \* Lua tables a provider written in Rust answers with
          MaxWaiting    \* bound: functions left behind in the queue

ASSUME ObjectsAssumption == \A l \in Languages : \A o \in Objects[l] : HostTree(o)
ASSUME LuaAssumption == \A t \in Results \cup Modules : LuaTree(t)

VARIABLES waiting,      \* FUNCTION_CACHE: the functions on their way
          last          \* the last crossing: what was sent and what came of it

crossingVars == <<waiting, last>>

NoCrossing == [by |-> "nobody", lang |-> Python, sent |-> Leaf(Nil), got |-> Leaf(Nil)]

CrossingsInit == waiting = <<>> /\ last = NoCrossing

\* What the host gets of an object that crosses to it: frame::read refuses a message
\* of plugin-host that nests too deep, the other languages take what there is.
Received(lang, o) == IF lang = Wire /\ ~Fits(lang, o) THEN Refused ELSE o

\* Fault: a call clears the queue when it is over.
CallClearing(lang, o) ==
  LET v == FromHost(lang, o)
      argument == AbiToLua(v, waiting)
  IN /\ waiting' = <<>>
     /\ last' = [by |-> "call", lang |-> lang, sent |-> o,
                 got |-> IF Refused \in {v, argument.value} THEN Refused
                         ELSE Received(lang, ToHost(lang, LuaToAbi(argument.value).value))]

\* Stanchion::call of a plugin that returns its argument: conversion of the
\* argument, call_locked, lua_to_abi of the result, conversion of the result.
Call(lang, o) ==
  LET v == FromHost(lang, o)
      argument == AbiToLua(v, waiting)
      result == LuaToAbi(argument.value)
      echoed(got) == last' = [by |-> "call", lang |-> lang, sent |-> o, got |-> got]
  IN \/ v = Refused /\ echoed(Refused) /\ UNCHANGED waiting
     \/ /\ v # Refused /\ argument.value = Refused
        /\ echoed(Refused)
        /\ waiting' = argument.queue
     \/ /\ v # Refused /\ argument.value # Refused
        /\ echoed(Received(lang, ToHost(lang, result.value)))
        /\ waiting' = argument.queue \o result.stashed

\* The host passes on what the last call gave it.
CallAgain == /\ last.by = "call"
             /\ last.got # Refused
             /\ Call(last.lang, last.got)

\* A plugin's own result crosses to the host; its functions stay in the queue.
Return(lang, r) ==
  LET result == LuaToAbi(r)
  IN /\ waiting' = waiting \o result.stashed
     /\ last' = [by |-> "return", lang |-> lang, sent |-> r,
                 got |-> Received(lang, ToHost(lang, result.value))]

\* Fault: functions of earlier crossings still wait when the provider runs.
ProvideUncleared(lang, arg, module) ==
  LET made == LuaToAbi(module)
      bound == AbiToLua(made.value, waiting \o LuaToAbi(arg).stashed \o made.stashed)
  IN /\ waiting' = bound.queue
     /\ last' = [by |-> "module", lang |-> lang, sent |-> module, got |-> bound.value]

\* A provider that lives in Rust answers with a table of functions of its own:
\* the plugin's argument is converted, the queue is cleared, the provider
\* stashes its functions and the answer takes them.
Provide(lang, arg, module) ==
  LET made == LuaToAbi(module)
      bound == AbiToLua(made.value, made.stashed)
  IN /\ waiting' = bound.queue
     /\ last' = [by |-> "module", lang |-> lang, sent |-> module, got |-> bound.value]

\* A provider of the host language answers with an object: an argument or an
\* answer that cannot cross is an error the plugin may catch.
Answer(lang, arg, o) ==
  LET v == FromHost(lang, o)
      bound == AbiToLua(v, <<>>)
      fails == Refused \in {v, Received(lang, ToHost(lang, LuaToAbi(arg).value))}
  IN /\ waiting' = IF fails THEN <<>> ELSE bound.queue
     /\ last' = [by |-> "answer", lang |-> lang, sent |-> o,
                 got |-> IF fails THEN Refused ELSE bound.value]

CrossingsNext(lang) ==
  \/ \E o \in Objects[lang] : Call(lang, o)
  \/ CallAgain
  \/ \E r \in Results : Len(waiting) < MaxWaiting /\ Return(lang, r)
  \/ \E r \in Results, module \in Modules : Provide(lang, r, module)
  \/ \E r \in Results, o \in Objects[lang] : Answer(lang, r, o)

-----------------------------------------------------------------------------

\* An object of one language that has a Value of its own shape: no null and no
\* empty map inside it, keys that are texts in order, no nesting its reader refuses.
Plain(lang, o) ==
  \A p \in DOMAIN o :
    /\ InReach(lang, o[p], p)
    /\ p # <<>> => o[p] # Nil
    /\ CASE o[p][1] = "map" ->
              /\ KeysAt(o, p) # {}
              /\ \A k \in KeysAt(o, p) :
                   /\ k[1] = "string"
                   /\ o[p][2][k] = Cardinality({j \in KeysAt(o, p) : TextBefore(j[2], k[2])})
         [] o[p][1] = "float" -> o[p][2] # "nan" \/ lang \notin Json
         [] OTHER -> o[p][1] \in {"nil", "bool", "int", "str", "list"}

\* A plain object comes back from a plugin that echoes it exactly as the host
\* sent it: no type changes, no entry is lost, nothing within the depth limit
\* is refused.
PlainComesBack ==
  last.by = "call" /\ Plain(last.lang, last.sent) => last.got = last.sent

\* Whatever a host passes, what it gets back is settled: passed to a plugin once
\* more it comes back the same, however odd the first object was.
SettlesAfterOneCall ==
  [][/\ last.by = "call" /\ last'.by = "call"
     /\ last'.lang = last.lang /\ last'.sent = last.got
     => last'.got = last.got]_crossingVars

\* Tables that are sequences or whose keys are all texts, at every level.
Regular(t) ==
  \A p \in DOMAIN t :
    /\ t[p] \notin {Nil, <<"userdata">>}
    /\ Numbered(KeysAt(t, p)) \/ \A k \in KeysAt(t, p) : k[1] = "string"

\* A provider's module arrives whole: every function under the key it was
\* stashed with, none of an earlier call in its place.
ModuleArrives == last.by = "module" /\ Regular(last.sent) => last.got = last.sent

\* convert.rs:118-120 and its test say so of every table.
EveryFunctionArrives ==
  last.by = "module" /\ last.got # Refused =>
    \A p \in Functions(last.got) :
      \E q \in Functions(last.sent) :
        /\ DOMAIN q = DOMAIN p
        /\ \A i \in DOMAIN p : \/ q[i] = p[i]
                               \/ q[i][1] = "integer" /\ p[i] = Named(Digits(q[i][2]))
        /\ last.sent[q] = last.got[p]

=============================================================================
