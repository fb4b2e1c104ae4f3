------------------------------- MODULE Values -------------------------------
(***************************************************************************)
(* Values on their way between a host language, stanchion's own Value and  *)
(* a Lua state.  A value of any of the three is a tree, a function from    *)
(* its paths to labels; a path is the sequence of the keys that lead from  *)
(* the root to a node.                                                     *)
(*   keys   At(i), Named(t), <<"symbol", t>> and <<"other", t>>, where t   *)
(*          is how the key reads as a text                                 *)
(*   Value  <<"nil">> <<"bool", b>> <<"int", n>> <<"float", x>>            *)
(*          <<"str", t>> <<"list">> <<"map">> <<"function">>               *)
(*   Lua    the same scalars, <<"table">>, <<"function", id>> and          *)
(*          <<"userdata">>                                                 *)
(*   host   the same scalars, <<"symbol", t>>, <<"bigint", x>>,            *)
(*          <<"object">>, <<"function">>, <<"list">>, <<"tuple">> and      *)
(*          <<"map", place>>, which gives each key its place in a walk     *)
(***************************************************************************)
EXTENDS Integers, Sequences, FiniteSets

CONSTANTS Text,                 \* every text that names a key
          TextBefore(_, _),     \* the order of their bytes
          Digits(_),            \* how an integer is written
          MaxPosition,          \* the largest integer key
          MaxDepth,             \* MAX_DEPTH
          JsonDepth             \* how many levels of lists and maps serde_json's own
                                \* limit leaves a value inside its message

ASSUME TextAssumption ==
  /\ \A s, t \in Text : s = t \/ TextBefore(s, t) \/ TextBefore(t, s)
  /\ \A s, t \in Text : TextBefore(s, t) => s # t /\ ~TextBefore(t, s)
  /\ \A s, t, u \in Text : TextBefore(s, t) /\ TextBefore(t, u) => TextBefore(s, u)
ASSUME DigitsAssumption ==
  /\ MaxPosition \in Nat
  /\ \A i \in 1..MaxPosition : Digits(i) \in Text
  /\ \A i, j \in 1..MaxPosition : Digits(i) = Digits(j) => i = j

At(i) == <<"integer", i>>
Named(t) == <<"string", t>>
Key == ({"integer"} \X (1..MaxPosition)) \cup ({"string", "symbol", "other"} \X Text)

Nil == <<"nil">>
Function == <<"function">>
Leaf(label) == [p \in {<<>>} |-> label]

\* The conversion failed.
No == <<"refused">>
Refused == Leaf(No)

-----------------------------------------------------------------------------
(* Trees.                                                                  *)

\* The node of which the i-th key of the path p is a key, and the keys of a node.
Above(p, i) == SubSeq(p, 1, i - 1)
KeysAt(t, p) == {q[Len(p) + 1] : q \in {r \in DOMAIN t : /\ Len(r) = Len(p) + 1
                                                         /\ \A i \in DOMAIN p : r[i] = p[i]}}

\* The keys of a list or a sequence.
Numbered(keys) == keys = {At(i) : i \in 1..Cardinality(keys)}

IsTree(t) == /\ t = [p \in DOMAIN t |-> t[p]]
             /\ IsFiniteSet(DOMAIN t)
             /\ <<>> \in DOMAIN t
             /\ \A p \in DOMAIN t : /\ p \in Seq(Key)
                                    /\ \A i \in DOMAIN p : Above(p, i) \in DOMAIN t

SharedLabel(x) == x = Nil \/ x[1] \in {"bool", "int", "float", "str"}

HostTree(o) ==
  /\ IsTree(o)
  /\ \A p \in DOMAIN o :
       \/ o[p] \in {<<"list">>, <<"tuple">>} /\ Numbered(KeysAt(o, p))
       \/ /\ o[p] \in {"map"} \X [KeysAt(o, p) -> Nat]
          /\ \A j, k \in KeysAt(o, p) : o[p][2][j] = o[p][2][k] => j = k
       \/ /\ SharedLabel(o[p]) \/ o[p] = Function \/ o[p][1] \in {"symbol", "bigint", "object"}
          /\ KeysAt(o, p) = {}

LuaTree(t) ==
  /\ IsTree(t)
  /\ \A p \in DOMAIN t :
       \/ t[p] = <<"table">> /\ \A k \in KeysAt(t, p) : k[1] # "symbol"
       \/ /\ \/ SharedLabel(t[p]) \/ t[p] = <<"userdata">>
             \/ t[p][1] = "function" /\ t[p] = <<"function", t[p][2]>>
          /\ KeysAt(t, p) = {}

\* A Value: maps have text keys, and only lists and maps have keys.
ValueTree(v) ==
  /\ IsTree(v)
  /\ \A p \in DOMAIN v :
       \/ v[p] = <<"list">> /\ Numbered(KeysAt(v, p))
       \/ v[p] = <<"map">> /\ \A k \in KeysAt(v, p) : k[1] = "string"
       \/ (SharedLabel(v[p]) \/ v[p] = Function) /\ KeysAt(v, p) = {}

\* What is left of a tree, and under which names: step[p] renames the keys of the
\* node at p that stay.
Kept(t, step) == {p \in DOMAIN t : \A i \in DOMAIN p : p[i] \in DOMAIN step[Above(p, i)]}
Moved(step, p) == [i \in DOMAIN p |-> step[Above(p, i)][p[i]]]
Carried(t, step, label) ==
  LET kept == Kept(t, step)
  IN [q \in {Moved(step, p) : p \in kept} |-> label[CHOOSE p \in kept : Moved(step, p) = q]]

-----------------------------------------------------------------------------
(* The order of a walk.                                                    *)

\* key_order: list positions ascending, then texts, then everything else (in an
\* order of the table's own, here that of their texts).
Tier(k) == CASE k[1] = "integer" -> 0 [] k[1] = "string" -> 1 [] OTHER -> 2
KeyBefore(a, b) ==
  \/ Tier(a) < Tier(b)
  \/ /\ Tier(a) = Tier(b)
     /\ IF Tier(a) = 0 THEN a[2] < b[2] ELSE TextBefore(a[2], b[2])

WalkBefore(p, q) ==
  \E i \in DOMAIN p \cap DOMAIN q : /\ \A j \in 1..(i - 1) : p[j] = q[j]
                                    /\ KeyBefore(p[i], q[i])

\* The functions of a tree, and which of them the one at p is.
Functions(t) == {p \in DOMAIN t : t[p][1] = "function"}
Turn(t, p) == Cardinality({q \in Functions(t) : q = p \/ WalkBefore(q, p)})

-----------------------------------------------------------------------------
(* lua_to_abi: a Value, and the functions stashed while making it.         *)

\* A table whose keys are exactly 1..n becomes a list.  If all its keys are
\* positions, but with holes, it becomes a map of the positions' texts, and
\* otherwise a map of the text keys alone.
AbiKeys(t) ==
  [p \in DOMAIN t |->
     LET keys == KeysAt(t, p)
     IN IF Numbered(keys) THEN [k \in keys |-> k]
        ELSE IF \A k \in keys : k[1] = "integer" THEN [k \in keys |-> Named(Digits(k[2]))]
        ELSE [k \in {j \in keys : j[1] = "string"} |-> k]]
AbiLabel(t, p) ==
  CASE t[p] = <<"table">> -> IF Numbered(KeysAt(t, p)) THEN <<"list">> ELSE <<"map">>
    [] t[p][1] = "function" -> Function
    [] t[p] = <<"userdata">> -> Nil
    [] OTHER -> t[p]

LuaToAbi(t) ==
  [value   |-> Carried(t, AbiKeys(t), [p \in DOMAIN t |-> AbiLabel(t, p)]),
   stashed |-> [n \in 1..Cardinality(Functions(t)) |->
                  t[CHOOSE p \in Functions(t) : Turn(t, p) = n][2]]]

\* abi_to_lua: a Lua value, and what is left of the queue of functions.  An entry
\* set to nil is no entry; the function that finds the queue empty ends it all.
AbiToLua(v, queue) ==
  LET count == Cardinality(Functions(v))
  IN IF count > Len(queue) THEN [value |-> Refused, queue |-> <<>>]
     ELSE [queue |-> SubSeq(queue, count + 1, Len(queue)),
           value |-> [p \in {q \in DOMAIN v : q = <<>> \/ v[q] # Nil} |->
                        CASE v[p] \in {<<"list">>, <<"map">>} -> <<"table">>
                          [] v[p] = Function -> <<"function", queue[Turn(v, p)]>>
                          [] OTHER -> v[p]]]

-----------------------------------------------------------------------------
(* The host languages.                                                     *)

Python == "python"
Ruby == "ruby"
Godot == "godot"
Uniffi == "uniffi"      \* Kotlin, Swift and the others UniFFI serves
C == "c"                \* JSON through the C ABI
Wire == "wire"          \* JSON between stanchion-remote and plugin-host

Languages == {Python, Ruby, Godot, Uniffi, C, Wire}
Json == {C, Wire}
DepthBounded == {Python, Ruby, Godot}

ASSUME DepthAssumption == MaxDepth \in Nat /\ JsonDepth \in [Json -> Nat]

\* The labels of lists and maps, and whether a node may lie as deep as it does:
\* MAX_DEPTH counts every node, serde_json only the arrays and objects it enters.
Containers == {"list", "tuple", "map"}
InReach(lang, x, p) ==
  /\ lang \in DepthBounded => Len(p) <= MaxDepth
  /\ lang \in Json /\ x[1] \in Containers => Len(p) < JsonDepth[lang]
Fits(lang, o) == \A p \in DOMAIN o : InReach(lang, o[p], p)

\* from_py_at and from_variant_at render any key; Ruby's key_to_string takes texts,
\* symbols and integers; the others have texts only.
HasText(lang, k) == \/ k[1] = "string"
                    \/ lang \in {Python, Godot}
                    \/ lang = Ruby /\ k[1] # "other"
KeyText(k) == IF k[1] = "integer" THEN Digits(k[2]) ELSE k[2]

\* Fault: Python's `bool` is asked about after `int`, of which it is a subclass.
PyScalarIntFirst(o) == IF o[1] = "bool" THEN <<"int", IF o[2] THEN 1 ELSE 0>>
                       ELSE IF SharedLabel(o) THEN o ELSE No

\* What a language's scalar becomes, No when it has no Value.
PyScalar(o) == IF SharedLabel(o) THEN o ELSE No
SymbolScalar(o) == CASE SharedLabel(o) -> o
                     [] o[1] = "symbol" -> <<"str", o[2]>>
                     [] OTHER -> No
VariantScalar(o) == SymbolScalar(o)
FfiScalar(o) == IF SharedLabel(o) \/ o = Function THEN o ELSE No
JsonScalar(o) == CASE SharedLabel(o) -> o
                   [] o[1] = "bigint" -> <<"float", o[2]>>
                   [] OTHER -> No

Scalar(lang, o) == CASE lang = Python -> PyScalar(o)
                     [] lang = Ruby -> SymbolScalar(o)
                     [] lang = Godot -> VariantScalar(o)
                     [] lang = Uniffi -> FfiScalar(o)
                     [] OTHER -> JsonScalar(o)

\* A label as from_py_at, from_ruby_at, from_variant_at, FfiValue::from,
\* json_to_ffi_value and json_to_value (after serde_json::from_str) read it at a depth.
ReadLabel(lang, o, p) ==
  IF ~InReach(lang, o[p], p) THEN No
  ELSE CASE o[p][1] = "map" ->
              IF \A k \in KeysAt(o, p) : HasText(lang, k) THEN <<"map">> ELSE No
         [] o[p][1] \in {"list", "tuple"} -> <<"list">>
         [] OTHER -> Scalar(lang, o[p])

\* Of two keys with one text the later entry stays.
HostKeys(o) ==
  [p \in DOMAIN o |->
     LET keys == KeysAt(o, p)
         latest == {k \in keys : \A j \in keys :
                                   KeyText(j) = KeyText(k) => o[p][2][j] <= o[p][2][k]}
     IN IF o[p][1] = "map" THEN [k \in latest |-> Named(KeyText(k))] ELSE [k \in keys |-> k]]

FromHost(lang, o) ==
  LET label == [p \in DOMAIN o |-> ReadLabel(lang, o, p)]
  IN IF \E p \in DOMAIN o : label[p] = No THEN Refused ELSE Carried(o, HostKeys(o), label)

\* What becomes of the scalars that not every language has a form for.
Nan == <<"float", "nan">>
ToPy(v) == IF v = Function THEN Nil ELSE v
ToRuby(v) == ToPy(v)
ToVariant(v) == ToPy(v)
ToFfi(v) == v
ToJson(v) == CASE v = Function -> Nil [] v = Nan -> <<"int", 0>> [] OTHER -> v
ToWire(v) == IF v \in {Function, Nan} THEN No ELSE v

HostScalar(lang, v) == CASE lang = Python -> ToPy(v)
                         [] lang = Ruby -> ToRuby(v)
                         [] lang = Godot -> ToVariant(v)
                         [] lang = Uniffi -> ToFfi(v)
                         [] lang = C -> ToJson(v)
                         [] lang = Wire -> ToWire(v)

\* A Value as an object of the language: the whole of to_py, to_ruby and the others.
\* A Value's map is sorted, and its entries are set in that order.
ToHost(lang, v) ==
  LET place(p) == [k \in KeysAt(v, p) |->
                     Cardinality({j \in KeysAt(v, p) : KeyBefore(j, k)})]
  IN IF \E p \in DOMAIN v : HostScalar(lang, v[p]) = No THEN Refused
     ELSE [p \in DOMAIN v |-> IF v[p] = <<"map">> THEN <<"map", place(p)>>
                              ELSE HostScalar(lang, v[p])]

=============================================================================
