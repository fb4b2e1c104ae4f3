----------------------------- MODULE MCSurface -----------------------------
(***************************************************************************)
(* Objects, results and modules of every shape the conversions tell apart, *)
(* and configurations of which ceilings and grants are asked for one at a  *)
(* time.                                                                   *)
(***************************************************************************)
EXTENDS Surface, TLC

MCTextOrder == <<"1", "10", "2", "3", "4", "5", "6", "7", "8", "9", "a", "b", "object">>
MCText == {MCTextOrder[i] : i \in DOMAIN MCTextOrder}
MCTextBefore(s, t) ==
  \E i, j \in DOMAIN MCTextOrder : i < j /\ MCTextOrder[i] = s /\ MCTextOrder[j] = t

\* The tree of a label and the trees under its keys.
Node(label, under) ==
  LET paths == UNION {{<<k>> \o p : p \in DOMAIN under[k]} : k \in DOMAIN under}
  IN [p \in {<<>>} \cup paths |-> IF p = <<>> THEN label ELSE under[p[1]][Tail(p)]]
Items(trees) == [k \in {At(i) : i \in DOMAIN trees} |-> trees[k[2]]]

Bool(b) == Leaf(<<"bool", b>>)
Str(t) == Leaf(<<"str", t>>)
Null == Leaf(Nil)
One == Leaf(<<"int", 1>>)
List(trees) == Node(<<"list">>, Items(trees))

\* A dictionary, from its keys and its entries in the order of a walk.
Dict(keys, trees) ==
  LET at(k) == CHOOSE i \in DOMAIN keys : keys[i] = k
      all == {keys[i] : i \in DOMAIN keys}
  IN Node(<<"map", [k \in all |-> at(k) - 1]>>, [k \in all |-> trees[at(k)]])

\* Both sides of each limit are met: the wire refuses a list in a list in a list, which
\* C takes, and both refuse one level more.
MCJsonDepth == [l \in Json |-> IF l = C THEN 3 ELSE 2]
Deepest == List(<<List(<<List(<<List(<<>>)>>)>>)>>)

\* Objects any language can make.
Common ==
  {Null, Bool(TRUE), One, Leaf(<<"float", "1.0">>), Leaf(<<"float", "nan">>), Str("a"),
   List(<<>>), List(<<One, Bool(TRUE)>>), List(<<One, Null, Str("b")>>), List(<<Null>>),
   List(<<List(<<One>>)>>), List(<<List(<<List(<<One>>)>>)>>),
   Dict(<<>>, <<>>), Dict(<<Named("a")>>, <<Null>>),
   Dict(<<Named("1"), Named("10"), Named("2")>>, <<One, Str("a"), Bool(FALSE)>>),
   Dict(<<Named("a"), Named("b")>>, <<List(<<One>>), Dict(<<Named("a")>>, <<One>>)>>),
   Dict(<<Named("a")>>, <<List(<<Null>>)>>)}

\* Keys of other kinds, two of which may have one text.
OddKeys == {Dict(<<At(1), Named("1")>>, <<Str("a"), Str("b")>>),
            Dict(<<<<"other", "object">>>>, <<One>>)}

MCObjects ==
  [l \in Languages |->
     (Common \cup
       (CASE l = Python -> OddKeys \cup {Node(<<"tuple">>, Items(<<One, One>>)),
                                         Leaf(<<"bigint", "1e30">>), Leaf(<<"object">>)}
          [] l = Ruby -> OddKeys \cup {Leaf(<<"symbol", "a">>), Leaf(<<"bigint", "1e30">>),
                                       Leaf(<<"object">>),
                                       Dict(<<<<"symbol", "a">>>>, <<One>>)}
          [] l = Godot -> OddKeys \cup {Leaf(<<"symbol", "a">>), Leaf(<<"object">>)}
          [] l = Uniffi -> {Leaf(Function), List(<<Leaf(Function)>>)}
          [] OTHER -> {Deepest, Leaf(<<"bigint", "1e30">>)}))
       \ (IF l \in Json THEN {Leaf(<<"float", "nan">>)} ELSE {})]

F(id) == Leaf(<<"function", id>>)
Table(under) == Node(<<"table">>, under)
MCResults == {F("callback"), Leaf(<<"userdata">>),
              Table(At(1) :> Table(At(1) :> Table(At(1) :> One))),
              Table(At(1) :> Leaf(<<"float", "nan">>)),
              Table(Named("a") :> F("callback") @@ <<"other", "b">> :> One)}
MCModules ==
  {F("encode"),
   Table(Named("a") :> F("encode") @@ Named("b") :> F("decode")),
   Table(At(1) :> F("encode") @@ At(2) :> F("decode")),
   Table(Named("b") :> F("encode") @@ Named("a") :> Table(At(1) :> F("decode"))),
   Table(At(1) :> F("encode") @@ Named("a") :> F("decode")),
   Table(At(2) :> F("encode") @@ At(10) :> F("decode"))}

MCParams == {Leaf(<<"map">>),
             Node(<<"map">>, Named("a") :> Node(<<"list">>, Items(<<Str("b")>>))
                             @@ Named("b") :> Leaf(<<"float", "1.0">>)),
             Node(<<"map">>, Named("a") :> Leaf(<<"float", "nan">>))}
MCPolicyParams == {Dict(<<Named("a")>>, <<List(<<>>)>>), Str("a"), Leaf(<<"object">>)}

\* Bound: ceilings and grants are asked for one at a time.
MCInit == /\ Init
          /\ asked.limit # Unset \/ asked.shared =>
               asked.allow = {} /\ asked.callbacks = {} /\ ~asked.policy

\* Bound: values cross in the default configuration.
MCCrossing == /\ asked.limit = Unset /\ ~asked.shared /\ ~asked.policy
              /\ asked.allow = {} /\ asked.callbacks = {Log}
              /\ bound = Unbound
              /\ Crossing

MCNext == Configuring \/ MCCrossing
MCSpec == MCInit /\ [][MCNext]_vars

=============================================================================
