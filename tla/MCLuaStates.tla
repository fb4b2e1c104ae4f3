---------------------------- MODULE MCLuaStates ----------------------------
(* Three plugins: the second depends on the first, or wants it; the third stands
   alone, or depends on the second. *)
EXTENDS LuaStates, TLC

On(requires, wants) == [requires |-> requires, wants |-> wants]

MCGraphs ==
    {"a" :> On({}, {}) @@ "b" :> On({"a"}, {}) @@ "c" :> On({}, {}),
     "a" :> On({}, {}) @@ "b" :> On({}, {"a"}) @@ "c" :> On({"b"}, {}),
     "a" :> On({}, {}) @@ "b" :> On({}, {}) @@ "c" :> On({}, {})}
=============================================================================
