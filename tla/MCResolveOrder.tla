--------------------------- MODULE MCResolveOrder ---------------------------
(* Small roots for ResolveOrder. *)
EXTENDS ResolveOrder, TLC

Required == [accepts |-> Version, optional |-> FALSE]
Wanted == [accepts |-> Version, optional |-> TRUE]
RequiredV1 == [accepts |-> {1}, optional |-> FALSE]
WantedV1 == [accepts |-> {1}, optional |-> TRUE]

Plugin(n, v, deps) == [name |-> n, version |-> v, deps |-> deps]

\* Four plugins with distinct names, every dependency graph over them.
MCDir == 1 .. 4
MCBaseName == [d \in MCDir |-> d]
MCGraphRoots ==
    LET Manifests(d) == {Plugin(d, 1, [n \in S |-> Required]) :
                            S \in SUBSET (MCDir \ {d})}
    IN  {<<a, b, c, e>> : a \in Manifests(1), b \in Manifests(2),
                          c \in Manifests(3), e \in Manifests(4)}

\* The fourth directory empty, the others with unreadable manifests, shared names, versions that do
\* not match, optional and self dependencies.
MCMixedRoots ==
    LET Deps == UNION {[S -> {Required, WantedV1}] : S \in SUBSET (1 .. 2)}
                \cup {3 :> RequiredV1, 3 :> Wanted}
        Manifests(names) == {Plugin(n, v, d) : n \in names, v \in 1 .. 2, d \in Deps}
                            \cup {Unreadable}
    IN  {<<a, b, c, Absent>> : a \in Manifests({1, 3}), b \in Manifests({2}) \cup {Absent},
                       c \in Manifests({2, 3})}

\* Directories 2 and 3 may declare one name, between two plugins they depend on.
MCTwinRoots ==
    {<<Plugin(1, 1, <<>>), Plugin(2, 1, [n \in S |-> Required]),
       Plugin(m, 1, [n \in T |-> Required]), Plugin(4, 1, [n \in U |-> Required])>> :
         S \in SUBSET {1, 4}, T \in SUBSET {1, 4}, U \in SUBSET {1}, m \in {2, 3}}

MCRoots == MCGraphRoots \cup MCMixedRoots \cup MCTwinRoots
=============================================================================
