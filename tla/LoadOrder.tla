----------------------------- MODULE LoadOrder -----------------------------
(***************************************************************************)
(* What `resolve_order` promises the registry: module ResolveOrder is       *)
(* checked against this contract, and module Registry loads in any order    *)
(* the contract allows.                                                     *)
(***************************************************************************)
EXTENDS Naturals, Functions

(***************************************************************************)
(* s is a load order of the manifests P, where name[d] is the name of d and *)
(* edges[d] the names it has to wait for.  Of the manifests that share a    *)
(* name only the last one, in directory order, is kept, and it is loaded at *)
(* most once.  When no name is shared, every manifest comes after its       *)
(* dependencies and only those waiting for a refused dependency are refused *)
(* themselves.                                                              *)
(***************************************************************************)
Kept(P, name) == {d \in P : \A e \in P : name[e] = name[d] => e =< d}

DependenciesFirst(name, edges, s) ==
    \A i \in DOMAIN s : \A n \in edges[s[i]] : \E j \in 1 .. i - 1 : name[s[j]] = n

RefusedWait(P, name, edges, s) ==
    \A d \in P \ Range(s) :
        \E n \in edges[d] : n \in {name[e] : e \in P \ Range(s)}

NamesDistinct(name, s) == \A i, j \in DOMAIN s : name[s[i]] = name[s[j]] => i = j

IsLoadOrder(P, name, edges, s) ==
    /\ Range(s) \subseteq Kept(P, name)
    /\ NamesDistinct(name, s)
    /\ (\A d, e \in P : name[d] = name[e] => d = e) =>
         /\ DependenciesFirst(name, edges, s)
         /\ RefusedWait(P, name, edges, s)
=============================================================================
