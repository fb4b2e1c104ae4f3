----------------------------- MODULE LuaStates -----------------------------
(***************************************************************************)
(* The Lua states of stanchion-lua (crates/stanchion-lua/src/backend.rs):   *)
(* which state each plugin runs in, which exports it is wired to, and what  *)
(* a panic does to the mutex around a state.  One action per plugin of a    *)
(* load_dir; reload, remove and a call are one action each, as nothing runs *)
(* between their steps.  Manifests may be edited at any time: every load    *)
(* reads all of them again, and a reload that of its plugin.                *)
(*                                                                         *)
(* mlua is external: a value handed to another state than its own panics,   *)
(* and a panic of the host's code under a plugin is raised again in Rust.   *)
(***************************************************************************)
EXTENDS Naturals, Sequences, FiniteSets, Functions

CONSTANTS
    Name,     \* plugin names
    Modes,    \* isolation modes a host may choose
    Graphs    \* the dependencies the manifests may declare at one time

Dependencies == [requires : SUBSET Name, wants : SUBSET Name]

ASSUME NameAssumption == IsFiniteSet(Name) /\ "idle" \notin Name
ASSUME ModesAssumption == Modes \subseteq {"shared", "group", "plugin"}
ASSUME GraphsAssumption == Graphs \subseteq [Name -> Dependencies]

VARIABLES
    mode,     \* IsolationMode
    pool,     \* LuaBackend::states: name -> state
    surfaces, \* LuaBackend::surfaces: name -> the state its exports live in
    poisoned, \* states whose mutex is poisoned -> who panicked there, and how
    live,     \* the registry's plugins: name -> state, dependencies its manifest
              \* names, and which of these it holds the surface of
    todo,     \* load_group: items still to load; "idle" outside a load
    items,    \* load_group: its items, name -> the dependencies its manifest names
    groups,   \* load_group: group_states
    built,    \* load_group: the instances in its outcomes
    failed,   \* load_group: failed names
    escaped,  \* calls of the registry a panic has unwound out of
    ties      \* <<n, d>>: some load had both among its items, d a dependency of n

backend == <<pool, surfaces, poisoned>>
batch == <<todo, items, groups, built, failed>>
vars == <<mode, backend, live, batch, escaped, ties>>

Idle == <<"idle">>

Named(g, n) == g[n].requires \cup g[n].wants

Deps(n) == Named(items, n)

\* The dependencies between the plugins of S, as manifests g declare them.
Edges(g, S) == {e \in S \X S : e[2] \in Named(g, e[1])}

State == 1 .. 2 * Cardinality(Name) + 1

\* The states something still refers to; the others are dropped.
Held == Range(pool) \cup Range(surfaces) \cup {live[n].state : n \in DOMAIN live}
        \cup Range(groups) \cup {built[n].state : n \in DOMAIN built}

Unused == CHOOSE s \in State : s \notin Held /\ \A t \in State \ Held : s =< t

Put(f, n, v) == [m \in DOMAIN f \cup {n} |-> IF m = n THEN v ELSE f[m]]

Drop(f, n) == [m \in DOMAIN f \ {n} |-> f[m]]

Empty == [n \in {} |-> 0]

\* No dependency, read in either direction, leaves T for the rest of S.
Closed(T, S, edges) ==
    \A x \in T, y \in S : <<x, y>> \in edges \/ <<y, x>> \in edges => y \in T

\* dependency_components: what every closed set of items with n in it holds.
Component(n, S, edges) ==
    {m \in S : \A T \in SUBSET S : n \in T /\ Closed(T, S, edges) => m \in T}

-----------------------------------------------------------------------------
(* load_dir *)

\* What the registry leaves out before the backend is asked: the plugins that
\* run already, and those that cannot do without one of these.
Withheld(g) ==
    {m \in Name : \A T \in SUBSET Name :
       /\ DOMAIN live \subseteq T
       /\ \A x \in T, y \in Name : x \in g[y].requires => y \in T
       => m \in T}

LoadOrders(S, g) ==
    {s \in [1 .. Cardinality(S) -> S] :
       /\ IsInjective(s)
       /\ \A i, j \in DOMAIN s : s[i] \in Named(g, s[j]) => i < j}

Load ==
    /\ todo = Idle
    /\ \E g \in Graphs :
         LET S == Name \ Withheld(g)
         IN  /\ todo' \in LoadOrders(S, g)
             /\ items' = [n \in S |-> g[n]]
             /\ ties' = ties \cup Edges(g, S)
    /\ groups' = Empty /\ built' = Empty /\ failed' = {}
    /\ UNCHANGED <<mode, backend, live, escaped>>

\* GroupOutcome::Failed; its reason is text.
Fail(n) ==
    /\ failed' = failed \cup {n}
    /\ todo' = Tail(todo)
    /\ UNCHANGED <<mode, live, items, built, escaped, ties>>

\* Per-plugin isolation cannot carry values across states.
MemberRefused(n) ==
    /\ \/ mode = "plugin" /\ Deps(n) # {}
       \/ items[n].requires \cap failed # {}
    /\ Fail(n)
    /\ UNCHANGED <<backend, groups>>

GroupKey(n) ==
    IF mode = "shared" THEN DOMAIN items
    ELSE Component(n, DOMAIN items, Edges(items, DOMAIN items))

\* Fault: any state of the pool will do, in every mode.
StateForAll(n) ==
    IF n \in DOMAIN pool THEN pool[n]
    ELSE IF DOMAIN pool # {} THEN pool[CHOOSE m \in DOMAIN pool : TRUE]
    ELSE Unused

\* Fault: one key for every group of a load.
StateForAnyGroup(n) ==
    IF n \in DOMAIN pool THEN pool[n]
    ELSE IF DOMAIN groups # {} THEN groups[CHOOSE k \in DOMAIN groups : TRUE]
    ELSE Unused

\* state_for: a state recorded under the name wins, then the group's.
StateFor(n) ==
    IF n \in DOMAIN pool THEN pool[n]
    ELSE IF mode # "plugin" /\ GroupKey(n) \in DOMAIN groups THEN groups[GroupKey(n)]
    ELSE Unused

\* A recorded state is returned before group_states is filled in.
Recorded(n, s) ==
    /\ pool' = Put(pool, n, s)
    /\ groups' = IF n \in DOMAIN pool \/ mode = "plugin" THEN groups
                 ELSE Put(groups, GroupKey(n), s)

\* Exports of this load's own members: `proxies`.
Proxies == DOMAIN built \cap DOMAIN surfaces

Poison(s, n, how) == Put(poisoned, s, [by |-> n, how |-> how])

Crosses(deps, s) == \E d \in deps : surfaces[d] # s

\* No state, exports that are missing, a poisoned state or an error of its own
\* fail the plugin; so does a panic, which poisons the state it has locked.
MemberFails(n) ==
    /\ ~(mode = "plugin" /\ Deps(n) # {})
    /\ items[n].requires \cap failed = {}
    /\ Fail(n)
    /\ \E s \in {StateFor(n)} :
         \/ s \notin Held /\ UNCHANGED <<backend, groups>>
         \/ /\ Recorded(n, s)
            /\ UNCHANGED surfaces
            /\ \/ UNCHANGED poisoned
               \/ /\ items[n].requires \subseteq Proxies
                  /\ s \notin DOMAIN poisoned
                  /\ \/ poisoned' = Poison(s, n, "code")
                     \/ /\ Crosses(Deps(n) \cap Proxies, s)
                        /\ poisoned' = Poison(s, n, "wiring")

Constructed(n, s) ==
    /\ ~(mode = "plugin" /\ Deps(n) # {})
    /\ items[n].requires \cap failed = {}
    /\ items[n].requires \subseteq Proxies
    /\ s \notin DOMAIN poisoned
    /\ ~Crosses(Deps(n) \cap Proxies, s)

MemberLoads(n) ==
    \E s \in {StateFor(n)}, publishes \in BOOLEAN :
      /\ Constructed(n, s)
      /\ Recorded(n, s)
      /\ UNCHANGED poisoned
      /\ surfaces' = IF publishes THEN Put(surfaces, n, s) ELSE surfaces
      /\ built' = Put(built, n, [state |-> s, names |-> Deps(n), wired |-> Deps(n) \cap Proxies])
      /\ todo' = Tail(todo)
      /\ UNCHANGED <<mode, live, items, failed, escaped, ties>>

\* `exports` may be a function, and reading it is not guarded: a panic ends the
\* load_dir of every plugin.
MemberUnwinds(n) ==
    \E s \in {StateFor(n)} :
      /\ Constructed(n, s)
      /\ pool' = Put(pool, n, s)
      /\ poisoned' = Poison(s, n, "code")
      /\ escaped' = escaped \cup {"load_dir"}
      /\ todo' = Idle
      /\ items' = Empty /\ groups' = Empty /\ built' = Empty /\ failed' = {}
      /\ UNCHANGED <<mode, surfaces, live, ties>>

LoadMember ==
    /\ todo \notin {Idle, <<>>}
    /\ LET n == Head(todo)
       IN  MemberRefused(n) \/ MemberFails(n) \/ MemberLoads(n) \/ MemberUnwinds(n)

\* The registry takes the instances over once the backend has answered.
LoadEnd ==
    /\ todo = <<>>
    /\ live' = [n \in DOMAIN live \cup DOMAIN built |->
                  IF n \in DOMAIN built THEN built[n] ELSE live[n]]
    /\ todo' = Idle
    /\ items' = Empty /\ groups' = Empty /\ built' = Empty /\ failed' = {}
    /\ UNCHANGED <<mode, backend, escaped, ties>>

-----------------------------------------------------------------------------
(* reload, remove, call *)

Unwired(f, d) == [n \in DOMAIN f |-> [f[n] EXCEPT !.wired = @ \ {d}]]

\* Fault: a new proxy takes the place of the one the dependents hold.
ReloadWithNewProxy(n, s, deps) ==
    /\ ~Crosses(deps \cap DOMAIN surfaces, s)
    /\ surfaces' = Put(surfaces, n, s)
    /\ live' = [Unwired(live, n) EXCEPT ![n] =
                  [state |-> s, names |-> deps, wired |-> deps \cap DOMAIN surfaces]]
    /\ UNCHANGED poisoned
    /\ UNCHANGED escaped

\* reload_plugin: the wires are those of the surfaces there are now.  An error
\* (a dependency without a surface, a poisoned state, the plugin's own, exports
\* withdrawn) changes nothing.  The surface dependents hold is repointed.
ReloadSucceeds(n, s, deps) ==
    /\ ~Crosses(deps \cap DOMAIN surfaces, s)
    /\ \E publishes \in BOOLEAN :
         /\ n \in DOMAIN surfaces => publishes
         /\ surfaces' = IF publishes /\ n \notin DOMAIN surfaces
                        THEN Put(surfaces, n, s) ELSE surfaces
    /\ live' = [live EXCEPT ![n] =
                  [state |-> s, names |-> deps, wired |-> deps \cap DOMAIN surfaces]]
    /\ UNCHANGED poisoned
    /\ UNCHANGED escaped

\* Neither the backend nor the registry guards a reload.  The surfaces are handed
\* over before any code of the plugin runs.
ReloadUnwinds(n, s, deps) ==
    /\ poisoned' = Poison(s, n, IF Crosses(deps \cap DOMAIN surfaces, s)
                                THEN "wiring" ELSE "code")
    /\ escaped' = escaped \cup {"reload"}
    /\ UNCHANGED <<surfaces, live>>

\* The manifest is read again, and no isolation mode refuses what it names now.
Reload(n) ==
    /\ todo = Idle /\ n \in DOMAIN live
    /\ \E g \in Graphs, s \in {StateFor(n)} :
         /\ g[n].requires \subseteq DOMAIN surfaces
         /\ s \notin DOMAIN poisoned
         /\ pool' = Put(pool, n, s)
         /\ ReloadSucceeds(n, s, Named(g, n)) \/ ReloadUnwinds(n, s, Named(g, n))
    /\ UNCHANGED <<mode, batch, ties>>

\* Fault: the exports of a removed plugin stay published.
RemoveKeepingSurface(n) ==
    /\ todo = Idle /\ n \in DOMAIN live
    /\ live' = Drop(Unwired(live, n), n)
    /\ pool' = Drop(pool, n)
    /\ UNCHANGED <<mode, surfaces, poisoned, batch, escaped, ties>>

\* Dependents keep a removed plugin's exports, which nothing repoints any more.
\* A state nobody holds now is gone, and with it what happened to it.
Remove(n) ==
    /\ todo = Idle /\ n \in DOMAIN live
    /\ live' = Drop(Unwired(live, n), n)
    /\ pool' = Drop(pool, n)
    /\ surfaces' = Drop(surfaces, n)
    /\ UNCHANGED <<mode, batch, escaped, ties>>
    /\ poisoned' = Restrict(poisoned, DOMAIN poisoned \cap Held')

\* A synchronous call holds the lock, and its panic is caught; an asynchronous
\* one panics with the lock released, which leaves no trace.
CallPanics(n) ==
    /\ todo = Idle /\ n \in DOMAIN live
    /\ live[n].state \notin DOMAIN poisoned
    /\ poisoned' = Poison(live[n].state, n, "code")
    /\ UNCHANGED <<mode, pool, surfaces, live, batch, escaped, ties>>

Init == /\ mode \in Modes
        /\ pool = Empty /\ surfaces = Empty /\ poisoned = Empty
        /\ live = Empty
        /\ todo = Idle
        /\ items = Empty /\ groups = Empty /\ built = Empty /\ failed = {}
        /\ escaped = {} /\ ties = {}

Next == Load \/ LoadMember \/ LoadEnd
        \/ \E n \in Name : Reload(n) \/ Remove(n) \/ CallPanics(n)

Spec == Init /\ [][Next]_vars

-----------------------------------------------------------------------------

Instance == [state : State, names : SUBSET Name, wired : SUBSET Name]

Panic == [by : Name, how : {"code", "wiring"}]

TypeOK ==
    /\ mode \in Modes /\ ties \subseteq Name \X Name
    /\ DOMAIN pool \subseteq Name /\ Range(pool) \subseteq State
    /\ DOMAIN surfaces \subseteq Name /\ Range(surfaces) \subseteq State
    /\ DOMAIN poisoned \subseteq State /\ Range(poisoned) \subseteq Panic
    /\ DOMAIN live \subseteq Name /\ Range(live) \subseteq Instance
    /\ DOMAIN built \subseteq Name /\ Range(built) \subseteq Instance
    /\ DOMAIN live \cup DOMAIN built \subseteq DOMAIN pool
    /\ todo = Idle \/ todo \in Seq(Name)
    /\ DOMAIN items \subseteq Name /\ Range(items) \subseteq Dependencies
    /\ failed \subseteq Name
    /\ DOMAIN groups \subseteq SUBSET Name /\ Range(groups) \subseteq State
    /\ escaped \subseteq {"load_dir", "reload"}

\* The mode lets n and m run in one state: there is only one, or dependencies some
\* load has seen connect them.
MayShare(n, m) == mode = "shared" \/ (mode = "group" /\ m \in Component(n, Name, ties))

(* "Plugins with nothing between them stay apart" (docs/dependencies.md), as far as
   the pool keeps it when manifests change: a state that plugins share goes back to
   chains of dependencies that loads have found; under per-plugin isolation no
   sequence of failed loads, reloads and removals makes two plugins share one. *)
KeptApart ==
    \A n, m \in DOMAIN live : n # m /\ live[n].state = live[m].state => MayShare(n, m)

(* "Reload must reuse the state dependents already hold proxies into"
   (state_for): a plugin never changes state while it is loaded, and loses the
   exports of a dependency that runs on only by a manifest that no longer names it. *)
ReloadKeepsWiring ==
    [][\A n \in DOMAIN live \cap DOMAIN live' :
         /\ live'[n].state = live[n].state
         /\ \A d \in live[n].wired : d \in DOMAIN live' /\ d \in live'[n].names
                                     => d \in live'[n].wired]_vars

(* Between calls exports are published by running plugins only, in the state
   their plugin runs in, unless a load_dir was torn down by a panic. *)
SurfacesAreLive ==
    todo = Idle /\ "load_dir" \notin escaped =>
      \A n \in DOMAIN surfaces : n \in DOMAIN live /\ surfaces[n] = live[n].state

(* "Contained to its own state" (docs/isolation.md): a running plugin is cut off
   only by a panic under itself, or under a plugin it may share a state with, if
   only once: states are recorded, handed on, dropped and made anew meanwhile. *)
PanicStaysInside ==
    \A n \in DOMAIN live : live[n].state \in DOMAIN poisoned =>
      LET culprit == poisoned[live[n].state].by
      IN  culprit = n \/ MayShare(n, culprit)

(* What the manifests of the running plugins name is all that puts them together
   ("plugins with nothing between them stay apart", docs/dependencies.md). *)
ApartAsDeclared ==
    \A n, m \in DOMAIN live : mode = "group" /\ live[n].state = live[m].state =>
      m \in Component(n, Name, {e \in Name \X Name :
                                  e[1] \in DOMAIN live /\ e[2] \in live[e[1]].names})

(* "One plugin failing never affects the others" (docs/bindings.md): a running
   plugin can be called unless a panic happened under itself. *)
BystandersCallable ==
    \A n \in DOMAIN live :
      live[n].state \in DOMAIN poisoned => poisoned[live[n].state].by = n

(* "A `[dependencies]` entry that would inject exports fails with
   CrossStateDependency" where states are not shared (docs/isolation.md): nobody is
   handed a value of another state. *)
NeverAcrossStates == \A s \in DOMAIN poisoned : poisoned[s].how # "wiring"

(* "Every plugin runs in one shared state" (IsolationMode::Shared). *)
OneSharedState ==
    mode = "shared" => \A n, m \in DOMAIN live : live[n].state = live[m].state

(* "`dispatch`, `dispatch_async`, `load_dir` and `reload` catch that resumption"
   (docs/isolation.md): a panic under a plugin never leaves these calls. *)
LoadCatchesPanics == "load_dir" \notin escaped

ReloadCatchesPanics == "reload" \notin escaped
=============================================================================
