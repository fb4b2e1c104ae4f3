# Stanchion in TLA+

Stanchion is a plugin host: a Rust library that finds plugins on disk, verifies
them, orders them by their dependencies, runs them in a Lua or a WASM backend and
lets an application (in Rust, or through C, Python, Ruby, Godot and UniFFI
bindings, or over a pipe to a host process) call them. This directory holds TLA+
modules of the parts of it that decide something, TLC configurations that check
them on small instances, and theorems about them that TLAPS proves for every
instance.

All paths below are relative to the repository; `registry/`, `lua/`, `ffi/`, `dist/`,
`remote/`, `index/` and `abi/` stand for `src/crates/stanchion-<name>/src/`.

## 1. Inventory

| Component | State it keeps | Operations | Talks to |
|---|---|---|---|
| Dependency ordering (`registry/manifest.rs`) | none outside a call; inside it, maps by name: versions, edges, in-degrees, dependents, the ready list | `discover`, `check_dependencies`, `resolve_order` | called by `Registry::load_dir` |
| Plugin registry (`registry/lib.rs`, `lock.rs`) | `plugins` (a vector) and `index` (name to position), the revocation list, the lockfile, the backends | `load_dir`, `reload`, `remove`, `apply_revocations`, `revoke`, calls and dispatch | the disk, the verifier, each backend |
| Lua backend (`lua/backend.rs`) | one Lua state per plugin, group or backend behind a std mutex; the pool from name to state; published exports behind proxies | `load_group`, `reload_plugin`, `unload`, calls, `call_async` | mlua; the registry |
| Lua sandbox and budget (`lua/sandbox.rs`, `backend.rs`) | per state: the count of instructions used, the calls in flight, the gate of asynchronous calls | count, reset, charge, stop | the Lua backend |
| Value conversion (`lua/convert.rs`, each binding's `value.rs`) | a queue of functions per thread | Lua to `Value` and back, host language to `Value` and back | every call and provider |
| Host configuration (`ffi/host.rs`, `lua/config.rs`, the bindings) | what was asked for, what was built | constructors, policies, grants | the registry |
| Foreign call guard (`ffi/guard.rs`, `host.rs`) | a thread-local id of the innermost instance; the registry behind a tokio mutex | `enter`, `poll`, the release on drop | every binding; the registry |
| Language bindings, C ABI (`src/bindings/*`, `stanchion-ffi-c`) | handles; what they hold of their interpreter | forward to the host, providers, futures | the host of `stanchion-ffi` |
| Remote plugins (`remote/`) | a child process, two pipes, a reader thread, one call under way, queued requests | call, callback, timeout, shutdown, drop; serve | a child process over pipes |
| Installer (`dist/install.rs`) | the plugin root: installed directories, staging and `previous` directories; the lockfile | stage, review, commit, discard | the index, the lockfile |
| Upgrade review (`registry/upgrade.rs`) | none | compare two manifests | the installer |
| LuaRocks trees (`abi/rocks.rs`) | a tree on disk | version comparison, provisioning, verification | the `luarocks` program, the registry |
| Plugin index and its server (`dist/index.rs`, `http.rs`, `index/`) | documents on disk; a window of validity | serve, revalidate, stream a package; fetch, resolve, pin | caches and mirrors in between |
| Package format (`dist/package.rs`) | none | pack, unpack under limits | the installer |
| WASM backend (`stanchion-wasm`) | one wasmtime store per plugin | load, call | wasmtime; the registry |
| Signatures (`stanchion-sigstore`, `abi/signature.rs`) | none | verify | the registry, the installer |
| Tauri plugin, derive macros, data types, facade, binaries | handles | forwarding, code generation, parsing | the registry |

How they interact. A binding calls the host, which takes the registry's mutex for
the whole call (`ffi/host.rs`). `Registry::load_dir` lists the rocks tree, reads
manifests, has them ordered, verifies each directory (digest, signature, revocations,
lockfile, rocks), reads the entry file and compares it with the digest, asks the
policy about each capability, then hands the survivors in groups to the backends,
which answer with one outcome per item; the registry pushes what loaded into its
vector and index. The Lua backend runs the chunks in states it shares between
plugins according to the isolation mode and publishes their exports to their
dependents. During a call a plugin may come back: a capability provider of the host
runs on the same thread, in the host's language and under its interpreter's lock,
and may call the host again; with a host process, the callback crosses the pipe and
the application answers it while it waits for its reply. The installer resolves a
release from an index, whose documents a server, a cache or a mirror hands out,
streams its package, and writes the directories the registry reads.

What is hard here, and hard to test:

* files that change between two reads of one verification;
* operations that touch several plugins (`apply_revocations`, `remove`), over
  positions in a vector that shift;
* failures half way through a batch, and a second load after a failed one;
* Lua states shared between plugins when one of them panics, and when one is
  loaded, reloaded or removed alone;
* two atomics and two locks around one instruction counter, with calls that overlap;
* re-entrancy, nesting of several hosts, interpreters with a lock of their own, and
  futures that keep a lock while suspended or are dropped;
* a child process that crashes, hangs, prints or answers too much, and answers that
  arrive after their call has ended;
* documents that outlive what they say in caches and mirrors; a read that fails after
  the headers were sent;
* a queue per thread that every conversion on it shares;
* chains of upgrades, each reviewed against the one before;
* duplicate names, where every table is keyed by name.

`PROJECT.json` lists these hazards one by one at the line where they bite, with
the property that covers each, or why none does.

What makes each component correct, in short: the order is topological and complete
and a refusal has a cause; only verified, pinned and unrevoked builds run, the
name index is never wrong and no name is missing from a report; plugins share a state only where the mode says so and a
failure stays where it happened; code that runs too long is stopped and code that does
not is left alone; values arrive as they were sent and functions where they were
sent; nothing is granted without a yes; nobody waits for itself or in a circle; a call
to a host process returns, once, with its own answer, and no process is left behind;
one fault of an install loses nothing; a withdrawn release stops being offered, and an
outage is not taken for a missing plugin; a package is whole or refused.

## 2. Modules

| Module | Models | Composes |
|---|---|---|
| `LoadOrder` | what the registry wants of a load order, as predicates of the manifests and the answer: the abstract specification of `resolve_order` | |
| `ResolveOrder` | `discover`, `check_dependencies` and `resolve_order`, one action per turn of their loops | instantiates `LoadOrder` with its own variables |
| `RunningPlugins` | what a host may rely on of the plugins that run: an abstract specification, a map from names to plugins | |
| `Registry` | `load_dir`, `reload`, `remove`, `apply_revocations`, `revoke` | loads in any order that `LoadOrder` allows; implements `RunningPlugins` (`ImplementsRunning`) |
| `LuaStates` | states, groups, pool, exports, poisoning and panics of the Lua backend | |
| `LuaBudget` | one state's instruction budget under overlapping calls | |
| `CallGuard` | the guard, the registry lock, threads, nested calls and futures | |
| `Bindings` | what each language adds to it: GIL, GVL, borrowed objects, runtimes | extends `CallGuard` and implements it |
| `Values` | values as trees, and the conversions between them as operators | |
| `Crossings` | calls, results and providers over the function queue | extends `Values` |
| `HostConfig` | constructors, policies, grants | extends `Values` |
| `Surface` | a program that builds a host, loads a plugin and exchanges values | composes `HostConfig` and `Crossings` |
| `RemoteCalls` | what a caller of a remote host may rely on: an abstract specification | |
| `Remote` | client, reader thread, pipes and host process | implements `RemoteCalls` (`ImplementsCalls`) |
| `Install` | staging, checks and commit of the installer, the host that pins what it installed, faults between any two steps | what `discover` and `resolve_order` make of the plugin root is an operator of it |
| `Upgrades` | the review of an upgrade and chains of reviewed upgrades | |
| `Rocks` | rock versions and requirements, provisioning and verification | |
| `IndexService` | publisher, server, cache, mirror and client of the index | |
| `PackageStream` | one package between the server's disk and the client | |
| `...Proofs` | theorems and proofs | extend the module they name; `LuaProofs` is about `LuaStates` and `LuaBudget`, `BindingsProofs` about `CallGuard` too, `InstallProofs` about `Upgrades` and `Rocks` too, `IndexProofs` about `IndexService` and `PackageStream` |
| `MC...` | the small instances TLC runs on | extend the module they name; `MCInstall` also explores `Rocks` and `Upgrades` |

Four abstract specifications are implemented by a detailed one: `LoadOrder` by
`ResolveOrder` (at the end of its loop), `RunningPlugins` by `Registry`, `RemoteCalls` by `Remote`,
and `CallGuard` by `Bindings`; TLC checks each in a run, and each is proved.

### ResolveOrder

A root is a function from directories to manifests (name, version, dependencies
with the versions they accept, optional or not), or to `Absent` or `Unreadable`.
`Discover` reads it, `CheckDependencies` drops what misses a dependency until
nothing changes, as the loop of lines 110 to 126 does one at a time, `Wire` builds
edges, in-degrees and dependents (by name, so a later manifest of one name
overwrites the count of an earlier one while the edges of both stay),
`Seed`, `PopReady` and `CountDown` are Kahn's loop with its saturating
subtraction, and `Finish`, `Emit` and `Return` report what was left over. Version
requirements are the set of versions they accept. The call ends, so deadlock is
not checked in its run.

### Registry

The disk maps a directory to a build: everything a directory of a plugin may
contain, as one model value described by `Info` (manifest fields, signature, entry
file). The digest of a directory is the build itself, that of a file its content. `EditDisk`
rewrites a directory between any two steps, at most `MaxEdits` times; it is the
environment and the only action without a counterpart in the code.

`load_dir` is split where it goes back to the disk: `LoadDir` reads all manifests and
orders them; for each directory in order `ScanRefuse` or `ScanVerify` does the checks of
lines 535 to 588 with the digest of that moment, `EntryRefuse` or `EntryRead` reads the entry
file and compares it with the digest where there is one; `ScanDone` groups the items
by type; `BackendLoad`, `BackendFail`, `BackendSilent` are one item's outcome from its backend, `BackendStray`
one under a name nobody asked for; `Sweep` reports what was left out, blaming a dependency that failed
or the backend. A backend is taken to answer at most once for an item. `reload` is `Reload` (manifest), `ReloadVerify`, then `ReloadSwap` or
`ReloadFail`; `apply_revocations` computes the names to remove in one action and
removes them one by one in `Purge`, by name over positions that shift, as
the code does. The signature read and the digest are taken in one action: the
registry trusts both to describe the same directory, and no property here is
about a signature of one and a digest of another. Removing a plugin from vector and index is one action, and so is
numbering the index anew: both happen under `&mut self`.

`RunningMap` is what `Registry::get` finds: for each name of `index`, what is at its position of `plugins`. It
implements `RunningPlugins`, where a step starts, replaces or stops the plugin of one name, takes one capability from
it, or puts another list in force; starting, replacing and narrowing are only possible while nothing the list
denies still runs, and what starts has the grants the policy gives its signer.

Left out: versions of dependencies (module `ResolveOrder` has them), rocks (module
`Rocks`), the policy (module `HostConfig`), auditing, the builder's setters, and calls,
which change no registry state.

### LuaStates

Manifests are read anew by each load, and by each reload that of its plugin: `Graphs` is
what they may declare at one time, and every `Load` and `Reload` picks one of it. A running plugin
remembers what its manifest named (`names`) and what it was handed of that (`wired`); `ties`
remembers which dependencies any load has found between its items.

A plugin asks for a state through `StateFor`: its recorded one in the pool, which a failed load leaves behind, else
that of its group in the map of this load, else a new one, according to the
mode. Exports are published as a proxy that remembers the state they live in;
using a proxy of another state panics in mlua. A panic while a std mutex is held
poisons it; `poisoned` keeps whose panic it was and whether code or the wiring caused it. `LoadOrders` gives every
order `resolve_order` may return. Loading, reloading and calling choose their outcome freely: succeed, fail, or panic.

### LuaBudget

One state and its calls, each made once. A synchronous call holds the state's mutex from
before it is counted until after it is discounted (`SyncEnter`, `SyncLeave`). An asynchronous one
waits for the gate (`AsyncBegin`, `AsyncEnter`), takes the mutex for its arguments and for its
result, and runs its coroutine without it, from one yield to the next. `InFlight::enter`
is two atomics, hence two actions: `Count` within the entering action, then `Reset` for
the call that found the count at 0. `Consume` is one turn of the hook, which charges `Step`
instructions. Past the limit it raises an ordinary Lua error: the call may end with it (`failing`), or its code
catches it with `pcall` and runs on, when the next turn charges and raises again. `granted` counts what a
call was charged by turns that did not raise, `Caught` says that a call has gone on past an error. `Cancel` drops a future while it waits or is suspended. `LoadPlugin` stands for all of
loading a plugin into the state, which resets the budget unconditionally (`lua/backend.rs:469`) and
may leave an allowance charged (more, if the chunk catches the error; the first call resets either); the registry's `&mut self` keeps calls away meanwhile.
`threads` says whether calls run on one thread, as in a program with a
single-threaded executor, or on many.

### CallGuard and Bindings

A thread has a stack of frames: synchronous calls and polls of futures, each with
the instance it is inside; `active[t]` is the thread-local flag. `queue[i]` is the queue
of the tokio mutex of instance i, the head being its owner (a thread's frame or a
future). `Enter` is the guard's test and, if it passes, the request for the lock; a frame
that does not own its lock waits. `Leave` releases; `Poll`, `PollPending` and
`PollReady` are one poll of a future, `Cancel` drops it. `Nest` says which instances
a provider of which instance may call. `MaxDepth` bounds the nesting.

`Bindings` adds to each thread the side of the language border it is on (`foreign` code,
`native` code before and `answered` after a provider ran) and the interpreter's lock. Python
gives the GIL back around every operation (`EnterDetached`) and takes it for a provider
(`InvokeAttaching`); Ruby keeps the GVL (`EnterHolding`); Godot's engine lends the object to one
call at a time (`EnterBorrowed`); UniFFI and C lock nothing. `Resume` and `Yield` are the
interpreter's scheduler, external to the repository; `Switching` names the languages
whose scheduler may also take the lock from a provider half way. Each call of a plugin
uses a provider at most once.

### Values, Crossings, HostConfig, Surface

A value of a host language, a `Value` and a Lua value are all trees: functions from paths (sequences
of keys) to labels. What the code does by recursion, `Values` says of the paths: a conversion relabels
the nodes, drops or renames keys and carries what is left to the new paths (`Carried`), and refuses the
tree if it refuses any of its labels. `LuaToAbi` and `AbiToLua` take and give the functions of
`FUNCTION_CACHE` in the order of a walk (`WalkBefore`, the order `key_order` sorts by), so the n-th function of a
tree is the n-th of the queue (`Turn`). `FromHost` and `ToHost` are the five conversions of host
languages and the one of the wire (JSON), down to their differences: Python's `bool` is an `int`,
Ruby's symbols, keys of any type in Python and Godot, a map's
order of entries where two of them have one text. Depth has two limits: a host language's own for containers
(`MaxDepth`: Python, Ruby and Godot), and that of the JSON the C ABI and the wire are parsed with (`JsonDepth`; serde_json
stops at 128 nested containers). `Containers` counts those around a node, `InReach` says which trees a language can
read, `Fits` which the path carries both ways; what the other end of the pipe cannot parse is `Refused` by `Received`.
The number `JsonDepth` has for the wire is that of a request: its envelope takes some of the
128, and that of an answer or a grant, up to two levels less, is taken to be as deep. Texts and their byte order are constants.
`Crossings` runs the conversions: a call converts an argument in and the result out
(`Call`, `CallAgain`, `Return`), a provider the other way round (`Provide`, `Answer`).

`HostConfig` has one action per constructor (`PyNew`, `PyFromConfigFile`, `RubyNew`,
`GodotOpen`, `UniffiNew`, `StanchionInit`, `BuildRegistry`), one operator per policy, `Approve` for
what the registry does with an answer, and one action per language for what a provider is
handed. In the bindings a policy is foreign code, so it may answer with anything its
language allows: raise, another type, a dictionary with other keys. `Surface` puts the two behind
one program, since a value only crosses in a host that was built.

### RemoteCalls and Remote

`world` is the set of things that can go wrong in a behaviour, chosen at the start: a deadline or
none, plugins loaded at the start, callbacks, a crash of the host, the application's exit, plugin code that
hangs, prints to stdout, requests larger than the pipe, messages over the frame limit or nested deeper than JSON may be, stray
replies. The client (`Request`, `WriteEnds`, the receiving actions, `Timeout`, `ShutdownEnds`,
`DropRegistry`), the reader thread (`ReadFrame`, `ReadEnd`) and the host (`HostTakesQueued`, `HostReads`,
`Finish`, `CallApplication`, `HostAwaits` and what may befall it) share only the two pipes and the
channel between reader and client. A frame the host cannot read ends its loop (`remote/server.rs:193`), or, where it waits for the answer to a callback, is an
error of the plugin (`:223`), and the request in it has no reply. All requests are one operation, because the protocol treats
them alike, except shutdown. `spent` marks the stray reply and the printed line, each of which
happens once at most.

### Install

The plugin root maps paths to builds; paths are numbers in the order `discover` sorts
them, a plugin's name is the path it is installed at, and `StagingOf` and `PreviousOf` give the
paths of `.<name>.staging` and of `with_extension("previous")`. An unfinished
unpacking is `Half`. A flow is one handle of the host: `Stage` or `StageUpgrade` (resolve,
compare the pin, fetch), `StagingDir`, `Unpack`, `Check`, then `Discard` or the steps of commit, `ClearPrevious`,
`MoveAside`, `Promote`, `Retire`, then what the host does with the pin, `PinAndTruncate` and `Save`. The
index may claim what is not so, the source may answer with any build. `past` is history: the digest a plugin was
first pinned at and has kept (`sealed`), the plugins pinned since the file was last whole (`unsaved`), those whose commit
died before the pin was made or saved (`bare`).
Faults are actions of their own, `MaxFaults` bounds them: the process dies and starts
again with the lockfile it finds; a handle is dropped; a removal or a rename
fails; the lockfile cannot be opened (`OpenFails`), or not be written once it was truncated (`WriteFails`). A lockfile
that dies half written is taken to be empty: a part of it that parses as fewer pins is the same case for the plugins it lacks. The host makes the calls about one name one after the other (`Alone`),
but may hold several handles. A requirement may select any release that is not
yanked, which stands for all version requirements. A release without a `source`, and a
signer or an issuer copied to the pin, make no difference to any state and are left out.

### Upgrades and Rocks

`Between` computes the changes a review lists and `Narrows` its one judgement: a parameter table is
narrower when it has the same keys and each value is the same or an array of fewer elements.
The state is the installed manifest and the one a person last agreed to; a
candidate whose review does not widen is applied unattended.

A rock's version is its dotted numbers, of which there is at least one, and LuaRocks' revision
(`RocksAssumption`; components that are text, and numbers at the end of their 64 bits, are left out). `Satisfies` is
`Constraint::matches`, with the padding and the prefix comparison of the code; `Meaning` says what an operator
means without either, by what a version starts with and which of two is older. `InstallRocks` and `InstallNext` are
`Registry::install_rocks` over one listing; what the `luarocks` program fetches, and whether it removes
older versions, is external (`Fetched` follows its own rule: the version asked for, or the newest).
`LoadDir` is the verification at the start of a load; `Operator` changes the tree in between.

### IndexService and PackageStream

A document is a listing with the window it was served in; the server computes the window and the
remaining seconds from its clock at the start of a request, and reads the file afterwards, so the file may
change in between (`Ask`, `Serve`). The cache stores what has an age and
revalidates by the entity tag, as RFC 9111 has it; the mirror keeps an answer for
ever. The client checks `expires` by its own clock, which may be off by one of `Skews`. `offered`
remembers when each version was last to be had: what `YankReaches` measures from.
A package is up to `MaxChunks` chunks: the worker reads and queues them (`Read`, `Send`,
`SendError`), the adapter delivers, and the client stops at its limit, at the announced length, or when it
gives up.

## 3. Runs

| Run | Question | Instance |
|---|---|---|
| `order` | Is the order topological and complete, is a refusal caused by a cycle, is the version checked the one that loads, does the loop end? | every one of the 4096 graphs over four plugins; roots with unreadable and absent directories, shared names, two versions, optional and self dependencies |
| `registry` | Do only admitted builds run, is what runs what was verified, is the index right, is every name found in the report, does a revoked build stay out, do vector and index implement `RunningPlugins`? | three directories, six builds, four registries (pins and a verifier; required signatures; a silent WASM backend; no WASM backend and a revocation list), two rewrites of the disk at any moment |
| `lua_states` | Are states shared only where the mode allows, do reloads keep the wiring, are exports those of running plugins, does a panic stay inside? | three plugins, three dependency graphs of which each load and reload picks one, all three modes, loads, failures, reloads, removals and panics without limit |
| `budget` | Is no call charged more than two allowances without being told, is a call that is alone stopped for its own work only, does every call end whose code does not catch the error for ever? | one synchronous and two asynchronous calls, a limit of 3 in steps of 2, code that would run for 7, one thread or many |
| `bindings` | Does Python's host run without the GIL, does nobody wait for itself or in a circle, over registries or through the interpreter, is what the host sees `CallGuard`, is everyone served? | all five languages; two calling threads and an executor with one future, three instances whose providers call later ones or themselves |
| `bindings_ruby` | see below | Ruby, with a scheduler that may switch away from a provider |
| `surface` | Does a plain value come back as sent, does an odd one settle, do modules arrive whole, does only a yes bind, is a provider handed the grant that was approved? | six embedders, some twenty objects each, one on either side of each depth limit, six modules, five results; every constructor, answer of a policy and declared capability |
| `remote` | Does every method return unless the host is stuck where no deadline helps, does a call return once and with its own answer, do requests run once, is no process left behind that is not stuck? | three calls, two callbacks, everything that can go wrong in one behaviour, with a deadline and without |
| `install` | Is only what was checked installed, is a pin lost only by a restart on a truncated lockfile, does one fault lose nothing, do chains of unattended upgrades never grow, is a rock verdict what the requirement means? | two plugins, each installed by a flow of its own, over an old version or none, three lockfiles, an index with a wrong claim and a withdrawn release, a source that serves anything, two faults; 61 manifests; one rock with four releases and fifteen requirements |
| `install_crash` | see below | the same |
| `index` | Does a withdrawal reach everyone within a lifetime, is nothing cached past its expiry, is an outage never a missing plugin? | two versions, a lifetime of two ticks, five ticks, clocks off by one either way |
| `stream` | Is a package whole or refused, does the worker's thread come back? | packages of up to four chunks, a queue of two, a limit of three |

Why the bounds are enough. Four plugins make a cycle with a tail before and after
it, a diamond and two separate cycles, which is all the shapes the loop tells apart;
duplicates need two directories of one name and one dependency on either side. In
the registry a plugin to be verified, one that requires it in the same
backend and one that requires it in another cover every pair the checks relate,
and the builds differ in exactly one of the things that are checked: signer, code,
capabilities asked for, readability. Two rewrites suffice for a change and a change
back. For states, three plugins give a group of two with a bystander and a chain.
For the budget, `Limit` 3 in steps of 2 makes the limit fall inside a step, `Work` 7 lets code go on well past the
error that would stop it alone, and one synchronous call with two asynchronous ones gives every pair of kinds that
can overlap (two synchronous ones never do: the mutex) with one more to interleave. For the bindings, a thread that calls, one that waits and one that polls are
every role there is; one future and three instances make circles of two and of three, and a circle
through the interpreter needs one thread on either lock. In `surface`, one function left in the queue
(`MaxWaiting`) is enough to take the place of another; ceilings and grants are asked
for one at a time, because no constructor looks at both together. Two callbacks and three calls make an
answer that comes after its call ended, another call, and one behind it in the queue. As the client
makes one request at a time, at most one of those queued is still waited for: that the queue is first in, first out is
checked with one live request behind dead ones only. Both worlds have everything that can go wrong, so any of it may meet
any other in one behaviour. Five ticks are three windows of the index,
the last one cut, so a document, its cached copy and a mirror's copy expire in turn. Three chunks of
four are over the limit, and a queue of two fills up.

The index's clock counts whole seconds, as `unix_timestamp()` does; a cache that counts an age in fractions from its own
request may be up to a second off.

For the installer, one flow per name and two names are what its promises are about (two handles of one name are
in the table of disagreements): nothing of one
plugin's install touches another's paths, and the lockfile is the one thing shared. Two
faults are a crash and another one while recovering from it. `Install`, `Rocks` and `Upgrades` share no
variable, so `MCInstall` moves one while the others rest, instead of the product of
the three.

Fairness. `ResolveOrder` runs a loop to its end. In `BFairSpec` (module `Bindings`) a call that
is inside its plugin ends and a poll returns (a backend's instruction limit and fuel see to it), a
provider ends although the interpreter may stop it many times before (strong fairness of
`Answer`), a thread that asks for the interpreter's lock is not passed over for ever (strong fairness
of `Resume`: CPython's and the Ruby VM's queues), and an executor polls a future it began until
it is ready. The tokio mutex is first in, first out, which is in the actions, not in the fairness.
`Remote` has weak fairness for the client, the reader thread, the host and the
end of a process that exits: threads run when they can; nothing makes plugin code crash, print or
come back once it hangs, and an application need not make a call. `CallsReturn` says where a method may be held up, and by
what: the write of a request larger than the pipe, and the wait for the process, in `shutdown` too, have no deadline.
`LuaBudget` has fairness for a call on its
thread and for an executor that polls what it began; nothing makes a call begin, yield or be cancelled, and nothing
ends code that has caught the error of the limit: `CallsEnd` is for behaviours in which none does so for ever.
`PackageStream` assumes that the client reads on or gives up: `HttpSource` has a timeout of 30 s; the server
has no timeout for writing, so a client that is not stanchion's and stalls for ever does pin a worker
(`index/stream.rs:50`). The other modules have no liveness property and no fairness.

In run `bindings` every thread is served in Ruby too, because `Switching` does not name it:
that is what `bindings_ruby` shows to be needed. There is one future only, and providers call later
instances only, or their own: in that run a circle is not to be had by nesting, which `ffi/guard.rs` would not
stop (`NoSelfWait` in the table below). What brings threads into a circle when providers may call anything is what
`BindingsProofs` proves.

### Disagreements with the documentation

Two runs each check one sentence of the repository and find a behaviour of
the code against it. The exact quotation is in `PROJECT.json`.

| Run | What happens |
|---|---|
| `bindings_ruby` | The VM switches away from a provider written in Ruby; another thread takes the GVL and waits, with it, for the registry the provider's call holds. |
| `install_crash` | After a commit that died between its renames, the next one first deletes the only installed version. |

The same models show more of them; each is a definition of the module, and naming it in place of the
properties of a run's configuration prints the behaviour. They have no run of their own:

| Definition (configuration, changed constant) | What happens, and the words against it |
|---|---|
| `ResolveOrder!CleanMeansAllOrdered` (`order`, `Roots <- MCTwinRoots`) | One of two directories of one name is in neither result nor failures, and the report is clean (`registry/manifest.rs:184`; `is_clean`, `registry/lib.rs:146`: "True when every discovered plugin loaded"). |
| `ResolveOrder!DepsFirstAlways` (the same) | A plugin is ordered before a dependency it is wired to: `registry/manifest.rs:147` keeps the last one's count and both ones' edges. |
| `Registry!GrantsAreVerified` (`registry`) | A manifest read before the digest decides the capabilities of a build that was verified without it (`registry/lib.rs:524`; `docs/signatures.md:22`: "what runs is what was verified even if the directory changed in between"). |
| `Registry!FailedDependencySkips` (`registry`) | A WASM plugin loads although the Lua plugin it requires failed in its backend: `failed` is looked at before the backends run (`registry/lib.rs:550`). |
| `Registry!BlamedDependencyFailed` (`registry`) | A second `load_dir` reports a plugin as skipped for a dependency that is running (`registry/lib.rs:536`). |
| `LuaStates!ApartAsDeclared` (`lua_states`) | Grouped isolation: b, which depends on a, fails to load in a's state; its manifest drops the dependency, and the next load puts b into that state, with nothing between the two (`lua/backend.rs:404`; `docs/dependencies.md:38`: "plugins with nothing between them stay apart"). |
| `LuaStates!NeverAcrossStates` (`lua_states`) | Per-plugin isolation: a reload whose manifest now names a plugin that runs is not refused, wires the plugin to a value of another state, and panics in mlua with the mutex held (`lua/backend.rs:947`; `docs/isolation.md:47`: such an entry "fails with `CrossStateDependency`"). |
| `LuaStates!BystandersCallable` (`lua_states`) | One plugin's panic poisons the mutex of its state and makes every plugin in it uncallable (`lua/backend.rs:205`). |
| `LuaStates!OneSharedState` (`lua_states`) | Two loads under shared isolation make two states (`lua/backend.rs:879`). |
| `LuaStates!LoadCatchesPanics`, `ReloadCatchesPanics` (`lua_states`) | Panics of plugin code unwind out of `load_dir` (an `exports` function, `lua/backend.rs:1107`) and out of `reload` (`:969`). |
| `LuaBudget!StoppedAtTheLimit` (`budget`) | Code catches the error of the limit with `pcall` and runs on, charged and told again at each turn of the hook (`lua/sandbox.rs:70`; `:176`: "a runaway loop surfaces as a failed call rather than a hung process"). |
| `LuaBudget!NeverRestarted` (`budget`) | With many threads, a call that joins between the count and the reset is charged and then has its charge wiped (`lua/backend.rs:104`); this is why the promise is two allowances and not one. |
| `CallGuard!NoSelfWait` (`bindings`, `Nest <- AnyNest`, `MaxDepth = 3`) | A calls B calls A waits for its own thread (`ffi/guard.rs:45`; `docs/bindings.md:92`: "Calling back into that same registry would deadlock ... It does not"). |
| `CallGuard!NoWaitOnOwnFuture` (`bindings`, `Task = {"f", "g"}`, `Target <- TwoTargets`) | A provider's synchronous call on the executor's only thread waits for a suspended future of that thread. |
| `Install!OnlyInstalledFound` (`install`) | The registry finds staged files nobody has checked in the plugin root (`dist/install.rs:375`; `docs/distribution.md:244`: "A plugin that fails any check never exists in the root"). |
| `Install!PinIsOfMoved` (`install`, `Installs <- MCHandles`) | With two handles of one plugin, a commit installs the other's build and returns its own pin (`dist/install.rs:463`). |
| `Install!RestartKeepsPins` (`install`) | The process dies between the truncation of the lockfile and its write, and starts again without a pin (`registry/lock.rs:298`). |
| `Upgrades!EmptyMeansSame` (`install`) | A review is empty although a requirement on a dependency or a rock changed (`registry/upgrade.rs`, `is_empty`: "Whether the two manifests declare exactly the same things"). |
| `Rocks!ProvisionedLoads` (`install`) | After a provisioning without a failure, a load refuses a plugin: `~> 1` fetches the newest release, 2.0, and of two plugins that want one rock only the last is asked. |
| `Remote!DeadlineFrees` (`remote`) | With a deadline, an application waits for ever: for the write of a request larger than the pipe that a hung host does not read (`remote/client.rs:400`, before the deadline of `:412`), or for the process in `gone` (`:495`) and `shutdown` (`:379`), when a plugin that printed has ended the reader thread or an oversized answer left the host waiting (`docs/remote.md:102`). |
| `Remote!HostEndsWithApplication` (`remote`) | A host whose plugin code hangs lives on when its application dies. |
| `HostConfig!ZeroMeansNoLimit` (`surface`) | An instruction limit of 0 "means no limit" in the bindings' comments, but only puts the default ceiling back (`lua/config.rs`, `to_sandbox`). |
| `Crossings!EveryFunctionArrives` (`surface`) | In a table with both positions and names, or with holes beyond the ninth position, functions change places (`lua/convert.rs:119`). |

More, which no definition states. Plugin names may contain dots (`is_valid_name`), and
`with_extension("previous")` (`dist/install.rs:454`) replaces what follows the last one: `a.b` and `a.c`
move their old versions to one directory, `a.previous`, which is also a plugin name. A plugin that does not belong to a cycle but waits
for one is reported as part of it (`registry/manifest.rs:176`). `stage_upgrade` compares
the pinned digest like `stage` does, so with a lockfile that pins the plugin it
refuses every newer build, although `docs/distribution.md:229` proposes
upgrades that way. `Drop` of a remote registry takes a stdin that was taken at launch, so it always
kills the host; a reply over the frame limit ends the session (`remote/server.rs:249`), and an oversized
answer of the application leaves the host waiting. `shared = true` ignores the limits that were configured.
An instruction limit of 0 in a file's sandbox table refuses every call. Functions an uncaught
error leaves in the queue are taken by the next conversion on the thread (`lua/convert.rs:17`), until a provider
clears it. plugin-host sends `null` for a grant with a number JSON has no form for
(`remote/server.rs:71`). `<= 2.11` refuses rock 2.11-1, which `= 2.11` accepts. The review compares neither
requirement strings nor the plugin's type.

## 4. Proofs

Every proof goes the same way. An inductive invariant, a conjunction of named parts, holds
initially; one lemma per action shows that the action keeps it; the property follows from it.
Where the properties of a component are not inductive, the parts below say what has to be kept
besides, and why. The theorems assume the named assumptions of the module (what the
constants are) and nothing else, unless stated here: directories, plugins, threads, calls, limits and
fault counts are as many as one likes.

### ResolveOrderProofs

    ResolveInv == TypeOK /\ Phases /\ FromPending /\ Emitted /\ KahnInv

`ResolveMeetsContract`, `CheckedIsLoaded` and `RefusedForACycle` for every root. `Phases` and
`FromPending` say which tables are filled when; `Emitted` is all that can be said if two manifests share a name:
of those the last is emitted, once. With distinct names, `KahnInv` is the invariant of Kahn's algorithm.
A count in `indegree` is the cardinality of the dependencies a manifest has
not been counted down for (`Counted`); the loop over the dependents of one popped name is several actions, hence
`fan` in it; a manifest is ready exactly when that set is empty (`Queued`), so the saturating subtraction
never saturates. When nothing is ready, whatever is left waits for something left (`Stuck`), and a
finite set in which everybody waits for somebody has a cycle: the member with the least `Behind` it is on one
(`WaitersHaveACycle`). Conversely what is ordered has only what comes before it behind it.

### RegistryProofs

    RegistryInv  == TypeOK /\ BatchSound /\ IndexConsistent
    AdmissionInv == /\ PluginsAdmitted /\ DeniedArePurged /\ ReadyCleared
                    /\ CurrentCleared /\ NoneLoadedYet

`IndexConsistent` (a name's position in `index` holds the plugin of that name, and
every plugin is indexed) is not inductive by itself: inserting at the end of
the vector keeps it only if the name is not there yet, which holds because what a batch
still has to register are different plugins, none of which is registered. That is
`BatchSound`, which needs in turn that the load order has no name twice and that
nothing but the load registers plugins while it runs. `IndexFollowsPlugins`, `BatchesAreSound` and
`RegistryTypes` follow.

`AdmissionInv` follows a plugin from the scan into the registry, while the disk changes under it: the item
being verified (`CurrentCleared`), those waiting for their backend (`ReadyCleared`) and those
registered (`PluginsAdmitted`) have a digest and a signer that the lockfile and the list allow, and an entry file
that belongs to that digest. A changed list makes a registered plugin inadmissible before it is removed;
`DeniedArePurged` says it is then among the names still to purge. Hence `EntriesAreVerified`,
`OnlyAdmittedRun`, `RevokedAreOut`.

`NothingIsDropped` follows every name from `discover` to the report: it is in the scan, in the batch, with its backend, or
already in one of the lists, and what a backend does not answer for is still in the batch when `Sweep` goes through it.

`RegistryIsAMap` is the refinement of `RunningPlugins`. Appending to the vector, replacing a slot, and closing the
gap a removal leaves while the index is numbered anew are each one step of the map (`LoadIsStart`, `SwapIsReplace`,
`UnloadIsStop`, `RevokeIsNarrow`), because no two names share a position; that they are allowed when they
happen is `AdmissionInv` (`NoneDenied`, `ItemIsStartable`); everything else is a stutter.

### LuaProofs

The states, and what they keep apart:

    StatesInv == /\ TypeOK /\ OneHome /\ GroupsKnown /\ PoolApart /\ Contained
                 /\ WiredToSurfaces /\ LoadIsItsOwn /\ Published

`OneHome`: what runs, what is being loaded and what is published under a name are in the state the pool has for it.
`PoolApart` is `KeptApart` for the pool, which outlives the plugins and the manifests; a state handed out
by the map of a load's groups is that of a plugin of the same component (`GroupsKnown`), and components are the
classes of an equivalence, which is proved from their definition and kept when later loads add dependencies to `ties`.
That a new state is one nobody has is a
matter of cardinality: fewer plugins use states than there are. `Contained` is the
invariant behind `PanicsStayInside`: whoever uses a poisoned state is the one that panicked there or may share a state
with it. `StatesStayApart`, `SurfacesFollowPlugins` and the action property `WiringSurvives` complete it. None of them assumes
anything of the manifests, which may be different at every load and reload.

The budget of one state:

    BudgetInv == /\ BudgetTypeOK /\ used \in Charges /\ HoldersInFlight /\ OneResets
                 /\ AloneInFlight /\ OwnCounter /\ ChargedTwice

`HoldersInFlight` ties the count of calls in flight to the two locks, so at most two calls overlap and one alone is to
reset (`OneResets`). `ChargedTwice` is the bound of `TwoAllowancesAtMost` in two cases: while a reset is pending a call
was granted no more than the counter shows, afterwards no more than an allowance beyond it. Turns past the limit raise, so
they are charged but not granted, and code that catches the error gains nothing by them.
The counter moves in steps of the hook, so charges are multiples of `Step`; that is where the
two steps less than two allowances come from. `OwnCounter` gives `StoppedForItsOwn`.

### BindingsProofs

`GuardInv` shows, for any threads, instances, tasks and nesting, that the
thread-local flag is the id of the innermost frame (`FlagFollowsCalls`) and hence
that direct re-entry never gets to the lock (`DirectReentryRefused`).

Every step of a binding, whatever its language, is a step of `CallGuard` or
leaves its variables alone (`StepsAreGuarded`), hence `BindingsImplementCallGuard`: a refinement whose mapping
is the identity. So the theorems of `CallGuard` hold under every binding without a second
proof (`FlagFollowsCallsInBindings`). `PythonReleasesTheGil`
rests on an invariant of its own: who holds the GIL runs foreign code.

`CirclesHaveCauses` is about deadlock over both kinds of lock. The code does not rule it out, and neither does
the theorem assume it away: it says what must have happened where threads wait in a circle, or one for itself. Either a Ruby VM
has switched away from a thread that is in a call (`GvlTakenAway`), or, for every way to order the
instances, some thread of the circle has nested its calls against that order: A calls B calls A, or one thread calls B
from A and another A from B.

    LockInv  == GuardInv /\ LockTypes /\ FramesAreCallers /\ OneFrameEach
                /\ QueuesHoldCallers /\ OuterCallsOwn
    LocksInv == LockInv /\ GilInv /\ ProvidersAreInside /\ IsFiniteSet(Busy) /\ ...

A caller is in one queue, once, for the frame or future it belongs to (`QueuesHoldCallers`), and a call around
another leads the queue of its instance until it goes on (`OuterCallsOwn`), because no step takes the lock from a
call that goes on (`OwnersStay`). So whoever a thread waits for is inside the instance wanted; if its own calls
rise in some order of the instances and it waits as well, it does for
a later one (`WaitsForLater`): instances rise along a chain of such threads. Only threads with a call wait, and those are
finitely many at any time, however many threads there are; one of them waits for the latest
instance, and no circle goes through it. With the interpreter's lock, the chain ends sooner: its holder waits for nobody
(`HolderIsFree`), in Python because the host is entered without the GIL, in Ruby because the GVL is still with the thread
that is in a call. So a program is safe whose providers follow some order, with Ruby's not switched away from; the
disagreement of `NoSelfWait` and run `bindings_ruby` show the two causes at work. A wait for a future that is suspended on one's
own thread is not a circle of threads, and is the disagreement of `NoWaitOnOwnFuture`.

### RemoteProofs

    RemoteInv == TypeOK /\ Lines /\ Replies /\ Results

A request goes from stdin, perhaps through the host's queue, to the plugins. `Lines` says that what ran, what is queued and
what is in the pipe are in the order made and after one another; `Replies`, that each
reply on its way back answers the request with its number, which ran; `Results`, that the numbers below
the next one are used up, once each, and that the call under way is open. `RequestsRunInOrder` follows, and the refinement
`RemoteImplementsCalls`, which maps steps: a request opens a call or refuses it, a matching reply answers it, an end of the
session or of the time gives it up, and everything else, late answers, crashes, callbacks, what a plugin
prints and frames that are too long or no messages included, is a stutter.

### InstallProofs

`OnlyVerifiedInstalled` and `PinsHold` hold for any plugins, index, source, number of
flows and of faults, under two assumptions. `SeparatePaths`: no name is the staging or `previous`
directory of one, and no two names share such a directory, which is so for names without a
dot. `OneFlowPerName`: each plugin is installed by one flow, which may do so again and again;
`PinIsOfMoved` shows what happens to the pin without it. The inductive invariant is

    InstallInv == TypeOK /\ FileInPins /\ (\A n \in Name : NameInv(n)) /\ (\A f \in Flow : FlowInv(f))

`NameInv` is `OnlyVerified`, and the agreement of pin and directory, for one name. They are not inductive: `Promote` installs what is in the
staging directory, so `FlowInv` keeps that a staged build passed the checks until it is moved and that it
agrees with the pin; `PromoteFails` puts back what was moved aside, so `FlowInv` keeps that this is
admissible too; `PinAndTruncate` records a digest, so it keeps that this is what is installed; and after `Crash`
the host reads the file, so `FileInPins` keeps that the file pins nothing the host does not. `PastInv` adds the history: what was
pinned is pinned at its first digest unless a restart may have missed it (`Sealed`), and each build in place is an old one,
pinned, on its way to the pin or known to have died before it (`Promised`, `AsideIsAccounted` for what a failed rename puts
back). Lemma `LocalStep` does once what all steps inside the root share: a flow that keeps to the paths
of its name leaves the others alone.

`OneFaultKeepsAll` adds `KeepInv`, whose `Survives` counts faults: with none, a plugin is in its place or
its commit is between the two renames; with one, it may be in the `previous` directory instead, which only a commit clears
that has staged files which passed the checks (`AsideIsOwn`: what is moved aside is a build of
the plugin). It also assumes `RootsAreOwn`, that the root starts with builds under their own names.
Run `install_crash` shows what a second fault can do.

`UnattendedUpgradesNeverGrow` holds for any set of manifests and chains of any
length: a review that does not widen is a relation between neighbours, and the lemmas show that
each part of it (names, entry, parameters of a capability, subsets of lists) is transitive, so that
what the approved manifest bounds stays bounded.

`VerdictsAreMeant` holds for versions with any number of components and any requirements. The inductive invariant is

    RocksInv == /\ needs \in Demands /\ DOMAIN tree = Rocks
                /\ (\A r \in Rocks : tree[r] \subseteq Released[r]) /\ DOMAIN todo \subseteq Rocks

which says little; the work is in the order. `VersionOrder` and `OlderTransitive` show that the code's comparison,
which looks for the first difference in versions padded to one width, is a total order up to versions that are the same;
`NewestExists` that a finite tree then has a highest version, and `HighestIsNewest` that any two highest ones are the same, so
that it makes no difference which of them the listing keeps (`SameMeaning`). `MatchesAsMeant` goes through the operators.
The one that needs an argument is `~>`: not below a version and below its last component's next increment is to
start with the version's components and not to be older (`CompatibleStarts`), whatever follows them.

### IndexProofs

    IndexInv  == /\ IndexTypes /\ OfferedSoFar /\ CacheKept /\ MirrorKept /\ RequestKept /\ YankReaches
    StreamInv == /\ StreamTypes /\ WholeOrRefused
                 /\ receiver = "open" => result = "waiting" /\ (OnTheWay \/ BrokenOff)

A document is `Covered` if it expires within a lifetime of the last moment each version in it was
offered. The whole of `IndexInv` is that this holds of every copy: in the
cache, in the mirror and in an answer on its way; and that a 304 answer renews the copy whose validator was sent,
because a validator is the document with its expiry and the cache keeps its entry while it asks (`Sent`, `Served`). With
`WindowOf`, the arithmetic of the server's windows, `CachesStayFresh`, `YanksReachEveryone` (any lifetime and skew of
clocks) and `OutagesAreNotAbsence` follow. For a package, as long as the client has no
result, every chunk is counted once (`OnTheWay`) or the queue ends with the error (`BrokenOff`): `PackagesAreWhole`
for any number of chunks, depth of the queue and limit.

### SurfaceProofs

    CrossInv == IsQueue(waiting) /\ (the last answer is Settled) /\ PlainComesBack /\ ModuleArrives
    HostInv  == /\ OnlyYesBinds
                /\ (what is allowed is what was asked for) /\ (a bound grant is a Value)
                /\ (what a provider has seen is that grant in its language)

The conversions are what these theorems are about, more than the steps around them. Since a value is a function of
its paths, nothing has to be proved by induction over its depth: a fact about a tree is a fact about each path and the
paths above it. `CarriedTree` does once what every conversion shares: if the keys that stay at each node get
different names, what is carried is a tree again, the old path of each new one is unique (`MovedApart`), and its keys are the
renamed ones. Lua sees the functions of a tree in the order of a walk, which is a total order on the paths of a finite
tree (`WalkIsTotal`, from that of the keys), so each function has a turn of its own and every turn from 1 to their number
is taken (`Turns`); the queue a conversion fills in that order is the one the next conversion empties
(`StashedInTurn`, `IntoLua`). `ModuleComesWhole` puts the two together for tables that are sequences or have text
keys; the table of disagreements has the others. `ModulesArrive` needs the queue cleared before the provider runs; with
functions waiting in it, as `waiting` may hold anywhere else, it fails.

`AnswersSettle` goes by what an answer can be. Whatever was sent, the `Value` that comes out of Lua has no nil
and no empty map inside it (`Echoed`, lemma `LuaSettles`); turned into an object of the language and read back
(`HostReadsBack`), pushed into Lua and read out once more (`EchoComesBack`), such a value is what it was. Functions
are the interesting case: UniFFI passes them on as placeholders, so an answer that holds some comes back only
while as many functions wait in the queue. `Settled` says both, and a call leaves as many functions behind as it takes.
`PlainObjectsComeBack` follows the same path for an object that is plain (`PlainCrosses`), which includes that it is within
the limits of its path: what Lua gives back is no deeper than what it was given, so `Fits` is carried
through each conversion, and no end refuses on the way back what it accepted on the way in.

`HostInv` follows a capability from the constructor to the provider. `DecisionIsYes` goes through every answer a
policy of each language can give; that a provider's grant reads back as the grant that was approved is
`HostReadsBack` again, for which the parameters of a manifest must be Values without nulls and functions
(`ParamsAssumption`: TOML has neither).

The proof corrected the model once. The labels `ReadLabel` tells apart, and the answers `Decide` judges, were alternatives
of a CASE of which two could be true at once: TLC takes the first, the logic may take either, and the depth limit or the
allow list would not have been what decides. They are an IF now. That different positions have different texts
(`DigitsAssumption`) is what the renaming of a sparse table's keys rests on.

### Model-checked only

* `NoCircleThroughInterpreter`, with ordered nesting as in the run: see `CirclesHaveCauses`.
* Liveness (`Termination`, `EveryCallServed`, `CallsReturn`, `ChildEnds`, `CallsEnd`, `WorkerStops`): a proof needs when an action is
  enabled, which the provers cannot expand.
* The definitions of the table of disagreements: they are false.

## 5. Not modelled

* The WASM backend beyond its place in `load_dir`: fuel and memory limits are wasmtime's.
* Signatures: cryptography of the sigstore crate; its three answers (signed, unsigned, bad) are in `Registry`.
* The Tauri plugin, which forwards to a registry behind one mutex; its windows and permissions are Tauri's.
* The package format's bytes: an unpacking that fails, is interrupted or yields another build is in `Install`.
* The tables of an environment and `require`, the libraries a sandbox has, memory limits: mlua's.
* Macros, data types, the facade, the binaries' arguments, fuzz targets, examples and the site.
* Pointers and lifetimes of the C ABI. Panics that unwind through a poll of a future, and of a reader of the package stream.

Outside the source, and modelled by how it uses them: tokio's mutex and channel (first in, first
out), mlua (values of another state panic), pipes and processes, the interpreters' locks, the
`luarocks` program, HTTP caches, the file system.

## 6. Plan

1. Done: ordering, registry, Lua states and budget, call guard and bindings, values and host configuration,
   remote plugins, installer, upgrades, rocks, index and package stream.
2. Done: each safety property and action property of a passing run is a theorem, and so are the four refinements, except
   `NoCircleThroughInterpreter`, which is false where providers call as they like and has `CirclesHaveCauses` instead.
3. Next: an installed plugin as one atomic value that `Install` implements but for its faults, and the
   group of states an isolation mode promises as an abstract specification of `LuaStates`; both proved.
4. Then the hazards without a property: a manifest parsed before the digest is taken, a revoked grant
   the instance did not hold, a panic of a future's poll, two handles of one plugin.
