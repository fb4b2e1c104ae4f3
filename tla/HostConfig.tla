----------------------------- MODULE HostConfig -----------------------------
(***************************************************************************)
(* From what an embedding program asks for to what a plugin is granted:    *)
(* the constructors of the bindings and of plugin-host, the builder of     *)
(* stanchion-ffi, SandboxConfig::to_sandbox, and the policies that foreign *)
(* code decides with.                                                      *)
(***************************************************************************)
EXTENDS Values

CONSTANTS Capabilities,   \* capability names, Log among them
          Log,            \* the one plugin-host and the C ABI answer themselves
          Params,         \* parameters a manifest may declare (from TOML)
          PolicyParams,   \* what a policy may name in `grant_with`, as host objects
          SomeLimit       \* a ceiling other than the default

\* TOML has no null and no functions.
ASSUME ParamsAssumption ==
  /\ \A v \in Params : ValueTree(v) /\ \A p \in DOMAIN v : v[p] \notin {Nil, Function}
  /\ \A o \in PolicyParams : HostTree(o)

VARIABLES lang,           \* who embeds
          asked,          \* the arguments of the constructor
          host,           \* what was built from them
          bound,          \* the capability a loaded plugin got, with its parameters
          said,           \* what the policy answered about it
          seen            \* the grant a provider was handed, as a host object

hostVars == <<lang, asked, host, bound, said, seen>>

Unset == "unset"
Zero == "0"
Default == "default ceiling"
NoLimit == "no limit"
NotBuilt == [offered |-> {}, allowed |-> {}, ceiling |-> "none"]
Unbound == <<"unbound">>
Failed == <<"failed">>

WithPolicy == {Python, Ruby, Godot, Uniffi}

\* What a policy may answer.  Python's and Ruby's build a Decision, raise or return
\* some other object; Godot's answers with a plain object or has been freed; UniFFI's
\* has three cases and no way to misbehave.
PolicyAnswers(l) ==
  CASE l = Godot -> {<<"raise">>, <<"bool", TRUE>>, <<"bool", FALSE>>, <<"str", "a">>,
                     <<"dict", "deny", Leaf(<<"str", "a">>)>>, <<"dict", "a", Leaf(Nil)>>}
                      \cup {<<"dict", "grant_with", p>> : p \in PolicyParams}
    [] l = Uniffi -> {<<"grant">>, <<"deny">>} \cup {<<"grant_with", p>> : p \in PolicyParams}
    [] OTHER -> {<<"grant">>, <<"deny">>, <<"raise">>, <<"garbage">>}
                  \cup {<<"grant_with", p>> : p \in PolicyParams}

HostInit == /\ lang \in Languages
            /\ asked \in [limit : {Unset, Zero, SomeLimit}, shared : BOOLEAN,
                          allow : SUBSET Capabilities, callbacks : SUBSET Capabilities,
                          policy : BOOLEAN]
            /\ asked.policy => lang \in WithPolicy
            \* Godot's capabilities and policy are registered one by one.
            /\ lang = Godot => asked.callbacks = {} /\ ~asked.policy
            /\ host = NotBuilt
            /\ bound = Unbound
            /\ said = Nil
            /\ seen = Leaf(Nil)

-----------------------------------------------------------------------------
(* The constructors.                                                       *)

\* Godot's register_capability and set_policy, which do nothing after open.
RegisterCapability(name) == /\ lang = Godot /\ host = NotBuilt
                            /\ asked' = [asked EXCEPT !.callbacks = @ \cup {name}]
                            /\ UNCHANGED <<lang, host, bound, said, seen>>
SetPolicy == /\ lang = Godot /\ host = NotBuilt
             /\ asked' = [asked EXCEPT !.policy = TRUE]
             /\ UNCHANGED <<lang, host, bound, said, seen>>

\* The instruction limit of HostConfig: arguments start from HostConfig::default and
\* `(n > 0).then_some(n)` has 0 for none at all; a file's sandbox table is as it stands.
Positive(limit) == CASE limit = Unset -> Default [] limit = Zero -> Unset [] OTHER -> limit

\* to_sandbox starts from Sandbox::restricted and applies the limits there are.
ToSandbox(limit) == IF limit = Unset THEN Default ELSE limit

\* Builder::build: a shared state is made with LuaBackend::shared and its own
\* restricted sandbox, isolated ones with the sandbox that was configured.
Built(l, offered, allowed, limit) ==
  /\ lang = l /\ host = NotBuilt
  /\ host' = [offered |-> offered, allowed |-> allowed,
              ceiling |-> IF asked.shared THEN Default ELSE ToSandbox(limit)]
  /\ UNCHANGED <<lang, asked, bound, said, seen>>

\* Builder::capability: a capability the program answers is allowed, too.
Granted == asked.allow \cup asked.callbacks

PyNew == Built(Python, asked.callbacks, Granted, Positive(asked.limit))
PyFromConfigFile == Built(Python, asked.callbacks, Granted, asked.limit)
RubyNew == Built(Ruby, asked.callbacks, Granted, Positive(asked.limit))
GodotOpen == Built(Godot, asked.callbacks, Granted, Positive(asked.limit))
UniffiNew == Built(Uniffi, asked.callbacks, Granted, Positive(asked.limit))

\* The C ABI allows the capabilities its configuration names, and answers log alone.
StanchionInit == Built(C, {Log}, Granted \cup {Log}, Positive(asked.limit))

\* plugin-host's build_registry: log is offered always, and allowed when it is named.
BuildRegistry == Built(Wire, asked.callbacks \cup {Log}, Granted, asked.limit)

Build == PyNew \/ PyFromConfigFile \/ RubyNew \/ GodotOpen \/ UniffiNew
         \/ StanchionInit \/ BuildRegistry

-----------------------------------------------------------------------------
(* The decision.  Refused denies.                                          *)

\* Fault: a policy that raises is taken not to object.
PyPolicyLenient(answer, params) ==
  CASE answer[1] \in {"grant", "raise"} -> params
    [] answer[1] = "grant_with" -> FromHost(Python, answer[2])
    [] OTHER -> Refused

\* PyPolicy: what is not a Decision denies; grant_with of what cannot cross raises.
PyPolicy(answer, params) ==
  CASE answer[1] = "grant" -> params
    [] answer[1] = "grant_with" -> FromHost(Python, answer[2])
    [] OTHER -> Refused

RubyPolicy(answer, params) ==
  CASE answer[1] = "grant" -> params
    [] answer[1] = "grant_with" -> FromHost(Ruby, answer[2])
    [] OTHER -> Refused

\* Godot's: true grants, and so does a dictionary with a key "grant_with".
InterpretDecision(answer, params) ==
  CASE answer = <<"bool", TRUE>> -> params
    [] answer[1] = "dict" /\ answer[2] = "grant_with" -> FromHost(Godot, answer[3])
    [] OTHER -> Refused

PolicyBridge(answer, params) ==
  CASE answer[1] = "grant" -> params
    [] answer[1] = "grant_with" -> FromHost(Uniffi, answer[2])
    [] answer[1] = "deny" -> Refused

\* AllowList, and plugin-host's Rules.
AllowList(name, params) == IF name \in host.allowed THEN params ELSE Refused

Decide(name, params, answer) ==
  IF ~asked.policy THEN AllowList(name, params)
  ELSE CASE lang = Python -> PyPolicy(answer, params)
         [] lang = Ruby -> RubyPolicy(answer, params)
         [] lang = Godot -> InterpretDecision(answer, params)
         [] lang = Uniffi -> PolicyBridge(answer, params)

\* approve_capabilities for one declared capability: what the plugin is bound
\* with, unbound when it can do without, or the failure of the load.
Approve(name, optional, decision) ==
  IF name \notin host.offered \/ decision = Refused
    THEN IF optional THEN Unbound ELSE Failed
  ELSE IF decision[<<>>] # <<"map">> THEN Failed
  ELSE <<name, decision>>

Load(name, params, optional, answer) ==
  /\ host # NotBuilt
  /\ bound = Unbound
  /\ bound' = Approve(name, optional, Decide(name, params, answer))
  /\ said' = answer
  /\ UNCHANGED <<lang, asked, host, seen>>

-----------------------------------------------------------------------------
(* A capability call: the approved grant travels with it.                  *)

Handed(l, grant) == /\ lang = l
                    /\ bound \notin {Unbound, Failed}
                    /\ seen' = grant
                    /\ UNCHANGED <<lang, asked, host, bound, said>>

\* Fault: the provider is handed no grant.
PyProviderEmpty == Handed(Python, ToHost(Python, Leaf(<<"map">>)))

PyProvider == Handed(Python, ToHost(Python, bound[2]))
RubyProvider == Handed(Ruby, ToHost(Ruby, bound[2]))
MainThreadCallable == Handed(Godot, ToHost(Godot, bound[2]))
ProviderBridge == Handed(Uniffi, ToHost(Uniffi, bound[2]))

\* The C ABI's own log prints a text and looks at no grant.
LogProvider == Handed(C, Leaf(Nil))

\* plugin-host forwards what is not its own log, with null for a grant JSON has no form
\* for; a grant that nests too deep for frame::read never reaches the application.
Forwarded == /\ bound[1] \in asked.callbacks
             /\ LET grant == ToHost(Wire, bound[2])
                IN Fits(Wire, grant) /\ Handed(Wire, IF grant = Refused THEN Leaf(Nil) ELSE grant)

Invoke == PyProvider \/ RubyProvider \/ MainThreadCallable \/ ProviderBridge
          \/ LogProvider \/ Forwarded

HostNext == \/ \E name \in Capabilities : RegisterCapability(name)
            \/ SetPolicy
            \/ Build
            \/ \E name \in Capabilities, params \in Params, optional \in BOOLEAN,
                  answer \in PolicyAnswers(lang) :
                 Load(name, params, optional, answer)
            \/ Invoke

-----------------------------------------------------------------------------

\* What the policy of each language means by yes, and the grant it names.
Yes == \/ said[1] \in {"grant", "grant_with"}
       \/ lang = Godot /\ said = <<"bool", TRUE>>
       \/ lang = Godot /\ said[1] = "dict" /\ said[2] = "grant_with"
GrantNamed == CASE said[1] = "grant_with" -> {said[2]}
                [] said[1] = "dict" -> {said[3]}
                [] OTHER -> {}

\* Nothing is bound that nobody answers for, and nothing without a yes: of the
\* policy when the program gave one, of the allow list otherwise.  An answer that
\* raises, or that nobody can read, denies.
OnlyYesBinds ==
  bound \notin {Unbound, Failed} =>
    /\ bound[1] \in host.offered
    /\ IF asked.policy
         THEN Yes /\ \A o \in GrantNamed : FromHost(lang, o) = bound[2]
         ELSE bound[1] \in Granted \cup (IF lang = C THEN {Log} ELSE {})

\* The grant a provider is handed in its own language reads back as the grant
\* that was approved, so a provider that checks its bounds checks the right ones.
\* Of a manifest that nests deeper than a language reads, nothing is said.
ProviderSeesGrant ==
  /\ seen # Leaf(Nil)
  /\ Fits(lang, seen)
  => FromHost(lang, seen) = bound[2]

\* The comments at python lib.rs:481, ruby lib.rs:253, godot lib.rs:494 and the
\* documentation of the other bindings: a limit of 0 means no limit.
ZeroMeansNoLimit ==
  host # NotBuilt /\ asked.limit = Zero /\ ~asked.shared /\ lang # Wire => host.ceiling = NoLimit

=============================================================================
