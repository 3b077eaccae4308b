------------------------------ MODULE Providers ------------------------------
(* The API providers of one project: the list and the active entry in the  *)
(* agent (agent/claudecode/claudecode.go), the file config.toml, the local *)
(* proxy that rewrites "thinking" for some providers, and the commands     *)
(* /provider, /model and /config reload, which change all three in         *)
(* steps of their own while turns start agents in between.                 *)
(*                                                                         *)
(* The agent keeps the active provider as an index into its list.  An      *)
(* agent process gets the key, the URL and the model once, at its start.   *)
(*                                                                         *)
(* A provider is its name (it stands for key and URL) and its model.  Left *)
(* out: a file that cannot be read or written, the model of an agent       *)
(* without a provider, overrides per agent type, the providers of          *)
(* workspace agents, and the conversations that a switch clears.           *)
EXTENDS Integers, Sequences, SequencesExt

CONSTANTS
    Names,          \* of providers
    Globals,        \* those defined in [[providers]]
    Refs,           \* provider_refs of the project at the first start
    Thinking,       \* those whose requests the local proxy rewrites
    Models,
    Chats,
    Workers,        \* goroutines that handle commands
    MaxEdits,       \* edits of config.toml by hand, a bound
    None

ASSUME ProvidersAssumption ==
    /\ Globals \subseteq Names /\ Thinking \subseteq Names
    /\ Refs \in Seq(Globals)
    /\ MaxEdits \in Nat
    /\ None \notin Names \cup Models \cup Chats

VARIABLES
    providers,      \* Agent.providers
    activeIdx,      \* Agent.activeIdx + 1: 0 without an active provider
    proxy,          \* the provider that Agent.providerProxy forwards to
    file,           \* config.toml
    agent,          \* per chat, what its agent process was started with
    cmd,            \* the command each worker is at
    edits,
    adrift,         \* observation: the active entry is not one that was chosen
    agree,          \* observation: see SettingsRestored
    last            \* observation: the chat that made the active entry

vars == <<providers, activeIdx, proxy, file, agent, cmd, edits, adrift, agree, last>>

Provider == [name : Names, model : Models]
Listed(list) == {list[i].name : i \in DOMAIN list}
NameAt(list, i) == IF i \in DOMAIN list THEN list[i].name ELSE None
IndexOf(list, n) == SelectInSeq(list, LAMBDA p : p.name = n)

\* the entries of s that are in T, in their order
KeptTo(s, T) ==
    LET f[n \in 0..Len(s)] ==
            IF n = 0 THEN <<>> ELSE IF s[n] \in T THEN Append(f[n-1], s[n]) ELSE f[n-1]
    IN  f
Kept(s, T) == KeptTo(s, T)[Len(s)]

Without(list, n) == Kept(list, [name : Names \ {n}, model : Models])
WithoutFirst(list, n) == RemoveFirstMatch(list, LAMBDA p : p.name = n)
WithModel(list, n, m) ==
    [i \in DOMAIN list |-> IF i = IndexOf(list, n) THEN [list[i] EXCEPT !.model = m] ELSE list[i]]
ActiveName == NameAt(providers, activeIdx)

Entries(refs, global) == [i \in DOMAIN refs |-> [name |-> refs[i], model |-> global[refs[i]]]]

\* ResolveProviderRefs: the referenced ones, unless an inline one overrides them
Resolved(f) ==
    Entries(Kept(f.refs, Globals \ Listed(f.inline)), f.global) \o f.inline

Ops == {"add", "remove", "switch", "clear", "model", "reload"}
NoCmd == [op |-> "none", pc |-> "idle", chat |-> None, name |-> None, model |-> None, list |-> <<>>]
NoAgent == [up |-> FALSE, key |-> None, route |-> "own"]

Idle == \A w \in Workers : cmd[w].pc = "idle"
At(w, op, pc) == cmd[w].op = op /\ cmd[w].pc = pc
Goto(w, pc) == cmd' = [cmd EXCEPT ![w].pc = pc]
Done(w) == cmd' = [cmd EXCEPT ![w] = NoCmd]

TypeOK ==
    /\ providers \in Seq(Provider)
    /\ activeIdx \in Nat
    /\ proxy \in Names \cup {None}
    /\ file \in [refs : Seq(Globals), inline : Seq(Provider), global : [Globals -> Models],
                 active : Names \cup {None}]
    /\ agent \in [Chats -> [up : BOOLEAN, key : Names \cup {None}, route : {"own", "proxy", "cut"}]]
    /\ cmd \in [Workers -> [op : Ops \cup {"none"}, pc : {"idle", "check", "list", "set", "persist",
                            "select", "clean", "save"}, chat : Chats \cup {None},
                            name : Names \cup {None}, model : Models \cup {None},
                            list : Seq(Provider)]]
    /\ edits \in 0..MaxEdits
    /\ adrift \in BOOLEAN /\ agree \in BOOLEAN
    /\ last \in Chats \cup {None}

-----------------------------------------------------------------------------
(* Start and restart                                                       *)

\* wireAgentProviders: an active provider that is not in the list is none
Wire(f) ==
    /\ providers' = Resolved(f)
    /\ activeIdx' = IndexOf(Resolved(f), f.active)
    /\ proxy' = None
    /\ agent' = [c \in Chats |-> NoAgent]
    /\ cmd' = [w \in Workers |-> NoCmd]
    /\ adrift' = (f.active \notin Listed(Resolved(f)) \cup {None})
    /\ agree' = TRUE /\ last' = None

Init ==
    /\ file \in [refs : {Refs}, inline : {<<>>}, global : [Globals -> Models], active : {None}]
    /\ providers = Resolved(file) /\ activeIdx = 0 /\ proxy = None
    /\ agent = [c \in Chats |-> NoAgent] /\ cmd = [w \in Workers |-> NoCmd]
    /\ edits = 0 /\ adrift = FALSE /\ agree = TRUE /\ last = None

\* a crash at any moment; config.toml is replaced by a rename
Restart == Wire(file) /\ UNCHANGED <<file, edits>>

\* the user drops or reorders inline providers, or names another active one
EditFile ==
    /\ edits < MaxEdits /\ edits' = edits + 1
    /\ \E s \in SetToAllKPermutations(ToSet(file.inline)), a \in Names \cup {None} :
           file' = [file EXCEPT !.inline = s, !.active = a]
    /\ agree' = FALSE
    /\ UNCHANGED <<providers, activeIdx, proxy, agent, cmd, adrift, last>>

-----------------------------------------------------------------------------
(* The agent: each operation holds Agent.mu                                *)

\* stopProviderProxyLocked: agents that go through the proxy lose their route
Cut == [c \in Chats |-> IF agent[c].route = "proxy" THEN [agent[c] EXCEPT !.route = "cut"] ELSE agent[c]]

\* StartSession, for a turn of a chat that has no agent: providerEnvLocked
StartSession(c) ==
    /\ ~agent[c].up
    /\ LET Started(route) == [up |-> TRUE, key |-> ActiveName, route |-> route]
       IN  \/ /\ ActiveName \notin Thinking
              /\ proxy' = None
              /\ agent' = [Cut EXCEPT ![c] = Started("own")]
           \/ /\ ActiveName \in Thinking
              /\ proxy' = IF proxy = None THEN ActiveName ELSE proxy
              /\ agent' = [agent EXCEPT ![c] = Started("proxy")]
           \/ /\ ActiveName \in Thinking /\ proxy = None     \* the proxy cannot start
              /\ proxy' = None
              /\ agent' = [agent EXCEPT ![c] = Started("own")]
    /\ UNCHANGED <<providers, activeIdx, file, cmd, edits, adrift, agree, last>>

\* its process dies, or is stopped with its interactive state
AgentEnds(c) ==
    /\ agent[c].up
    /\ agent' = [agent EXCEPT ![c] = NoAgent]
    /\ UNCHANGED <<providers, activeIdx, proxy, file, cmd, edits, adrift, agree, last>>

-----------------------------------------------------------------------------
(* The commands                                                            *)

Arguments(op) ==
    [op : {op}, chat : Chats, list : {<<>>},
     name  : IF op \in {"add", "remove", "switch"} THEN Names ELSE {None},
     model : IF op \in {"add", "model"} THEN Models ELSE {None},
     pc    : {IF op \in {"switch", "clear"} THEN "select"
              ELSE IF op = "add" THEN "check" ELSE "list"}]

Begin(w) ==
    /\ cmd[w] = NoCmd
    /\ \E op \in Ops : \E x \in Arguments(op) : cmd' = [cmd EXCEPT ![w] = x]
    /\ agree' = (agree /\ Idle)
    /\ UNCHANGED <<providers, activeIdx, proxy, file, agent, edits, adrift, last>>

memory == <<providers, activeIdx, proxy, agent, adrift, last>>

\* cmdProviderAdd, handlePendingProviderAdd: "already exists"
AddCheck(w) ==
    /\ At(w, "add", "check")
    /\ IF cmd[w].name \in Listed(providers) THEN Done(w) ELSE Goto(w, "list")
    /\ UNCHANGED <<memory, file, edits, agree>>

AddList(w) ==
    /\ At(w, "add", "list")
    /\ cmd' = [cmd EXCEPT ![w].list = Append(providers, [name |-> cmd[w].name, model |-> cmd[w].model]),
                          ![w].pc = "set"]
    /\ UNCHANGED <<memory, file, edits, agree>>

\* cmdProviderRemove: the entries that remain
RemoveList(w) ==
    /\ At(w, "remove", "list")
    /\ IF cmd[w].name \in Listed(providers)
       THEN cmd' = [cmd EXCEPT ![w].list = Without(providers, cmd[w].name), ![w].pc = "set"]
       ELSE Done(w)
    /\ UNCHANGED <<memory, file, edits, agree>>

\* switchModelOnAgent: GetActiveProvider, and without one nothing that is modelled
ModelActive(w) ==
    /\ At(w, "model", "list") /\ cmd[w].name = None
    /\ IF ActiveName = None THEN Goto(w, "clean")
       ELSE cmd' = [cmd EXCEPT ![w].name = ActiveName]
    /\ UNCHANGED <<memory, file, edits, agree>>

\* ListProviders, SetProviderModel
ModelList(w) ==
    /\ At(w, "model", "list") /\ cmd[w].name # None
    /\ IF cmd[w].name \in Listed(providers)
       THEN cmd' = [cmd EXCEPT ![w].list = WithModel(providers, cmd[w].name, cmd[w].model),
                               ![w].pc = "persist"]
       ELSE Goto(w, "clean")
    /\ UNCHANGED <<memory, file, edits, agree>>

\* reloadConfig reads the file
ReloadList(w) ==
    /\ At(w, "reload", "list")
    /\ cmd' = [cmd EXCEPT ![w].list = Resolved(file), ![w].name = file.active, ![w].pc = "set"]
    /\ agree' = \A v \in Workers \ {w} : cmd[v].pc = "idle"
    /\ UNCHANGED <<memory, file, edits>>

\* mutant: a provider of [[providers]] is not looked for
ModelPersistInline(w) ==
    /\ At(w, "model", "persist")
    /\ file' = [file EXCEPT !.inline = WithModel(@, cmd[w].name, cmd[w].model)]
    /\ Goto(w, "set")
    /\ UNCHANGED <<memory, edits, agree>>

\* SaveProviderModel comes first: when it fails, nothing changes
ModelPersist(w) ==
    /\ At(w, "model", "persist")
    /\ LET n == cmd[w].name
           m == cmd[w].model
       IN  \/ /\ n \in Listed(file.inline)
              /\ file' = [file EXCEPT !.inline = WithModel(@, n, m)] /\ Goto(w, "set")
           \/ /\ n \notin Listed(file.inline) /\ n \in Range(file.refs)
              /\ file' = [file EXCEPT !.global[n] = m] /\ Goto(w, "set")
           \/ /\ n \notin Listed(file.inline) /\ n \notin Range(file.refs)
              /\ file' = file /\ Done(w)
    /\ UNCHANGED <<memory, edits, agree>>

\* SetProviders leaves the index as it is; a reload that finds no active provider in the file ends here
Set(w) ==
    /\ cmd[w].pc = "set"
    /\ LET list == cmd[w].list
           unnamed == cmd[w].op = "reload" /\ cmd[w].name = None
       IN  /\ providers' = list
           /\ adrift' = \/ adrift
                        \/ NameAt(list, activeIdx) # ActiveName
                        \/ unnamed /\ NameAt(list, activeIdx) # None
           /\ cmd' = [cmd EXCEPT ![w] =
                  IF unnamed THEN NoCmd
                  ELSE [@ EXCEPT !.list = <<>>,
                                 !.pc = IF cmd[w].op \in {"model", "reload"} THEN "select" ELSE "save"]]
    /\ last' = IF cmd[w].op = "reload" THEN None ELSE last
    /\ UNCHANGED <<activeIdx, proxy, file, agent, edits, agree>>

\* mutant: the index counts from 0, and the zero of no provider becomes -1
SelectZeroBased(w) ==
    /\ cmd[w].pc = "select" /\ cmd[w].op \in {"switch", "clear"}
    /\ proxy' = None /\ agent' = Cut
    /\ cmd[w].name \in Listed(providers) \cup {None}
    /\ activeIdx' = IndexOf(providers, cmd[w].name) - 1
    /\ adrift' = FALSE /\ last' = cmd[w].chat
    /\ Goto(w, "clean")
    /\ UNCHANGED <<providers, file, edits, agree>>

\* mutant: the proxy is left for providerEnvLocked to stop
SelectProxyKept(w) ==
    /\ cmd[w].pc = "select" /\ cmd[w].op \in {"switch", "clear"}
    /\ cmd[w].name \in Listed(providers) \cup {None}
    /\ activeIdx' = IndexOf(providers, cmd[w].name)
    /\ adrift' = FALSE /\ last' = cmd[w].chat
    /\ Goto(w, "clean")
    /\ UNCHANGED <<providers, proxy, file, agent, edits, agree>>

\* SetActiveProvider stops the proxy, and then looks for the name
Select(w) ==
    /\ cmd[w].pc = "select"
    /\ proxy' = None /\ agent' = Cut
    /\ LET op == cmd[w].op
           n == cmd[w].name
       IN  \/ /\ n \in Listed(providers) \cup {None}
              /\ activeIdx' = IndexOf(providers, n)
              /\ adrift' = (op = "model" /\ (adrift \/ n # ActiveName))
              /\ last' = IF op = "reload" THEN None ELSE cmd[w].chat
              /\ IF op = "reload" THEN Done(w) ELSE Goto(w, "clean")
           \/ /\ n \notin Listed(providers) \cup {None}      \* "not found"
              /\ activeIdx' = activeIdx
              /\ adrift' = (adrift \/ op = "reload")
              /\ last' = None
              /\ IF op = "model" THEN Goto(w, "clean") ELSE Done(w)
    /\ UNCHANGED <<providers, file, edits, agree>>

\* mutant: only the conversation is cleared, the agent process goes on
CleanForgotten(w) ==
    /\ cmd[w].pc = "clean"
    /\ IF cmd[w].op = "model" THEN Done(w) ELSE Goto(w, "save")
    /\ UNCHANGED <<memory, file, edits, agree>>

\* cleanupInteractiveState for the chat of the command
Clean(w) ==
    /\ cmd[w].pc = "clean"
    /\ agent' = [agent EXCEPT ![cmd[w].chat] = NoAgent]
    /\ IF cmd[w].op = "model" THEN Done(w) ELSE Goto(w, "save")
    /\ UNCHANGED <<providers, activeIdx, proxy, file, edits, adrift, agree, last>>

\* AddProviderToConfig, RemoveProviderFromConfig, SaveActiveProvider: an
\* error is logged, and the command has succeeded all the same
Saved(f, x) ==
    IF x.op = "add"
    THEN IF x.name \in Listed(f.inline) THEN f
         ELSE [f EXCEPT !.inline = Append(@, [name |-> x.name, model |-> x.model])]
    ELSE IF x.op = "remove"
    THEN [f EXCEPT !.inline = WithoutFirst(@, x.name),
                   !.refs = RemoveFirst(@, x.name)]
    ELSE [f EXCEPT !.active = x.name]

Save(w) ==
    /\ cmd[w].pc = "save"
    /\ file' = Saved(file, cmd[w])
    /\ Done(w)
    /\ UNCHANGED <<memory, edits, agree>>

Step(w) ==
    \/ Begin(w) \/ AddCheck(w) \/ AddList(w) \/ RemoveList(w)
    \/ ModelActive(w) \/ ModelList(w) \/ ModelPersist(w) \/ ReloadList(w)
    \/ Set(w) \/ Select(w) \/ Clean(w) \/ Save(w)

Next ==
    \/ Restart \/ EditFile
    \/ \E c \in Chats : StartSession(c) \/ AgentEnds(c)
    \/ \E w \in Workers : Step(w)

Spec == Init /\ [][Next]_vars

-----------------------------------------------------------------------------
(* Properties                                                              *)

(* Between two commands a restart changes nothing (core/engine.go:7601,    *)
(* config/config.go:918): the file gives the same providers in the same    *)
(* order, each with its model, and the same active one.  Except after an   *)
(* edit by hand or commands that overlapped, until a reload or a restart,  *)
(* and for an active entry that moved without being chosen (adrift).       *)
SettingsRestored ==
    (Idle /\ agree) =>
        /\ Resolved(file) = providers
        /\ ~adrift => NameAt(providers, IndexOf(providers, file.active)) = ActiveName

(* The proxy forwards to the active provider, whatever commands and starts *)
(* of agents interleave: the agent that is started next sends the key of a *)
(* provider to that provider's URL (agent/claudecode/claudecode.go:1105).  *)
ProxyOfActive == ~adrift => proxy \in {None, ActiveName}

Cleans(w, c) == cmd[w].chat = c /\ cmd[w].pc = "clean"

(* "New sessions will use this provider" (core/i18n.go:1428): once the     *)
(* chat that chose the provider is cleaned up, its agent is one that was   *)
(* started with it.  No agent from before the switch has slipped through,  *)
(* and no agent of another chat has stopped the proxy it goes through.     *)
SwitchReaches ==
    \A c \in Chats :
        (c = last /\ ~adrift /\ agent[c].up /\ \A w \in Workers : ~Cleans(w, c))
            => /\ agent[c].key = ActiveName
               /\ agent[c].route = "own" \/ (agent[c].route = "proxy" /\ proxy = ActiveName)

(* "If removing the active provider, clear it" (core/engine.go:8437): the  *)
(* removal leaves no provider active if it removes the active one, and the *)
(* active one as it is otherwise.                                          *)
RemovalClears ==
    [][\A w \in Workers :
          (At(w, "remove", "set") /\ cmd'[w].pc = "save")
              => ActiveName' = IF ActiveName = cmd[w].name THEN None ELSE ActiveName]_vars

=============================================================================
