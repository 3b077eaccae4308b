------------------------------- MODULE Relay -------------------------------
(* Messages from one bot to another: core/relay.go and HandleRelay in      *)
(* core/engine.go.  The agent of one project asks the agent of another     *)
(* through the local API.  Each request gets an agent process of its own,  *)
(* resuming the conversation that the target keeps for the source; the     *)
(* request waits for the answer until a timeout, after which the process   *)
(* finishes its turn in the background.  No lock is held meanwhile.        *)
(*                                                                         *)
(* The same agent object starts the processes of ordinary turns: whoever   *)
(* starts one first sets the environment it will run with, and only the    *)
(* turns do both under one lock.                                           *)
(*                                                                         *)
(* One target project and one chat.  Left out: the texts, the copies of    *)
(* the messages posted to the chat, and the saving of the session.         *)
EXTENDS Integers

CONSTANTS
    Sources,        \* the projects that ask
    Relays,         \* requests
    Turns,          \* ordinary turns of the target that start an agent, each of another chat
    None

ASSUME RelayAssumption ==
    /\ None \notin Sources \cup Relays \cup Turns
    /\ Relays \cap Turns = {} /\ Sources \cap Turns = {}

VARIABLES
    bound,          \* bindings[chatID].Bots holds the target
    pc, from,       \* of a request: where it is, and RelayRequest.From
    late,           \* of a request: its context has expired
    conv,           \* AgentSessionID of relay:<source>:<chat>
    resume,         \* of a request: the conversation its process resumes
    env,            \* sessionEnv of the agent: whose CC_SESSION_KEY it holds
    proc,           \* of a request: its agent process
    turnEnv,        \* the key that the process of a turn runs with
    tpc, mutex,     \* the turns, and interactiveMu
    down            \* e.ctx is cancelled

request == <<pc, from, late>>
turn == <<tpc, mutex>>
vars == <<bound, request, conv, resume, env, proc, turnEnv, turn, down>>

Conversations == Relays \cup {None}
Keys == Sources \cup Turns \cup {None}

TypeOK ==
    /\ bound \in BOOLEAN
    /\ pc \in [Relays -> {"idle", "env", "start", "failed", "fresh", "record",
                          "listen", "drain", "done"}]
    /\ from \in [Relays -> Sources \cup {None}]
    /\ late \in [Relays -> BOOLEAN]
    /\ conv \in [Sources -> Conversations] /\ resume \in [Relays -> Conversations]
    /\ env \in Keys /\ turnEnv \in [Turns -> Keys]
    /\ proc \in [Relays -> {"none", "live", "gone", "closed"}]
    /\ tpc \in [Turns -> {"idle", "env", "start", "fresh", "done"}]
    /\ mutex \in Turns \cup {None}
    /\ down \in BOOLEAN

\* bindings from an earlier run of the program, and no request yet
Init ==
    /\ bound \in BOOLEAN
    /\ pc = [r \in Relays |-> "idle"] /\ from = [r \in Relays |-> None]
    /\ late = [r \in Relays |-> FALSE]
    /\ conv = [s \in Sources |-> None] /\ resume = [r \in Relays |-> None]
    /\ env = None /\ turnEnv = [t \in Turns |-> None]
    /\ proc = [r \in Relays |-> "none"]
    /\ tpc = [t \in Turns |-> "idle"] /\ mutex = None
    /\ down = FALSE

-----------------------------------------------------------------------------
(* /bind and the binding API; each change is saved under the same lock     *)

Others == <<request, conv, resume, env, proc, turnEnv, turn, down>>

\* /bind <project>, POST /relay/bind: AddToBind, Bind
AddToBind == ~bound /\ bound' = TRUE /\ UNCHANGED Others

\* /bind -<project>, /bind remove, POST /relay/bind without the target:
\* RemoveFromBind, Unbind, Bind
RemoveFromBind == bound /\ bound' = FALSE /\ UNCHANGED Others

-----------------------------------------------------------------------------
(* A request: Send, then HandleRelay of the target                         *)

Goto(r, l) == pc' = [pc EXCEPT ![r] = l]

\* the goroutine of the request, or of its drain, ends
Finish(r) ==
    /\ Goto(r, "done")
    /\ late' = [late EXCEPT ![r] = FALSE]
    /\ resume' = [resume EXCEPT ![r] = None]

\* RelayManager.Send: the request is refused, or its time starts to run
Refused(r, s) ==
    /\ pc[r] = "idle" /\ ~bound
    /\ from' = [from EXCEPT ![r] = s]
    /\ Finish(r)
    /\ UNCHANGED <<bound, conv, env, proc, turnEnv, turn, down>>

Send(r, s) ==
    /\ pc[r] = "idle" /\ bound
    /\ from' = [from EXCEPT ![r] = s]
    /\ Goto(r, "env")
    /\ UNCHANGED <<bound, late, conv, resume, env, proc, turnEnv, turn, down>>

\* relayContext expires, or the caller hangs up
Expire(r) ==
    /\ pc[r] \notin {"idle", "drain", "done"} /\ ~late[r]
    /\ late' = [late EXCEPT ![r] = TRUE]
    /\ UNCHANGED <<bound, pc, from, conv, resume, env, proc, turnEnv, turn, down>>

InjectEnv(r) ==
    /\ pc[r] = "env"
    /\ env' = from[r]
    /\ Goto(r, "start")
    /\ UNCHANGED <<bound, from, late, conv, resume, proc, turnEnv, turn, down>>

\* StartSession: the process runs with whatever environment is set by now
Spawn(r, c) ==
    /\ ~down
    /\ resume' = [resume EXCEPT ![r] = c]
    /\ proc' = [proc EXCEPT ![r] = "live"]
    /\ Goto(r, "record")
    /\ UNCHANGED <<bound, from, late, conv, env, turnEnv, turn, down>>

Start(r) == pc[r] = "start" /\ Spawn(r, conv[from[r]])
StartFresh(r) == pc[r] = "fresh" /\ Spawn(r, None)

StartFails(r) ==
    /\ pc[r] = "start"
    /\ Goto(r, "failed")
    /\ UNCHANGED <<bound, from, late, conv, resume, env, proc, turnEnv, turn, down>>

\* a conversation that cannot be resumed is given up
Fallback(r) ==
    /\ pc[r] = "failed" /\ conv[from[r]] # None
    /\ conv' = [conv EXCEPT ![from[r]] = None]
    /\ Goto(r, "fresh")
    /\ UNCHANGED <<bound, from, late, resume, env, proc, turnEnv, turn, down>>

NoStart(r) ==
    /\ \/ pc[r] = "failed" /\ conv[from[r]] = None
       \/ pc[r] = "fresh"
    /\ Finish(r)
    /\ UNCHANGED <<bound, from, conv, env, proc, turnEnv, turn, down>>

-----------------------------------------------------------------------------
(* The conversation of a process, and what the session remembers of it     *)

\* mutant: the name of the project is recorded
OwnProject(r) == from[r]

\* the conversation the process reports
Own(r) == IF resume[r] = None THEN r ELSE resume[r]

\* CompareAndSetAgentSessionID: only where nothing is recorded
Remember(r) == conv' = [conv EXCEPT ![from[r]] = IF @ = None THEN Own(r) ELSE @]

\* a resumed process knows its conversation at once, a new one later
RecordAndPrompt(r) ==
    /\ pc[r] = "record" /\ proc[r] = "live"
    /\ IF resume[r] = None THEN UNCHANGED conv ELSE Remember(r)
    /\ Goto(r, "listen")
    /\ UNCHANGED <<bound, from, late, resume, env, proc, turnEnv, turn, down>>

CloseProcess(r) == proc' = [proc EXCEPT ![r] = "closed"]

\* mutant: the process is left behind
PromptFailsUnclosed(r) ==
    /\ pc[r] = "record"
    /\ IF resume[r] = None THEN UNCHANGED conv ELSE Remember(r)
    /\ Finish(r)
    /\ UNCHANGED <<bound, from, env, proc, turnEnv, turn, down>>

PromptFails(r) ==
    /\ pc[r] = "record"
    /\ IF resume[r] = None THEN UNCHANGED conv ELSE Remember(r)
    /\ CloseProcess(r)
    /\ Finish(r)
    /\ UNCHANGED <<bound, from, env, turnEnv, turn, down>>

-----------------------------------------------------------------------------
(* The events of the process                                               *)

\* after an event that does not end the turn ctx.Err() is looked at: the
\* caller gets the text so far, or the error; the drain goes on
GoOn(r) ==
    IF late[r]
    THEN Goto(r, "drain") /\ late' = [late EXCEPT ![r] = FALSE]
    ELSE UNCHANGED <<pc, late>>

Heard == <<bound, from, env, turnEnv, turn, down>>

\* text, with the conversation's name; or the result of a tool
HearText(r) ==
    /\ pc[r] = "listen" /\ proc[r] = "live"
    /\ Remember(r) \/ UNCHANGED conv
    /\ GoOn(r)
    /\ UNCHANGED <<Heard, resume, proc>>

\* thinking, or a permission, which is granted
HearOther(r) ==
    /\ pc[r] = "listen" /\ proc[r] = "live"
    /\ GoOn(r)
    /\ UNCHANGED <<Heard, resume, conv, proc>>

HearResult(r) ==
    /\ pc[r] = "listen" /\ proc[r] = "live"
    /\ Remember(r) /\ CloseProcess(r) /\ Finish(r)
    /\ UNCHANGED Heard

HearError(r) ==
    /\ pc[r] = "listen" /\ proc[r] = "live"
    /\ CloseProcess(r) /\ Finish(r)
    /\ UNCHANGED <<Heard, conv>>

\* the channel is closed
HearEnd(r) ==
    /\ pc[r] = "listen" /\ proc[r] = "gone"
    /\ CloseProcess(r) /\ Finish(r)
    /\ UNCHANGED <<Heard, conv>>

Hear(r) == HearText(r) \/ HearOther(r) \/ HearResult(r) \/ HearError(r) \/ HearEnd(r)

\* the process exits by itself, or because e.ctx is cancelled
Die(r) ==
    /\ proc[r] = "live"
    /\ proc' = [proc EXCEPT ![r] = "gone"]
    /\ UNCHANGED <<bound, request, conv, resume, env, turnEnv, turn, down>>

-----------------------------------------------------------------------------
(* drainRelaySession                                                       *)

\* an event that names the conversation replaces what is recorded
DrainEvent(r) ==
    /\ pc[r] = "drain" /\ proc[r] = "live"
    /\ conv' = [conv EXCEPT ![from[r]] = Own(r)]
    /\ UNCHANGED <<bound, request, resume, env, proc, turnEnv, turn, down>>

\* a result, an error, or the end of the channel
DrainEnd(r) ==
    /\ pc[r] = "drain"
    /\ conv' \in {conv, [conv EXCEPT ![from[r]] = Own(r)]}
    /\ CloseProcess(r) /\ Finish(r)
    /\ UNCHANGED <<bound, from, env, turnEnv, turn, down>>

\* ten minutes are over, or e.ctx is cancelled
DrainStop(r) ==
    /\ pc[r] = "drain"
    /\ CloseProcess(r) /\ Finish(r)
    /\ UNCHANGED <<bound, from, conv, env, turnEnv, turn, down>>

-----------------------------------------------------------------------------
(* A turn that starts an agent: getOrCreateInteractiveStateWith            *)

TurnRest == <<bound, request, conv, resume, proc, down>>
TurnGoto(t, l) == tpc' = [tpc EXCEPT ![t] = l]

\* mutant: without interactiveMu
TurnLockNothing(t) ==
    /\ tpc[t] = "idle"
    /\ mutex' = t /\ TurnGoto(t, "env")
    /\ UNCHANGED <<TurnRest, env, turnEnv>>

TurnLock(t) ==
    /\ tpc[t] = "idle" /\ mutex = None
    /\ mutex' = t /\ TurnGoto(t, "env")
    /\ UNCHANGED <<TurnRest, env, turnEnv>>

TurnInject(t) ==
    /\ tpc[t] = "env"
    /\ env' = t /\ TurnGoto(t, "start")
    /\ UNCHANGED <<TurnRest, mutex, turnEnv>>

TurnSpawn(t) ==
    /\ turnEnv' = [turnEnv EXCEPT ![t] = env]
    /\ mutex' = None /\ TurnGoto(t, "done")

TurnStart(t) ==
    /\ tpc[t] \in {"start", "fresh"} /\ ~down
    /\ TurnSpawn(t)
    /\ UNCHANGED <<TurnRest, env>>

\* the resume failed
TurnRetry(t) ==
    /\ tpc[t] = "start" /\ ~down
    /\ TurnGoto(t, "fresh")
    /\ UNCHANGED <<TurnRest, env, mutex, turnEnv>>

TurnGivesUp(t) ==
    /\ tpc[t] \in {"start", "fresh"}
    /\ mutex' = None /\ TurnGoto(t, "done")
    /\ UNCHANGED <<TurnRest, env, turnEnv>>

-----------------------------------------------------------------------------

\* Engine.Stop cancels e.ctx
Shutdown ==
    /\ ~down /\ down' = TRUE
    /\ UNCHANGED <<bound, request, conv, resume, env, proc, turnEnv, turn>>

RelayStep(r) ==
    \/ InjectEnv(r) \/ Start(r) \/ StartFails(r) \/ Fallback(r) \/ StartFresh(r) \/ NoStart(r)
    \/ RecordAndPrompt(r) \/ PromptFails(r)

TurnStep(t) == TurnInject(t) \/ TurnStart(t) \/ TurnRetry(t) \/ TurnGivesUp(t)

Next ==
    \/ AddToBind \/ RemoveFromBind
    \/ \E r \in Relays :
        \/ \E s \in Sources : Refused(r, s) \/ Send(r, s)
        \/ Expire(r) \/ RelayStep(r) \/ Hear(r) \/ Die(r)
        \/ DrainEvent(r) \/ DrainEnd(r) \/ DrainStop(r)
    \/ \E t \in Turns : TurnLock(t) \/ TurnStep(t)
    \/ Shutdown

Spec == Init /\ [][Next]_vars

\* goroutines run, timers fire, and an agent that works says something
FairSpec ==
    /\ Spec
    /\ \A r \in Relays : /\ WF_vars(RelayStep(r)) /\ WF_vars(Hear(r))
                         /\ WF_vars(Expire(r)) /\ WF_vars(DrainStop(r))

-----------------------------------------------------------------------------
(* Properties                                                              *)

(* An agent process of a chat is never given the session key of another    *)
(* chat, to which its cc-connect send and cron add would then go: two      *)
(* turns that start at once set the agent's environment one after the      *)
(* other (core/engine.go:2780).                                            *)
ChatEnv == \A t \in Turns : turnEnv[t] \in {None, t} \cup Sources

(* The environment of every agent process names its own session.  Not so:  *)
(* a request sets the environment between the two steps of a turn.         *)
(* core/interfaces.go:132 tells the agent: "Environment variables          *)
(* CC_PROJECT and CC_SESSION_KEY are already set, so the relay knows which *)
(* group chat to use."                                                     *)
EnvIsOwn == \A t \in Turns : turnEnv[t] \in {None, t}

(* A request that was let in comes to its end and leaves no agent process *)
(* behind that nobody reads: it returns as long as the agent says          *)
(* something now and then, and what it hands to the background ends even   *)
(* if the agent falls silent.                                              *)
RequestsEnd ==
    \A r \in Relays :
        (pc[r] = "env") ~> (pc[r] = "done" /\ proc[r] \in {"none", "closed"})

=============================================================================
