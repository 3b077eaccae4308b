----------------------------- MODULE RelayProofs -----------------------------
(***************************************************************************)
(* What Relay guarantees for any number of requests, projects and turns.   *)
(***************************************************************************)
EXTENDS Relay, TLAPS

(* A request under way has a source. *)
Asks == \A r \in Relays : pc[r] = "idle" \/ from[r] \in Sources

LEMMA TypeInit == Init => TypeOK /\ Asks
<1> SUFFICES ASSUME Init PROVE TypeOK /\ Asks
  OBVIOUS
<1>1. /\ bound \in BOOLEAN /\ down \in BOOLEAN /\ env \in Keys /\ mutex \in Turns \cup {None}
      /\ late \in [Relays -> BOOLEAN] /\ from \in [Relays -> Sources \cup {None}]
  BY DEF Init, Keys
<1>2. /\ conv \in [Sources -> Conversations] /\ resume \in [Relays -> Conversations]
      /\ turnEnv \in [Turns -> Keys]
  BY DEF Init, Keys, Conversations
<1> QED BY <1>1, <1>2 DEF Init, TypeOK, Asks

LEMMA TypeStep == ASSUME TypeOK, Asks, [Next]_vars PROVE TypeOK' /\ Asks'
<1> USE DEF TypeOK, Asks, Conversations, Keys, request, turn, Goto, Finish
<1>1. CASE AddToBind \/ RemoveFromBind \/ Shutdown \/ UNCHANGED vars
  <2>1. UNCHANGED <<request, conv, resume, env, proc, turnEnv, turn>>
    BY <1>1 DEF AddToBind, RemoveFromBind, Shutdown, Others, vars
  <2>2. bound' \in BOOLEAN /\ down' \in BOOLEAN
    BY <1>1 DEF AddToBind, RemoveFromBind, Shutdown, Others, vars
  <2> QED BY <2>1, <2>2
<1>2. ASSUME NEW r \in Relays, NEW s \in Sources, Refused(r, s) \/ Send(r, s) PROVE TypeOK' /\ Asks'
  <2>1. CASE Refused(r, s)
    BY <2>1 DEF Refused
  <2>2. CASE Send(r, s)
    BY <2>2 DEF Send
  <2> QED BY <1>2, <2>1, <2>2
<1>3. ASSUME NEW r \in Relays, Expire(r) \/ Die(r) PROVE TypeOK' /\ Asks'
  <2>1. CASE Expire(r)
    BY <2>1 DEF Expire
  <2>2. CASE Die(r)
    BY <2>2 DEF Die
  <2> QED BY <1>3, <2>1, <2>2
<1>4. ASSUME NEW r \in Relays, RelayStep(r) PROVE TypeOK' /\ Asks'
  <2>1. CASE InjectEnv(r)
    BY <2>1 DEF InjectEnv
  <2>2. CASE Start(r) \/ StartFresh(r)
    BY <2>2 DEF Start, StartFresh, Spawn
  <2>3. CASE StartFails(r) \/ Fallback(r) \/ NoStart(r)
    BY <2>3 DEF StartFails, Fallback, NoStart
  <2>4. CASE RecordAndPrompt(r) \/ PromptFails(r)
    BY <2>4 DEF RecordAndPrompt, PromptFails, Remember, Own, CloseProcess
  <2> QED BY <1>4, <2>1, <2>2, <2>3, <2>4 DEF RelayStep
<1>5. ASSUME NEW r \in Relays, Hear(r) PROVE TypeOK' /\ Asks'
  <2>1. CASE HearText(r) \/ HearOther(r)
    BY <2>1 DEF HearText, HearOther, GoOn, Remember, Own, Heard
  <2>2. CASE HearResult(r)
    BY <2>2 DEF HearResult, Remember, Own, CloseProcess, Heard
  <2>3. CASE HearError(r) \/ HearEnd(r)
    BY <2>3 DEF HearError, HearEnd, CloseProcess, Heard
  <2> QED BY <1>5, <2>1, <2>2, <2>3 DEF Hear
<1>6. ASSUME NEW r \in Relays, DrainEvent(r) \/ DrainEnd(r) \/ DrainStop(r) PROVE TypeOK' /\ Asks'
  BY <1>6 DEF DrainEvent, DrainEnd, DrainStop, Own, CloseProcess
<1>7. ASSUME NEW t \in Turns, TurnLock(t) \/ TurnStep(t) PROVE TypeOK' /\ Asks'
  BY <1>7 DEF TurnLock, TurnStep, TurnInject, TurnStart, TurnRetry, TurnGivesUp, TurnSpawn,
              TurnGoto, TurnRest
<1> QED BY <1>1, <1>2, <1>3, <1>4, <1>5, <1>6, <1>7 DEF Next

-----------------------------------------------------------------------------

(* A turn between the environment and the start holds interactiveMu. *)
Holds == \A t \in Turns : tpc[t] \in {"env", "start", "fresh"} => mutex = t

(* What it will start with is its own, or what a request has put there. *)
Prepared == \A t \in Turns : tpc[t] \in {"start", "fresh"} => env \in {t} \cup Sources

EnvInv == Holds /\ Prepared /\ ChatEnv

LEMMA EnvInit == Init => EnvInv
  BY DEF Init, EnvInv, Holds, Prepared, ChatEnv

LEMMA EnvStep == ASSUME TypeOK, Asks, EnvInv, [Next]_vars PROVE EnvInv'
<1> USE DEF EnvInv, Holds, Prepared, ChatEnv
<1>1. CASE UNCHANGED <<turn, env, turnEnv>>
  BY <1>1 DEF turn
<1>2. ASSUME NEW r \in Relays, InjectEnv(r) PROVE EnvInv'
  <2>1. env' \in Sources /\ UNCHANGED <<turn, turnEnv>>
    BY <1>2 DEF InjectEnv, Asks
  <2> QED BY <2>1 DEF turn
<1>3. ASSUME NEW t \in Turns, TurnLock(t) PROVE EnvInv'
  <2>1. \A u \in Turns : tpc[u] \notin {"env", "start", "fresh"}
    BY <1>3, RelayAssumption DEF TurnLock
  <2> QED BY <1>3, <2>1 DEF TurnLock, TurnGoto, TypeOK
<1>4. ASSUME NEW t \in Turns, TurnStep(t) PROVE EnvInv'
  <2>1. \A u \in Turns \ {t} : tpc[u] \notin {"env", "start", "fresh"}
    BY <1>4 DEF TurnStep, TurnInject, TurnStart, TurnRetry, TurnGivesUp
  <2> QED BY <1>4, <2>1 DEF TurnStep, TurnInject, TurnStart, TurnRetry, TurnGivesUp, TurnSpawn,
                            TurnGoto, TypeOK
<1>5. \/ UNCHANGED <<turn, env, turnEnv>>
      \/ \E r \in Relays : InjectEnv(r)
      \/ \E t \in Turns : TurnLock(t) \/ TurnStep(t)
  BY DEF Next, vars, AddToBind, RemoveFromBind, Others, Shutdown, Refused, Send, Expire, Die,
         RelayStep, Start, StartFresh, Spawn, StartFails, Fallback, NoStart, RecordAndPrompt,
         PromptFails, Hear, HearText, HearOther, HearResult, HearError, HearEnd, Heard,
         DrainEvent, DrainEnd, DrainStop
<1> QED BY <1>1, <1>2, <1>3, <1>4, <1>5

LEMMA Always == Spec => [](TypeOK /\ Asks /\ EnvInv)
  BY TypeInit, TypeStep, EnvInit, EnvStep, PTL DEF Spec

(* Every variable keeps its type. *)
THEOREM RelayTypeCorrect == Spec => []TypeOK
  BY Always, PTL

(* No turn starts an agent with the session key of another chat: two turns *)
(* that start at once set the agent's environment one after the other, for *)
(* any number of chats and of requests that come in between.               *)
THEOREM ChatEnvCorrect == Spec => []ChatEnv
<1>1. EnvInv => ChatEnv
  BY DEF EnvInv
<1> QED BY <1>1, Always, PTL

=============================================================================
