------------------------- MODULE AgentChannelProofs -------------------------
(***************************************************************************)
(* What AgentChannel guarantees for any number of turns, background tasks  *)
(* and commands, every capacity of the channel and every fault.            *)
(***************************************************************************)
EXTENDS AgentChannel, FiniteSetTheorems, TLAPS

StateType == [mapped : BOOLEAN, attached : BOOLEAN, stopped : BOOLEAN, resync : BOOLEAN,
              reader : Turns \cup {Nil}, pending : Work \cup {Nil}, approveAll : BOOLEAN]
ChanType == [chan : Seq(Events), line : Events \cup {Nil}, alive : BOOLEAN,
             loop : {"scan", "report", "closed"}, shut : {"no", "eof", "kill"}]
AgentType == [up : BOOLEAN, doing : Work \cup {Nil}, inbox : Seq(Turns),
              done : SUBSET Work, asked : SUBSET Work, answers : [Work -> Nat]]
ReaderType == [pc : {"none", "run", "hold", "act", "end"}, held : Events \cup {Nil},
               cancelled : BOOLEAN, active : BOOLEAN]

Types ==
    /\ st \in StateType /\ cs \in ChanType /\ Len(cs.chan) <= ChanCap /\ agent \in AgentType
    /\ rd \in [Turns -> ReaderType]
    /\ busy \in BOOLEAN /\ crashed \in BOOLEAN
    /\ pc \in [Procs -> TurnPcs] /\ back \in [Procs -> TurnPcs]
    /\ mine \in [Procs -> Work \cup {Nil}] /\ closers \subseteq Procs
    /\ denying \subseteq Work \X Turns /\ hand \in Work \cup {Nil} /\ resolved \subseteq Work

(* What a background reader holds, and the task it counts; it is the last  *)
(* thing that its turn has started.                                        *)
HeldOK ==
    \A t \in Turns :
        /\ rd[t].held # Nil <=> rd[t].pc \in {"hold", "act"}
        /\ rd[t].pc = "act" => rd[t].active
        /\ rd[t].pc \in {"none", "end"} => ~rd[t].active
        /\ pc[t] # "done" => rd[t].pc = "none"

(* Where a turn goes on after it has stopped a reader. *)
BackOK ==
    \A t \in Turns : pc[t] \in {"stopreader", "awaitreader"} => back[t] \in {"drain", "capture", "mark"}

Running == {t \in Turns : pc[t] \notin {"idle", "done"}}
Tasks == {t \in Turns : rd[t].active}

(* The turns of the workspace are counted, and they are finitely many. *)
PoolOK ==
    /\ IsFiniteSet(Running) /\ IsFiniteSet(Tasks)
    /\ pool = Cardinality(Running) + Cardinality(Tasks)

Inv == Types /\ HeldOK /\ BackOK /\ PoolOK

-----------------------------------------------------------------------------
LEMMA Names ==
    /\ Turns \subseteq Procs /\ Turns \subseteq Work /\ Jobs \subseteq Work
    /\ Commands \subseteq Procs /\ Turns \cap Commands = {} /\ Procs = Turns \cup Commands
    /\ Nil \notin Events /\ Nil \notin Work /\ ChanCap \in Nat \ {0} /\ Turns \subseteq Nat
  BY ChannelConstantsOK, NilIsNothing DEF Procs, Work

LEMMA EventNames ==
    /\ \A w \in Work : Event("ask", w) \in Events /\ Event("result", w) \in Events
    /\ Event("error", Nil) \in Events
    /\ \A e \in Events : e.kind \in {"ask", "result"} => e.job \in Work
    /\ \A e \in Events : e.kind \in {"ask", "result", "error"}
  BY DEF Events, Event

(* The channel as a queue. *)
LEMMA EmptyQueue == \A S : <<>> \in Seq(S)
  OBVIOUS

LEMMA ChannelOps ==
    ASSUME NEW s \in Seq(Events), NEW e \in Events
    PROVE  /\ Append(s, e) \in Seq(Events) /\ Len(Append(s, e)) = Len(s) + 1
           /\ s # <<>> => /\ Head(s) \in Events /\ Tail(s) \in Seq(Events)
                          /\ Len(Tail(s)) = Len(s) - 1 /\ Len(s) > 0
           /\ Len(s) \in Nat /\ <<>> \in Seq(Events) /\ Len(<<>>) = 0
  OBVIOUS

LEMMA InboxOps ==
    ASSUME NEW s \in Seq(Turns), NEW t \in Turns
    PROVE  Append(s, t) \in Seq(Turns) /\ (s # <<>> => Tail(s) \in Seq(Turns) /\ Head(s) \in Turns)
  OBVIOUS

LEMMA TypesInit == Init => Inv /\ AnsweredOnce
<1> SUFFICES ASSUME Init PROVE Inv /\ AnsweredOnce
  OBVIOUS
<1>1. st \in StateType
  BY DEF Init, StateType
<1>2. cs \in ChanType /\ Len(cs.chan) <= ChanCap
  BY Names, EmptyQueue DEF Init, ChanType
<1>3. agent \in AgentType
  BY EmptyQueue DEF Init, AgentType
<1>4. rd \in [Turns -> ReaderType]
  BY DEF Init, ReaderType, NoReader
<1>5. Types
  BY <1>1, <1>2, <1>3, <1>4 DEF Init, Types, TurnPcs
<1>6. HeldOK /\ BackOK
  BY Names DEF Init, HeldOK, BackOK, NoReader
<1>7. Running = {} /\ Tasks = {}
  BY Names DEF Init, Running, Tasks, NoReader
<1>8. PoolOK
  BY <1>7, FS_EmptySet DEF Init, PoolOK
<1> QED BY <1>5, <1>6, <1>8 DEF Inv, Init, AnsweredOnce

-----------------------------------------------------------------------------
(* Steps of the agent and of its read loop. *)

(* The last event of a channel with room, and its first one, taken. *)
LEMMA Appended ==
    ASSUME Types, NEW e \in Events, Room
    PROVE  Append(cs.chan, e) \in Seq(Events) /\ Len(Append(cs.chan, e)) <= ChanCap
<1>1. cs.chan \in Seq(Events)
  BY DEF Types, ChanType
<1>2. Len(cs.chan) \in Nat /\ Len(cs.chan) < ChanCap /\ ChanCap \in Nat
  BY <1>1, Names, ChannelOps DEF Room
<1> QED BY <1>1, <1>2, ChannelOps

LEMMA Taken ==
    ASSUME Types, cs.chan # <<>>
    PROVE  /\ Head(cs.chan) \in Events
           /\ Tail(cs.chan) \in Seq(Events) /\ Len(Tail(cs.chan)) <= ChanCap
<1>1. cs.chan \in Seq(Events) /\ Len(cs.chan) <= ChanCap
  BY DEF Types, ChanType
<1>2. Head(cs.chan) \in Events /\ Tail(cs.chan) \in Seq(Events)
  BY <1>1
<1>3. Len(Tail(cs.chan)) <= ChanCap
  BY <1>1, <1>2, Names, ChannelOps
<1> QED BY <1>2, <1>3

LEMMA Emitted ==
    ASSUME Types, NEW e \in Events, Emit(e)
    PROVE  cs' \in ChanType /\ Len(cs'.chan) <= ChanCap
<1>1. CASE Room
  BY <1>1, Appended DEF Types, ChanType, Emit
<1>2. CASE ~Room
  BY <1>2 DEF Types, ChanType, Emit
<1> QED BY <1>1, <1>2

LEMMA UnreadIn == ASSUME Types, NEW w PROVE Unread(w) \in Seq(Turns)
  BY InboxOps DEF Types, AgentType, Unread

LEMMA RespondedIn == ASSUME Types, NEW w PROVE Responded(w) \in AgentType
<1>1. agent \in AgentType /\ agent.answers \in [Work -> Nat]
  BY DEF Types, AgentType
<1>2. [agent.answers EXCEPT ![w] = @ + 1] \in [Work -> Nat]
  <2>1. CASE w \in Work
    BY <1>1, <2>1
  <2>2. CASE w \notin Work
    <3>1. [agent.answers EXCEPT ![w] = @ + 1] = agent.answers
      BY <1>1, <2>2
    <3> QED BY <1>1, <3>1
  <2> QED BY <2>1, <2>2
<1>3. [agent EXCEPT !.answers[w] = @ + 1] \in AgentType
  BY <1>1, <1>2 DEF AgentType
<1> QED BY <1>1, <1>3 DEF Responded

LEMMA TypesAgent == ASSUME Types, AgentStep \/ SessionStep PROVE Types'
<1> USE Names, EventNames
<1>1. ASSUME NEW w \in Work, AgentAsk(w) PROVE Types'
  <2>1. cs' \in ChanType /\ Len(cs'.chan) <= ChanCap
    BY <1>1, Emitted DEF AgentAsk
  <2>2. agent' \in AgentType
    BY <1>1, UnreadIn DEF AgentAsk, Types, AgentType
  <2> QED BY <1>1, <2>1, <2>2 DEF AgentAsk, Types
<1>2. ASSUME NEW w \in Work, AgentResult(w) PROVE Types'
  <2>1. cs' \in ChanType /\ Len(cs'.chan) <= ChanCap
    BY <1>2, Emitted DEF AgentResult
  <2>2. agent' \in AgentType
    BY <1>2, UnreadIn DEF AgentResult, Types, AgentType
  <2> QED BY <1>2, <2>1, <2>2 DEF AgentResult, Types
<1>3. CASE AgentExit
  <2>1. agent' \in AgentType
    BY <1>3 DEF AgentExit, Types, AgentType
  <2> QED BY <1>3, <2>1 DEF AgentExit, Types
<1>4. CASE SessionStep
  <2>1. ASSUME cs' \in ChanType, Len(cs'.chan) <= ChanCap, UNCHANGED session PROVE Types'
    BY <2>1 DEF session, Types
  <2>2. CASE Forward
    <3>1. cs' \in ChanType /\ Len(cs'.chan) <= ChanCap
      <4>1. cs \in ChanType /\ cs.line \in Events
        BY <2>2 DEF Forward, Types, ChanType
      <4>2. CASE Room /\ cs' = [cs EXCEPT !.line = Nil, !.chan = Append(@, cs.line)]
        BY <4>1, <4>2, Appended DEF ChanType
      <4>3. CASE cs' = [cs EXCEPT !.line = Nil]
        BY <4>1, <4>3 DEF ChanType, Types
      <4> QED BY <2>2, <4>2, <4>3 DEF Forward
    <3> QED BY <2>1, <2>2, <3>1 DEF Forward
  <2>3. ASSUME NEW failed \in BOOLEAN, ReadEnd(failed) PROVE Types'
    <3>1. cs' \in ChanType /\ Len(cs'.chan) <= ChanCap
      BY <2>3 DEF ReadEnd, Types, ChanType
    <3> QED BY <2>1, <2>3, <3>1 DEF ReadEnd
  <2>4. CASE Report
    <3>1. cs' \in ChanType /\ Len(cs'.chan) <= ChanCap
      <4>1. cs \in ChanType
        BY DEF Types
      <4>2. CASE Room /\ cs' = [cs EXCEPT !.loop = "closed", !.chan = Append(@, Event("error", Nil))]
        BY <4>1, <4>2, Appended DEF ChanType
      <4>3. CASE cs' = [cs EXCEPT !.loop = "closed"]
        BY <4>1, <4>3 DEF ChanType, Types
      <4> QED BY <2>4, <4>2, <4>3 DEF Report
    <3> QED BY <2>1, <2>4, <3>1 DEF Report
  <2>5. CASE Escalate
    <3>1. cs' \in ChanType /\ Len(cs'.chan) <= ChanCap
      BY <2>5 DEF Escalate, Types, ChanType
    <3> QED BY <2>1, <2>5, <3>1 DEF Escalate
  <2> QED BY <1>4, <2>2, <2>3, <2>4, <2>5 DEF SessionStep
<1> QED BY <1>1, <1>2, <1>3, <1>4 DEF AgentStep

(* Steps of the goroutines. *)

LEMMA TypesStopReader == ASSUME Types, NEW p \in Procs, StopReader(p) \/ AwaitReader(p) PROVE Types'
<1> USE Names, EventNames DEF Types, TurnPcs, On
<1>1. CASE StopReader(p)
  <2>1. st' \in StateType
    BY <1>1 DEF StopReader, StateType
  <2>2. rd' \in [Turns -> ReaderType]
    <3>1. rd \in [Turns -> ReaderType] /\ st.reader \in Turns \cup {Nil}
      BY DEF Types, StateType
    <3>2. CASE st.reader = Nil
      BY <1>1, <3>1, <3>2 DEF StopReader
    <3>3. CASE st.reader # Nil
      <4>1. rd[st.reader] \in ReaderType /\ rd' = [rd EXCEPT ![st.reader] = [rd[st.reader] EXCEPT !.cancelled = TRUE]]
        BY <1>1, <3>1, <3>3 DEF StopReader
      <4>2. [rd[st.reader] EXCEPT !.cancelled = TRUE] \in ReaderType
        BY <4>1 DEF ReaderType
      <4> QED BY <3>1, <4>1, <4>2
    <3> QED BY <3>2, <3>3
  <2>3. pc' \in [Procs -> TurnPcs] /\ back' \in [Procs -> TurnPcs]
    BY <1>1 DEF StopReader, Goto, Return
  <2>4. mine' \in [Procs -> Work \cup {Nil}]
    BY <1>1 DEF StopReader, StateType
  <2> QED BY <1>1, <2>1, <2>2, <2>3, <2>4 DEF StopReader
<1>2. CASE AwaitReader(p)
  BY <1>2 DEF AwaitReader, Return, Goto, StateType
<1> QED BY <1>1, <1>2

LEMMA TypesTurn == ASSUME Types, NEW t \in Turns, TurnDrain(t) \/ TurnSend(t) \/ TurnStopped(t) \/ TurnEvent(t) \/ TurnGone(t) \/ TurnApprove(t) \/ TurnPend(t) \/ TurnResolved(t) \/ TurnUnlock(t) \/ TurnAfter(t) \/ TurnCapture(t) \/ TurnRegister(t) PROVE Types'
<1> USE Names, EventNames DEF Types, TurnPcs, On
<1>1. CASE TurnDrain(t)
  <2>1. cs' \in ChanType /\ Len(cs'.chan) <= ChanCap
    <3>1. <<>> \in Seq(Events) /\ Len(<<>>) <= ChanCap /\ cs \in ChanType
      BY DEF Types
    <3>2. [cs EXCEPT !.chan = <<>>] \in ChanType
      BY <3>1 DEF ChanType
    <3> QED BY <1>1, <3>1, <3>2 DEF TurnDrain, ChanType
  <2>2. pc' \in [Procs -> TurnPcs] /\ back' \in [Procs -> TurnPcs] /\ crashed' \in BOOLEAN
    BY <1>1 DEF TurnDrain, Goto, Crash
  <2> QED BY <1>1, <2>1, <2>2 DEF TurnDrain
<1>2. CASE TurnSend(t)
  <2>1. agent' \in AgentType
    <3>1. agent \in AgentType /\ Append(agent.inbox, t) \in Seq(Turns)
      BY InboxOps DEF Types, AgentType
    <3>2. [agent EXCEPT !.inbox = Append(@, t)] \in AgentType
      BY <3>1 DEF AgentType
    <3> QED BY <1>2, <3>1, <3>2 DEF TurnSend
  <2>2. pc' \in [Procs -> TurnPcs] /\ back' \in [Procs -> TurnPcs] /\ crashed' \in BOOLEAN
    BY <1>2 DEF TurnSend, Goto, Crash
  <2> QED BY <1>2, <2>1, <2>2 DEF TurnSend
<1>3. CASE TurnStopped(t)
  BY <1>3 DEF TurnStopped, Goto
<1>4. CASE TurnEvent(t)
  <2>1. Head(cs.chan) \in Events
    BY <1>4, Taken DEF TurnEvent
  <2>2. st' \in StateType
    BY <1>4 DEF TurnEvent, StateType
  <2>3. cs' \in ChanType /\ Len(cs'.chan) <= ChanCap
    BY <1>4, Taken DEF TurnEvent, ChanType
  <2>4. pc' \in [Procs -> TurnPcs] /\ back' \in [Procs -> TurnPcs]
    BY <1>4 DEF TurnEvent, Goto
  <2>5. mine' \in [Procs -> Work \cup {Nil}]
    BY <1>4, <2>1 DEF TurnEvent
  <2> QED BY <1>4, <2>1, <2>2, <2>3, <2>4, <2>5 DEF TurnEvent
<1>5. CASE TurnGone(t)
  BY <1>5 DEF TurnGone, Goto, StateType
<1>6. CASE TurnApprove(t)
  <2>1. agent' \in AgentType /\ crashed' \in BOOLEAN
    <3>1. CASE st.attached
      BY <1>6, <3>1, RespondedIn DEF TurnApprove, Types
    <3>2. CASE ~st.attached
      BY <1>6, <3>2 DEF TurnApprove, Crash
    <3> QED BY <3>1, <3>2
  <2>2. pc' \in [Procs -> TurnPcs] /\ back' \in [Procs -> TurnPcs]
    BY <1>6 DEF TurnApprove, Goto
  <2>3. mine' \in [Procs -> Work \cup {Nil}]
    BY <1>6 DEF TurnApprove
  <2> QED BY <1>6, <2>1, <2>2, <2>3 DEF TurnApprove
<1>7. CASE TurnPend(t)
  BY <1>7 DEF TurnPend, Goto, StateType
<1>8. CASE TurnResolved(t)
  BY <1>8 DEF TurnResolved, Goto
<1>9. CASE TurnUnlock(t)
  BY <1>9 DEF TurnUnlock, Goto
<1>10. CASE TurnAfter(t)
  BY <1>10 DEF TurnAfter, EndTurn, CallStopReader, Goto
<1>11. CASE TurnCapture(t)
  BY <1>11 DEF TurnCapture, EndTurn, Goto
<1>12. CASE TurnRegister(t)
  <2>1. st' \in StateType
    BY <1>12 DEF TurnRegister, StateType
  <2>2. rd' \in [Turns -> ReaderType]
    <3>1. rd[t] \in ReaderType /\ rd \in [Turns -> ReaderType]
      BY DEF Types
    <3>2. rd' = [rd EXCEPT ![t] = [rd[t] EXCEPT !.pc = "run"]]
      BY <1>12 DEF TurnRegister
    <3>3. [rd[t] EXCEPT !.pc = "run"] \in ReaderType
      BY <3>1 DEF ReaderType
    <3> QED BY <3>1, <3>2, <3>3
  <2>3. pc' \in [Procs -> TurnPcs] /\ back' \in [Procs -> TurnPcs]
    BY <1>12 DEF TurnRegister, Goto, EndTurn
  <2> QED BY <1>12, <2>1, <2>2, <2>3 DEF TurnRegister
<1> QED BY <1>1, <1>2, <1>3, <1>4, <1>5, <1>6, <1>7, <1>8, <1>9, <1>10, <1>11, <1>12

LEMMA TypesStop == ASSUME Types, NEW s \in Commands, StopTake(s) \/ StopMark(s) \/ StopClose(s) PROVE Types'
<1> USE Names, EventNames DEF Types, TurnPcs, On
<1>1. CASE StopTake(s)
  BY <1>1 DEF StopTake, Take, Goto, StateType
<1>2. CASE StopMark(s)
  BY <1>2 DEF StopMark, Goto, StateType
<1>3. CASE StopClose(s)
  BY <1>3 DEF StopClose, StartClose, Goto, ChanType
<1> QED BY <1>1, <1>2, <1>3

LEMMA TypesCleanup == ASSUME Types, NEW p \in Procs, Detach(p) \/ CleanupMark(p) \/ Wake(p) \/ Closing(p) \/ Remove(p) PROVE Types'
<1> USE Names, EventNames DEF Types, TurnPcs, On
<1>1. CASE Detach(p)
  <2>1. st' \in StateType
    <3>1. [st EXCEPT !.attached = FALSE] \in StateType
      BY DEF StateType
    <3> QED BY <1>1, <3>1 DEF Detach
  <2>2. pc' \in [Procs -> TurnPcs] /\ back' \in [Procs -> TurnPcs]
    BY <1>1 DEF Detach, Goto, Cleaned, CallStopReader
  <2> QED BY <1>1, <2>1, <2>2 DEF Detach
<1>2. CASE CleanupMark(p)
  BY <1>2 DEF CleanupMark, Goto, StateType
<1>3. CASE Wake(p)
  <2>1. st' \in StateType /\ resolved' \subseteq Work
    BY <1>3 DEF Wake, StateType
  <2>2. cs' \in ChanType /\ Len(cs'.chan) <= ChanCap
    BY <1>3 DEF Wake, StartClose, ChanType
  <2>3. pc' \in [Procs -> TurnPcs] /\ back' \in [Procs -> TurnPcs]
    BY <1>3 DEF Wake, Goto
  <2> QED BY <1>3, <2>1, <2>2, <2>3 DEF Wake
<1>4. CASE Closing(p)
  BY <1>4 DEF Closing, Goto
<1>5. CASE Remove(p)
  BY <1>5 DEF Remove, Cleaned, Goto, StateType
<1> QED BY <1>1, <1>2, <1>3, <1>4, <1>5

(* Steps of the background readers, and of those outside. *)

LEMMA ReaderSet ==
    ASSUME Types, NEW t \in Turns, NEW l \in {"none", "run", "hold", "act", "end"},
           NEW e \in Events \cup {Nil}, NEW b \in BOOLEAN
    PROVE  /\ [rd EXCEPT ![t].pc = l, ![t].held = e] \in [Turns -> ReaderType]
           /\ [rd EXCEPT ![t].pc = l, ![t].active = b] \in [Turns -> ReaderType]
           /\ [rd EXCEPT ![t].pc = l, ![t].held = e, ![t].active = b] \in [Turns -> ReaderType]
<1>1. rd \in [Turns -> ReaderType] /\ rd[t] \in ReaderType
  BY DEF Types
<1>2. /\ [rd[t] EXCEPT !.pc = l, !.held = e] \in ReaderType
      /\ [rd[t] EXCEPT !.pc = l, !.active = b] \in ReaderType
      /\ [rd[t] EXCEPT !.pc = l, !.held = e, !.active = b] \in ReaderType
  BY <1>1 DEF ReaderType
<1>3. /\ [rd EXCEPT ![t].pc = l, ![t].held = e] = [rd EXCEPT ![t] = [rd[t] EXCEPT !.pc = l, !.held = e]]
      /\ [rd EXCEPT ![t].pc = l, ![t].active = b] = [rd EXCEPT ![t] = [rd[t] EXCEPT !.pc = l, !.active = b]]
      /\ [rd EXCEPT ![t].pc = l, ![t].held = e, ![t].active = b]
           = [rd EXCEPT ![t] = [rd[t] EXCEPT !.pc = l, !.held = e, !.active = b]]
  BY <1>1
<1> QED BY <1>1, <1>2, <1>3

LEMMA TypesReader == ASSUME Types, HeldOK, NEW t \in Turns, ReaderStep(t) PROVE Types'
<1> USE Names, EventNames DEF Types
<1>1. CASE ReaderCancelled(t)
  <2>1. rd' \in [Turns -> ReaderType]
    BY <1>1, ReaderSet DEF ReaderCancelled, ReaderEnd
  <2> QED BY <1>1, <2>1 DEF ReaderCancelled
<1>2. CASE ReaderRead(t)
  <2>1. rd' \in [Turns -> ReaderType]
    BY <1>2, Taken, ReaderSet DEF ReaderRead
  <2>2. cs' \in ChanType /\ Len(cs'.chan) <= ChanCap
    BY <1>2, Taken DEF ReaderRead, ChanType
  <2> QED BY <1>2, <2>1, <2>2 DEF ReaderRead
<1>3. CASE ReaderCheck(t)
  <2>1. rd' \in [Turns -> ReaderType]
    <3>1. CASE rd' = [rd EXCEPT ![t].pc = "end", ![t].held = Nil, ![t].active = FALSE]
      BY <3>1, ReaderSet
    <3>2. CASE rd' = [rd EXCEPT ![t].pc = "act", ![t].active = TRUE]
      BY <3>2, ReaderSet
    <3> QED BY <1>3, <3>1, <3>2 DEF ReaderCheck, ReaderEnd
  <2>2. st' \in StateType
    BY <1>3 DEF ReaderCheck, StateType
  <2> QED BY <1>3, <2>1, <2>2 DEF ReaderCheck
<1>4. CASE ReaderResult(t)
  <2>1. rd' \in [Turns -> ReaderType]
    BY <1>4, ReaderSet DEF ReaderResult
  <2>2. st' \in StateType
    BY <1>4 DEF ReaderResult, StateType
  <2> QED BY <1>4, <2>1, <2>2 DEF ReaderResult
<1>5. CASE ReaderAsked(t)
  <2>1. rd' \in [Turns -> ReaderType]
    BY <1>5, ReaderSet DEF ReaderAsked
  <2>2. rd[t].held \in Events \cup {Nil} /\ rd[t].held # Nil
    <3>1. rd[t] \in ReaderType
      OBVIOUS
    <3> QED BY <1>5, <3>1 DEF ReaderAsked, ReaderType, At, HeldOK
  <2>3. denying' \subseteq Work \X Turns
    BY <1>5, <2>2 DEF ReaderAsked
  <2> QED BY <1>5, <2>1, <2>2, <2>3 DEF ReaderAsked
<1>6. CASE ReaderFailed(t)
  <2>1. rd' \in [Turns -> ReaderType]
    BY <1>6, ReaderSet DEF ReaderFailed, ReaderEnd
  <2>2. st' \in StateType
    BY <1>6 DEF ReaderFailed, StateType
  <2> QED BY <1>6, <2>1, <2>2 DEF ReaderFailed
<1> QED BY <1>1, <1>2, <1>3, <1>4, <1>5, <1>6 DEF ReaderStep

LEMMA TypesOutside == ASSUME Types, Requests \/ UserAnswer \/ Respond PROVE Types'
<1> USE Names, EventNames DEF Types, TurnPcs, On
<1>1. ASSUME NEW t \in Turns, TurnStart(t) PROVE Types'
  <2>1. pc' \in [Procs -> TurnPcs] /\ back' \in [Procs -> TurnPcs]
    BY <1>1 DEF TurnStart, CallStopReader, Goto
  <2> QED BY <1>1, <2>1 DEF TurnStart
<1>2. ASSUME NEW c \in Commands, StopStart(c) \/ ResetStart(c) PROVE Types'
  <2>1. pc' \in [Procs -> TurnPcs] /\ back' \in [Procs -> TurnPcs]
    BY <1>2 DEF StopStart, ResetStart, CallStopReader, Goto
  <2> QED BY <1>2, <2>1 DEF StopStart, ResetStart
<1>3. CASE AnswerLook
  BY <1>3 DEF AnswerLook, StateType
<1>4. ASSUME NEW all \in BOOLEAN, Answer(all) PROVE Types'
  <2>1. st' \in StateType /\ crashed' \in BOOLEAN
    <3>1. (st.approveAll \/ all) \in BOOLEAN
      OBVIOUS
    <3>2. [st EXCEPT !.approveAll = @ \/ all, !.pending = Nil] \in StateType
      BY <3>1 DEF StateType
    <3> QED BY <1>4, <3>2 DEF Answer, Crash
  <2>2. agent' \in AgentType
    BY <1>4, RespondedIn DEF Answer
  <2>3. resolved' \subseteq Work /\ hand' \in Work \cup {Nil}
    BY <1>4 DEF Answer
  <2> QED BY <1>4, <2>1, <2>2, <2>3 DEF Answer
<1>5. ASSUME NEW w \in Work, NEW t \in Turns, RespondForReader(w, t) PROVE Types'
  <2>1. agent' \in AgentType
    BY <1>5, RespondedIn DEF RespondForReader
  <2> QED BY <1>5, <2>1 DEF RespondForReader
<1> QED BY <1>1, <1>2, <1>3, <1>4, <1>5 DEF Requests, UserAnswer, Respond

-----------------------------------------------------------------------------
(* The books: who runs, which tasks are counted. *)

(* The readers keep their places, though some may be cancelled. *)
SameReaders ==
    \A u \in Turns :
        /\ rd'[u].pc = rd[u].pc /\ rd'[u].held = rd[u].held /\ rd'[u].active = rd[u].active

LEMMA SamePool ==
    ASSUME PoolOK, pool' = pool, Running' = Running, Tasks' = Tasks
    PROVE  PoolOK'
  BY DEF PoolOK

LEMMA SameTasks == ASSUME SameReaders PROVE Tasks' = Tasks
  BY DEF SameReaders, Tasks

(* A goroutine goes on from one line of its work to another. *)
LEMMA Moved ==
    ASSUME Inv, NEW p \in Procs, NEW l, pc' = [pc EXCEPT ![p] = l],
           \A q \in Procs : q # p => back'[q] = back[q],
           p \in Turns =>
               /\ pc[p] \notin {"idle", "done"} /\ l \notin {"idle", "done"}
               /\ l \in {"stopreader", "awaitreader"} => back'[p] \in {"drain", "capture", "mark"},
           pool' = pool, SameReaders
    PROVE  HeldOK' /\ BackOK' /\ PoolOK'
<1> USE Names DEF Inv, Types
<1>1. \A t \in Turns : /\ pc'[t] \in {"idle", "done"} <=> pc[t] \in {"idle", "done"}
                        /\ pc'[t] # "done" => pc[t] # "done"
  OBVIOUS
<1>2. HeldOK'
  BY <1>1 DEF HeldOK, SameReaders
<1>3. BackOK'
  <2> SUFFICES ASSUME NEW t \in Turns, pc'[t] \in {"stopreader", "awaitreader"}
               PROVE  back'[t] \in {"drain", "capture", "mark"}
    BY DEF BackOK
  <2>1. CASE t = p
    BY <2>1
  <2>2. CASE t # p
    BY <2>2 DEF BackOK
  <2> QED BY <2>1, <2>2
<1>4. Running' = Running
  BY <1>1 DEF Running
<1> QED BY <1>2, <1>3, <1>4, SameTasks, SamePool

(* Nobody goes on: the agent, its read loop, the user. *)
LEMMA Stayed ==
    ASSUME Inv, UNCHANGED <<pc, back, pool, rd>>
    PROVE  HeldOK' /\ BackOK' /\ PoolOK'
  BY DEF Inv, HeldOK, BackOK, PoolOK, Running, Tasks

LEMMA TurnBegun ==
    ASSUME Inv, NEW t \in Turns, TurnStart(t)
    PROVE  HeldOK' /\ BackOK' /\ PoolOK'
<1> USE Names DEF Inv, Types
<1>1. pc' = [pc EXCEPT ![t] = "stopreader"] /\ back' = [back EXCEPT ![t] = "drain"] /\ rd' = rd /\ pc[t] = "idle"
  BY DEF TurnStart, On, CallStopReader, Goto
<1>2. HeldOK' /\ BackOK'
  BY <1>1 DEF HeldOK, BackOK
<1>3. Running' = Running \cup {t} /\ t \notin Running /\ Tasks' = Tasks
  BY <1>1 DEF Running, Tasks
<1>4. IsFiniteSet(Running') /\ Cardinality(Running') = Cardinality(Running) + 1
  BY <1>3, FS_AddElement DEF PoolOK
<1>5. Cardinality(Running) \in Nat /\ Cardinality(Tasks) \in Nat
  BY FS_CardinalityType DEF PoolOK
<1>6. PoolOK'
  BY <1>3, <1>4, <1>5 DEF PoolOK, TurnStart
<1> QED BY <1>2, <1>6

LEMMA TurnEnded ==
    ASSUME Inv, NEW t \in Turns, pc[t] \notin {"idle", "done"}, EndTurn(t), back' = back,
           SameReaders \/ rd' = [rd EXCEPT ![t].pc = "run"]
    PROVE  HeldOK' /\ BackOK' /\ PoolOK'
<1> USE Names DEF Inv, Types
<1>1. pc' = [pc EXCEPT ![t] = "done"] /\ pool' = pool - 1
  BY DEF EndTurn, Goto
<1>2. rd[t].pc = "none" /\ rd[t].held = Nil /\ ~rd[t].active
  BY DEF HeldOK
<1>3. /\ rd'[t].pc \in {"none", "run"} /\ rd'[t].held = Nil /\ rd'[t].active = rd[t].active
      /\ \A u \in Turns \ {t} : rd'[u].pc = rd[u].pc /\ rd'[u].held = rd[u].held /\ rd'[u].active = rd[u].active
  <2>1. CASE SameReaders
    BY <1>2, <2>1 DEF SameReaders
  <2>2. CASE rd' = [rd EXCEPT ![t].pc = "run"]
    <3>1. rd[t] \in ReaderType /\ rd' = [rd EXCEPT ![t] = [rd[t] EXCEPT !.pc = "run"]]
      BY <2>2
    <3>2. [rd[t] EXCEPT !.pc = "run"].pc = "run" /\ [rd[t] EXCEPT !.pc = "run"].held = rd[t].held
          /\ [rd[t] EXCEPT !.pc = "run"].active = rd[t].active
      BY <3>1 DEF ReaderType
    <3> QED BY <1>2, <3>1, <3>2
  <2> QED BY <2>1, <2>2
<1>4. HeldOK'
  BY <1>1, <1>2, <1>3 DEF HeldOK
<1>5. BackOK'
  BY <1>1 DEF BackOK
<1>6. Tasks' = Tasks
  BY <1>3 DEF Tasks
<1>7. Running' = Running \ {t} /\ t \in Running
  BY <1>1 DEF Running
<1>8. IsFiniteSet(Running') /\ Cardinality(Running') = Cardinality(Running) - 1
  BY <1>7, FS_RemoveElement DEF PoolOK
<1>9. Cardinality(Running) \in Nat /\ Cardinality(Tasks) \in Nat
  BY FS_CardinalityType DEF PoolOK
<1>10. PoolOK'
  BY <1>1, <1>6, <1>8, <1>9 DEF PoolOK
<1> QED BY <1>4, <1>5, <1>10

LEMMA ReaderMoved ==
    ASSUME Inv, NEW t \in Turns, rd[t].pc # "none", UNCHANGED <<pc, back>>,
           rd'[t].pc \in {"run", "hold", "act", "end"}, rd'[t].active \in BOOLEAN,
           rd'[t].held # Nil <=> rd'[t].pc \in {"hold", "act"},
           rd'[t].pc = "act" => rd'[t].active, rd'[t].pc = "end" => ~rd'[t].active,
           \A u \in Turns \ {t} : rd'[u] = rd[u],
           rd'[t].active /\ ~rd[t].active => pool' = pool + 1,
           ~rd'[t].active /\ rd[t].active => pool' = pool - 1,
           (rd'[t].active <=> rd[t].active) => pool' = pool
    PROVE  HeldOK' /\ BackOK' /\ PoolOK'
<1> USE Names DEF Inv, Types
<1>1. HeldOK' /\ BackOK'
  BY DEF HeldOK, BackOK
<1>2. Running' = Running
  BY DEF Running
<1>3. Cardinality(Running) \in Nat /\ Cardinality(Tasks) \in Nat /\ IsFiniteSet(Tasks)
  BY FS_CardinalityType DEF PoolOK
<1>4. Tasks' = IF rd'[t].active THEN Tasks \cup {t} ELSE Tasks \ {t}
  BY DEF Tasks
<1>5. rd[t].active <=> t \in Tasks
  BY DEF Tasks
<1>6. /\ IsFiniteSet(Tasks')
      /\ Cardinality(Tasks') = Cardinality(Tasks)
             + (IF rd'[t].active /\ t \notin Tasks THEN 1
                ELSE IF ~rd'[t].active /\ t \in Tasks THEN 0 - 1 ELSE 0)
  <2> HIDE DEF Inv, Types
  <2>1. /\ IsFiniteSet(Tasks \cup {t})
        /\ Cardinality(Tasks \cup {t}) = IF t \in Tasks THEN Cardinality(Tasks) ELSE Cardinality(Tasks) + 1
    BY <1>3, FS_AddElement
  <2>2. /\ IsFiniteSet(Tasks \ {t})
        /\ Cardinality(Tasks \ {t}) = IF t \in Tasks THEN Cardinality(Tasks) - 1 ELSE Cardinality(Tasks)
    BY <1>3, FS_RemoveElement
  <2>3. CASE rd'[t].active
    BY <1>3, <1>4, <2>1, <2>3
  <2>4. CASE ~rd'[t].active
    BY <1>3, <1>4, <2>2, <2>4
  <2> QED BY <2>3, <2>4
<1>7. PoolOK'
  BY <1>2, <1>3, <1>5, <1>6 DEF PoolOK
<1> QED BY <1>1, <1>7

(* The steps of a goroutine. *)

LEMMA SameAll == ASSUME rd' = rd PROVE SameReaders
  BY DEF SameReaders

LEMMA BooksStopReader ==
    ASSUME Inv, NEW p \in Procs, StopReader(p) \/ AwaitReader(p)
    PROVE  HeldOK' /\ BackOK' /\ PoolOK'
<1> USE Names DEF Inv, Types
<1>1. pool' = pool /\ pc[p] \in {"stopreader", "awaitreader"}
  BY DEF StopReader, AwaitReader, On
<1>2. /\ \/ pc' = [pc EXCEPT ![p] = back[p]]
         \/ pc' = [pc EXCEPT ![p] = "awaitreader"] /\ back' = back
      /\ \A q \in Procs : q # p => back'[q] = back[q]
  <2>1. CASE AwaitReader(p)
    BY <2>1 DEF AwaitReader, Return, Goto
  <2>2. CASE StopReader(p)
    <3>1. (Return(p) \/ (Goto(p, "awaitreader") /\ back' = back))
      BY <2>2 DEF StopReader
    <3>2. back \in [Procs -> TurnPcs]
      OBVIOUS
    <3> HIDE DEF Inv, Types
    <3> QED BY <3>1, <3>2 DEF Return, Goto
  <2> QED BY <2>1, <2>2
<1>3. SameReaders
  BY DEF StopReader, AwaitReader, SameReaders, StateType, ReaderType
<1>4. p \in Turns => back[p] \in {"drain", "capture", "mark"}
  BY <1>1 DEF BackOK
<1>5. CASE pc' = [pc EXCEPT ![p] = back[p]]
  BY <1>1, <1>2, <1>3, <1>4, <1>5, Moved
<1>6. CASE pc' = [pc EXCEPT ![p] = "awaitreader"] /\ back' = back
  BY <1>1, <1>2, <1>3, <1>4, <1>6, Moved
<1> QED BY <1>2, <1>5, <1>6

LEMMA BooksTurn ==
    ASSUME Inv, NEW t \in Turns, TurnStep(t)
    PROVE  HeldOK' /\ BackOK' /\ PoolOK'
<1> USE Names DEF On
<1>1. CASE TurnDrain(t)
  <2>1. (Goto(t, "send")) \/ pc' = pc
    BY <1>1 DEF TurnDrain
  <2>2. CASE Goto(t, "send")
    BY <1>1, <2>2, Moved, SameAll DEF TurnDrain, Goto
  <2>3. CASE pc' = pc
    BY <1>1, <2>3, Stayed DEF TurnDrain
  <2> QED BY <2>1, <2>2, <2>3
<1>2. CASE TurnSend(t)
  <2>1. (\E l \in {"loop", "detach"} : Goto(t, l)) \/ pc' = pc
    BY <1>2 DEF TurnSend
  <2>2. CASE \E l \in {"loop", "detach"} : Goto(t, l)
    BY <1>2, <2>2, Moved, SameAll DEF TurnSend, Goto
  <2>3. CASE pc' = pc
    BY <1>2, <2>3, Stayed DEF TurnSend
  <2> QED BY <2>1, <2>2, <2>3
<1>3. CASE TurnStopped(t)
  BY <1>3, Moved, SameAll DEF TurnStopped, Goto
<1>4. CASE TurnEvent(t)
  BY <1>4, Moved, SameAll DEF TurnEvent, Goto
<1>5. CASE TurnGone(t)
  BY <1>5, Moved, SameAll DEF TurnGone, Goto
<1>6. CASE TurnApprove(t)
  <2>1. (Goto(t, "loop")) \/ pc' = pc
    BY <1>6 DEF TurnApprove
  <2>2. CASE Goto(t, "loop")
    BY <1>6, <2>2, Moved, SameAll DEF TurnApprove, Goto
  <2>3. CASE pc' = pc
    BY <1>6, <2>3, Stayed DEF TurnApprove
  <2> QED BY <2>1, <2>2, <2>3
<1>7. CASE TurnPend(t)
  BY <1>7, Moved, SameAll DEF TurnPend, Goto
<1>8. CASE TurnResolved(t)
  BY <1>8, Moved, SameAll DEF TurnResolved, Goto
<1>9. CASE TurnUnlock(t)
  BY <1>9, Moved, SameAll DEF TurnUnlock, Goto
<1>10. CASE TurnAfter(t)
  <2>1. CASE CallStopReader(t, "capture") /\ pool' = pool
    BY <1>10, <2>1, Moved, SameAll DEF TurnAfter, CallStopReader, Goto, Inv, Types
  <2>2. CASE EndTurn(t) /\ back' = back
    BY <1>10, <2>2, TurnEnded, SameAll DEF TurnAfter
  <2> QED BY <1>10, <2>1, <2>2 DEF TurnAfter
<1>11. CASE TurnCapture(t)
  <2>1. CASE Goto(t, "register") /\ pool' = pool
    BY <1>11, <2>1, Moved, SameAll DEF TurnCapture, Goto
  <2>2. CASE EndTurn(t)
    BY <1>11, <2>2, TurnEnded, SameAll DEF TurnCapture
  <2> QED BY <1>11, <2>1, <2>2 DEF TurnCapture
<1>12. CASE TurnRegister(t)
  BY <1>12, TurnEnded DEF TurnRegister
<1> QED BY <1>1, <1>2, <1>3, <1>4, <1>5, <1>6, <1>7, <1>8, <1>9, <1>10, <1>11, <1>12 DEF TurnStep

LEMMA BooksStop ==
    ASSUME Inv, NEW s \in Commands, StopStep(s)
    PROVE  HeldOK' /\ BackOK' /\ PoolOK'
<1> USE Names DEF On
<1>1. CASE StopTake(s)
  BY <1>1, Moved, SameAll DEF StopTake, Goto
<1>2. CASE StopMark(s)
  BY <1>2, Moved, SameAll DEF StopMark, Goto
<1>3. CASE StopClose(s)
  BY <1>3, Moved, SameAll DEF StopClose, Goto
<1> QED BY <1>1, <1>2, <1>3 DEF StopStep

LEMMA BooksCleanup ==
    ASSUME Inv, NEW p \in Procs, Cleanup(p)
    PROVE  HeldOK' /\ BackOK' /\ PoolOK'
<1> USE Names DEF On
<1>1. CASE Detach(p)
  BY <1>1, Moved, SameAll DEF Detach, Goto, CallStopReader, Cleaned, Inv, Types
<1>2. CASE CleanupMark(p)
  BY <1>2, Moved, SameAll DEF CleanupMark, Goto
<1>3. CASE Wake(p)
  BY <1>3, Moved, SameAll DEF Wake, Goto
<1>4. CASE Closing(p)
  BY <1>4, Moved, SameAll DEF Closing, Goto
<1>5. CASE Remove(p)
  BY <1>5, Moved, SameAll DEF Remove, Goto, Cleaned
<1> QED BY <1>1, <1>2, <1>3, <1>4, <1>5 DEF Cleanup

(* What the assignments of a reader's step do to its fields. *)
LEMMA FieldsTook ==
    ASSUME Types, NEW t \in Turns, NEW l, NEW e, rd' = [rd EXCEPT ![t].pc = l, ![t].held = e]
    PROVE  /\ rd'[t].pc = l /\ rd'[t].held = e /\ rd'[t].active = rd[t].active
           /\ \A u \in Turns \ {t} : rd'[u] = rd[u]
<1>1. rd \in [Turns -> ReaderType] /\ rd[t] \in ReaderType
  BY DEF Types
<1>2. rd' = [rd EXCEPT ![t] = [rd[t] EXCEPT !.pc = l, !.held = e]]
  BY <1>1
<1> QED BY <1>1, <1>2 DEF ReaderType

LEMMA FieldsMarked ==
    ASSUME Types, NEW t \in Turns, NEW l, NEW b, rd' = [rd EXCEPT ![t].pc = l, ![t].active = b]
    PROVE  /\ rd'[t].pc = l /\ rd'[t].held = rd[t].held /\ rd'[t].active = b
           /\ \A u \in Turns \ {t} : rd'[u] = rd[u]
<1>1. rd \in [Turns -> ReaderType] /\ rd[t] \in ReaderType
  BY DEF Types
<1>2. rd' = [rd EXCEPT ![t] = [rd[t] EXCEPT !.pc = l, !.active = b]]
  BY <1>1
<1> QED BY <1>1, <1>2 DEF ReaderType

LEMMA FieldsLeft ==
    ASSUME Types, NEW t \in Turns, NEW l, NEW e, NEW b, rd' = [rd EXCEPT ![t].pc = l, ![t].held = e, ![t].active = b]
    PROVE  /\ rd'[t].pc = l /\ rd'[t].held = e /\ rd'[t].active = b
           /\ \A u \in Turns \ {t} : rd'[u] = rd[u]
<1>1. rd \in [Turns -> ReaderType] /\ rd[t] \in ReaderType
  BY DEF Types
<1>2. rd' = [rd EXCEPT ![t] = [rd[t] EXCEPT !.pc = l, !.held = e, !.active = b]]
  BY <1>1
<1> QED BY <1>1, <1>2 DEF ReaderType

LEMMA BooksReader ==
    ASSUME Inv, NEW t \in Turns, ReaderStep(t)
    PROVE  HeldOK' /\ BackOK' /\ PoolOK'
<1>1. Types /\ HeldOK /\ rd[t].active \in BOOLEAN /\ (rd[t].held # Nil <=> rd[t].pc \in {"hold", "act"})
  BY DEF Inv, Types, ReaderType, HeldOK
<1>2. pool \in Nat
  BY FS_CardinalityType DEF Inv, PoolOK
<1>3. ASSUME ReaderEnd(t), rd[t].pc # "none", UNCHANGED <<pc, back>> PROVE HeldOK' /\ BackOK' /\ PoolOK'
  <2>1. /\ rd'[t].pc = "end" /\ rd'[t].held = Nil /\ rd'[t].active = FALSE
        /\ \A u \in Turns \ {t} : rd'[u] = rd[u]
    BY <1>1, <1>3, FieldsLeft DEF ReaderEnd
  <2> QED BY <1>2, <1>3, <2>1, ReaderMoved DEF ReaderEnd
<1>4. CASE ReaderCancelled(t)
  BY <1>3, <1>4 DEF ReaderCancelled, At
<1>5. CASE ReaderRead(t)
  <2>1. /\ rd'[t].pc = "hold" /\ rd'[t].held = Head(cs.chan) /\ rd'[t].active = rd[t].active
        /\ \A u \in Turns \ {t} : rd'[u] = rd[u]
    BY <1>1, <1>5, FieldsTook DEF ReaderRead
  <2>2. Head(cs.chan) # Nil
    BY <1>1, <1>5, Taken, Names DEF ReaderRead
  <2> QED BY <1>1, <1>2, <1>5, <2>1, <2>2, ReaderMoved DEF ReaderRead, At
<1>6. CASE ReaderCheck(t)
  <2>1. CASE ReaderEnd(t)
    BY <1>3, <1>6, <2>1 DEF ReaderCheck, At
  <2>2. CASE /\ rd' = [rd EXCEPT ![t].pc = "act", ![t].active = TRUE]
             /\ pool' = IF rd[t].active THEN pool ELSE pool + 1
    <3>1. /\ rd'[t].pc = "act" /\ rd'[t].held = rd[t].held /\ rd'[t].active = TRUE
          /\ \A u \in Turns \ {t} : rd'[u] = rd[u]
      BY <1>1, <2>2, FieldsMarked
    <3> QED BY <1>1, <1>2, <1>6, <2>2, <3>1, ReaderMoved DEF ReaderCheck, At
  <2> QED BY <1>6, <2>1, <2>2 DEF ReaderCheck
<1>7. CASE ReaderResult(t)
  <2>1. /\ rd'[t].pc = "run" /\ rd'[t].held = Nil /\ rd'[t].active = FALSE
        /\ \A u \in Turns \ {t} : rd'[u] = rd[u]
    BY <1>1, <1>7, FieldsLeft DEF ReaderResult
  <2>2. rd[t].active
    BY <1>1, <1>7 DEF ReaderResult, At, HeldOK
  <2> QED BY <1>1, <1>2, <1>7, <2>1, <2>2, ReaderMoved DEF ReaderResult, At
<1>8. CASE ReaderAsked(t)
  <2>1. /\ rd'[t].pc = "run" /\ rd'[t].held = Nil /\ rd'[t].active = rd[t].active
        /\ \A u \in Turns \ {t} : rd'[u] = rd[u]
    BY <1>1, <1>8, FieldsTook DEF ReaderAsked
  <2> QED BY <1>1, <1>2, <1>8, <2>1, ReaderMoved DEF ReaderAsked, At
<1>9. CASE ReaderFailed(t)
  BY <1>3, <1>9 DEF ReaderFailed, At
<1> QED BY <1>4, <1>5, <1>6, <1>7, <1>8, <1>9 DEF ReaderStep

LEMMA BooksOutside ==
    ASSUME Inv, Requests \/ UserAnswer \/ Respond \/ AgentStep \/ SessionStep
    PROVE  HeldOK' /\ BackOK' /\ PoolOK'
<1> USE Names DEF On
<1>1. ASSUME NEW t \in Turns, TurnStart(t) PROVE HeldOK' /\ BackOK' /\ PoolOK'
  BY <1>1, TurnBegun
<1>2. ASSUME NEW c \in Commands, StopStart(c) PROVE HeldOK' /\ BackOK' /\ PoolOK'
  <2>1. CASE CallStopReader(c, "take")
    BY <1>2, <2>1, Moved, SameAll DEF StopStart, CallStopReader, Goto, Inv, Types
  <2>2. CASE Goto(c, "done") /\ back' = back
    BY <1>2, <2>2, Moved, SameAll DEF StopStart, Goto
  <2> QED BY <1>2, <2>1, <2>2 DEF StopStart
<1>3. ASSUME NEW c \in Commands, ResetStart(c) PROVE HeldOK' /\ BackOK' /\ PoolOK'
  BY <1>3, Moved, SameAll DEF ResetStart, Goto
<1>4. CASE AnswerLook \/ UserAnswer \/ Respond
  BY <1>4, Stayed DEF AnswerLook, UserAnswer, Answer, Respond, RespondForReader
<1>5. CASE AgentStep
  BY <1>5, Stayed DEF AgentStep, AgentExit, AgentAsk, AgentResult
<1>6. CASE SessionStep
  BY <1>6, Stayed DEF SessionStep, Forward, Report, Escalate, ReadEnd, session
<1> QED BY <1>1, <1>2, <1>3, <1>4, <1>5, <1>6 DEF Requests

LEMMA InvStep == Inv /\ [Next]_vars => Inv'
<1> SUFFICES ASSUME Inv, [Next]_vars PROVE Inv'
  OBVIOUS
<1>1. Types /\ HeldOK
  BY DEF Inv
<1>2. CASE AgentStep \/ SessionStep
  BY <1>1, <1>2, TypesAgent, BooksOutside DEF Inv
<1>3. CASE Requests \/ UserAnswer \/ Respond
  BY <1>1, <1>3, TypesOutside, BooksOutside DEF Inv
<1>4. ASSUME NEW p \in Procs, ProcStep(p) PROVE Inv'
  <2>1. CASE StopReader(p) \/ AwaitReader(p)
    BY <1>1, <2>1, TypesStopReader, BooksStopReader DEF Inv
  <2>2. CASE p \in Turns /\ TurnStep(p)
    BY <1>1, <2>2, TypesTurn, BooksTurn DEF Inv, TurnStep
  <2>3. CASE p \in Commands /\ StopStep(p)
    BY <1>1, <2>3, TypesStop, BooksStop DEF Inv, StopStep
  <2>4. CASE Cleanup(p)
    BY <1>1, <2>4, TypesCleanup, BooksCleanup DEF Inv, Cleanup
  <2> QED BY <1>4, <2>1, <2>2, <2>3, <2>4 DEF ProcStep
<1>5. ASSUME NEW t \in Turns, ReaderStep(t) PROVE Inv'
  BY <1>1, <1>5, TypesReader, BooksReader DEF Inv
<1>6. CASE UNCHANGED vars
  BY <1>6 DEF vars, Inv, Types, HeldOK, BackOK, PoolOK, Running, Tasks
<1> QED BY <1>2, <1>3, <1>4, <1>5, <1>6 DEF Next

LEMMA InvAlways == Spec => []Inv
<1>1. Init => Inv
  BY TypesInit
<1> QED BY <1>1, InvStep, PTL DEF Spec

(* Every variable keeps its type: the channel never holds more than its    *)
(* capacity, and the number of workspace turns is never negative, in spite *)
(* of the readers that give back a task they no longer know about.         *)
THEOREM ChannelTypeCorrect == Spec => []TypeOK
<1>1. Inv => TypeOK
  <2> SUFFICES ASSUME Inv PROVE TypeOK
    OBVIOUS
  <2>1. pool \in Nat
    BY FS_CardinalityType DEF Inv, PoolOK
  <2>2. \A t \in Turns : rd[t] \in ReaderType
    BY DEF Inv, Types
  <2>3. \A t \in Turns :
          /\ rd[t].pc \in {"none", "run", "hold", "act", "end"}
          /\ rd[t].held \in Events \cup {Nil}
          /\ rd[t].held # Nil <=> rd[t].pc \in {"hold", "act"}
          /\ rd[t].cancelled \in BOOLEAN /\ rd[t].active \in BOOLEAN
    BY <2>2 DEF ReaderType, Inv, HeldOK
  <2> QED BY <2>1, <2>3 DEF Inv, Types, TypeOK, StateType, ChanType, AgentType
<1> QED BY <1>1, InvAlways, PTL

(* The workspace counts as busy exactly for the turns that run and the     *)
(* background tasks seen and not ended, whatever way out each of them      *)
(* takes: the reaper neither spares it for ever nor kills it in a turn.    *)
THEOREM PoolCorrect == Spec => []PoolBalanced
<1>1. Inv => PoolBalanced
  BY DEF Inv, PoolOK, PoolBalanced, Running, Tasks
<1> QED BY <1>1, InvAlways, PTL

-----------------------------------------------------------------------------
(***************************************************************************)
(* A permission request is answered at most once.  On its way from the     *)
(* agent to whoever answers it a request is in one place: at an index of   *)
(* the channel, with the read loop that waits for room, with the turn or   *)
(* the background reader that has taken it, with a goroutine that answers  *)
(* for a reader, or before the user, who may already be answering it.  A   *)
(* request that is in some place has not been answered.                    *)
(***************************************************************************)
Kinds == {"chan", "line", "turn", "reader", "denying", "user"}

Lies(w, k, i) ==
    \/ k = "chan" /\ i \in 1..Len(cs.chan) /\ cs.chan[i] = Event("ask", w)
    \/ k = "line" /\ i = 0 /\ cs.line = Event("ask", w)
    \/ k = "turn" /\ i \in Turns /\ pc[i] = "ask" /\ mine[i] = w
    \/ k = "reader" /\ i \in Turns /\ rd[i].held = Event("ask", w)
    \/ k = "denying" /\ i \in Turns /\ <<w, i>> \in denying
    \/ k = "user" /\ i = 0 /\ (st.pending = w \/ hand = w)

OnePlace(w) == \A k, j \in Kinds, i, h \in Nat : Lies(w, k, i) /\ Lies(w, j, h) => k = j /\ i = h

OpenOK(w) ==
    /\ \A k \in Kinds, i \in Nat : Lies(w, k, i) => agent.answers[w] = 0 /\ w \in agent.asked
    /\ agent.answers[w] <= 1
    /\ w \notin agent.asked => agent.answers[w] = 0

Once == \A w \in Work : OnePlace(w) /\ OpenOK(w)

LEMMA AskNames ==
    /\ \A v, w : Event("ask", v) = Event("ask", w) => v = w
    /\ \A v, w : Event("ask", v) # Event("result", w) /\ Event("ask", v) # Event("error", w)
    /\ \A w \in Work : Event("ask", w) # Nil
    /\ \A e \in Events, w \in Work : e = Event("ask", w) <=> e.kind = "ask" /\ e.job = w
<1>1. \A w \in Work : Event("ask", w) # Nil
  BY Names, EventNames
<1>2. \A e \in Events, w \in Work : e = Event("ask", w) <=> e.kind = "ask" /\ e.job = w
  BY DEF Events, Event
<1> QED BY <1>1, <1>2 DEF Event

LEMMA OnceInit == Init => Once
<1> SUFFICES ASSUME Init PROVE Once
  OBVIOUS
<1>1. \A w \in Work : \A k, i : ~Lies(w, k, i)
  <2> SUFFICES ASSUME NEW w \in Work, NEW k, NEW i, Lies(w, k, i) PROVE FALSE
    OBVIOUS
  <2>1. cs.chan = <<>> /\ cs.line = Nil /\ st.pending = Nil /\ hand = Nil /\ denying = {}
    BY DEF Init
  <2>2. \A t \in Turns : pc[t] # "ask" /\ rd[t].held = Nil
    BY Names DEF Init, NoReader
  <2>3. Len(cs.chan) = 0 /\ w # Nil /\ Event("ask", w) # Nil
    BY <2>1, Names, AskNames
  <2> QED BY <2>1, <2>2, <2>3 DEF Lies
<1> QED BY <1>1 DEF Init, Once, OnePlace, OpenOK

(* A step that puts no request anywhere, and answers none. *)
LEMMA OnceLess ==
    ASSUME Once, \A w \in Work, k \in Kinds, i \in Nat : Lies(w, k, i)' => Lies(w, k, i),
           agent'.answers = agent.answers, agent'.asked = agent.asked
    PROVE  Once'
  BY DEF Once, OnePlace, OpenOK

(* After the step request v is at most in place q of kind m.            *)
OnlyIn(v, m, q) == \A k \in Kinds, i \in Nat : Lies(v, k, i)' => k = m /\ i = q
OthersKept(v) == \A w \in Work \ {v}, k \in Kinds, i \in Nat : Lies(w, k, i)' => Lies(w, k, i)

(* A step that brings one request to another place. *)
LEMMA OnceMoved ==
    ASSUME Once, NEW v \in Work, NEW l \in Kinds, NEW n \in Nat, Lies(v, l, n),
           NEW m \in Kinds, NEW q \in Nat, OnlyIn(v, m, q), OthersKept(v),
           agent'.answers = agent.answers, agent'.asked = agent.asked
    PROVE  Once'
  BY DEF Once, OnePlace, OpenOK, OnlyIn, OthersKept

(* An answer takes its request out of its place. *)
LEMMA OnceAnswered ==
    ASSUME Types, Once, NEW v \in Work, NEW l \in Kinds, NEW n \in Nat, Lies(v, l, n),
           \A k \in Kinds, i \in Nat : ~Lies(v, k, i)', OthersKept(v),
           agent' = Responded(v)
    PROVE  Once'
<1>1. agent.answers[v] = 0 /\ v \in agent.asked
  BY DEF Once, OpenOK
<1>2. agent \in AgentType /\ agent.answers \in [Work -> Nat]
  BY DEF Types, AgentType
<1>3. agent'.asked = agent.asked /\ agent'.answers[v] \in {0, 1}
      /\ \A w \in Work \ {v} : agent'.answers[w] = agent.answers[w]
  BY <1>1, <1>2 DEF Responded, AgentType
<1> QED BY <1>1, <1>3 DEF Once, OnePlace, OpenOK, OthersKept

(* What is in the channel and with the goroutines may only get less. *)
SamePlaces ==
    /\ cs'.chan = cs.chan /\ cs'.line \in {cs.line, Nil}
    /\ \A t \in Turns : pc'[t] = "ask" => pc[t] = "ask" /\ mine'[t] \in {mine[t], Nil}
    /\ \A t \in Turns : rd'[t].held \in {rd[t].held, Nil}
    /\ denying' \subseteq denying
    /\ st'.pending \in {st.pending, Nil} /\ hand' \in {hand, st.pending, Nil}

LEMMA PlacesKept ==
    ASSUME SamePlaces
    PROVE  \A w \in Work : \A k, i : Lies(w, k, i)' => Lies(w, k, i)
<1> SUFFICES ASSUME NEW w \in Work, NEW k, NEW i, Lies(w, k, i)' PROVE Lies(w, k, i)
  OBVIOUS
<1>1. w # Nil /\ Event("ask", w) # Nil
  BY Names, AskNames
<1> QED BY <1>1 DEF SamePlaces, Lies

LEMMA OnceKept ==
    ASSUME Once, SamePlaces, agent'.answers = agent.answers, agent'.asked = agent.asked
    PROVE  Once'
  BY PlacesKept, OnceLess

(* The steps that only walk: nobody takes or answers a request. *)

LEMMA OnceStopReader ==
    ASSUME Inv, Once, NEW p \in Procs, StopReader(p) \/ AwaitReader(p)
    PROVE  Once'
<1>1. /\ pc \in [Procs -> TurnPcs] /\ mine \in [Procs -> Work \cup {Nil}]
      /\ pc[p] \in {"stopreader", "awaitreader"} /\ rd \in [Turns -> ReaderType]
  BY DEF Inv, Types, StopReader, AwaitReader, On
<1>2. p \in Turns => back[p] # "ask"
  BY <1>1 DEF Inv, BackOK
<1>3. \E l : pc' = [pc EXCEPT ![p] = l] /\ (p \in Turns => l # "ask")
  BY <1>2 DEF StopReader, AwaitReader, Return, Goto
<1>4. \E x : mine' = [mine EXCEPT ![p] = x] \/ mine' = mine
  BY DEF StopReader, AwaitReader
<1>5. \A t \in Turns : pc'[t] = "ask" => pc[t] = "ask" /\ mine'[t] = mine[t]
  BY <1>1, <1>3, <1>4, Names
<1>6. \A t \in Turns : rd'[t].held = rd[t].held
  BY <1>1 DEF StopReader, AwaitReader, ReaderType
<1>7. st'.pending = st.pending
  BY DEF StopReader, AwaitReader, Inv, Types, StateType
<1>8. UNCHANGED <<cs, agent, denying, hand>>
  BY DEF StopReader, AwaitReader
<1>9. SamePlaces
  BY <1>5, <1>6, <1>7, <1>8 DEF SamePlaces
<1> QED BY <1>8, <1>9, OnceKept

LEMMA OnceStop ==
    ASSUME Inv, Once, NEW s \in Commands, StopStep(s)
    PROVE  Once'
<1>1. /\ pc \in [Procs -> TurnPcs] /\ mine \in [Procs -> Work \cup {Nil}] /\ s \in Procs \ Turns
      /\ st \in StateType /\ cs \in ChanType
  BY Names DEF Inv, Types
<1>2. \E l, x : pc' = [pc EXCEPT ![s] = l] /\ (mine' = [mine EXCEPT ![s] = x] \/ mine' = mine)
  BY DEF StopStep, StopTake, StopMark, StopClose, Take, Goto
<1>3. \A t \in Turns : pc'[t] = pc[t] /\ mine'[t] = mine[t]
  BY <1>1, <1>2, Names
<1>4. st'.pending \in {st.pending, Nil} /\ cs'.chan = cs.chan /\ cs'.line = cs.line
  BY <1>1 DEF StopStep, StopTake, StopMark, StopClose, Take, StartClose, StateType, ChanType
<1>5. UNCHANGED <<agent, rd, denying, hand>>
  BY DEF StopStep, StopTake, StopMark, StopClose
<1> QED BY <1>3, <1>4, <1>5, OnceKept DEF SamePlaces

LEMMA OnceCleanup ==
    ASSUME Inv, Once, NEW p \in Procs, Cleanup(p)
    PROVE  Once'
<1>1. pc \in [Procs -> TurnPcs] /\ st \in StateType /\ cs \in ChanType
  BY DEF Inv, Types
<1>2. \E l : pc' = [pc EXCEPT ![p] = l] /\ l # "ask"
  BY DEF Cleanup, Detach, CleanupMark, Wake, Closing, Remove, Cleaned, CallStopReader, Goto
<1>3. UNCHANGED <<agent, rd, denying, hand, mine>>
  BY DEF Cleanup, Detach, CleanupMark, Wake, Closing, Remove
<1>4. \A t \in Turns : pc'[t] = "ask" => pc[t] = "ask" /\ mine'[t] = mine[t]
  BY <1>1, <1>2, <1>3, Names
<1>5. st'.pending \in {st.pending, Nil} /\ cs'.chan = cs.chan /\ cs'.line = cs.line
  <2>1. CASE Detach(p) \/ CleanupMark(p)
    BY <1>1, <2>1 DEF Detach, CleanupMark, StateType
  <2>2. CASE Wake(p)
    BY <1>1, <2>2 DEF Wake, StartClose, StateType, ChanType
  <2>3. CASE Closing(p) \/ Remove(p)
    BY <1>1, <2>3 DEF Closing, Remove, StateType
  <2> QED BY <2>1, <2>2, <2>3 DEF Cleanup
<1> QED BY <1>3, <1>4, <1>5, OnceKept DEF SamePlaces

-----------------------------------------------------------------------------
(* The steps that take a request from one place to another. *)

LEMMA ChannelPlaces ==
    ASSUME Types, cs.chan # <<>>, cs' = [cs EXCEPT !.chan = Tail(@)]
    PROVE  /\ \A w \in Work : \A i \in Nat : Lies(w, "chan", i)' => i # 0 /\ Lies(w, "chan", i + 1)
           /\ \A w \in Work : Head(cs.chan) = Event("ask", w) => Lies(w, "chan", 1)
           /\ cs'.line = cs.line
<1>1. cs.chan \in Seq(Events) /\ cs \in ChanType
  BY DEF Types, ChanType
<1>2. cs'.chan = Tail(cs.chan) /\ cs'.line = cs.line
  BY <1>1 DEF ChanType
<1>3. Len(cs.chan) \in Nat \ {0} /\ Head(cs.chan) = cs.chan[1]
  BY <1>1
<1>4. \A i \in 1..Len(cs'.chan) : i + 1 \in 1..Len(cs.chan) /\ cs'.chan[i] = cs.chan[i + 1]
  BY <1>1, <1>2, <1>3
<1>5. \A w \in Work : \A i \in Nat : Lies(w, "chan", i)' => i # 0 /\ Lies(w, "chan", i + 1)
  BY <1>2, <1>4 DEF Lies
<1>6. \A w \in Work : Head(cs.chan) = Event("ask", w) => Lies(w, "chan", 1)
  BY <1>3 DEF Lies
<1> QED BY <1>2, <1>5, <1>6

(* The first event is taken by m, in whose place q it is afterwards, or it  *)
(* is dropped.                                                             *)
LEMMA OncePopped ==
    ASSUME Types, Once, cs.chan # <<>>, cs' = [cs EXCEPT !.chan = Tail(@)],
           NEW m \in Kinds \ {"chan"}, NEW q \in Nat,
           \A w \in Work, k \in Kinds \ {"chan"}, i \in Nat :
               Lies(w, k, i)' => \/ Lies(w, k, i)
                                 \/ k = m /\ i = q /\ Head(cs.chan) = Event("ask", w),
           agent'.answers = agent.answers, agent'.asked = agent.asked
    PROVE  Once'
<1> SUFFICES ASSUME NEW w \in Work PROVE OnePlace(w)' /\ OpenOK(w)'
  BY DEF Once
<1>1. OnePlace(w) /\ OpenOK(w) /\ "chan" \in Kinds /\ 1 \in Nat
  BY DEF Once, Kinds
<1>2. \A i \in Nat : Lies(w, "chan", i)' => i # 0 /\ i + 1 \in Nat /\ Lies(w, "chan", i + 1)
  BY ChannelPlaces
<1>3. Head(cs.chan) = Event("ask", w) => Lies(w, "chan", 1)
  BY ChannelPlaces
<1>4. ASSUME NEW k \in Kinds, NEW i \in Nat, Lies(w, k, i)'
      PROVE  \E j \in Kinds, h \in Nat : Lies(w, j, h)
  <2>1. CASE k = "chan"
    BY <1>1, <1>2, <1>4, <2>1
  <2>2. CASE k # "chan"
    BY <1>1, <1>3, <1>4, <2>2
  <2> QED BY <2>1, <2>2
<1>5. ASSUME NEW k \in Kinds, NEW j \in Kinds, NEW i \in Nat, NEW h \in Nat, Lies(w, k, i)', Lies(w, j, h)'
      PROVE  k = j /\ i = h
  <2>1. CASE k = "chan" /\ j = "chan"
    <3>1. i + 1 = h + 1
      BY <1>1, <1>2, <1>5, <2>1 DEF OnePlace
    <3> QED BY <2>1, <3>1
  <2>2. CASE k = "chan" /\ j # "chan"
    <3>1. Lies(w, "chan", i + 1) /\ i + 1 \in Nat /\ i + 1 # 1
      BY <1>2, <1>5, <2>2
    <3> QED BY <1>1, <1>3, <1>5, <2>2, <3>1 DEF OnePlace
  <2>3. CASE k # "chan" /\ j = "chan"
    <3>1. Lies(w, "chan", h + 1) /\ h + 1 \in Nat /\ h + 1 # 1
      BY <1>2, <1>5, <2>3
    <3> QED BY <1>1, <1>3, <1>5, <2>3, <3>1 DEF OnePlace
  <2>4. CASE k # "chan" /\ j # "chan"
    BY <1>1, <1>3, <1>5, <2>4 DEF OnePlace
  <2> QED BY <2>1, <2>2, <2>3, <2>4
<1>6. OnePlace(w)'
  BY <1>5 DEF OnePlace
<1>7. OpenOK(w)'
  BY <1>1, <1>4 DEF OpenOK
<1> QED BY <1>6, <1>7

(* The steps of a turn. *)

LEMMA RespondedNil == ASSUME Types PROVE Responded(Nil).answers = agent.answers /\ Responded(Nil).asked = agent.asked
<1>1. agent \in AgentType /\ agent.answers \in [Work -> Nat] /\ Nil \notin Work
  BY Names DEF Types, AgentType
<1>2. [agent.answers EXCEPT ![Nil] = @ + 1] = agent.answers
  BY <1>1
<1>3. [agent EXCEPT !.answers[Nil] = @ + 1].answers = [agent.answers EXCEPT ![Nil] = @ + 1]
      /\ [agent EXCEPT !.answers[Nil] = @ + 1].asked = agent.asked
  BY <1>1 DEF AgentType
<1> QED BY <1>2, <1>3 DEF Responded

LEMMA OnceTurnEvent ==
    ASSUME Inv, Once, NEW t \in Turns, TurnEvent(t)
    PROVE  Once'
<1>1. /\ pc \in [Procs -> TurnPcs] /\ mine \in [Procs -> Work \cup {Nil}] /\ t \in Procs /\ t \in Nat
      /\ st \in StateType /\ Types
  BY Names DEF Inv, Types
<1>2. cs.chan # <<>> /\ cs' = [cs EXCEPT !.chan = Tail(@)] /\ Head(cs.chan) \in Events
  BY <1>1, Taken DEF TurnEvent
<1>3. UNCHANGED <<agent, rd, denying, hand>> /\ cs'.line = cs.line /\ st'.pending = st.pending
  BY <1>1, <1>2, ChannelPlaces DEF TurnEvent, StateType
<1>4. \A u \in Turns \ {t} : pc'[u] = pc[u] /\ mine'[u] = mine[u]
  BY <1>1, Names DEF TurnEvent, Goto
<1>5. pc'[t] = "ask" => Head(cs.chan).kind = "ask" /\ mine'[t] = Head(cs.chan).job
  BY <1>1, Names DEF TurnEvent, Goto
<1>6. ASSUME NEW w \in Work, NEW k \in Kinds \ {"chan"}, NEW i \in Nat, Lies(w, k, i)'
      PROVE  Lies(w, k, i) \/ (k = "turn" /\ i = t /\ Head(cs.chan) = Event("ask", w))
  <2>1. CASE k = "turn" /\ i = t
    BY <1>2, <1>5, <1>6, <2>1, AskNames DEF Lies
  <2>2. CASE ~(k = "turn" /\ i = t)
    BY <1>3, <1>4, <1>6, <2>2 DEF Lies
  <2> QED BY <2>1, <2>2
<1>7. "turn" \in Kinds \ {"chan"}
  BY DEF Kinds
<1> QED BY <1>1, <1>2, <1>3, <1>6, <1>7, OncePopped

LEMMA OnceTurnPend ==
    ASSUME Inv, Once, NEW t \in Turns, TurnPend(t)
    PROVE  Once'
<1>1. /\ pc \in [Procs -> TurnPcs] /\ mine[t] \in Work \cup {Nil} /\ t \in Procs /\ t \in Nat /\ 0 \in Nat
      /\ st \in StateType /\ pc[t] = "ask" /\ Nil \notin Work
  BY Names DEF Inv, Types, TurnPend, On
<1>2. UNCHANGED <<agent, cs, rd, denying, hand, mine>> /\ st'.pending = mine[t]
  BY <1>1 DEF TurnPend, StateType
<1>3. pc'[t] = "wait" /\ \A u \in Turns \ {t} : pc'[u] = pc[u]
  BY <1>1, Names DEF TurnPend, Goto
<1>4. ASSUME NEW w \in Work, w # mine[t], NEW k \in Kinds, NEW i \in Nat, Lies(w, k, i)'
      PROVE  Lies(w, k, i)
  BY <1>1, <1>2, <1>3, <1>4 DEF Lies
<1>5. CASE mine[t] = Nil
  BY <1>1, <1>2, <1>4, <1>5, OnceLess
<1>6. CASE mine[t] \in Work
  <2>1. Lies(mine[t], "turn", t) /\ "turn" \in Kinds /\ "user" \in Kinds
    BY <1>1 DEF Lies, Kinds
  <2>2. ASSUME NEW k \in Kinds, NEW i \in Nat, Lies(mine[t], k, i)'
        PROVE  k = "user" /\ i = 0
    <3>1. CASE k = "user"
      BY <2>2, <3>1 DEF Lies
    <3>2. CASE k # "user"
      <4>1. Lies(mine[t], k, i) /\ ~(k = "turn" /\ i = t)
        BY <1>2, <1>3, <2>2, <3>2 DEF Lies
      <4> QED BY <1>1, <1>6, <2>1, <4>1 DEF Once, OnePlace
    <3> QED BY <3>1, <3>2
  <2>3. OnlyIn(mine[t], "user", 0)
    BY <1>2, <2>2 DEF OnlyIn
  <2>4. OthersKept(mine[t])
    BY <1>2, <1>4 DEF OthersKept
  <2> QED BY <1>1, <1>2, <1>6, <2>1, <2>3, <2>4, OnceMoved
<1> QED BY <1>1, <1>5, <1>6

LEMMA OnceTurnApprove ==
    ASSUME Inv, Once, NEW t \in Turns, TurnApprove(t)
    PROVE  Once'
<1>1. /\ pc \in [Procs -> TurnPcs] /\ mine \in [Procs -> Work \cup {Nil}] /\ mine[t] \in Work \cup {Nil}
      /\ t \in Procs /\ t \in Nat /\ pc[t] = "ask" /\ Nil \notin Work /\ Types
  BY Names DEF Inv, Types, TurnApprove, On
<1>2. UNCHANGED <<cs, rd, denying, hand, st>> /\ mine'[t] = Nil
      /\ \A u \in Turns \ {t} : mine'[u] = mine[u] /\ pc'[u] = pc[u]
  BY <1>1, Names DEF TurnApprove, Goto
<1>3. ASSUME NEW w \in Work, NEW k \in Kinds, NEW i \in Nat, Lies(w, k, i)'
      PROVE  Lies(w, k, i) /\ ~(k = "turn" /\ i = t)
  BY <1>1, <1>2, <1>3 DEF Lies
<1>4. CASE agent' = agent
  BY <1>3, <1>4, OnceLess
<1>5. CASE agent' = Responded(mine[t]) /\ mine[t] = Nil
  BY <1>1, <1>3, <1>5, RespondedNil, OnceLess
<1>6. ASSUME NEW v \in Work, mine[t] = v, agent' = Responded(v) PROVE Once'
  <2>1. Lies(v, "turn", t) /\ "turn" \in Kinds
    BY <1>1, <1>6 DEF Lies, Kinds
  <2>2. \A k \in Kinds, i \in Nat : ~Lies(v, k, i)'
    BY <1>1, <1>3, <1>6, <2>1 DEF Once, OnePlace
  <2>3. OthersKept(v)
    BY <1>3 DEF OthersKept
  <2> QED BY <1>1, <1>6, <2>1, <2>2, <2>3, OnceAnswered
<1> QED BY <1>1, <1>4, <1>5, <1>6 DEF TurnApprove

LEMMA OnceTurn ==
    ASSUME Inv, Once, NEW t \in Turns, TurnStep(t)
    PROVE  Once'
<1>1. /\ pc \in [Procs -> TurnPcs] /\ mine \in [Procs -> Work \cup {Nil}] /\ t \in Procs
      /\ st \in StateType /\ cs \in ChanType /\ agent \in AgentType /\ rd \in [Turns -> ReaderType]
  BY Names DEF Inv, Types
<1>2. CASE TurnEvent(t)
  BY <1>2, OnceTurnEvent
<1>3. CASE TurnApprove(t)
  BY <1>3, OnceTurnApprove
<1>4. CASE TurnPend(t)
  BY <1>4, OnceTurnPend
<1>5. CASE TurnDrain(t)
  <2>1. UNCHANGED <<st, agent, rd, denying, hand, mine>> /\ cs'.line = cs.line /\ cs'.chan \in {cs.chan, <<>>}
    BY <1>1, <1>5 DEF TurnDrain, ChanType
  <2>2. \A u \in Turns : pc'[u] = "ask" => pc[u] = "ask"
    BY <1>1, <1>5, Names DEF TurnDrain, Goto
  <2>3. ASSUME NEW w \in Work, NEW k \in Kinds, NEW i \in Nat, Lies(w, k, i)' PROVE Lies(w, k, i)
    <3>1. CASE k = "chan"
      <4>1. Len(<<>>) = 0
        OBVIOUS
      <4>2. cs'.chan = cs.chan
        BY <2>1, <2>3, <3>1, <4>1 DEF Lies
      <4> QED BY <2>3, <3>1, <4>2 DEF Lies
    <3>2. CASE k # "chan"
      BY <2>1, <2>2, <2>3, <3>2 DEF Lies
    <3> QED BY <3>1, <3>2
  <2> QED BY <2>1, <2>3, OnceLess
<1>6. CASE TurnSend(t)
  <2>1. agent'.answers = agent.answers /\ agent'.asked = agent.asked
    BY <1>1, <1>6 DEF TurnSend, AgentType
  <2>2. \A u \in Turns : pc'[u] = "ask" => pc[u] = "ask"
    BY <1>1, <1>6, Names DEF TurnSend, Goto
  <2> QED BY <1>6, <2>1, <2>2, OnceKept DEF TurnSend, SamePlaces
<1>7. CASE TurnRegister(t)
  <2>1. \A u \in Turns : pc'[u] = "ask" => pc[u] = "ask"
    BY <1>1, <1>7, Names DEF TurnRegister, EndTurn, Goto
  <2>2. \A u \in Turns : rd'[u].held = rd[u].held
    <3>1. rd' = [rd EXCEPT ![t] = [rd[t] EXCEPT !.pc = "run"]] /\ rd[t] \in ReaderType
      BY <1>1, <1>7 DEF TurnRegister
    <3>2. [rd[t] EXCEPT !.pc = "run"].held = rd[t].held
      BY <3>1 DEF ReaderType
    <3> QED BY <1>1, <3>1, <3>2
  <2>3. st'.pending = st.pending
    <3>1. st' = [st EXCEPT !.reader = t]
      BY <1>7 DEF TurnRegister
    <3> QED BY <1>1, <3>1 DEF StateType
  <2>4. UNCHANGED <<agent, cs, mine, denying, hand>>
    BY <1>7 DEF TurnRegister
  <2> QED BY <2>1, <2>2, <2>3, <2>4, OnceKept DEF SamePlaces
<1>8. CASE TurnStopped(t) \/ TurnGone(t) \/ TurnResolved(t) \/ TurnUnlock(t) \/ TurnAfter(t) \/ TurnCapture(t)
  <2>1. \E l \in {"unlock", "detach", "loop", "after", "stopreader", "register", "done"} : pc' = [pc EXCEPT ![t] = l]
    BY <1>8 DEF TurnStopped, TurnGone, TurnResolved, TurnUnlock, TurnAfter, TurnCapture, CallStopReader, EndTurn, Goto
  <2>2. \A u \in Turns : pc'[u] = "ask" => pc[u] = "ask"
    BY <1>1, <2>1, Names
  <2>3. \A u \in Turns : mine'[u] \in {mine[u], Nil}
    BY <1>1, <1>8, Names DEF TurnStopped, TurnGone, TurnResolved, TurnUnlock, TurnAfter, TurnCapture
  <2>4. st'.pending = st.pending
    BY <1>1, <1>8 DEF TurnStopped, TurnGone, TurnResolved, TurnUnlock, TurnAfter, TurnCapture, StateType
  <2>5. UNCHANGED <<agent, cs, rd, denying, hand>>
    BY <1>8 DEF TurnStopped, TurnGone, TurnResolved, TurnUnlock, TurnAfter, TurnCapture
  <2> QED BY <2>2, <2>3, <2>4, <2>5, OnceKept DEF SamePlaces
<1> QED BY <1>2, <1>3, <1>4, <1>5, <1>6, <1>7, <1>8 DEF TurnStep

(* The steps of a background reader, and of the goroutine that answers for *)
(* it.                                                                     *)

LEMMA OnceReaderRead ==
    ASSUME Inv, Once, NEW t \in Turns, ReaderRead(t)
    PROVE  Once'
<1>1. Types /\ t \in Nat /\ "reader" \in Kinds \ {"chan"}
  BY Names DEF Inv, Kinds
<1>2. cs.chan # <<>> /\ cs' = [cs EXCEPT !.chan = Tail(@)]
  BY DEF ReaderRead
<1>3. UNCHANGED <<st, agent, pc, mine, denying, hand>> /\ cs'.line = cs.line
  BY <1>1, <1>2, ChannelPlaces DEF ReaderRead
<1>4. rd'[t].held = Head(cs.chan) /\ \A u \in Turns \ {t} : rd'[u] = rd[u]
  <2>1. rd' = [rd EXCEPT ![t].pc = "hold", ![t].held = Head(cs.chan)]
    BY DEF ReaderRead
  <2>2. /\ rd'[t].pc = "hold" /\ rd'[t].held = Head(cs.chan) /\ rd'[t].active = rd[t].active
        /\ \A u \in Turns \ {t} : rd'[u] = rd[u]
    BY <1>1, <2>1, FieldsTook
  <2> QED BY <2>2
<1>5. ASSUME NEW w \in Work, NEW k \in Kinds \ {"chan"}, NEW i \in Nat, Lies(w, k, i)'
      PROVE  Lies(w, k, i) \/ (k = "reader" /\ i = t /\ Head(cs.chan) = Event("ask", w))
  BY <1>3, <1>4, <1>5 DEF Lies
<1> QED BY <1>1, <1>2, <1>3, <1>5, OncePopped

LEMMA OnceReaderAsked ==
    ASSUME Inv, Once, NEW t \in Turns, ReaderAsked(t)
    PROVE  Once'
<1>1. Types /\ t \in Nat /\ "reader" \in Kinds /\ "denying" \in Kinds
  BY Names DEF Inv, Kinds
<1>2. UNCHANGED <<st, agent, cs, pc, mine, hand>>
  BY DEF ReaderAsked
<1>3. rd'[t].held = Nil /\ \A u \in Turns \ {t} : rd'[u] = rd[u]
  <2>1. rd' = [rd EXCEPT ![t].pc = "run", ![t].held = Nil]
    BY DEF ReaderAsked
  <2>2. /\ rd'[t].pc = "run" /\ rd'[t].held = Nil /\ rd'[t].active = rd[t].active
        /\ \A u \in Turns \ {t} : rd'[u] = rd[u]
    BY <1>1, <2>1, FieldsTook
  <2> QED BY <2>2
<1>4. PICK v \in Work : rd[t].held = Event("ask", v) /\ denying' = denying \cup {<<v, t>>}
  <2>1. rd[t].held \in Events /\ rd[t].held.kind = "ask"
    BY DEF Inv, Types, HeldOK, ReaderType, ReaderAsked, At
  <2> QED BY <2>1, EventNames, AskNames DEF ReaderAsked
<1>5. ASSUME NEW w \in Work \ {v}, NEW k \in Kinds, NEW i \in Nat, Lies(w, k, i)'
      PROVE  Lies(w, k, i)
  BY <1>2, <1>3, <1>4, <1>5, AskNames DEF Lies
<1>6. Lies(v, "reader", t)
  BY <1>4 DEF Lies
<1>7. ASSUME NEW k \in Kinds, NEW i \in Nat, Lies(v, k, i)' PROVE k = "denying" /\ i = t
  <2>1. CASE k = "denying" /\ i # t
    <3>1. Lies(v, k, i)
      BY <1>4, <1>7, <2>1 DEF Lies
    <3> QED BY <1>1, <1>6, <2>1, <3>1 DEF Once, OnePlace
  <2>2. CASE k # "denying"
    <3>1. Lies(v, k, i) /\ ~(k = "reader" /\ i = t)
      BY <1>2, <1>3, <1>7, <2>2, AskNames DEF Lies
    <3> QED BY <1>1, <1>6, <3>1 DEF Once, OnePlace
  <2> QED BY <2>1, <2>2
<1>8. OnlyIn(v, "denying", t) /\ OthersKept(v)
  BY <1>5, <1>7 DEF OnlyIn, OthersKept
<1> QED BY <1>1, <1>2, <1>6, <1>8, OnceMoved

LEMMA OnceReader ==
    ASSUME Inv, Once, NEW t \in Turns, ReaderStep(t)
    PROVE  Once'
<1>1. CASE ReaderRead(t)
  BY <1>1, OnceReaderRead
<1>2. CASE ReaderAsked(t)
  BY <1>2, OnceReaderAsked
<1>3. CASE ReaderCancelled(t) \/ ReaderCheck(t) \/ ReaderResult(t) \/ ReaderFailed(t)
  <2>1. Types /\ st \in StateType
    BY DEF Inv, Types
  <2>2. \/ rd' = [rd EXCEPT ![t].pc = "end", ![t].held = Nil, ![t].active = FALSE]
        \/ rd' = [rd EXCEPT ![t].pc = "run", ![t].held = Nil, ![t].active = FALSE]
        \/ rd' = [rd EXCEPT ![t].pc = "act", ![t].active = TRUE]
    BY <1>3 DEF ReaderCancelled, ReaderCheck, ReaderResult, ReaderFailed, ReaderEnd
  <2>3. rd'[t].held \in {rd[t].held, Nil} /\ \A u \in Turns \ {t} : rd'[u] = rd[u]
    <3>1. CASE rd' = [rd EXCEPT ![t].pc = "end", ![t].held = Nil, ![t].active = FALSE]
      BY <2>1, <3>1, FieldsLeft
    <3>2. CASE rd' = [rd EXCEPT ![t].pc = "run", ![t].held = Nil, ![t].active = FALSE]
      BY <2>1, <3>2, FieldsLeft
    <3>3. CASE rd' = [rd EXCEPT ![t].pc = "act", ![t].active = TRUE]
      BY <2>1, <3>3, FieldsMarked
    <3> QED BY <2>2, <3>1, <3>2, <3>3
  <2>4. st'.pending = st.pending
    BY <1>3, <2>1 DEF ReaderCancelled, ReaderCheck, ReaderResult, ReaderFailed, StateType
  <2>5. UNCHANGED <<agent, cs, pc, mine, denying, hand>>
    BY <1>3 DEF ReaderCancelled, ReaderCheck, ReaderResult, ReaderFailed
  <2> QED BY <2>3, <2>4, <2>5, OnceKept DEF SamePlaces
<1> QED BY <1>1, <1>2, <1>3 DEF ReaderStep

LEMMA OnceRespond ==
    ASSUME Inv, Once, NEW v \in Work, NEW t \in Turns, RespondForReader(v, t)
    PROVE  Once'
<1>1. Types /\ t \in Nat /\ "denying" \in Kinds
  BY Names DEF Inv, Kinds
<1>2. UNCHANGED <<st, cs, pc, mine, rd, hand>> /\ denying' = denying \ {<<v, t>>} /\ <<v, t>> \in denying
  BY DEF RespondForReader
<1>3. ASSUME NEW w \in Work, NEW k \in Kinds, NEW i \in Nat, Lies(w, k, i)'
      PROVE  Lies(w, k, i) /\ ~(w = v /\ k = "denying" /\ i = t)
  BY <1>2, <1>3 DEF Lies
<1>4. Lies(v, "denying", t)
  BY <1>2 DEF Lies
<1>5. \A k \in Kinds, i \in Nat : ~Lies(v, k, i)'
  BY <1>1, <1>3, <1>4 DEF Once, OnePlace
<1>6. CASE agent' = agent
  BY <1>3, <1>6, OnceLess
<1>7. CASE agent' = Responded(v)
  <2>1. OthersKept(v)
    BY <1>3 DEF OthersKept
  <2> QED BY <1>1, <1>4, <1>5, <1>7, <2>1, OnceAnswered
<1> QED BY <1>6, <1>7 DEF RespondForReader

(* The steps of the agent and of its read loop. *)

LEMMA AppendPlaces ==
    ASSUME Types, NEW e \in Events, cs'.chan = Append(cs.chan, e)
    PROVE  \A w \in Work : \A i \in Nat :
             Lies(w, "chan", i)' => Lies(w, "chan", i) \/ (i = Len(cs.chan) + 1 /\ e = Event("ask", w))
<1>1. cs.chan \in Seq(Events)
  BY DEF Types, ChanType
<1>2. \A i \in 1..Len(cs'.chan) :
        \/ i \in 1..Len(cs.chan) /\ cs'.chan[i] = cs.chan[i]
        \/ i = Len(cs.chan) + 1 /\ cs'.chan[i] = e
  BY <1>1
<1> QED BY <1>2 DEF Lies

(* The agent asks for the first time. *)
LEMMA OnceAdded ==
    ASSUME Once, NEW v \in Work, v \notin agent.asked, NEW m \in Kinds, NEW q \in Nat,
           OnlyIn(v, m, q), OthersKept(v),
           agent'.answers = agent.answers, agent'.asked = agent.asked \cup {v}
    PROVE  Once'
  BY DEF Once, OnePlace, OpenOK, OnlyIn, OthersKept

LEMMA OnceAgentAsk ==
    ASSUME Inv, Once, NEW v \in Work, AgentAsk(v)
    PROVE  Once'
<1>1. Types /\ cs \in ChanType /\ cs.chan \in Seq(Events) /\ agent \in AgentType
  BY DEF Inv, Types, ChanType
<1>2. UNCHANGED <<st, pc, mine, rd, denying, hand>> /\ v \notin agent.asked /\ cs.line = Nil
  BY DEF AgentAsk, Emit
<1>3. agent'.answers = agent.answers /\ agent'.asked = agent.asked \cup {v}
  BY <1>1 DEF AgentAsk, AgentType
<1>4. Event("ask", v) \in Events /\ 0 \in Nat /\ "chan" \in Kinds /\ "line" \in Kinds
  BY EventNames DEF Kinds
<1>7. \A k \in Kinds, i \in Nat : ~Lies(v, k, i)
  BY <1>2 DEF Once, OpenOK
<1> PICK n \in Nat : n = Len(cs.chan) + 1
  BY <1>1
<1>5. CASE cs'.chan = Append(cs.chan, Event("ask", v)) /\ cs'.line = cs.line
  <2>1. ASSUME NEW w \in Work, NEW k \in Kinds, NEW i \in Nat, Lies(w, k, i)'
        PROVE  Lies(w, k, i) \/ (k = "chan" /\ i = n /\ w = v)
    <3>1. CASE k = "chan"
      BY <1>1, <1>4, <1>5, <2>1, <3>1, AppendPlaces, AskNames
    <3>2. CASE k # "chan"
      BY <1>2, <1>5, <2>1, <3>2 DEF Lies
    <3> QED BY <3>1, <3>2
  <2>2. OnlyIn(v, "chan", n) /\ OthersKept(v)
    BY <1>7, <2>1 DEF OnlyIn, OthersKept
  <2> QED BY <1>2, <1>3, <1>4, <2>2, OnceAdded
<1>6. CASE cs'.chan = cs.chan /\ cs'.line = Event("ask", v)
  <2>1. ASSUME NEW w \in Work, NEW k \in Kinds, NEW i \in Nat, Lies(w, k, i)'
        PROVE  Lies(w, k, i) \/ (k = "line" /\ i = 0 /\ w = v)
    BY <1>2, <1>6, <2>1, AskNames DEF Lies
  <2>2. OnlyIn(v, "line", 0) /\ OthersKept(v)
    BY <1>7, <2>1 DEF OnlyIn, OthersKept
  <2> QED BY <1>2, <1>3, <1>4, <2>2, OnceAdded
<1> QED BY <1>1, <1>5, <1>6 DEF AgentAsk, Emit, ChanType

LEMMA OnceNews ==
    ASSUME Types, Once, NEW e \in Events, \A w \in Work : e # Event("ask", w),
           \/ cs'.chan = Append(cs.chan, e) /\ cs'.line \in {cs.line, Nil}
           \/ cs'.chan = cs.chan /\ cs'.line \in {cs.line, Nil, e},
           UNCHANGED <<st, pc, mine, rd, denying, hand>>,
           agent'.answers = agent.answers, agent'.asked = agent.asked
    PROVE  Once'
<1>1. ASSUME NEW w \in Work, NEW k \in Kinds, NEW i \in Nat, Lies(w, k, i)' PROVE Lies(w, k, i)
  <2>1. e # Event("ask", w) /\ Event("ask", w) # Nil
    BY AskNames
  <2>2. CASE k = "chan" /\ cs'.chan = Append(cs.chan, e)
    BY <1>1, <2>1, <2>2, AppendPlaces
  <2>3. CASE k = "chan" /\ cs'.chan = cs.chan
    BY <1>1, <2>3 DEF Lies
  <2>4. CASE k # "chan"
    BY <1>1, <2>1, <2>4 DEF Lies
  <2> QED BY <2>2, <2>3, <2>4
<1> QED BY <1>1, OnceLess

LEMMA OnceForward ==
    ASSUME Inv, Once, Forward
    PROVE  Once'
<1>1. Types /\ cs \in ChanType /\ cs.chan \in Seq(Events) /\ cs.line \in Events
  BY DEF Inv, Types, ChanType, Forward
<1>2. UNCHANGED <<st, pc, mine, rd, denying, hand, agent>>
  BY DEF Forward, session
<1>3. CASE \A w \in Work : cs.line # Event("ask", w)
  <2>1. \/ cs'.chan = Append(cs.chan, cs.line) /\ cs'.line = Nil
        \/ cs'.chan = cs.chan /\ cs'.line = Nil
    BY <1>1 DEF Forward, ChanType
  <2> QED BY <1>1, <1>2, <1>3, <2>1, OnceNews
<1>4. ASSUME NEW v \in Work, cs.line = Event("ask", v) PROVE Once'
  <2>1. CASE cs'.chan = cs.chan /\ cs'.line = Nil
    BY <1>2, <2>1, OnceKept DEF SamePlaces
  <2>2. CASE cs'.chan = Append(cs.chan, Event("ask", v)) /\ cs'.line = Nil
    <3> PICK n \in Nat : n = Len(cs.chan) + 1
      BY <1>1
    <3>1. Lies(v, "line", 0) /\ "line" \in Kinds /\ "chan" \in Kinds /\ 0 \in Nat
      BY <1>1, <1>4 DEF Lies, Kinds
    <3>2. ASSUME NEW w \in Work, NEW k \in Kinds, NEW i \in Nat, Lies(w, k, i)'
          PROVE  (Lies(w, k, i) /\ k # "line") \/ (k = "chan" /\ i = n /\ w = v)
      <4>1. CASE k = "chan"
        BY <1>1, <1>4, <2>2, <3>2, <4>1, AppendPlaces, AskNames
      <4>2. CASE k # "chan"
        BY <1>2, <2>2, <3>2, <4>2, AskNames DEF Lies
      <4> QED BY <4>1, <4>2
    <3>3. ASSUME NEW k \in Kinds, NEW i \in Nat, Lies(v, k, i)' PROVE k = "chan" /\ i = n
      BY <3>1, <3>2, <3>3 DEF Once, OnePlace
    <3>4. OnlyIn(v, "chan", n) /\ OthersKept(v)
      BY <3>2, <3>3 DEF OnlyIn, OthersKept
    <3> QED BY <1>2, <3>1, <3>4, OnceMoved
  <2> QED BY <1>1, <1>4, <2>1, <2>2 DEF Forward, ChanType
<1> QED BY <1>3, <1>4

LEMMA OnceAgent ==
    ASSUME Inv, Once, AgentStep \/ SessionStep
    PROVE  Once'
<1>1. Types /\ cs \in ChanType /\ agent \in AgentType
  BY DEF Inv, Types
<1>2. ASSUME NEW w \in Work, AgentAsk(w) PROVE Once'
  BY <1>2, OnceAgentAsk
<1>3. ASSUME NEW w \in Work, AgentResult(w) PROVE Once'
  <2>1. agent'.answers = agent.answers /\ agent'.asked = agent.asked
    BY <1>1, <1>3 DEF AgentResult, AgentType
  <2>2. /\ Event("result", w) \in Events
        /\ \A v \in Work : Event("result", w) # Event("ask", v)
    BY EventNames, AskNames
  <2>3. \/ cs'.chan = Append(cs.chan, Event("result", w)) /\ cs'.line = cs.line
        \/ cs'.chan = cs.chan /\ cs'.line = Event("result", w)
    BY <1>1, <1>3 DEF AgentResult, Emit, ChanType
  <2>4. UNCHANGED <<st, pc, mine, rd, denying, hand>>
    BY <1>3 DEF AgentResult
  <2> QED BY <1>1, <2>1, <2>2, <2>3, <2>4, OnceNews
<1>4. CASE AgentExit
  BY <1>1, <1>4, OnceKept DEF AgentExit, AgentType, SamePlaces
<1>5. CASE Forward
  BY <1>5, OnceForward
<1>6. CASE Report
  <2>1. /\ Event("error", Nil) \in Events
        /\ \A v \in Work : Event("error", Nil) # Event("ask", v)
    BY EventNames, AskNames
  <2>2. \/ cs'.chan = Append(cs.chan, Event("error", Nil)) /\ cs'.line = cs.line
        \/ cs'.chan = cs.chan /\ cs'.line = cs.line
    BY <1>1, <1>6 DEF Report, ChanType
  <2>3. UNCHANGED <<st, pc, mine, rd, denying, hand, agent>>
    BY <1>6 DEF Report, session
  <2> QED BY <1>1, <2>1, <2>2, <2>3, OnceNews
<1>7. ASSUME Escalate \/ \E failed \in BOOLEAN : ReadEnd(failed) PROVE Once'
  <2>1. cs'.chan = cs.chan /\ cs'.line = cs.line
    BY <1>1, <1>7 DEF Escalate, ReadEnd, ChanType
  <2>2. UNCHANGED <<st, pc, mine, rd, denying, hand, agent>>
    BY <1>7 DEF Escalate, ReadEnd, session
  <2> QED BY <2>1, <2>2, OnceKept DEF SamePlaces
<1> QED BY <1>2, <1>3, <1>4, <1>5, <1>6, <1>7 DEF AgentStep, SessionStep

(* The user's answer and requests. *)

LEMMA OnceAnswer ==
    ASSUME Inv, Once, NEW all \in BOOLEAN, Answer(all)
    PROVE  Once'
<1>1. Types /\ st \in StateType /\ 0 \in Nat /\ "user" \in Kinds /\ hand # Nil
  BY DEF Inv, Types, Kinds, Answer
<1>2. PICK v \in Work : v = hand
  BY <1>1 DEF Types
<1>3. UNCHANGED <<cs, pc, mine, rd, denying>>
  BY DEF Answer
<1>4. CASE agent' = agent
  <2>1. st'.pending \in {st.pending, Nil} /\ hand' \in {hand, Nil}
    BY <1>1 DEF Answer, StateType
  <2> QED BY <1>3, <1>4, <2>1, OnceKept DEF SamePlaces
<1>5. CASE agent' = Responded(v) /\ hand' = Nil /\ st' = [st EXCEPT !.approveAll = @ \/ all, !.pending = Nil]
  <2>1. st'.pending = Nil
    BY <1>1, <1>5 DEF StateType
  <2>2. ASSUME NEW w \in Work, NEW k \in Kinds, NEW i \in Nat, Lies(w, k, i)'
        PROVE  Lies(w, k, i) /\ k # "user"
    BY <1>3, <1>5, <2>1, <2>2, Names DEF Lies
  <2>3. Lies(v, "user", 0)
    BY <1>2 DEF Lies
  <2>4. \A k \in Kinds, i \in Nat : ~Lies(v, k, i)'
    BY <1>1, <2>2, <2>3 DEF Once, OnePlace
  <2>5. OthersKept(v)
    BY <2>2 DEF OthersKept
  <2> QED BY <1>1, <1>5, <2>3, <2>4, <2>5, OnceAnswered
<1> QED BY <1>2, <1>4, <1>5 DEF Answer

LEMMA OnceOutside ==
    ASSUME Inv, Once, Requests \/ UserAnswer \/ Respond
    PROVE  Once'
<1>1. pc \in [Procs -> TurnPcs]
  BY DEF Inv, Types
<1>2. ASSUME NEW t \in Turns, TurnStart(t) PROVE Once'
  <2>1. \A u \in Turns : pc'[u] = "ask" => pc[u] = "ask"
    BY <1>1, <1>2, Names DEF TurnStart, CallStopReader, Goto
  <2> QED BY <1>2, <2>1, OnceKept DEF TurnStart, SamePlaces
<1>3. ASSUME NEW c \in Commands, StopStart(c) \/ ResetStart(c) PROVE Once'
  <2>1. \A u \in Turns : pc'[u] = pc[u]
    BY <1>1, <1>3, Names DEF StopStart, ResetStart, CallStopReader, Goto
  <2>2. UNCHANGED <<st, agent, cs, mine, rd, denying, hand>>
    BY <1>3 DEF StopStart, ResetStart
  <2> QED BY <2>1, <2>2, OnceKept DEF SamePlaces
<1>4. CASE AnswerLook
  BY <1>4, OnceKept DEF AnswerLook, SamePlaces
<1>5. CASE UserAnswer
  BY <1>5, OnceAnswer DEF UserAnswer
<1>6. CASE Respond
  BY <1>6, OnceRespond DEF Respond
<1> QED BY <1>2, <1>3, <1>4, <1>5, <1>6 DEF Requests

LEMMA OnceStep == Inv /\ Once /\ [Next]_vars => Once'
<1> SUFFICES ASSUME Inv, Once, [Next]_vars PROVE Once'
  OBVIOUS
<1>1. CASE AgentStep \/ SessionStep
  BY <1>1, OnceAgent
<1>2. CASE Requests \/ UserAnswer \/ Respond
  BY <1>2, OnceOutside
<1>3. ASSUME NEW p \in Procs, ProcStep(p) PROVE Once'
  BY <1>3, OnceStopReader, OnceTurn, OnceStop, OnceCleanup DEF ProcStep
<1>4. ASSUME NEW t \in Turns, ReaderStep(t) PROVE Once'
  BY <1>4, OnceReader
<1>5. CASE UNCHANGED vars
  BY <1>5, OnceKept DEF vars, SamePlaces
<1> QED BY <1>1, <1>2, <1>3, <1>4, <1>5 DEF Next

(* A permission request is answered at most once, whoever takes it: the    *)
(* user, "approve all", the responder of a background reader, or the stop  *)
(* and the cleanup that release it unanswered.                             *)
THEOREM AnsweredOnceCorrect == Spec => []AnsweredOnce
<1>1. Init => Inv /\ Once
  BY TypesInit, OnceInit
<1>2. Inv /\ Once /\ [Next]_vars => (Inv /\ Once)'
  BY InvStep, OnceStep
<1>3. Inv /\ Once => AnsweredOnce
  BY DEF Once, OpenOK, AnsweredOnce
<1> QED BY <1>1, <1>2, <1>3, PTL DEF Spec

=============================================================================
