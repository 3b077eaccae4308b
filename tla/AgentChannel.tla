---------------------------- MODULE AgentChannel ----------------------------
(***************************************************************************)
(* One Claude Code process, the event channel its read loop fills, and     *)
(* everything in core/engine.go that reads from that channel: the event    *)
(* loop of a turn, the background ("unsolicited") reader between turns and *)
(* its hand-over, permission requests, and the commands that tear the      *)
(* state down while the others wait.                                       *)
(*                                                                         *)
(* It is the life of one interactiveState with one agent session: a turn   *)
(* that finds it stopped, detached or dead starts another one, which is    *)
(* TurnQueue's subject, as is the queue of messages.  Text and tool events *)
(* are left out: a reader that takes one and goes on does nothing here.    *)
(***************************************************************************)
EXTENDS Naturals, Sequences, FiniteSets

CONSTANTS
    Turns,      \* the turns run on this agent, numbered, and the readers they start
    Jobs,       \* background tasks on which the agent works unasked
    Commands,   \* runs of /stop and of the commands that clean up (/new, /switch, ...)
    Askers,     \* the pieces of work for which the agent may ask a permission
    Faults,     \* what may go wrong, a subset of FaultKinds
    ChanCap,    \* capacity of the event channel (64 in the code)
    Nil         \* no event, no reader, no request

FaultKinds == {"die", "idle", "slowreader"}
Work  == Turns \cup Jobs        \* what the agent works on
Procs == Turns \cup Commands

ASSUME ChannelConstantsOK ==
    /\ Turns \cap Jobs = {} /\ Turns \cap Commands = {} /\ Jobs \cap Commands = {}
    /\ Askers \subseteq Work /\ Faults \subseteq FaultKinds
    /\ Turns \subseteq Nat /\ ChanCap \in Nat \ {0}

VARIABLES
    st,        \* the interactiveState
    busy,      \* Session.busy
    pool,      \* activeTurns of the workspace
    cs,        \* the claudeSession: read loop, channel, Close
    agent,     \* the agent process
    pc, back,  \* where each goroutine stands, and where stopUnsolicitedReader returns to
    mine,      \* what it holds: a reader it waits for, or a request
    closers,   \* those that have taken the agent session, to close it
    rd,        \* the background readers, named by the turn that started them
    denying,   \* detached goroutines that answer a request for a reader
    hand,      \* the request the message handler is answering
    resolved,  \* requests whose Resolved channel is closed
    crashed    \* a nil dereference has ended the program

vars == <<st, busy, pool, cs, agent, pc, back, mine, closers, rd, denying, hand, resolved, crashed>>

Event(k, w) == [kind |-> k, job |-> w]
Events == [kind : {"ask", "result"}, job : Work] \cup {Event("error", Nil)}

ASSUME NilIsNothing == Nil \notin Work /\ Nil \notin Events

NoReader == [pc |-> "none", held |-> Nil, cancelled |-> FALSE, active |-> FALSE]

(* An earlier turn has ended in an error that the agent survived, so that   *)
(* there is no reader; in it the user may have approved everything.         *)
Init ==
    /\ \E approved \in BOOLEAN :
         st = [mapped |-> TRUE, attached |-> TRUE, stopped |-> FALSE, resync |-> TRUE,
               reader |-> Nil, pending |-> Nil, approveAll |-> approved]
    /\ busy = FALSE
    /\ pool = 0
    /\ cs = [chan |-> <<>>, line |-> Nil, loop |-> "scan", alive |-> TRUE, shut |-> "no"]
    /\ agent = [up |-> TRUE, doing |-> Nil, inbox |-> <<>>, done |-> {}, asked |-> {},
                answers |-> [w \in Work |-> 0]]
    /\ pc = [p \in Procs |-> "idle"]
    /\ back = [p \in Procs |-> "done"]
    /\ mine = [p \in Procs |-> Nil]
    /\ closers = {}
    /\ rd = [t \in Turns |-> NoReader]
    /\ denying = {}
    /\ hand = Nil
    /\ resolved = {}
    /\ crashed = FALSE

-----------------------------------------------------------------------------
On(p, l)   == ~crashed /\ pc[p] = l
Goto(p, l) == pc' = [pc EXCEPT ![p] = l]
Crash      == crashed' = TRUE

(* /stop holds interactiveMu while it waits for the reader. *)
MapFree == \A s \in Commands : ~(pc[s] \in {"stopreader", "awaitreader"} /\ back[s] = "take")
                                 /\ pc[s] \notin {"take", "unmap"}

(* WeChat calls one handler at a time; answers and commands run in it. *)
HandlerFree == hand = Nil /\ \A p \in Commands : pc[p] \in {"idle", "done"}

(* RespondPermission: a line on the agent's stdin. *)
Responded(w) == IF cs.alive /\ cs.shut = "no" /\ agent.up
                THEN [agent EXCEPT !.answers[w] = @ + 1] ELSE agent

-----------------------------------------------------------------------------
(***************************************************************************)
(* The agent process.  It works through the prompts on its stdin, or on a  *)
(* task that an earlier prompt has left behind; it may ask for one         *)
(* permission per piece of work, and then waits for the answer; it ends    *)
(* each with a result.                                                     *)
(***************************************************************************)
WorksOn(w) ==
    \/ agent.doing = w
    \/ agent.doing = Nil /\ agent.inbox # <<>> /\ w = Head(agent.inbox)
    \/ agent.doing = Nil /\ w \in Jobs \ agent.done /\ agent.done \cap Turns # {}
Unread(w) == IF agent.inbox # <<>> /\ w = Head(agent.inbox) THEN Tail(agent.inbox) ELSE agent.inbox

(* A line on stdout, when the read loop has done with the last one: it goes *)
(* into the channel, or the read loop waits with it for room.               *)
Room == Len(cs.chan) < ChanCap
Emit(e) ==
    /\ cs.loop = "scan" /\ cs.line = Nil
    /\ cs' = IF Room THEN [cs EXCEPT !.chan = Append(@, e)] ELSE [cs EXCEPT !.line = e]

AgentAsk(w) ==
    /\ ~crashed /\ agent.up /\ WorksOn(w) /\ w \in Askers \ agent.asked
    /\ Emit(Event("ask", w))
    /\ agent' = [agent EXCEPT !.doing = w, !.inbox = Unread(w), !.asked = @ \cup {w}]
    /\ UNCHANGED <<st, busy, pool, pc, back, mine, closers, rd, denying, hand, resolved, crashed>>

AgentResult(w) ==
    /\ ~crashed /\ agent.up /\ WorksOn(w)
    /\ w \in agent.asked => agent.answers[w] > 0
    /\ Emit(Event("result", w))
    /\ agent' = [agent EXCEPT !.doing = Nil, !.inbox = Unread(w), !.done = @ \cup {w}]
    /\ UNCHANGED <<st, busy, pool, pc, back, mine, closers, rd, denying, hand, resolved, crashed>>

(* It exits when its stdin is closed, unless it hangs, or by a fault, or   *)
(* is killed.                                                              *)
AgentExit ==
    /\ ~crashed /\ agent.up
    /\ cs.shut # "no" \/ "die" \in Faults
    /\ agent' = [agent EXCEPT !.up = FALSE]
    /\ UNCHANGED <<st, busy, pool, cs, pc, back, mine, closers, rd, denying, hand, resolved, crashed>>

-----------------------------------------------------------------------------
(***************************************************************************)
(* claudeSession: the read loop and Close.                                 *)
(***************************************************************************)
session == <<st, busy, pool, agent, pc, back, mine, closers, rd, denying, hand, resolved, crashed>>
Cancelled == cs.shut = "kill"            \* cs.ctx.Done()

Forward ==
    /\ ~crashed /\ cs.loop = "scan" /\ cs.line # Nil
    /\ \/ Room /\ cs' = [cs EXCEPT !.line = Nil, !.chan = Append(@, cs.line)]
       \/ Cancelled /\ cs' = [cs EXCEPT !.line = Nil]
    /\ UNCHANGED session

(* finishReadLoop: cmd.Wait has returned. *)
ReadEnd(failed) ==
    /\ ~crashed /\ cs.loop = "scan" /\ cs.line = Nil /\ ~agent.up
    /\ cs' = [cs EXCEPT !.alive = FALSE, !.loop = IF failed THEN "report" ELSE "closed"]
    /\ UNCHANGED session

ReportBlocks ==                                     \* mutant: no ctx.Done in the select
    /\ ~crashed /\ cs.loop = "report"
    /\ Room /\ cs' = [cs EXCEPT !.loop = "closed", !.chan = Append(@, Event("error", Nil))]
    /\ UNCHANGED session
Report ==
    /\ ~crashed /\ cs.loop = "report"
    /\ \/ Room /\ cs' = [cs EXCEPT !.loop = "closed", !.chan = Append(@, Event("error", Nil))]
       \/ Cancelled /\ cs' = [cs EXCEPT !.loop = "closed"]
    /\ UNCHANGED session

(* Close: close stdin (and SIGTERM), then cancel and SIGKILL, each after a *)
(* timeout, until the read loop is done.                                   *)
StartClose == cs' = [cs EXCEPT !.shut = IF @ = "no" THEN "eof" ELSE @]
Escalate ==
    /\ ~crashed /\ cs.loop # "closed"
    /\ cs.shut = "eof" /\ cs' = [cs EXCEPT !.shut = "kill"]
    /\ UNCHANGED session

-----------------------------------------------------------------------------
(***************************************************************************)
(* stopUnsolicitedReader, called by p, which goes on at back[p].           *)
(***************************************************************************)
Return(p) == Goto(p, back[p]) /\ back' = [back EXCEPT ![p] = "done"]
StopReader(p) ==
    /\ On(p, "stopreader")
    /\ st' = [st EXCEPT !.reader = Nil]
    /\ IF st.reader = Nil
       THEN Return(p) /\ UNCHANGED <<mine, rd>>
       ELSE /\ rd' = [rd EXCEPT ![st.reader].cancelled = TRUE]
            /\ mine' = [mine EXCEPT ![p] = st.reader]
            /\ Goto(p, "awaitreader") /\ back' = back
    /\ UNCHANGED <<busy, pool, cs, agent, closers, denying, hand, resolved, crashed>>

(* The reader has exited, or the wait is over and a resync is forced. *)
AwaitReader(p) ==
    /\ On(p, "awaitreader")
    /\ \/ rd[mine[p]].pc = "end" /\ st' = st
       \/ rd[mine[p]].pc # "end" /\ "slowreader" \in Faults
          /\ st' = [st EXCEPT !.resync = TRUE]
    /\ mine' = [mine EXCEPT ![p] = Nil]
    /\ Return(p)
    /\ UNCHANGED <<busy, pool, cs, agent, closers, rd, denying, hand, resolved, crashed>>

CallStopReader(p, l) == Goto(p, "stopreader") /\ back' = [back EXCEPT ![p] = l]

-----------------------------------------------------------------------------
(***************************************************************************)
(* A turn: processInteractiveMessageWith, processInteractiveEvents.        *)
(***************************************************************************)
TurnStart(t) ==
    /\ On(t, "idle") /\ \A u \in Turns : u < t => pc[u] # "idle"
    /\ ~busy /\ MapFree
    /\ st.mapped /\ st.attached /\ cs.alive
    /\ busy' = TRUE
    /\ pool' = pool + 1
    /\ CallStopReader(t, "drain")
    /\ UNCHANGED <<st, cs, agent, mine, closers, rd, denying, hand, resolved, crashed>>

(* Leftovers of a turn that ended abnormally are discarded. *)
TurnDrain(t) ==
    /\ On(t, "drain")
    /\ IF st.resync /\ ~st.attached THEN Crash /\ UNCHANGED <<cs, pc>>
       ELSE /\ cs' = IF st.resync THEN [cs EXCEPT !.chan = <<>>] ELSE cs
            /\ Goto(t, "send") /\ crashed' = crashed
    /\ UNCHANGED <<st, busy, pool, agent, back, mine, closers, rd, denying, hand, resolved>>

(* Send fails when the process is known to be dead. *)
TurnSend(t) ==
    /\ On(t, "send")
    /\ IF ~st.attached THEN Crash /\ UNCHANGED <<agent, pc>>
       ELSE /\ crashed' = crashed
            /\ Goto(t, IF cs.alive THEN "loop" ELSE "detach")
            /\ agent' = IF agent.up THEN [agent EXCEPT !.inbox = Append(@, t)] ELSE agent
    /\ UNCHANGED <<st, busy, pool, cs, back, mine, closers, rd, denying, hand, resolved>>

TurnStopped(t) ==
    /\ On(t, "loop") /\ st.stopped
    /\ Goto(t, "unlock")
    /\ UNCHANGED <<st, busy, pool, cs, agent, back, mine, closers, rd, denying, hand, resolved, crashed>>

(* The next event; a stop that has come first ends the turn. *)
TurnEvent(t) ==
    /\ On(t, "loop") /\ cs.chan # <<>>
    /\ LET e == Head(cs.chan) IN
       /\ st' = [st EXCEPT !.resync = st.stopped \/ (e.kind = "error") \/ (@ /\ e.kind = "ask")]
       /\ IF ~st.stopped /\ e.kind = "ask"
          THEN Goto(t, "ask") /\ mine' = [mine EXCEPT ![t] = e.job]
          ELSE Goto(t, "unlock") /\ mine' = mine
    /\ cs' = [cs EXCEPT !.chan = Tail(@)]
    /\ UNCHANGED <<busy, pool, agent, back, closers, rd, denying, hand, resolved, crashed>>

(* The channel is closed, or silent for too long: clean up. *)
TurnGone(t) ==
    /\ On(t, "loop")
    /\ (cs.loop = "closed" /\ cs.chan = <<>>) \/ "idle" \in Faults
    /\ st' = [st EXCEPT !.resync = TRUE]
    /\ Goto(t, "detach")
    /\ UNCHANGED <<busy, pool, cs, agent, back, mine, closers, rd, denying, hand, resolved, crashed>>

(* EventPermissionRequest: granted at once after "approve all", unless it  *)
(* is a question to the user; else the request becomes the pending one and *)
(* the turn waits for its Resolved.                                        *)
TurnApprove(t) ==
    /\ On(t, "ask") /\ st.approveAll
    /\ IF st.attached THEN agent' = Responded(mine[t]) /\ Goto(t, "loop") /\ crashed' = crashed
       ELSE Crash /\ UNCHANGED <<agent, pc>>
    /\ mine' = [mine EXCEPT ![t] = Nil]
    /\ UNCHANGED <<st, busy, pool, cs, back, closers, rd, denying, hand, resolved>>

TurnPend(t) ==
    /\ On(t, "ask")
    /\ st' = [st EXCEPT !.pending = mine[t]]
    /\ Goto(t, "wait")
    /\ UNCHANGED <<busy, pool, cs, agent, back, mine, closers, rd, denying, hand, resolved, crashed>>

TurnResolved(t) ==
    /\ On(t, "wait") /\ mine[t] \in resolved
    /\ Goto(t, "loop")
    /\ mine' = [mine EXCEPT ![t] = Nil]
    /\ UNCHANGED <<st, busy, pool, cs, agent, back, closers, rd, denying, hand, resolved, crashed>>

(* drainPendingMessages unlocks the Session; only then is the background   *)
(* reader started, if the turn has ended well.                             *)
TurnUnlock(t) ==
    /\ On(t, "unlock")
    /\ busy' = FALSE
    /\ Goto(t, "after")
    /\ UNCHANGED <<st, pool, cs, agent, back, mine, closers, rd, denying, hand, resolved, crashed>>

(* The code stops the count at 0; here one EndTurn too many breaks TypeOK. *)
EndTurn(t) == pool' = pool - 1 /\ Goto(t, "done")
TurnAfter(t) ==
    /\ On(t, "after")
    /\ IF st.attached /\ cs.alive /\ ~st.stopped /\ ~st.resync
       THEN CallStopReader(t, "capture") /\ pool' = pool
       ELSE EndTurn(t) /\ back' = back
    /\ UNCHANGED <<st, busy, cs, agent, mine, closers, rd, denying, hand, resolved, crashed>>

(* startUnsolicitedReader: the agent session is captured, then the reader  *)
(* is registered and started.                                              *)
TurnCapture(t) ==
    /\ On(t, "capture")
    /\ IF st.attached THEN Goto(t, "register") /\ pool' = pool ELSE EndTurn(t)
    /\ UNCHANGED <<st, busy, cs, agent, back, mine, closers, rd, denying, hand, resolved, crashed>>

TurnRegister(t) ==
    /\ On(t, "register")
    /\ st' = [st EXCEPT !.reader = t]
    /\ rd' = [rd EXCEPT ![t].pc = "run"]
    /\ EndTurn(t)
    /\ UNCHANGED <<busy, cs, agent, back, mine, closers, denying, hand, resolved, crashed>>

-----------------------------------------------------------------------------
(***************************************************************************)
(* runUnsolicitedReader, the reader started by turn t.  Every way out      *)
(* gives back the workspace turn of a task that has not ended.             *)
(***************************************************************************)
ReaderEndNoPool(t) ==                               \* mutant: no deferred EndTurn
    /\ rd' = [rd EXCEPT ![t].pc = "end", ![t].held = Nil, ![t].active = FALSE]
    /\ pool' = pool
ReaderEnd(t) ==
    /\ rd' = [rd EXCEPT ![t].pc = "end", ![t].held = Nil, ![t].active = FALSE]
    /\ pool' = IF rd[t].active THEN pool - 1 ELSE pool
At(t, l) == ~crashed /\ rd[t].pc = l

ReaderCancelled(t) ==
    /\ At(t, "run") /\ rd[t].cancelled
    /\ ReaderEnd(t)
    /\ UNCHANGED <<st, busy, cs, agent, pc, back, mine, closers, denying, hand, resolved, crashed>>

ReaderRead(t) ==
    /\ At(t, "run") /\ cs.chan # <<>>
    /\ rd' = [rd EXCEPT ![t].pc = "hold", ![t].held = Head(cs.chan)]
    /\ cs' = [cs EXCEPT !.chan = Tail(@)]
    /\ UNCHANGED <<st, busy, pool, agent, pc, back, mine, closers, denying, hand, resolved, crashed>>

(* An event read after the cancellation is dropped. *)
ReaderCheck(t) ==
    /\ At(t, "hold")
    /\ \/ rd[t].cancelled /\ ReaderEnd(t) /\ st' = [st EXCEPT !.resync = TRUE]
       \/ /\ ~rd[t].cancelled
          /\ rd' = [rd EXCEPT ![t].pc = "act", ![t].active = TRUE]
          /\ pool' = IF rd[t].active THEN pool ELSE pool + 1
          /\ st' = st
    /\ UNCHANGED <<busy, cs, agent, pc, back, mine, closers, denying, hand, resolved, crashed>>

ReaderResultKept(t) ==                              \* mutant: turnActive is not reset
    /\ At(t, "act") /\ rd[t].held.kind = "result"
    /\ rd' = [rd EXCEPT ![t].pc = "run", ![t].held = Nil]
    /\ pool' = pool - 1
    /\ st' = [st EXCEPT !.resync = FALSE]
    /\ UNCHANGED <<busy, cs, agent, pc, back, mine, closers, denying, hand, resolved, crashed>>
ReaderResult(t) ==
    /\ At(t, "act") /\ rd[t].held.kind = "result"
    /\ rd' = [rd EXCEPT ![t].pc = "run", ![t].held = Nil, ![t].active = FALSE]
    /\ pool' = pool - 1
    /\ st' = [st EXCEPT !.resync = FALSE]
    /\ UNCHANGED <<busy, cs, agent, pc, back, mine, closers, denying, hand, resolved, crashed>>

(* Granted after "approve all", denied otherwise: in a detached goroutine. *)
ReaderAsked(t) ==
    /\ At(t, "act") /\ rd[t].held.kind = "ask"
    /\ denying' = denying \cup {<<rd[t].held.job, t>>}
    /\ rd' = [rd EXCEPT ![t].pc = "run", ![t].held = Nil]
    /\ UNCHANGED <<st, busy, pool, cs, agent, pc, back, mine, closers, hand, resolved, crashed>>

RespondForReader(w, t) ==
    /\ ~crashed /\ <<w, t>> \in denying
    /\ denying' = denying \ {<<w, t>>}
    /\ agent' = IF rd[t].cancelled THEN agent ELSE Responded(w)
    /\ UNCHANGED <<st, busy, pool, cs, pc, back, mine, closers, rd, hand, resolved, crashed>>

ReaderFailed(t) ==
    /\ \/ At(t, "act") /\ rd[t].held.kind = "error"
       \/ At(t, "run") /\ cs.loop = "closed" /\ cs.chan = <<>>
    /\ ReaderEnd(t)
    /\ st' = [st EXCEPT !.resync = TRUE]
    /\ UNCHANGED <<busy, cs, agent, pc, back, mine, closers, denying, hand, resolved, crashed>>

-----------------------------------------------------------------------------
(***************************************************************************)
(* The user's answer, /stop, and the cleanup of the state.                 *)
(***************************************************************************)
(* handlePendingPermission reads state.pending under the lock ...          *)
AnswerLook ==
    /\ ~crashed /\ HandlerFree /\ MapFree
    /\ st.mapped /\ st.pending # Nil
    /\ hand' = st.pending
    /\ UNCHANGED <<st, busy, pool, cs, agent, pc, back, mine, closers, rd, denying, resolved, crashed>>

(* ... and answers without it.  A text that is no answer leaves all alone. *)
AnswerKept(all) ==                                  \* mutant: pending is not cleared
    /\ ~crashed /\ hand # Nil
    /\ IF ~st.attached THEN Crash /\ UNCHANGED <<st, agent, hand, resolved>>
       ELSE /\ crashed' = crashed /\ hand' = Nil
            /\ \/ UNCHANGED <<st, agent, resolved>>
               \/ /\ agent' = Responded(hand)
                  /\ st' = [st EXCEPT !.approveAll = @ \/ all]
                  /\ resolved' = resolved \cup {hand}
    /\ UNCHANGED <<busy, pool, cs, pc, back, mine, closers, rd, denying>>
Answer(all) ==
    /\ ~crashed /\ hand # Nil
    /\ IF ~st.attached THEN Crash /\ UNCHANGED <<st, agent, hand, resolved>>
       ELSE /\ crashed' = crashed /\ hand' = Nil
            /\ \/ UNCHANGED <<st, agent, resolved>>
               \/ /\ agent' = Responded(hand)
                  /\ st' = [st EXCEPT !.approveAll = @ \/ all, !.pending = Nil]
                  /\ resolved' = resolved \cup {hand}
    /\ UNCHANGED <<busy, pool, cs, pc, back, mine, closers, rd, denying>>

StopStart(s) ==
    /\ On(s, "idle") /\ HandlerFree /\ MapFree
    /\ IF st.mapped THEN CallStopReader(s, "take") ELSE Goto(s, "done") /\ back' = back
    /\ UNCHANGED <<st, busy, pool, cs, agent, mine, closers, rd, denying, hand, resolved, crashed>>

(* The pending request leaves the state before it is marked as stopped.    *)
Take(p) == st' = [st EXCEPT !.pending = Nil] /\ mine' = [mine EXCEPT ![p] = st.pending]
StopTake(s) ==
    /\ On(s, "take")
    /\ Take(s)
    /\ closers' = IF st.attached THEN closers \cup {s} ELSE closers
    /\ Goto(s, "unmap")
    /\ UNCHANGED <<busy, pool, cs, agent, back, rd, denying, hand, resolved, crashed>>

StopMark(s) ==
    /\ On(s, "unmap")
    /\ st' = [st EXCEPT !.stopped = TRUE, !.mapped = FALSE]
    /\ resolved' = resolved \cup ({mine[s]} \ {Nil})
    /\ mine' = [mine EXCEPT ![s] = Nil]
    /\ Goto(s, "close")
    /\ UNCHANGED <<busy, pool, cs, agent, back, closers, rd, denying, hand, crashed>>

(* closeAgentSessionAsync *)
StopClose(s) ==
    /\ On(s, "close")
    /\ IF s \in closers THEN StartClose ELSE cs' = cs
    /\ closers' = closers \ {s}
    /\ Goto(s, "done")
    /\ UNCHANGED <<st, busy, pool, agent, back, mine, rd, denying, hand, resolved, crashed>>

(* cleanupInteractiveState: by a turn, for its own state only, or by a     *)
(* command, whatever the map holds.                                        *)
ResetStart(n) ==
    /\ On(n, "idle") /\ HandlerFree
    /\ Goto(n, "detach")
    /\ UNCHANGED <<st, busy, pool, cs, agent, back, mine, closers, rd, denying, hand, resolved, crashed>>

Cleaned(p) == Goto(p, IF p \in Turns THEN "unlock" ELSE "done")
Detach(p) ==
    /\ On(p, "detach") /\ MapFree
    /\ IF st.mapped
       THEN /\ st' = [st EXCEPT !.attached = FALSE]
            /\ closers' = IF st.attached THEN closers \cup {p} ELSE closers
            /\ CallStopReader(p, "mark")
       ELSE Cleaned(p) /\ UNCHANGED <<st, closers, back>>
    /\ UNCHANGED <<busy, pool, cs, agent, mine, rd, denying, hand, resolved, crashed>>

CleanupMark(p) ==
    /\ On(p, "mark")
    /\ st' = [st EXCEPT !.stopped = TRUE]
    /\ Goto(p, "wake")
    /\ UNCHANGED <<busy, pool, cs, agent, back, mine, closers, rd, denying, hand, resolved, crashed>>

Wake(p) ==
    /\ On(p, "wake")
    /\ st' = [st EXCEPT !.pending = Nil]
    /\ resolved' = resolved \cup ({st.pending} \ {Nil})
    /\ IF p \in closers THEN StartClose /\ Goto(p, "closing")
                        ELSE cs' = cs /\ Goto(p, "remove")
    /\ UNCHANGED <<busy, pool, agent, back, mine, closers, rd, denying, hand, crashed>>

(* Close has returned, or has been given up after 130 s. *)
Closing(p) ==
    /\ On(p, "closing")
    /\ cs.loop = "closed" \/ cs.shut = "kill"
    /\ closers' = closers \ {p}
    /\ Goto(p, "remove")
    /\ UNCHANGED <<st, busy, pool, cs, agent, back, mine, rd, denying, hand, resolved, crashed>>

Remove(p) ==
    /\ On(p, "remove") /\ MapFree
    /\ st' = [st EXCEPT !.mapped = FALSE]
    /\ Cleaned(p)
    /\ UNCHANGED <<busy, pool, cs, agent, back, mine, closers, rd, denying, hand, resolved, crashed>>

-----------------------------------------------------------------------------
AgentStep == AgentExit \/ \E w \in Work : AgentAsk(w) \/ AgentResult(w)
SessionStep == Forward \/ Report \/ Escalate \/ \E failed \in BOOLEAN : ReadEnd(failed)

(* What a goroutine does by itself: all but the idle timeout's firing.     *)
TurnStep(t) ==
    \/ TurnDrain(t) \/ TurnSend(t) \/ TurnStopped(t) \/ TurnEvent(t) \/ TurnGone(t)
    \/ TurnApprove(t) \/ TurnPend(t) \/ TurnResolved(t)
    \/ TurnUnlock(t) \/ TurnAfter(t) \/ TurnCapture(t) \/ TurnRegister(t)
Cleanup(p) == Detach(p) \/ CleanupMark(p) \/ Wake(p) \/ Closing(p) \/ Remove(p)
StopStep(s) == StopTake(s) \/ StopMark(s) \/ StopClose(s)
ProcStep(p) ==
    \/ StopReader(p) \/ AwaitReader(p)
    \/ p \in Turns /\ TurnStep(p)
    \/ p \in Commands /\ StopStep(p)
    \/ Cleanup(p)
ReaderStep(t) ==
    \/ ReaderCancelled(t) \/ ReaderRead(t) \/ ReaderCheck(t)
    \/ ReaderResult(t) \/ ReaderAsked(t) \/ ReaderFailed(t)

Respond == \E w \in Work, t \in Turns : RespondForReader(w, t)

Requests ==
    \/ \E t \in Turns : TurnStart(t)
    \/ \E c \in Commands : StopStart(c) \/ ResetStart(c)
    \/ AnswerLook
UserAnswer == \E all \in BOOLEAN : Answer(all)

Next ==
    \/ AgentStep \/ SessionStep \/ Requests \/ UserAnswer \/ Respond
    \/ \E p \in Procs : ProcStep(p)
    \/ \E t \in Turns : ReaderStep(t)

Spec == Init /\ [][Next]_vars

(* While a goroutine can run, one does, and SIGKILL is obeyed.  That is    *)
(* enough, as none runs for ever: the work is finite.  The user may do     *)
(* nothing, and the agent may never answer.                                *)
Scheduled ==
    \/ SessionStep
    \/ \E p \in Procs : ProcStep(p)
    \/ \E t \in Turns : ReaderStep(t)
    \/ cs.shut = "kill" /\ AgentExit

FairSpec == Spec /\ WF_vars(Scheduled)

-----------------------------------------------------------------------------
(***************************************************************************)
(* Properties                                                              *)
(***************************************************************************)
TurnPcs == {"idle", "stopreader", "awaitreader", "drain", "send", "loop", "ask", "wait",
            "detach", "mark", "wake", "closing", "remove", "unlock", "after", "capture",
            "register", "done", "take", "unmap", "close"}

(* The types of the variables: one reader per turn that starts it, whose   *)
(* held event is there exactly between reading and acting on it, and a     *)
(* count of workspace turns that never becomes negative.                   *)
TypeOK ==
    /\ st \in [mapped : BOOLEAN, attached : BOOLEAN, stopped : BOOLEAN, resync : BOOLEAN,
               reader : Turns \cup {Nil}, pending : Work \cup {Nil}, approveAll : BOOLEAN]
    /\ busy \in BOOLEAN /\ crashed \in BOOLEAN
    /\ pool \in Nat
    /\ cs \in [chan : Seq(Events), line : Events \cup {Nil}, alive : BOOLEAN,
               loop : {"scan", "report", "closed"}, shut : {"no", "eof", "kill"}]
    /\ Len(cs.chan) <= ChanCap
    /\ agent \in [up : BOOLEAN, doing : Work \cup {Nil}, inbox : Seq(Turns),
                  done : SUBSET Work, asked : SUBSET Work, answers : [Work -> Nat]]
    /\ pc \in [Procs -> TurnPcs] /\ back \in [Procs -> TurnPcs]
    /\ mine \in [Procs -> Work \cup {Nil}]
    /\ closers \subseteq Procs
    /\ \A t \in Turns :
         /\ rd[t].pc \in {"none", "run", "hold", "act", "end"}
         /\ rd[t].held \in Events \cup {Nil}
         /\ rd[t].held # Nil <=> rd[t].pc \in {"hold", "act"}
         /\ rd[t].cancelled \in BOOLEAN /\ rd[t].active \in BOOLEAN
    /\ denying \subseteq Work \X Turns
    /\ hand \in Work \cup {Nil}
    /\ resolved \subseteq Work

(* A permission request is answered at most once, whoever takes it: the    *)
(* user, "approve all", the responder of a background reader, or the stop  *)
(* and the cleanup that release it unanswered.                             *)
AnsweredOnce == \A w \in Work : agent.answers[w] <= 1

(* The workspace counts as busy exactly for the turns that run and the     *)
(* background tasks seen and not ended: no BeginTurn without its EndTurn,  *)
(* on any way out (else the reaper would spare it for ever, or kill it in  *)
(* the middle of a turn).                                                  *)
PoolBalanced ==
    pool = Cardinality({t \in Turns : pc[t] \notin {"idle", "done"}})
           + Cardinality({t \in Turns : rd[t].active})

(* A session that is stopped or detached is closed in the end, whoever of  *)
(* /stop, /new and the turn comes first, and though nobody may be reading  *)
(* the channel: neither its agent is leaked, nor a background reader, not  *)
(* even one that is started after the stop or by two turns at once.        *)
AgentClosed ==
    (st.stopped \/ ~st.attached) ~>
        \/ crashed
        \/ cs.loop = "closed" /\ ~agent.up /\ \A t \in Turns : rd[t].pc \in {"none", "end"}

Reads(t) == rd[t].pc \in {"run", "hold", "act"} /\ ~rd[t].cancelled

(* "We must not have concurrent readers": a turn reads the channel only    *)
(* when no background reader that nobody has cancelled does.               *)
OneReader == \A t, u \in Turns : pc[t] \in {"loop", "ask", "wait"} => ~Reads(u)

(* The two that follow hold of a turn without a background task and of one *)
(* without a /stop; with them the code violates both (see the README).     *)
(* A turn takes the answer to its own prompt as its answer.                *)
OwnAnswer ==
    [][\A t \in Turns :
         (pc[t] = "loop" /\ pc'[t] = "unlock" /\ ~st.stopped /\ Head(cs.chan).kind = "result")
            => Head(cs.chan).job = t]_vars

(* A turn waits for an answer only while somebody can still give it.       *)
WaitEnds ==
    \A t \in Turns : pc[t] = "wait" =>
        \/ st.mapped /\ st.pending = mine[t]
        \/ hand = mine[t] \/ mine[t] \in resolved
        \/ \E p \in Procs : mine[p] = mine[t] /\ p # t
=============================================================================
