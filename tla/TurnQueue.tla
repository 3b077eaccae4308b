----------------------------- MODULE TurnQueue -----------------------------
(***************************************************************************)
(* How core/engine.go turns the messages of one chat (one session key)     *)
(* into turns of an agent process: the session lock, the entry of          *)
(* e.interactiveStates with its queue of pending messages, the placeholder *)
(* that lets messages queue while the agent starts, the event loop that    *)
(* drains the queue, and the commands that tear the state down.            *)
(*                                                                         *)
(* A process is a goroutine: a message's handler and the turn it starts    *)
(* are one process named by the message; a /stop, a /new, a /compress or a *)
(* run of the workspace reaper is a process named by a constant.  pc[p] is *)
(* where p stands; a step is what the code does between two places where   *)
(* another goroutine can get in (interactiveMu, state.mu or Session.mu     *)
(* released, or a field read without its lock).                            *)
(***************************************************************************)
EXTENDS Naturals, Sequences, FiniteSets

CONSTANTS
    Msgs,          \* the messages that arrive for the session key
    Beats,         \* those of them that are heartbeats: never queued
    Resets,        \* those that may come after resetOnIdle of inactivity
    Stops,         \* runs of /stop
    News,          \* runs of /new, each creating the Session it names
    Reapers,       \* runs of the idle-workspace reaper on this key
    Compressors,   \* runs of /compress
    FirstSession,  \* the Session that is active at the start
    Boot,          \* the interactiveState left by an earlier turn
    NoState,       \* a nil *interactiveState, or an empty agent session ID
    NoMsg,         \* no message
    MaxQueued,     \* e.maxQueuedMessages
    MaxHandlers,   \* handlers the platforms run at once (WeChat: 1)
    MaxCommands,   \* how many of the commands are given in one behaviour
    Warm,          \* does the map hold Boot, with a live agent, at the start?
    Faults         \* what may go wrong, a subset of FaultKinds

FaultKinds == {"startfail", "sendfail", "replyfail", "error", "die", "idle", "compress", "ask"}

Procs    == Msgs \cup Stops \cup News \cup Reapers \cup Compressors
Sessions == News \cup Resets \cup {FirstSession}

(* Every *interactiveState the run can allocate, named by who allocates it. *)
Placeholder(m) == <<m, "placeholder">>
Started(m)     == <<m, "started">>
StateIds == {Boot} \cup (Msgs \X {"placeholder", "started"})

ASSUME ConstantsOK ==
    /\ Beats \subseteq Msgs
    /\ Resets \subseteq Msgs \ Beats
    /\ \A A, B \in {Msgs, Stops, News, Reapers, Compressors} : A # B => A \cap B = {}
    /\ FirstSession \notin News \cup Resets
    /\ NoState \notin StateIds
    /\ Boot \notin (Msgs \X {"placeholder", "started"})
    /\ NoMsg \notin Msgs
    /\ MaxQueued \in Nat \ {0}
    /\ MaxHandlers \in Nat \ {0}
    /\ MaxCommands \in Nat
    /\ Warm \in BOOLEAN
    /\ Faults \subseteq FaultKinds

VARIABLES
    table,     \* e.interactiveStates[key]: a state, or NoState
    attached,  \* state.agentSession # nil
    agent,     \* the agent process started for the state
    have,      \* agentSession.CurrentSessionID(): the conversation it reports
    stopped,   \* state.stopped
    request,   \* the permission request its event loop waits on: pending in
               \* state.pending, answered (Resolved is closed), or lost
    queue,     \* state.pendingMessages
    busy,      \* Session.busy
    want,      \* Session.AgentSessionID
    active,    \* the active Session of the key
    pc,        \* where each process stands
    sess,      \* the Session the process picked
    ref,       \* the state its local variable points to
    expect,    \* the state its cleanup is for: "expected", or found in the map
    back,      \* where it continues after its cleanup
    grab,      \* the state whose agent its cleanup or /stop must close
    cur,       \* the message its event loop is working on
    mode,      \* how the process came to hold the session lock
    nested,    \* is it inside an auto-compress of an outer event loop?
    fate,      \* what became of each message
    crashed    \* a nil dereference has ended the program

lockVars  == <<busy, want, active>>
stateVars == <<table, attached, agent, have, stopped, request>>
localVars == <<sess, ref, expect, back, grab, cur, mode, nested>>
vars == <<stateVars, queue, lockVars, pc, localVars, fate, crashed>>

HandlerPcs == {"arrived", "ensure", "lookup", "append", "retry"}
CleanupPcs == {"detach", "markstop", "notify", "close", "remove"}
ResetPcs   == {"renew", "rotate", "relock"}
LoopPcs    == {"open", "loop", "ask", "wait", "next"}
DrainPcs   == {"drain", "deliver", "exit"}
PcValues   == HandlerPcs \cup CleanupPcs \cup ResetPcs \cup LoopPcs \cup DrainPcs \cup
              {"idle", "start", "begin", "orphan", "orphancheck", "compress", "cwait",
               "clock", "scan", "stopnotify", "asyncclose", "forget", "newsession", "cnotify", "done"}

Outcomes == {"answered", "unsent", "failed", "dropped", "refused", "stopped", "closed"}
Fates    == {"none", "handled", "queued", "running"} \cup Outcomes

Init ==
    /\ table    = IF Warm THEN Boot ELSE NoState
    /\ attached = [s \in StateIds |-> Warm /\ s = Boot]
    /\ agent    = [s \in StateIds |-> IF Warm /\ s = Boot THEN "live" ELSE "none"]
    /\ have     = [s \in StateIds |-> IF Warm /\ s = Boot THEN Boot ELSE NoState]
    /\ stopped  = [s \in StateIds |-> FALSE]
    /\ request  = [p \in Procs |-> "none"]
    /\ queue    = [s \in StateIds |-> <<>>]
    /\ busy     = [x \in Sessions |-> FALSE]
    /\ want     = [x \in Sessions |-> IF Warm /\ x = FirstSession THEN Boot ELSE NoState]
    /\ active   = FirstSession
    /\ pc       = [p \in Procs |-> "idle"]
    /\ sess     = [p \in Procs |-> FirstSession]
    /\ ref      = [p \in Procs |-> NoState]
    /\ expect   = [p \in Procs |-> NoState]
    /\ back     = [p \in Procs |-> "done"]
    /\ grab     = [p \in Procs |-> NoState]
    /\ cur      = [p \in Procs |-> NoMsg]
    /\ mode     = [p \in Procs |-> "turn"]
    /\ nested   = [p \in Procs |-> FALSE]
    /\ fate     = [m \in Msgs |-> "none"]
    /\ crashed  = FALSE

-----------------------------------------------------------------------------
At(p, l)   == pc[p] = l
On(p, l)   == ~crashed /\ At(p, l)
Goto(p, l) == pc' = [pc EXCEPT ![p] = l]

Alive(s)  == agent[s] = "live"                 \* agentSession.Alive()
Usable(s) == attached[s] /\ Alive(s)

Settle(m, o) == fate' = [fate EXCEPT ![m] = o]

Queued(s) == {queue[s][i] : i \in DOMAIN queue[s]}

DropQueueKept(s) ==                                 \* mutant: the queue is not cleared
    /\ queue' = queue
    /\ fate' = [m \in Msgs |-> IF m \in Queued(s) THEN "dropped" ELSE fate[m]]

(* notifyDroppedQueuedMessages: take the whole queue of s and tell each sender. *)
DropQueue(s) ==
    /\ queue' = [queue EXCEPT ![s] = <<>>]
    /\ fate' = [m \in Msgs |-> IF m \in Queued(s) THEN "dropped" ELSE fate[m]]

(* The same, with m itself settled as o by the same step. *)
DropQueueAnd(s, m, o) ==
    /\ queue' = [queue EXCEPT ![s] = <<>>]
    /\ fate' = [x \in Msgs |-> IF x = m THEN o ELSE IF x \in Queued(s) THEN "dropped" ELSE fate[x]]

PopPeeked(p, s) ==                                  \* mutant: the head stays in the queue
    /\ cur' = [cur EXCEPT ![p] = Head(queue[s])]
    /\ fate' = [fate EXCEPT ![Head(queue[s])] = "running"]
    /\ queue' = queue

(* Take the head of the queue of s as the next message p works on. *)
Pop(p, s) ==
    /\ cur' = [cur EXCEPT ![p] = Head(queue[s])]
    /\ queue' = [queue EXCEPT ![s] = Tail(queue[s])]
    /\ fate' = [fate EXCEPT ![Head(queue[s])] = "running"]

(* Session.Unlock does not ask who locked it.  The unlock that ends an     *)
(* auto-compress returns into the event loop that started it, whose caller *)
(* goes on to drain the queue; any other ends the process.                 *)
Unlock(p) ==
    /\ busy' = [busy EXCEPT ![sess[p]] = FALSE]
    /\ nested' = [nested EXCEPT ![p] = FALSE]
    /\ Goto(p, IF nested[p] THEN "drain" ELSE "done")

(* A method call on state.agentSession, read without state.mu: fatal when *)
(* a cleanup has cleared the field.                                        *)
UseAgent(p) == IF attached[ref[p]] THEN Goto(p, "loop") /\ crashed' = crashed
               ELSE crashed' = TRUE /\ pc' = pc

(* p is rotating an idle Session: maybeAutoResetSessionOnIdle. *)
Resetting(p) == pc[p] \in ResetPcs \/ (pc[p] \in CleanupPcs /\ back[p] = "renew")

(* A handler slot is taken from the start of handleMessage to its return. *)
InHandler(p) ==
    \/ p \in Msgs \ Beats /\ (pc[p] \in HandlerPcs \/ Resetting(p))
    \/ p \in Stops /\ At(p, "stopnotify")
    \/ p \in News /\ pc[p] \notin {"idle", "done"}
    \/ p \in Compressors /\ At(p, "clock")
SlotFree == Cardinality({p \in Procs : InHandler(p)}) < MaxHandlers

(***************************************************************************)
(* handleMessage: from the arrival of m to the return of its handler.      *)
(***************************************************************************)

(* While the chat has a request pending, what the user writes is taken for *)
(* the answer to it, or met with a hint.                                   *)
Asked == \E p \in Procs : request[p] = "pending" /\ ref[p] = table

(* GetOrCreateActive picks the Session; the lock is tried afterwards. *)
Arrive(m) ==
    /\ On(m, "idle")
    /\ m \in Beats \/ (SlotFree /\ ~Asked)
    /\ sess' = [sess EXCEPT ![m] = active]
    /\ Settle(m, "handled")
    /\ Goto(m, "arrived")
    /\ UNCHANGED <<stateVars, queue, lockVars, ref, expect, back, grab, cur, mode,
                   nested, crashed>>

TryLock(m) ==
    /\ On(m, "arrived")
    /\ IF busy[sess[m]]
       THEN /\ busy' = busy
            /\ Goto(m, IF m \in Beats THEN "done" ELSE "lookup")
            /\ fate' = IF m \in Beats THEN [fate EXCEPT ![m] = "refused"] ELSE fate
       ELSE /\ busy' = [busy EXCEPT ![sess[m]] = TRUE]
            /\ Goto(m, IF m \in Beats THEN "start" ELSE "ensure")
            /\ fate' = fate
    /\ UNCHANGED <<stateVars, queue, want, active, localVars, crashed>>

(* maybeAutoResetSessionOnIdle: a Session with a past is replaced after a  *)
(* long pause.  What the map holds for the chat is cleaned up, whoever put *)
(* it there; the Session is unlocked, a new one made active and locked.    *)
HasPast(x) == want[x] # NoState \/ \E m \in Msgs : sess[m] = x /\ cur[m] # NoMsg

LockAndReset(m) ==
    /\ On(m, "arrived")
    /\ ~busy[sess[m]] /\ HasPast(sess[m])
    /\ busy' = [busy EXCEPT ![sess[m]] = TRUE]
    /\ back' = [back EXCEPT ![m] = "renew"]
    /\ Goto(m, "detach")
    /\ UNCHANGED <<stateVars, queue, want, active, sess, ref, expect, grab, cur, mode,
                   nested, fate, crashed>>

ResetUnlock(m) ==
    /\ On(m, "renew")
    /\ busy' = [busy EXCEPT ![sess[m]] = FALSE]
    /\ Goto(m, "rotate")
    /\ UNCHANGED <<stateVars, queue, want, active, localVars, fate, crashed>>

Rotate(m) ==
    /\ On(m, "rotate")
    /\ active' = m
    /\ Goto(m, "relock")
    /\ UNCHANGED <<stateVars, queue, busy, want, localVars, fate, crashed>>

(* If another goroutine has locked the new Session by then, the message    *)
(* goes on with the old one, which it has unlocked.                        *)
Relock(m) ==
    /\ On(m, "relock")
    /\ IF busy[m] THEN UNCHANGED <<busy, sess>>
       ELSE /\ busy' = [busy EXCEPT ![m] = TRUE]
            /\ sess' = [sess EXCEPT ![m] = m]
    /\ Goto(m, "ensure")
    /\ UNCHANGED <<stateVars, queue, want, active, ref, expect, back, grab, cur, mode,
                   nested, fate, crashed>>

(* ensureInteractiveStateForQueueing, after which the handler returns and  *)
(* the turn runs in a goroutine of its own.                                *)
EnsureState(m) ==
    /\ On(m, "ensure")
    /\ table' = IF table = NoState THEN Placeholder(m) ELSE table
    /\ Goto(m, "start")
    /\ UNCHANGED <<attached, agent, have, stopped, request, queue, lockVars, localVars,
                   fate, crashed>>

(* queueMessageForBusySession, first half: the state is looked up under    *)
(* interactiveMu and its agent is checked.                                 *)
QueueLookup(m) ==
    /\ On(m, "lookup")
    /\ IF table = NoState \/ (attached[table] /\ ~Alive(table))
       THEN /\ Settle(m, "refused")
            /\ Goto(m, "done")
            /\ ref' = ref
       ELSE /\ ref' = [ref EXCEPT ![m] = table]
            /\ Goto(m, "append")
            /\ fate' = fate
    /\ UNCHANGED <<stateVars, queue, lockVars, sess, expect, back, grab, cur, mode,
                   nested, crashed>>

(* Second half, under state.mu only: refuse when full, or append. *)
QueueAppend(m) ==
    /\ On(m, "append")
    /\ IF Len(queue[ref[m]]) >= MaxQueued
       THEN queue' = queue /\ Settle(m, "refused")
       ELSE /\ queue' = [queue EXCEPT ![ref[m]] = Append(@, m)]
            /\ Settle(m, "queued")
    /\ Goto(m, "retry")
    /\ UNCHANGED <<stateVars, lockVars, localVars, crashed>>

RetryLockMissing(m) ==                              \* mutant: no race guard
    /\ On(m, "retry")
    /\ Goto(m, "done")
    /\ UNCHANGED <<stateVars, queue, lockVars, localVars, fate, crashed>>
RetryLockUnasked(m) ==                              \* mutant: drains without the lock
    /\ On(m, "retry")
    /\ busy' = [busy EXCEPT ![sess[m]] = TRUE]
    /\ mode' = [mode EXCEPT ![m] = "orphan"]
    /\ Goto(m, "orphan")
    /\ UNCHANGED <<stateVars, queue, want, active, sess, ref, expect, back, grab,
                   cur, nested, fate, crashed>>

(* The race guard: whoever held the lock may have left before the append.  *)
RetryLock(m) ==
    /\ On(m, "retry")
    /\ IF busy[sess[m]]
       THEN /\ Goto(m, "done")
            /\ UNCHANGED <<busy, mode>>
       ELSE /\ busy' = [busy EXCEPT ![sess[m]] = TRUE]
            /\ mode' = [mode EXCEPT ![m] = "orphan"]
            /\ Goto(m, "orphan")
    /\ UNCHANGED <<stateVars, queue, want, active, sess, ref, expect, back, grab,
                   cur, nested, fate, crashed>>

(* drainOrphanedQueue: look the state up, then drop or drain its queue. *)
OrphanLookup(m) ==
    /\ On(m, "orphan")
    /\ ref' = [ref EXCEPT ![m] = table]
    /\ Goto(m, IF table = NoState THEN "exit" ELSE "orphancheck")
    /\ UNCHANGED <<stateVars, queue, lockVars, sess, expect, back, grab, cur, mode,
                   nested, fate, crashed>>

OrphanCheck(m) ==
    /\ On(m, "orphancheck")
    /\ IF Usable(ref[m])
       THEN Goto(m, "drain") /\ UNCHANGED <<queue, fate>>
       ELSE Goto(m, "exit") /\ DropQueue(ref[m])
    /\ UNCHANGED <<stateVars, lockVars, localVars, crashed>>

-----------------------------------------------------------------------------
(***************************************************************************)
(* getOrCreateInteractiveStateWith: one step, because interactiveMu is     *)
(* held throughout, the start of the agent and the close of a recycled one *)
(* included.                                                               *)
(***************************************************************************)
Reusable       == table # NoState /\ Usable(table)
NeedRecycle(m) == have[table] # NoState /\ want[sess[m]] # have[table]

ReuseState(m) ==
    /\ On(m, "start")
    /\ Reusable /\ ~NeedRecycle(m)
    /\ ref' = [ref EXCEPT ![m] = table]
    /\ cur' = [cur EXCEPT ![m] = m]
    /\ Settle(m, "running")
    /\ Goto(m, "begin")
    /\ UNCHANGED <<stateVars, queue, lockVars, sess, expect, back, grab, mode,
                   nested, crashed>>

(* adoptPendingFromPlaceholder: the new state n takes over the queue of the *)
(* entry it replaces.  A recycled entry has been deleted by then, so that   *)
(* nothing is adopted from it.                                              *)
AdoptedFrom == IF Reusable THEN NoState ELSE table
AdoptCopied(n) ==                                   \* mutant: the old queue is kept
    [s \in StateIds |-> IF s = n /\ AdoptedFrom # NoState THEN queue[AdoptedFrom] ELSE queue[s]]
Adopt(n) ==
    [s \in StateIds |->
        IF s = n THEN IF AdoptedFrom = NoState THEN <<>> ELSE queue[AdoptedFrom]
        ELSE IF s = AdoptedFrom THEN <<>> ELSE queue[s]]

StartState(m, how) ==
    /\ On(m, "start")
    /\ Reusable => NeedRecycle(m)
    /\ how = "resumed" => want[sess[m]] # NoState
    /\ how = "fresh" => want[sess[m]] = NoState \/ "startfail" \in Faults
    /\ how = "failed" => "startfail" \in Faults
    /\ LET n == Started(m) IN
       /\ table' = n
       /\ attached' = [attached EXCEPT ![n] = how # "failed"]
       /\ agent' = [s \in StateIds |->
                      IF s = n THEN IF how = "failed" THEN "none" ELSE "live"
                      ELSE IF Reusable /\ s = table THEN "dead" ELSE agent[s]]
       /\ have' = [have EXCEPT ![n] = IF how = "resumed" THEN want[sess[m]] ELSE NoState]
       /\ stopped' = [s \in StateIds |-> stopped[s] \/ (Reusable /\ s = table)]
       /\ queue' = Adopt(n)
       /\ ref' = [ref EXCEPT ![m] = n]
    /\ cur' = [cur EXCEPT ![m] = m]
    /\ Settle(m, "running")
    /\ Goto(m, "begin")
    /\ UNCHANGED <<request, lockVars, sess, expect, back, grab, mode, nested, crashed>>

(* processInteractiveMessageWith checks the agent field, then uses it. *)
Begin(m) ==
    /\ On(m, "begin")
    /\ IF attached[ref[m]]
       THEN Goto(m, "open") /\ fate' = fate
       ELSE Goto(m, "exit") /\ Settle(m, "failed")
    /\ UNCHANGED <<stateVars, queue, lockVars, localVars, crashed>>

(* Drain stale events, hand the prompt to Send and enter the event loop.   *)
OpenEvents(p) ==
    /\ On(p, "open")
    /\ UseAgent(p)
    /\ UNCHANGED <<stateVars, queue, lockVars, localVars, fate>>

-----------------------------------------------------------------------------
(***************************************************************************)
(* processInteractiveEvents: what ends one wait of the event loop of p.    *)
(***************************************************************************)
(* Call cleanupInteractiveState(key, state) and go on to l. *)
CleanupOwn(p, l) ==
    /\ expect' = [expect EXCEPT ![p] = ref[p]]
    /\ back' = [back EXCEPT ![p] = l]
    /\ Goto(p, "detach")

LoopStopped(p) ==
    /\ On(p, "loop")
    /\ stopped[ref[p]]
    /\ Settle(cur[p], "stopped")
    /\ Goto(p, "drain")
    /\ UNCHANGED <<stateVars, queue, lockVars, localVars, crashed>>

(* EventResult.  The Session learns the conversation if it had none.  The  *)
(* reply is sent; when that fails, the loop is left without a look at the  *)
(* queue.  An auto-compress may run before the queue is looked at.         *)
LoopResult(p, how) ==
    /\ On(p, "loop")
    /\ ~stopped[ref[p]]
    /\ want' = IF attached[ref[p]] /\ want[sess[p]] = NoState
               THEN [want EXCEPT ![sess[p]] = have[ref[p]]] ELSE want
    /\ \/ how = "reply" /\ Settle(cur[p], "answered") /\ Goto(p, "next")
       \/ how = "unsent" /\ "replyfail" \in Faults
          /\ Settle(cur[p], "unsent") /\ Goto(p, "drain")
       \/ how = "compress" /\ "compress" \in Faults /\ ~nested[p]
          /\ Settle(cur[p], "answered") /\ Goto(p, "compress")
    /\ nested' = IF how = "compress" THEN [nested EXCEPT ![p] = TRUE] ELSE nested
    /\ UNCHANGED <<stateVars, queue, busy, active, sess, ref, expect, back, grab,
                   cur, mode, crashed>>

(* After the reply: the next queued message, or out of the loop. *)
NextQueued(p) ==
    /\ On(p, "next")
    /\ IF queue[ref[p]] = <<>>
       THEN Goto(p, "drain") /\ UNCHANGED <<cur, queue, fate>>
       ELSE Goto(p, "open") /\ Pop(p, ref[p])
    /\ UNCHANGED <<stateVars, lockVars, sess, ref, expect, back, grab, mode,
                   nested, crashed>>

(* EventError: the queue is dropped only if the agent is gone. *)
LoopError(p) ==
    /\ On(p, "loop")
    /\ "error" \in Faults
    /\ ~stopped[ref[p]]
    /\ IF Usable(ref[p])
       THEN queue' = queue /\ Settle(cur[p], "failed")
       ELSE DropQueueAnd(ref[p], cur[p], "failed")
    /\ Goto(p, "drain")
    /\ UNCHANGED <<stateVars, lockVars, localVars, crashed>>

(* The Send goroutine reports an error: the queue is dropped in any case.  *)
LoopSendError(p) ==
    /\ On(p, "loop")
    /\ "sendfail" \in Faults \/ ~Alive(ref[p])
    /\ DropQueueAnd(ref[p], cur[p], "failed")
    /\ IF Usable(ref[p])
       THEN Goto(p, "drain") /\ UNCHANGED <<expect, back>>
       ELSE CleanupOwn(p, "drain")
    /\ UNCHANGED <<stateVars, lockVars, sess, ref, grab, cur, mode, nested, crashed>>

(* No event for eventIdleTimeout: the agent is given up. *)
LoopIdle(p) ==
    /\ On(p, "loop")
    /\ "idle" \in Faults
    /\ Settle(cur[p], "failed")
    /\ CleanupOwn(p, "drain")
    /\ UNCHANGED <<stateVars, queue, lockVars, sess, ref, grab, cur, mode, nested,
                   crashed>>

(* The event channel is closed: the process has exited. *)
LoopClosed(p) ==
    /\ On(p, "loop")
    /\ agent[ref[p]] = "dead"
    /\ DropQueueAnd(ref[p], cur[p], "closed")
    /\ CleanupOwn(p, "drain")
    /\ UNCHANGED <<stateVars, lockVars, sess, ref, grab, cur, mode, nested, crashed>>

(***************************************************************************)
(* EventPermissionRequest.  The request is stored in state.pending and the *)
(* loop waits for it with the idle timer stopped: only the user's answer,  *)
(* or a cleanup or /stop that takes the request, ends the wait.  A request *)
(* approved by an earlier "allow all" leaves the loop where it is.         *)
(***************************************************************************)
LoopAsk(p) ==
    /\ On(p, "loop")
    /\ "ask" \in Faults
    /\ ~stopped[ref[p]]
    /\ Goto(p, "ask")
    /\ UNCHANGED <<stateVars, queue, lockVars, localVars, fate, crashed>>

(* There is one field: a request that another loop has put there is lost. *)
Pend(p) ==
    /\ On(p, "ask")
    /\ request' = [q \in Procs |->
                     IF q = p THEN "pending"
                     ELSE IF request[q] = "pending" /\ ref[q] = ref[p] THEN "lost"
                     ELSE request[q]]
    /\ Goto(p, "wait")
    /\ UNCHANGED <<table, attached, agent, have, stopped, queue, lockVars, localVars,
                   fate, crashed>>

Resume(p) ==
    /\ On(p, "wait")
    /\ request[p] = "answered"
    /\ request' = [request EXCEPT ![p] = "none"]
    /\ Goto(p, "loop")
    /\ UNCHANGED <<table, attached, agent, have, stopped, queue, lockVars, localVars,
                   fate, crashed>>

(* handlePendingPermission: the user's answer goes to the agent of the     *)
(* entry in the map, without a look at whether it is still attached.       *)
Answer(p) ==
    /\ ~crashed /\ SlotFree
    /\ request[p] = "pending" /\ ref[p] = table
    /\ IF attached[table]
       THEN request' = [request EXCEPT ![p] = "answered"] /\ crashed' = crashed
       ELSE crashed' = TRUE /\ request' = request
    /\ UNCHANGED <<table, attached, agent, have, stopped, queue, lockVars, pc, localVars,
                   fate>>

-----------------------------------------------------------------------------
DrainBlind(p) ==                                    \* mutant: unlocks without a look at the queue
    /\ On(p, "drain")
    /\ Unlock(p)
    /\ UNCHANGED <<stateVars, queue, want, active, sess, ref, expect, back, grab,
                   cur, mode, fate, crashed>>

(***************************************************************************)
(* drainPendingMessages.  The session is unlocked under state.mu, in the   *)
(* step that finds the queue empty.                                        *)
(***************************************************************************)
Drain(p) ==
    /\ On(p, "drain")
    /\ IF queue[ref[p]] = <<>>
       THEN Unlock(p) /\ UNCHANGED <<cur, queue, fate>>
       ELSE Goto(p, "deliver") /\ Pop(p, ref[p]) /\ UNCHANGED <<busy, nested>>
    /\ UNCHANGED <<stateVars, want, active, sess, ref, expect, back, grab, mode,
                   crashed>>

DeliverForgotten(p) ==                              \* mutant: drops the queue, not its own message
    /\ On(p, "deliver")
    /\ IF Usable(ref[p])
       THEN Goto(p, "open") /\ UNCHANGED <<queue, fate>>
       ELSE Goto(p, "exit") /\ DropQueue(ref[p])
    /\ UNCHANGED <<stateVars, lockVars, localVars, crashed>>

Deliver(p) ==
    /\ On(p, "deliver")
    /\ IF Usable(ref[p])
       THEN Goto(p, "open") /\ UNCHANGED <<queue, fate>>
       ELSE Goto(p, "exit") /\ DropQueueAnd(ref[p], cur[p], "dropped")
    /\ UNCHANGED <<stateVars, lockVars, localVars, crashed>>

(* The deferred session.Unlock of an early return. *)
Exit(p) ==
    /\ On(p, "exit")
    /\ Unlock(p)
    /\ UNCHANGED <<stateVars, queue, want, active, sess, ref, expect, back, grab,
                   cur, mode, fate, crashed>>

-----------------------------------------------------------------------------
(***************************************************************************)
(* cleanupInteractiveState, by a turn (expect = its state) or a command.   *)
(***************************************************************************)
(* The turns' cleanups and the reaper name their state, the others take    *)
(* what the map holds.                                                     *)
Named(p) == back[p] \in {"drain", "cnotify", "done"}

Detach(p) ==
    /\ On(p, "detach")
    /\ IF Named(p) /\ table # expect[p]
       THEN Goto(p, back[p]) /\ UNCHANGED <<attached, expect, grab>>
       ELSE IF table = NoState
       THEN Goto(p, "remove") /\ UNCHANGED <<attached, expect, grab>>
       ELSE /\ attached' = [attached EXCEPT ![table] = FALSE]
            /\ expect' = [expect EXCEPT ![p] = table]
            /\ grab' = [grab EXCEPT ![p] = IF attached[table] THEN table ELSE NoState]
            /\ Goto(p, "markstop")
    /\ UNCHANGED <<table, agent, have, stopped, request, queue, lockVars, sess, ref,
                   back, cur, mode, nested, fate, crashed>>

TakePendingLost(s) ==                               \* mutant: taken, never resolved
    [p \in Procs |-> IF request[p] = "pending" /\ ref[p] = s THEN "lost" ELSE request[p]]

(* Whoever stops s takes its pending request and resolves it, so that the  *)
(* event loop that waits on it goes on.                                    *)
TakePending(s) ==
    [p \in Procs |-> IF request[p] = "pending" /\ ref[p] = s THEN "answered" ELSE request[p]]

MarkStopped(p) ==
    /\ On(p, "markstop")
    /\ stopped' = [stopped EXCEPT ![expect[p]] = TRUE]
    /\ request' = TakePending(expect[p])
    /\ Goto(p, "notify")
    /\ UNCHANGED <<table, attached, agent, have, queue, lockVars, localVars, fate,
                   crashed>>

NotifyDropped(p) ==
    /\ On(p, "notify")
    /\ DropQueue(expect[p])
    /\ Goto(p, "close")
    /\ UNCHANGED <<stateVars, lockVars, localVars, crashed>>

(* closeAgentSessionWithTimeout, outside every lock. *)
CloseAgent(p) ==
    /\ On(p, "close")
    /\ agent' = IF grab[p] = NoState THEN agent ELSE [agent EXCEPT ![grab[p]] = "dead"]
    /\ Goto(p, "remove")
    /\ UNCHANGED <<table, attached, have, stopped, request, queue, lockVars, localVars,
                   fate, crashed>>

(* The entry is deleted; only a caller that named its state is checked     *)
(* against a replacement made during the close.                            *)
ReplacedUnasked(p) == Named(p) /\ FALSE            \* mutant: no second check
Replaced(p) == Named(p) /\ table # NoState /\ table # expect[p]
RemoveEntry(p) ==
    /\ On(p, "remove")
    /\ table' = IF Replaced(p) THEN table ELSE NoState
    /\ Goto(p, back[p])
    /\ grab' = [grab EXCEPT ![p] = NoState]
    /\ UNCHANGED <<attached, agent, have, stopped, request, queue, lockVars, sess, ref,
                   expect, back, cur, mode, nested, fate, crashed>>

-----------------------------------------------------------------------------
(***************************************************************************)
(* runCompress and processCompressEvents, run by /compress or, nested, by  *)
(* an event loop whose context grew too large.  The code can nest deeper;  *)
(* the model bounds the nesting at one, which is where the lock is first   *)
(* given back under a loop that still uses it.                             *)
(***************************************************************************)
CompressSend(p) ==
    /\ On(p, "compress")
    /\ \/ ~attached[ref[p]] /\ crashed' = TRUE /\ UNCHANGED <<pc, back>>
       \/ Usable(ref[p]) /\ Goto(p, "cwait") /\ UNCHANGED <<crashed, back>>
       \/ /\ Usable(ref[p]) /\ "sendfail" \in Faults
          /\ Goto(p, "exit") /\ UNCHANGED <<crashed, back>>
       \/ /\ attached[ref[p]] /\ ~Alive(ref[p])
          /\ back' = [back EXCEPT ![p] = "exit"]
          /\ Goto(p, "detach") /\ crashed' = crashed
    /\ UNCHANGED <<stateVars, queue, lockVars, sess, ref, expect, grab, cur, mode,
                   nested, fate>>

CompressStopped(p) ==
    /\ On(p, "cwait")
    /\ stopped[ref[p]]
    /\ Goto(p, "exit")
    /\ UNCHANGED <<stateVars, queue, lockVars, localVars, fate, crashed>>

CompressResult(p) ==
    /\ On(p, "cwait")
    /\ ~stopped[ref[p]]
    /\ Goto(p, "drain")
    /\ UNCHANGED <<stateVars, queue, lockVars, localVars, fate, crashed>>

CompressError(p) ==
    /\ On(p, "cwait")
    /\ "error" \in Faults
    /\ ~stopped[ref[p]]
    /\ IF ~attached[ref[p]]
       THEN crashed' = TRUE /\ UNCHANGED <<pc, queue, fate>>
       ELSE /\ crashed' = crashed
            /\ IF Alive(ref[p])
               THEN Goto(p, "drain") /\ UNCHANGED <<queue, fate>>
               ELSE Goto(p, "exit") /\ DropQueue(ref[p])
    /\ UNCHANGED <<stateVars, lockVars, localVars>>

(* The process exits, or is given up: clean up, then drop the queue. *)
CompressGone(p) ==
    /\ On(p, "cwait")
    /\ agent[ref[p]] = "dead" \/ "idle" \in Faults
    /\ CleanupOwn(p, "cnotify")
    /\ UNCHANGED <<stateVars, queue, lockVars, sess, ref, grab, cur, mode, nested,
                   fate, crashed>>

CompressNotify(p) ==
    /\ On(p, "cnotify")
    /\ DropQueue(ref[p])
    /\ Goto(p, "exit")
    /\ UNCHANGED <<stateVars, lockVars, localVars, crashed>>

-----------------------------------------------------------------------------
(***************************************************************************)
(* Commands that act on the key while turns run.                           *)
(***************************************************************************)

(* The bound on the commands; one that is not given stays at "idle". *)
CommandLeft == Cardinality({a \in Procs \ Msgs : ~At(a, "idle")}) < MaxCommands

(* stopInteractiveSession: one step under interactiveMu, then the queue is *)
(* dropped and the agent closed in the background.                         *)
Stop(a) ==
    /\ On(a, "idle")
    /\ SlotFree /\ CommandLeft
    /\ IF table = NoState
       THEN Goto(a, "done") /\ UNCHANGED <<table, stopped, request, ref, grab>>
       ELSE /\ stopped' = [stopped EXCEPT ![table] = TRUE]
            /\ request' = TakePending(table)
            /\ ref' = [ref EXCEPT ![a] = table]
            /\ grab' = [grab EXCEPT ![a] = IF attached[table] THEN table ELSE NoState]
            /\ table' = NoState
            /\ Goto(a, "stopnotify")
    /\ UNCHANGED <<attached, agent, have, queue, lockVars, sess, expect, back, cur,
                   mode, nested, fate, crashed>>

StopNotify(a) ==
    /\ On(a, "stopnotify")
    /\ DropQueue(ref[a])
    /\ Goto(a, "asyncclose")
    /\ UNCHANGED <<stateVars, lockVars, localVars, crashed>>

AsyncClose(a) ==
    /\ On(a, "asyncclose")
    /\ agent' = IF grab[a] = NoState THEN agent ELSE [agent EXCEPT ![grab[a]] = "dead"]
    /\ grab' = [grab EXCEPT ![a] = NoState]
    /\ Goto(a, "done")
    /\ UNCHANGED <<table, attached, have, stopped, request, queue, lockVars, sess, ref,
                   expect, back, cur, mode, nested, fate, crashed>>

(* cmdNew: clean up whatever is in the map, forget the conversation of the *)
(* active Session, and make the new Session the active one.                *)
New(a) ==
    /\ On(a, "idle")
    /\ SlotFree /\ CommandLeft
    /\ back' = [back EXCEPT ![a] = "forget"]
    /\ Goto(a, "detach")
    /\ UNCHANGED <<stateVars, queue, lockVars, sess, ref, expect, grab, cur, mode,
                   nested, fate, crashed>>

ForgetOld(a) ==
    /\ On(a, "forget")
    /\ want' = [want EXCEPT ![active] = NoState]
    /\ Goto(a, "newsession")
    /\ UNCHANGED <<stateVars, queue, busy, active, localVars, fate, crashed>>

NewSession(a) ==
    /\ On(a, "newsession")
    /\ active' = a
    /\ Goto(a, "done")
    /\ UNCHANGED <<stateVars, queue, busy, want, localVars, fate, crashed>>

(* reapIdleWorkspaces.  The workspace counts as idle while no turn is      *)
(* between BeginTurn and EndTurn; an orphan drain is no such turn.         *)
InTurn(m) ==
    /\ mode[m] = "turn" /\ ~Resetting(m)
    /\ pc[m] \notin HandlerPcs \cup {"idle", "start", "begin", "done"}

ReapIdle(a) ==
    /\ On(a, "idle")
    /\ CommandLeft
    /\ \A m \in Msgs : ~InTurn(m)
    /\ Goto(a, "scan")
    /\ UNCHANGED <<stateVars, queue, lockVars, localVars, fate, crashed>>

(* A placeholder carries no workspace directory and is passed over. *)
ReapScan(a) ==
    /\ On(a, "scan")
    /\ IF table = NoState \/ \E m \in Msgs : table = Placeholder(m)
       THEN Goto(a, "done") /\ UNCHANGED <<expect, back>>
       ELSE /\ expect' = [expect EXCEPT ![a] = table]
            /\ back' = [back EXCEPT ![a] = "done"]
            /\ Goto(a, "detach")
    /\ UNCHANGED <<stateVars, queue, lockVars, sess, ref, grab, cur, mode, nested,
                   fate, crashed>>

(* cmdCompress *)
Compress(a) ==
    /\ On(a, "idle")
    /\ SlotFree /\ CommandLeft
    /\ IF table # NoState /\ Usable(table)
       THEN Goto(a, "clock") /\ ref' = [ref EXCEPT ![a] = table]
       ELSE Goto(a, "done") /\ ref' = ref
    /\ UNCHANGED <<stateVars, queue, lockVars, sess, expect, back, grab, cur, mode,
                   nested, fate, crashed>>

CompressLock(a) ==
    /\ On(a, "clock")
    /\ IF busy[active]
       THEN Goto(a, "done") /\ UNCHANGED <<busy, sess, mode>>
       ELSE /\ busy' = [busy EXCEPT ![active] = TRUE]
            /\ sess' = [sess EXCEPT ![a] = active]
            /\ mode' = [mode EXCEPT ![a] = "compress"]
            /\ Goto(a, "compress")
    /\ UNCHANGED <<stateVars, queue, want, active, ref, expect, back, grab, cur,
                   nested, fate, crashed>>

-----------------------------------------------------------------------------
(***************************************************************************)
(* The agent process.                                                      *)
(***************************************************************************)
AgentReports(s) ==      \* its first event carries the conversation's ID
    /\ ~crashed /\ agent[s] = "live" /\ have[s] = NoState
    /\ have' = [have EXCEPT ![s] = s]
    /\ UNCHANGED <<table, attached, agent, stopped, request, queue, lockVars, pc, localVars,
                   fate, crashed>>

AgentDies(s) ==
    /\ "die" \in Faults
    /\ ~crashed /\ agent[s] = "live"
    /\ agent' = [agent EXCEPT ![s] = "dead"]
    /\ UNCHANGED <<table, attached, have, stopped, request, queue, lockVars, pc, localVars,
                   fate, crashed>>

-----------------------------------------------------------------------------
HandlerStep(m) ==
    \/ Arrive(m) \/ TryLock(m) \/ EnsureState(m) \/ QueueLookup(m)
    \/ QueueAppend(m) \/ RetryLock(m) \/ OrphanLookup(m) \/ OrphanCheck(m)
    \/ ReuseState(m) \/ (\E how \in {"resumed", "fresh", "failed"} : StartState(m, how))
    \/ Begin(m)

ResetStep(m) == LockAndReset(m) \/ ResetUnlock(m) \/ Rotate(m) \/ Relock(m)

LoopStep(p) ==
    \/ OpenEvents(p) \/ NextQueued(p)
    \/ LoopStopped(p) \/ (\E how \in {"reply", "unsent", "compress"} : LoopResult(p, how))
    \/ LoopError(p) \/ LoopSendError(p) \/ LoopIdle(p) \/ LoopClosed(p)
    \/ LoopAsk(p) \/ Pend(p) \/ Resume(p)
    \/ Drain(p) \/ Deliver(p) \/ Exit(p)

CleanupStep(p) == Detach(p) \/ MarkStopped(p) \/ NotifyDropped(p) \/ CloseAgent(p) \/ RemoveEntry(p)

CompressStep(p) ==
    \/ CompressSend(p) \/ CompressStopped(p) \/ CompressResult(p)
    \/ CompressError(p) \/ CompressGone(p) \/ CompressNotify(p)

CommandStep ==
    \/ \E p \in Procs : Answer(p)
    \/ \E a \in Stops : Stop(a) \/ StopNotify(a) \/ AsyncClose(a)
    \/ \E a \in News : New(a) \/ ForgetOld(a) \/ NewSession(a)
    \/ \E a \in Reapers : ReapIdle(a) \/ ReapScan(a)
    \/ \E a \in Compressors : Compress(a) \/ CompressLock(a)

AgentStep == \E s \in StateIds : AgentReports(s) \/ AgentDies(s)

(* p waits for good: its request is not where an answer or a cleanup looks. *)
Abandoned(p) == At(p, "wait") /\ (request[p] = "lost" \/ ref[p] # table)

(* Every message is done with or waits for good, the commands given have   *)
(* finished, or the program is gone.                                       *)
Terminated ==
    /\ \/ crashed
       \/ \A p \in Procs : At(p, "done") \/ Abandoned(p) \/ (p \notin Msgs /\ At(p, "idle"))
    /\ UNCHANGED vars

Next ==
    \/ \E m \in Msgs : HandlerStep(m)
    \/ \E m \in Resets : ResetStep(m)
    \/ \E p \in Procs : LoopStep(p) \/ CleanupStep(p) \/ CompressStep(p)
    \/ CommandStep
    \/ AgentStep
    \/ Terminated

Spec == Init /\ [][Next]_vars

-----------------------------------------------------------------------------
(***************************************************************************)
(* Properties.                                                             *)
(***************************************************************************)

(* Every variable stays in the set its code type allows. *)
TypeOK ==
    /\ table \in StateIds \cup {NoState}
    /\ attached \in [StateIds -> BOOLEAN]
    /\ agent \in [StateIds -> {"none", "live", "dead"}]
    /\ have \in [StateIds -> StateIds \cup {NoState}]
    /\ stopped \in [StateIds -> BOOLEAN]
    /\ request \in [Procs -> {"none", "pending", "answered", "lost"}]
    /\ queue \in [StateIds -> Seq(Msgs)]
    /\ busy \in [Sessions -> BOOLEAN]
    /\ want \in [Sessions -> StateIds \cup {NoState}]
    /\ active \in Sessions
    /\ pc \in [Procs -> PcValues]
    /\ sess \in [Procs -> Sessions]
    /\ ref \in [Procs -> StateIds \cup {NoState}]
    /\ expect \in [Procs -> StateIds \cup {NoState}]
    /\ back \in [Procs -> {"drain", "exit", "cnotify", "forget", "renew", "done"}]
    /\ grab \in [Procs -> StateIds \cup {NoState}]
    /\ cur \in [Procs -> Msgs \cup {NoMsg}]
    /\ mode \in [Procs -> {"turn", "orphan", "compress"}]
    /\ nested \in [Procs -> BOOLEAN]
    /\ fate \in [Msgs -> Fates]
    /\ crashed \in BOOLEAN

(* p believes that it holds the lock of sess[p]. *)
Holds(p) ==
    \/ pc[p] \in LoopPcs \cup DrainPcs
    \/ pc[p] \in {"ensure", "start", "begin", "orphan", "orphancheck", "compress", "cwait", "cnotify",
                 "renew"}
    \/ pc[p] \in CleanupPcs /\ back[p] \in {"drain", "exit", "cnotify", "renew"}

(* Two goroutines never run a turn on one Session at the same time: the    *)
(* busy flag, its deferred unlocks and the unlock inside the drain loop    *)
(* hand the Session from one turn to the next.                             *)
TurnExclusion == \A p, q \in Procs : p # q /\ Holds(p) /\ Holds(q) => sess[p] # sess[q]

(* The event channel of one agent is read by one event loop at a time      *)
(* (engine.go:2238, "we must not have concurrent readers").                *)
ReadPcs == {"loop", "ask", "wait", "cwait"}
SingleReader ==
    \A p, q \in Procs : p # q /\ pc[p] \in ReadPcs /\ pc[q] \in ReadPcs => ref[p] # ref[q]

(* The queue of a state never grows past e.maxQueuedMessages, through      *)
(* adoption, concurrent handlers and recycled states.                      *)
QueueBound == \A s \in StateIds : Len(queue[s]) <= MaxQueued

(* A message is marked queued exactly while some queue holds it: adoption, *)
(* pops, drops and tear-downs neither lose nor keep an entry unaccounted.  *)
QueueAccounting == \A m \in Msgs : fate[m] = "queued" <=> \E s \in StateIds : m \in Queued(s)

(* A message is in one queue, at one place in it. *)
OnePlace ==
    \A s, t \in StateIds : \A i \in DOMAIN queue[s], j \in DOMAIN queue[t] :
        queue[s][i] = queue[t][j] => s = t /\ i = j

(* The books of the queues balance, whoever appends, pops, adopts, drops   *)
(* or tears down: no queue is too long, no message is lost in one, kept in *)
(* one that it has left, or held twice.                                    *)
QueueBooks == QueueBound /\ QueueAccounting /\ OnePlace

(* The message p works on. *)
WorkPcs == {"begin", "open", "loop", "ask", "wait", "deliver"}
WorkingOn(p) == IF pc[p] \in WorkPcs THEN cur[p] ELSE NoMsg

(* Seen from the chat, the queues, locks, states and agents implement the  *)
(* abstract MessageDesk: a message goes its way through the fates in the   *)
(* steps allowed there, and what an event loop takes up it brings to an    *)
(* end in the step in which it lets go of it.                              *)
Desk == INSTANCE MessageDesk WITH
            Workers <- Procs, Ends <- Outcomes, desk <- [p \in Procs |-> WorkingOn(p)]
KeepsDesk == Desk!Spec

(* A message is being worked on exactly while one event loop has it, and   *)
(* only one: nothing that tears a state down loses a message in work, and  *)
(* none reaches an agent twice.                                            *)
DeliveredOnce == Desk!OnOneDesk

(* What became of a message is decided once: it is not answered after its  *)
(* sender was told it was dropped, nor dropped after it was answered.      *)
OneOutcome == [][\A m \in Msgs : fate[m] \in Outcomes => fate'[m] = fate[m]]_vars

(* When no goroutine is at work, no message is left in a queue: the race   *)
(* guard after an append and the unlock under state.mu close the window    *)
(* between "the queue is empty" and "the session is free".                 *)
AtRest == \A p \in Procs : pc[p] \in {"idle", "done"}
NoMessageStranded == AtRest /\ ~crashed => \A m \in Msgs : fate[m] # "queued"

(* A message that takes the lock itself finds no older message waiting in  *)
(* the queue of its chat (FIFO across queued and direct messages).         *)
NoOvertaking == \A m \in Msgs : At(m, "ensure") => table = NoState \/ queue[table] = <<>>

(* An agent process that is running and attached is in the map, where      *)
(* /stop and shutdown find it, or a goroutine at work still refers to it.  *)
LiveAgentReachable ==
    \A s \in StateIds : agent[s] = "live" =>
        s = table \/ \E p \in Procs : grab[p] = s \/ (ref[p] = s /\ Holds(p))

(* No goroutine calls a method of an agent session that a cleanup has set  *)
(* to nil (engine.go:3138).                                                *)
NoNilAgentUse == ~crashed

(***************************************************************************)
(* Liveness.  The scheduler runs every goroutine.  An event loop at "loop" *)
(* goes on: the agent ends its turn, exits, or is silent for               *)
(* eventIdleTimeout (one that emits events for ever is not modelled).  A   *)
(* loop at "wait" does not: its idle timer is stopped, and the user need   *)
(* not answer, so that Answer has no fairness.                             *)
(***************************************************************************)
ProcStep(p) ==
    \/ p \in Msgs /\ ~At(p, "idle") /\ HandlerStep(p)
    \/ p \in Resets /\ ResetStep(p)
    \/ LoopStep(p) \/ CleanupStep(p) \/ CompressStep(p)
    \/ p \in Stops /\ (StopNotify(p) \/ AsyncClose(p))
    \/ p \in News /\ (ForgetOld(p) \/ NewSession(p))
    \/ p \in Reapers /\ ReapScan(p)
    \/ p \in Compressors /\ CompressLock(p)

FairSpec == Spec /\ \A p \in Procs : WF_vars(ProcStep(p))

(* The loop of p waits for an answer that the user may never give, or that *)
(* no longer finds it: a request stored after /stop or a cleanup has taken *)
(* the one before it stays pending in a state nobody looks at.             *)
AwaitsAnswer(p) == At(p, "wait") /\ request[p] = "pending"

(* A locked Session is released again, through failing starts, dying and   *)
(* silent agents, /stop, the reaper and cleanups that stop its loop in the *)
(* middle of a wait: unless the program dies, only an unanswered request   *)
(* keeps it, and no longer than until its answer.                          *)
SessionReleased ==
    \A x \in Sessions :
        busy[x] ~> \/ ~busy[x] \/ crashed
                   \/ \E p \in Procs : sess[p] = x /\ AwaitsAnswer(p)

(* Every message that arrived gets an outcome, except while a turn waits   *)
(* for an answer of the user: from the answer on, it is owed one again.    *)
MessagesSettle ==
    \A m \in Msgs :
        fate[m] \in {"handled", "queued", "running"} ~>
            fate[m] \in Outcomes \/ \E p \in Procs : AwaitsAnswer(p)

=============================================================================
