-------------------------- MODULE TurnQueueProofs --------------------------
(***************************************************************************)
(* What TurnQueue guarantees for every set of messages and commands, every *)
(* queue bound and every combination of faults: types and local pointers;  *)
(* the session lock; the books of the pending queues, that is where a      *)
(* message is, what became of it and which event loop works on it; and     *)
(* with them, that TurnQueue implements MessageDesk.  Four properties hold *)
(* under conditions, which their theorems name: one event loop per agent,  *)
(* no live agent lost, no message stranded, no message overtaken.          *)
(***************************************************************************)
EXTENDS TurnQueue, FiniteSetTheorems, TLAPS

(* p runs a turn, or a cleanup that returns into one. *)
TurnPcs == LoopPcs \cup DrainPcs \cup {"compress", "cwait", "cnotify"}
InTurnCode(p) ==
    pc[p] \in TurnPcs \/ (pc[p] \in CleanupPcs /\ back[p] \in {"drain", "exit", "cnotify"})

(* Places where the code follows its local state pointer. *)
RefPcs == LoopPcs \cup {"append", "orphancheck", "begin", "drain", "deliver", "compress",
                        "cwait", "cnotify", "stopnotify", "clock"}
RefAt(p) ==
    /\ \/ pc[p] \in RefPcs
       \/ pc[p] \in CleanupPcs /\ back[p] \in {"drain", "cnotify"}
       \/ nested[p]
       => ref[p] \in StateIds
    /\ pc[p] \in {"markstop", "notify"} => expect[p] \in StateIds
RefOK == \A p \in Procs : RefAt(p)
NestedAt(p) == nested[p] => InTurnCode(p)
NestedOK == \A p \in Procs : NestedAt(p)

(* The inductive form of the type invariant: the local pointer is set      *)
(* wherever it is followed.                                                *)
IType == TypeOK /\ RefOK /\ NestedOK

LEMMA TypeInit == Init => IType
<1> SUFFICES ASSUME Init PROVE IType
  OBVIOUS
<1> USE ConstantsOK DEF Init
<1>1. TypeOK
  <2>1. /\ attached \in [StateIds -> BOOLEAN]
        /\ stopped \in [StateIds -> BOOLEAN]
        /\ busy \in [Sessions -> BOOLEAN]
        /\ nested \in [Procs -> BOOLEAN]
        /\ crashed \in BOOLEAN
    OBVIOUS
  <2>2. /\ table \in StateIds \cup {NoState}
        /\ agent \in [StateIds -> {"none", "live", "dead"}]
        /\ have \in [StateIds -> StateIds \cup {NoState}]
        /\ queue \in [StateIds -> Seq(Msgs)]
    BY DEF StateIds
  <2>3. /\ want \in [Sessions -> StateIds \cup {NoState}]
        /\ active \in Sessions
        /\ sess \in [Procs -> Sessions]
    BY DEF Sessions, StateIds
  <2>4. /\ pc \in [Procs -> PcValues]
        /\ request \in [Procs -> {"none", "pending", "answered", "lost"}]
        /\ ref \in [Procs -> StateIds \cup {NoState}]
        /\ expect \in [Procs -> StateIds \cup {NoState}]
        /\ back \in [Procs -> {"drain", "exit", "cnotify", "forget", "renew", "done"}]
        /\ grab \in [Procs -> StateIds \cup {NoState}]
        /\ cur \in [Procs -> Msgs \cup {NoMsg}]
        /\ mode \in [Procs -> {"turn", "orphan", "compress"}]
        /\ fate \in [Msgs -> Fates]
    BY DEF PcValues, Fates
  <2> QED BY <2>1, <2>2, <2>3, <2>4 DEF TypeOK
<1>2. RefOK
  BY DEF RefOK, RefAt, RefPcs, CleanupPcs, LoopPcs
<1>3. NestedOK
  BY DEF NestedOK, NestedAt
<1> QED BY <1>1, <1>2, <1>3 DEF IType


LEMMA PcNames ==
    /\ "idle" \in PcValues /\ "arrived" \in PcValues /\ "ensure" \in PcValues
    /\ "lookup" \in PcValues /\ "append" \in PcValues /\ "retry" \in PcValues
    /\ "orphan" \in PcValues /\ "orphancheck" \in PcValues /\ "start" \in PcValues
    /\ "begin" \in PcValues /\ "open" \in PcValues /\ "loop" \in PcValues
    /\ "ask" \in PcValues /\ "wait" \in PcValues /\ "forget" \in PcValues
    /\ "next" \in PcValues /\ "drain" \in PcValues /\ "deliver" \in PcValues
    /\ "exit" \in PcValues /\ "detach" \in PcValues /\ "markstop" \in PcValues
    /\ "notify" \in PcValues /\ "close" \in PcValues /\ "remove" \in PcValues
    /\ "compress" \in PcValues /\ "cwait" \in PcValues /\ "cnotify" \in PcValues
    /\ "clock" \in PcValues /\ "scan" \in PcValues /\ "stopnotify" \in PcValues
    /\ "asyncclose" \in PcValues /\ "newsession" \in PcValues /\ "done" \in PcValues
    /\ "renew" \in PcValues /\ "rotate" \in PcValues /\ "relock" \in PcValues
  BY DEF PcValues, HandlerPcs, ResetPcs, CleanupPcs, LoopPcs, DrainPcs

LEMMA PcTyped == IType => pc \in [Procs -> PcValues]
  BY DEF IType, TypeOK

LEMMA FateNames ==
    /\ "handled" \in Fates /\ "queued" \in Fates /\ "running" \in Fates
    /\ "answered" \in Fates /\ "unsent" \in Fates /\ "failed" \in Fates
    /\ "dropped" \in Fates /\ "refused" \in Fates /\ "stopped" \in Fates
    /\ "closed" \in Fates /\ Outcomes \subseteq Fates
  BY DEF Fates, Outcomes

LEMMA StateNames ==
    /\ Boot \in StateIds
    /\ \A m \in Msgs : Placeholder(m) \in StateIds /\ Started(m) \in StateIds
    /\ NoState \notin StateIds
  BY ConstantsOK DEF StateIds, Placeholder, Started

LEMMA LocalTyped ==
    IType => /\ table \in StateIds \cup {NoState}
             /\ ref \in [Procs -> StateIds \cup {NoState}]
             /\ expect \in [Procs -> StateIds \cup {NoState}]
             /\ grab \in [Procs -> StateIds \cup {NoState}]
  BY DEF IType, TypeOK

LEMMA ProcNames == Msgs \cup Stops \cup News \cup Reapers \cup Compressors \subseteq Procs
  BY DEF Procs

(* The helpers of the actions, typed once. *)
LEMMA EmptyQueue == ASSUME queue \in [StateIds -> Seq(Msgs)], NEW s
   PROVE [queue EXCEPT ![s] = <<>>] \in [StateIds -> Seq(Msgs)]
<1>1. <<>> \in Seq(Msgs) OBVIOUS
<1>2. DEFINE f == [queue EXCEPT ![s] = <<>>]
<1>3. f = [x \in StateIds |-> IF x = s THEN <<>> ELSE queue[x]]
  BY Zenon
<1>4. \A x \in StateIds : queue[x] \in Seq(Msgs)
  OBVIOUS
<1>5. [x \in StateIds |-> IF x = s THEN <<>> ELSE queue[x]] \in [StateIds -> Seq(Msgs)]
  BY <1>1, <1>4
<1> QED BY <1>3, <1>5
LEMMA DropQueueType ==
    ASSUME TypeOK, NEW s, DropQueue(s)
    PROVE  queue' \in [StateIds -> Seq(Msgs)] /\ fate' \in [Msgs -> Fates]
<1>1. queue' \in [StateIds -> Seq(Msgs)]
  <2>1. queue \in [StateIds -> Seq(Msgs)] BY DEF TypeOK
  <2>2. queue' = [queue EXCEPT ![s] = <<>>] BY DEF DropQueue
  <2> QED BY <2>1, <2>2, EmptyQueue
<1>2. fate' \in [Msgs -> Fates]
  BY FateNames DEF TypeOK, DropQueue
<1> QED BY <1>1, <1>2
LEMMA DropQueueAndType ==
    ASSUME TypeOK, NEW s, NEW x, NEW o \in Outcomes, DropQueueAnd(s, x, o)
    PROVE  queue' \in [StateIds -> Seq(Msgs)] /\ fate' \in [Msgs -> Fates]
<1>1. queue' \in [StateIds -> Seq(Msgs)]
  <2>1. queue \in [StateIds -> Seq(Msgs)] BY DEF TypeOK
  <2>2. queue' = [queue EXCEPT ![s] = <<>>] BY DEF DropQueueAnd
  <2> QED BY <2>1, <2>2, EmptyQueue
<1>2. fate' \in [Msgs -> Fates]
  BY FateNames DEF TypeOK, DropQueueAnd
<1> QED BY <1>1, <1>2
LEMMA PopType ==
    ASSUME TypeOK, NEW p, NEW s \in StateIds, queue[s] # <<>>, Pop(p, s)
    PROVE  /\ queue' \in [StateIds -> Seq(Msgs)] /\ fate' \in [Msgs -> Fates]
           /\ cur' \in [Procs -> Msgs \cup {NoMsg}]
<1>1. queue[s] \in Seq(Msgs) BY DEF TypeOK
<1>2. Head(queue[s]) \in Msgs /\ Tail(queue[s]) \in Seq(Msgs)
  BY <1>1
<1>3. queue' \in [StateIds -> Seq(Msgs)] BY <1>2 DEF TypeOK, Pop
<1>4. fate' \in [Msgs -> Fates] BY <1>2, FateNames DEF TypeOK, Pop
<1>5. cur' \in [Procs -> Msgs \cup {NoMsg}] BY <1>2 DEF TypeOK, Pop
<1> QED BY <1>3, <1>4, <1>5

LEMMA OutcomeNames ==
    {"answered", "unsent", "failed", "dropped", "refused", "stopped", "closed"} \subseteq Outcomes
  BY DEF Outcomes

LEMMA BackNames == {"drain", "exit", "cnotify", "forget", "renew", "done"} \subseteq PcValues
  BY DEF PcValues, DrainPcs, ResetPcs

(* Only p moves: what the invariant says of the other processes is kept. *)
OthersKept(p) ==
    \A q \in Procs \ {p} : /\ pc'[q] = pc[q] /\ back'[q] = back[q]
                           /\ ref'[q] = ref[q] /\ nested'[q] = nested[q]
                           /\ expect'[q] = expect[q]

LEMMA LocalStep ==
    ASSUME IType, TypeOK', NEW p \in Procs, OthersKept(p), RefAt(p)', NestedAt(p)'
    PROVE  IType'
<1>1. ASSUME NEW q \in Procs PROVE RefAt(q)' /\ NestedAt(q)'
  BY <1>1 DEF OthersKept, IType, RefOK, RefAt, NestedOK, NestedAt, InTurnCode
<1> QED BY <1>1 DEF IType, RefOK, NestedOK

LEMMA SessNames == News \subseteq Sessions /\ Resets \subseteq Sessions /\ Resets \subseteq Msgs
  BY ConstantsOK DEF Sessions

LEMMA Type_Arrive ==
    ASSUME IType, NEW m \in Msgs, Arrive(m)
    PROVE  IType'
<1> USE DEF Arrive, On, At, Goto, Settle, stateVars, lockVars
<1> m \in Procs
  BY ProcNames
<1>1. TypeOK'
  <2>1. pc' \in [Procs -> PcValues]
    BY PcTyped, PcNames
  <2>2. sess' \in [Procs -> Sessions]
    BY DEF IType, TypeOK
  <2>3. fate' \in [Msgs -> Fates]
    BY FateNames DEF IType, TypeOK
  <2> QED BY <2>1, <2>2, <2>3 DEF IType, TypeOK
<1>2. OthersKept(m)
  BY DEF OthersKept, IType, TypeOK
<1>3. RefAt(m)'
  BY StateNames DEF IType, TypeOK, RefOK, RefAt, RefPcs, LoopPcs, DrainPcs, CleanupPcs,
     NestedOK, NestedAt, InTurnCode, TurnPcs
<1>4. NestedAt(m)'
  BY DEF IType, TypeOK, NestedOK, NestedAt, InTurnCode, TurnPcs, LoopPcs, DrainPcs, CleanupPcs,
     HandlerPcs
<1> QED BY <1>1, <1>2, <1>3, <1>4, LocalStep

LEMMA Type_TryLock ==
    ASSUME IType, NEW m \in Msgs, TryLock(m)
    PROVE  IType'
<1> USE DEF TryLock, On, At, Goto, stateVars, localVars
<1> m \in Procs
  BY ProcNames
<1>1. TypeOK'
  <2>1. busy' \in [Sessions -> BOOLEAN]
    BY DEF IType, TypeOK
  <2>2. pc' \in [Procs -> PcValues]
    <3>1. \/ pc' = [pc EXCEPT ![m] = "done"] \/ pc' = [pc EXCEPT ![m] = "lookup"]
          \/ pc' = [pc EXCEPT ![m] = "start"] \/ pc' = [pc EXCEPT ![m] = "ensure"]
      OBVIOUS
    <3> QED BY <3>1, PcTyped, PcNames
  <2>3. fate' \in [Msgs -> Fates]
    BY FateNames DEF IType, TypeOK
  <2> QED BY <2>1, <2>2, <2>3 DEF IType, TypeOK
<1>2. OthersKept(m)
  BY DEF OthersKept, IType, TypeOK
<1>3. RefAt(m)'
  BY StateNames DEF IType, TypeOK, RefOK, RefAt, RefPcs, LoopPcs, DrainPcs, CleanupPcs,
     NestedOK, NestedAt, InTurnCode, TurnPcs
<1>4. NestedAt(m)'
  BY DEF IType, TypeOK, NestedOK, NestedAt, InTurnCode, TurnPcs, LoopPcs, DrainPcs, CleanupPcs,
     HandlerPcs
<1> QED BY <1>1, <1>2, <1>3, <1>4, LocalStep

LEMMA Type_LockAndReset ==
    ASSUME IType, NEW m \in Resets, LockAndReset(m)
    PROVE  IType'
<1> USE DEF LockAndReset, On, At, Goto, stateVars
<1> m \in Procs /\ m \in Sessions
  BY ProcNames, SessNames
<1>1. TypeOK'
  <2>1. busy' \in [Sessions -> BOOLEAN]
    BY DEF IType, TypeOK
  <2>2. back' \in [Procs -> {"drain", "exit", "cnotify", "forget", "renew", "done"}]
    BY DEF IType, TypeOK
  <2>3. pc' \in [Procs -> PcValues]
    BY PcTyped, PcNames
  <2> QED BY <2>1, <2>2, <2>3 DEF IType, TypeOK
<1>2. OthersKept(m)
  BY DEF OthersKept, IType, TypeOK
<1>3. RefAt(m)'
  BY StateNames DEF IType, TypeOK, RefOK, RefAt, RefPcs, LoopPcs, DrainPcs, CleanupPcs,
     NestedOK, NestedAt, InTurnCode, TurnPcs
<1>4. NestedAt(m)'
  BY DEF IType, TypeOK, NestedOK, NestedAt, InTurnCode, TurnPcs, LoopPcs, DrainPcs, CleanupPcs,
     HandlerPcs
<1> QED BY <1>1, <1>2, <1>3, <1>4, LocalStep

LEMMA Type_ResetUnlock ==
    ASSUME IType, NEW m \in Resets, ResetUnlock(m)
    PROVE  IType'
<1> USE DEF ResetUnlock, On, At, Goto, stateVars, localVars
<1> m \in Procs /\ m \in Sessions
  BY ProcNames, SessNames
<1>1. TypeOK'
  <2>1. busy' \in [Sessions -> BOOLEAN]
    BY DEF IType, TypeOK
  <2>2. pc' \in [Procs -> PcValues]
    BY PcTyped, PcNames
  <2> QED BY <2>1, <2>2 DEF IType, TypeOK
<1>2. OthersKept(m)
  BY DEF OthersKept, IType, TypeOK
<1>3. RefAt(m)'
  BY StateNames DEF IType, TypeOK, RefOK, RefAt, RefPcs, LoopPcs, DrainPcs, CleanupPcs,
     NestedOK, NestedAt, InTurnCode, TurnPcs
<1>4. NestedAt(m)'
  BY DEF IType, TypeOK, NestedOK, NestedAt, InTurnCode, TurnPcs, LoopPcs, DrainPcs, CleanupPcs,
     HandlerPcs
<1> QED BY <1>1, <1>2, <1>3, <1>4, LocalStep

LEMMA Type_Rotate ==
    ASSUME IType, NEW m \in Resets, Rotate(m)
    PROVE  IType'
<1> USE DEF Rotate, On, At, Goto, stateVars, localVars
<1> m \in Procs /\ m \in Sessions
  BY ProcNames, SessNames
<1>1. TypeOK'
  <2>1. active' \in Sessions
    OBVIOUS
  <2>2. pc' \in [Procs -> PcValues]
    BY PcTyped, PcNames
  <2> QED BY <2>1, <2>2 DEF IType, TypeOK
<1>2. OthersKept(m)
  BY DEF OthersKept, IType, TypeOK
<1>3. RefAt(m)'
  BY StateNames DEF IType, TypeOK, RefOK, RefAt, RefPcs, LoopPcs, DrainPcs, CleanupPcs,
     NestedOK, NestedAt, InTurnCode, TurnPcs
<1>4. NestedAt(m)'
  BY DEF IType, TypeOK, NestedOK, NestedAt, InTurnCode, TurnPcs, LoopPcs, DrainPcs, CleanupPcs,
     HandlerPcs
<1> QED BY <1>1, <1>2, <1>3, <1>4, LocalStep

LEMMA Type_Relock ==
    ASSUME IType, NEW m \in Resets, Relock(m)
    PROVE  IType'
<1> USE DEF Relock, On, At, Goto, stateVars
<1> m \in Procs /\ m \in Sessions
  BY ProcNames, SessNames
<1>1. TypeOK'
  <2>1. busy' \in [Sessions -> BOOLEAN]
    BY DEF IType, TypeOK
  <2>2. sess' \in [Procs -> Sessions]
    BY DEF IType, TypeOK
  <2>3. pc' \in [Procs -> PcValues]
    BY PcTyped, PcNames
  <2> QED BY <2>1, <2>2, <2>3 DEF IType, TypeOK
<1>2. OthersKept(m)
  BY DEF OthersKept, IType, TypeOK
<1>3. RefAt(m)'
  BY StateNames DEF IType, TypeOK, RefOK, RefAt, RefPcs, LoopPcs, DrainPcs, CleanupPcs,
     NestedOK, NestedAt, InTurnCode, TurnPcs
<1>4. NestedAt(m)'
  BY DEF IType, TypeOK, NestedOK, NestedAt, InTurnCode, TurnPcs, LoopPcs, DrainPcs, CleanupPcs,
     HandlerPcs
<1> QED BY <1>1, <1>2, <1>3, <1>4, LocalStep

LEMMA Type_EnsureState ==
    ASSUME IType, NEW m \in Msgs, EnsureState(m)
    PROVE  IType'
<1> USE DEF EnsureState, On, At, Goto, lockVars, localVars
<1> m \in Procs
  BY ProcNames
<1>1. TypeOK'
  <2>1. table' \in StateIds \cup {NoState}
    BY StateNames DEF IType, TypeOK
  <2>2. pc' \in [Procs -> PcValues]
    BY PcTyped, PcNames
  <2> QED BY <2>1, <2>2 DEF IType, TypeOK
<1>2. OthersKept(m)
  BY DEF OthersKept, IType, TypeOK
<1>3. RefAt(m)'
  BY StateNames DEF IType, TypeOK, RefOK, RefAt, RefPcs, LoopPcs, DrainPcs, CleanupPcs,
     NestedOK, NestedAt, InTurnCode, TurnPcs
<1>4. NestedAt(m)'
  BY DEF IType, TypeOK, NestedOK, NestedAt, InTurnCode, TurnPcs, LoopPcs, DrainPcs, CleanupPcs,
     HandlerPcs
<1> QED BY <1>1, <1>2, <1>3, <1>4, LocalStep

LEMMA Type_QueueLookup ==
    ASSUME IType, NEW m \in Msgs, QueueLookup(m)
    PROVE  IType'
<1> USE DEF QueueLookup, On, At, Goto, Settle, stateVars, lockVars
<1> m \in Procs
  BY ProcNames
<1>1. TypeOK'
  <2>1. pc' \in [Procs -> PcValues]
    BY PcTyped, PcNames
  <2>2. ref' \in [Procs -> StateIds \cup {NoState}]
    BY StateNames DEF IType, TypeOK
  <2>3. fate' \in [Msgs -> Fates]
    BY FateNames DEF IType, TypeOK
  <2> QED BY <2>1, <2>2, <2>3 DEF IType, TypeOK
<1>2. OthersKept(m)
  BY DEF OthersKept, IType, TypeOK
<1>3. RefAt(m)'
  BY StateNames DEF IType, TypeOK, RefOK, RefAt, RefPcs, LoopPcs, DrainPcs, CleanupPcs,
     NestedOK, NestedAt, InTurnCode, TurnPcs
<1>4. NestedAt(m)'
  BY DEF IType, TypeOK, NestedOK, NestedAt, InTurnCode, TurnPcs, LoopPcs, DrainPcs, CleanupPcs,
     HandlerPcs
<1> QED BY <1>1, <1>2, <1>3, <1>4, LocalStep

LEMMA Type_QueueAppend ==
    ASSUME IType, NEW m \in Msgs, QueueAppend(m)
    PROVE  IType'
<1> USE DEF QueueAppend, On, At, Goto, Settle, stateVars, lockVars, localVars
<1> m \in Procs
  BY ProcNames
<1>r. ref[m] \in StateIds
  BY DEF IType, RefOK, RefAt, RefPcs, LoopPcs, DrainPcs
<1>1. TypeOK'
  <2>1. queue' \in [StateIds -> Seq(Msgs)]
    <3>1. queue[ref[m]] \in Seq(Msgs)
      BY <1>r DEF IType, TypeOK
    <3>2. Append(queue[ref[m]], m) \in Seq(Msgs)
      BY <3>1
    <3>3. queue' = queue \/ queue' = [queue EXCEPT ![ref[m]] = Append(queue[ref[m]], m)]
      OBVIOUS
    <3> QED BY <3>2, <3>3 DEF IType, TypeOK
  <2>2. pc' \in [Procs -> PcValues]
    BY PcTyped, PcNames
  <2>3. fate' \in [Msgs -> Fates]
    BY FateNames DEF IType, TypeOK
  <2> QED BY <2>1, <2>2, <2>3 DEF IType, TypeOK
<1>2. OthersKept(m)
  BY DEF OthersKept, IType, TypeOK
<1>3. RefAt(m)'
  BY StateNames DEF IType, TypeOK, RefOK, RefAt, RefPcs, LoopPcs, DrainPcs, CleanupPcs,
     NestedOK, NestedAt, InTurnCode, TurnPcs
<1>4. NestedAt(m)'
  BY DEF IType, TypeOK, NestedOK, NestedAt, InTurnCode, TurnPcs, LoopPcs, DrainPcs, CleanupPcs,
     HandlerPcs
<1> QED BY <1>1, <1>2, <1>3, <1>4, LocalStep

LEMMA Type_RetryLock ==
    ASSUME IType, NEW m \in Msgs, RetryLock(m)
    PROVE  IType'
<1> USE DEF RetryLock, On, At, Goto, stateVars
<1> m \in Procs
  BY ProcNames
<1>1. TypeOK'
  <2>1. busy' \in [Sessions -> BOOLEAN]
    BY DEF IType, TypeOK
  <2>2. pc' \in [Procs -> PcValues]
    BY PcTyped, PcNames
  <2>3. mode' \in [Procs -> {"turn", "orphan", "compress"}]
    BY DEF IType, TypeOK
  <2> QED BY <2>1, <2>2, <2>3 DEF IType, TypeOK
<1>2. OthersKept(m)
  BY DEF OthersKept, IType, TypeOK
<1>3. RefAt(m)'
  BY StateNames DEF IType, TypeOK, RefOK, RefAt, RefPcs, LoopPcs, DrainPcs, CleanupPcs,
     NestedOK, NestedAt, InTurnCode, TurnPcs
<1>4. NestedAt(m)'
  BY DEF IType, TypeOK, NestedOK, NestedAt, InTurnCode, TurnPcs, LoopPcs, DrainPcs, CleanupPcs,
     HandlerPcs
<1> QED BY <1>1, <1>2, <1>3, <1>4, LocalStep

LEMMA Type_OrphanLookup ==
    ASSUME IType, NEW m \in Msgs, OrphanLookup(m)
    PROVE  IType'
<1> USE DEF OrphanLookup, On, At, Goto, stateVars, lockVars
<1> m \in Procs
  BY ProcNames
<1>1. TypeOK'
  <2>1. pc' \in [Procs -> PcValues]
    BY PcTyped, PcNames
  <2>2. ref' \in [Procs -> StateIds \cup {NoState}]
    BY StateNames DEF IType, TypeOK
  <2> QED BY <2>1, <2>2 DEF IType, TypeOK
<1>2. OthersKept(m)
  BY DEF OthersKept, IType, TypeOK
<1>3. RefAt(m)'
  BY StateNames DEF IType, TypeOK, RefOK, RefAt, RefPcs, LoopPcs, DrainPcs, CleanupPcs,
     NestedOK, NestedAt, InTurnCode, TurnPcs
<1>4. NestedAt(m)'
  BY DEF IType, TypeOK, NestedOK, NestedAt, InTurnCode, TurnPcs, LoopPcs, DrainPcs, CleanupPcs,
     HandlerPcs
<1> QED BY <1>1, <1>2, <1>3, <1>4, LocalStep

LEMMA Type_OrphanCheck ==
    ASSUME IType, NEW m \in Msgs, OrphanCheck(m)
    PROVE  IType'
<1> USE DEF OrphanCheck, On, At, Usable, Goto, stateVars, lockVars, localVars
<1> m \in Procs
  BY ProcNames
<1>1. TypeOK'
  <2>1. queue' \in [StateIds -> Seq(Msgs)]
    <3>1. CASE Usable(ref[m])
      BY <3>1 DEF IType, TypeOK
    <3>2. CASE ~Usable(ref[m])
      BY <3>2, DropQueueType DEF IType
    <3> QED BY <3>1, <3>2
  <2>2. pc' \in [Procs -> PcValues]
    BY PcTyped, PcNames
  <2>3. fate' \in [Msgs -> Fates]
    <3>1. CASE Usable(ref[m])
      BY <3>1, FateNames DEF IType, TypeOK
    <3>2. CASE ~Usable(ref[m])
      BY <3>2, DropQueueType DEF IType
    <3> QED BY <3>1, <3>2
  <2> QED BY <2>1, <2>2, <2>3 DEF IType, TypeOK
<1>2. OthersKept(m)
  BY DEF OthersKept, IType, TypeOK
<1>3. RefAt(m)'
  BY StateNames DEF IType, TypeOK, RefOK, RefAt, RefPcs, LoopPcs, DrainPcs, CleanupPcs,
     NestedOK, NestedAt, InTurnCode, TurnPcs
<1>4. NestedAt(m)'
  BY DEF IType, TypeOK, NestedOK, NestedAt, InTurnCode, TurnPcs, LoopPcs, DrainPcs, CleanupPcs,
     HandlerPcs
<1> QED BY <1>1, <1>2, <1>3, <1>4, LocalStep

LEMMA Type_ReuseState ==
    ASSUME IType, NEW m \in Msgs, ReuseState(m)
    PROVE  IType'
<1> USE DEF ReuseState, On, At, Reusable, NeedRecycle, Goto, Settle, Usable, stateVars, lockVars
<1> m \in Procs
  BY ProcNames
<1>1. TypeOK'
  <2>1. pc' \in [Procs -> PcValues]
    BY PcTyped, PcNames
  <2>2. ref' \in [Procs -> StateIds \cup {NoState}]
    BY StateNames DEF IType, TypeOK
  <2>3. cur' \in [Procs -> Msgs \cup {NoMsg}]
    BY DEF IType, TypeOK
  <2>4. fate' \in [Msgs -> Fates]
    BY FateNames DEF IType, TypeOK
  <2> QED BY <2>1, <2>2, <2>3, <2>4 DEF IType, TypeOK
<1>2. OthersKept(m)
  BY DEF OthersKept, IType, TypeOK
<1>3. RefAt(m)'
  BY StateNames DEF IType, TypeOK, RefOK, RefAt, RefPcs, LoopPcs, DrainPcs, CleanupPcs,
     NestedOK, NestedAt, InTurnCode, TurnPcs
<1>4. NestedAt(m)'
  BY DEF IType, TypeOK, NestedOK, NestedAt, InTurnCode, TurnPcs, LoopPcs, DrainPcs, CleanupPcs,
     HandlerPcs
<1> QED BY <1>1, <1>2, <1>3, <1>4, LocalStep

LEMMA Type_StartState ==
    ASSUME IType, NEW m \in Msgs, NEW how \in {"resumed", "fresh", "failed"}, StartState(m, how)
    PROVE  IType'
<1> USE DEF StartState, On, At, Reusable, NeedRecycle, Adopt, Goto, Settle, Usable,
        AdoptedFrom, lockVars
<1> m \in Procs
  BY ProcNames
<1>1. TypeOK'
  <2>1. table' \in StateIds \cup {NoState}
    BY StateNames DEF IType, TypeOK
  <2>2. attached' \in [StateIds -> BOOLEAN]
    BY StateNames DEF IType, TypeOK
  <2>3. agent' \in [StateIds -> {"none", "live", "dead"}]
    BY StateNames DEF IType, TypeOK
  <2>4. have' \in [StateIds -> StateIds \cup {NoState}]
    BY StateNames DEF IType, TypeOK
  <2>5. stopped' \in [StateIds -> BOOLEAN]
    BY DEF IType, TypeOK
  <2>6. queue' \in [StateIds -> Seq(Msgs)]
    BY DEF IType, TypeOK
  <2>7. pc' \in [Procs -> PcValues]
    BY PcTyped, PcNames
  <2>8. ref' \in [Procs -> StateIds \cup {NoState}]
    BY StateNames DEF IType, TypeOK
  <2>9. cur' \in [Procs -> Msgs \cup {NoMsg}]
    BY DEF IType, TypeOK
  <2>10. fate' \in [Msgs -> Fates]
    BY FateNames DEF IType, TypeOK
  <2> QED BY <2>1, <2>2, <2>3, <2>4, <2>5, <2>6, <2>7, <2>8, <2>9, <2>10 DEF IType, TypeOK
<1>2. OthersKept(m)
  BY DEF OthersKept, IType, TypeOK
<1>3. RefAt(m)'
  BY StateNames DEF IType, TypeOK, RefOK, RefAt, RefPcs, LoopPcs, DrainPcs, CleanupPcs,
     NestedOK, NestedAt, InTurnCode, TurnPcs
<1>4. NestedAt(m)'
  BY DEF IType, TypeOK, NestedOK, NestedAt, InTurnCode, TurnPcs, LoopPcs, DrainPcs, CleanupPcs,
     HandlerPcs
<1> QED BY <1>1, <1>2, <1>3, <1>4, LocalStep

LEMMA Type_Begin ==
    ASSUME IType, NEW m \in Msgs, Begin(m)
    PROVE  IType'
<1> USE DEF Begin, On, At, Goto, Settle, stateVars, lockVars, localVars
<1> m \in Procs
  BY ProcNames
<1>1. TypeOK'
  <2>1. pc' \in [Procs -> PcValues]
    BY PcTyped, PcNames
  <2>2. fate' \in [Msgs -> Fates]
    BY FateNames DEF IType, TypeOK
  <2> QED BY <2>1, <2>2 DEF IType, TypeOK
<1>2. OthersKept(m)
  BY DEF OthersKept, IType, TypeOK
<1>3. RefAt(m)'
  BY StateNames DEF IType, TypeOK, RefOK, RefAt, RefPcs, LoopPcs, DrainPcs, CleanupPcs,
     NestedOK, NestedAt, InTurnCode, TurnPcs
<1>4. NestedAt(m)'
  BY DEF IType, TypeOK, NestedOK, NestedAt, InTurnCode, TurnPcs, LoopPcs, DrainPcs, CleanupPcs,
     HandlerPcs
<1> QED BY <1>1, <1>2, <1>3, <1>4, LocalStep

LEMMA Type_OpenEvents ==
    ASSUME IType, NEW p \in Procs, OpenEvents(p)
    PROVE  IType'
<1> USE DEF OpenEvents, On, At, UseAgent, Goto, stateVars, lockVars, localVars
<1> p \in Procs
  BY ProcNames
<1>1. TypeOK'
  <2>1. pc' \in [Procs -> PcValues]
    BY PcTyped, PcNames
  <2>2. crashed' \in BOOLEAN
    BY DEF IType, TypeOK
  <2> QED BY <2>1, <2>2 DEF IType, TypeOK
<1>2. OthersKept(p)
  BY DEF OthersKept, IType, TypeOK
<1>3. RefAt(p)'
  BY StateNames DEF IType, TypeOK, RefOK, RefAt, RefPcs, LoopPcs, DrainPcs, CleanupPcs,
     NestedOK, NestedAt, InTurnCode, TurnPcs
<1>4. NestedAt(p)'
  BY DEF IType, TypeOK, NestedOK, NestedAt, InTurnCode, TurnPcs, LoopPcs, DrainPcs, CleanupPcs,
     HandlerPcs
<1> QED BY <1>1, <1>2, <1>3, <1>4, LocalStep

LEMMA Type_NextQueued ==
    ASSUME IType, NEW p \in Procs, NextQueued(p)
    PROVE  IType'
<1> USE DEF NextQueued, On, At, Goto, stateVars, lockVars
<1> p \in Procs
  BY ProcNames
<1>r. ref[p] \in StateIds
  BY DEF IType, RefOK, RefAt, RefPcs, LoopPcs, DrainPcs
<1>1. TypeOK'
  <2>1. queue' \in [StateIds -> Seq(Msgs)]
    <3>1. CASE queue[ref[p]] = <<>>
      BY <3>1 DEF IType, TypeOK
    <3>2. CASE queue[ref[p]] # <<>>
      BY <3>2, <1>r, PopType DEF IType
    <3> QED BY <3>1, <3>2
  <2>2. pc' \in [Procs -> PcValues]
    BY PcTyped, PcNames
  <2>3. cur' \in [Procs -> Msgs \cup {NoMsg}]
    <3>1. CASE queue[ref[p]] = <<>>
      BY <3>1 DEF IType, TypeOK
    <3>2. CASE queue[ref[p]] # <<>>
      BY <3>2, <1>r, PopType DEF IType
    <3> QED BY <3>1, <3>2
  <2>4. fate' \in [Msgs -> Fates]
    <3>1. CASE queue[ref[p]] = <<>>
      BY <3>1 DEF IType, TypeOK
    <3>2. CASE queue[ref[p]] # <<>>
      BY <3>2, <1>r, PopType DEF IType
    <3> QED BY <3>1, <3>2
  <2> QED BY <2>1, <2>2, <2>3, <2>4 DEF IType, TypeOK
<1>2. OthersKept(p)
  BY DEF OthersKept, IType, TypeOK
<1>3. RefAt(p)'
  BY StateNames DEF IType, TypeOK, RefOK, RefAt, RefPcs, LoopPcs, DrainPcs, CleanupPcs,
     NestedOK, NestedAt, InTurnCode, TurnPcs
<1>4. NestedAt(p)'
  BY DEF IType, TypeOK, NestedOK, NestedAt, InTurnCode, TurnPcs, LoopPcs, DrainPcs, CleanupPcs,
     HandlerPcs
<1> QED BY <1>1, <1>2, <1>3, <1>4, LocalStep

LEMMA Type_LoopStopped ==
    ASSUME IType, NEW p \in Procs, LoopStopped(p)
    PROVE  IType'
<1> USE DEF LoopStopped, On, At, Goto, Settle, stateVars, lockVars, localVars
<1> p \in Procs
  BY ProcNames
<1>1. TypeOK'
  <2>1. pc' \in [Procs -> PcValues]
    BY PcTyped, PcNames
  <2>2. fate' \in [Msgs -> Fates]
    BY FateNames DEF IType, TypeOK
  <2> QED BY <2>1, <2>2 DEF IType, TypeOK
<1>2. OthersKept(p)
  BY DEF OthersKept, IType, TypeOK
<1>3. RefAt(p)'
  BY StateNames DEF IType, TypeOK, RefOK, RefAt, RefPcs, LoopPcs, DrainPcs, CleanupPcs,
     NestedOK, NestedAt, InTurnCode, TurnPcs
<1>4. NestedAt(p)'
  BY DEF IType, TypeOK, NestedOK, NestedAt, InTurnCode, TurnPcs, LoopPcs, DrainPcs, CleanupPcs,
     HandlerPcs
<1> QED BY <1>1, <1>2, <1>3, <1>4, LocalStep

LEMMA Type_LoopResult ==
    ASSUME IType, NEW p \in Procs, NEW how \in {"reply", "unsent", "compress"}, LoopResult(p, how)
    PROVE  IType'
<1> USE DEF LoopResult, On, At, Goto, Settle, stateVars
<1> p \in Procs
  BY ProcNames
<1>r. ref[p] \in StateIds
  BY DEF IType, RefOK, RefAt, RefPcs, LoopPcs, DrainPcs
<1>1. TypeOK'
  <2>1. want' \in [Sessions -> StateIds \cup {NoState}]
    <3>1. CASE attached[ref[p]] /\ want[sess[p]] = NoState
      BY <3>1, <1>r DEF IType, TypeOK
    <3>2. CASE ~(attached[ref[p]] /\ want[sess[p]] = NoState)
      BY <3>2 DEF IType, TypeOK
    <3> QED BY <3>1, <3>2
  <2>2. pc' \in [Procs -> PcValues]
    <3>1. CASE how = "reply"
      BY <3>1, PcTyped, PcNames
    <3>2. CASE how = "unsent"
      BY <3>2, PcTyped, PcNames
    <3>3. CASE how = "compress"
      BY <3>3, PcTyped, PcNames
    <3> QED BY <3>1, <3>2, <3>3
  <2>3. nested' \in [Procs -> BOOLEAN]
    BY DEF IType, TypeOK
  <2>4. fate' \in [Msgs -> Fates]
    <3>1. fate \in [Msgs -> Fates]
      BY DEF IType, TypeOK
    <3>2. \/ fate' = [fate EXCEPT ![cur[p]] = "answered"]
          \/ fate' = [fate EXCEPT ![cur[p]] = "unsent"]
      OBVIOUS
    <3> QED BY <3>1, <3>2, FateNames
  <2> QED BY <2>1, <2>2, <2>3, <2>4 DEF IType, TypeOK
<1>2. OthersKept(p)
  BY DEF OthersKept, IType, TypeOK
<1>3. RefAt(p)'
  BY StateNames DEF IType, TypeOK, RefOK, RefAt, RefPcs, LoopPcs, DrainPcs, CleanupPcs,
     NestedOK, NestedAt, InTurnCode, TurnPcs
<1>4. NestedAt(p)'
  BY DEF IType, TypeOK, NestedOK, NestedAt, InTurnCode, TurnPcs, LoopPcs, DrainPcs, CleanupPcs,
     HandlerPcs
<1> QED BY <1>1, <1>2, <1>3, <1>4, LocalStep

LEMMA Type_LoopError ==
    ASSUME IType, NEW p \in Procs, LoopError(p)
    PROVE  IType'
<1> USE DEF LoopError, On, At, Usable, Goto, Settle, stateVars, lockVars, localVars
<1> p \in Procs
  BY ProcNames
<1>1. TypeOK'
  <2>1. queue' \in [StateIds -> Seq(Msgs)]
    <3>1. CASE Usable(ref[p])
      BY <3>1 DEF IType, TypeOK
    <3>2. CASE ~Usable(ref[p])
      BY <3>2, OutcomeNames, DropQueueAndType DEF IType
    <3> QED BY <3>1, <3>2
  <2>2. pc' \in [Procs -> PcValues]
    BY PcTyped, PcNames
  <2>3. fate' \in [Msgs -> Fates]
    <3>1. CASE Usable(ref[p])
      BY <3>1, FateNames DEF IType, TypeOK
    <3>2. CASE ~Usable(ref[p])
      BY <3>2, OutcomeNames, DropQueueAndType DEF IType
    <3> QED BY <3>1, <3>2
  <2> QED BY <2>1, <2>2, <2>3 DEF IType, TypeOK
<1>2. OthersKept(p)
  BY DEF OthersKept, IType, TypeOK
<1>3. RefAt(p)'
  BY StateNames DEF IType, TypeOK, RefOK, RefAt, RefPcs, LoopPcs, DrainPcs, CleanupPcs,
     NestedOK, NestedAt, InTurnCode, TurnPcs
<1>4. NestedAt(p)'
  BY DEF IType, TypeOK, NestedOK, NestedAt, InTurnCode, TurnPcs, LoopPcs, DrainPcs, CleanupPcs,
     HandlerPcs
<1> QED BY <1>1, <1>2, <1>3, <1>4, LocalStep

LEMMA Type_LoopSendError ==
    ASSUME IType, NEW p \in Procs, LoopSendError(p)
    PROVE  IType'
<1> USE DEF LoopSendError, On, At, CleanupOwn, Usable, Goto, stateVars, lockVars
<1> p \in Procs
  BY ProcNames
<1>1. TypeOK'
  <2>1. queue' \in [StateIds -> Seq(Msgs)]
    BY OutcomeNames, DropQueueAndType DEF IType
  <2>2. pc' \in [Procs -> PcValues]
    BY PcTyped, PcNames
  <2>3. expect' \in [Procs -> StateIds \cup {NoState}]
    BY LocalTyped
  <2>4. back' \in [Procs -> {"drain", "exit", "cnotify", "forget", "renew", "done"}]
    BY DEF IType, TypeOK
  <2>5. fate' \in [Msgs -> Fates]
    BY OutcomeNames, DropQueueAndType DEF IType
  <2> QED BY <2>1, <2>2, <2>3, <2>4, <2>5 DEF IType, TypeOK
<1>2. OthersKept(p)
  BY DEF OthersKept, IType, TypeOK
<1>3. RefAt(p)'
  BY StateNames DEF IType, TypeOK, RefOK, RefAt, RefPcs, LoopPcs, DrainPcs, CleanupPcs,
     NestedOK, NestedAt, InTurnCode, TurnPcs
<1>4. NestedAt(p)'
  BY DEF IType, TypeOK, NestedOK, NestedAt, InTurnCode, TurnPcs, LoopPcs, DrainPcs, CleanupPcs,
     HandlerPcs
<1> QED BY <1>1, <1>2, <1>3, <1>4, LocalStep

LEMMA Type_LoopIdle ==
    ASSUME IType, NEW p \in Procs, LoopIdle(p)
    PROVE  IType'
<1> USE DEF LoopIdle, On, At, CleanupOwn, Settle, Goto, stateVars, lockVars
<1> p \in Procs
  BY ProcNames
<1>1. TypeOK'
  <2>1. pc' \in [Procs -> PcValues]
    BY PcTyped, PcNames
  <2>2. expect' \in [Procs -> StateIds \cup {NoState}]
    BY StateNames DEF IType, TypeOK
  <2>3. back' \in [Procs -> {"drain", "exit", "cnotify", "forget", "renew", "done"}]
    BY DEF IType, TypeOK
  <2>4. fate' \in [Msgs -> Fates]
    BY FateNames DEF IType, TypeOK
  <2> QED BY <2>1, <2>2, <2>3, <2>4 DEF IType, TypeOK
<1>2. OthersKept(p)
  BY DEF OthersKept, IType, TypeOK
<1>3. RefAt(p)'
  BY StateNames DEF IType, TypeOK, RefOK, RefAt, RefPcs, LoopPcs, DrainPcs, CleanupPcs,
     NestedOK, NestedAt, InTurnCode, TurnPcs
<1>4. NestedAt(p)'
  BY DEF IType, TypeOK, NestedOK, NestedAt, InTurnCode, TurnPcs, LoopPcs, DrainPcs, CleanupPcs,
     HandlerPcs
<1> QED BY <1>1, <1>2, <1>3, <1>4, LocalStep

LEMMA Type_LoopClosed ==
    ASSUME IType, NEW p \in Procs, LoopClosed(p)
    PROVE  IType'
<1> USE DEF LoopClosed, On, At, CleanupOwn, Goto, stateVars, lockVars
<1> p \in Procs
  BY ProcNames
<1>1. TypeOK'
  <2>1. queue' \in [StateIds -> Seq(Msgs)]
    BY OutcomeNames, DropQueueAndType DEF IType
  <2>2. pc' \in [Procs -> PcValues]
    BY PcTyped, PcNames
  <2>3. expect' \in [Procs -> StateIds \cup {NoState}]
    BY StateNames DEF IType, TypeOK
  <2>4. back' \in [Procs -> {"drain", "exit", "cnotify", "forget", "renew", "done"}]
    BY DEF IType, TypeOK
  <2>5. fate' \in [Msgs -> Fates]
    BY OutcomeNames, DropQueueAndType DEF IType
  <2> QED BY <2>1, <2>2, <2>3, <2>4, <2>5 DEF IType, TypeOK
<1>2. OthersKept(p)
  BY DEF OthersKept, IType, TypeOK
<1>3. RefAt(p)'
  BY StateNames DEF IType, TypeOK, RefOK, RefAt, RefPcs, LoopPcs, DrainPcs, CleanupPcs,
     NestedOK, NestedAt, InTurnCode, TurnPcs
<1>4. NestedAt(p)'
  BY DEF IType, TypeOK, NestedOK, NestedAt, InTurnCode, TurnPcs, LoopPcs, DrainPcs, CleanupPcs,
     HandlerPcs
<1> QED BY <1>1, <1>2, <1>3, <1>4, LocalStep

LEMMA Type_LoopAsk ==
    ASSUME IType, NEW p \in Procs, LoopAsk(p)
    PROVE  IType'
<1> USE DEF LoopAsk, On, At, Goto, stateVars, lockVars, localVars
<1>1. TypeOK'
  <2>1. pc' \in [Procs -> PcValues]
    BY PcTyped, PcNames
  <2> QED BY <2>1 DEF IType, TypeOK
<1>2. OthersKept(p)
  BY DEF OthersKept, IType, TypeOK
<1>3. RefAt(p)'
  BY StateNames DEF IType, TypeOK, RefOK, RefAt, RefPcs, LoopPcs, DrainPcs, CleanupPcs,
     NestedOK, NestedAt, InTurnCode, TurnPcs
<1>4. NestedAt(p)'
  BY DEF IType, TypeOK, NestedOK, NestedAt, InTurnCode, TurnPcs, LoopPcs, DrainPcs, CleanupPcs,
     HandlerPcs
<1> QED BY <1>1, <1>2, <1>3, <1>4, LocalStep

LEMMA Type_Pend ==
    ASSUME IType, NEW p \in Procs, Pend(p)
    PROVE  IType'
<1> USE DEF Pend, On, At, Goto, lockVars, localVars
<1>1. TypeOK'
  <2>1. pc' \in [Procs -> PcValues]
    BY PcTyped, PcNames
  <2>2. request' \in [Procs -> {"none", "pending", "answered", "lost"}]
    BY DEF IType, TypeOK
  <2> QED BY <2>1, <2>2 DEF IType, TypeOK
<1>2. OthersKept(p)
  BY DEF OthersKept, IType, TypeOK
<1>3. RefAt(p)'
  BY StateNames DEF IType, TypeOK, RefOK, RefAt, RefPcs, LoopPcs, DrainPcs, CleanupPcs,
     NestedOK, NestedAt, InTurnCode, TurnPcs
<1>4. NestedAt(p)'
  BY DEF IType, TypeOK, NestedOK, NestedAt, InTurnCode, TurnPcs, LoopPcs, DrainPcs, CleanupPcs,
     HandlerPcs
<1> QED BY <1>1, <1>2, <1>3, <1>4, LocalStep

LEMMA Type_Resume ==
    ASSUME IType, NEW p \in Procs, Resume(p)
    PROVE  IType'
<1> USE DEF Resume, On, At, Goto, lockVars, localVars
<1>1. TypeOK'
  <2>1. pc' \in [Procs -> PcValues]
    BY PcTyped, PcNames
  <2>2. request' \in [Procs -> {"none", "pending", "answered", "lost"}]
    BY DEF IType, TypeOK
  <2> QED BY <2>1, <2>2 DEF IType, TypeOK
<1>2. OthersKept(p)
  BY DEF OthersKept, IType, TypeOK
<1>3. RefAt(p)'
  BY StateNames DEF IType, TypeOK, RefOK, RefAt, RefPcs, LoopPcs, DrainPcs, CleanupPcs,
     NestedOK, NestedAt, InTurnCode, TurnPcs
<1>4. NestedAt(p)'
  BY DEF IType, TypeOK, NestedOK, NestedAt, InTurnCode, TurnPcs, LoopPcs, DrainPcs, CleanupPcs,
     HandlerPcs
<1> QED BY <1>1, <1>2, <1>3, <1>4, LocalStep

LEMMA Type_Answer ==
    ASSUME IType, NEW p \in Procs, Answer(p)
    PROVE  IType'
<1> USE DEF Answer, lockVars, localVars
<1>1. TypeOK'
  <2>1. request' \in [Procs -> {"none", "pending", "answered", "lost"}]
    <3>1. request \in [Procs -> {"none", "pending", "answered", "lost"}]
      BY DEF IType, TypeOK
    <3>2. request' = request \/ request' = [request EXCEPT ![p] = "answered"]
      OBVIOUS
    <3> QED BY <3>1, <3>2
  <2>2. crashed' \in BOOLEAN
    BY DEF IType, TypeOK
  <2> QED BY <2>1, <2>2 DEF IType, TypeOK
<1>2. RefOK' /\ NestedOK'
  BY DEF IType, RefOK, RefAt, NestedOK, NestedAt, InTurnCode
<1> QED BY <1>1, <1>2 DEF IType

LEMMA Type_Drain ==
    ASSUME IType, NEW p \in Procs, Drain(p)
    PROVE  IType'
<1> USE DEF Drain, On, At, Unlock, Goto, stateVars
<1> p \in Procs
  BY ProcNames
<1>r. ref[p] \in StateIds
  BY DEF IType, RefOK, RefAt, RefPcs, LoopPcs, DrainPcs
<1>1. TypeOK'
  <2>1. queue' \in [StateIds -> Seq(Msgs)]
    <3>1. CASE queue[ref[p]] = <<>>
      BY <3>1 DEF IType, TypeOK
    <3>2. CASE queue[ref[p]] # <<>>
      BY <3>2, <1>r, PopType DEF IType
    <3> QED BY <3>1, <3>2
  <2>2. busy' \in [Sessions -> BOOLEAN]
    BY DEF IType, TypeOK
  <2>3. pc' \in [Procs -> PcValues]
    BY PcTyped, PcNames
  <2>4. cur' \in [Procs -> Msgs \cup {NoMsg}]
    <3>1. CASE queue[ref[p]] = <<>>
      BY <3>1 DEF IType, TypeOK
    <3>2. CASE queue[ref[p]] # <<>>
      BY <3>2, <1>r, PopType DEF IType
    <3> QED BY <3>1, <3>2
  <2>5. nested' \in [Procs -> BOOLEAN]
    BY DEF IType, TypeOK
  <2>6. fate' \in [Msgs -> Fates]
    <3>1. CASE queue[ref[p]] = <<>>
      BY <3>1 DEF IType, TypeOK
    <3>2. CASE queue[ref[p]] # <<>>
      BY <3>2, <1>r, PopType DEF IType
    <3> QED BY <3>1, <3>2
  <2> QED BY <2>1, <2>2, <2>3, <2>4, <2>5, <2>6 DEF IType, TypeOK
<1>2. OthersKept(p)
  BY DEF OthersKept, IType, TypeOK
<1>3. RefAt(p)'
  BY StateNames DEF IType, TypeOK, RefOK, RefAt, RefPcs, LoopPcs, DrainPcs, CleanupPcs,
     NestedOK, NestedAt, InTurnCode, TurnPcs
<1>4. NestedAt(p)'
  BY DEF IType, TypeOK, NestedOK, NestedAt, InTurnCode, TurnPcs, LoopPcs, DrainPcs, CleanupPcs,
     HandlerPcs
<1> QED BY <1>1, <1>2, <1>3, <1>4, LocalStep

LEMMA Type_Deliver ==
    ASSUME IType, NEW p \in Procs, Deliver(p)
    PROVE  IType'
<1> USE DEF Deliver, On, At, Usable, Goto, stateVars, lockVars, localVars
<1> p \in Procs
  BY ProcNames
<1>1. TypeOK'
  <2>1. queue' \in [StateIds -> Seq(Msgs)]
    <3>1. CASE Usable(ref[p])
      BY <3>1 DEF IType, TypeOK
    <3>2. CASE ~Usable(ref[p])
      BY <3>2, OutcomeNames, DropQueueAndType DEF IType
    <3> QED BY <3>1, <3>2
  <2>2. pc' \in [Procs -> PcValues]
    BY PcTyped, PcNames
  <2>3. fate' \in [Msgs -> Fates]
    <3>1. CASE Usable(ref[p])
      BY <3>1, FateNames DEF IType, TypeOK
    <3>2. CASE ~Usable(ref[p])
      BY <3>2, OutcomeNames, DropQueueAndType DEF IType
    <3> QED BY <3>1, <3>2
  <2> QED BY <2>1, <2>2, <2>3 DEF IType, TypeOK
<1>2. OthersKept(p)
  BY DEF OthersKept, IType, TypeOK
<1>3. RefAt(p)'
  BY StateNames DEF IType, TypeOK, RefOK, RefAt, RefPcs, LoopPcs, DrainPcs, CleanupPcs,
     NestedOK, NestedAt, InTurnCode, TurnPcs
<1>4. NestedAt(p)'
  BY DEF IType, TypeOK, NestedOK, NestedAt, InTurnCode, TurnPcs, LoopPcs, DrainPcs, CleanupPcs,
     HandlerPcs
<1> QED BY <1>1, <1>2, <1>3, <1>4, LocalStep

LEMMA Type_Exit ==
    ASSUME IType, NEW p \in Procs, Exit(p)
    PROVE  IType'
<1> USE DEF Exit, On, At, Unlock, Goto, stateVars
<1> p \in Procs
  BY ProcNames
<1>1. TypeOK'
  <2>1. busy' \in [Sessions -> BOOLEAN]
    BY DEF IType, TypeOK
  <2>2. pc' \in [Procs -> PcValues]
    BY PcTyped, PcNames
  <2>3. nested' \in [Procs -> BOOLEAN]
    BY DEF IType, TypeOK
  <2> QED BY <2>1, <2>2, <2>3 DEF IType, TypeOK
<1>2. OthersKept(p)
  BY DEF OthersKept, IType, TypeOK
<1>3. RefAt(p)'
  BY StateNames DEF IType, TypeOK, RefOK, RefAt, RefPcs, LoopPcs, DrainPcs, CleanupPcs,
     NestedOK, NestedAt, InTurnCode, TurnPcs
<1>4. NestedAt(p)'
  BY DEF IType, TypeOK, NestedOK, NestedAt, InTurnCode, TurnPcs, LoopPcs, DrainPcs, CleanupPcs,
     HandlerPcs
<1> QED BY <1>1, <1>2, <1>3, <1>4, LocalStep

LEMMA Type_Detach ==
    ASSUME IType, NEW p \in Procs, Detach(p)
    PROVE  IType'
<1> USE DEF Detach, On, At, Goto, lockVars
<1> p \in Procs
  BY ProcNames
<1>1. TypeOK'
  <2>1. attached' \in [StateIds -> BOOLEAN]
    BY DEF IType, TypeOK
  <2>2. pc' \in [Procs -> PcValues]
    <3>1. CASE Named(p) /\ table # expect[p]
      BY <3>1, BackNames DEF IType, TypeOK
    <3>2. CASE ~(Named(p) /\ table # expect[p])
      BY <3>2, PcTyped, PcNames
    <3> QED BY <3>1, <3>2
  <2>3. expect' \in [Procs -> StateIds \cup {NoState}]
    BY LocalTyped
  <2>4. grab' \in [Procs -> StateIds \cup {NoState}]
    BY LocalTyped
  <2> QED BY <2>1, <2>2, <2>3, <2>4 DEF IType, TypeOK
<1>2. OthersKept(p)
  BY DEF OthersKept, IType, TypeOK
<1>3. RefAt(p)'
  <2> USE DEF RefAt, RefPcs, LoopPcs, DrainPcs, CleanupPcs, NestedOK, NestedAt, InTurnCode, TurnPcs
  <2>0. /\ back' = back /\ nested' = nested /\ pc[p] = "detach"
        /\ back[p] \in {"drain", "exit", "cnotify", "forget", "renew", "done"}
        /\ back[p] \in {"drain", "cnotify"} \/ nested[p] => ref[p] \in StateIds
    BY DEF IType, TypeOK, RefOK
  <2>1. CASE Named(p) /\ table # expect[p]
    <3>1. pc'[p] = back[p] /\ ref'[p] = ref[p]
      BY <2>1 DEF IType, TypeOK
    <3> QED BY <2>0, <3>1
  <2>2. CASE ~(Named(p) /\ table # expect[p]) /\ table = NoState
    <3>1. pc'[p] = "remove" /\ ref'[p] = ref[p]
      BY <2>2 DEF IType, TypeOK
    <3> QED BY <2>0, <3>1
  <2>3. CASE ~(Named(p) /\ table # expect[p]) /\ table # NoState
    <3>1. expect'[p] \in StateIds /\ pc'[p] = "markstop" /\ ref'[p] = ref[p]
      BY <2>3 DEF IType, TypeOK
    <3> QED BY <2>0, <3>1
  <2> QED BY <2>1, <2>2, <2>3
<1>4. NestedAt(p)'
  BY DEF IType, TypeOK, NestedOK, NestedAt, InTurnCode, TurnPcs, LoopPcs, DrainPcs, CleanupPcs,
     HandlerPcs
<1> QED BY <1>1, <1>2, <1>3, <1>4, LocalStep

LEMMA TakePendingType ==
    ASSUME IType, NEW s
    PROVE  TakePending(s) \in [Procs -> {"none", "pending", "answered", "lost"}]
  BY DEF IType, TypeOK, TakePending

LEMMA Type_MarkStopped ==
    ASSUME IType, NEW p \in Procs, MarkStopped(p)
    PROVE  IType'
<1> USE DEF MarkStopped, On, At, Goto, lockVars, localVars
<1> p \in Procs
  BY ProcNames
<1>1. TypeOK'
  <2>1. stopped' \in [StateIds -> BOOLEAN]
    BY DEF IType, TypeOK
  <2>2. pc' \in [Procs -> PcValues]
    BY PcTyped, PcNames
  <2>3. request' \in [Procs -> {"none", "pending", "answered", "lost"}]
    BY TakePendingType
  <2> QED BY <2>1, <2>2, <2>3 DEF IType, TypeOK
<1>2. OthersKept(p)
  BY DEF OthersKept, IType, TypeOK
<1>3. RefAt(p)'
  BY StateNames DEF IType, TypeOK, RefOK, RefAt, RefPcs, LoopPcs, DrainPcs, CleanupPcs,
     NestedOK, NestedAt, InTurnCode, TurnPcs
<1>4. NestedAt(p)'
  BY DEF IType, TypeOK, NestedOK, NestedAt, InTurnCode, TurnPcs, LoopPcs, DrainPcs, CleanupPcs,
     HandlerPcs
<1> QED BY <1>1, <1>2, <1>3, <1>4, LocalStep

LEMMA Type_NotifyDropped ==
    ASSUME IType, NEW p \in Procs, NotifyDropped(p)
    PROVE  IType'
<1> USE DEF NotifyDropped, On, At, Goto, stateVars, lockVars, localVars
<1> p \in Procs
  BY ProcNames
<1>1. TypeOK'
  <2>1. queue' \in [StateIds -> Seq(Msgs)]
    BY DropQueueType DEF IType
  <2>2. pc' \in [Procs -> PcValues]
    BY PcTyped, PcNames
  <2>3. fate' \in [Msgs -> Fates]
    BY DropQueueType DEF IType
  <2> QED BY <2>1, <2>2, <2>3 DEF IType, TypeOK
<1>2. OthersKept(p)
  BY DEF OthersKept, IType, TypeOK
<1>3. RefAt(p)'
  BY StateNames DEF IType, TypeOK, RefOK, RefAt, RefPcs, LoopPcs, DrainPcs, CleanupPcs,
     NestedOK, NestedAt, InTurnCode, TurnPcs
<1>4. NestedAt(p)'
  BY DEF IType, TypeOK, NestedOK, NestedAt, InTurnCode, TurnPcs, LoopPcs, DrainPcs, CleanupPcs,
     HandlerPcs
<1> QED BY <1>1, <1>2, <1>3, <1>4, LocalStep

LEMMA Type_CloseAgent ==
    ASSUME IType, NEW p \in Procs, CloseAgent(p)
    PROVE  IType'
<1> USE DEF CloseAgent, On, At, Goto, lockVars, localVars
<1> p \in Procs
  BY ProcNames
<1>1. TypeOK'
  <2>1. agent' \in [StateIds -> {"none", "live", "dead"}]
    BY DEF IType, TypeOK
  <2>2. pc' \in [Procs -> PcValues]
    BY PcTyped, PcNames
  <2> QED BY <2>1, <2>2 DEF IType, TypeOK
<1>2. OthersKept(p)
  BY DEF OthersKept, IType, TypeOK
<1>3. RefAt(p)'
  BY StateNames DEF IType, TypeOK, RefOK, RefAt, RefPcs, LoopPcs, DrainPcs, CleanupPcs,
     NestedOK, NestedAt, InTurnCode, TurnPcs
<1>4. NestedAt(p)'
  BY DEF IType, TypeOK, NestedOK, NestedAt, InTurnCode, TurnPcs, LoopPcs, DrainPcs, CleanupPcs,
     HandlerPcs
<1> QED BY <1>1, <1>2, <1>3, <1>4, LocalStep

LEMMA Type_RemoveEntry ==
    ASSUME IType, NEW p \in Procs, RemoveEntry(p)
    PROVE  IType'
<1> USE DEF RemoveEntry, On, At, Goto, Replaced, lockVars
<1> p \in Procs
  BY ProcNames
<1>1. TypeOK'
  <2>1. table' \in StateIds \cup {NoState}
    BY StateNames DEF IType, TypeOK
  <2>2. pc' \in [Procs -> PcValues]
    BY BackNames, PcTyped DEF IType, TypeOK
  <2>3. grab' \in [Procs -> StateIds \cup {NoState}]
    BY StateNames DEF IType, TypeOK
  <2> QED BY <2>1, <2>2, <2>3 DEF IType, TypeOK
<1>2. OthersKept(p)
  BY DEF OthersKept, IType, TypeOK
<1>3. RefAt(p)'
  BY StateNames DEF IType, TypeOK, RefOK, RefAt, RefPcs, LoopPcs, DrainPcs, CleanupPcs,
     NestedOK, NestedAt, InTurnCode, TurnPcs
<1>4. NestedAt(p)'
  BY DEF IType, TypeOK, NestedOK, NestedAt, InTurnCode, TurnPcs, LoopPcs, DrainPcs, CleanupPcs,
     HandlerPcs
<1> QED BY <1>1, <1>2, <1>3, <1>4, LocalStep

LEMMA Type_CompressSend ==
    ASSUME IType, NEW p \in Procs, CompressSend(p)
    PROVE  IType'
<1> USE DEF CompressSend, On, At, Usable, Goto, stateVars, lockVars
<1> p \in Procs
  BY ProcNames
<1>1. TypeOK'
  <2>1. pc' \in [Procs -> PcValues]
    <3>1. \/ pc' = pc \/ pc' = [pc EXCEPT ![p] = "cwait"]
          \/ pc' = [pc EXCEPT ![p] = "exit"] \/ pc' = [pc EXCEPT ![p] = "detach"]
      OBVIOUS
    <3> HIDE DEF CompressSend
    <3> QED BY <3>1, PcTyped, PcNames
  <2>2. back' \in [Procs -> {"drain", "exit", "cnotify", "forget", "renew", "done"}]
    BY DEF IType, TypeOK
  <2>3. crashed' \in BOOLEAN
    BY DEF IType, TypeOK
  <2> QED BY <2>1, <2>2, <2>3 DEF IType, TypeOK
<1>2. OthersKept(p)
  BY DEF OthersKept, IType, TypeOK
<1>3. RefAt(p)'
  BY StateNames DEF IType, TypeOK, RefOK, RefAt, RefPcs, LoopPcs, DrainPcs, CleanupPcs,
     NestedOK, NestedAt, InTurnCode, TurnPcs
<1>4. NestedAt(p)'
  BY DEF IType, TypeOK, NestedOK, NestedAt, InTurnCode, TurnPcs, LoopPcs, DrainPcs, CleanupPcs,
     HandlerPcs
<1> QED BY <1>1, <1>2, <1>3, <1>4, LocalStep

LEMMA Type_CompressStopped ==
    ASSUME IType, NEW p \in Procs, CompressStopped(p)
    PROVE  IType'
<1> USE DEF CompressStopped, On, At, Goto, stateVars, lockVars, localVars
<1> p \in Procs
  BY ProcNames
<1>1. TypeOK'
  <2>1. pc' \in [Procs -> PcValues]
    BY PcTyped, PcNames
  <2> QED BY <2>1 DEF IType, TypeOK
<1>2. OthersKept(p)
  BY DEF OthersKept, IType, TypeOK
<1>3. RefAt(p)'
  BY StateNames DEF IType, TypeOK, RefOK, RefAt, RefPcs, LoopPcs, DrainPcs, CleanupPcs,
     NestedOK, NestedAt, InTurnCode, TurnPcs
<1>4. NestedAt(p)'
  BY DEF IType, TypeOK, NestedOK, NestedAt, InTurnCode, TurnPcs, LoopPcs, DrainPcs, CleanupPcs,
     HandlerPcs
<1> QED BY <1>1, <1>2, <1>3, <1>4, LocalStep

LEMMA Type_CompressResult ==
    ASSUME IType, NEW p \in Procs, CompressResult(p)
    PROVE  IType'
<1> USE DEF CompressResult, On, At, Goto, stateVars, lockVars, localVars
<1> p \in Procs
  BY ProcNames
<1>1. TypeOK'
  <2>1. pc' \in [Procs -> PcValues]
    BY PcTyped, PcNames
  <2> QED BY <2>1 DEF IType, TypeOK
<1>2. OthersKept(p)
  BY DEF OthersKept, IType, TypeOK
<1>3. RefAt(p)'
  BY StateNames DEF IType, TypeOK, RefOK, RefAt, RefPcs, LoopPcs, DrainPcs, CleanupPcs,
     NestedOK, NestedAt, InTurnCode, TurnPcs
<1>4. NestedAt(p)'
  BY DEF IType, TypeOK, NestedOK, NestedAt, InTurnCode, TurnPcs, LoopPcs, DrainPcs, CleanupPcs,
     HandlerPcs
<1> QED BY <1>1, <1>2, <1>3, <1>4, LocalStep

LEMMA Type_CompressError ==
    ASSUME IType, NEW p \in Procs, CompressError(p)
    PROVE  IType'
<1> USE DEF CompressError, On, At, Goto, stateVars, lockVars, localVars
<1> p \in Procs
  BY ProcNames
<1>1. TypeOK'
  <2>1. queue' \in [StateIds -> Seq(Msgs)]
    <3>1. CASE ~attached[ref[p]] \/ Alive(ref[p])
      BY <3>1 DEF IType, TypeOK
    <3>2. CASE attached[ref[p]] /\ ~Alive(ref[p])
      BY <3>2, DropQueueType DEF IType
    <3> QED BY <3>1, <3>2
  <2>2. pc' \in [Procs -> PcValues]
    <3>1. CASE ~attached[ref[p]]
      BY <3>1, PcTyped
    <3>2. CASE attached[ref[p]] /\ Alive(ref[p])
      BY <3>2, PcTyped, PcNames
    <3>3. CASE attached[ref[p]] /\ ~Alive(ref[p])
      BY <3>3, PcTyped, PcNames
    <3> QED BY <3>1, <3>2, <3>3
  <2>3. fate' \in [Msgs -> Fates]
    <3>1. CASE ~attached[ref[p]] \/ Alive(ref[p])
      BY <3>1 DEF IType, TypeOK
    <3>2. CASE attached[ref[p]] /\ ~Alive(ref[p])
      BY <3>2, DropQueueType DEF IType
    <3> QED BY <3>1, <3>2
  <2>4. crashed' \in BOOLEAN
    BY DEF IType, TypeOK
  <2> QED BY <2>1, <2>2, <2>3, <2>4 DEF IType, TypeOK
<1>2. OthersKept(p)
  BY DEF OthersKept, IType, TypeOK
<1>3. RefAt(p)'
  BY StateNames DEF IType, TypeOK, RefOK, RefAt, RefPcs, LoopPcs, DrainPcs, CleanupPcs,
     NestedOK, NestedAt, InTurnCode, TurnPcs
<1>4. NestedAt(p)'
  BY DEF IType, TypeOK, NestedOK, NestedAt, InTurnCode, TurnPcs, LoopPcs, DrainPcs, CleanupPcs,
     HandlerPcs
<1> QED BY <1>1, <1>2, <1>3, <1>4, LocalStep

LEMMA Type_CompressGone ==
    ASSUME IType, NEW p \in Procs, CompressGone(p)
    PROVE  IType'
<1> USE DEF CompressGone, On, At, CleanupOwn, Goto, stateVars, lockVars
<1> p \in Procs
  BY ProcNames
<1>1. TypeOK'
  <2>1. pc' \in [Procs -> PcValues]
    BY PcTyped, PcNames
  <2>2. expect' \in [Procs -> StateIds \cup {NoState}]
    BY StateNames DEF IType, TypeOK
  <2>3. back' \in [Procs -> {"drain", "exit", "cnotify", "forget", "renew", "done"}]
    BY DEF IType, TypeOK
  <2> QED BY <2>1, <2>2, <2>3 DEF IType, TypeOK
<1>2. OthersKept(p)
  BY DEF OthersKept, IType, TypeOK
<1>3. RefAt(p)'
  BY StateNames DEF IType, TypeOK, RefOK, RefAt, RefPcs, LoopPcs, DrainPcs, CleanupPcs,
     NestedOK, NestedAt, InTurnCode, TurnPcs
<1>4. NestedAt(p)'
  BY DEF IType, TypeOK, NestedOK, NestedAt, InTurnCode, TurnPcs, LoopPcs, DrainPcs, CleanupPcs,
     HandlerPcs
<1> QED BY <1>1, <1>2, <1>3, <1>4, LocalStep

LEMMA Type_CompressNotify ==
    ASSUME IType, NEW p \in Procs, CompressNotify(p)
    PROVE  IType'
<1> USE DEF CompressNotify, On, At, Goto, stateVars, lockVars, localVars
<1> p \in Procs
  BY ProcNames
<1>1. TypeOK'
  <2>1. queue' \in [StateIds -> Seq(Msgs)]
    BY DropQueueType DEF IType
  <2>2. pc' \in [Procs -> PcValues]
    BY PcTyped, PcNames
  <2>3. fate' \in [Msgs -> Fates]
    BY DropQueueType DEF IType
  <2> QED BY <2>1, <2>2, <2>3 DEF IType, TypeOK
<1>2. OthersKept(p)
  BY DEF OthersKept, IType, TypeOK
<1>3. RefAt(p)'
  BY StateNames DEF IType, TypeOK, RefOK, RefAt, RefPcs, LoopPcs, DrainPcs, CleanupPcs,
     NestedOK, NestedAt, InTurnCode, TurnPcs
<1>4. NestedAt(p)'
  BY DEF IType, TypeOK, NestedOK, NestedAt, InTurnCode, TurnPcs, LoopPcs, DrainPcs, CleanupPcs,
     HandlerPcs
<1> QED BY <1>1, <1>2, <1>3, <1>4, LocalStep

LEMMA Type_Stop ==
    ASSUME IType, NEW a \in Stops, Stop(a)
    PROVE  IType'
<1> USE DEF Stop, On, At, Goto, lockVars
<1> a \in Procs
  BY ProcNames
<1>1. TypeOK'
  <2>1. table' \in StateIds \cup {NoState}
    BY StateNames DEF IType, TypeOK
  <2>2. stopped' \in [StateIds -> BOOLEAN]
    BY DEF IType, TypeOK
  <2>3. pc' \in [Procs -> PcValues]
    BY PcTyped, PcNames
  <2>4. ref' \in [Procs -> StateIds \cup {NoState}]
    BY StateNames DEF IType, TypeOK
  <2>5. grab' \in [Procs -> StateIds \cup {NoState}]
    BY LocalTyped
  <2>6. request' \in [Procs -> {"none", "pending", "answered", "lost"}]
    BY TakePendingType DEF IType, TypeOK
  <2> QED BY <2>1, <2>2, <2>3, <2>4, <2>5, <2>6 DEF IType, TypeOK
<1>2. OthersKept(a)
  BY DEF OthersKept, IType, TypeOK
<1>3. RefAt(a)'
  BY StateNames DEF IType, TypeOK, RefOK, RefAt, RefPcs, LoopPcs, DrainPcs, CleanupPcs,
     NestedOK, NestedAt, InTurnCode, TurnPcs
<1>4. NestedAt(a)'
  BY DEF IType, TypeOK, NestedOK, NestedAt, InTurnCode, TurnPcs, LoopPcs, DrainPcs, CleanupPcs,
     HandlerPcs
<1> QED BY <1>1, <1>2, <1>3, <1>4, LocalStep

LEMMA Type_StopNotify ==
    ASSUME IType, NEW a \in Stops, StopNotify(a)
    PROVE  IType'
<1> USE DEF StopNotify, On, At, Goto, stateVars, lockVars, localVars
<1> a \in Procs
  BY ProcNames
<1>1. TypeOK'
  <2>1. queue' \in [StateIds -> Seq(Msgs)]
    BY DropQueueType DEF IType
  <2>2. pc' \in [Procs -> PcValues]
    BY PcTyped, PcNames
  <2>3. fate' \in [Msgs -> Fates]
    BY DropQueueType DEF IType
  <2> QED BY <2>1, <2>2, <2>3 DEF IType, TypeOK
<1>2. OthersKept(a)
  BY DEF OthersKept, IType, TypeOK
<1>3. RefAt(a)'
  BY StateNames DEF IType, TypeOK, RefOK, RefAt, RefPcs, LoopPcs, DrainPcs, CleanupPcs,
     NestedOK, NestedAt, InTurnCode, TurnPcs
<1>4. NestedAt(a)'
  BY DEF IType, TypeOK, NestedOK, NestedAt, InTurnCode, TurnPcs, LoopPcs, DrainPcs, CleanupPcs,
     HandlerPcs
<1> QED BY <1>1, <1>2, <1>3, <1>4, LocalStep

LEMMA Type_AsyncClose ==
    ASSUME IType, NEW a \in Stops, AsyncClose(a)
    PROVE  IType'
<1> USE DEF AsyncClose, On, At, Goto, lockVars
<1> a \in Procs
  BY ProcNames
<1>1. TypeOK'
  <2>1. agent' \in [StateIds -> {"none", "live", "dead"}]
    BY DEF IType, TypeOK
  <2>2. pc' \in [Procs -> PcValues]
    BY PcTyped, PcNames
  <2>3. grab' \in [Procs -> StateIds \cup {NoState}]
    BY StateNames DEF IType, TypeOK
  <2> QED BY <2>1, <2>2, <2>3 DEF IType, TypeOK
<1>2. OthersKept(a)
  BY DEF OthersKept, IType, TypeOK
<1>3. RefAt(a)'
  BY StateNames DEF IType, TypeOK, RefOK, RefAt, RefPcs, LoopPcs, DrainPcs, CleanupPcs,
     NestedOK, NestedAt, InTurnCode, TurnPcs
<1>4. NestedAt(a)'
  BY DEF IType, TypeOK, NestedOK, NestedAt, InTurnCode, TurnPcs, LoopPcs, DrainPcs, CleanupPcs,
     HandlerPcs
<1> QED BY <1>1, <1>2, <1>3, <1>4, LocalStep

LEMMA Type_New ==
    ASSUME IType, NEW a \in News, New(a)
    PROVE  IType'
<1> USE DEF New, On, At, Goto, stateVars, lockVars
<1> a \in Procs
  BY ProcNames
<1>1. TypeOK'
  <2>1. pc' \in [Procs -> PcValues]
    BY PcTyped, PcNames
  <2>2. back' \in [Procs -> {"drain", "exit", "cnotify", "forget", "renew", "done"}]
    BY DEF IType, TypeOK
  <2> QED BY <2>1, <2>2 DEF IType, TypeOK
<1>2. OthersKept(a)
  BY DEF OthersKept, IType, TypeOK
<1>3. RefAt(a)'
  BY StateNames DEF IType, TypeOK, RefOK, RefAt, RefPcs, LoopPcs, DrainPcs, CleanupPcs,
     NestedOK, NestedAt, InTurnCode, TurnPcs
<1>4. NestedAt(a)'
  BY DEF IType, TypeOK, NestedOK, NestedAt, InTurnCode, TurnPcs, LoopPcs, DrainPcs, CleanupPcs,
     HandlerPcs
<1> QED BY <1>1, <1>2, <1>3, <1>4, LocalStep

LEMMA Type_ForgetOld ==
    ASSUME IType, NEW a \in News, ForgetOld(a)
    PROVE  IType'
<1> USE DEF ForgetOld, On, At, Goto, stateVars, localVars
<1> a \in Procs
  BY ProcNames
<1>1. TypeOK'
  <2>1. want' \in [Sessions -> StateIds \cup {NoState}]
    BY DEF IType, TypeOK
  <2>2. pc' \in [Procs -> PcValues]
    BY PcTyped, PcNames
  <2> QED BY <2>1, <2>2 DEF IType, TypeOK
<1>2. OthersKept(a)
  BY DEF OthersKept, IType, TypeOK
<1>3. RefAt(a)'
  BY StateNames DEF IType, TypeOK, RefOK, RefAt, RefPcs, LoopPcs, DrainPcs, CleanupPcs,
     NestedOK, NestedAt, InTurnCode, TurnPcs
<1>4. NestedAt(a)'
  BY DEF IType, TypeOK, NestedOK, NestedAt, InTurnCode, TurnPcs, LoopPcs, DrainPcs, CleanupPcs,
     HandlerPcs
<1> QED BY <1>1, <1>2, <1>3, <1>4, LocalStep

LEMMA Type_NewSession ==
    ASSUME IType, NEW a \in News, NewSession(a)
    PROVE  IType'
<1> USE DEF NewSession, On, At, Goto, stateVars, localVars
<1> a \in Procs
  BY ProcNames
<1>1. TypeOK'
  <2>1. active' \in Sessions
    BY SessNames DEF IType, TypeOK
  <2>2. pc' \in [Procs -> PcValues]
    BY PcTyped, PcNames
  <2> QED BY <2>1, <2>2 DEF IType, TypeOK
<1>2. OthersKept(a)
  BY DEF OthersKept, IType, TypeOK
<1>3. RefAt(a)'
  BY StateNames DEF IType, TypeOK, RefOK, RefAt, RefPcs, LoopPcs, DrainPcs, CleanupPcs,
     NestedOK, NestedAt, InTurnCode, TurnPcs
<1>4. NestedAt(a)'
  BY DEF IType, TypeOK, NestedOK, NestedAt, InTurnCode, TurnPcs, LoopPcs, DrainPcs, CleanupPcs,
     HandlerPcs
<1> QED BY <1>1, <1>2, <1>3, <1>4, LocalStep

LEMMA Type_ReapIdle ==
    ASSUME IType, NEW a \in Reapers, ReapIdle(a)
    PROVE  IType'
<1> USE DEF ReapIdle, On, At, Goto, stateVars, lockVars, localVars
<1> a \in Procs
  BY ProcNames
<1>1. TypeOK'
  <2>1. pc' \in [Procs -> PcValues]
    BY PcTyped, PcNames
  <2> QED BY <2>1 DEF IType, TypeOK
<1>2. OthersKept(a)
  BY DEF OthersKept, IType, TypeOK
<1>3. RefAt(a)'
  BY StateNames DEF IType, TypeOK, RefOK, RefAt, RefPcs, LoopPcs, DrainPcs, CleanupPcs,
     NestedOK, NestedAt, InTurnCode, TurnPcs
<1>4. NestedAt(a)'
  BY DEF IType, TypeOK, NestedOK, NestedAt, InTurnCode, TurnPcs, LoopPcs, DrainPcs, CleanupPcs,
     HandlerPcs
<1> QED BY <1>1, <1>2, <1>3, <1>4, LocalStep

LEMMA Type_ReapScan ==
    ASSUME IType, NEW a \in Reapers, ReapScan(a)
    PROVE  IType'
<1> USE DEF ReapScan, On, At, Goto, stateVars, lockVars
<1> a \in Procs
  BY ProcNames
<1>1. TypeOK'
  <2>1. pc' \in [Procs -> PcValues]
    BY PcTyped, PcNames
  <2>2. expect' \in [Procs -> StateIds \cup {NoState}]
    BY StateNames DEF IType, TypeOK
  <2>3. back' \in [Procs -> {"drain", "exit", "cnotify", "forget", "renew", "done"}]
    BY DEF IType, TypeOK
  <2> QED BY <2>1, <2>2, <2>3 DEF IType, TypeOK
<1>2. OthersKept(a)
  BY DEF OthersKept, IType, TypeOK
<1>3. RefAt(a)'
  BY StateNames DEF IType, TypeOK, RefOK, RefAt, RefPcs, LoopPcs, DrainPcs, CleanupPcs,
     NestedOK, NestedAt, InTurnCode, TurnPcs
<1>4. NestedAt(a)'
  BY DEF IType, TypeOK, NestedOK, NestedAt, InTurnCode, TurnPcs, LoopPcs, DrainPcs, CleanupPcs,
     HandlerPcs
<1> QED BY <1>1, <1>2, <1>3, <1>4, LocalStep

LEMMA Type_Compress ==
    ASSUME IType, NEW a \in Compressors, Compress(a)
    PROVE  IType'
<1> USE DEF Compress, On, At, Usable, Goto, stateVars, lockVars
<1> a \in Procs
  BY ProcNames
<1>1. TypeOK'
  <2>1. pc' \in [Procs -> PcValues]
    BY PcTyped, PcNames
  <2>2. ref' \in [Procs -> StateIds \cup {NoState}]
    BY StateNames DEF IType, TypeOK
  <2> QED BY <2>1, <2>2 DEF IType, TypeOK
<1>2. OthersKept(a)
  BY DEF OthersKept, IType, TypeOK
<1>3. RefAt(a)'
  BY StateNames DEF IType, TypeOK, RefOK, RefAt, RefPcs, LoopPcs, DrainPcs, CleanupPcs,
     NestedOK, NestedAt, InTurnCode, TurnPcs
<1>4. NestedAt(a)'
  BY DEF IType, TypeOK, NestedOK, NestedAt, InTurnCode, TurnPcs, LoopPcs, DrainPcs, CleanupPcs,
     HandlerPcs
<1> QED BY <1>1, <1>2, <1>3, <1>4, LocalStep

LEMMA Type_CompressLock ==
    ASSUME IType, NEW a \in Compressors, CompressLock(a)
    PROVE  IType'
<1> USE DEF CompressLock, On, At, Goto, stateVars
<1> a \in Procs
  BY ProcNames
<1>1. TypeOK'
  <2>1. busy' \in [Sessions -> BOOLEAN]
    BY DEF IType, TypeOK
  <2>2. pc' \in [Procs -> PcValues]
    BY PcTyped, PcNames
  <2>3. sess' \in [Procs -> Sessions]
    BY DEF IType, TypeOK
  <2>4. mode' \in [Procs -> {"turn", "orphan", "compress"}]
    BY DEF IType, TypeOK
  <2> QED BY <2>1, <2>2, <2>3, <2>4 DEF IType, TypeOK
<1>2. OthersKept(a)
  BY DEF OthersKept, IType, TypeOK
<1>3. RefAt(a)'
  BY StateNames DEF IType, TypeOK, RefOK, RefAt, RefPcs, LoopPcs, DrainPcs, CleanupPcs,
     NestedOK, NestedAt, InTurnCode, TurnPcs
<1>4. NestedAt(a)'
  BY DEF IType, TypeOK, NestedOK, NestedAt, InTurnCode, TurnPcs, LoopPcs, DrainPcs, CleanupPcs,
     HandlerPcs
<1> QED BY <1>1, <1>2, <1>3, <1>4, LocalStep

LEMMA Type_AgentReports ==
    ASSUME IType, NEW s \in StateIds, AgentReports(s)
    PROVE  IType'
<1> USE DEF AgentReports, On, At, lockVars, localVars
<1>1. TypeOK'
  <2>1. have' \in [StateIds -> StateIds \cup {NoState}]
    BY StateNames DEF IType, TypeOK
  <2> QED BY <2>1 DEF IType, TypeOK
<1>2. RefOK' /\ NestedOK'
  BY DEF IType, RefOK, RefAt, NestedOK, NestedAt, InTurnCode
<1> QED BY <1>1, <1>2 DEF IType

LEMMA Type_AgentDies ==
    ASSUME IType, NEW s \in StateIds, AgentDies(s)
    PROVE  IType'
<1> USE DEF AgentDies, On, At, lockVars, localVars
<1>1. TypeOK'
  <2>1. agent' \in [StateIds -> {"none", "live", "dead"}]
    BY DEF IType, TypeOK
  <2> QED BY <2>1 DEF IType, TypeOK
<1>2. RefOK' /\ NestedOK'
  BY DEF IType, RefOK, RefAt, NestedOK, NestedAt, InTurnCode
<1> QED BY <1>1, <1>2 DEF IType

LEMMA TypeStep == IType /\ [Next]_vars => IType'
<1> SUFFICES ASSUME IType, [Next]_vars PROVE IType'
  OBVIOUS
<1>1. CASE \E m \in Msgs : HandlerStep(m)
  BY <1>1, Type_Arrive, Type_TryLock, Type_EnsureState, Type_QueueLookup,
     Type_QueueAppend, Type_RetryLock, Type_OrphanLookup, Type_OrphanCheck,
     Type_ReuseState, Type_StartState, Type_Begin DEF HandlerStep
<1>2. CASE \E p \in Procs : LoopStep(p)
  BY <1>2, Type_OpenEvents, Type_NextQueued, Type_LoopStopped, Type_LoopResult,
     Type_LoopError, Type_LoopSendError, Type_LoopIdle, Type_LoopClosed,
     Type_LoopAsk, Type_Pend, Type_Resume,
     Type_Drain, Type_Deliver, Type_Exit DEF LoopStep
<1>3. CASE \E p \in Procs : CleanupStep(p)
  BY <1>3, Type_Detach, Type_MarkStopped, Type_NotifyDropped, Type_CloseAgent,
     Type_RemoveEntry DEF CleanupStep
<1>4. CASE \E p \in Procs : CompressStep(p)
  BY <1>4, Type_CompressSend, Type_CompressStopped, Type_CompressResult, Type_CompressError,
     Type_CompressGone, Type_CompressNotify DEF CompressStep
<1>5. CASE CommandStep
  BY <1>5, Type_Answer, Type_Stop, Type_StopNotify, Type_AsyncClose, Type_New,
     Type_ForgetOld, Type_NewSession, Type_ReapIdle, Type_ReapScan, Type_Compress,
     Type_CompressLock DEF CommandStep
<1>6. CASE AgentStep
  BY <1>6, Type_AgentReports, Type_AgentDies DEF AgentStep
<1>8. CASE \E m \in Resets : ResetStep(m)
  BY <1>8, Type_LockAndReset, Type_ResetUnlock, Type_Rotate, Type_Relock DEF ResetStep
<1>7. CASE UNCHANGED vars
  <2>1. TypeOK'
    BY <1>7 DEF IType, TypeOK, vars, stateVars, lockVars, localVars
  <2>2. RefOK' /\ NestedOK'
    BY <1>7 DEF IType, RefOK, RefAt, NestedOK, NestedAt, InTurnCode, vars, localVars
  <2> QED BY <2>1, <2>2 DEF IType
<1> QED BY <1>1, <1>2, <1>3, <1>4, <1>5, <1>6, <1>7, <1>8 DEF Next, Terminated

(* Every reachable state is well typed, whatever the constants are. *)
THEOREM TypeCorrect == Spec => []TypeOK
<1>1. IType => TypeOK
  BY DEF IType
<1> QED BY <1>1, TypeInit, TypeStep, PTL DEF Spec

-----------------------------------------------------------------------------
(* One turn at a time on a Session.                                        *)

(* Whoever believes it holds a Session finds it busy, alone, and is not an  *)
(* auto-compress inside another event loop.                                *)
HolderOK(p) == Holds(p) => busy[sess[p]] /\ ~nested[p]
LockInv == TurnExclusion /\ \A p \in Procs : HolderOK(p)

(* A step of p that takes no lock, gives none back and enters no code that *)
(* needs one.                                                              *)
Quiet(p) ==
    /\ busy' = busy /\ sess' = sess
    /\ Holds(p)' => Holds(p) /\ ~nested'[p]
    /\ \A q \in Procs \ {p} : Holds(q)' = Holds(q) /\ nested'[q] = nested[q]

LEMMA QuietStep == ASSUME LockInv, NEW p \in Procs, Quiet(p) PROVE LockInv'
<1>1. ASSUME NEW q \in Procs PROVE HolderOK(q)'
  BY <1>1 DEF LockInv, HolderOK, Quiet
<1>2. TurnExclusion'
  BY DEF LockInv, TurnExclusion, Quiet
<1> QED BY <1>1, <1>2 DEF LockInv

(* One step per action: none of these touches the lock. *)
LEMMA QuietHandler ==
    ASSUME IType, LockInv, NEW m \in Msgs,
           \/ EnsureState(m) \/ QueueLookup(m) \/ QueueAppend(m) \/ OrphanLookup(m)
           \/ OrphanCheck(m) \/ ReuseState(m)
           \/ (\E how \in {"resumed", "fresh", "failed"} : StartState(m, how)) \/ Begin(m)
    PROVE  Quiet(m)
<1> m \in Procs
  BY ProcNames
<1> USE DEF IType, TypeOK, LockInv, HolderOK, Quiet, Holds, LoopPcs, DrainPcs, CleanupPcs,
        On, At, Goto, lockVars, localVars
<1>1. CASE EnsureState(m)
  BY <1>1 DEF EnsureState
<1>2. CASE QueueLookup(m)
  BY <1>2 DEF QueueLookup
<1>3. CASE QueueAppend(m)
  BY <1>3 DEF QueueAppend
<1>4. CASE OrphanLookup(m)
  BY <1>4 DEF OrphanLookup
<1>5. CASE OrphanCheck(m)
  BY <1>5 DEF OrphanCheck
<1>6. CASE ReuseState(m)
  BY <1>6 DEF ReuseState
<1>7. CASE \E how \in {"resumed", "fresh", "failed"} : StartState(m, how)
  BY <1>7 DEF StartState
<1>8. CASE Begin(m)
  BY <1>8 DEF Begin
<1> QED BY <1>1, <1>2, <1>3, <1>4, <1>5, <1>6, <1>7, <1>8

LEMMA QuietLoop ==
    ASSUME IType, LockInv, NEW p \in Procs,
           "compress" \notin Faults,
           \/ OpenEvents(p) \/ NextQueued(p) \/ LoopStopped(p)
           \/ (\E how \in {"reply", "unsent", "compress"} : LoopResult(p, how)) \/ LoopError(p)
           \/ LoopSendError(p) \/ LoopIdle(p) \/ LoopClosed(p) \/ Deliver(p)
           \/ LoopAsk(p) \/ Pend(p) \/ Resume(p)
    PROVE  Quiet(p)
<1> USE DEF IType, TypeOK, LockInv, HolderOK, Quiet, Holds, LoopPcs, DrainPcs, CleanupPcs,
        On, At, Goto, lockVars, localVars
<1>1. CASE OpenEvents(p)
  BY <1>1 DEF OpenEvents, UseAgent
<1>2. CASE NextQueued(p)
  BY <1>2 DEF NextQueued
<1>3. CASE LoopStopped(p)
  BY <1>3 DEF LoopStopped
<1>4. CASE \E how \in {"reply", "unsent", "compress"} : LoopResult(p, how)
  BY <1>4 DEF LoopResult
<1>5. CASE LoopError(p)
  BY <1>5 DEF LoopError
<1>6. CASE LoopSendError(p)
  BY <1>6 DEF LoopSendError, CleanupOwn
<1>7. CASE LoopIdle(p)
  BY <1>7 DEF LoopIdle, CleanupOwn
<1>8. CASE LoopClosed(p)
  BY <1>8 DEF LoopClosed, CleanupOwn
<1>9. CASE Deliver(p)
  BY <1>9 DEF Deliver
<1>10. CASE LoopAsk(p) \/ Pend(p) \/ Resume(p)
  BY <1>10 DEF LoopAsk, Pend, Resume
<1> QED BY <1>1, <1>2, <1>3, <1>4, <1>5, <1>6, <1>7, <1>8, <1>9, <1>10

LEMMA QuietCleanup ==
    ASSUME IType, LockInv, NEW p \in Procs,
           \/ Detach(p) \/ MarkStopped(p) \/ NotifyDropped(p) \/ CloseAgent(p) \/ RemoveEntry(p)
    PROVE  Quiet(p)
<1> USE DEF IType, TypeOK, LockInv, HolderOK, Quiet, Holds, LoopPcs, DrainPcs, CleanupPcs,
        On, At, Goto, lockVars, localVars
<1>1. CASE Detach(p)
  <2>1. CASE Named(p) /\ table # expect[p]
    <3>1. /\ pc' = [pc EXCEPT ![p] = back[p]] /\ back' = back /\ nested' = nested /\ busy' = busy
          /\ sess' = sess /\ pc[p] = "detach"
      BY <1>1, <2>1 DEF Detach
    <3>2. back[p] \in {"drain", "exit", "cnotify", "forget", "renew", "done"} /\ pc'[p] = back[p]
      BY <3>1
    <3>3. Holds(p)' => Holds(p) /\ ~nested'[p]
      BY <3>1, <3>2
    <3>4. \A q \in Procs \ {p} : Holds(q)' = Holds(q) /\ nested'[q] = nested[q]
      BY <3>1
    <3> QED BY <3>1, <3>3, <3>4
  <2>2. CASE ~(Named(p) /\ table # expect[p])
    BY <1>1, <2>2 DEF Detach
  <2> QED BY <2>1, <2>2
<1>2. CASE MarkStopped(p)
  BY <1>2 DEF MarkStopped
<1>3. CASE NotifyDropped(p)
  BY <1>3 DEF NotifyDropped
<1>4. CASE CloseAgent(p)
  BY <1>4 DEF CloseAgent
<1>5. CASE RemoveEntry(p)
  BY <1>5 DEF RemoveEntry
<1> QED BY <1>1, <1>2, <1>3, <1>4, <1>5

LEMMA QuietCompress ==
    ASSUME IType, LockInv, NEW p \in Procs,
           \/ CompressSend(p) \/ CompressStopped(p) \/ CompressResult(p) \/ CompressError(p)
           \/ CompressGone(p) \/ CompressNotify(p)
    PROVE  Quiet(p)
<1> USE DEF IType, TypeOK, LockInv, HolderOK, Quiet, Holds, LoopPcs, DrainPcs, CleanupPcs,
        On, At, Goto, lockVars, localVars
<1>1. CASE CompressSend(p)
  BY <1>1 DEF CompressSend
<1>2. CASE CompressStopped(p)
  BY <1>2 DEF CompressStopped
<1>3. CASE CompressResult(p)
  BY <1>3 DEF CompressResult
<1>4. CASE CompressError(p)
  BY <1>4 DEF CompressError
<1>5. CASE CompressGone(p)
  BY <1>5 DEF CompressGone, CleanupOwn
<1>6. CASE CompressNotify(p)
  BY <1>6 DEF CompressNotify
<1> QED BY <1>1, <1>2, <1>3, <1>4, <1>5, <1>6

LEMMA QuietCommand ==
    ASSUME IType, LockInv, NEW a \in Procs,
           \/ Stop(a) \/ StopNotify(a) \/ AsyncClose(a) \/ New(a) \/ ForgetOld(a) \/ NewSession(a)
           \/ ReapIdle(a) \/ ReapScan(a) \/ Compress(a) \/ Answer(a)
    PROVE  Quiet(a)
<1> USE DEF IType, TypeOK, LockInv, HolderOK, Quiet, Holds, LoopPcs, DrainPcs, CleanupPcs,
        On, At, Goto, lockVars, localVars
<1>1. CASE Stop(a)
  BY <1>1 DEF Stop
<1>2. CASE StopNotify(a)
  BY <1>2 DEF StopNotify
<1>3. CASE AsyncClose(a)
  BY <1>3 DEF AsyncClose
<1>4. CASE New(a)
  BY <1>4 DEF New
<1>5. CASE ForgetOld(a) \/ NewSession(a)
  BY <1>5 DEF ForgetOld, NewSession
<1>6. CASE ReapIdle(a)
  BY <1>6 DEF ReapIdle
<1>7. CASE ReapScan(a)
  BY <1>7 DEF ReapScan
<1>8. CASE Compress(a)
  BY <1>8 DEF Compress
<1>9. CASE Answer(a)
  BY <1>9 DEF Answer
<1> QED BY <1>1, <1>2, <1>3, <1>4, <1>5, <1>6, <1>7, <1>8, <1>9

(* The steps that move the lock, or the Session a process works on. *)
LEMMA LockMoves ==
    ASSUME IType, LockInv, NEW p \in Procs,
           \/ Drain(p) \/ Exit(p) \/ (p \in Msgs /\ (Arrive(p) \/ TryLock(p) \/ RetryLock(p)))
           \/ CompressLock(p)
    PROVE  LockInv'
<1> USE DEF IType, TypeOK, LockInv, HolderOK, Holds, LoopPcs, DrainPcs, CleanupPcs, HandlerPcs,
        On, At, Goto, lockVars, localVars
<1>1. CASE Drain(p) \/ Exit(p)
  <2>1. CASE queue[ref[p]] # <<>> /\ Drain(p)
    <3>1. Quiet(p)
      BY <2>1 DEF Quiet, Drain
    <3> QED BY <3>1, QuietStep
  <2>2. CASE ~(queue[ref[p]] # <<>> /\ Drain(p))
    <3>1. /\ Holds(p) /\ sess' = sess /\ pc' = [pc EXCEPT ![p] = "done"]
          /\ busy' = [busy EXCEPT ![sess[p]] = FALSE] /\ back' = back
          /\ nested' = [nested EXCEPT ![p] = FALSE]
      BY <1>1, <2>2 DEF Drain, Exit, Unlock
    <3>2. ~Holds(p)' /\ \A q \in Procs \ {p} : Holds(q)' = Holds(q) /\ nested'[q] = nested[q]
      BY <3>1
    <3>3. ASSUME NEW q \in Procs, Holds(q)' PROVE busy'[sess'[q]] /\ ~nested'[q]
      BY <3>1, <3>2, <3>3 DEF TurnExclusion
    <3>4. TurnExclusion'
      BY <3>1, <3>2 DEF TurnExclusion
    <3> QED BY <3>3, <3>4
  <2> QED BY <2>1, <2>2
<1>2. CASE p \in Msgs /\ Arrive(p)
  <2>1. /\ ~Holds(p)' /\ busy' = busy
        /\ \A q \in Procs \ {p} :
               Holds(q)' = Holds(q) /\ nested'[q] = nested[q] /\ sess'[q] = sess[q]
    BY <1>2 DEF Arrive
  <2>2. ASSUME NEW q \in Procs, NEW r \in Procs, q # r, Holds(q)', Holds(r)'
        PROVE  sess'[q] # sess'[r]
    <3>1. q # p /\ r # p
      BY <2>1, <2>2
    <3>2. Holds(q) /\ Holds(r) /\ sess'[q] = sess[q] /\ sess'[r] = sess[r]
      BY <2>1, <2>2, <3>1
    <3> QED BY <2>2, <3>2 DEF TurnExclusion
  <2>3. TurnExclusion'
    BY <2>2 DEF TurnExclusion
  <2> QED BY <2>1, <2>3
<1>3. CASE (p \in Msgs /\ (TryLock(p) \/ RetryLock(p))) \/ CompressLock(p)
  <2>1. CASE UNCHANGED <<busy, sess>>
    <3>1. Quiet(p)
      BY <1>3, <2>1 DEF Quiet, TryLock, RetryLock, CompressLock
    <3> QED BY <3>1, QuietStep
  <2>2. CASE ~UNCHANGED <<busy, sess>>
    <3>0. ~nested[p]
      BY <1>3 DEF TryLock, RetryLock, CompressLock, NestedOK, NestedAt, InTurnCode, TurnPcs
    <3>1. /\ ~busy[sess'[p]] /\ busy' = [busy EXCEPT ![sess'[p]] = TRUE]
          /\ sess'[p] \in Sessions /\ ~nested'[p]
          /\ \A q \in Procs \ {p} :
                 Holds(q)' = Holds(q) /\ nested'[q] = nested[q] /\ sess'[q] = sess[q]
      <4>1. CASE p \in Msgs /\ TryLock(p)
        BY <3>0, <4>1, <2>2 DEF TryLock
      <4>2. CASE p \in Msgs /\ RetryLock(p)
        BY <3>0, <4>2, <2>2 DEF RetryLock
      <4>3. CASE CompressLock(p)
        BY <3>0, <4>3, <2>2 DEF CompressLock
      <4> QED BY <1>3, <4>1, <4>2, <4>3
    <3>2. ASSUME NEW q \in Procs, Holds(q)' PROVE busy'[sess'[q]] /\ ~nested'[q]
      <4>1. CASE q = p
        BY <3>1, <4>1 DEF IType, TypeOK
      <4>2. CASE q # p
        <5>1. Holds(q) /\ ~nested'[q] /\ busy[sess[q]] /\ sess'[q] = sess[q]
          BY <3>1, <3>2, <4>2 DEF LockInv, HolderOK
        <5> QED BY <3>1, <5>1 DEF IType, TypeOK
      <4> QED BY <4>1, <4>2
    <3>3. \A q \in Procs \ {p} : Holds(q)' => sess'[q] # sess'[p]
      BY <3>1
    <3>4. TurnExclusion'
      <4>1. ASSUME NEW q \in Procs, NEW r \in Procs, q # r, Holds(q)', Holds(r)'
            PROVE  sess'[q] # sess'[r]
        <5>1. CASE q = p
          BY <4>1, <5>1, <3>3
        <5>2. CASE r = p
          BY <4>1, <5>2, <3>3
        <5>3. CASE q # p /\ r # p
          <6>1. Holds(q) /\ Holds(r) /\ sess'[q] = sess[q] /\ sess'[r] = sess[r]
            BY <3>1, <4>1, <5>3
          <6> QED BY <4>1, <6>1 DEF TurnExclusion
        <5> QED BY <5>1, <5>2, <5>3
      <4> QED BY <4>1 DEF TurnExclusion
    <3> QED BY <3>2, <3>4
  <2> QED BY <2>1, <2>2
<1> QED BY <1>1, <1>2, <1>3

LEMMA LockInit == Init => LockInv
  BY DEF Init, LockInv, TurnExclusion, HolderOK, Holds, LoopPcs, DrainPcs, CleanupPcs, Procs

LEMMA LockStep ==
    ASSUME IType, LockInv, [Next]_vars, "compress" \notin Faults, Resets = {}
    PROVE  LockInv'
<1>1. CASE \E m \in Msgs : HandlerStep(m)
  <2>1. PICK m \in Msgs : HandlerStep(m)
    BY <1>1
  <2>2. Arrive(m) \/ TryLock(m) \/ RetryLock(m) => LockInv'
    BY LockMoves, ProcNames
  <2>3. Quiet(m) => LockInv'
    BY QuietStep, ProcNames
  <2> QED BY <2>1, <2>2, <2>3, QuietHandler DEF HandlerStep
<1>2. CASE \E p \in Procs : LoopStep(p)
  BY <1>2, LockMoves, QuietStep, QuietLoop DEF LoopStep
<1>3. CASE \E p \in Procs : CleanupStep(p)
  BY <1>3, QuietStep, QuietCleanup DEF CleanupStep
<1>4. CASE \E p \in Procs : CompressStep(p)
  BY <1>4, QuietStep, QuietCompress DEF CompressStep
<1>5. CASE CommandStep
  BY <1>5, LockMoves, QuietStep, QuietCommand, ProcNames DEF CommandStep
<1>6. CASE AgentStep \/ UNCHANGED vars
  BY <1>6 DEF AgentStep, AgentReports, AgentDies, LockInv, TurnExclusion, HolderOK, Holds, vars,
     lockVars, localVars
<1> QED BY <1>1, <1>2, <1>3, <1>4, <1>5, <1>6 DEF Next, Terminated

(* The lock discipline, in every reachable state. *)
LEMMA LockAlways ==
    ASSUME "compress" \notin Faults, Resets = {}
    PROVE  Spec => [](IType /\ LockInv)
<1>1. Init => IType /\ LockInv
  BY TypeInit, LockInit
<1>2. IType /\ LockInv /\ [Next]_vars => (IType /\ LockInv)'
  BY TypeStep, LockStep
<1> QED BY <1>1, <1>2, PTL DEF Spec

(* Without an auto-compress inside an event loop, and without the rotation *)
(* of an idle Session, two goroutines never run a turn on one Session at   *)
(* the same time.  (With one they do: the inner drain unlocks the Session  *)
(* that the outer loop goes on to use, and a rotation that finds the new   *)
(* Session locked goes on with the old one, which it has unlocked.)        *)
THEOREM ExclusionCorrect ==
    ASSUME "compress" \notin Faults, Resets = {}
    PROVE  Spec => []TurnExclusion
<1>1. IType /\ LockInv => TurnExclusion
  BY DEF LockInv
<1> QED BY <1>1, LockAlways, PTL

(* Where a chat has one Session, who holds it is alone. *)
LEMMA OneHolder ==
    ASSUME TypeOK, LockInv, News = {}, Resets = {},
           NEW p \in Procs, NEW q \in Procs, Holds(p), Holds(q)
    PROVE  p = q
<1>1. sess[p] = FirstSession /\ sess[q] = FirstSession
  BY DEF TypeOK, Sessions
<1> QED BY <1>1 DEF LockInv, TurnExclusion

(* Where a chat has one Session, and an event loop starts no auto-compress, *)
(* the event channel of an agent is read by one loop at a time.             *)
THEOREM SingleReaderCorrect ==
    ASSUME "compress" \notin Faults, Resets = {}, News = {}
    PROVE  Spec => []SingleReader
<1>1. IType /\ LockInv => SingleReader
  <2>1. ASSUME NEW p \in Procs, pc[p] \in ReadPcs PROVE Holds(p)
    BY <2>1 DEF ReadPcs, Holds, LoopPcs
  <2> QED BY <2>1, OneHolder DEF IType, SingleReader
<1> QED BY <1>1, LockAlways, PTL

-----------------------------------------------------------------------------
(* The books of the pending queues. *)

QueueInv == QueueBound /\ QueueAccounting /\ OnePlace

(* Every queue is a sequence of messages, with its indices. *)
LEMMA QueueShape ==
    ASSUME TypeOK, NEW s \in StateIds
    PROVE  /\ queue[s] \in Seq(Msgs) /\ Len(queue[s]) \in Nat
           /\ DOMAIN queue[s] = 1 .. Len(queue[s])
           /\ \A m : m \in Queued(s) <=> \E i \in 1 .. Len(queue[s]) : queue[s][i] = m
  BY DEF TypeOK, Queued

(* The message is in no queue unless it is marked queued. *)
LEMMA NotQueued ==
    ASSUME QueueAccounting, NEW m \in Msgs, fate[m] # "queued"
    PROVE  \A s \in StateIds : m \notin Queued(s)
  BY DEF QueueAccounting

QueueKept ==
    queue' = queue /\ \A m \in Msgs : fate'[m] = "queued" <=> fate[m] = "queued"

LEMMA KeptStep == ASSUME QueueInv, QueueKept PROVE QueueInv'
<1>1. QueueBound' /\ OnePlace'
  BY DEF QueueInv, QueueKept, QueueBound, OnePlace
<1>2. QueueAccounting'
  BY DEF QueueInv, QueueKept, QueueAccounting, Queued
<1> QED BY <1>1, <1>2 DEF QueueInv

LEMMA DropStep ==
    ASSUME TypeOK, QueueInv, NEW s \in StateIds, queue' = [queue EXCEPT ![s] = <<>>],
           \A m \in Msgs : fate'[m] = "queued" <=> fate[m] = "queued" /\ m \notin Queued(s)
    PROVE  QueueInv'
<1>0. /\ queue'[s] = <<>>
      /\ \A t \in StateIds : t # s => queue'[t] = queue[t]
  BY DEF TypeOK
<1>1. QueueBound'
  BY <1>0, ConstantsOK DEF QueueInv, QueueBound
<1>2. OnePlace'
  BY <1>0 DEF QueueInv, OnePlace
<1>3. Queued(s)' = {} /\ \A t \in StateIds : t # s => Queued(t)' = Queued(t)
  BY <1>0 DEF Queued
<1>4. \A t \in StateIds : t # s => Queued(t) \cap Queued(s) = {}
  BY DEF QueueInv, OnePlace, Queued
<1>5. QueueAccounting'
  BY <1>3, <1>4 DEF QueueInv, QueueAccounting
<1> QED BY <1>1, <1>2, <1>5 DEF QueueInv

LEMMA AppendStep ==
    ASSUME TypeOK, QueueInv, NEW s \in StateIds, NEW m \in Msgs, fate[m] # "queued",
           Len(queue[s]) < MaxQueued, queue' = [queue EXCEPT ![s] = Append(queue[s], m)],
           fate' = [fate EXCEPT ![m] = "queued"]
    PROVE  QueueInv'
<1> DEFINE q == queue[s]
           n == Len(queue[s]) + 1
<1>0. q \in Seq(Msgs) /\ n \in Nat /\ DOMAIN q = 1 .. Len(q)
  BY QueueShape
<1>1. /\ Len(Append(q, m)) = n
      /\ DOMAIN Append(q, m) = 1 .. n
      /\ Append(q, m)[n] = m
      /\ \A i \in 1 .. Len(q) : Append(q, m)[i] = q[i]
  BY <1>0
<1>2. /\ queue'[s] = Append(q, m)
      /\ \A t \in StateIds : t # s => queue'[t] = queue[t]
  BY DEF TypeOK
<1>3. QueueBound'
  <2>1. MaxQueued \in Nat
    BY ConstantsOK
  <2>2. Len(queue'[s]) <= MaxQueued
    BY <1>0, <1>1, <1>2, <2>1
  <2> QED BY <1>2, <2>2 DEF QueueInv, QueueBound
<1>4. \A t \in StateIds : m \notin Queued(t)
  BY NotQueued DEF QueueInv
<1>5. Queued(s)' = Queued(s) \cup {m}
  <2>1. DOMAIN (queue'[s]) = 1 .. n /\ DOMAIN q = 1 .. (n - 1)
    BY <1>0, <1>1, <1>2
  <2> QED BY <1>0, <1>1, <1>2, <2>1 DEF Queued
<1>6. \A t \in StateIds : t # s => Queued(t)' = Queued(t)
  BY <1>2 DEF Queued
<1>7. QueueAccounting'
  <2>1. fate'[m] = "queued" /\ \A x \in Msgs : x # m => fate'[x] = fate[x]
    BY DEF TypeOK
  <2>2. \A x \in Msgs, t \in StateIds : x # m => (x \in Queued(t)' <=> x \in Queued(t))
    BY <1>5, <1>6
  <2>3. \A x \in Msgs : x # m => (fate'[x] = "queued" <=> \E t \in StateIds : x \in Queued(t)')
    BY <2>1, <2>2 DEF QueueInv, QueueAccounting
  <2>4. m \in Queued(s)'
    BY <1>5
  <2> QED BY <2>1, <2>3, <2>4 DEF QueueAccounting
<1>8. OnePlace'
  <2> SUFFICES ASSUME NEW t \in StateIds, NEW u \in StateIds,
                      NEW i \in DOMAIN (queue'[t]), NEW j \in DOMAIN (queue'[u]),
                      queue'[t][i] = queue'[u][j]
               PROVE  t = u /\ i = j
    BY DEF OnePlace
  <2>1. \A v \in StateIds : \A k \in DOMAIN (queue'[v]) :
           \/ k \in DOMAIN queue[v] /\ queue'[v][k] = queue[v][k] /\ queue[v][k] # m
           \/ v = s /\ k = n /\ queue'[v][k] = m
    BY <1>0, <1>1, <1>2, <1>4 DEF Queued
  <2> QED BY <2>1 DEF QueueInv, OnePlace
<1> QED BY <1>3, <1>7, <1>8 DEF QueueInv

LEMMA PopStep ==
    ASSUME TypeOK, QueueInv, NEW s \in StateIds, queue[s] # <<>>,
           queue' = [queue EXCEPT ![s] = Tail(queue[s])],
           fate' = [fate EXCEPT ![Head(queue[s])] = "running"]
    PROVE  QueueInv'
<1> DEFINE q == queue[s]
           h == Head(queue[s])
<1>0. q \in Seq(Msgs) /\ Len(q) \in Nat /\ DOMAIN q = 1 .. Len(q)
  BY QueueShape
<1>1. /\ Len(q) > 0 /\ h = q[1] /\ h \in Msgs
      /\ Len(Tail(q)) = Len(q) - 1
      /\ DOMAIN Tail(q) = 1 .. (Len(q) - 1)
      /\ \A i \in 1 .. (Len(q) - 1) : Tail(q)[i] = q[i + 1]
  BY <1>0
<1>2. /\ queue'[s] = Tail(q)
      /\ \A t \in StateIds : t # s => queue'[t] = queue[t]
  BY DEF TypeOK
<1>3. QueueBound'
  <2>1. MaxQueued \in Nat /\ Len(q) <= MaxQueued
    BY ConstantsOK DEF QueueInv, QueueBound
  <2>2. Len(queue'[s]) <= MaxQueued
    BY <1>0, <1>1, <1>2, <2>1
  <2> QED BY <1>2, <2>2 DEF QueueInv, QueueBound
<1>4. \A i \in DOMAIN q : i # 1 => q[i] # h
  BY <1>0, <1>1 DEF QueueInv, OnePlace
<1>5. Queued(s)' = Queued(s) \ {h}
  <2>1. ASSUME NEW x, x \in Queued(s)' PROVE x \in Queued(s) /\ x # h
    <3>0. DOMAIN (queue'[s]) = 1 .. (Len(q) - 1)
      BY <1>1, <1>2
    <3>0a. PICK i \in 1 .. (Len(q) - 1) : x = queue'[s][i]
      BY <2>1, <3>0 DEF Queued
    <3>1. x = q[i + 1]
      BY <1>1, <1>2, <3>0a
    <3>2. i + 1 \in DOMAIN q /\ i + 1 # 1
      BY <1>0, <3>1
    <3> QED BY <1>4, <3>1, <3>2 DEF Queued
  <2>2. ASSUME NEW x, x \in Queued(s), x # h PROVE x \in Queued(s)'
    <3>1. PICK i \in 1 .. Len(q) : x = q[i]
      BY <1>0, <2>2 DEF Queued
    <3>2. i # 1
      BY <1>1, <2>2, <3>1
    <3>3. i - 1 \in 1 .. (Len(q) - 1) /\ (i - 1) + 1 = i
      BY <1>0, <3>1, <3>2
    <3>4. Tail(q)[i - 1] = x
      BY <1>1, <3>1, <3>3
    <3> QED BY <1>1, <1>2, <3>3, <3>4 DEF Queued
  <2> QED BY <2>1, <2>2
<1>6. \A t \in StateIds : t # s => Queued(t)' = Queued(t)
  BY <1>2 DEF Queued
<1>7. QueueAccounting'
  <2>1. h \in Queued(s) /\ \A t \in StateIds : t # s => h \notin Queued(t)
    <3>1. 1 \in DOMAIN q
      BY <1>0, <1>1
    <3> QED BY <1>1, <3>1 DEF QueueInv, OnePlace, Queued
  <2>2. fate'[h] = "running" /\ \A m \in Msgs : m # h => fate'[m] = fate[m]
    BY <1>1 DEF TypeOK
  <2>3. \A t \in StateIds : \A m \in Msgs : m \in Queued(t)' <=> m \in Queued(t) /\ m # h
    BY <1>5, <1>6, <2>1
  <2> QED BY <2>2, <2>3 DEF QueueInv, QueueAccounting
<1>8. OnePlace'
  <2> SUFFICES ASSUME NEW t \in StateIds, NEW u \in StateIds,
                      NEW i \in DOMAIN (queue'[t]), NEW j \in DOMAIN (queue'[u]),
                      queue'[t][i] = queue'[u][j]
               PROVE  t = u /\ i = j
    BY DEF OnePlace
  <2> DEFINE was(v, k) == IF v = s THEN k + 1 ELSE k
  <2>1. ASSUME NEW v \in StateIds, NEW k \in DOMAIN (queue'[v])
        PROVE  was(v, k) \in DOMAIN queue[v] /\ queue'[v][k] = queue[v][was(v, k)]
    <3>1. CASE v = s
      <4>0. k \in 1 .. (Len(q) - 1)
        BY <1>1, <1>2, <3>1, <2>1
      <4>1. k \in 1 .. (Len(q) - 1) /\ k + 1 \in 1 .. Len(q)
        BY <1>0, <4>0
      <4>2. was(v, k) = k + 1 /\ queue'[v][k] = Tail(q)[k] /\ queue[v] = q
        BY <1>2, <3>1
      <4>3. Tail(q)[k] = q[k + 1]
        BY <1>1, <4>1
      <4> QED BY <1>0, <4>1, <4>2, <4>3
    <3>2. CASE v # s
      BY <1>2, <3>2
    <3> QED BY <3>1, <3>2
  <2>2. t = u /\ was(t, i) = was(u, j)
    <3> HIDE DEF was
    <3> QED BY <2>1 DEF QueueInv, OnePlace
  <2>3. t = s => i \in Nat /\ j \in Nat
    BY <1>0, <1>1, <1>2, <2>2
  <2> QED BY <2>2, <2>3
<1> QED BY <1>3, <1>7, <1>8 DEF QueueInv

(* A state that is allocated only now takes the whole queue of the entry it *)
(* replaces.                                                               *)
LEMMA AdoptStep ==
    ASSUME TypeOK, QueueInv, NEW n \in StateIds, table # n, queue[n] = <<>>, queue' = Adopt(n),
           \A m \in Msgs : fate'[m] = "queued" <=> fate[m] = "queued"
    PROVE  QueueInv'
<1>1. CASE AdoptedFrom = NoState
  <2>1. queue' = queue
    BY <1>1, StateNames DEF TypeOK, Adopt
  <2> QED BY <2>1, KeptStep DEF QueueKept
<1>2. CASE AdoptedFrom # NoState
  <2>0. PICK af \in StateIds : af = AdoptedFrom /\ af # n
    BY <1>2 DEF AdoptedFrom, TypeOK
  <2>1. /\ queue'[n] = queue[af]
        /\ queue'[af] = <<>>
        /\ \A t \in StateIds : t # n /\ t # af => queue'[t] = queue[t]
    BY <1>2, <2>0 DEF Adopt
  <2>2. QueueBound'
    BY <2>0, <2>1, ConstantsOK DEF QueueInv, QueueBound
  <2>3. /\ Queued(n)' = Queued(af) /\ Queued(af)' = {} /\ Queued(n) = {}
        /\ \A t \in StateIds : t # n /\ t # af => Queued(t)' = Queued(t)
    BY <2>0, <2>1 DEF Queued
  <2>4. QueueAccounting'
    BY <2>0, <2>3 DEF QueueInv, QueueAccounting
  <2>5. OnePlace'
    <3> DEFINE was(t) == IF t = n THEN af ELSE t
    <3>1. ASSUME NEW t \in StateIds, NEW i \in DOMAIN (queue'[t])
          PROVE  t # af /\ was(t) \in StateIds /\ i \in DOMAIN queue[was(t)] /\ queue'[t][i] = queue[was(t)][i]
      BY <2>0, <2>1
    <3>2. \A t \in StateIds, u \in StateIds : t # af /\ u # af /\ was(t) = was(u) => t = u
      BY <2>0
    <3> HIDE DEF was
    <3> QED BY <3>1, <3>2 DEF QueueInv, OnePlace
  <2> QED BY <2>2, <2>4, <2>5 DEF QueueInv
<1> QED BY <1>1, <1>2

-----------------------------------------------------------------------------
(* Places of a handler whose message has no outcome and is in no queue. *)
FreshPcs == {"arrived", "ensure", "start", "lookup", "append"}

FateAt(p) ==
    /\ p \in Msgs /\ At(p, "idle") => fate[p] = "none"
    /\ p \in Msgs /\ (pc[p] \in FreshPcs \/ Resetting(p)) => fate[p] = "handled"
    /\ pc[p] \in WorkPcs => cur[p] \in Msgs /\ fate[cur[p]] = "running"
    /\ At(p, "begin") => cur[p] = p
FateInv ==
    /\ \A p \in Procs : FateAt(p)
    /\ \A p, q \in Procs : p # q /\ pc[p] \in WorkPcs /\ pc[q] \in WorkPcs => cur[p] # cur[q]

(* A step of p settles no message but its own, the one it works on and     *)
(* queued ones.                                                            *)
Careful(p) ==
    /\ \A q \in Procs \ {p} : pc'[q] = pc[q] /\ cur'[q] = cur[q] /\ back'[q] = back[q]
    /\ \A m \in Msgs : \/ fate'[m] = fate[m] \/ fate[m] = "queued"
                       \/ m = p /\ fate[m] \in {"none", "handled"}
                       \/ pc[p] \in WorkPcs /\ m = cur[p]
    /\ FateAt(p)'
    /\ pc'[p] \in WorkPcs => (pc[p] \in WorkPcs /\ cur'[p] = cur[p]) \/ fate[cur'[p]] # "running"

LEMMA FateStep == ASSUME FateInv, NEW p \in Procs, Careful(p) PROVE FateInv'
<1>1. ASSUME NEW q \in Procs, q # p PROVE FateAt(q)'
  <2>1. /\ pc'[q] = pc[q] /\ cur'[q] = cur[q] /\ FateAt(q)
        /\ Resetting(q)' = Resetting(q)
    BY <1>1 DEF Careful, FateInv, Resetting
  <2>2. q \in Msgs /\ (pc[q] \in FreshPcs \cup {"idle"} \/ Resetting(q)) => fate'[q] = fate[q]
    BY <1>1, <2>1 DEF Careful, FateInv, FateAt, At, FreshPcs
  <2>3. pc[q] \in WorkPcs => fate'[cur[q]] = fate[cur[q]]
    BY <1>1, <2>1 DEF Careful, FateInv, FateAt
  <2> QED BY <2>1, <2>2, <2>3 DEF FateAt, At
<1>2. ASSUME NEW q \in Procs, NEW r \in Procs, q # r, pc'[q] \in WorkPcs, pc'[r] \in WorkPcs
      PROVE  cur'[q] # cur'[r]
  <2>1. ASSUME NEW x \in Procs, x # p, pc'[x] \in WorkPcs, pc'[p] \in WorkPcs PROVE cur'[p] # cur'[x]
    BY <2>1 DEF Careful, FateInv, FateAt
  <2>2. CASE q # p /\ r # p
    BY <1>2, <2>2 DEF Careful, FateInv
  <2> QED BY <1>2, <2>1, <2>2
<1> QED BY <1>1, <1>2 DEF FateInv, Careful

LEMMA CarefulOutcome ==
    ASSUME FateInv, NEW p \in Procs, Careful(p), NEW m \in Msgs, fate[m] \in Outcomes
    PROVE  fate'[m] = fate[m]
  BY DEF FateInv, FateAt, Careful, Outcomes

-----------------------------------------------------------------------------
(* A message that has not started a turn has not allocated its state. *)
BeforeStart == {"idle", "arrived", "ensure", "start"}
Unborn(m) ==
    /\ table # Started(m) /\ queue[Started(m)] = <<>>
    /\ \A p \in Procs : ref[p] # Started(m) /\ expect[p] # Started(m)
Early(m)  == pc[m] \in BeforeStart \/ Resetting(m)
UnbornInv == \A m \in Msgs : Early(m) => Unborn(m)

(* A step of p that points to no state but those it finds. *)
Borrows(p) ==
    /\ \A q \in Procs \ {p} : /\ pc'[q] = pc[q] /\ ref'[q] = ref[q] /\ back'[q] = back[q]
                              /\ expect'[q] = expect[q]
    /\ ref'[p] \in {ref[p], table, NoState} /\ expect'[p] \in {expect[p], ref[p], table}
    /\ table' \in {table, NoState} \cup {Placeholder(m) : m \in Msgs}
    /\ p \in Msgs /\ Early(p)' => Early(p)
    /\ \A s \in StateIds : queue[s] = <<>> /\ s # ref[p] => queue'[s] = <<>>

LEMMA BorrowStep == ASSUME TypeOK, UnbornInv, NEW p \in Procs, Borrows(p) PROVE UnbornInv'
<1> SUFFICES ASSUME NEW m \in Msgs, Early(m)' PROVE Unborn(m)'
  BY DEF UnbornInv
<1>1. Unborn(m) /\ m \in Procs
  BY ProcNames DEF UnbornInv, Borrows, Early, Resetting
<1>2. Started(m) \in StateIds /\ Started(m) # NoState
  BY StateNames
<1>3. \A x \in Msgs : Placeholder(x) # Started(m)
  BY DEF Placeholder, Started
<1>4. table' # Started(m)
  BY <1>1, <1>2, <1>3 DEF Borrows, Unborn
<1>5. \A q \in Procs : ref'[q] # Started(m) /\ expect'[q] # Started(m)
  BY <1>1, <1>2 DEF Borrows, Unborn
<1>6. queue'[Started(m)] = <<>>
  BY <1>1, <1>2 DEF Borrows, Unborn
<1> QED BY <1>4, <1>5, <1>6 DEF Unborn

-----------------------------------------------------------------------------
(* Every step keeps the books. *)
Books(p) == QueueInv' /\ UnbornInv' /\ Careful(p)

LEMMA Dropped ==
    ASSUME TypeOK, QueueInv, NEW s \in StateIds, DropQueue(s)
    PROVE  /\ QueueInv'
           /\ \A m \in Msgs : fate'[m] = fate[m] \/ fate[m] = "queued"
           /\ \A t \in StateIds : queue[t] = <<>> => queue'[t] = <<>>
<1>1. \A m \in Msgs : m \in Queued(s) => fate[m] = "queued"
  BY DEF QueueInv, QueueAccounting
<1>2. /\ \A m \in Msgs : fate'[m] = IF m \in Queued(s) THEN "dropped" ELSE fate[m]
      /\ queue' = [queue EXCEPT ![s] = <<>>]
  BY DEF DropQueue
<1>3. \A t \in StateIds : queue[t] = <<>> => queue'[t] = <<>>
  BY <1>2 DEF TypeOK
<1>4. QueueInv'
  BY <1>2, DropStep
<1> QED BY <1>1, <1>2, <1>3, <1>4

LEMMA DroppedAnd ==
    ASSUME TypeOK, QueueInv, NEW s \in StateIds, NEW x \in Msgs, NEW o \in Outcomes,
           fate[x] = "running", DropQueueAnd(s, x, o)
    PROVE  /\ QueueInv'
           /\ \A m \in Msgs : fate'[m] = fate[m] \/ fate[m] = "queued" \/ m = x
           /\ \A t \in StateIds : queue[t] = <<>> => queue'[t] = <<>>
<1>1. \A m \in Msgs : m \in Queued(s) => fate[m] = "queued"
  BY DEF QueueInv, QueueAccounting
<1>2. /\ \A m \in Msgs : fate'[m] = IF m = x THEN o ELSE IF m \in Queued(s) THEN "dropped" ELSE fate[m]
      /\ queue' = [queue EXCEPT ![s] = <<>>]
  BY DEF DropQueueAnd
<1>3. \A t \in StateIds : queue[t] = <<>> => queue'[t] = <<>>
  BY <1>2 DEF TypeOK
<1>4. \A m \in Msgs : fate'[m] = "queued" <=> fate[m] = "queued" /\ m \notin Queued(s)
  BY <1>2 DEF Outcomes
<1>5. QueueInv'
  BY <1>2, <1>4, DropStep
<1> QED BY <1>1, <1>2, <1>3, <1>5

LEMMA Popped ==
    ASSUME TypeOK, QueueInv, NEW p \in Procs, NEW s \in StateIds, queue[s] # <<>>, Pop(p, s)
    PROVE  /\ QueueInv'
           /\ \A m \in Msgs : fate'[m] = fate[m] \/ fate[m] = "queued"
           /\ \A t \in StateIds : queue[t] = <<>> => queue'[t] = <<>>
           /\ cur'[p] \in Msgs /\ fate[cur'[p]] = "queued" /\ fate'[cur'[p]] = "running"
           /\ \A q \in Procs \ {p} : cur'[q] = cur[q]
<1> DEFINE h == Head(queue[s])
<1>1. h \in Msgs /\ h \in Queued(s)
  <2>1. queue[s] \in Seq(Msgs) /\ DOMAIN queue[s] = 1 .. Len(queue[s])
    BY QueueShape
  <2>2. Len(queue[s]) > 0 /\ h = queue[s][1] /\ 1 \in DOMAIN queue[s]
    BY <2>1
  <2> QED BY <2>1, <2>2 DEF Queued
<1>2. fate[h] = "queued"
  BY <1>1 DEF QueueInv, QueueAccounting
<1>3. /\ cur' = [cur EXCEPT ![p] = h]
      /\ queue' = [queue EXCEPT ![s] = Tail(queue[s])]
      /\ fate' = [fate EXCEPT ![h] = "running"]
  BY DEF Pop
<1> HIDE DEF h
<1>4. /\ cur'[p] = h /\ \A q \in Procs \ {p} : cur'[q] = cur[q]
      /\ fate'[h] = "running" /\ \A m \in Msgs : m # h => fate'[m] = fate[m]
      /\ \A t \in StateIds : queue[t] = <<>> => queue'[t] = <<>>
  BY <1>1, <1>3 DEF TypeOK
<1>5. QueueInv'
  BY <1>3, PopStep DEF h
<1> QED BY <1>1, <1>2, <1>4, <1>5

AcctInv == QueueInv /\ FateInv /\ UnbornInv

LEMMA BooksKept ==
    ASSUME IType, AcctInv, NEW p \in Procs, QueueKept, Borrows(p), Careful(p)
    PROVE  Books(p)
  BY KeptStep, BorrowStep DEF IType, AcctInv, Books

LEMMA HandlerBooks ==
    ASSUME IType, AcctInv, NEW m \in Msgs,
           \/ Arrive(m) \/ TryLock(m) \/ EnsureState(m) \/ QueueLookup(m) \/ QueueAppend(m)
           \/ RetryLock(m) \/ OrphanLookup(m) \/ OrphanCheck(m) \/ ReuseState(m)
           \/ (\E how \in {"resumed", "fresh", "failed"} : StartState(m, how)) \/ Begin(m)
    PROVE  Books(m)
<1> m \in Procs
  BY ProcNames
<1> USE DEF On, At, Goto, Settle, stateVars, lockVars, localVars
<1>1. CASE Arrive(m)
  <2>1. QueueKept
    BY <1>1 DEF Arrive, QueueKept, IType, TypeOK, AcctInv, FateInv, FateAt, Careful,
       FreshPcs, Resetting, ResetPcs, CleanupPcs, WorkPcs, Outcomes
  <2>2. Borrows(m)
    BY <1>1 DEF Arrive, Borrows, Early, BeforeStart, Resetting, ResetPcs, CleanupPcs, IType,
       TypeOK
  <2>3. Careful(m)
    BY <1>1 DEF Arrive, IType, TypeOK, AcctInv, FateInv, FateAt, Careful, FreshPcs,
       Resetting, ResetPcs, CleanupPcs, WorkPcs, Outcomes
  <2> QED BY <2>1, <2>2, <2>3, BooksKept
<1>2. CASE TryLock(m)
  <2>1. QueueKept
    BY <1>2 DEF TryLock, QueueKept, IType, TypeOK, AcctInv, FateInv, FateAt, Careful,
       FreshPcs, Resetting, ResetPcs, CleanupPcs, WorkPcs, Outcomes
  <2>2. Borrows(m)
    BY <1>2 DEF TryLock, Borrows, Early, BeforeStart, Resetting, ResetPcs, CleanupPcs, IType,
       TypeOK
  <2>3. Careful(m)
    BY <1>2 DEF TryLock, IType, TypeOK, AcctInv, FateInv, FateAt, Careful, FreshPcs,
       Resetting, ResetPcs, CleanupPcs, WorkPcs, Outcomes
  <2> QED BY <2>1, <2>2, <2>3, BooksKept
<1>3. CASE EnsureState(m)
  <2>1. QueueKept
    BY <1>3 DEF EnsureState, QueueKept, IType, TypeOK, AcctInv, FateInv, FateAt, Careful,
       FreshPcs, Resetting, ResetPcs, CleanupPcs, WorkPcs, Outcomes
  <2>2. Borrows(m)
    BY <1>3 DEF EnsureState, Borrows, Early, BeforeStart, Resetting, ResetPcs, CleanupPcs,
       IType, TypeOK
  <2>3. Careful(m)
    BY <1>3 DEF EnsureState, IType, TypeOK, AcctInv, FateInv, FateAt, Careful, FreshPcs,
       Resetting, ResetPcs, CleanupPcs, WorkPcs, Outcomes
  <2> QED BY <2>1, <2>2, <2>3, BooksKept
<1>4. CASE QueueLookup(m)
  <2>1. QueueKept
    BY <1>4 DEF QueueLookup, QueueKept, IType, TypeOK, AcctInv, FateInv, FateAt, Careful,
       FreshPcs, Resetting, ResetPcs, CleanupPcs, WorkPcs, Outcomes
  <2>2. Borrows(m)
    BY <1>4 DEF QueueLookup, Borrows, Early, BeforeStart, Resetting, ResetPcs, CleanupPcs,
       IType, TypeOK
  <2>3. Careful(m)
    BY <1>4 DEF QueueLookup, IType, TypeOK, AcctInv, FateInv, FateAt, Careful, FreshPcs,
       Resetting, ResetPcs, CleanupPcs, WorkPcs, Outcomes
  <2> QED BY <2>1, <2>2, <2>3, BooksKept
<1>5. CASE QueueAppend(m)
  <2>0. ref[m] \in StateIds /\ fate[m] = "handled"
    BY <1>5 DEF QueueAppend, IType, TypeOK, AcctInv, FateInv, FateAt, Careful, FreshPcs,
       Resetting, ResetPcs, CleanupPcs, WorkPcs, Outcomes, RefOK, RefAt, RefPcs
  <2>1. QueueInv'
    <3>1. CASE Len(queue[ref[m]]) >= MaxQueued
      <4>1. QueueKept
        BY <1>5, <2>0, <3>1 DEF QueueAppend, QueueKept, IType, TypeOK
      <4> QED BY <4>1, KeptStep DEF AcctInv
    <3>2. CASE ~(Len(queue[ref[m]]) >= MaxQueued)
      <4>1. Len(queue[ref[m]]) \in Nat /\ MaxQueued \in Nat
        BY <2>0, QueueShape, ConstantsOK DEF IType
      <4>2. Len(queue[ref[m]]) < MaxQueued
        BY <3>2, <4>1
      <4>3. /\ queue' = [queue EXCEPT ![ref[m]] = Append(queue[ref[m]], m)]
            /\ fate' = [fate EXCEPT ![m] = "queued"]
        BY <1>5, <3>2 DEF QueueAppend
      <4> QED BY <2>0, <4>2, <4>3, AppendStep DEF IType, AcctInv
    <3> QED BY <3>1, <3>2
  <2>2. Borrows(m)
    BY <1>5 DEF QueueAppend, Borrows, Early, BeforeStart, Resetting, ResetPcs, CleanupPcs,
       IType, TypeOK
  <2>3. Careful(m)
    BY <1>5, <2>0 DEF QueueAppend, IType, TypeOK, AcctInv, FateInv, FateAt, Careful,
       FreshPcs, Resetting, ResetPcs, CleanupPcs, WorkPcs, Outcomes
  <2> QED BY <2>1, <2>2, <2>3, BorrowStep DEF Books, IType, AcctInv
<1>6. CASE RetryLock(m)
  <2>1. QueueKept
    BY <1>6 DEF RetryLock, QueueKept, IType, TypeOK, AcctInv, FateInv, FateAt, Careful,
       FreshPcs, Resetting, ResetPcs, CleanupPcs, WorkPcs, Outcomes
  <2>2. Borrows(m)
    BY <1>6 DEF RetryLock, Borrows, Early, BeforeStart, Resetting, ResetPcs, CleanupPcs,
       IType, TypeOK
  <2>3. Careful(m)
    BY <1>6 DEF RetryLock, IType, TypeOK, AcctInv, FateInv, FateAt, Careful, FreshPcs,
       Resetting, ResetPcs, CleanupPcs, WorkPcs, Outcomes
  <2> QED BY <2>1, <2>2, <2>3, BooksKept
<1>7. CASE OrphanLookup(m)
  <2>1. QueueKept
    BY <1>7 DEF OrphanLookup, QueueKept, IType, TypeOK, AcctInv, FateInv, FateAt, Careful,
       FreshPcs, Resetting, ResetPcs, CleanupPcs, WorkPcs, Outcomes
  <2>2. Borrows(m)
    BY <1>7 DEF OrphanLookup, Borrows, Early, BeforeStart, Resetting, ResetPcs, CleanupPcs,
       IType, TypeOK
  <2>3. Careful(m)
    BY <1>7 DEF OrphanLookup, IType, TypeOK, AcctInv, FateInv, FateAt, Careful, FreshPcs,
       Resetting, ResetPcs, CleanupPcs, WorkPcs, Outcomes
  <2> QED BY <2>1, <2>2, <2>3, BooksKept
<1>8. CASE OrphanCheck(m)
  <2>0. ref[m] \in StateIds
    BY <1>8 DEF OrphanCheck, IType, TypeOK, AcctInv, FateInv, FateAt, Careful, FreshPcs,
       Resetting, ResetPcs, CleanupPcs, WorkPcs, Outcomes, RefOK, RefAt, RefPcs, LoopPcs,
       DrainPcs
  <2>1. CASE Usable(ref[m])
    <3>1. QueueKept
      BY <1>8, <2>1 DEF OrphanCheck, QueueKept, IType, TypeOK, AcctInv, FateInv, FateAt,
         Careful, FreshPcs, Resetting, ResetPcs, CleanupPcs, WorkPcs, Outcomes
    <3>2. Borrows(m)
      BY <1>8, <2>1 DEF OrphanCheck, Borrows, Early, BeforeStart, Resetting, ResetPcs,
         CleanupPcs, IType, TypeOK
    <3>3. Careful(m)
      BY <1>8, <2>1 DEF OrphanCheck, IType, TypeOK, AcctInv, FateInv, FateAt, Careful,
         FreshPcs, Resetting, ResetPcs, CleanupPcs, WorkPcs, Outcomes
    <3> QED BY <3>1, <3>2, <3>3, BooksKept
  <2>2. CASE ~(Usable(ref[m]))
    <3>1. DropQueue(ref[m])
      BY <1>8, <2>2 DEF OrphanCheck
    <3>2. /\ QueueInv'
          /\ \A x \in Msgs : fate'[x] = fate[x] \/ fate[x] = "queued"
          /\ \A t \in StateIds : queue[t] = <<>> => queue'[t] = <<>>
      BY <2>0, <3>1, Dropped DEF IType, AcctInv
    <3>3. Borrows(m)
      BY <1>8, <2>2, <3>2 DEF OrphanCheck, Borrows, Early, BeforeStart, Resetting, ResetPcs,
         CleanupPcs, IType, TypeOK
    <3>4. Careful(m)
      BY <1>8, <2>0, <2>2, <3>2 DEF OrphanCheck, IType, TypeOK, AcctInv, FateInv, FateAt,
         Careful, FreshPcs, Resetting, ResetPcs, CleanupPcs, WorkPcs, Outcomes
    <3> QED BY <3>2, <3>3, <3>4, BorrowStep DEF Books, IType, AcctInv
  <2> QED BY <2>1, <2>2
<1>9. CASE ReuseState(m)
  <2>1. QueueKept
    BY <1>9 DEF ReuseState, QueueKept, IType, TypeOK, AcctInv, FateInv, FateAt, Careful,
       FreshPcs, Resetting, ResetPcs, CleanupPcs, WorkPcs, Outcomes
  <2>2. Borrows(m)
    BY <1>9 DEF ReuseState, Borrows, Early, BeforeStart, Resetting, ResetPcs, CleanupPcs,
       IType, TypeOK
  <2>3. Careful(m)
    BY <1>9 DEF ReuseState, IType, TypeOK, AcctInv, FateInv, FateAt, Careful, FreshPcs,
       Resetting, ResetPcs, CleanupPcs, WorkPcs, Outcomes
  <2> QED BY <2>1, <2>2, <2>3, BooksKept
<1>10. CASE \E how \in {"resumed", "fresh", "failed"} : StartState(m, how)
  <2> PICK how \in {"resumed", "fresh", "failed"} : StartState(m, how)
    BY <1>10
  <2> DEFINE n == Started(m)
  <2>0. Unborn(m) /\ fate[m] = "handled" /\ n \in StateIds
    BY StateNames DEF StartState, IType, TypeOK, AcctInv, FateInv, FateAt, Careful, FreshPcs,
       Resetting, ResetPcs, CleanupPcs, WorkPcs, Outcomes, UnbornInv, Early, BeforeStart
  <2>1. QueueInv'
    <3>1. queue' = Adopt(n) /\ \A x \in Msgs : fate'[x] = "queued" <=> fate[x] = "queued"
      BY <2>0 DEF StartState, IType, TypeOK
    <3> HIDE DEF n
    <3> QED BY <2>0, <3>1, AdoptStep DEF n, IType, AcctInv, Unborn
  <2>2. Careful(m)
    BY <2>0 DEF StartState, IType, TypeOK, AcctInv, FateInv, FateAt, Careful, FreshPcs,
       Resetting, ResetPcs, CleanupPcs, WorkPcs, Outcomes
  <2>3. UnbornInv'
    <3> SUFFICES ASSUME NEW x \in Msgs, Early(x)' PROVE Unborn(x)'
      BY DEF UnbornInv
    <3>1. x # m /\ Unborn(x)
      BY DEF StartState, Early, BeforeStart, Resetting, ResetPcs, CleanupPcs, IType, TypeOK,
         AcctInv, UnbornInv
    <3>2. Started(x) \in StateIds /\ Started(x) # n
      BY <3>1, StateNames DEF Started
    <3>3. table' = n /\ ref' = [ref EXCEPT ![m] = n] /\ queue' = Adopt(n)
      BY DEF StartState
    <3>4. AdoptedFrom # Started(x)
      BY <3>1, <3>2, StateNames DEF AdoptedFrom, Unborn
    <3>5. queue'[Started(x)] = <<>>
      BY <3>1, <3>2, <3>3, <3>4 DEF Adopt, Unborn
    <3>6. ASSUME NEW q \in Procs PROVE ref'[q] # Started(x) /\ expect'[q] # Started(x)
      <4>1. ref[q] # Started(x) /\ expect'[q] # Started(x)
        BY <3>1, <3>6 DEF Unborn, StartState
      <4>2. ref'[q] = ref[q] \/ ref'[q] = n
        BY <3>3, LocalTyped
      <4> QED BY <3>2, <4>1, <4>2
    <3> HIDE DEF n
    <3> QED BY <3>2, <3>3, <3>5, <3>6 DEF Unborn
  <2> QED BY <2>1, <2>2, <2>3 DEF Books
<1>11. CASE Begin(m)
  <2>1. QueueKept
    BY <1>11 DEF Begin, QueueKept, IType, TypeOK, AcctInv, FateInv, FateAt, Careful,
       FreshPcs, Resetting, ResetPcs, CleanupPcs, WorkPcs, Outcomes
  <2>2. Borrows(m)
    BY <1>11 DEF Begin, Borrows, Early, BeforeStart, Resetting, ResetPcs, CleanupPcs, IType,
       TypeOK
  <2>3. Careful(m)
    BY <1>11 DEF Begin, IType, TypeOK, AcctInv, FateInv, FateAt, Careful, FreshPcs,
       Resetting, ResetPcs, CleanupPcs, WorkPcs, Outcomes
  <2> QED BY <2>1, <2>2, <2>3, BooksKept
<1> QED BY <1>1, <1>2, <1>3, <1>4, <1>5, <1>6, <1>7, <1>8, <1>9, <1>10, <1>11

LEMMA LoopBooks ==
    ASSUME IType, AcctInv, NEW p \in Procs,
           \/ OpenEvents(p) \/ NextQueued(p) \/ LoopStopped(p)
           \/ (\E how \in {"reply", "unsent", "compress"} : LoopResult(p, how)) \/ LoopError(p)
           \/ LoopSendError(p) \/ LoopIdle(p) \/ LoopClosed(p) \/ Drain(p) \/ Deliver(p)
           \/ Exit(p) \/ LoopAsk(p) \/ Pend(p) \/ Resume(p)
    PROVE  Books(p)
<1> USE DEF On, At, Goto, Settle, stateVars, lockVars, localVars
<1>1. CASE OpenEvents(p)
  <2>1. QueueKept
    BY <1>1 DEF OpenEvents, UseAgent, QueueKept, IType, TypeOK, AcctInv, FateInv, FateAt,
       Careful, FreshPcs, Resetting, ResetPcs, CleanupPcs, WorkPcs, Outcomes
  <2>2. Borrows(p)
    BY <1>1 DEF OpenEvents, UseAgent, Borrows, Early, BeforeStart, Resetting, ResetPcs,
       CleanupPcs, IType, TypeOK
  <2>3. Careful(p)
    BY <1>1 DEF OpenEvents, UseAgent, IType, TypeOK, AcctInv, FateInv, FateAt, Careful,
       FreshPcs, Resetting, ResetPcs, CleanupPcs, WorkPcs, Outcomes
  <2> QED BY <2>1, <2>2, <2>3, BooksKept
<1>2. CASE NextQueued(p)
  <2>0. ref[p] \in StateIds
    BY <1>2 DEF NextQueued, IType, TypeOK, AcctInv, FateInv, FateAt, Careful, FreshPcs,
       Resetting, ResetPcs, CleanupPcs, WorkPcs, Outcomes, RefOK, RefAt, RefPcs, LoopPcs,
       DrainPcs
  <2>1. CASE queue[ref[p]] = <<>>
    <3>1. QueueKept
      BY <1>2, <2>1 DEF NextQueued, QueueKept, IType, TypeOK, AcctInv, FateInv, FateAt,
         Careful, FreshPcs, Resetting, ResetPcs, CleanupPcs, WorkPcs, Outcomes
    <3>2. Borrows(p)
      BY <1>2, <2>1 DEF NextQueued, Borrows, Early, BeforeStart, Resetting, ResetPcs,
         CleanupPcs, IType, TypeOK
    <3>3. Careful(p)
      BY <1>2, <2>1 DEF NextQueued, IType, TypeOK, AcctInv, FateInv, FateAt, Careful,
         FreshPcs, Resetting, ResetPcs, CleanupPcs, WorkPcs, Outcomes
    <3> QED BY <3>1, <3>2, <3>3, BooksKept
  <2>2. CASE ~(queue[ref[p]] = <<>>)
    <3>1. queue[ref[p]] # <<>> /\ Pop(p, ref[p])
      BY <1>2, <2>2 DEF NextQueued
    <3>2. /\ QueueInv'
          /\ \A m \in Msgs : fate'[m] = fate[m] \/ fate[m] = "queued"
          /\ \A t \in StateIds : queue[t] = <<>> => queue'[t] = <<>>
          /\ cur'[p] \in Msgs /\ fate[cur'[p]] = "queued" /\ fate'[cur'[p]] = "running"
          /\ \A q \in Procs \ {p} : cur'[q] = cur[q]
      BY <2>0, <3>1, Popped DEF IType, AcctInv
    <3>3. Borrows(p)
      BY <1>2, <2>2, <3>2 DEF NextQueued, Borrows, Early, BeforeStart, Resetting, ResetPcs,
         CleanupPcs, IType, TypeOK
    <3>4. Careful(p)
      BY <1>2, <2>0, <2>2, <3>2 DEF NextQueued, IType, TypeOK, AcctInv, FateInv, FateAt,
         Careful, FreshPcs, Resetting, ResetPcs, CleanupPcs, WorkPcs, Outcomes
    <3> QED BY <3>2, <3>3, <3>4, BorrowStep DEF Books, IType, AcctInv
  <2> QED BY <2>1, <2>2
<1>3. CASE LoopStopped(p)
  <2>1. QueueKept
    BY <1>3 DEF LoopStopped, QueueKept, IType, TypeOK, AcctInv, FateInv, FateAt, Careful,
       FreshPcs, Resetting, ResetPcs, CleanupPcs, WorkPcs, Outcomes
  <2>2. Borrows(p)
    BY <1>3 DEF LoopStopped, Borrows, Early, BeforeStart, Resetting, ResetPcs, CleanupPcs,
       IType, TypeOK
  <2>3. Careful(p)
    BY <1>3 DEF LoopStopped, IType, TypeOK, AcctInv, FateInv, FateAt, Careful, FreshPcs,
       Resetting, ResetPcs, CleanupPcs, WorkPcs, Outcomes
  <2> QED BY <2>1, <2>2, <2>3, BooksKept
<1>4. CASE \E how \in {"reply", "unsent", "compress"} : LoopResult(p, how)
  <2>1. QueueKept
    BY <1>4 DEF LoopResult, QueueKept, IType, TypeOK, AcctInv, FateInv, FateAt, Careful,
       FreshPcs, Resetting, ResetPcs, CleanupPcs, WorkPcs, Outcomes
  <2>2. Borrows(p)
    BY <1>4 DEF LoopResult, Borrows, Early, BeforeStart, Resetting, ResetPcs, CleanupPcs,
       IType, TypeOK
  <2>3. Careful(p)
    BY <1>4 DEF LoopResult, IType, TypeOK, AcctInv, FateInv, FateAt, Careful, FreshPcs,
       Resetting, ResetPcs, CleanupPcs, WorkPcs, Outcomes
  <2> QED BY <2>1, <2>2, <2>3, BooksKept
<1>5. CASE LoopError(p)
  <2>0. ref[p] \in StateIds /\ cur[p] \in Msgs /\ fate[cur[p]] = "running"
    BY <1>5 DEF LoopError, IType, TypeOK, AcctInv, FateInv, FateAt, Careful, FreshPcs,
       Resetting, ResetPcs, CleanupPcs, WorkPcs, Outcomes, RefOK, RefAt, RefPcs, LoopPcs,
       DrainPcs
  <2>1. CASE Usable(ref[p])
    <3>1. QueueKept
      BY <1>5, <2>1 DEF LoopError, QueueKept, IType, TypeOK, AcctInv, FateInv, FateAt,
         Careful, FreshPcs, Resetting, ResetPcs, CleanupPcs, WorkPcs, Outcomes
    <3>2. Borrows(p)
      BY <1>5, <2>1 DEF LoopError, Borrows, Early, BeforeStart, Resetting, ResetPcs,
         CleanupPcs, IType, TypeOK
    <3>3. Careful(p)
      BY <1>5, <2>1 DEF LoopError, IType, TypeOK, AcctInv, FateInv, FateAt, Careful,
         FreshPcs, Resetting, ResetPcs, CleanupPcs, WorkPcs, Outcomes
    <3> QED BY <3>1, <3>2, <3>3, BooksKept
  <2>2. CASE ~(Usable(ref[p]))
    <3>1. DropQueueAnd(ref[p], cur[p], "failed")
      BY <1>5, <2>2 DEF LoopError
    <3>2. /\ QueueInv'
          /\ \A m \in Msgs : fate'[m] = fate[m] \/ fate[m] = "queued" \/ m = cur[p]
          /\ \A t \in StateIds : queue[t] = <<>> => queue'[t] = <<>>
      BY <2>0, <3>1, DroppedAnd, OutcomeNames DEF IType, AcctInv
    <3>3. Borrows(p)
      BY <1>5, <2>2, <3>2 DEF LoopError, Borrows, Early, BeforeStart, Resetting, ResetPcs,
         CleanupPcs, IType, TypeOK
    <3>4. Careful(p)
      BY <1>5, <2>0, <2>2, <3>2 DEF LoopError, IType, TypeOK, AcctInv, FateInv, FateAt,
         Careful, FreshPcs, Resetting, ResetPcs, CleanupPcs, WorkPcs, Outcomes
    <3> QED BY <3>2, <3>3, <3>4, BorrowStep DEF Books, IType, AcctInv
  <2> QED BY <2>1, <2>2
<1>6. CASE LoopSendError(p)
  <2>1. /\ QueueInv'
        /\ \A m \in Msgs : fate'[m] = fate[m] \/ fate[m] = "queued" \/ m = cur[p]
        /\ \A t \in StateIds : queue[t] = <<>> => queue'[t] = <<>>
    BY <1>6, DroppedAnd, OutcomeNames DEF LoopSendError, CleanupOwn, IType, TypeOK, AcctInv,
       FateInv, FateAt, Careful, FreshPcs, Resetting, ResetPcs, CleanupPcs, WorkPcs,
       Outcomes, RefOK, RefAt, RefPcs, LoopPcs
  <2>2. Borrows(p)
    BY <1>6, <2>1 DEF LoopSendError, CleanupOwn, Borrows, Early, BeforeStart, Resetting,
       ResetPcs, CleanupPcs, IType, TypeOK
  <2>3. Careful(p)
    BY <1>6, <2>1 DEF LoopSendError, CleanupOwn, IType, TypeOK, AcctInv, FateInv, FateAt,
       Careful, FreshPcs, Resetting, ResetPcs, CleanupPcs, WorkPcs, Outcomes
  <2> QED BY <2>1, <2>2, <2>3, BorrowStep DEF Books, IType, AcctInv
<1>7. CASE LoopIdle(p)
  <2>1. QueueKept
    BY <1>7 DEF LoopIdle, CleanupOwn, QueueKept, IType, TypeOK, AcctInv, FateInv, FateAt,
       Careful, FreshPcs, Resetting, ResetPcs, CleanupPcs, WorkPcs, Outcomes
  <2>2. Borrows(p)
    BY <1>7 DEF LoopIdle, CleanupOwn, Borrows, Early, BeforeStart, Resetting, ResetPcs,
       CleanupPcs, IType, TypeOK
  <2>3. Careful(p)
    BY <1>7 DEF LoopIdle, CleanupOwn, IType, TypeOK, AcctInv, FateInv, FateAt, Careful,
       FreshPcs, Resetting, ResetPcs, CleanupPcs, WorkPcs, Outcomes
  <2> QED BY <2>1, <2>2, <2>3, BooksKept
<1>8. CASE LoopClosed(p)
  <2>1. /\ QueueInv'
        /\ \A m \in Msgs : fate'[m] = fate[m] \/ fate[m] = "queued" \/ m = cur[p]
        /\ \A t \in StateIds : queue[t] = <<>> => queue'[t] = <<>>
    BY <1>8, DroppedAnd, OutcomeNames DEF LoopClosed, CleanupOwn, IType, TypeOK, AcctInv,
       FateInv, FateAt, Careful, FreshPcs, Resetting, ResetPcs, CleanupPcs, WorkPcs,
       Outcomes, RefOK, RefAt, RefPcs, LoopPcs
  <2>2. Borrows(p)
    BY <1>8, <2>1 DEF LoopClosed, CleanupOwn, Borrows, Early, BeforeStart, Resetting,
       ResetPcs, CleanupPcs, IType, TypeOK
  <2>3. Careful(p)
    BY <1>8, <2>1 DEF LoopClosed, CleanupOwn, IType, TypeOK, AcctInv, FateInv, FateAt,
       Careful, FreshPcs, Resetting, ResetPcs, CleanupPcs, WorkPcs, Outcomes
  <2> QED BY <2>1, <2>2, <2>3, BorrowStep DEF Books, IType, AcctInv
<1>9. CASE Drain(p)
  <2>0. ref[p] \in StateIds
    BY <1>9 DEF Drain, Unlock, IType, TypeOK, AcctInv, FateInv, FateAt, Careful, FreshPcs,
       Resetting, ResetPcs, CleanupPcs, WorkPcs, Outcomes, RefOK, RefAt, RefPcs, LoopPcs,
       DrainPcs
  <2>1. CASE queue[ref[p]] = <<>>
    <3>1. QueueKept
      BY <1>9, <2>1 DEF Drain, Unlock, QueueKept, IType, TypeOK, AcctInv, FateInv, FateAt,
         Careful, FreshPcs, Resetting, ResetPcs, CleanupPcs, WorkPcs, Outcomes
    <3>2. Borrows(p)
      BY <1>9, <2>1 DEF Drain, Unlock, Borrows, Early, BeforeStart, Resetting, ResetPcs,
         CleanupPcs, IType, TypeOK
    <3>3. Careful(p)
      BY <1>9, <2>1 DEF Drain, Unlock, IType, TypeOK, AcctInv, FateInv, FateAt, Careful,
         FreshPcs, Resetting, ResetPcs, CleanupPcs, WorkPcs, Outcomes
    <3> QED BY <3>1, <3>2, <3>3, BooksKept
  <2>2. CASE ~(queue[ref[p]] = <<>>)
    <3>1. queue[ref[p]] # <<>> /\ Pop(p, ref[p])
      BY <1>9, <2>2 DEF Drain, Unlock
    <3>2. /\ QueueInv'
          /\ \A m \in Msgs : fate'[m] = fate[m] \/ fate[m] = "queued"
          /\ \A t \in StateIds : queue[t] = <<>> => queue'[t] = <<>>
          /\ cur'[p] \in Msgs /\ fate[cur'[p]] = "queued" /\ fate'[cur'[p]] = "running"
          /\ \A q \in Procs \ {p} : cur'[q] = cur[q]
      BY <2>0, <3>1, Popped DEF IType, AcctInv
    <3>3. Borrows(p)
      BY <1>9, <2>2, <3>2 DEF Drain, Unlock, Borrows, Early, BeforeStart, Resetting,
         ResetPcs, CleanupPcs, IType, TypeOK
    <3>4. Careful(p)
      BY <1>9, <2>0, <2>2, <3>2 DEF Drain, Unlock, IType, TypeOK, AcctInv, FateInv, FateAt,
         Careful, FreshPcs, Resetting, ResetPcs, CleanupPcs, WorkPcs, Outcomes
    <3> QED BY <3>2, <3>3, <3>4, BorrowStep DEF Books, IType, AcctInv
  <2> QED BY <2>1, <2>2
<1>10. CASE Deliver(p)
  <2>0. ref[p] \in StateIds /\ cur[p] \in Msgs /\ fate[cur[p]] = "running"
    BY <1>10 DEF Deliver, IType, TypeOK, AcctInv, FateInv, FateAt, Careful, FreshPcs,
       Resetting, ResetPcs, CleanupPcs, WorkPcs, Outcomes, RefOK, RefAt, RefPcs, LoopPcs,
       DrainPcs
  <2>1. CASE Usable(ref[p])
    <3>1. QueueKept
      BY <1>10, <2>1 DEF Deliver, QueueKept, IType, TypeOK, AcctInv, FateInv, FateAt,
         Careful, FreshPcs, Resetting, ResetPcs, CleanupPcs, WorkPcs, Outcomes
    <3>2. Borrows(p)
      BY <1>10, <2>1 DEF Deliver, Borrows, Early, BeforeStart, Resetting, ResetPcs,
         CleanupPcs, IType, TypeOK
    <3>3. Careful(p)
      BY <1>10, <2>1 DEF Deliver, IType, TypeOK, AcctInv, FateInv, FateAt, Careful, FreshPcs,
         Resetting, ResetPcs, CleanupPcs, WorkPcs, Outcomes
    <3> QED BY <3>1, <3>2, <3>3, BooksKept
  <2>2. CASE ~(Usable(ref[p]))
    <3>1. DropQueueAnd(ref[p], cur[p], "dropped")
      BY <1>10, <2>2 DEF Deliver
    <3>2. /\ QueueInv'
          /\ \A m \in Msgs : fate'[m] = fate[m] \/ fate[m] = "queued" \/ m = cur[p]
          /\ \A t \in StateIds : queue[t] = <<>> => queue'[t] = <<>>
      BY <2>0, <3>1, DroppedAnd, OutcomeNames DEF IType, AcctInv
    <3>3. Borrows(p)
      BY <1>10, <2>2, <3>2 DEF Deliver, Borrows, Early, BeforeStart, Resetting, ResetPcs,
         CleanupPcs, IType, TypeOK
    <3>4. Careful(p)
      BY <1>10, <2>0, <2>2, <3>2 DEF Deliver, IType, TypeOK, AcctInv, FateInv, FateAt,
         Careful, FreshPcs, Resetting, ResetPcs, CleanupPcs, WorkPcs, Outcomes
    <3> QED BY <3>2, <3>3, <3>4, BorrowStep DEF Books, IType, AcctInv
  <2> QED BY <2>1, <2>2
<1>11. CASE Exit(p)
  <2>1. QueueKept
    BY <1>11 DEF Exit, Unlock, QueueKept, IType, TypeOK, AcctInv, FateInv, FateAt, Careful,
       FreshPcs, Resetting, ResetPcs, CleanupPcs, WorkPcs, Outcomes
  <2>2. Borrows(p)
    BY <1>11 DEF Exit, Unlock, Borrows, Early, BeforeStart, Resetting, ResetPcs, CleanupPcs,
       IType, TypeOK
  <2>3. Careful(p)
    BY <1>11 DEF Exit, Unlock, IType, TypeOK, AcctInv, FateInv, FateAt, Careful, FreshPcs,
       Resetting, ResetPcs, CleanupPcs, WorkPcs, Outcomes
  <2> QED BY <2>1, <2>2, <2>3, BooksKept
<1>12. CASE LoopAsk(p) \/ Pend(p) \/ Resume(p)
  <2>1. QueueKept
    BY <1>12 DEF LoopAsk, Pend, Resume, QueueKept
  <2>2. Borrows(p)
    BY <1>12 DEF LoopAsk, Pend, Resume, Borrows, Early, BeforeStart, Resetting, ResetPcs,
       CleanupPcs, IType, TypeOK
  <2>3. Careful(p)
    BY <1>12 DEF LoopAsk, Pend, Resume, IType, TypeOK, AcctInv, FateInv, FateAt, Careful,
       FreshPcs, Resetting, ResetPcs, CleanupPcs, WorkPcs, Outcomes
  <2> QED BY <2>1, <2>2, <2>3, BooksKept
<1> QED BY <1>1, <1>2, <1>3, <1>4, <1>5, <1>6, <1>7, <1>8, <1>9, <1>10, <1>11, <1>12

LEMMA ResetBooks ==
    ASSUME IType, AcctInv, NEW m \in Resets, ResetStep(m)
    PROVE  Books(m)
<1> m \in Procs /\ m \in Msgs
  BY ProcNames, SessNames
<1> USE DEF On, At, Goto, stateVars, localVars
<1>1. CASE LockAndReset(m)
  <2>1. QueueKept
    BY <1>1 DEF LockAndReset, QueueKept
  <2>2. Borrows(m)
    BY <1>1 DEF LockAndReset, Borrows, Early, BeforeStart, Resetting, ResetPcs, CleanupPcs, IType, TypeOK
  <2>3. Careful(m)
    BY <1>1 DEF LockAndReset, IType, TypeOK, AcctInv, FateInv, FateAt, Careful, FreshPcs, Resetting,
       ResetPcs, CleanupPcs, WorkPcs
  <2> QED BY <2>1, <2>2, <2>3, BooksKept
<1>2. CASE ResetUnlock(m)
  <2>1. QueueKept
    BY <1>2 DEF ResetUnlock, QueueKept
  <2>2. Borrows(m)
    BY <1>2 DEF ResetUnlock, Borrows, Early, BeforeStart, Resetting, ResetPcs, CleanupPcs, IType, TypeOK
  <2>3. Careful(m)
    BY <1>2 DEF ResetUnlock, IType, TypeOK, AcctInv, FateInv, FateAt, Careful, FreshPcs, Resetting,
       ResetPcs, CleanupPcs, WorkPcs
  <2> QED BY <2>1, <2>2, <2>3, BooksKept
<1>3. CASE Rotate(m)
  <2>1. QueueKept
    BY <1>3 DEF Rotate, QueueKept
  <2>2. Borrows(m)
    BY <1>3 DEF Rotate, Borrows, Early, BeforeStart, Resetting, ResetPcs, CleanupPcs, IType, TypeOK
  <2>3. Careful(m)
    BY <1>3 DEF Rotate, IType, TypeOK, AcctInv, FateInv, FateAt, Careful, FreshPcs, Resetting,
       ResetPcs, CleanupPcs, WorkPcs
  <2> QED BY <2>1, <2>2, <2>3, BooksKept
<1>4. CASE Relock(m)
  <2>1. QueueKept
    BY <1>4 DEF Relock, QueueKept
  <2>2. Borrows(m)
    BY <1>4 DEF Relock, Borrows, Early, BeforeStart, Resetting, ResetPcs, CleanupPcs, IType, TypeOK
  <2>3. Careful(m)
    BY <1>4 DEF Relock, IType, TypeOK, AcctInv, FateInv, FateAt, Careful, FreshPcs, Resetting,
       ResetPcs, CleanupPcs, WorkPcs
  <2> QED BY <2>1, <2>2, <2>3, BooksKept
<1> QED BY <1>1, <1>2, <1>3, <1>4 DEF ResetStep

LEMMA CleanupBooks ==
    ASSUME IType, AcctInv, NEW p \in Procs,
           \/ Detach(p) \/ MarkStopped(p) \/ NotifyDropped(p) \/ CloseAgent(p) \/ RemoveEntry(p)
    PROVE  Books(p)
<1> USE DEF On, At, Goto, Settle, stateVars, lockVars, localVars
<1>1. CASE Detach(p)
  <2>0. pc'[p] \in {"drain", "exit", "cnotify", "forget", "renew", "done", "markstop", "remove"}
    BY <1>1 DEF Detach, IType, TypeOK
  <2>1. QueueKept
    BY <1>1 DEF Detach, QueueKept
  <2>2. Borrows(p)
    BY <1>1, <2>0 DEF Detach, Borrows, Early, BeforeStart, Resetting, ResetPcs, CleanupPcs,
       IType, TypeOK
  <2>3. /\ fate' = fate /\ back' = back /\ (Resetting(p)' => Resetting(p))
        /\ \A q \in Procs \ {p} : pc'[q] = pc[q] /\ cur'[q] = cur[q]
    BY <1>1, <2>0 DEF Detach, IType, TypeOK, Resetting, ResetPcs, CleanupPcs
  <2>4. Careful(p)
    BY <2>0, <2>3 DEF Careful, FateAt, FreshPcs, WorkPcs, AcctInv, FateInv
  <2> QED BY <2>1, <2>2, <2>4, BooksKept
<1>2. CASE MarkStopped(p)
  <2>1. QueueKept
    BY <1>2 DEF MarkStopped, QueueKept, IType, TypeOK, AcctInv, FateInv, FateAt, Careful,
       FreshPcs, Resetting, ResetPcs, CleanupPcs, WorkPcs, Outcomes
  <2>2. Borrows(p)
    BY <1>2 DEF MarkStopped, Borrows, Early, BeforeStart, Resetting, ResetPcs, CleanupPcs,
       IType, TypeOK
  <2>3. Careful(p)
    BY <1>2 DEF MarkStopped, IType, TypeOK, AcctInv, FateInv, FateAt, Careful, FreshPcs,
       Resetting, ResetPcs, CleanupPcs, WorkPcs, Outcomes
  <2> QED BY <2>1, <2>2, <2>3, BooksKept
<1>3. CASE NotifyDropped(p)
  <2>1. /\ QueueInv'
        /\ \A m \in Msgs : fate'[m] = fate[m] \/ fate[m] = "queued"
        /\ \A t \in StateIds : queue[t] = <<>> => queue'[t] = <<>>
    BY <1>3, Dropped DEF NotifyDropped, IType, AcctInv, RefOK, RefAt, RefPcs
  <2>2. Borrows(p)
    BY <1>3, <2>1 DEF NotifyDropped, Borrows, Early, BeforeStart, Resetting, ResetPcs,
       CleanupPcs, IType, TypeOK
  <2>3. Careful(p)
    BY <1>3, <2>1 DEF NotifyDropped, IType, TypeOK, AcctInv, FateInv, FateAt, Careful,
       FreshPcs, Resetting, ResetPcs, CleanupPcs, WorkPcs, Outcomes
  <2> QED BY <2>1, <2>2, <2>3, BorrowStep DEF Books, IType, AcctInv
<1>4. CASE CloseAgent(p)
  <2>1. QueueKept
    BY <1>4 DEF CloseAgent, QueueKept, IType, TypeOK, AcctInv, FateInv, FateAt, Careful,
       FreshPcs, Resetting, ResetPcs, CleanupPcs, WorkPcs, Outcomes
  <2>2. Borrows(p)
    BY <1>4 DEF CloseAgent, Borrows, Early, BeforeStart, Resetting, ResetPcs, CleanupPcs,
       IType, TypeOK
  <2>3. Careful(p)
    BY <1>4 DEF CloseAgent, IType, TypeOK, AcctInv, FateInv, FateAt, Careful, FreshPcs,
       Resetting, ResetPcs, CleanupPcs, WorkPcs, Outcomes
  <2> QED BY <2>1, <2>2, <2>3, BooksKept
<1>5. CASE RemoveEntry(p)
  <2>0. pc'[p] \in {"drain", "exit", "cnotify", "forget", "renew", "done", "markstop", "remove"}
    BY <1>5 DEF RemoveEntry, IType, TypeOK
  <2>1. QueueKept
    BY <1>5 DEF RemoveEntry, QueueKept
  <2>2. Borrows(p)
    BY <1>5, <2>0 DEF RemoveEntry, Borrows, Early, BeforeStart, Resetting, ResetPcs,
       CleanupPcs, IType, TypeOK
  <2>3. /\ fate' = fate /\ back' = back /\ (Resetting(p)' => Resetting(p))
        /\ \A q \in Procs \ {p} : pc'[q] = pc[q] /\ cur'[q] = cur[q]
    BY <1>5, <2>0 DEF RemoveEntry, IType, TypeOK, Resetting, ResetPcs, CleanupPcs
  <2>4. Careful(p)
    BY <2>0, <2>3 DEF Careful, FateAt, FreshPcs, WorkPcs, AcctInv, FateInv
  <2> QED BY <2>1, <2>2, <2>4, BooksKept
<1> QED BY <1>1, <1>2, <1>3, <1>4, <1>5

LEMMA CompressBooks ==
    ASSUME IType, AcctInv, NEW p \in Procs,
           \/ CompressSend(p) \/ CompressStopped(p) \/ CompressResult(p) \/ CompressError(p)
           \/ CompressGone(p) \/ CompressNotify(p)
    PROVE  Books(p)
<1> USE DEF On, At, Goto, Settle, stateVars, lockVars, localVars
<1>1. CASE CompressSend(p)
  <2>1. QueueKept
    BY <1>1 DEF CompressSend, QueueKept, IType, TypeOK, AcctInv, FateInv, FateAt, Careful,
       FreshPcs, Resetting, ResetPcs, CleanupPcs, WorkPcs, Outcomes
  <2>2. Borrows(p)
    BY <1>1 DEF CompressSend, Borrows, Early, BeforeStart, Resetting, ResetPcs, CleanupPcs,
       IType, TypeOK
  <2>3. Careful(p)
    BY <1>1 DEF CompressSend, IType, TypeOK, AcctInv, FateInv, FateAt, Careful, FreshPcs,
       Resetting, ResetPcs, CleanupPcs, WorkPcs, Outcomes
  <2> QED BY <2>1, <2>2, <2>3, BooksKept
<1>2. CASE CompressStopped(p)
  <2>1. QueueKept
    BY <1>2 DEF CompressStopped, QueueKept, IType, TypeOK, AcctInv, FateInv, FateAt, Careful,
       FreshPcs, Resetting, ResetPcs, CleanupPcs, WorkPcs, Outcomes
  <2>2. Borrows(p)
    BY <1>2 DEF CompressStopped, Borrows, Early, BeforeStart, Resetting, ResetPcs,
       CleanupPcs, IType, TypeOK
  <2>3. Careful(p)
    BY <1>2 DEF CompressStopped, IType, TypeOK, AcctInv, FateInv, FateAt, Careful, FreshPcs,
       Resetting, ResetPcs, CleanupPcs, WorkPcs, Outcomes
  <2> QED BY <2>1, <2>2, <2>3, BooksKept
<1>3. CASE CompressResult(p)
  <2>1. QueueKept
    BY <1>3 DEF CompressResult, QueueKept, IType, TypeOK, AcctInv, FateInv, FateAt, Careful,
       FreshPcs, Resetting, ResetPcs, CleanupPcs, WorkPcs, Outcomes
  <2>2. Borrows(p)
    BY <1>3 DEF CompressResult, Borrows, Early, BeforeStart, Resetting, ResetPcs, CleanupPcs,
       IType, TypeOK
  <2>3. Careful(p)
    BY <1>3 DEF CompressResult, IType, TypeOK, AcctInv, FateInv, FateAt, Careful, FreshPcs,
       Resetting, ResetPcs, CleanupPcs, WorkPcs, Outcomes
  <2> QED BY <2>1, <2>2, <2>3, BooksKept
<1>4. CASE CompressError(p)
  <2>0. ref[p] \in StateIds
    BY <1>4 DEF CompressError, IType, TypeOK, AcctInv, FateInv, FateAt, Careful, FreshPcs,
       Resetting, ResetPcs, CleanupPcs, WorkPcs, Outcomes, RefOK, RefAt, RefPcs, LoopPcs,
       DrainPcs
  <2>1. CASE ~attached[ref[p]] \/ Alive(ref[p])
    <3>1. QueueKept
      BY <1>4, <2>1 DEF CompressError, QueueKept, IType, TypeOK, AcctInv, FateInv, FateAt,
         Careful, FreshPcs, Resetting, ResetPcs, CleanupPcs, WorkPcs, Outcomes
    <3>2. Borrows(p)
      BY <1>4, <2>1 DEF CompressError, Borrows, Early, BeforeStart, Resetting, ResetPcs,
         CleanupPcs, IType, TypeOK
    <3>3. Careful(p)
      BY <1>4, <2>1 DEF CompressError, IType, TypeOK, AcctInv, FateInv, FateAt, Careful,
         FreshPcs, Resetting, ResetPcs, CleanupPcs, WorkPcs, Outcomes
    <3> QED BY <3>1, <3>2, <3>3, BooksKept
  <2>2. CASE ~(~attached[ref[p]] \/ Alive(ref[p]))
    <3>1. DropQueue(ref[p])
      BY <1>4, <2>2 DEF CompressError
    <3>2. /\ QueueInv'
          /\ \A m \in Msgs : fate'[m] = fate[m] \/ fate[m] = "queued"
          /\ \A t \in StateIds : queue[t] = <<>> => queue'[t] = <<>>
      BY <2>0, <3>1, Dropped DEF IType, AcctInv
    <3>3. Borrows(p)
      BY <1>4, <2>2, <3>2 DEF CompressError, Borrows, Early, BeforeStart, Resetting,
         ResetPcs, CleanupPcs, IType, TypeOK
    <3>4. Careful(p)
      BY <1>4, <2>0, <2>2, <3>2 DEF CompressError, IType, TypeOK, AcctInv, FateInv, FateAt,
         Careful, FreshPcs, Resetting, ResetPcs, CleanupPcs, WorkPcs, Outcomes
    <3> QED BY <3>2, <3>3, <3>4, BorrowStep DEF Books, IType, AcctInv
  <2> QED BY <2>1, <2>2
<1>5. CASE CompressGone(p)
  <2>1. QueueKept
    BY <1>5 DEF CompressGone, CleanupOwn, QueueKept, IType, TypeOK, AcctInv, FateInv, FateAt,
       Careful, FreshPcs, Resetting, ResetPcs, CleanupPcs, WorkPcs, Outcomes
  <2>2. Borrows(p)
    BY <1>5 DEF CompressGone, CleanupOwn, Borrows, Early, BeforeStart, Resetting, ResetPcs,
       CleanupPcs, IType, TypeOK
  <2>3. Careful(p)
    BY <1>5 DEF CompressGone, CleanupOwn, IType, TypeOK, AcctInv, FateInv, FateAt, Careful,
       FreshPcs, Resetting, ResetPcs, CleanupPcs, WorkPcs, Outcomes
  <2> QED BY <2>1, <2>2, <2>3, BooksKept
<1>6. CASE CompressNotify(p)
  <2>1. /\ QueueInv'
        /\ \A m \in Msgs : fate'[m] = fate[m] \/ fate[m] = "queued"
        /\ \A t \in StateIds : queue[t] = <<>> => queue'[t] = <<>>
    BY <1>6, Dropped DEF CompressNotify, IType, AcctInv, RefOK, RefAt, RefPcs
  <2>2. Borrows(p)
    BY <1>6, <2>1 DEF CompressNotify, Borrows, Early, BeforeStart, Resetting, ResetPcs,
       CleanupPcs, IType, TypeOK
  <2>3. Careful(p)
    BY <1>6, <2>1 DEF CompressNotify, IType, TypeOK, AcctInv, FateInv, FateAt, Careful,
       FreshPcs, Resetting, ResetPcs, CleanupPcs, WorkPcs, Outcomes
  <2> QED BY <2>1, <2>2, <2>3, BorrowStep DEF Books, IType, AcctInv
<1> QED BY <1>1, <1>2, <1>3, <1>4, <1>5, <1>6

LEMMA CommandBooks ==
    ASSUME IType, AcctInv, NEW a \in Procs,
           \/ a \in Stops /\ (Stop(a) \/ StopNotify(a) \/ AsyncClose(a))
           \/ a \in News /\ (New(a) \/ ForgetOld(a) \/ NewSession(a))
           \/ a \in Reapers /\ (ReapIdle(a) \/ ReapScan(a))
           \/ a \in Compressors /\ (Compress(a) \/ CompressLock(a))
    PROVE  Books(a)
<1> USE DEF On, At, Goto, Settle, stateVars, lockVars, localVars
<1>1. CASE a \in Stops /\ Stop(a)
  <2>1. QueueKept
    BY <1>1 DEF Stop, QueueKept, IType, TypeOK, AcctInv, FateInv, FateAt, Careful, FreshPcs,
       Resetting, ResetPcs, CleanupPcs, WorkPcs, Outcomes, ConstantsOK
  <2>2. Borrows(a)
    BY <1>1 DEF Stop, Borrows, Early, BeforeStart, Resetting, ResetPcs, CleanupPcs, IType,
       TypeOK
  <2>3. Careful(a)
    BY <1>1 DEF Stop, IType, TypeOK, AcctInv, FateInv, FateAt, Careful, FreshPcs, Resetting,
       ResetPcs, CleanupPcs, WorkPcs, Outcomes, ConstantsOK
  <2> QED BY <2>1, <2>2, <2>3, BooksKept
<1>2. CASE a \in Stops /\ StopNotify(a)
  <2>1. /\ QueueInv'
        /\ \A m \in Msgs : fate'[m] = fate[m] \/ fate[m] = "queued"
        /\ \A t \in StateIds : queue[t] = <<>> => queue'[t] = <<>>
    BY <1>2, Dropped DEF StopNotify, IType, AcctInv, RefOK, RefAt, RefPcs
  <2>2. Borrows(a)
    BY <1>2, <2>1 DEF StopNotify, Borrows, Early, BeforeStart, Resetting, ResetPcs,
       CleanupPcs, IType, TypeOK
  <2>3. Careful(a)
    BY <1>2, <2>1 DEF StopNotify, IType, TypeOK, AcctInv, FateInv, FateAt, Careful, FreshPcs,
       Resetting, ResetPcs, CleanupPcs, WorkPcs, Outcomes, ConstantsOK
  <2> QED BY <2>1, <2>2, <2>3, BorrowStep DEF Books, IType, AcctInv
<1>3. CASE a \in Stops /\ AsyncClose(a)
  <2>1. QueueKept
    BY <1>3 DEF AsyncClose, QueueKept, IType, TypeOK, AcctInv, FateInv, FateAt, Careful,
       FreshPcs, Resetting, ResetPcs, CleanupPcs, WorkPcs, Outcomes, ConstantsOK
  <2>2. Borrows(a)
    BY <1>3 DEF AsyncClose, Borrows, Early, BeforeStart, Resetting, ResetPcs, CleanupPcs,
       IType, TypeOK
  <2>3. Careful(a)
    BY <1>3 DEF AsyncClose, IType, TypeOK, AcctInv, FateInv, FateAt, Careful, FreshPcs,
       Resetting, ResetPcs, CleanupPcs, WorkPcs, Outcomes, ConstantsOK
  <2> QED BY <2>1, <2>2, <2>3, BooksKept
<1>4. CASE a \in News /\ New(a)
  <2>1. QueueKept
    BY <1>4 DEF New, QueueKept, IType, TypeOK, AcctInv, FateInv, FateAt, Careful, FreshPcs,
       Resetting, ResetPcs, CleanupPcs, WorkPcs, Outcomes, ConstantsOK
  <2>2. Borrows(a)
    BY <1>4 DEF New, Borrows, Early, BeforeStart, Resetting, ResetPcs, CleanupPcs, IType,
       TypeOK
  <2>3. Careful(a)
    BY <1>4 DEF New, IType, TypeOK, AcctInv, FateInv, FateAt, Careful, FreshPcs, Resetting,
       ResetPcs, CleanupPcs, WorkPcs, Outcomes, ConstantsOK
  <2> QED BY <2>1, <2>2, <2>3, BooksKept
<1>5. CASE a \in News /\ (ForgetOld(a) \/ NewSession(a))
  <2>1. QueueKept
    BY <1>5 DEF ForgetOld, NewSession, QueueKept, IType, TypeOK, AcctInv, FateInv, FateAt, Careful,
       FreshPcs, Resetting, ResetPcs, CleanupPcs, WorkPcs, Outcomes, ConstantsOK
  <2>2. Borrows(a)
    BY <1>5 DEF ForgetOld, NewSession, Borrows, Early, BeforeStart, Resetting, ResetPcs, CleanupPcs,
       IType, TypeOK
  <2>3. Careful(a)
    BY <1>5 DEF ForgetOld, NewSession, IType, TypeOK, AcctInv, FateInv, FateAt, Careful, FreshPcs,
       Resetting, ResetPcs, CleanupPcs, WorkPcs, Outcomes, ConstantsOK
  <2> QED BY <2>1, <2>2, <2>3, BooksKept
<1>6. CASE a \in Reapers /\ ReapIdle(a)
  <2>1. QueueKept
    BY <1>6 DEF ReapIdle, QueueKept, IType, TypeOK, AcctInv, FateInv, FateAt, Careful,
       FreshPcs, Resetting, ResetPcs, CleanupPcs, WorkPcs, Outcomes, ConstantsOK
  <2>2. Borrows(a)
    BY <1>6 DEF ReapIdle, Borrows, Early, BeforeStart, Resetting, ResetPcs, CleanupPcs,
       IType, TypeOK
  <2>3. Careful(a)
    BY <1>6 DEF ReapIdle, IType, TypeOK, AcctInv, FateInv, FateAt, Careful, FreshPcs,
       Resetting, ResetPcs, CleanupPcs, WorkPcs, Outcomes, ConstantsOK
  <2> QED BY <2>1, <2>2, <2>3, BooksKept
<1>7. CASE a \in Reapers /\ ReapScan(a)
  <2>1. QueueKept
    BY <1>7 DEF ReapScan, QueueKept, IType, TypeOK, AcctInv, FateInv, FateAt, Careful,
       FreshPcs, Resetting, ResetPcs, CleanupPcs, WorkPcs, Outcomes, ConstantsOK
  <2>2. Borrows(a)
    BY <1>7 DEF ReapScan, Borrows, Early, BeforeStart, Resetting, ResetPcs, CleanupPcs,
       IType, TypeOK
  <2>3. Careful(a)
    BY <1>7 DEF ReapScan, IType, TypeOK, AcctInv, FateInv, FateAt, Careful, FreshPcs,
       Resetting, ResetPcs, CleanupPcs, WorkPcs, Outcomes, ConstantsOK
  <2> QED BY <2>1, <2>2, <2>3, BooksKept
<1>8. CASE a \in Compressors /\ Compress(a)
  <2>1. QueueKept
    BY <1>8 DEF Compress, QueueKept, IType, TypeOK, AcctInv, FateInv, FateAt, Careful,
       FreshPcs, Resetting, ResetPcs, CleanupPcs, WorkPcs, Outcomes, ConstantsOK
  <2>2. Borrows(a)
    BY <1>8 DEF Compress, Borrows, Early, BeforeStart, Resetting, ResetPcs, CleanupPcs,
       IType, TypeOK
  <2>3. Careful(a)
    BY <1>8 DEF Compress, IType, TypeOK, AcctInv, FateInv, FateAt, Careful, FreshPcs,
       Resetting, ResetPcs, CleanupPcs, WorkPcs, Outcomes, ConstantsOK
  <2> QED BY <2>1, <2>2, <2>3, BooksKept
<1>9. CASE a \in Compressors /\ CompressLock(a)
  <2>1. QueueKept
    BY <1>9 DEF CompressLock, QueueKept, IType, TypeOK, AcctInv, FateInv, FateAt, Careful,
       FreshPcs, Resetting, ResetPcs, CleanupPcs, WorkPcs, Outcomes, ConstantsOK
  <2>2. Borrows(a)
    BY <1>9 DEF CompressLock, Borrows, Early, BeforeStart, Resetting, ResetPcs, CleanupPcs,
       IType, TypeOK
  <2>3. Careful(a)
    BY <1>9 DEF CompressLock, IType, TypeOK, AcctInv, FateInv, FateAt, Careful, FreshPcs,
       Resetting, ResetPcs, CleanupPcs, WorkPcs, Outcomes, ConstantsOK
  <2> QED BY <2>1, <2>2, <2>3, BooksKept
<1> QED BY <1>1, <1>2, <1>3, <1>4, <1>5, <1>6, <1>7, <1>8, <1>9

-----------------------------------------------------------------------------
LEMMA AcctInit == Init => AcctInv
<1> SUFFICES ASSUME Init PROVE AcctInv
  OBVIOUS
<1>1. queue = [s \in StateIds |-> <<>>] /\ fate = [m \in Msgs |-> "none"] /\ pc = [p \in Procs |-> "idle"]
  BY DEF Init
<1>2. \A s \in StateIds : queue[s] = <<>> /\ Len(queue[s]) = 0 /\ DOMAIN queue[s] = {} /\ Queued(s) = {}
  BY <1>1 DEF Queued
<1>3. QueueInv
  BY <1>1, <1>2, ConstantsOK DEF QueueInv, QueueBound, QueueAccounting, OnePlace
<1>4. FateInv
  BY <1>1, ProcNames DEF FateInv, FateAt, At, FreshPcs, Resetting, ResetPcs, CleanupPcs,
     WorkPcs
<1>5. UnbornInv
  <2> SUFFICES ASSUME NEW m \in Msgs PROVE Unborn(m)
    BY DEF UnbornInv
  <2>1. Started(m) \in StateIds /\ Started(m) # NoState /\ Started(m) # Boot
    BY StateNames, ConstantsOK DEF Started
  <2> QED BY <1>2, <2>1 DEF Unborn, Init
<1> QED BY <1>3, <1>4, <1>5 DEF AcctInv

(* Every step is one of a process that keeps the books, or moves neither a *)
(* queue nor an outcome.                                                   *)
Aside == QueueKept /\ fate' = fate /\ UNCHANGED <<pc, cur, back, ref, expect, table, queue>>

LEMMA StepBooks ==
    ASSUME IType, AcctInv, [Next]_vars
    PROVE  Aside \/ \E p \in Procs : Books(p)
<1>1. CASE \E m \in Msgs : HandlerStep(m)
  BY <1>1, HandlerBooks, ProcNames DEF HandlerStep
<1>2. CASE \E p \in Procs : LoopStep(p)
  BY <1>2, LoopBooks DEF LoopStep
<1>3. CASE \E p \in Procs : CleanupStep(p)
  BY <1>3, CleanupBooks DEF CleanupStep
<1>4. CASE \E p \in Procs : CompressStep(p)
  BY <1>4, CompressBooks DEF CompressStep
<1>5. CASE CommandStep
  <2>1. ASSUME NEW p \in Procs, Answer(p) PROVE Aside
    BY <2>1 DEF Answer, Aside, QueueKept, localVars
  <2> QED BY <1>5, <2>1, CommandBooks, ProcNames DEF CommandStep
<1>6. CASE AgentStep \/ UNCHANGED vars
  BY <1>6 DEF AgentStep, AgentReports, AgentDies, Aside, QueueKept, vars, stateVars, localVars
<1>7. CASE \E m \in Resets : ResetStep(m)
  BY <1>7, ResetBooks, ProcNames, SessNames
<1> QED BY <1>1, <1>2, <1>3, <1>4, <1>5, <1>6, <1>7 DEF Next, Terminated

LEMMA AcctStep ==
    ASSUME IType, AcctInv, [Next]_vars
    PROVE  AcctInv'
<1>1. CASE Aside
  <2>1. QueueInv'
    BY <1>1, KeptStep DEF Aside, AcctInv
  <2>2. FateInv' /\ UnbornInv'
    BY <1>1 DEF Aside, AcctInv, FateInv, FateAt, At, UnbornInv, Unborn, Early, Resetting
  <2> QED BY <2>1, <2>2 DEF AcctInv
<1>2. CASE \E p \in Procs : Books(p)
  BY <1>2, FateStep DEF Books, AcctInv
<1> QED BY <1>1, <1>2, StepBooks

(* The invariant holds in every reachable state. *)
LEMMA AcctAlways == Spec => [](IType /\ AcctInv)
<1>1. Init => IType /\ AcctInv
  BY TypeInit, AcctInit
<1>2. IType /\ AcctInv /\ [Next]_vars => (IType /\ AcctInv)'
  BY TypeStep, AcctStep
<1> QED BY <1>1, <1>2, PTL DEF Spec

(* No queue outgrows e.maxQueuedMessages, for any number of handlers. *)
THEOREM BoundCorrect == Spec => []QueueBound
<1>1. IType /\ AcctInv => QueueBound
  BY DEF AcctInv, QueueInv
<1> QED BY <1>1, AcctAlways, PTL

(* A message is marked queued exactly while some queue holds it. *)
THEOREM AccountingCorrect == Spec => []QueueAccounting
<1>1. IType /\ AcctInv => QueueAccounting
  BY DEF AcctInv, QueueInv
<1> QED BY <1>1, AcctAlways, PTL

(* A message is in one queue, at one place in it. *)
THEOREM PlaceCorrect == Spec => []OnePlace
<1>1. IType /\ AcctInv => OnePlace
  BY DEF AcctInv, QueueInv
<1> QED BY <1>1, AcctAlways, PTL

(* The three together, which the runs check. *)
THEOREM BooksCorrect == Spec => []QueueBooks
<1>1. QueueBound /\ QueueAccounting /\ OnePlace => QueueBooks
  BY DEF QueueBooks
<1> QED BY <1>1, BoundCorrect, AccountingCorrect, PlaceCorrect, PTL

(* What became of a message is decided once. *)
THEOREM OutcomeCorrect == Spec => OneOutcome
<1>1. IType /\ AcctInv /\ [Next]_vars => [\A m \in Msgs : fate[m] \in Outcomes => fate'[m] = fate[m]]_vars
  BY StepBooks, CarefulOutcome DEF Aside, Books, AcctInv
<1> QED BY <1>1, AcctAlways, PTL DEF Spec, OneOutcome


-----------------------------------------------------------------------------
(* A live agent is in the map, or somebody is about to close it. *)

ClosePcs == {"markstop", "notify", "close", "remove", "stopnotify", "asyncclose"}

(* What p has taken out of a state it closes before it forgets it; a        *)
(* cleanup that names no state is one of a /compress, and holds the         *)
(* Session; and what a cleanup is about to delete from the map is detached. *)
ClosingAt(p) ==
    /\ grab[p] # NoState => pc[p] \in ClosePcs /\ grab[p] \in {ref[p], expect[p]}
    /\ grab[p] # NoState /\ At(p, "remove") => agent[grab[p]] # "live"
    /\ pc[p] \in CleanupPcs => IF Named(p) THEN expect[p] \in StateIds ELSE back[p] = "exit"
    /\ pc[p] \in CleanupPcs \ {"detach"} =>
          IF Named(p) THEN ~attached[expect[p]] ELSE table = NoState \/ ~attached[table]
Reachable(s) == agent[s] = "live" => (s = table /\ attached[s]) \/ \E p \in Procs : grab[p] = s
LiveInv ==
    /\ \A p \in Procs : ClosingAt(p)
    /\ \A s \in StateIds : Reachable(s)

LEMMA LiveInit == Init => LiveInv
<1> SUFFICES ASSUME Init PROVE LiveInv
  OBVIOUS
<1>1. ASSUME NEW p \in Procs PROVE ClosingAt(p)
  <2>1. pc[p] = "idle" /\ grab[p] = NoState
    BY DEF Init
  <2> QED BY <2>1 DEF ClosingAt, At, CleanupPcs
<1>2. ASSUME NEW s \in StateIds PROVE Reachable(s)
  BY ConstantsOK DEF Init, Reachable
<1> QED BY <1>1, <1>2 DEF LiveInv

(* Only p moves. *)
LocalsKept(p) ==
    \A q \in Procs \ {p} : /\ pc'[q] = pc[q] /\ back'[q] = back[q] /\ ref'[q] = ref[q]
                           /\ expect'[q] = expect[q] /\ grab'[q] = grab[q]

(* A step that attaches nothing, starts nothing and puts nothing in the map. *)
Fading == /\ \A s \in StateIds : (agent'[s] = "live" => agent[s] = "live")
                                 /\ (attached'[s] => attached[s])
          /\ table' \in {table, NoState}

LEMMA OthersClose ==
    ASSUME TypeOK, LiveInv, NEW p \in Procs, LocalsKept(p), Fading, NEW q \in Procs, q # p
    PROVE  ClosingAt(q)'
<1>1. /\ ClosingAt(q) /\ q \in Procs \ {p}
      /\ table \in StateIds \cup {NoState}
  BY DEF LiveInv, TypeOK
<1>2. /\ pc'[q] = pc[q] /\ back'[q] = back[q] /\ ref'[q] = ref[q]
      /\ expect'[q] = expect[q] /\ grab'[q] = grab[q] /\ Named(q)' = Named(q)
  BY <1>1 DEF LocalsKept, Named
<1>3. grab[q] # NoState => grab[q] \in StateIds
  BY DEF TypeOK
<1>4. (grab'[q] # NoState => pc'[q] \in ClosePcs /\ grab'[q] \in {ref'[q], expect'[q]})
      /\ (grab'[q] # NoState /\ pc'[q] = "remove" => agent'[grab'[q]] # "live")
  BY <1>1, <1>2, <1>3 DEF ClosingAt, At, Fading
<1>5. pc'[q] \in CleanupPcs => IF Named(q)' THEN expect'[q] \in StateIds ELSE back'[q] = "exit"
  BY <1>1, <1>2 DEF ClosingAt
<1>6. ASSUME pc'[q] \in CleanupPcs \ {"detach"}
      PROVE  IF Named(q)' THEN ~attached'[expect'[q]] ELSE table' = NoState \/ ~attached'[table']
  <2>1. CASE Named(q)
    <3>1. ~attached[expect[q]] /\ expect[q] \in StateIds
      BY <1>1, <1>2, <1>6, <2>1 DEF ClosingAt
    <3> QED BY <1>2, <2>1, <3>1 DEF Fading
  <2>2. CASE ~Named(q)
    BY <1>1, <1>2, <1>6, <2>2 DEF ClosingAt, Fading
  <2> QED BY <2>1, <2>2
<1> QED BY <1>4, <1>5, <1>6 DEF ClosingAt, At

(* A step of p that leaves the map, the agents and what is being closed alone. *)
Still(p) ==
    /\ LocalsKept(p) /\ UNCHANGED <<table, attached, agent, grab>>
    /\ ClosingAt(p)'

LEMMA StillStep == ASSUME TypeOK, LiveInv, NEW p \in Procs, Still(p) PROVE LiveInv'
<1>1. Fading
  BY DEF Still, Fading
<1>2. \A q \in Procs : ClosingAt(q)'
  BY <1>1, OthersClose DEF Still
<1>3. \A s \in StateIds : Reachable(s)'
  BY DEF LiveInv, Reachable, Still
<1> QED BY <1>2, <1>3 DEF LiveInv

LEMMA StillHandler ==
    ASSUME IType, LiveInv, NEW m \in Msgs,
           \/ Arrive(m) \/ TryLock(m) \/ QueueLookup(m) \/ QueueAppend(m) \/ RetryLock(m)
           \/ OrphanLookup(m) \/ OrphanCheck(m) \/ ReuseState(m) \/ Begin(m)
    PROVE  Still(m)
<1> m \in Procs
  BY ProcNames
<1>0. ClosingAt(m) /\ RefAt(m) /\ ref[m] \in StateIds \cup {NoState}
  BY DEF LiveInv, IType, TypeOK, RefOK
<1> USE DEF IType, TypeOK, Still, LocalsKept, ClosingAt, Named, ClosePcs, CleanupPcs, RefAt, RefPcs,
        LoopPcs, DrainPcs, On, At, Goto, stateVars, lockVars, localVars
<1>1. CASE Arrive(m)
  BY <1>0, <1>1, StateNames DEF Arrive
<1>2. CASE TryLock(m)
  BY <1>0, <1>2, StateNames DEF TryLock
<1>3. CASE QueueLookup(m)
  BY <1>0, <1>3, StateNames DEF QueueLookup
<1>4. CASE QueueAppend(m)
  BY <1>0, <1>4, StateNames DEF QueueAppend
<1>5. CASE RetryLock(m)
  BY <1>0, <1>5, StateNames DEF RetryLock
<1>6. CASE OrphanLookup(m)
  BY <1>0, <1>6, StateNames DEF OrphanLookup
<1>7. CASE OrphanCheck(m)
  BY <1>0, <1>7, StateNames DEF OrphanCheck
<1>8. CASE ReuseState(m)
  BY <1>0, <1>8, StateNames DEF ReuseState
<1>9. CASE Begin(m)
  BY <1>0, <1>9, StateNames DEF Begin
<1> QED BY <1>1, <1>2, <1>3, <1>4, <1>5, <1>6, <1>7, <1>8, <1>9

LEMMA StillLoop ==
    ASSUME IType, LiveInv, NEW p \in Procs,
           LoopStep(p)
    PROVE  Still(p)
<1>0. ClosingAt(p) /\ RefAt(p) /\ ref[p] \in StateIds \cup {NoState}
  BY DEF LiveInv, IType, TypeOK, RefOK
<1> USE DEF IType, TypeOK, Still, LocalsKept, ClosingAt, Named, ClosePcs, CleanupPcs, RefAt, RefPcs,
        LoopPcs, DrainPcs, On, At, Goto, stateVars, lockVars, localVars
<1>1. CASE OpenEvents(p)
  BY <1>0, <1>1, StateNames DEF OpenEvents, UseAgent
<1>2. CASE NextQueued(p)
  BY <1>0, <1>2, StateNames DEF NextQueued
<1>3. CASE LoopStopped(p)
  BY <1>0, <1>3, StateNames DEF LoopStopped
<1>4. CASE \E how \in {"reply", "unsent", "compress"} : LoopResult(p, how)
  BY <1>0, <1>4, StateNames DEF LoopResult
<1>5. CASE LoopError(p)
  BY <1>0, <1>5, StateNames DEF LoopError
<1>6. CASE LoopSendError(p)
  BY <1>0, <1>6, StateNames DEF LoopSendError, CleanupOwn
<1>7. CASE LoopIdle(p)
  BY <1>0, <1>7, StateNames DEF LoopIdle, CleanupOwn
<1>8. CASE LoopClosed(p)
  BY <1>0, <1>8, StateNames DEF LoopClosed, CleanupOwn
<1>9. CASE Drain(p)
  BY <1>0, <1>9, StateNames DEF Drain, Unlock
<1>10. CASE Deliver(p)
  BY <1>0, <1>10, StateNames DEF Deliver
<1>11. CASE Exit(p)
  BY <1>0, <1>11, StateNames DEF Exit, Unlock
<1>12. CASE LoopAsk(p) \/ Pend(p) \/ Resume(p)
  BY <1>0, <1>12, StateNames DEF LoopAsk, Pend, Resume
<1> QED BY <1>1, <1>2, <1>3, <1>4, <1>5, <1>6, <1>7, <1>8, <1>9, <1>10, <1>11, <1>12 DEF LoopStep

LEMMA StillCompress ==
    ASSUME IType, LiveInv, NEW p \in Procs,
           CompressStep(p) \/ MarkStopped(p) \/ NotifyDropped(p)
    PROVE  Still(p)
<1>0. ClosingAt(p) /\ RefAt(p) /\ ref[p] \in StateIds \cup {NoState}
  BY DEF LiveInv, IType, TypeOK, RefOK
<1> USE DEF IType, TypeOK, Still, LocalsKept, ClosingAt, Named, ClosePcs, CleanupPcs, RefAt, RefPcs,
        LoopPcs, DrainPcs, On, At, Goto, stateVars, lockVars, localVars
<1>1. CASE CompressSend(p)
  BY <1>0, <1>1, StateNames DEF CompressSend
<1>2. CASE CompressStopped(p)
  BY <1>0, <1>2, StateNames DEF CompressStopped
<1>3. CASE CompressResult(p)
  BY <1>0, <1>3, StateNames DEF CompressResult
<1>4. CASE CompressError(p)
  BY <1>0, <1>4, StateNames DEF CompressError
<1>5. CASE CompressGone(p)
  BY <1>0, <1>5, StateNames DEF CompressGone, CleanupOwn
<1>6. CASE CompressNotify(p)
  BY <1>0, <1>6, StateNames DEF CompressNotify
<1>7. CASE MarkStopped(p)
  BY <1>0, <1>7, StateNames DEF MarkStopped
<1>8. CASE NotifyDropped(p)
  BY <1>0, <1>8, StateNames DEF NotifyDropped
<1> QED BY <1>1, <1>2, <1>3, <1>4, <1>5, <1>6, <1>7, <1>8 DEF CompressStep

LEMMA StillCommand ==
    ASSUME IType, LiveInv, NEW a \in Procs,
           \/ StopNotify(a) \/ ReapIdle(a) \/ ReapScan(a) \/ Compress(a) \/ CompressLock(a)
    PROVE  Still(a)
<1>0. ClosingAt(a) /\ RefAt(a) /\ ref[a] \in StateIds \cup {NoState}
  BY DEF LiveInv, IType, TypeOK, RefOK
<1> USE DEF IType, TypeOK, Still, LocalsKept, ClosingAt, Named, ClosePcs, CleanupPcs, RefAt, RefPcs,
        LoopPcs, DrainPcs, On, At, Goto, stateVars, lockVars, localVars
<1>1. CASE StopNotify(a)
  BY <1>0, <1>1, StateNames DEF StopNotify
<1>2. CASE ReapIdle(a)
  BY <1>0, <1>2, StateNames DEF ReapIdle
<1>3. CASE ReapScan(a)
  BY <1>0, <1>3, StateNames DEF ReapScan
<1>4. CASE Compress(a)
  BY <1>0, <1>4, StateNames DEF Compress
<1>5. CASE CompressLock(a)
  BY <1>0, <1>5, StateNames DEF CompressLock
<1> QED BY <1>1, <1>2, <1>3, <1>4, <1>5

(* The steps that touch the map, the agents or what is being closed. *)
LEMMA LiveDetach == ASSUME IType, LiveInv, NEW p \in Procs, Detach(p) PROVE LiveInv'
<1> USE DEF IType, TypeOK, On, At, Goto, lockVars
<1>0. ClosingAt(p) /\ pc[p] = "detach" /\ grab[p] = NoState /\ LocalsKept(p)
  <2>1. ClosingAt(p) /\ pc[p] = "detach"
    BY DEF Detach, LiveInv
  <2>2. grab[p] = NoState
    BY <2>1 DEF ClosingAt, ClosePcs
  <2>3. LocalsKept(p)
    BY DEF Detach, LocalsKept
  <2> QED BY <2>1, <2>2, <2>3
<1>1. CASE Named(p) /\ table # expect[p]
  <2>1. /\ pc' = [pc EXCEPT ![p] = back[p]] /\ UNCHANGED <<table, attached, agent, grab, ref, back, expect>>
        /\ back[p] \in {"drain", "exit", "cnotify", "forget", "renew", "done"}
    BY <1>1 DEF Detach
  <2>2. ClosingAt(p)'
    BY <1>0, <2>1 DEF ClosingAt, CleanupPcs, Named
  <2> QED BY <1>0, <2>1, <2>2, StillStep DEF Still
<1>2. CASE ~(Named(p) /\ table # expect[p]) /\ table = NoState
  <2>1. /\ pc' = [pc EXCEPT ![p] = "remove"]
        /\ UNCHANGED <<table, attached, agent, grab, ref, back, expect>>
    BY <1>2 DEF Detach
  <2>2. ~Named(p)
    BY <1>0, <1>2, StateNames DEF ClosingAt, CleanupPcs
  <2>3. ClosingAt(p)'
    BY <1>0, <1>2, <2>1, <2>2 DEF ClosingAt, CleanupPcs, Named
  <2> QED BY <1>0, <2>1, <2>3, StillStep DEF Still
<1>3. CASE ~(Named(p) /\ table # expect[p]) /\ table # NoState
  <2>1. /\ attached' = [attached EXCEPT ![table] = FALSE]
        /\ expect' = [expect EXCEPT ![p] = table]
        /\ grab' = [grab EXCEPT ![p] = IF attached[table] THEN table ELSE NoState]
        /\ pc' = [pc EXCEPT ![p] = "markstop"]
        /\ UNCHANGED <<table, agent, back, ref>> /\ table \in StateIds
    BY <1>3 DEF Detach
  <2>2. Fading
    BY <2>1 DEF Fading
  <2>3. ClosingAt(p)'
    <3>1. pc'[p] = "markstop" /\ expect'[p] = table /\ grab'[p] \in {table, NoState}
          /\ ~attached'[table] /\ table' = table /\ table \in StateIds /\ back'[p] = back[p]
      BY <2>1
    <3> QED BY <1>0, <3>1 DEF ClosingAt, ClosePcs, CleanupPcs, Named
  <2>4. ASSUME NEW s \in StateIds PROVE Reachable(s)'
    <3>1. CASE s = table /\ attached[table]
      BY <2>1, <3>1 DEF Reachable
    <3>2. CASE ~(s = table /\ attached[table])
      <4>1. ASSUME agent[s] = "live" PROVE \E q \in Procs : grab'[q] = s
        <5>1. PICK q \in Procs : grab[q] = s
          BY <3>2, <4>1 DEF LiveInv, Reachable
        <5>2. q # p
          BY <1>0, <5>1, StateNames
        <5> QED BY <2>1, <5>1, <5>2
      <4> QED BY <2>1, <4>1 DEF Reachable
    <3> QED BY <3>1, <3>2
  <2> QED BY <1>0, <2>2, <2>3, <2>4, OthersClose DEF LiveInv
<1> QED BY <1>1, <1>2, <1>3

LEMMA LiveClose ==
    ASSUME IType, LiveInv, NEW p \in Procs, CloseAgent(p) \/ AsyncClose(p)
    PROVE  LiveInv'
<1> USE DEF IType, TypeOK, On, At, Goto, lockVars, localVars
<1>0. /\ ClosingAt(p) /\ LocalsKept(p) /\ UNCHANGED <<table, attached, expect, back, ref>>
      /\ pc[p] \in {"close", "asyncclose"}
  BY DEF CloseAgent, AsyncClose, LiveInv, LocalsKept
<1>1. /\ agent' = IF grab[p] = NoState THEN agent ELSE [agent EXCEPT ![grab[p]] = "dead"]
      /\ grab[p] \in StateIds \cup {NoState}
  BY DEF CloseAgent, AsyncClose
<1>2. \A s \in StateIds : agent'[s] = "live" => agent[s] = "live" /\ s # grab[p]
  BY <1>1, StateNames
<1>3. Fading
  BY <1>0, <1>2 DEF Fading
<1>4. ClosingAt(p)'
  <2>1. CASE CloseAgent(p)
    <3>1. pc[p] = "close" /\ pc'[p] = "remove" /\ grab' = grab
      BY <2>1 DEF CloseAgent
    <3>2. ASSUME grab[p] # NoState PROVE agent'[grab[p]] # "live"
      <4>1. grab[p] \in StateIds /\ agent' = [agent EXCEPT ![grab[p]] = "dead"]
        BY <1>1, <3>2
      <4> QED BY <4>1
    <3> QED BY <1>0, <3>1, <3>2 DEF ClosingAt, ClosePcs, CleanupPcs, Named
  <2>2. CASE AsyncClose(p)
    <3>1. pc'[p] = "done" /\ grab'[p] = NoState
      BY <2>2 DEF AsyncClose
    <3> QED BY <3>1 DEF ClosingAt, CleanupPcs
  <2> QED BY <2>1, <2>2
<1>5. ASSUME NEW s \in StateIds PROVE Reachable(s)'
  <2>1. \A q \in Procs : grab[q] = s /\ s # grab[p] => grab'[q] = s
    BY DEF CloseAgent, AsyncClose
  <2> QED BY <1>0, <1>2, <2>1 DEF LiveInv, Reachable
<1> QED BY <1>0, <1>3, <1>4, <1>5, OthersClose DEF LiveInv

LEMMA LiveRemove == ASSUME IType, LiveInv, NEW p \in Procs, RemoveEntry(p) PROVE LiveInv'
<1> USE DEF IType, TypeOK, On, At, Goto, lockVars, RemoveEntry
<1>0. ClosingAt(p) /\ LocalsKept(p) /\ pc[p] = "remove" /\ agent' = agent /\ attached' = attached
  BY DEF LiveInv, LocalsKept
<1>1. Fading
  BY DEF Fading
<1>2. pc'[p] \in {"drain", "exit", "cnotify", "forget", "renew", "done"} /\ grab'[p] = NoState
  OBVIOUS
<1>3. ClosingAt(p)'
  BY <1>2 DEF ClosingAt, CleanupPcs
<1>4. table \in StateIds /\ attached[table] => Replaced(p)
  BY <1>0, StateNames DEF ClosingAt, Replaced, CleanupPcs
<1>5. ASSUME NEW s \in StateIds PROVE Reachable(s)'
  <2>1. ASSUME agent[s] = "live" PROVE grab[p] # s
    BY <1>0, <2>1, StateNames DEF ClosingAt
  <2>2. \A q \in Procs : grab[q] = s /\ s # grab[p] => grab'[q] = s
    OBVIOUS
  <2>3. s = table /\ attached[s] => s = table' /\ attached'[s]
    BY <1>0, <1>4
  <2> QED BY <1>0, <2>1, <2>2, <2>3 DEF LiveInv, Reachable
<1> QED BY <1>0, <1>1, <1>3, <1>5, OthersClose DEF LiveInv

LEMMA LiveStop == ASSUME IType, LiveInv, NEW a \in Procs, Stop(a) PROVE LiveInv'
<1> USE DEF IType, TypeOK, On, At, Goto, lockVars
<1>0. /\ ClosingAt(a) /\ LocalsKept(a) /\ pc[a] = "idle" /\ grab[a] = NoState
      /\ agent' = agent /\ attached' = attached
  <2>1. ClosingAt(a) /\ pc[a] = "idle" /\ agent' = agent /\ attached' = attached
    BY DEF Stop, LiveInv
  <2>2. grab[a] = NoState
    BY <2>1 DEF ClosingAt, ClosePcs
  <2>3. LocalsKept(a)
    BY DEF Stop, LocalsKept
  <2> QED BY <2>1, <2>2, <2>3
<1>1. CASE table = NoState
  <2>1. pc'[a] = "done" /\ UNCHANGED <<table, grab>>
    BY <1>1 DEF Stop
  <2>2. ClosingAt(a)'
    BY <1>0, <2>1 DEF ClosingAt, CleanupPcs
  <2> QED BY <1>0, <2>1, <2>2, StillStep DEF Still
<1>2. CASE table # NoState
  <2>1. /\ pc'[a] = "stopnotify" /\ ref'[a] = table /\ table' = NoState
        /\ grab' = [grab EXCEPT ![a] = IF attached[table] THEN table ELSE NoState]
    BY <1>2 DEF Stop
  <2>2. Fading
    BY <1>0, <2>1 DEF Fading
  <2>3. ClosingAt(a)'
    BY <2>1 DEF ClosingAt, ClosePcs, CleanupPcs
  <2>4. ASSUME NEW s \in StateIds PROVE Reachable(s)'
    <3>1. CASE s = table /\ attached[s]
      BY <2>1, <3>1 DEF Reachable
    <3>2. CASE ~(s = table /\ attached[s])
      <4>1. \A q \in Procs : grab[q] = s => grab'[q] = s
        BY <1>0, <2>1, StateNames
      <4> QED BY <1>0, <3>2, <4>1 DEF LiveInv, Reachable
    <3> QED BY <3>1, <3>2
  <2> QED BY <1>0, <2>2, <2>3, <2>4, OthersClose DEF LiveInv
<1> QED BY <1>1, <1>2

LEMMA LiveAgents ==
    ASSUME IType, LiveInv, AgentStep \/ (\E p \in Procs : Answer(p)) \/ UNCHANGED vars
    PROVE  LiveInv'
<1> USE DEF IType, TypeOK, lockVars, localVars, stateVars, vars
<1>1. /\ UNCHANGED <<table, attached, grab, pc, back, ref, expect>>
      /\ \A s \in StateIds : agent'[s] = "live" => agent[s] = "live"
  BY DEF AgentStep, AgentReports, AgentDies, Answer
<1>2. ASSUME NEW p \in Procs PROVE ClosingAt(p)'
  BY <1>1 DEF LiveInv, ClosingAt, Named, At
<1>3. ASSUME NEW s \in StateIds PROVE Reachable(s)'
  BY <1>1 DEF LiveInv, Reachable
<1> QED BY <1>2, <1>3 DEF LiveInv

(* Where a chat has one Session, no cleanup that names no state is under   *)
(* way while a turn puts a state in the map.                               *)
LEMMA NoneUnnamed ==
    ASSUME IType, LiveInv, LockInv, News = {}, Resets = {},
           NEW m \in Procs, Holds(m), pc[m] \notin CleanupPcs,
           NEW p \in Procs, pc[p] \in CleanupPcs
    PROVE  Named(p)
<1>1. SUFFICES ASSUME ~Named(p) PROVE FALSE
  OBVIOUS
<1>2. Holds(p)
  BY <1>1 DEF LiveInv, ClosingAt, Holds
<1> QED BY <1>2, OneHolder DEF IType

LEMMA LiveEnsure ==
    ASSUME IType, LiveInv, LockInv, News = {}, Resets = {}, NEW m \in Msgs, EnsureState(m)
    PROVE  LiveInv'
<1> m \in Procs
  BY ProcNames
<1> USE DEF IType, TypeOK, On, At, Goto, lockVars, localVars, EnsureState
<1>0. /\ UNCHANGED <<attached, agent, grab, ref, expect, back>> /\ pc[m] = "ensure" /\ pc'[m] = "start"
      /\ \A q \in Procs \ {m} : pc'[q] = pc[q]
      /\ table # NoState => table' = table
  OBVIOUS
<1>1. Holds(m) /\ pc[m] \notin CleanupPcs
  BY <1>0 DEF Holds, CleanupPcs
<1>2. ASSUME NEW p \in Procs PROVE ClosingAt(p)'
  <2>1. CASE p = m
    BY <1>0, <2>1 DEF LiveInv, ClosingAt, CleanupPcs, ClosePcs, Named
  <2>2. CASE p # m
    <3>1. pc[p] \in CleanupPcs => Named(p)
      BY <1>1, NoneUnnamed
    <3> QED BY <1>0, <2>2, <3>1 DEF LiveInv, ClosingAt, Named
  <2> QED BY <2>1, <2>2
<1>3. ASSUME NEW s \in StateIds PROVE Reachable(s)'
  BY <1>0, StateNames DEF LiveInv, Reachable
<1> QED BY <1>2, <1>3 DEF LiveInv

LEMMA LiveStart ==
    ASSUME IType, LiveInv, LockInv, UnbornInv, News = {}, Resets = {}, NEW m \in Msgs,
           NEW how \in {"resumed", "fresh", "failed"}, StartState(m, how)
    PROVE  LiveInv'
<1> m \in Procs
  BY ProcNames
<1> USE DEF IType, TypeOK, On, At, Goto, lockVars
<1> DEFINE n == Started(m)
<1>0. /\ UNCHANGED <<grab, expect, back>> /\ pc[m] = "start" /\ pc'[m] = "begin"
      /\ \A q \in Procs \ {m} : pc'[q] = pc[q] /\ ref'[q] = ref[q]
      /\ table' = n /\ attached' = [attached EXCEPT ![n] = how # "failed"]
      /\ agent' = [s \in StateIds |->
                      IF s = n THEN IF how = "failed" THEN "none" ELSE "live"
                      ELSE IF Reusable /\ s = table THEN "dead" ELSE agent[s]]
  BY DEF StartState
<1>1. Holds(m) /\ pc[m] \notin CleanupPcs
  BY <1>0 DEF Holds, CleanupPcs
<1>2. n \in StateIds /\ n # NoState /\ \A q \in Procs : ref[q] # n /\ expect[q] # n
  BY <1>0, StateNames DEF UnbornInv, Unborn, Early, BeforeStart
<1>3. ASSUME NEW p \in Procs PROVE ClosingAt(p)'
  <2>1. CASE p = m
    BY <1>0, <2>1 DEF LiveInv, ClosingAt, CleanupPcs, ClosePcs, Named
  <2>2. CASE p # m
    <3>1. pc[p] \in CleanupPcs => Named(p)
      BY <1>1, NoneUnnamed
    <3>2. ClosingAt(p) /\ ref[p] # n /\ expect[p] # n /\ grab[p] \in StateIds \cup {NoState}
      BY <1>2 DEF LiveInv
    <3>3. pc'[p] = pc[p] /\ ref'[p] = ref[p] /\ grab'[p] = grab[p] /\ expect'[p] = expect[p]
          /\ back'[p] = back[p] /\ Named(p)' = Named(p)
      BY <1>0, <2>2 DEF Named
    <3>4. \A s \in StateIds : s # n => (agent'[s] = "live" => agent[s] = "live") /\ attached'[s] = attached[s]
      BY <1>0
    <3>5. grab'[p] # NoState /\ pc'[p] = "remove" => agent'[grab'[p]] # "live"
      BY <3>2, <3>3, <3>4 DEF ClosingAt
    <3>6. pc'[p] \in CleanupPcs \ {"detach"} => ~attached'[expect'[p]]
      BY <1>0, <3>1, <3>2, <3>3, <3>4 DEF ClosingAt
    <3> QED BY <3>1, <3>2, <3>3, <3>5, <3>6 DEF ClosingAt
  <2> QED BY <2>1, <2>2
<1>4. ASSUME NEW s \in StateIds PROVE Reachable(s)'
  <2>1. CASE s = n
    BY <1>0, <1>2, <2>1 DEF Reachable
  <2>2. CASE s # n
    <3>1. agent'[s] = "live" => agent[s] = "live" /\ ~(Reusable /\ s = table)
      BY <1>0, <2>2
    <3>2. agent[s] = "live" /\ s = table /\ attached[s] => Reusable
      BY StateNames DEF Reusable, Usable, Alive
    <3> QED BY <1>0, <3>1, <3>2 DEF LiveInv, Reachable
  <2> QED BY <2>1, <2>2
<1> QED BY <1>3, <1>4 DEF LiveInv

LEMMA LiveStep ==
    ASSUME IType, AcctInv, LockInv, LiveInv, [Next]_vars,
           "compress" \notin Faults, News = {}, Resets = {}
    PROVE  LiveInv'
<1> USE DEF IType
<1>1. CASE \E m \in Msgs : HandlerStep(m)
  BY <1>1, StillHandler, StillStep, LiveEnsure, LiveStart, ProcNames DEF HandlerStep, AcctInv
<1>2. CASE \E p \in Procs : LoopStep(p)
  BY <1>2, StillLoop, StillStep
<1>3. CASE \E p \in Procs : CleanupStep(p)
  BY <1>3, LiveDetach, StillCompress, StillStep, LiveClose, LiveRemove DEF CleanupStep
<1>4. CASE \E p \in Procs : CompressStep(p)
  BY <1>4, StillCompress, StillStep
<1>5. CASE CommandStep
  BY <1>5, LiveAgents, LiveStop, StillCommand, StillStep, LiveClose, ProcNames DEF CommandStep
<1>6. CASE AgentStep \/ UNCHANGED vars
  BY <1>6, LiveAgents
<1> QED BY <1>1, <1>2, <1>3, <1>4, <1>5, <1>6 DEF Next, Terminated

(* Where a chat has one Session, and an event loop starts no auto-compress, *)
(* no agent that runs is lost from the map, whatever /stop, /compress, the  *)
(* reaper, idle timeouts and agents that die do in between.                 *)
THEOREM LiveAgentCorrect ==
    ASSUME "compress" \notin Faults, News = {}, Resets = {}
    PROVE  Spec => []LiveAgentReachable
<1>1. Init => LiveInv /\ LockInv
  BY LiveInit, LockInit
<1>2. (IType /\ AcctInv) /\ (LiveInv /\ LockInv) /\ [Next]_vars => (LiveInv /\ LockInv)'
  BY LiveStep, LockStep
<1>3. LiveInv => LiveAgentReachable
  BY DEF LiveInv, Reachable, LiveAgentReachable
<1> QED BY <1>1, <1>2, <1>3, AcctAlways, PTL DEF Spec

-----------------------------------------------------------------------------
(* What holds while nothing tears the state of the chat down. *)

(* The chat has a live agent at the start, no command and no reaper takes  *)
(* it away, and it does not die, fall silent or fill its context.          *)
Steady ==
    /\ Warm /\ Resets = {}
    /\ Stops = {} /\ News = {} /\ Reapers = {} /\ Compressors = {}
    /\ "die" \notin Faults /\ "idle" \notin Faults /\ "compress" \notin Faults

SteadyPcs == HandlerPcs \cup LoopPcs \cup {"idle", "start", "begin", "orphan", "orphancheck",
                                           "drain", "deliver", "done"}
BootPcs == LoopPcs \cup {"append", "orphancheck", "begin", "drain", "deliver"}

(* All work is on the one state, and only handlers queue. *)
SteadyAt(p) ==
    /\ pc[p] \in SteadyPcs /\ ~nested[p]
    /\ pc[p] \in BootPcs => ref[p] = Boot
    /\ p \in Beats => pc[p] \notin {"ensure", "lookup", "append", "retry"}
BootLives ==
    /\ table = Boot /\ attached[Boot] /\ agent[Boot] = "live" /\ ~stopped[Boot]
    /\ have[Boot] = Boot /\ want[FirstSession] = Boot
    /\ \A s \in StateIds \ {Boot} : queue[s] = <<>>

(* A Session that is busy is held, and what is queued is seen by its holder *)
(* or by the handler that queued it and is about to try the lock.           *)
BusyHeld    == busy[FirstSession] => \E p \in Procs : Holds(p)
WaitingSeen == queue[Boot] # <<>> => \E p \in Procs : Holds(p) \/ At(p, "retry")

SteadyInv == BootLives /\ (\A p \in Procs : SteadyAt(p)) /\ BusyHeld /\ WaitingSeen

LEMMA SteadyInit == ASSUME Steady, Init PROVE SteadyInv
<1> USE ConstantsOK, StateNames DEF Init, Steady
<1>1. BootLives
  BY DEF BootLives, Sessions
<1>2. ASSUME NEW p \in Procs PROVE SteadyAt(p)
  BY DEF SteadyAt, SteadyPcs, BootPcs, LoopPcs
<1>3. BusyHeld /\ WaitingSeen
  BY DEF BusyHeld, WaitingSeen, Sessions
<1> QED BY <1>1, <1>2, <1>3 DEF SteadyInv

(* A step of p gives the lock back only with an empty queue, and goes on   *)
(* after an append without the lock only if it is held.                    *)
Minds(p) ==
    /\ \A q \in Procs \ {p} : /\ pc'[q] = pc[q] /\ back'[q] = back[q]
                              /\ ref'[q] = ref[q] /\ nested'[q] = nested[q]
    /\ BootLives' /\ SteadyAt(p)'
    /\ busy'[FirstSession] => busy[FirstSession] \/ Holds(p)'
    /\ Holds(p) => Holds(p)' \/ (~busy'[FirstSession] /\ queue'[Boot] = <<>>)
    /\ At(p, "retry") => Holds(p)' \/ (busy[FirstSession] /\ ~Holds(p))
    /\ queue'[Boot] # <<>> => queue[Boot] # <<>> \/ Holds(p)' \/ At(p, "retry")'

LEMMA MindsStep == ASSUME SteadyInv, NEW p \in Procs, Minds(p) PROVE SteadyInv'
<1>1. \A q \in Procs \ {p} : SteadyAt(q)' /\ Holds(q)' = Holds(q) /\ At(q, "retry")' = At(q, "retry")
  BY DEF Minds, SteadyInv, SteadyAt, Holds, At
<1>2. \A q \in Procs : SteadyAt(q)'
  BY <1>1 DEF Minds
<1>3. BusyHeld'
  BY <1>1 DEF Minds, SteadyInv, BusyHeld
<1>4. WaitingSeen'
  BY <1>1 DEF Minds, SteadyInv, BusyHeld, WaitingSeen
<1> QED BY <1>2, <1>3, <1>4 DEF Minds, SteadyInv

LEMMA MindsHandler ==
    ASSUME Steady, IType, SteadyInv, NEW m \in Msgs, HandlerStep(m)
    PROVE  Minds(m)
<1> m \in Procs
  BY ProcNames
<1>0. /\ SteadyAt(m) /\ BootLives /\ sess[m] = FirstSession /\ Boot \in StateIds /\ Boot # NoState
      /\ FirstSession \in Sessions
  BY StateNames DEF SteadyInv, IType, TypeOK, Sessions, Steady
<1> USE DEF Steady, IType, TypeOK, Minds, SteadyAt, SteadyPcs, BootPcs, BootLives, Holds, Usable, Alive,
        HandlerPcs, CleanupPcs, LoopPcs, DrainPcs, On, At, Goto, stateVars, lockVars, localVars
<1>1. CASE Arrive(m)
  BY <1>0, <1>1 DEF Arrive
<1>2. CASE TryLock(m)
  BY <1>0, <1>2 DEF TryLock
<1>3. CASE EnsureState(m)
  BY <1>0, <1>3 DEF EnsureState
<1>4. CASE QueueLookup(m)
  BY <1>0, <1>4 DEF QueueLookup
<1>5. CASE QueueAppend(m)
  BY <1>0, <1>5 DEF QueueAppend
<1>6. CASE RetryLock(m)
  BY <1>0, <1>6 DEF RetryLock
<1>7. CASE OrphanLookup(m)
  BY <1>0, <1>7 DEF OrphanLookup
<1>8. CASE OrphanCheck(m)
  BY <1>0, <1>8 DEF OrphanCheck
<1>9. CASE ReuseState(m)
  BY <1>0, <1>9 DEF ReuseState, Reusable, NeedRecycle
<1>10. CASE \E how \in {"resumed", "fresh", "failed"} : StartState(m, how)
  BY <1>0, <1>10 DEF StartState, Reusable, NeedRecycle
<1>11. CASE Begin(m)
  BY <1>0, <1>11 DEF Begin
<1> QED BY <1>1, <1>2, <1>3, <1>4, <1>5, <1>6, <1>7, <1>8, <1>9, <1>10, <1>11 DEF HandlerStep

LEMMA MindsLoop ==
    ASSUME Steady, IType, SteadyInv, NEW p \in Procs, LoopStep(p)
    PROVE  Minds(p)
<1>0. /\ SteadyAt(p) /\ BootLives /\ sess[p] = FirstSession /\ Boot \in StateIds /\ Boot # NoState
      /\ FirstSession \in Sessions
  BY StateNames DEF SteadyInv, IType, TypeOK, Sessions, Steady
<1> USE DEF Steady, IType, TypeOK, Minds, SteadyAt, SteadyPcs, BootPcs, BootLives, Holds, Usable, Alive,
        HandlerPcs, CleanupPcs, LoopPcs, DrainPcs, On, At, Goto, stateVars, lockVars, localVars
<1>1. CASE OpenEvents(p)
  BY <1>0, <1>1 DEF OpenEvents, UseAgent
<1>2. CASE NextQueued(p)
  BY <1>0, <1>2 DEF NextQueued, Pop
<1>3. CASE LoopStopped(p)
  BY <1>0, <1>3 DEF LoopStopped
<1>4. CASE \E how \in {"reply", "unsent", "compress"} : LoopResult(p, how)
  BY <1>0, <1>4 DEF LoopResult
<1>5. CASE LoopError(p)
  BY <1>0, <1>5 DEF LoopError
<1>6. CASE LoopSendError(p)
  BY <1>0, <1>6 DEF LoopSendError, CleanupOwn, DropQueueAnd
<1>7. CASE LoopIdle(p)
  BY <1>0, <1>7 DEF LoopIdle
<1>8. CASE LoopClosed(p)
  BY <1>0, <1>8 DEF LoopClosed
<1>9. CASE Drain(p)
  BY <1>0, <1>9 DEF Drain, Unlock, Pop
<1>10. CASE Deliver(p)
  BY <1>0, <1>10 DEF Deliver
<1>11. CASE Exit(p)
  BY <1>0, <1>11 DEF Exit
<1>12. CASE LoopAsk(p) \/ Pend(p) \/ Resume(p)
  BY <1>0, <1>12 DEF LoopAsk, Pend, Resume
<1> QED BY <1>1, <1>2, <1>3, <1>4, <1>5, <1>6, <1>7, <1>8, <1>9, <1>10, <1>11, <1>12 DEF LoopStep

LEMMA NoTearDown == ASSUME SteadyInv PROVE ~\E p \in Procs : CleanupStep(p) \/ CompressStep(p)
<1>1. ASSUME NEW p \in Procs PROVE pc[p] \in SteadyPcs
  BY DEF SteadyInv, SteadyAt
<1> QED BY <1>1 DEF CleanupStep, Detach, MarkStopped, NotifyDropped, CloseAgent, RemoveEntry,
         CompressStep, CompressSend, CompressStopped, CompressResult, CompressError, CompressGone,
         CompressNotify, On, At, SteadyPcs, HandlerPcs, LoopPcs

LEMMA SteadyStep == ASSUME Steady, IType, SteadyInv, [Next]_vars PROVE SteadyInv'
<1>1. CASE \E m \in Msgs : HandlerStep(m)
  BY <1>1, MindsHandler, MindsStep, ProcNames
<1>2. CASE \E p \in Procs : LoopStep(p)
  BY <1>2, MindsLoop, MindsStep
<1>3. ~\E p \in Procs : CleanupStep(p) \/ CompressStep(p)
  BY NoTearDown
<1>4. CASE AgentStep \/ (\E p \in Procs : Answer(p)) \/ UNCHANGED vars
  <2>1. /\ UNCHANGED <<table, attached, stopped, queue, busy, want, pc, back, ref, nested>>
        /\ have'[Boot] = have[Boot] /\ agent'[Boot] = agent[Boot]
    BY <1>4, StateNames DEF Steady, SteadyInv, BootLives, AgentStep, AgentReports, AgentDies, Answer, IType, TypeOK,
       vars, stateVars, lockVars, localVars
  <2> QED BY <2>1 DEF SteadyInv, BootLives, SteadyAt, BusyHeld, WaitingSeen, Holds, At
<1> QED BY <1>1, <1>2, <1>3, <1>4 DEF Next, Terminated, CommandStep, Steady

(* While nothing tears the state down, no message stays in a queue when    *)
(* nobody is at work, for any number of messages and handlers at once.     *)
THEOREM StrandedCorrect == ASSUME Steady PROVE Spec => []NoMessageStranded
<1>1. (IType /\ AcctInv) /\ SteadyInv => NoMessageStranded
  <2> SUFFICES ASSUME IType, AcctInv, SteadyInv, AtRest, NEW m \in Msgs PROVE fate[m] # "queued"
    BY DEF NoMessageStranded
  <2>1. queue[Boot] = <<>>
    BY DEF SteadyInv, WaitingSeen, AtRest, Holds, At, LoopPcs, DrainPcs, CleanupPcs
  <2>2. \A s \in StateIds : queue[s] = <<>>
    BY <2>1 DEF SteadyInv, BootLives
  <2> QED BY <2>2 DEF AcctInv, QueueInv, QueueAccounting, Queued
<1>2. Init => SteadyInv
  BY SteadyInit
<1>3. (IType /\ AcctInv) /\ SteadyInv /\ [Next]_vars => SteadyInv'
  BY SteadyStep
<1> QED BY <1>1, <1>2, <1>3, AcctAlways, PTL DEF Spec

(* With one handler at a time, the one that has the lock finds no message  *)
(* that an earlier one has queued.                                         *)
SoloInv ==
    /\ \A p, q \in Procs : InHandler(p) /\ InHandler(q) => p = q
    /\ \A m \in Msgs : At(m, "ensure") => queue[Boot] = <<>>

LEMMA SoloInit == Init => SoloInv
  BY ProcNames DEF Init, SoloInv, InHandler, At, Resetting, HandlerPcs, ResetPcs, CleanupPcs

LEMMA SlotTaken ==
    ASSUME SoloInv, MaxHandlers = 1, SlotFree, NEW q \in Procs PROVE ~InHandler(q)
<1> SUFFICES ASSUME InHandler(q) PROVE FALSE
  OBVIOUS
<1>1. {p \in Procs : InHandler(p)} = {q}
  BY DEF SoloInv
<1>2. Cardinality({q}) = 1
  BY FS_Singleton
<1> QED BY <1>1, <1>2 DEF SlotFree

(* A step of p enters a handler only if it is free, queues only from the   *)
(* place where handlers do, and gets to where the turn is prepared only    *)
(* with a lock it found free.                                              *)
Alone(p) ==
    /\ \A q \in Procs \ {p} : pc'[q] = pc[q] /\ back'[q] = back[q]
    /\ InHandler(p)' => InHandler(p) \/ SlotFree
    /\ queue[Boot] = <<>> => queue'[Boot] = <<>> \/ At(p, "append")
    /\ At(p, "ensure")' => /\ At(p, "arrived") /\ p \notin Beats
                           /\ ~busy[FirstSession] /\ queue' = queue

LEMMA AloneStep ==
    ASSUME Steady, MaxHandlers = 1, LockInv, SteadyInv, IType, SoloInv,
           NEW p \in Procs, Alone(p)
    PROVE  SoloInv'
<1>0. ASSUME NEW q \in Procs, pc[q] \in {"arrived", "ensure", "append", "retry"}, q \notin Beats
      PROVE  InHandler(q)
  BY <1>0 DEF Steady, Procs, InHandler, HandlerPcs
<1>1. \A q \in Procs \ {p} : InHandler(q)' = InHandler(q)
  BY DEF Alone, InHandler, Resetting, At
<1>2. ASSUME NEW q \in Procs, NEW r \in Procs, InHandler(q)', InHandler(r)' PROVE q = r
  <2>1. InHandler(p)' => \A x \in Procs \ {p} : ~InHandler(x)
    BY SlotTaken DEF Alone, SoloInv
  <2> QED BY <1>1, <1>2, <2>1 DEF SoloInv
<1>3. ASSUME NEW m \in Msgs, At(m, "ensure")' PROVE queue'[Boot] = <<>>
  <2>0. m \in Procs
    BY ProcNames
  <2>1. CASE m = p
    <3>1. At(p, "arrived") /\ p \notin Beats /\ ~busy[FirstSession] /\ queue' = queue
      BY <1>3, <2>1 DEF Alone
    <3>2. ASSUME NEW q \in Procs PROVE ~Holds(q)
      BY <3>1 DEF LockInv, HolderOK, IType, TypeOK, Sessions, Steady
    <3>3. ASSUME NEW q \in Procs PROVE ~At(q, "retry")
      <4> SUFFICES ASSUME At(q, "retry") PROVE FALSE
        OBVIOUS
      <4>1. InHandler(q) /\ InHandler(p)
        BY <1>0, <3>1 DEF At, SteadyInv, SteadyAt
      <4> QED BY <3>1, <4>1 DEF SoloInv, At
    <3> QED BY <3>1, <3>2, <3>3 DEF SteadyInv, WaitingSeen
  <2>2. CASE m # p
    <3>1. At(m, "ensure") /\ queue[Boot] = <<>>
      BY <1>3, <2>0, <2>2 DEF Alone, At, SoloInv
    <3>2. ~At(p, "append")
      <4> SUFFICES ASSUME At(p, "append") PROVE FALSE
        OBVIOUS
      <4>1. InHandler(p) /\ InHandler(m)
        BY <1>0, <2>0, <3>1 DEF At, SteadyInv, SteadyAt
      <4> QED BY <2>0, <2>2, <4>1 DEF SoloInv
    <3> QED BY <3>1, <3>2 DEF Alone
  <2> QED BY <2>1, <2>2
<1> QED BY <1>2, <1>3 DEF SoloInv

LEMMA AloneHandler ==
    ASSUME Steady, IType, SteadyInv, NEW m \in Msgs, HandlerStep(m)
    PROVE  Alone(m)
<1> m \in Procs
  BY ProcNames
<1>0. /\ SteadyAt(m) /\ BootLives /\ sess[m] = FirstSession /\ Boot \in StateIds /\ Boot # NoState
      /\ FirstSession \in Sessions
  BY StateNames DEF SteadyInv, IType, TypeOK, Sessions, Steady
<1> USE DEF Steady, IType, TypeOK, Alone, InHandler, Resetting, SteadyAt, SteadyPcs, BootPcs,
        BootLives, Usable, Alive, HandlerPcs, CleanupPcs, ResetPcs, LoopPcs, On, At, Goto, stateVars, lockVars, localVars
<1>1. CASE Arrive(m)
  BY <1>0, <1>1 DEF Arrive
<1>2. CASE TryLock(m)
  BY <1>0, <1>2 DEF TryLock
<1>3. CASE EnsureState(m)
  BY <1>0, <1>3 DEF EnsureState
<1>4. CASE QueueLookup(m)
  BY <1>0, <1>4 DEF QueueLookup
<1>5. CASE QueueAppend(m)
  BY <1>0, <1>5 DEF QueueAppend
<1>6. CASE RetryLock(m)
  BY <1>0, <1>6 DEF RetryLock
<1>7. CASE OrphanLookup(m)
  BY <1>0, <1>7 DEF OrphanLookup
<1>8. CASE OrphanCheck(m)
  BY <1>0, <1>8 DEF OrphanCheck
<1>9. CASE ReuseState(m)
  BY <1>0, <1>9 DEF ReuseState, Reusable, NeedRecycle
<1>10. CASE \E how \in {"resumed", "fresh", "failed"} : StartState(m, how)
  BY <1>0, <1>10 DEF StartState, Reusable, NeedRecycle
<1>11. CASE Begin(m)
  BY <1>0, <1>11 DEF Begin
<1> QED BY <1>1, <1>2, <1>3, <1>4, <1>5, <1>6, <1>7, <1>8, <1>9, <1>10, <1>11 DEF HandlerStep

LEMMA AloneLoop ==
    ASSUME Steady, IType, SteadyInv, NEW p \in Procs, LoopStep(p)
    PROVE  Alone(p)
<1>0. /\ SteadyAt(p) /\ BootLives /\ sess[p] = FirstSession /\ Boot \in StateIds /\ Boot # NoState
      /\ FirstSession \in Sessions
  BY StateNames DEF SteadyInv, IType, TypeOK, Sessions, Steady
<1> USE DEF Steady, IType, TypeOK, Alone, InHandler, Resetting, SteadyAt, SteadyPcs, BootPcs,
        BootLives, Usable, Alive, HandlerPcs, CleanupPcs, ResetPcs, LoopPcs, On, At, Goto, stateVars, lockVars, localVars
<1>1. CASE OpenEvents(p)
  BY <1>0, <1>1 DEF OpenEvents, UseAgent
<1>2. CASE NextQueued(p)
  BY <1>0, <1>2 DEF NextQueued, Pop
<1>3. CASE LoopStopped(p)
  BY <1>0, <1>3 DEF LoopStopped
<1>4. CASE \E how \in {"reply", "unsent", "compress"} : LoopResult(p, how)
  BY <1>0, <1>4 DEF LoopResult
<1>5. CASE LoopError(p)
  BY <1>0, <1>5 DEF LoopError
<1>6. CASE LoopSendError(p)
  BY <1>0, <1>6 DEF LoopSendError, CleanupOwn, DropQueueAnd
<1>7. CASE LoopIdle(p)
  BY <1>0, <1>7 DEF LoopIdle
<1>8. CASE LoopClosed(p)
  BY <1>0, <1>8 DEF LoopClosed
<1>9. CASE Drain(p)
  BY <1>0, <1>9 DEF Drain, Unlock, Pop
<1>10. CASE Deliver(p)
  BY <1>0, <1>10 DEF Deliver
<1>11. CASE Exit(p)
  BY <1>0, <1>11 DEF Exit
<1>12. CASE LoopAsk(p) \/ Pend(p) \/ Resume(p)
  BY <1>0, <1>12 DEF LoopAsk, Pend, Resume
<1> QED BY <1>1, <1>2, <1>3, <1>4, <1>5, <1>6, <1>7, <1>8, <1>9, <1>10, <1>11, <1>12 DEF LoopStep

LEMMA SoloStep ==
    ASSUME Steady, MaxHandlers = 1, IType, LockInv, SteadyInv, SoloInv, [Next]_vars
    PROVE  SoloInv'
<1>1. CASE \E m \in Msgs : HandlerStep(m)
  BY <1>1, AloneHandler, AloneStep, ProcNames
<1>2. CASE \E p \in Procs : LoopStep(p)
  BY <1>2, AloneLoop, AloneStep
<1>3. ~\E p \in Procs : CleanupStep(p) \/ CompressStep(p)
  BY NoTearDown
<1>4. CASE AgentStep \/ (\E p \in Procs : Answer(p)) \/ UNCHANGED vars
  BY <1>4 DEF AgentStep, AgentReports, AgentDies, Answer, SoloInv, InHandler, Resetting, At, vars,
     localVars
<1> QED BY <1>1, <1>2, <1>3, <1>4 DEF Next, Terminated, CommandStep, Steady

(* While nothing tears the state down, and with one handler at a time, a   *)
(* message that takes the lock itself overtakes none that waits.           *)
THEOREM OvertakingCorrect == ASSUME Steady, MaxHandlers = 1 PROVE Spec => []NoOvertaking
<1>1. SteadyInv /\ SoloInv => NoOvertaking
  BY DEF SteadyInv, BootLives, SoloInv, NoOvertaking
<1>2. Init => SteadyInv /\ SoloInv
  BY SteadyInit, SoloInit
<1>3. (IType /\ LockInv) /\ (SteadyInv /\ SoloInv) /\ [Next]_vars => (SteadyInv /\ SoloInv)'
  BY SteadyStep, SoloStep
<1>4. Spec => [](IType /\ LockInv)
  BY LockAlways DEF Steady
<1> QED BY <1>1, <1>2, <1>3, <1>4, PTL DEF Spec

-----------------------------------------------------------------------------
(* TurnQueue implements MessageDesk: every step of a goroutine is a step   *)
(* of the abstract specification, or changes nothing that it shows.        *)

OthersSame(p) == \A q \in Procs \ {p} : pc'[q] = pc[q] /\ cur'[q] = cur[q]
DeskSame(p)   == WorkingOn(p)' = WorkingOn(p)

(* What the chat can see of a step of p. *)
Nothing(p)  == fate' = fate /\ DeskSame(p)
Received(p) == p \in Msgs /\ fate[p] = "none" /\ fate' = [fate EXCEPT ![p] = "handled"] /\ DeskSame(p)
Placed(p)   == /\ p \in Msgs /\ fate[p] = "handled" /\ DeskSame(p)
               /\ \/ fate' = [fate EXCEPT ![p] = "refused"]
                  \/ fate' = [fate EXCEPT ![p] = "queued"]
Taken(p, m) == /\ m \in Msgs /\ (fate[m] = "queued" \/ (fate[m] = "handled" /\ m = p))
               /\ fate' = [fate EXCEPT ![m] = "running"]
               /\ WorkingOn(p) = NoMsg /\ WorkingOn(p)' = m
GivenUp(p, s)       == DropQueue(s) /\ DeskSame(p)
Ended(p, o)         == /\ WorkingOn(p) \in Msgs /\ WorkingOn(p)' = NoMsg
                       /\ fate' = [fate EXCEPT ![WorkingOn(p)] = o]
EndedAll(p, s, o)   == /\ WorkingOn(p) \in Msgs /\ WorkingOn(p)' = NoMsg
                       /\ DropQueueAnd(s, WorkingOn(p), o)

Seen(p) ==
    /\ OthersSame(p)
    /\ \/ Nothing(p) \/ Received(p) \/ Placed(p)
       \/ \E m \in Msgs : Taken(p, m)
       \/ \E s \in StateIds : GivenUp(p, s)
       \/ \E o \in Outcomes : Ended(p, o) \/ \E s \in StateIds : EndedAll(p, s, o)

DeskVal == [p \in Procs |-> WorkingOn(p)]

LEMMA SeenStep ==
    ASSUME IType, AcctInv, NEW p \in Procs, Seen(p)
    PROVE  [Desk!Next]_(Desk!deskVars)
<1>0. /\ \A q \in Procs \ {p} : WorkingOn(q)' = WorkingOn(q)
      /\ fate \in [Msgs -> Fates] /\ NoMsg \notin Msgs
  BY ConstantsOK DEF Seen, OthersSame, WorkingOn, IType, TypeOK
<1>1. DeskSame(p) => DeskVal' = DeskVal
  BY <1>0 DEF DeskSame, DeskVal
<1>2. \A s \in StateIds : Queued(s) \in SUBSET Desk!Waiting
  BY QueueShape DEF Desk!Waiting, AcctInv, QueueInv, QueueAccounting, IType
<1>3. CASE Nothing(p)
  BY <1>1, <1>3 DEF Nothing, Desk!deskVars, DeskVal
<1>4. CASE Received(p)
  BY <1>1, <1>4 DEF Received, Desk!Next, Desk!Receive, DeskVal
<1>5. CASE Placed(p)
  BY <1>1, <1>5 DEF Placed, Desk!Next, Desk!TurnAway, Desk!Wait, DeskVal
<1>6. ASSUME NEW m \in Msgs, Taken(p, m) PROVE Desk!Take(p, m)
  <2>1. DeskVal' = [DeskVal EXCEPT ![p] = m] /\ DeskVal[p] = NoMsg
    BY <1>0, <1>6 DEF DeskVal, Taken
  <2> QED BY <1>6, <2>1 DEF Taken, Desk!Take, DeskVal
<1>7. ASSUME NEW s \in StateIds, GivenUp(p, s) PROVE Desk!Drop(Queued(s))
  BY <1>1, <1>7 DEF GivenUp, DropQueue, Desk!Drop, DeskVal
<1>8. ASSUME NEW o \in Outcomes, Ended(p, o) PROVE Desk!Finish(p, o, {})
  <2>0. WorkingOn(p)' = NoMsg
    BY <1>8 DEF Ended
  <2>1. DeskVal' = [DeskVal EXCEPT ![p] = NoMsg] /\ DeskVal[p] = WorkingOn(p)
    BY <1>0, <2>0 DEF DeskVal
  <2>2. fate' = [m \in Msgs |-> IF m = WorkingOn(p) THEN o ELSE fate[m]]
    BY <1>0, <1>8 DEF Ended
  <2> QED BY <1>0, <1>8, <2>1, <2>2 DEF Ended, Desk!Finish, DeskVal
<1>9. ASSUME NEW o \in Outcomes, NEW s \in StateIds, EndedAll(p, s, o)
      PROVE  Desk!Finish(p, o, Queued(s))
  <2>1. DeskVal' = [DeskVal EXCEPT ![p] = NoMsg] /\ DeskVal[p] = WorkingOn(p)
    BY <1>0, <1>9 DEF DeskVal, EndedAll
  <2> QED BY <1>0, <1>9, <2>1 DEF EndedAll, DropQueueAnd, Desk!Finish, DeskVal
<1> QED BY <1>2, <1>3, <1>4, <1>5, <1>6, <1>7, <1>8, <1>9 DEF Seen, Desk!Next

(* Where p stands when it works on a message: it has one. *)
LEMMA InHand ==
    ASSUME IType, AcctInv, NEW p \in Procs, pc[p] \in WorkPcs
    PROVE  cur[p] \in Msgs /\ WorkingOn(p) = cur[p]
  BY DEF AcctInv, FateInv, FateAt, WorkingOn

LEMMA HandlerSeen ==
    ASSUME IType, AcctInv, NEW m \in Msgs, HandlerStep(m)
    PROVE  Seen(m)
<1> m \in Procs
  BY ProcNames
<1> USE DEF On, At, Goto, Settle, stateVars, lockVars, localVars, OthersSame, WorkPcs
<1>0. /\ pc \in [Procs -> PcValues] /\ cur \in [Procs -> Msgs \cup {NoMsg}] /\ fate \in [Msgs -> Fates]
      /\ FateAt(m) /\ RefAt(m)
  BY DEF IType, TypeOK, AcctInv, FateInv, RefOK
<1>1. CASE Arrive(m)
  <2>1. OthersSame(m) /\ (Received(m))
    BY <1>0, <1>1 DEF Arrive, Received, FateAt, FreshPcs, Resetting, DeskSame, WorkingOn
  <2> QED BY <2>1 DEF Seen
<1>2. CASE TryLock(m)
  <2>1. OthersSame(m) /\ (Nothing(m) \/ Placed(m))
    BY <1>0, <1>2 DEF TryLock, Nothing, Placed, FateAt, FreshPcs, Resetting, DeskSame, WorkingOn
  <2> QED BY <2>1 DEF Seen
<1>3. CASE EnsureState(m)
  <2>1. OthersSame(m) /\ (Nothing(m))
    BY <1>0, <1>3 DEF EnsureState, Nothing, FateAt, FreshPcs, Resetting, DeskSame, WorkingOn
  <2> QED BY <2>1 DEF Seen
<1>4. CASE QueueLookup(m)
  <2>1. OthersSame(m) /\ (Nothing(m) \/ Placed(m))
    BY <1>0, <1>4 DEF QueueLookup, Nothing, Placed, FateAt, FreshPcs, Resetting, DeskSame, WorkingOn
  <2> QED BY <2>1 DEF Seen
<1>5. CASE QueueAppend(m)
  <2>1. OthersSame(m) /\ (Placed(m))
    BY <1>0, <1>5 DEF QueueAppend, Placed, FateAt, FreshPcs, Resetting, DeskSame, WorkingOn
  <2> QED BY <2>1 DEF Seen
<1>6. CASE RetryLock(m)
  <2>1. OthersSame(m) /\ (Nothing(m))
    BY <1>0, <1>6 DEF RetryLock, Nothing, FateAt, FreshPcs, Resetting, DeskSame, WorkingOn
  <2> QED BY <2>1 DEF Seen
<1>7. CASE OrphanLookup(m)
  <2>1. OthersSame(m) /\ (Nothing(m))
    BY <1>0, <1>7 DEF OrphanLookup, Nothing, FateAt, FreshPcs, Resetting, DeskSame, WorkingOn
  <2> QED BY <2>1 DEF Seen
<1>8. CASE OrphanCheck(m)
  <2>1. ref[m] \in StateIds
    BY <1>0, <1>8 DEF OrphanCheck, RefAt, RefPcs
  <2>2. OthersSame(m) /\ (Nothing(m) \/ GivenUp(m, ref[m]))
    BY <1>0, <1>8 DEF OrphanCheck, Nothing, GivenUp, DeskSame, WorkingOn
  <2> QED BY <2>1, <2>2 DEF Seen
<1>9. CASE ReuseState(m)
  <2>1. OthersSame(m) /\ (Taken(m, m))
    BY <1>0, <1>9 DEF ReuseState, Taken, FateAt, FreshPcs, Resetting, DeskSame, WorkingOn
  <2> QED BY <2>1 DEF Seen
<1>10. CASE \E how \in {"resumed", "fresh", "failed"} : StartState(m, how)
  <2> PICK how \in {"resumed", "fresh", "failed"} : StartState(m, how)
    BY <1>10
  <2>1. OthersSame(m) /\ Taken(m, m)
    BY <1>0 DEF StartState, Taken, FateAt, FreshPcs, Resetting, WorkingOn
  <2> QED BY <2>1 DEF Seen
<1>11. CASE Begin(m)
  <2>1. WorkingOn(m) = m
    BY <1>0, <1>11 DEF Begin, WorkingOn, FateAt
  <2>2. OthersSame(m) /\ (Nothing(m) \/ Ended(m, "failed"))
    BY <1>0, <1>11, <2>1, ConstantsOK DEF Begin, Nothing, Ended, DeskSame, WorkingOn
  <2> QED BY <2>2 DEF Seen, Outcomes
<1> QED BY <1>1, <1>2, <1>3, <1>4, <1>5, <1>6, <1>7, <1>8, <1>9, <1>10, <1>11 DEF HandlerStep

LEMMA LoopSeen ==
    ASSUME IType, AcctInv, NEW p \in Procs, LoopStep(p)
    PROVE  Seen(p)
<1> USE DEF On, At, Goto, Settle, stateVars, lockVars, localVars, OthersSame, WorkPcs
<1>0. /\ pc \in [Procs -> PcValues] /\ cur \in [Procs -> Msgs \cup {NoMsg}] /\ fate \in [Msgs -> Fates]
      /\ RefAt(p) /\ NoMsg \notin Msgs
  BY ConstantsOK DEF IType, TypeOK, RefOK
<1>1. CASE OpenEvents(p)
  <2>1. OthersSame(p) /\ Nothing(p)
    BY <1>0, <1>1 DEF OpenEvents, Nothing, DeskSame, WorkingOn, UseAgent
  <2> QED BY <2>1 DEF Seen
<1>2. CASE NextQueued(p)
  <2>r. ref[p] \in StateIds
    BY <1>0, <1>2 DEF NextQueued, RefAt, RefPcs, LoopPcs, DrainPcs, CleanupPcs
  <2>1. CASE queue[ref[p]] = <<>>
    <3>1. OthersSame(p) /\ Nothing(p)
      BY <1>0, <1>2, <2>1 DEF NextQueued, Nothing, DeskSame, WorkingOn
    <3> QED BY <3>1 DEF Seen
  <2>2. CASE queue[ref[p]] # <<>>
    <3>1. /\ OthersSame(p) /\ Pop(p, ref[p]) /\ WorkingOn(p) = NoMsg /\ pc'[p] \in WorkPcs
      BY <1>0, <1>2, <2>2 DEF NextQueued, WorkingOn, Pop
    <3>2. cur'[p] \in Msgs /\ fate[cur'[p]] = "queued"
      BY <2>r, <2>2, <3>1, Popped DEF IType, AcctInv
    <3>3. fate' = [fate EXCEPT ![cur'[p]] = "running"]
      BY <1>0, <3>1 DEF Pop
    <3>4. Taken(p, cur'[p])
      BY <3>1, <3>2, <3>3 DEF Taken, WorkingOn
    <3> QED BY <3>1, <3>2, <3>4 DEF Seen
  <2> QED BY <2>1, <2>2
<1>3. CASE LoopStopped(p)
  <2>0. cur[p] \in Msgs /\ WorkingOn(p) = cur[p]
    BY <1>3, InHand DEF LoopStopped
  <2>1. OthersSame(p) /\ (Ended(p, "stopped"))
    BY <1>0, <1>3, <2>0 DEF LoopStopped, Ended, DeskSame, WorkingOn
  <2> QED BY <2>1 DEF Seen, Outcomes
<1>4. CASE \E how \in {"reply", "unsent", "compress"} : LoopResult(p, how)
  <2>0. cur[p] \in Msgs /\ WorkingOn(p) = cur[p]
    BY <1>4, InHand DEF LoopResult
  <2>1. OthersSame(p) /\ (Ended(p, "answered") \/ Ended(p, "unsent"))
    BY <1>0, <1>4, <2>0 DEF LoopResult, Ended, WorkingOn
  <2> QED BY <2>1 DEF Seen, Outcomes
<1>5. CASE LoopError(p)
  <2>0. cur[p] \in Msgs /\ WorkingOn(p) = cur[p]
    BY <1>5, InHand DEF LoopError
  <2>r. ref[p] \in StateIds
    BY <1>0, <1>5 DEF LoopError, RefAt, RefPcs, LoopPcs, CleanupPcs
  <2>1. OthersSame(p) /\ (Ended(p, "failed") \/ EndedAll(p, ref[p], "failed"))
    BY <1>0, <1>5, <2>0 DEF LoopError, Ended, EndedAll, DeskSame, WorkingOn
  <2> QED BY <2>r, <2>1 DEF Seen, Outcomes
<1>6. CASE LoopSendError(p)
  <2>0. cur[p] \in Msgs /\ WorkingOn(p) = cur[p]
    BY <1>6, InHand DEF LoopSendError
  <2>r. ref[p] \in StateIds
    BY <1>0, <1>6 DEF LoopSendError, RefAt, RefPcs, LoopPcs, CleanupPcs
  <2>1. OthersSame(p) /\ (EndedAll(p, ref[p], "failed"))
    BY <1>0, <1>6, <2>0 DEF LoopSendError, EndedAll, DeskSame, WorkingOn, CleanupOwn
  <2> QED BY <2>r, <2>1 DEF Seen, Outcomes
<1>7. CASE LoopIdle(p)
  <2>0. cur[p] \in Msgs /\ WorkingOn(p) = cur[p]
    BY <1>7, InHand DEF LoopIdle
  <2>1. OthersSame(p) /\ (Ended(p, "failed"))
    BY <1>0, <1>7, <2>0 DEF LoopIdle, Ended, DeskSame, WorkingOn, CleanupOwn
  <2> QED BY <2>1 DEF Seen, Outcomes
<1>8. CASE LoopClosed(p)
  <2>0. cur[p] \in Msgs /\ WorkingOn(p) = cur[p]
    BY <1>8, InHand DEF LoopClosed
  <2>r. ref[p] \in StateIds
    BY <1>0, <1>8 DEF LoopClosed, RefAt, RefPcs, LoopPcs, CleanupPcs
  <2>1. OthersSame(p) /\ (EndedAll(p, ref[p], "closed"))
    BY <1>0, <1>8, <2>0 DEF LoopClosed, EndedAll, DeskSame, WorkingOn, CleanupOwn
  <2> QED BY <2>r, <2>1 DEF Seen, Outcomes
<1>9. CASE Drain(p)
  <2>r. ref[p] \in StateIds
    BY <1>0, <1>9 DEF Drain, RefAt, RefPcs, LoopPcs, DrainPcs, CleanupPcs
  <2>1. CASE queue[ref[p]] = <<>>
    <3>1. OthersSame(p) /\ Nothing(p)
      BY <1>0, <1>9, <2>1 DEF Drain, Nothing, DeskSame, WorkingOn, Unlock
    <3> QED BY <3>1 DEF Seen
  <2>2. CASE queue[ref[p]] # <<>>
    <3>1. /\ OthersSame(p) /\ Pop(p, ref[p]) /\ WorkingOn(p) = NoMsg /\ pc'[p] \in WorkPcs
      BY <1>0, <1>9, <2>2 DEF Drain, WorkingOn, Pop
    <3>2. cur'[p] \in Msgs /\ fate[cur'[p]] = "queued"
      BY <2>r, <2>2, <3>1, Popped DEF IType, AcctInv
    <3>3. fate' = [fate EXCEPT ![cur'[p]] = "running"]
      BY <1>0, <3>1 DEF Pop
    <3>4. Taken(p, cur'[p])
      BY <3>1, <3>2, <3>3 DEF Taken, WorkingOn
    <3> QED BY <3>1, <3>2, <3>4 DEF Seen
  <2> QED BY <2>1, <2>2
<1>10. CASE Deliver(p)
  <2>0. cur[p] \in Msgs /\ WorkingOn(p) = cur[p]
    BY <1>10, InHand DEF Deliver
  <2>r. ref[p] \in StateIds
    BY <1>0, <1>10 DEF Deliver, RefAt, RefPcs, LoopPcs, DrainPcs, CleanupPcs
  <2>1. OthersSame(p) /\ (Nothing(p) \/ EndedAll(p, ref[p], "dropped"))
    BY <1>0, <1>10, <2>0 DEF Deliver, Nothing, EndedAll, DeskSame, WorkingOn
  <2> QED BY <2>r, <2>1 DEF Seen, Outcomes
<1>11. CASE Exit(p)
  <2>1. OthersSame(p) /\ Nothing(p)
    BY <1>0, <1>11 DEF Exit, Nothing, DeskSame, WorkingOn, Unlock
  <2> QED BY <2>1 DEF Seen
<1>12. CASE LoopAsk(p) \/ Pend(p) \/ Resume(p)
  <2>1. OthersSame(p) /\ Nothing(p)
    BY <1>0, <1>12 DEF LoopAsk, Pend, Resume, Nothing, DeskSame, WorkingOn
  <2> QED BY <2>1 DEF Seen
<1> QED BY <1>1, <1>2, <1>3, <1>4, <1>5, <1>6, <1>7, <1>8, <1>9, <1>10, <1>11, <1>12 DEF LoopStep

LEMMA CleanupSeen ==
    ASSUME IType, AcctInv, NEW p \in Procs, CleanupStep(p)
    PROVE  Seen(p)
<1> USE DEF On, At, Goto, Settle, stateVars, lockVars, localVars, OthersSame, WorkPcs
<1>0. /\ pc \in [Procs -> PcValues] /\ cur \in [Procs -> Msgs \cup {NoMsg}] /\ fate \in [Msgs -> Fates]
      /\ RefAt(p) /\ back[p] \in {"drain", "exit", "cnotify", "forget", "renew", "done"} /\ NoMsg \notin Msgs
  BY ConstantsOK DEF IType, TypeOK, RefOK
<1>1. CASE Detach(p)
  <2>1. OthersSame(p) /\ Nothing(p)
    BY <1>0, <1>1 DEF Detach, Nothing, DeskSame, WorkingOn
  <2> QED BY <2>1 DEF Seen
<1>2. CASE MarkStopped(p)
  <2>1. OthersSame(p) /\ Nothing(p)
    BY <1>0, <1>2 DEF MarkStopped, Nothing, DeskSame, WorkingOn
  <2> QED BY <2>1 DEF Seen
<1>3. CASE NotifyDropped(p)
  <2>r. expect[p] \in StateIds
    BY <1>0, <1>3 DEF NotifyDropped, RefAt
  <2>1. OthersSame(p) /\ (Nothing(p) \/ GivenUp(p, expect[p]))
    BY <1>0, <1>3 DEF NotifyDropped, Nothing, GivenUp, DeskSame, WorkingOn
  <2> QED BY <2>r, <2>1 DEF Seen
<1>4. CASE CloseAgent(p)
  <2>1. OthersSame(p) /\ Nothing(p)
    BY <1>0, <1>4 DEF CloseAgent, Nothing, DeskSame, WorkingOn
  <2> QED BY <2>1 DEF Seen
<1>5. CASE RemoveEntry(p)
  <2>1. OthersSame(p) /\ Nothing(p)
    BY <1>0, <1>5 DEF RemoveEntry, Nothing, DeskSame, WorkingOn
  <2> QED BY <2>1 DEF Seen
<1> QED BY <1>1, <1>2, <1>3, <1>4, <1>5 DEF CleanupStep

LEMMA ResetSeen ==
    ASSUME IType, AcctInv, NEW m \in Resets, ResetStep(m)
    PROVE  Seen(m)
<1> m \in Procs
  BY ProcNames, SessNames
<1>1. OthersSame(m) /\ Nothing(m)
  BY DEF ResetStep, LockAndReset, ResetUnlock, Rotate, Relock, On, At, Goto, stateVars, localVars,
     OthersSame, Nothing, DeskSame, WorkingOn, WorkPcs, IType, TypeOK
<1> QED BY <1>1 DEF Seen

LEMMA CompressSeen ==
    ASSUME IType, AcctInv, NEW p \in Procs, CompressStep(p)
    PROVE  Seen(p)
<1> USE DEF On, At, Goto, Settle, stateVars, lockVars, localVars, OthersSame, WorkPcs
<1>0. /\ pc \in [Procs -> PcValues] /\ cur \in [Procs -> Msgs \cup {NoMsg}] /\ fate \in [Msgs -> Fates]
      /\ RefAt(p) /\ NoMsg \notin Msgs
  BY ConstantsOK DEF IType, TypeOK, RefOK
<1>1. CASE CompressSend(p)
  <2>1. OthersSame(p) /\ Nothing(p)
    BY <1>0, <1>1 DEF CompressSend, Nothing, DeskSame, WorkingOn
  <2> QED BY <2>1 DEF Seen
<1>2. CASE CompressStopped(p)
  <2>1. OthersSame(p) /\ Nothing(p)
    BY <1>0, <1>2 DEF CompressStopped, Nothing, DeskSame, WorkingOn
  <2> QED BY <2>1 DEF Seen
<1>3. CASE CompressResult(p)
  <2>1. OthersSame(p) /\ Nothing(p)
    BY <1>0, <1>3 DEF CompressResult, Nothing, DeskSame, WorkingOn
  <2> QED BY <2>1 DEF Seen
<1>4. CASE CompressError(p)
  <2>r. ref[p] \in StateIds
    BY <1>0, <1>4 DEF CompressError, RefAt, RefPcs, LoopPcs, CleanupPcs
  <2>1. OthersSame(p) /\ (Nothing(p) \/ GivenUp(p, ref[p]))
    BY <1>0, <1>4 DEF CompressError, Nothing, GivenUp, DeskSame, WorkingOn
  <2> QED BY <2>r, <2>1 DEF Seen
<1>5. CASE CompressGone(p)
  <2>1. OthersSame(p) /\ Nothing(p)
    BY <1>0, <1>5 DEF CompressGone, Nothing, DeskSame, WorkingOn, CleanupOwn
  <2> QED BY <2>1 DEF Seen
<1>6. CASE CompressNotify(p)
  <2>r. ref[p] \in StateIds
    BY <1>0, <1>6 DEF CompressNotify, RefAt, RefPcs, LoopPcs, CleanupPcs
  <2>1. OthersSame(p) /\ (Nothing(p) \/ GivenUp(p, ref[p]))
    BY <1>0, <1>6 DEF CompressNotify, Nothing, GivenUp, DeskSame, WorkingOn
  <2> QED BY <2>r, <2>1 DEF Seen
<1> QED BY <1>1, <1>2, <1>3, <1>4, <1>5, <1>6 DEF CompressStep

LEMMA CommandSeen ==
    ASSUME IType, AcctInv, CommandStep
    PROVE  \E p \in Procs : Seen(p)
<1>1. PICK p \in Procs :
        \/ p \in Stops /\ (Stop(p) \/ StopNotify(p) \/ AsyncClose(p))
        \/ p \in News /\ (New(p) \/ ForgetOld(p) \/ NewSession(p))
        \/ p \in Reapers /\ (ReapIdle(p) \/ ReapScan(p))
        \/ p \in Compressors /\ (Compress(p) \/ CompressLock(p))
        \/ Answer(p)
  BY ProcNames DEF CommandStep
<1> USE DEF On, At, Goto, Settle, stateVars, lockVars, localVars, OthersSame, WorkPcs
<1>0. /\ pc \in [Procs -> PcValues] /\ cur \in [Procs -> Msgs \cup {NoMsg}] /\ fate \in [Msgs -> Fates]
      /\ RefAt(p) /\ NoMsg \notin Msgs
  BY ConstantsOK DEF IType, TypeOK, RefOK
<1>2. CASE Stop(p)
  <2>1. OthersSame(p) /\ Nothing(p)
    BY <1>0, <1>2 DEF Stop, Nothing, DeskSame, WorkingOn
  <2> QED BY <2>1 DEF Seen
<1>3. CASE AsyncClose(p)
  <2>1. OthersSame(p) /\ Nothing(p)
    BY <1>0, <1>3 DEF AsyncClose, Nothing, DeskSame, WorkingOn
  <2> QED BY <2>1 DEF Seen
<1>4. CASE New(p)
  <2>1. OthersSame(p) /\ Nothing(p)
    BY <1>0, <1>4 DEF New, Nothing, DeskSame, WorkingOn
  <2> QED BY <2>1 DEF Seen
<1>5. CASE ForgetOld(p) \/ NewSession(p)
  <2>1. OthersSame(p) /\ Nothing(p)
    BY <1>0, <1>5 DEF ForgetOld, NewSession, Nothing, DeskSame, WorkingOn
  <2> QED BY <2>1 DEF Seen
<1>6. CASE ReapIdle(p)
  <2>1. OthersSame(p) /\ Nothing(p)
    BY <1>0, <1>6 DEF ReapIdle, Nothing, DeskSame, WorkingOn
  <2> QED BY <2>1 DEF Seen
<1>7. CASE ReapScan(p)
  <2>1. OthersSame(p) /\ Nothing(p)
    BY <1>0, <1>7 DEF ReapScan, Nothing, DeskSame, WorkingOn
  <2> QED BY <2>1 DEF Seen
<1>8. CASE Compress(p)
  <2>1. OthersSame(p) /\ Nothing(p)
    BY <1>0, <1>8 DEF Compress, Nothing, DeskSame, WorkingOn
  <2> QED BY <2>1 DEF Seen
<1>9. CASE CompressLock(p)
  <2>1. OthersSame(p) /\ Nothing(p)
    BY <1>0, <1>9 DEF CompressLock, Nothing, DeskSame, WorkingOn
  <2> QED BY <2>1 DEF Seen
<1>10. CASE StopNotify(p)
  <2>r. ref[p] \in StateIds
    BY <1>0, <1>10 DEF StopNotify, RefAt, RefPcs, LoopPcs, CleanupPcs
  <2>1. OthersSame(p) /\ (Nothing(p) \/ GivenUp(p, ref[p]))
    BY <1>0, <1>10 DEF StopNotify, Nothing, GivenUp, DeskSame, WorkingOn
  <2> QED BY <2>r, <2>1 DEF Seen
<1>11. CASE Answer(p)
  <2>1. OthersSame(p) /\ Nothing(p)
    BY <1>0, <1>11 DEF Answer, Nothing, DeskSame, WorkingOn
  <2> QED BY <2>1 DEF Seen
<1> QED BY <1>1, <1>2, <1>3, <1>4, <1>5, <1>6, <1>7, <1>8, <1>9, <1>10, <1>11

LEMMA DeskStepSeen ==
    ASSUME IType, AcctInv, [Next]_vars
    PROVE  [Desk!Next]_(Desk!deskVars)
<1>1. CASE AgentStep \/ UNCHANGED vars
  BY <1>1 DEF AgentStep, AgentReports, AgentDies, vars, stateVars, localVars, Desk!deskVars, WorkingOn
<1>2. CASE \E p \in Procs : Seen(p)
  BY <1>2, SeenStep
<1>3. CASE \E m \in Resets : ResetStep(m)
  BY <1>3, ResetSeen, SeenStep, ProcNames, SessNames
<1> QED BY <1>1, <1>2, <1>3, HandlerSeen, LoopSeen, CleanupSeen, CompressSeen, CommandSeen, ProcNames
    DEF Next, Terminated

(* The queues, locks, states and agents of the engine implement the        *)
(* abstract MessageDesk, for every number of messages and commands, every  *)
(* interleaving and every combination of faults.                           *)
THEOREM DeskImplemented == Spec => KeepsDesk
<1>1. Init => Desk!Init
  BY DEF Init, Desk!Init, WorkingOn, WorkPcs
<1>2. IType /\ AcctInv /\ [Next]_vars => [Desk!Next]_(Desk!deskVars)
  BY DeskStepSeen
<1> QED BY <1>1, <1>2, AcctAlways, PTL DEF Spec, KeepsDesk, Desk!Spec

-----------------------------------------------------------------------------
(* What MessageDesk promises. *)

LEMMA DeskKept ==
    ASSUME Desk!DeskType, Desk!OnOneDesk, [Desk!Next]_(Desk!deskVars)
    PROVE  Desk!DeskType' /\ Desk!OnOneDesk'
<1> DEFINE Inv == /\ fate \in [Msgs -> Fates] /\ DeskVal \in [Procs -> Msgs \cup {NoMsg}]
                  /\ \A m \in Msgs : fate[m] = "running" <=> \E w \in Procs : DeskVal[w] = m
                  /\ \A v, w \in Procs : v # w /\ DeskVal[v] # NoMsg => DeskVal[v] # DeskVal[w]
<1>0. Inv <=> Desk!DeskType /\ Desk!OnOneDesk
  BY DEF Desk!DeskType, Desk!OnOneDesk, DeskVal, Fates
<1>1. Inv' <=> Desk!DeskType' /\ Desk!OnOneDesk'
  BY DEF Desk!DeskType, Desk!OnOneDesk, DeskVal, Fates
<1> SUFFICES Inv'
  BY <1>1
<1>n. /\ NoMsg \notin Msgs /\ Msgs \subseteq Procs
      /\ "running" \notin Outcomes /\ "queued" \notin Outcomes /\ "handled" \notin Outcomes
      /\ Outcomes \subseteq Fates /\ {"handled", "queued", "running", "dropped", "refused"} \subseteq Fates
  BY ConstantsOK, ProcNames DEF Outcomes, Fates
<1>v. \A w \in Procs : WorkingOn(w) = DeskVal[w]
  BY DEF DeskVal
<1>2. CASE UNCHANGED Desk!deskVars
  BY <1>0, <1>2 DEF Desk!deskVars, DeskVal
<1>3. ASSUME NEW m \in Msgs, Desk!Receive(m) \/ Desk!TurnAway(m) \/ Desk!Wait(m) PROVE Inv'
  <2>1. /\ DeskVal' = DeskVal /\ fate[m] \in {"none", "handled"}
        /\ \E f \in {"handled", "refused", "queued"} : fate' = [fate EXCEPT ![m] = f]
    <3>1. CASE Desk!Receive(m)
      BY <3>1 DEF Desk!Receive, DeskVal
    <3>2. CASE Desk!TurnAway(m)
      BY <3>2 DEF Desk!TurnAway, DeskVal
    <3>3. CASE Desk!Wait(m)
      BY <3>3 DEF Desk!Wait, DeskVal
    <3> QED BY <1>3, <3>1, <3>2, <3>3
  <2> HIDE DEF DeskVal
  <2> QED BY <1>0, <1>n, <2>1
<1>4. ASSUME NEW w \in Procs, NEW m \in Msgs, Desk!Take(w, m) PROVE Inv'
  <2>1. /\ DeskVal[w] = NoMsg /\ DeskVal' = [DeskVal EXCEPT ![w] = m]
        /\ fate[m] \in {"queued", "handled"} /\ fate' = [fate EXCEPT ![m] = "running"]
    BY <1>4 DEF Desk!Take, DeskVal
  <2> QED BY <1>0, <1>n, <2>1
<1>5. ASSUME NEW D \in SUBSET Desk!Waiting, Desk!Drop(D) PROVE Inv'
  <2>1. /\ DeskVal' = DeskVal /\ D \subseteq Msgs /\ \A m \in D : fate[m] = "queued"
        /\ fate' = [m \in Msgs |-> IF m \in D THEN "dropped" ELSE fate[m]]
    BY <1>5 DEF Desk!Drop, Desk!Waiting, DeskVal
  <2> QED BY <1>0, <1>n, <2>1
<1>6. ASSUME NEW D \in SUBSET Desk!Waiting, NEW w \in Procs, NEW end \in Outcomes,
             Desk!Finish(w, end, D)
      PROVE  Inv'
  <2>1. /\ D \subseteq Msgs /\ \A m \in D : fate[m] = "queued"
        /\ DeskVal[w] # NoMsg /\ DeskVal' = [DeskVal EXCEPT ![w] = NoMsg]
        /\ fate' = [m \in Msgs |-> IF m = DeskVal[w] THEN end ELSE IF m \in D THEN "dropped" ELSE fate[m]]
    BY <1>6 DEF Desk!Finish, Desk!Waiting, DeskVal
  <2>2. DeskVal[w] \in Msgs
    BY <1>0, <2>1
  <2> QED BY <1>0, <1>n, <2>1, <2>2
<1> QED BY <1>2, <1>3, <1>4, <1>5, <1>6 DEF Desk!Next

LEMMA DeskStart == Desk!Init => Desk!DeskType /\ Desk!OnOneDesk
  BY ConstantsOK DEF Desk!Init, Desk!DeskType, Desk!OnOneDesk

LEMMA DeskCorrect == Desk!Spec => []Desk!OnOneDesk
  BY DeskStart, DeskKept, PTL DEF Desk!Spec

(* A message is being worked on exactly while one event loop has it: what  *)
(* the abstract specification promises, its implementation keeps.          *)
THEOREM DeliveredCorrect == Spec => []DeliveredOnce
  BY DeskCorrect, DeskImplemented, PTL DEF KeepsDesk, DeliveredOnce

=============================================================================
