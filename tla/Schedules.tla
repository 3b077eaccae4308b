----------------------------- MODULE Schedules ------------------------------
(* The two schedulers of the program over the Session of one chat: cron    *)
(* jobs that run in the active Session and the heartbeat compete for       *)
(* Session.busy, and a restart ends all of them.  The user's own turns are *)
(* TurnQueue's: here they would be one more holder of the Session.         *)
EXTENDS CronJobs

CONSTANTS Beats, Intervals, Configured, NoFile, Torn,
          MaxOps, OpsBeside   \* operations on jobs at once: alone, and next to a heartbeat

ASSUME HeartbeatAssumption ==
    /\ Configured \in Intervals /\ Intervals \subseteq Nat \ {0}
    /\ {NoFile, Torn} \cap [paused : BOOLEAN, mins : Intervals \cup {0}] = {}

VARIABLES mode, paused, mins, ticking, file, writing, beat

H == INSTANCE Heartbeat

heartbeat == <<mode, paused, mins, ticking, file, writing, beat>>
vars == <<cronVars, heartbeat, busy>>

TypeOK == CronTypeOK /\ H!HbTypeOK /\ busy \in BOOLEAN

Init ==
    /\ CronInit /\ H!HbInit
    /\ busy = FALSE

\* the process ends at any moment and starts again
Restart ==
    /\ CronRestart /\ H!HbStart
    /\ busy' = FALSE

OpsBound ==
    Cardinality({a \in Admins : adm[a].pc # "idle"}) <= IF H!Registered THEN OpsBeside ELSE MaxOps

Next ==
    \/ CronNext /\ UNCHANGED heartbeat /\ OpsBound'
    \/ H!HbNext /\ UNCHANGED cronVars
    \/ Restart

Spec == Init /\ [][Next]_vars

\* goroutines that can step do, and timers and tickers go off; how long a
\* turn of the agent takes is anybody's guess
FairSpec == Spec /\ CronFairness /\ H!HbFairness

-----------------------------------------------------------------------------
(* Properties                                                              *)

(* The Session is busy exactly when one run, one heartbeat or one probe of *)
(* an only_when_idle heartbeat holds it: a run that was given up on a      *)
(* timeout still does, and is not joined by the next one.                  *)
Holders == ({"run"} \X HeldByRun) \cup ({"beat"} \X H!HeldByBeat)
OneHolder == (busy <=> Holders # {}) /\ \A p, q \in Holders : p = q

RestartNeutral == H!RestartNeutral
HeartbeatGoesOn == H!HeartbeatGoesOn

=============================================================================
