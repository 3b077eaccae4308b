----------------------------- MODULE Heartbeat ------------------------------
(* The heartbeat of a project, core/heartbeat.go: a ticker loop that sends *)
(* a prompt to the chat's Session, the commands that pause and resume it,  *)
(* change its interval and trigger it, and the file that keeps a pause and *)
(* a changed interval over a restart.                                      *)
(*                                                                         *)
(* One project: all of them share the file, which is written whole.  Left  *)
(* out: the counters of the status, the text of the prompt, and a write    *)
(* that fails (a crash in the middle of one is modelled).                  *)
EXTENDS Integers, FiniteSets

CONSTANTS
    Beats,          \* executions of the heartbeat, a bound
    Intervals,      \* intervals in minutes
    Configured,     \* interval_mins of the configuration
    NoFile, Torn    \* heartbeat_state.json missing, or cut short by a crash

VARIABLES
    mode,           \* the configuration: no heartbeat, always, only_when_idle
    paused, mins,   \* heartbeatEntry.paused and config.IntervalMins
    ticking,        \* the Ticker runs
    file,           \* heartbeat_state.json
    writing,        \* hs.mu is held over the write of the file
    beat,           \* per execution: execute (wait) and its goroutine (work)
    busy            \* Session.busy of the chat

hbVars == <<mode, paused, mins, ticking, file, writing, beat>>
settings == <<mode, paused, mins, ticking, file, writing>>

Registered == mode # "off"
NoBeat == [ticked |-> FALSE, wait |-> "idle", work |-> "none"]

HbTypeOK ==
    /\ mode \in {"off", "always", "idle"} /\ paused \in BOOLEAN /\ ticking \in BOOLEAN /\ writing \in BOOLEAN
    /\ mins \in Intervals
    /\ file \in {NoFile, Torn} \cup [paused : BOOLEAN, mins : Intervals \cup {0}]
    /\ beat \in [Beats -> [ticked : BOOLEAN, wait : {"idle", "fired", "probe", "waiting"},
                           work : {"none", "start", "turn", "send"}]]

-----------------------------------------------------------------------------
(* The settings and their file                                             *)

\* an interval is saved as 0 when it is the configured one
ToSave(p, m) == [paused |-> p, mins |-> IF m = Configured THEN 0 ELSE m]

\* Register: what loadProjectState gives, over the configuration
Restored ==
    IF file \in {NoFile, Torn} THEN [paused |-> FALSE, mins |-> Configured]
    ELSE [paused |-> file.paused, mins |-> IF file.mins > 0 THEN file.mins ELSE Configured]

PersistKeepsFile(p, m) ==
    IF p \/ m # Configured THEN file' = Torn /\ writing' = TRUE
    ELSE UNCHANGED <<file, writing>>

\* persistLocked: nothing to save removes the file; os.WriteFile cuts it
\* short before it writes
Persist(p, m) ==
    IF p \/ m # Configured THEN file' = Torn /\ writing' = TRUE
    ELSE file' = NoFile /\ writing' = FALSE

Written ==
    /\ writing
    /\ file' = ToSave(paused, mins) /\ writing' = FALSE
    /\ UNCHANGED <<mode, paused, mins, ticking, beat, busy>>

Pause ==
    /\ Registered /\ ~writing /\ ~paused
    /\ paused' = TRUE /\ ticking' = FALSE
    /\ Persist(TRUE, mins)
    /\ UNCHANGED <<mode, mins, beat, busy>>

ResumeNoReset ==
    /\ Registered /\ ~writing /\ paused
    /\ paused' = FALSE /\ UNCHANGED ticking
    /\ Persist(FALSE, mins)
    /\ UNCHANGED <<mode, mins, beat, busy>>

Resume ==
    /\ Registered /\ ~writing /\ paused
    /\ paused' = FALSE /\ ticking' = TRUE
    /\ Persist(FALSE, mins)
    /\ UNCHANGED <<mode, mins, beat, busy>>

SetInterval ==
    /\ Registered /\ ~writing
    /\ \E m \in Intervals :
        /\ mins' = m
        /\ Persist(paused, m)
    /\ ticking' = (ticking \/ ~paused)
    /\ UNCHANGED <<mode, paused, beat, busy>>

\* NewHeartbeatScheduler, Register, Start: the ticker of a project that was
\* paused runs as well, and its ticks are skipped
HbStart ==
    /\ paused' = Restored.paused /\ mins' = Restored.mins
    /\ ticking' = TRUE /\ writing' = FALSE
    /\ beat' = [b \in Beats |-> NoBeat]
    /\ UNCHANGED <<mode, file>>

HbInit ==
    /\ mode \in {"off", "always", "idle"} /\ paused = FALSE /\ mins = Configured /\ ticking = TRUE
    /\ file = NoFile /\ writing = FALSE
    /\ beat = [b \in Beats |-> NoBeat]

-----------------------------------------------------------------------------
(* The executions                                                          *)

Free(b) == beat[b].wait = "idle" /\ beat[b].work = "none"

\* run: the loop is in execute while a tick's execution waits
Tick(b) ==
    /\ Registered /\ Free(b) /\ ticking /\ ~writing /\ ~paused
    /\ ~\E c \in Beats : beat[c].ticked /\ beat[c].wait # "idle"
    /\ beat' = [beat EXCEPT ![b] = [NoBeat EXCEPT !.ticked = TRUE, !.wait = "fired"]]
    /\ UNCHANGED <<settings, busy>>

\* TriggerNow: paused or not
TriggerNow(b) ==
    /\ Registered /\ Free(b) /\ ~writing
    /\ beat' = [beat EXCEPT ![b] = [NoBeat EXCEPT !.wait = "fired"]]
    /\ UNCHANGED <<settings, busy>>

Started(b) == [beat EXCEPT ![b] = [@ EXCEPT !.wait = "waiting", !.work = "start"]]

\* execute: with only_when_idle a busy Session is left alone, and a free one
\* is locked for a moment to find out
Skip(b) ==
    /\ beat[b].wait = "fired" /\ mode = "idle" /\ busy
    /\ beat' = [beat EXCEPT ![b] = NoBeat]
    /\ UNCHANGED <<settings, busy>>

Probe(b) ==
    /\ beat[b].wait = "fired" /\ mode = "idle" /\ ~busy
    /\ busy' = TRUE
    /\ beat' = [beat EXCEPT ![b].wait = "probe"]
    /\ UNCHANGED settings

Unprobe(b) ==
    /\ beat[b].wait = "probe"
    /\ busy' = FALSE
    /\ beat' = Started(b)
    /\ UNCHANGED settings

Execute(b) ==
    /\ beat[b].wait = "fired" /\ mode = "always"
    /\ beat' = Started(b)
    /\ UNCHANGED <<settings, busy>>

\* ExecuteHeartbeat: it fails without a platform, and without the lock
CannotBeat(b) ==
    /\ beat[b].work = "start"
    /\ beat' = [beat EXCEPT ![b].work = "send"]
    /\ UNCHANGED <<settings, busy>>

\* the probe taken for the lock
BeginBeatUnlocked(b) ==
    /\ beat[b].work = "start" /\ (mode = "idle" \/ ~busy)
    /\ busy' = TRUE
    /\ beat' = [beat EXCEPT ![b].work = "turn"]
    /\ UNCHANGED settings

BeginBeat(b) ==
    /\ beat[b].work = "start" /\ ~busy
    /\ busy' = TRUE
    /\ beat' = [beat EXCEPT ![b].work = "turn"]
    /\ UNCHANGED settings

EndBeat(b) ==
    /\ beat[b].work = "turn"
    /\ busy' = FALSE
    /\ beat' = [beat EXCEPT ![b].work = "send"]
    /\ UNCHANGED settings

\* done <- err, into the room of one that the channel has
SendBeat(b) ==
    /\ beat[b].work = "send"
    /\ beat' = [beat EXCEPT ![b].work = "none"]
    /\ UNCHANGED <<settings, busy>>

BeatDone(b) ==
    /\ beat[b].wait = "waiting" /\ beat[b].work = "none" /\ ~writing
    /\ beat' = [beat EXCEPT ![b] = NoBeat]
    /\ UNCHANGED <<settings, busy>>

\* timeout_mins: its goroutine goes on
BeatTimeout(b) ==
    /\ beat[b].wait = "waiting" /\ ~writing
    /\ beat' = [beat EXCEPT ![b].wait = "idle"]
    /\ UNCHANGED <<settings, busy>>

BeatStep(b) ==
    Skip(b) \/ Probe(b) \/ Unprobe(b) \/ Execute(b) \/ CannotBeat(b) \/ BeginBeat(b)
        \/ SendBeat(b) \/ BeatDone(b)

HbNext ==
    \/ Written \/ Pause \/ Resume \/ SetInterval
    \/ \E b \in Beats : Tick(b) \/ TriggerNow(b) \/ BeatStep(b) \/ EndBeat(b) \/ BeatTimeout(b)

HeldByBeat == {b \in Beats : beat[b].wait = "probe" \/ beat[b].work = "turn"}

-----------------------------------------------------------------------------
(* Properties                                                              *)

(* Between two commands, a restart changes nothing: the pause and the      *)
(* interval it would restore are those in force.  (A crash in the middle   *)
(* of a write loses them, and the file that is left agrees with that.)     *)
RestartNeutral == ~writing => Restored = [paused |-> paused, mins |-> mins]

(* The heartbeat goes on: unless restarts and commands never stop, it      *)
(* beats again and again while it is not paused, whatever became of the    *)
(* beats before; a beat whose turn never ends is given up, and the ticker  *)
(* survives a pause, a change of the interval and a restart.               *)
HeartbeatGoesOn ==
    \/ []<><<HbStart \/ settings' # settings>>_hbVars
    \/ []<>(paused \/ ~Registered \/ \E b \in Beats : beat[b].wait # "idle")

HbFairness ==
    /\ WF_hbVars(Written)
    /\ WF_hbVars(\E b \in Beats : Tick(b))
    /\ \A b \in Beats : WF_<<hbVars, busy>>(BeatStep(b)) /\ WF_hbVars(BeatTimeout(b))

=============================================================================
