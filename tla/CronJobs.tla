------------------------------ MODULE CronJobs ------------------------------
(* The cron jobs of core/cron.go: the store, the scheduler that keeps one  *)
(* entry per enabled job in the cron library, and the runs it starts.      *)
(*                                                                         *)
(* The store and the table of entries have a mutex each, and an operation  *)
(* takes them one after the other, so two users (chat commands, cards, the *)
(* local API) interleave between the two.  A step of an operation is what  *)
(* it does under one of the mutexes.                                       *)
(*                                                                         *)
(* Left out: the fields that no step tests, among them the muting and what *)
(* MarkRun notes of the last run; the failure of a write, which the store  *)
(* logs and forgets (every change is on disk when its step ends); the      *)
(* parsing of an expression (Exprs are those AddJob and UpdateJob let in). *)
EXTENDS Integers, FiniteSets

CONSTANTS
    Jobs,       \* the job IDs GenerateCronID may return
    Exprs,      \* cron expressions that parse
    Admins,     \* goroutines that carry an operation out
    Runs,       \* executions of a job, a bound
    Ids,        \* entry IDs of the cron library, a bound
    Nil

\* the library's IDs never run out: there are more of them than jobs
ASSUME CronAssumption ==
    /\ Exprs # {} /\ Ids \subseteq Nat /\ Nil \notin Ids \cup Jobs
    /\ \E f \in [Jobs -> Ids] : \A j, k \in Jobs : f[j] = f[k] => j = k
    /\ \A f \in [Jobs -> Ids \cup {Nil}], j \in Jobs : \E i \in Ids : \A k \in Jobs \ {j} : f[k] # i

VARIABLES
    jobs,       \* CronJob by ID: stored or not, Enabled, CronExpr, LastError
    entries,    \* CronScheduler.entries: job ID -> entry ID
    live,       \* the entries of the cron library
    adm,        \* what each admin goroutine is doing
    run,        \* per execution: executeJob (wait) and its goroutine (work)
    busy,       \* Session.busy of the chat the jobs and the heartbeat use
    sure        \* observation: see ScheduledIfAlone

cronVars == <<jobs, entries, live, adm, run, sure>>

Ops ==
    [op : {"add", "setexpr"}, job : Jobs, arg : Exprs]
        \cup [op : {"setenabled"}, job : Jobs, arg : BOOLEAN]
        \cup [op : {"remove", "enable", "disable", "badtype"}, job : Jobs, arg : {Nil}]

NoRun == [job |-> Nil, wait |-> "idle", limited |-> FALSE, work |-> "none", locked |-> FALSE]
Resting == [pc |-> "idle", op |-> Nil, alone |-> TRUE]

CronTypeOK ==
    /\ jobs \in [Jobs -> [state : {"new", "stored", "gone"}, enabled : BOOLEAN,
                          expr : Exprs]]
    /\ entries \in [Jobs -> Ids \cup {Nil}]
    /\ live \subseteq [id : Ids, job : Jobs, expr : Exprs]
    /\ adm \in [Admins -> {Resting} \cup
                  [pc : {"found", "update", "look", "schedule", "unschedule", "remove"},
                   op : Ops, alone : BOOLEAN]]
    /\ run \in [Runs -> [job : Jobs \cup {Nil}, wait : {"idle", "fired", "waiting"},
                         limited : BOOLEAN, work : {"none", "start", "turn", "send"},
                         locked : BOOLEAN]]
    /\ sure \in [Jobs -> BOOLEAN]

-----------------------------------------------------------------------------
(* The cron library and the table of entries, under CronScheduler.mu       *)

Stored(j) == jobs[j].state = "stored"
WithoutEntry(j) == {x \in live : x.id # entries[j]}

\* AddFunc gives an ID that no entry of the library and no other job has
NewId(j, others) ==
    CHOOSE i \in Ids \ {entries[k] : k \in Jobs \ {j}} : \A x \in others : x.id # i

ScheduleJobOnce(j) ==
    LET id == NewId(j, live)
    IN  IF \E x \in live : x.id = entries[j] THEN UNCHANGED <<live, entries>>
        ELSE /\ live' = live \cup {[id |-> id, job |-> j, expr |-> jobs[j].expr]}
             /\ entries' = [entries EXCEPT ![j] = id]

\* scheduleJob: the old entry is removed, the new one has the expression
\* the job has now
ScheduleJob(j) ==
    LET id == NewId(j, WithoutEntry(j))
    IN  /\ live' = WithoutEntry(j) \cup {[id |-> id, job |-> j, expr |-> jobs[j].expr]}
        /\ entries' = [entries EXCEPT ![j] = id]

\* the same lines of RemoveJob, DisableJob and UpdateJob
UnscheduleJob(j) ==
    /\ live' = WithoutEntry(j)
    /\ entries' = [entries EXCEPT ![j] = Nil]

Scheduled(j) == \E x \in live : x.id = entries[j] /\ x.job = j

-----------------------------------------------------------------------------
(* The operations                                                          *)

OpsOn(j) == {a \in Admins : adm[a].pc # "idle" /\ adm[a].op.job = j}

\* the operation o goes on at pc; operations on the same job now overlap
Continue(a, o, pc) ==
    /\ adm' = [b \in Admins |->
                 IF b = a THEN [pc |-> pc, op |-> o, alone |-> OpsOn(o.job) = {}]
                 ELSE IF b \in OpsOn(o.job) THEN [adm[b] EXCEPT !.alone = FALSE]
                 ELSE adm[b]]
    /\ sure' = [sure EXCEPT ![o.job] = @ /\ OpsOn(o.job) = {}]

At(a, pc) == adm[a].pc = pc
Goto(a, pc) == adm' = [adm EXCEPT ![a].pc = pc] /\ UNCHANGED sure
Finish(a, ok) ==
    /\ adm' = [adm EXCEPT ![a] = Resting]
    /\ sure' = [sure EXCEPT ![adm[a].op.job] = adm[a].alone /\ ok]

SetEnabled(j, b) == jobs' = [jobs EXCEPT ![j].enabled = b]

\* AddJob: CronStore.Add, then scheduleJob (new jobs are enabled)
AddJob(a) ==
    /\ At(a, "idle")
    /\ \E o \in Ops :
        /\ o.op = "add" /\ jobs[o.job].state = "new"
        /\ jobs' = [jobs EXCEPT ![o.job] = [state |-> "stored", enabled |-> TRUE, expr |-> o.arg]]
        /\ Continue(a, o, "schedule")
    /\ UNCHANGED <<entries, live, run, busy>>

\* EnableJob and DisableJob: CronStore.SetEnabled comes first
Toggle(a) ==
    /\ At(a, "idle")
    /\ \E o \in Ops :
        /\ o.op \in {"enable", "disable"} /\ Stored(o.job)
        /\ SetEnabled(o.job, o.op = "enable")
        /\ Continue(a, o, IF o.op = "enable" THEN "look" ELSE "unschedule")
    /\ UNCHANGED <<entries, live, run, busy>>

\* RemoveJob: the entry goes first
RemoveJob(a) ==
    /\ At(a, "idle")
    /\ \E o \in Ops :
        /\ o.op = "remove" /\ Stored(o.job)
        /\ UnscheduleJob(o.job)
        /\ Continue(a, o, "remove")
    /\ UNCHANGED <<jobs, run, busy>>

RemoveStored(a) ==
    /\ At(a, "remove")
    /\ jobs' = [jobs EXCEPT ![adm[a].op.job].state = "gone"]
    /\ Finish(a, TRUE)
    /\ UNCHANGED <<entries, live, run, busy>>

\* UpdateJob of cron_expr or enabled; "badtype" is a value for enabled that
\* is not a boolean, which only CronStore.Update finds out
UpdateJob(a) ==
    /\ At(a, "idle")
    /\ \E o \in Ops :
        /\ o.op \in {"setexpr", "setenabled", "badtype"} /\ Stored(o.job)
        /\ Continue(a, o, "found")
    /\ UNCHANGED <<jobs, entries, live, run, busy>>

UpdateUnschedules(a) ==
    /\ At(a, "found")
    /\ UnscheduleJob(adm[a].op.job)
    /\ Goto(a, "update")
    /\ UNCHANGED <<jobs, run, busy>>

\* CronStore.Update fails, and UpdateJob returns the error
UpdateFails(a) ==
    /\ At(a, "update")
    /\ adm[a].op.op = "badtype" \/ ~Stored(adm[a].op.job)
    /\ Finish(a, FALSE)
    /\ UNCHANGED <<jobs, entries, live, run, busy>>

Update(a) ==
    LET o == adm[a].op IN
    /\ At(a, "update") /\ o.op # "badtype" /\ Stored(o.job)
    /\ IF o.op = "setexpr" THEN jobs' = [jobs EXCEPT ![o.job].expr = o.arg]
       ELSE SetEnabled(o.job, o.arg)
    /\ Goto(a, "look")
    /\ UNCHANGED <<entries, live, run, busy>>

LookOnlyExpr(a) ==
    LET o == adm[a].op IN
    /\ At(a, "look")
    /\ IF Stored(o.job) /\ (o.op = "enable" \/ (o.op = "setexpr" /\ jobs[o.job].enabled))
       THEN Goto(a, "schedule") ELSE Finish(a, TRUE)
    /\ UNCHANGED <<jobs, entries, live, run, busy>>

\* CronStore.Get in EnableJob and UpdateJob: the latter needs Enabled too
Look(a) ==
    LET o == adm[a].op IN
    /\ At(a, "look")
    /\ IF Stored(o.job) /\ (o.op = "enable" \/ jobs[o.job].enabled)
       THEN Goto(a, "schedule") ELSE Finish(a, TRUE)
    /\ UNCHANGED <<jobs, entries, live, run, busy>>

\* the last step of AddJob, EnableJob and UpdateJob
Schedule(a) ==
    /\ At(a, "schedule")
    /\ ScheduleJob(adm[a].op.job)
    /\ Finish(a, TRUE)
    /\ UNCHANGED <<jobs, run, busy>>

\* the last step of DisableJob
Unschedule(a) ==
    /\ At(a, "unschedule")
    /\ UnscheduleJob(adm[a].op.job)
    /\ Finish(a, TRUE)
    /\ UNCHANGED <<jobs, run, busy>>

-----------------------------------------------------------------------------
(* The executions                                                          *)

Fire(r) ==
    /\ run[r].wait = "idle" /\ run[r].work = "none"
    /\ \E x \in live :
         run' = [run EXCEPT ![r] = [NoRun EXCEPT !.job = x.job, !.wait = "fired"]]
    /\ UNCHANGED <<jobs, entries, live, adm, busy, sure>>

\* executeJob: a job removed or disabled by now does not run; another one
\* has a time limit unless its timeout_mins is 0
ExecuteJob(r) ==
    /\ run[r].wait = "fired"
    /\ \E limited \in BOOLEAN :
         run' = [run EXCEPT ![r] =
                   IF Stored(@.job) /\ jobs[@.job].enabled
                   THEN [@ EXCEPT !.wait = "waiting", !.limited = limited, !.work = "start"]
                   ELSE NoRun]
    /\ UNCHANGED <<jobs, entries, live, adm, busy, sure>>

\* ExecuteCronJob, up to the turn: it fails without a platform, and without
\* the lock of the Session
CannotRun(r) ==
    /\ run[r].work = "start"
    /\ run' = [run EXCEPT ![r].work = "send"]
    /\ UNCHANGED <<jobs, entries, live, adm, busy, sure>>

\* the turn in the active Session
BeginRun(r) ==
    /\ run[r].work = "start" /\ ~busy
    /\ busy' = TRUE
    /\ run' = [run EXCEPT ![r] = [@ EXCEPT !.work = "turn", !.locked = TRUE]]
    /\ UNCHANGED <<jobs, entries, live, adm, sure>>

\* the turn in a Session of its own (new_per_run), or a shell command
BeginFreshRun(r) ==
    /\ run[r].work = "start"
    /\ run' = [run EXCEPT ![r].work = "turn"]
    /\ UNCHANGED <<jobs, entries, live, adm, busy, sure>>

EndRun(r) ==
    /\ run[r].work = "turn"
    /\ run' = [run EXCEPT ![r] = [@ EXCEPT !.work = "send", !.locked = FALSE]]
    /\ busy' = (busy /\ ~run[r].locked)
    /\ UNCHANGED <<jobs, entries, live, adm, sure>>

SendDoneUnbuffered(r) ==
    /\ run[r].work = "send" /\ run[r].wait = "waiting"
    /\ run' = [run EXCEPT ![r].work = "none"]
    /\ UNCHANGED <<jobs, entries, live, adm, busy, sure>>

\* done <- err: the channel has room for it whether anybody waits or not
SendDone(r) ==
    /\ run[r].work = "send"
    /\ run' = [run EXCEPT ![r].work = "none"]
    /\ UNCHANGED <<jobs, entries, live, adm, busy, sure>>

\* executeJob takes the result, or gives up on it: MarkRun, and the goroutine
\* it gave up on goes on
RunDone(r) ==
    /\ run[r].wait = "waiting" /\ run[r].work = "none"
    /\ run' = [run EXCEPT ![r] = NoRun]
    /\ UNCHANGED <<jobs, entries, live, adm, busy, sure>>

RunTimeout(r) ==
    /\ run[r].wait = "waiting" /\ run[r].limited
    /\ run' = [run EXCEPT ![r].wait = "idle"]
    /\ UNCHANGED <<jobs, entries, live, adm, busy, sure>>

\* NewCronStore: a job in jobs.json as an earlier process left it, or one to
\* come (expressions are interchangeable: what is loaded has a given one)
Loaded ==
    LET expr == CHOOSE x \in Exprs : TRUE
    IN  [state : {"stored"}, enabled : BOOLEAN, expr : {expr}]
          \cup {[state |-> "new", enabled |-> FALSE, expr |-> expr]}

\* CronScheduler.Start: an entry for each enabled job
StartIds == CHOOSE f \in [Jobs -> Ids] : \A j, k \in Jobs : f[j] = f[k] => j = k
StartJobs == {j \in Jobs : Stored(j) /\ jobs[j].enabled}
StartEntries == [j \in Jobs |-> IF j \in StartJobs THEN StartIds[j] ELSE Nil]
StartLive == {[id |-> StartIds[j], job |-> j, expr |-> jobs[j].expr] : j \in StartJobs}

CronInit ==
    /\ jobs \in [Jobs -> Loaded]
    /\ entries = StartEntries /\ live = StartLive
    /\ adm = [a \in Admins |-> Resting]
    /\ run = [r \in Runs |-> NoRun]
    /\ sure = [j \in Jobs |-> TRUE]

\* the process ends and starts again
CronRestart ==
    /\ entries' = StartEntries /\ live' = StartLive
    /\ adm' = [a \in Admins |-> Resting]
    /\ run' = [r \in Runs |-> NoRun]
    /\ sure' = [j \in Jobs |-> TRUE]
    /\ UNCHANGED jobs

RunStep(r) == ExecuteJob(r) \/ CannotRun(r) \/ BeginRun(r)
                \/ BeginFreshRun(r) \/ SendDone(r) \/ RunDone(r)

AdminStep(a) ==
    RemoveStored(a) \/ UpdateUnschedules(a) \/ UpdateFails(a) \/ Update(a) \/ Look(a)
        \/ Schedule(a) \/ Unschedule(a)

CronNext ==
    \/ \E a \in Admins : AddJob(a) \/ Toggle(a) \/ RemoveJob(a) \/ UpdateJob(a) \/ AdminStep(a)
    \/ \E r \in Runs : Fire(r) \/ RunStep(r) \/ EndRun(r) \/ RunTimeout(r)

HeldByRun == {r \in Runs : run[r].work = "turn" /\ run[r].locked}

-----------------------------------------------------------------------------
(* Properties                                                              *)

(* Every entry of the cron library is the one the table notes for its job, *)
(* so that it can still be taken out: no job fires twice a minute because  *)
(* two updates of it crossed, and no lost entry goes on until a restart.   *)
OneEntry == \A x \in live : entries[x.job] = x.id

(* Once nobody is changing an enabled job, it fires at the expression the  *)
(* store has, however the changes of it interleaved (core/cron.go:541).    *)
EntryCurrent ==
    \A x \in live : (OpsOn(x.job) = {} /\ Stored(x.job) /\ jobs[x.job].enabled)
                       => x.expr = jobs[x.job].expr

(* A job whose last change was carried out alone, and did not fail, has an *)
(* entry exactly when it is stored and enabled: what a restart would set   *)
(* up.  Changes that overlap may break this; sure[j] leaves them out.      *)
ScheduledIfAlone ==
    \A j \in Jobs : (sure[j] /\ OpsOn(j) = {})
                       => (Scheduled(j) <=> Stored(j) /\ jobs[j].enabled)

(* Every execution of a job with a time limit is over in the end, though   *)
(* the turn it started may never end; and a turn that ends after that has  *)
(* somewhere to put its result and leaves no goroutine behind.             *)
RunsSettle ==
    \A r \in Runs :
        /\ (run[r].wait = "waiting" /\ run[r].limited) ~> run[r].wait # "waiting"
        /\ (run[r].work = "send") ~> (run[r].work = "none")

CronFairness ==
    /\ \A a \in Admins : WF_cronVars(AdminStep(a))
    /\ \A r \in Runs : WF_<<cronVars, busy>>(RunStep(r)) /\ WF_cronVars(RunTimeout(r))

=============================================================================
