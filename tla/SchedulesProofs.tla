--------------------------- MODULE SchedulesProofs --------------------------
(* What Schedules promises, for any jobs, users, runs and heartbeats.      *)
(*                                                                         *)
(* A step of an operation is about one job j: what it does to the table of *)
(* entries is stated once (ScheduleFacts, UnscheduleFacts), so is what it  *)
(* does to the list of operations (GotoFacts, FinishFacts, ContinueFacts), *)
(* and OtherJobs shows that the other jobs do not notice.  What is left of *)
(* each action is its own job: CurrentAt, SureAt and AloneAt.              *)
EXTENDS Schedules, TLAPS

Pcs == {"found", "update", "look", "schedule", "unschedule", "remove"}
AdmRecs == [pc : Pcs, op : Ops, alone : BOOLEAN]
JobRecs == [state : {"new", "stored", "gone"}, enabled : BOOLEAN, expr : Exprs]

Without(j) == \A x \in live : x.job # j

(* Two jobs have the same entry only if they have none.                    *)
Distinct ==
    \A j, k \in Jobs : j # k => entries[j] = Nil \/ entries[j] # entries[k]

(* An enabled job has an entry with an outdated expression only while an   *)
(* operation is on its way to schedule it again.                           *)
CurrentAt(j) ==
    \A x \in live : (x.job = j /\ Stored(j) /\ jobs[j].enabled /\ x.expr # jobs[j].expr)
                       => \E a \in OpsOn(j) : adm[a].pc \in {"look", "schedule"}

SureAt(j) ==
    (sure[j] /\ OpsOn(j) = {}) => (Scheduled(j) <=> Stored(j) /\ jobs[j].enabled)

(* What an operation has done so far, if no other one came in between.     *)
Done(pc, o) ==
    LET j == o.job IN
    /\ pc \in {"schedule"} => Stored(j) /\ jobs[j].enabled
    /\ pc \in {"unschedule"} => Stored(j) /\ ~jobs[j].enabled
    /\ pc \in {"found", "update", "look"} => Stored(j)
    /\ pc \in {"remove", "update"} => Without(j)
    /\ pc = "look" => IF o.op = "enable" THEN jobs[j].enabled ELSE Without(j)

AloneAt(a) ==
    (adm[a].pc # "idle" /\ adm[a].alone)
        => OpsOn(adm[a].op.job) = {a} /\ Done(adm[a].pc, adm[a].op)

Updates ==
    \A a \in Admins : adm[a].pc \in {"found", "update"}
                          => adm[a].op.op \in {"setexpr", "setenabled", "badtype"}

CronInv ==
    /\ CronTypeOK /\ OneEntry /\ Distinct /\ Updates
    /\ \A j \in Jobs : CurrentAt(j) /\ SureAt(j)
    /\ \A a \in Admins : AloneAt(a)

-----------------------------------------------------------------------------
(* Operations and their records                                            *)

LEMMA OpFacts ==
    ASSUME NEW o \in Ops
    PROVE  /\ o.job \in Jobs
           /\ o.op \in {"add", "setexpr", "setenabled", "remove", "enable", "disable", "badtype"}
           /\ o.op \in {"add", "setexpr"} => o.arg \in Exprs
           /\ o.op = "setenabled" => o.arg \in BOOLEAN
BY DEF Ops

LEMMA AdmFacts ==
    ASSUME CronTypeOK, NEW a \in Admins
    PROVE  /\ adm[a].pc \in Pcs \cup {"idle"}
           /\ adm[a].pc = "idle" => adm[a] = Resting
           /\ adm[a].pc # "idle" => /\ adm[a] \in AdmRecs /\ adm[a].op \in Ops
                                    /\ adm[a].op.job \in Jobs /\ adm[a].alone \in BOOLEAN
<1>1. adm[a] = Resting \/ adm[a] \in AdmRecs
  BY DEF CronTypeOK, AdmRecs, Pcs
<1>2. Resting.pc = "idle"
  BY DEF Resting
<1>3. ASSUME adm[a] \in AdmRecs
      PROVE  adm[a].pc \in Pcs /\ adm[a].op \in Ops /\ adm[a].alone \in BOOLEAN /\ adm[a].pc # "idle"
  BY <1>3 DEF AdmRecs, Pcs
<1> QED BY <1>1, <1>2, <1>3, OpFacts

LEMMA RecFacts ==
    ASSUME NEW c \in AdmRecs
    PROVE  /\ \A l \in Pcs : LET d == [c EXCEPT !.pc = l]
                             IN  d \in AdmRecs /\ d.pc = l /\ d.op = c.op /\ d.alone = c.alone
           /\ LET d == [c EXCEPT !.alone = FALSE]
              IN  d \in AdmRecs /\ d.pc = c.pc /\ d.op = c.op /\ ~d.alone
BY DEF AdmRecs

LEMMA OpsFacts ==
    ASSUME NEW j, NEW a
    PROVE  a \in OpsOn(j) <=> a \in Admins /\ adm[a].pc # "idle" /\ adm[a].op.job = j
BY DEF OpsOn

(* The operation of a goes on at l.                                        *)
LEMMA GotoFacts ==
    ASSUME CronTypeOK, NEW a \in Admins, NEW l \in Pcs, adm[a].pc # "idle", Goto(a, l)
    PROVE  /\ adm' \in [Admins -> {Resting} \cup AdmRecs]
           /\ adm'[a].pc = l /\ adm'[a].op = adm[a].op /\ adm'[a].alone = adm[a].alone
           /\ \A b \in Admins \ {a} : adm'[b] = adm[b]
           /\ \A j : OpsOn(j)' = OpsOn(j)
           /\ UNCHANGED sure
<1> DEFINE d == [adm[a] EXCEPT !.pc = l]
<1>1. adm \in [Admins -> {Resting} \cup AdmRecs] /\ adm[a] \in AdmRecs
  BY AdmFacts DEF CronTypeOK, AdmRecs, Pcs
<1>2. d \in AdmRecs /\ d.pc = l /\ d.op = adm[a].op /\ d.alone = adm[a].alone
  BY <1>1, RecFacts
<1>3. adm' = [adm EXCEPT ![a] = d] /\ UNCHANGED sure
  BY DEF Goto
<1> HIDE DEF d
<1>4. l # "idle"
  BY DEF Pcs
<1>5. ASSUME NEW j PROVE OpsOn(j)' = OpsOn(j)
  BY <1>1, <1>2, <1>3, <1>4 DEF OpsOn
<1> QED BY <1>1, <1>2, <1>3, <1>5

(* The operation of a is over.                                             *)
LEMMA FinishFacts ==
    ASSUME CronTypeOK, NEW a \in Admins, adm[a].pc # "idle", NEW ok \in BOOLEAN, Finish(a, ok)
    PROVE  /\ adm' \in [Admins -> {Resting} \cup AdmRecs]
           /\ adm'[a].pc = "idle"
           /\ \A b \in Admins \ {a} : adm'[b] = adm[b]
           /\ \A j : OpsOn(j)' = OpsOn(j) \ {a}
           /\ sure' \in [Jobs -> BOOLEAN]
           /\ sure'[adm[a].op.job] = (adm[a].alone /\ ok)
           /\ \A k \in Jobs \ {adm[a].op.job} : sure'[k] = sure[k]
<1>1. adm \in [Admins -> {Resting} \cup AdmRecs] /\ sure \in [Jobs -> BOOLEAN]
  BY DEF CronTypeOK, AdmRecs, Pcs
<1>2. adm' = [adm EXCEPT ![a] = Resting]
      /\ sure' = [sure EXCEPT ![adm[a].op.job] = adm[a].alone /\ ok]
  BY DEF Finish
<1>3. Resting.pc = "idle"
  BY DEF Resting
<1>4. ASSUME NEW j PROVE OpsOn(j)' = OpsOn(j) \ {a}
  BY <1>1, <1>2, <1>3 DEF OpsOn
<1>5. adm[a].op.job \in Jobs /\ (adm[a].alone /\ ok) \in BOOLEAN
  BY AdmFacts
<1> QED BY <1>1, <1>2, <1>3, <1>4, <1>5

(* The operation o of a begins, and goes on at l.                          *)
LEMMA ContinueFacts ==
    ASSUME CronTypeOK, NEW a \in Admins, adm[a].pc = "idle", NEW o \in Ops, NEW l \in Pcs,
           Continue(a, o, l)
    PROVE  /\ adm' \in [Admins -> {Resting} \cup AdmRecs]
           /\ adm'[a].pc = l /\ adm'[a].op = o /\ (adm'[a].alone <=> OpsOn(o.job) = {})
           /\ \A b \in Admins \ {a} :
                 /\ adm'[b].pc = adm[b].pc /\ adm'[b].op = adm[b].op
                 /\ adm'[b].alone => adm[b].alone
           /\ \A b \in OpsOn(o.job) : ~adm'[b].alone
           /\ \A j : OpsOn(j)' = IF j = o.job THEN OpsOn(j) \cup {a} ELSE OpsOn(j)
           /\ sure' \in [Jobs -> BOOLEAN]
           /\ \A k \in Jobs \ {o.job} : sure'[k] = sure[k]
<1>1. adm \in [Admins -> {Resting} \cup AdmRecs] /\ sure \in [Jobs -> BOOLEAN] /\ o.job \in Jobs
  BY OpFacts DEF CronTypeOK, AdmRecs, Pcs
<1> DEFINE first == OpsOn(o.job) = {}
           c == [pc |-> l, op |-> o, alone |-> first]
           d(b) == [adm[b] EXCEPT !.alone = FALSE]
<1>2. adm' = [b \in Admins |-> IF b = a THEN c ELSE IF b \in OpsOn(o.job) THEN d(b) ELSE adm[b]]
  BY DEF Continue
<1>3. sure' = [sure EXCEPT ![o.job] = sure[o.job] /\ first]
  BY DEF Continue
<1> HIDE DEF first
<1>4. c \in AdmRecs /\ c.pc = l /\ c.op = o /\ (c.alone <=> first)
  BY DEF AdmRecs, first
<1>5. \A b \in OpsOn(o.job) : /\ b \in Admins /\ b # a
                              /\ d(b) \in AdmRecs /\ d(b).pc = adm[b].pc /\ d(b).op = adm[b].op
                              /\ ~d(b).alone
  BY AdmFacts, RecFacts, OpsFacts
<1> HIDE DEF c, d
<1>6. a \notin OpsOn(o.job) /\ l # "idle"
  BY OpsFacts DEF Pcs
<1>7. adm' \in [Admins -> {Resting} \cup AdmRecs]
  BY <1>1, <1>2, <1>4, <1>5
<1>8. adm'[a] = c
  BY <1>2
<1>9. ASSUME NEW b \in Admins \ {a}
      PROVE  /\ adm'[b].pc = adm[b].pc /\ adm'[b].op = adm[b].op
             /\ adm'[b].alone => adm[b].alone
             /\ b \in OpsOn(o.job) => ~adm'[b].alone
  <2>1. CASE b \in OpsOn(o.job)
    BY <1>2, <1>5, <2>1
  <2>2. CASE b \notin OpsOn(o.job)
    BY <1>2, <2>2
  <2> QED BY <2>1, <2>2
<1>10. ASSUME NEW j PROVE OpsOn(j)' = IF j = o.job THEN OpsOn(j) \cup {a} ELSE OpsOn(j)
  <2>1. \A b \in Admins \ {a} : b \in OpsOn(j)' <=> b \in OpsOn(j)
    BY <1>9 DEF OpsOn
  <2>2. a \in OpsOn(j)' <=> j = o.job
    BY <1>4, <1>6, <1>8 DEF OpsOn
  <2>3. a \notin OpsOn(j)
    BY OpsFacts
  <2>4. OpsOn(j) \subseteq Admins /\ OpsOn(j)' \subseteq Admins
    BY DEF OpsOn
  <2> QED BY <2>1, <2>2, <2>3, <2>4
<1>11. sure' \in [Jobs -> BOOLEAN] /\ \A k \in Jobs \ {o.job} : sure'[k] = sure[k]
  BY <1>1, <1>3
<1> QED BY <1>4, <1>5, <1>7, <1>8, <1>9, <1>10, <1>11 DEF first

-----------------------------------------------------------------------------
(* The table of entries                                                    *)

EntryType ==
    /\ entries \in [Jobs -> Ids \cup {Nil}]
    /\ live \subseteq [id : Ids, job : Jobs, expr : Exprs]

(* Nothing changes for another job than j.                                 *)
OnlyEntriesOf(j) ==
    /\ \A k \in Jobs \ {j} : entries'[k] = entries[k]
    /\ \A x \in live \cup live' : x.job # j => (x \in live' <=> x \in live)

LEMMA EntryFacts ==
    ASSUME CronTypeOK, OneEntry, Distinct, NEW j \in Jobs
    PROVE  /\ EntryType /\ Nil \notin Ids
           /\ \A x \in live : /\ x.id \in Ids /\ x.job \in Jobs /\ x.id = entries[x.job]
                              /\ x.id = entries[j] <=> x.job = j
<1>1. EntryType /\ Nil \notin Ids
  BY CronAssumption DEF CronTypeOK, EntryType
<1>2. ASSUME NEW x \in live
      PROVE  /\ x.id \in Ids /\ x.job \in Jobs /\ x.id = entries[x.job]
             /\ x.id = entries[j] <=> x.job = j
  <2>1. x.id \in Ids /\ x.job \in Jobs /\ x.id = entries[x.job]
    BY <1>1 DEF EntryType, OneEntry
  <2>2. x.job # j => entries[x.job] # entries[j]
    BY <1>1, <2>1 DEF Distinct
  <2> QED BY <2>1, <2>2
<1> QED BY <1>1, <1>2

LEMMA ScheduleFacts ==
    ASSUME CronTypeOK, OneEntry, Distinct, NEW j \in Jobs, ScheduleJob(j)
    PROVE  /\ EntryType' /\ OneEntry' /\ Distinct' /\ OnlyEntriesOf(j)
           /\ \A x \in live' : x.job = j => x.expr = jobs[j].expr
           /\ \E x \in live' : x.id = entries'[j] /\ x.job = j
<1>1. /\ EntryType /\ Nil \notin Ids
      /\ \A x \in live : /\ x.id \in Ids /\ x.job \in Jobs /\ x.id = entries[x.job]
                         /\ x.id = entries[j] <=> x.job = j
  BY EntryFacts
<1>2. jobs[j].expr \in Exprs
  BY DEF CronTypeOK
<1> DEFINE others == WithoutEntry(j)
           id == NewId(j, others)
           new == [id |-> id, job |-> j, expr |-> jobs[j].expr]
<1>3. \A x : x \in others <=> x \in live /\ x.job # j
  <2>1. \A x \in live : x.id = entries[j] <=> x.job = j
    BY <1>1
  <2> QED BY <2>1 DEF WithoutEntry
<1>4. id \in Ids /\ \A k \in Jobs \ {j} : entries[k] # id
  <2> DEFINE S == Ids \ {entries[k] : k \in Jobs \ {j}}
             P(i) == \A x \in others : x.id # i
  <2>1. \E i \in Ids : \A k \in Jobs \ {j} : entries[k] # i
    BY <1>1, CronAssumption DEF EntryType
  <2>2. PICK i \in Ids : \A k \in Jobs \ {j} : entries[k] # i
    BY <2>1
  <2>3. ASSUME NEW x \in others PROVE x.id # i
    <3>1. x \in live /\ x.job # j
      BY <1>3
    <3>2. x.job \in Jobs \ {j} /\ x.id = entries[x.job]
      BY <1>1, <3>1
    <3> QED BY <2>2, <3>2
  <2>4. i \in S /\ P(i)
    BY <2>2, <2>3
  <2>5. id = CHOOSE h \in S : P(h)
    BY DEF NewId
  <2> HIDE DEF P, id
  <2>6. id \in S
    BY <2>4, <2>5
  <2> QED BY <2>6
<1>5. live' = others \cup {new} /\ entries' = [entries EXCEPT ![j] = id]
  BY DEF ScheduleJob
<1> HIDE DEF id
<1>6. new \in [id : Ids, job : Jobs, expr : Exprs] /\ new.id = id /\ new.job = j /\ new.expr = jobs[j].expr
  BY <1>2, <1>4
<1> HIDE DEF new, others
<1>7. EntryType'
  BY <1>1, <1>3, <1>4, <1>5, <1>6 DEF EntryType
<1>8. entries'[j] = id /\ \A k \in Jobs \ {j} : entries'[k] = entries[k]
  BY <1>1, <1>5 DEF EntryType
<1>9. OneEntry'
  BY <1>1, <1>3, <1>5, <1>6, <1>8 DEF OneEntry
<1>10. Distinct'
  BY <1>4, <1>8 DEF Distinct
<1>11. OnlyEntriesOf(j)
  BY <1>3, <1>5, <1>6, <1>8 DEF OnlyEntriesOf
<1> QED BY <1>3, <1>5, <1>6, <1>7, <1>8, <1>9, <1>10, <1>11

LEMMA UnscheduleFacts ==
    ASSUME CronTypeOK, OneEntry, Distinct, NEW j \in Jobs, UnscheduleJob(j)
    PROVE  EntryType' /\ OneEntry' /\ Distinct' /\ OnlyEntriesOf(j) /\ Without(j)'
<1>1. /\ EntryType
      /\ \A x \in live : /\ x.id \in Ids /\ x.job \in Jobs /\ x.id = entries[x.job]
                         /\ x.id = entries[j] <=> x.job = j
  BY EntryFacts
<1>2. /\ \A x : x \in live' <=> x \in live /\ x.job # j
      /\ entries' = [entries EXCEPT ![j] = Nil]
  <2>1. \A x \in live : x.id = entries[j] <=> x.job = j
    BY <1>1
  <2> QED BY <2>1 DEF UnscheduleJob, WithoutEntry
<1>3. entries'[j] = Nil /\ \A k \in Jobs \ {j} : entries'[k] = entries[k]
  BY <1>1, <1>2 DEF EntryType
<1>4. EntryType'
  BY <1>1, <1>2 DEF EntryType
<1>5. OneEntry'
  BY <1>1, <1>2, <1>3 DEF OneEntry
<1>6. Distinct'
  BY <1>3 DEF Distinct
<1> QED BY <1>2, <1>3, <1>4, <1>5, <1>6 DEF OnlyEntriesOf, Without

LEMMA SameEntries ==
    ASSUME CronTypeOK, OneEntry, Distinct, UNCHANGED <<entries, live>>
    PROVE  EntryType' /\ OneEntry' /\ Distinct' /\ \A j : OnlyEntriesOf(j) /\ (Without(j)' <=> Without(j))
BY DEF CronTypeOK, EntryType, OneEntry, Distinct, OnlyEntriesOf, Without

-----------------------------------------------------------------------------
(* A step on the job j, by a.                                              *)

StepOn(j, a) ==
    /\ adm[a].pc # "idle" => adm[a].op.job = j
    /\ adm'[a].pc # "idle" => adm'[a].op.job = j
    /\ \A b \in Admins \ {a} :
          /\ adm'[b].pc = adm[b].pc /\ adm'[b].op = adm[b].op
          /\ adm'[b].alone => adm[b].alone
    /\ adm[a].pc # "idle" \/ \A b \in OpsOn(j) : ~adm'[b].alone
    /\ \A k : k # j => OpsOn(k)' = OpsOn(k)
    /\ \A k \in Jobs \ {j} : sure'[k] = sure[k] /\ jobs'[k] = jobs[k]
    /\ OnlyEntriesOf(j)

LEMMA OtherJobs ==
    ASSUME CronInv, NEW j \in Jobs, NEW a \in Admins, StepOn(j, a)
    PROVE  /\ \A k \in Jobs \ {j} : CurrentAt(k)' /\ SureAt(k)'
           /\ \A b \in Admins \ {a} : AloneAt(b)'
<1>1. ASSUME NEW k \in Jobs \ {j} PROVE CurrentAt(k)'
  <2>1. CurrentAt(k) /\ jobs'[k] = jobs[k] /\ OpsOn(k)' = OpsOn(k)
    BY DEF CronInv, StepOn
  <2>2. \A x \in live' : x.job = k => x \in live
    BY DEF StepOn, OnlyEntriesOf
  <2>3. \A b \in OpsOn(k) : adm'[b].pc = adm[b].pc
    BY OpsFacts DEF StepOn
  <2> QED BY <2>1, <2>2, <2>3 DEF CurrentAt, Stored
<1>2. ASSUME NEW k \in Jobs \ {j} PROVE SureAt(k)'
  <2>1. SureAt(k) /\ jobs'[k] = jobs[k] /\ OpsOn(k)' = OpsOn(k) /\ sure'[k] = sure[k]
        /\ entries'[k] = entries[k]
    BY DEF CronInv, StepOn, OnlyEntriesOf
  <2>2. \A x \in live \cup live' : x.job = k => (x \in live' <=> x \in live)
    BY DEF StepOn, OnlyEntriesOf
  <2> QED BY <2>1, <2>2 DEF SureAt, Stored, Scheduled
<1>3. ASSUME NEW b \in Admins \ {a} PROVE AloneAt(b)'
  <2> SUFFICES ASSUME adm'[b].pc # "idle", adm'[b].alone
               PROVE  OpsOn(adm[b].op.job)' = {b} /\ Done(adm[b].pc, adm[b].op)'
    BY DEF AloneAt, StepOn
  <2> DEFINE k == adm[b].op.job
  <2>1. adm[b].pc # "idle" /\ adm[b].alone /\ OpsOn(k) = {b} /\ Done(adm[b].pc, adm[b].op)
        /\ k \in Jobs
    BY AdmFacts DEF CronInv, StepOn, AloneAt
  <2>2. k # j
    <3>1. b \in OpsOn(k)
      BY <2>1
    <3>2. SUFFICES ASSUME k = j PROVE FALSE
      OBVIOUS
    <3>3. adm[a].pc # "idle" /\ a \in OpsOn(j)
      BY <3>1, <3>2, OpsFacts DEF StepOn
    <3> QED BY <2>1, <3>2, <3>3
  <2>3. OpsOn(k)' = {b} /\ jobs'[k] = jobs[k]
    BY <2>1, <2>2 DEF StepOn
  <2>4. Without(k)' <=> Without(k)
    BY <2>2 DEF Without, StepOn, OnlyEntriesOf
  <2>5. adm'[b].pc = adm[b].pc /\ adm'[b].op = adm[b].op
    BY DEF StepOn
  <2> HIDE DEF k
  <2>6. Done(adm[b].pc, adm[b].op)'
    BY <2>1, <2>3, <2>4, <2>5 DEF Done, k, Stored
  <2> QED BY <2>3, <2>6 DEF k
<1> QED BY <1>1, <1>2, <1>3

OnlyJob(j) == \A k \in Jobs \ {j} : jobs'[k] = jobs[k]

LEMMA GotoStep ==
    ASSUME CronTypeOK, NEW a \in Admins, NEW l \in Pcs, adm[a].pc # "idle", Goto(a, l),
           OnlyJob(adm[a].op.job), OnlyEntriesOf(adm[a].op.job)
    PROVE  StepOn(adm[a].op.job, a)
BY GotoFacts DEF StepOn, OnlyJob

LEMMA FinishStep ==
    ASSUME CronTypeOK, NEW a \in Admins, adm[a].pc # "idle", NEW ok \in BOOLEAN, Finish(a, ok),
           OnlyJob(adm[a].op.job), OnlyEntriesOf(adm[a].op.job)
    PROVE  StepOn(adm[a].op.job, a)
<1>1. \A k : k # adm[a].op.job => a \notin OpsOn(k)
  BY OpsFacts
<1>2. /\ adm'[a].pc = "idle"
      /\ \A b \in Admins \ {a} : adm'[b] = adm[b]
      /\ \A k : OpsOn(k)' = OpsOn(k) \ {a}
      /\ \A k \in Jobs \ {adm[a].op.job} : sure'[k] = sure[k]
  BY FinishFacts
<1>3. \A k : k # adm[a].op.job => OpsOn(k)' = OpsOn(k)
  BY <1>1, <1>2
<1> QED BY <1>2, <1>3 DEF StepOn, OnlyJob

LEMMA ContinueStep ==
    ASSUME CronTypeOK, NEW a \in Admins, adm[a].pc = "idle", NEW o \in Ops, NEW l \in Pcs,
           Continue(a, o, l), OnlyJob(o.job), OnlyEntriesOf(o.job)
    PROVE  StepOn(o.job, a)
BY ContinueFacts DEF StepOn, OnlyJob

JobsType == jobs \in [Jobs -> JobRecs]
RunType ==
    run \in [Runs -> [job : Jobs \cup {Nil}, wait : {"idle", "fired", "waiting"},
                      limited : BOOLEAN, work : {"none", "start", "turn", "send"},
                      locked : BOOLEAN]]

LEMMA TypeParts ==
    CronTypeOK <=> /\ JobsType /\ EntryType /\ RunType
                   /\ adm \in [Admins -> {Resting} \cup AdmRecs]
                   /\ sure \in [Jobs -> BOOLEAN]
BY DEF CronTypeOK, JobsType, EntryType, RunType, JobRecs, AdmRecs, Pcs

LEMMA JobStep ==
    ASSUME CronInv, NEW j \in Jobs, NEW a \in Admins, StepOn(j, a),
           JobsType', EntryType', UNCHANGED run,
           adm' \in [Admins -> {Resting} \cup AdmRecs], sure' \in [Jobs -> BOOLEAN],
           OneEntry', Distinct', CurrentAt(j)', SureAt(j)', AloneAt(a)',
           adm'[a].pc \in {"found", "update"} =>
              adm'[a].op.op \in {"setexpr", "setenabled", "badtype"}
    PROVE  CronInv'
<1>1. CronTypeOK'
  <2>1. RunType'
    BY TypeParts DEF CronInv, RunType
  <2> QED BY <2>1 DEF CronTypeOK, JobsType, EntryType, RunType, JobRecs, AdmRecs, Pcs
<1>2. Updates'
  BY DEF CronInv, Updates, StepOn
<1>3. \A k \in Jobs : CurrentAt(k)' /\ SureAt(k)'
  BY OtherJobs
<1>4. \A b \in Admins : AloneAt(b)'
  BY OtherJobs
<1> QED BY <1>1, <1>2, <1>3, <1>4 DEF CronInv

(* A change of the record of j.                                            *)
LEMMA JobFacts ==
    ASSUME JobsType, NEW j \in Jobs
    PROVE  /\ jobs[j].state \in {"new", "stored", "gone"} /\ jobs[j].enabled \in BOOLEAN
           /\ \A c \in JobRecs : jobs' = [jobs EXCEPT ![j] = c]
                 => JobsType' /\ OnlyJob(j) /\ jobs'[j] = c
           /\ \A e \in BOOLEAN : SetEnabled(j, e)
                 => /\ JobsType' /\ OnlyJob(j) /\ jobs'[j].enabled = e
                    /\ Stored(j)' <=> Stored(j)
           /\ \A x \in Exprs : jobs' = [jobs EXCEPT ![j].expr = x]
                 => /\ JobsType' /\ OnlyJob(j) /\ jobs'[j].enabled = jobs[j].enabled
                    /\ Stored(j)' <=> Stored(j)
           /\ jobs' = [jobs EXCEPT ![j].state = "gone"]
                 => JobsType' /\ OnlyJob(j) /\ ~Stored(j)'
           /\ UNCHANGED jobs => JobsType' /\ \A k : OnlyJob(k)
<1> DEFINE c == jobs[j]
<1>1. c \in JobRecs
  BY DEF JobsType
<1>2. \A d \in JobRecs : jobs' = [jobs EXCEPT ![j] = d]
        => JobsType' /\ OnlyJob(j) /\ jobs'[j] = d
  BY DEF JobsType, OnlyJob
<1>3. /\ c.state \in {"new", "stored", "gone"} /\ c.enabled \in BOOLEAN
      /\ \A e \in BOOLEAN : LET d == [c EXCEPT !.enabled = e]
                            IN  d \in JobRecs /\ d.enabled = e /\ d.state = c.state
      /\ \A x \in Exprs : LET d == [c EXCEPT !.expr = x]
                          IN  d \in JobRecs /\ d.enabled = c.enabled /\ d.state = c.state
      /\ LET d == [c EXCEPT !.state = "gone"] IN d \in JobRecs /\ d.state = "gone"
  <2> HIDE DEF c
  <2> QED BY <1>1 DEF JobRecs
<1>4. ASSUME NEW e \in BOOLEAN, SetEnabled(j, e)
      PROVE  /\ JobsType' /\ OnlyJob(j) /\ jobs'[j].enabled = e
             /\ Stored(j)' <=> Stored(j)
  <2> DEFINE d == [c EXCEPT !.enabled = e]
  <2>1. jobs' = [jobs EXCEPT ![j] = d]
    BY <1>4 DEF SetEnabled
  <2>2. d \in JobRecs /\ d.enabled = e /\ d.state = c.state
    BY <1>3
  <2> HIDE DEF d
  <2> QED BY <1>2, <2>1, <2>2 DEF Stored
<1>5. ASSUME NEW x \in Exprs, jobs' = [jobs EXCEPT ![j].expr = x]
      PROVE  /\ JobsType' /\ OnlyJob(j) /\ jobs'[j].enabled = jobs[j].enabled
             /\ Stored(j)' <=> Stored(j)
  <2> DEFINE d == [c EXCEPT !.expr = x]
  <2>1. jobs' = [jobs EXCEPT ![j] = d]
    BY <1>5
  <2>2. d \in JobRecs /\ d.enabled = c.enabled /\ d.state = c.state
    BY <1>3
  <2> HIDE DEF d
  <2> QED BY <1>2, <2>1, <2>2 DEF Stored
<1>6. ASSUME jobs' = [jobs EXCEPT ![j].state = "gone"]
      PROVE  JobsType' /\ OnlyJob(j) /\ ~Stored(j)'
  <2> DEFINE d == [c EXCEPT !.state = "gone"]
  <2>1. jobs' = [jobs EXCEPT ![j] = d]
    BY <1>6
  <2>2. d \in JobRecs /\ d.state = "gone"
    BY <1>3
  <2> HIDE DEF d
  <2> QED BY <1>2, <2>1, <2>2 DEF Stored
<1>7. UNCHANGED jobs => JobsType' /\ \A k : OnlyJob(k)
  BY DEF JobsType, OnlyJob
<1> QED BY <1>2, <1>3, <1>4, <1>5, <1>6, <1>7

-----------------------------------------------------------------------------
(* What is left to show of a step that begins, continues or ends an        *)
(* operation.                                                              *)

LEMMA ContinueEnd ==
    ASSUME CronInv, NEW a \in Admins, adm[a].pc = "idle", NEW o \in Ops, NEW l \in Pcs,
           Continue(a, o, l), UNCHANGED run,
           JobsType', EntryType', OneEntry', Distinct', OnlyJob(o.job), OnlyEntriesOf(o.job),
           CurrentAt(o.job)', OpsOn(o.job) = {} => Done(l, o)',
           l \in {"found", "update"} => o.op \in {"setexpr", "setenabled", "badtype"}
    PROVE  CronInv'
<1>1. CronTypeOK /\ o.job \in Jobs
  BY OpFacts DEF CronInv
<1>2. /\ adm' \in [Admins -> {Resting} \cup AdmRecs] /\ sure' \in [Jobs -> BOOLEAN]
      /\ adm'[a].pc = l /\ adm'[a].op = o /\ (adm'[a].alone <=> OpsOn(o.job) = {})
      /\ OpsOn(o.job)' = OpsOn(o.job) \cup {a}
  <2>1. \A j : OpsOn(j)' = IF j = o.job THEN OpsOn(j) \cup {a} ELSE OpsOn(j)
    BY <1>1, ContinueFacts
  <2>2. /\ adm' \in [Admins -> {Resting} \cup AdmRecs] /\ sure' \in [Jobs -> BOOLEAN]
        /\ adm'[a].pc = l /\ adm'[a].op = o
    BY <1>1, ContinueFacts
  <2>3. adm'[a].alone <=> OpsOn(o.job) = {}
    BY <1>1, ContinueFacts, Zenon
  <2> QED BY <2>1, <2>2, <2>3
<1>3. StepOn(o.job, a)
  BY <1>1, ContinueStep
<1>4. SureAt(o.job)'
  BY <1>2 DEF SureAt
<1>5. AloneAt(a)'
  BY <1>2 DEF AloneAt, Done
<1> QED BY <1>1, <1>2, <1>3, <1>4, <1>5, JobStep

LEMMA GotoEnd ==
    ASSUME CronInv, NEW a \in Admins, NEW l \in Pcs, adm[a].pc # "idle", Goto(a, l), UNCHANGED run,
           NEW o \in Ops, o = adm[a].op, NEW j \in Jobs, j = o.job,
           JobsType', EntryType', OneEntry', Distinct', OnlyJob(j), OnlyEntriesOf(j),
           CurrentAt(j)', adm[a].alone => Done(l, o)',
           l \in {"found", "update"} => adm[a].pc \in {"found", "update"}
    PROVE  CronInv'
<1>1. CronTypeOK /\ AloneAt(a)
  BY DEF CronInv
<1>2. /\ adm' \in [Admins -> {Resting} \cup AdmRecs] /\ sure' \in [Jobs -> BOOLEAN]
      /\ adm'[a].pc = l /\ adm'[a].op = adm[a].op /\ adm'[a].alone = adm[a].alone
      /\ OpsOn(j)' = OpsOn(j)
  BY <1>1, GotoFacts DEF CronTypeOK
<1>3. StepOn(j, a)
  BY <1>1, GotoStep
<1>4. SureAt(j)'
  <2>1. a \in OpsOn(j)
    BY OpsFacts
  <2> QED BY <1>2, <2>1 DEF SureAt
<1>5. AloneAt(a)'
  BY <1>1, <1>2 DEF AloneAt, Done
<1>6. adm'[a].pc \in {"found", "update"} =>
         adm'[a].op.op \in {"setexpr", "setenabled", "badtype"}
  BY <1>2 DEF CronInv, Updates
<1> QED BY <1>2, <1>3, <1>4, <1>5, <1>6, JobStep

LEMMA FinishEnd ==
    ASSUME CronInv, NEW a \in Admins, adm[a].pc # "idle", NEW ok \in BOOLEAN, Finish(a, ok),
           UNCHANGED run, NEW j \in Jobs, j = adm[a].op.job,
           JobsType', EntryType', OneEntry', Distinct', OnlyJob(j), OnlyEntriesOf(j),
           CurrentAt(j)', adm[a].alone /\ ok => (Scheduled(j)' <=> Stored(j)' /\ jobs'[j].enabled)
    PROVE  CronInv'
<1>1. CronTypeOK
  BY DEF CronInv
<1>2. /\ adm' \in [Admins -> {Resting} \cup AdmRecs] /\ sure' \in [Jobs -> BOOLEAN]
      /\ adm'[a].pc = "idle" /\ sure'[j] = (adm[a].alone /\ ok)
  BY <1>1, FinishFacts
<1>3. StepOn(j, a)
  BY <1>1, FinishStep
<1>4. SureAt(j)'
  BY <1>2 DEF SureAt
<1>5. AloneAt(a)'
  BY <1>2 DEF AloneAt
<1> QED BY <1>2, <1>3, <1>4, <1>5, JobStep

(* An entry that was outdated before may still be, if those who are on     *)
(* their way to schedule the job still are.                                *)
LEMMA StillCurrent ==
    ASSUME CronInv, NEW j \in Jobs, UNCHANGED <<jobs, live>>,
           \A b \in OpsOn(j) : adm[b].pc \in {"look", "schedule"}
                                  => b \in OpsOn(j)' /\ adm'[b].pc = adm[b].pc
    PROVE  CurrentAt(j)'
BY DEF CronInv, CurrentAt, Stored

-----------------------------------------------------------------------------
(* The operations                                                          *)

LEMMA Parts ==
    ASSUME CronInv
    PROVE  CronTypeOK /\ OneEntry /\ Distinct /\ JobsType
BY DEF CronInv, CronTypeOK, JobsType, JobRecs

LEMMA AddStep ==
    ASSUME CronInv, NEW a \in Admins, AddJob(a)
    PROVE  CronInv'
<1>1. PICK o \in Ops :
        /\ o.op = "add"
        /\ jobs' = [jobs EXCEPT ![o.job] = [state |-> "stored", enabled |-> TRUE, expr |-> o.arg]]
        /\ Continue(a, o, "schedule")
  BY DEF AddJob
<1>2. adm[a].pc = "idle" /\ UNCHANGED <<entries, live, run>>
  BY DEF AddJob, At
<1> DEFINE j == o.job
           c == [state |-> "stored", enabled |-> TRUE, expr |-> o.arg]
<1>3. j \in Jobs /\ c \in JobRecs /\ c.state = "stored" /\ c.enabled
  BY <1>1, OpFacts DEF JobRecs
<1> HIDE DEF c
<1>4. JobsType' /\ OnlyJob(j) /\ jobs'[j] = c
  BY <1>1, <1>3, JobFacts, Parts DEF c
<1>5. EntryType' /\ OneEntry' /\ Distinct' /\ OnlyEntriesOf(j)
  BY <1>2, Parts, SameEntries
<1>6. OpsOn(j)' = OpsOn(j) \cup {a} /\ adm'[a].pc = "schedule"
  BY <1>1, <1>2, Parts, ContinueFacts DEF Pcs
<1>7. CurrentAt(j)'
  BY <1>6 DEF CurrentAt
<1>8. Done("schedule", o)'
  BY <1>3, <1>4 DEF Done, Stored
<1> QED BY <1>1, <1>2, <1>4, <1>5, <1>7, <1>8, ContinueEnd DEF Pcs

LEMMA ToggleStep ==
    ASSUME CronInv, NEW a \in Admins, Toggle(a)
    PROVE  CronInv'
<1>1. PICK o \in Ops :
        /\ o.op \in {"enable", "disable"} /\ Stored(o.job)
        /\ SetEnabled(o.job, o.op = "enable")
        /\ Continue(a, o, IF o.op = "enable" THEN "look" ELSE "unschedule")
  BY DEF Toggle
<1>2. adm[a].pc = "idle" /\ UNCHANGED <<entries, live, run>>
  BY DEF Toggle, At
<1> DEFINE j == o.job
           e == o.op = "enable"
           l == IF e THEN "look" ELSE "unschedule"
<1>3. j \in Jobs /\ e \in BOOLEAN /\ l \in Pcs
  BY OpFacts DEF Pcs
<1>4. /\ JobsType' /\ OnlyJob(j) /\ jobs'[j].enabled = e
      /\ Stored(j)' <=> Stored(j)
  BY <1>1, <1>3, JobFacts, Parts
<1>5. EntryType' /\ OneEntry' /\ Distinct' /\ OnlyEntriesOf(j)
  BY <1>2, Parts, SameEntries
<1>6. OpsOn(j)' = OpsOn(j) \cup {a} /\ adm'[a].pc = l
  BY <1>1, <1>2, <1>3, Parts, ContinueFacts
<1>7. CurrentAt(j)'
  BY <1>4, <1>6 DEF CurrentAt
<1>8. Done(l, o)'
  BY <1>1, <1>4 DEF Done
<1> QED BY <1>1, <1>2, <1>3, <1>4, <1>5, <1>7, <1>8, ContinueEnd

LEMMA RemoveStep ==
    ASSUME CronInv, NEW a \in Admins, RemoveJob(a)
    PROVE  CronInv'
<1>1. PICK o \in Ops :
        o.op = "remove" /\ UnscheduleJob(o.job) /\ Continue(a, o, "remove")
  BY DEF RemoveJob
<1>2. adm[a].pc = "idle" /\ UNCHANGED <<jobs, run>>
  BY DEF RemoveJob, At
<1>3. o.job \in Jobs
  BY OpFacts
<1>4. EntryType' /\ OneEntry' /\ Distinct' /\ OnlyEntriesOf(o.job) /\ Without(o.job)'
  BY <1>1, <1>3, Parts, UnscheduleFacts
<1>5. JobsType' /\ OnlyJob(o.job)
  BY <1>2, <1>3, JobFacts, Parts
<1>6. CurrentAt(o.job)'
  BY <1>4 DEF CurrentAt, Without
<1>7. Done("remove", o)'
  BY <1>4 DEF Done
<1> QED BY <1>1, <1>2, <1>4, <1>5, <1>6, <1>7, ContinueEnd DEF Pcs

LEMMA UpdateJobStep ==
    ASSUME CronInv, NEW a \in Admins, UpdateJob(a)
    PROVE  CronInv'
<1>1. PICK o \in Ops :
        /\ o.op \in {"setexpr", "setenabled", "badtype"} /\ Stored(o.job)
        /\ Continue(a, o, "found")
  BY DEF UpdateJob
<1>2. adm[a].pc = "idle" /\ UNCHANGED <<jobs, entries, live, run>>
  BY DEF UpdateJob, At
<1>3. o.job \in Jobs
  BY OpFacts
<1>4. EntryType' /\ OneEntry' /\ Distinct' /\ OnlyEntriesOf(o.job)
  BY <1>2, Parts, SameEntries
<1>5. JobsType' /\ OnlyJob(o.job)
  BY <1>2, <1>3, JobFacts, Parts
<1>6. CurrentAt(o.job)'
  <2>1. OpsOn(o.job) \subseteq OpsOn(o.job)' /\ \A b \in Admins \ {a} : adm'[b].pc = adm[b].pc
    BY <1>1, <1>2, Parts, ContinueFacts DEF Pcs
  <2>2. \A b \in OpsOn(o.job) : b \in Admins \ {a}
    BY <1>2, OpsFacts
  <2> QED BY <1>2, <1>3, <2>1, <2>2, StillCurrent
<1>7. Done("found", o)'
  BY <1>1, <1>2 DEF Done, Stored
<1> QED BY <1>1, <1>2, <1>4, <1>5, <1>6, <1>7, ContinueEnd DEF Pcs

(* The operation a is in the middle of.                                    *)
LEMMA Midway ==
    ASSUME CronInv, NEW a \in Admins, adm[a].pc # "idle"
    PROVE  \E o \in Ops, j \in Jobs :
              /\ o = adm[a].op /\ j = o.job /\ a \in OpsOn(j)
              /\ adm[a].alone => Done(adm[a].pc, o)
<1>1. adm[a].op \in Ops /\ adm[a].op.job \in Jobs /\ a \in OpsOn(adm[a].op.job)
  BY Parts, AdmFacts, OpsFacts
<1>2. adm[a].alone => Done(adm[a].pc, adm[a].op)
  BY DEF CronInv, AloneAt
<1> QED BY <1>1, <1>2

LEMMA RemoveStoredStep ==
    ASSUME CronInv, NEW a \in Admins, RemoveStored(a)
    PROVE  CronInv'
<1>0. PICK o \in Ops, j \in Jobs :
        o = adm[a].op /\ j = o.job /\ a \in OpsOn(j) /\ (adm[a].alone => Done(adm[a].pc, o))
  BY Midway DEF RemoveStored, At
<1>1. /\ adm[a].pc = "remove" /\ jobs' = [jobs EXCEPT ![j].state = "gone"]
      /\ Finish(a, TRUE) /\ UNCHANGED <<entries, live, run>>
  BY <1>0 DEF RemoveStored, At
<1>2. j \in Jobs /\ (adm[a].alone => Without(j))
  BY <1>0, <1>1 DEF Done
<1>3. JobsType' /\ OnlyJob(j) /\ ~Stored(j)'
  BY <1>0, <1>1, <1>2, JobFacts, Parts
<1>4. EntryType' /\ OneEntry' /\ Distinct' /\ OnlyEntriesOf(j) /\ (Without(j)' <=> Without(j))
  BY <1>0, <1>1, Parts, SameEntries
<1>5. CurrentAt(j)'
  BY <1>3 DEF CurrentAt
<1>6. adm[a].alone => ~Scheduled(j)'
  BY <1>2, <1>4 DEF Scheduled, Without
<1> QED BY <1>0, <1>1, <1>2, <1>3, <1>4, <1>5, <1>6, FinishEnd

LEMMA UpdateUnschedulesStep ==
    ASSUME CronInv, NEW a \in Admins, UpdateUnschedules(a)
    PROVE  CronInv'
<1>0. PICK o \in Ops, j \in Jobs :
        o = adm[a].op /\ j = o.job /\ a \in OpsOn(j) /\ (adm[a].alone => Done(adm[a].pc, o))
  BY Midway DEF UpdateUnschedules, At
<1>1. /\ adm[a].pc = "found" /\ UnscheduleJob(j) /\ Goto(a, "update") /\ UNCHANGED <<jobs, run>>
  BY <1>0 DEF UpdateUnschedules, At
<1>2. j \in Jobs /\ (adm[a].alone => Stored(j))
  BY <1>0, <1>1 DEF Done
<1>3. EntryType' /\ OneEntry' /\ Distinct' /\ OnlyEntriesOf(j) /\ Without(j)'
  BY <1>0, <1>1, <1>2, Parts, UnscheduleFacts
<1>4. JobsType' /\ OnlyJob(j) /\ (Stored(j)' <=> Stored(j))
  BY <1>0, <1>1, <1>2, JobFacts, Parts DEF Stored
<1>5. CurrentAt(j)'
  BY <1>3 DEF CurrentAt, Without
<1>6. adm'[a].op = o
  BY <1>0, <1>1, Parts, GotoFacts DEF Pcs
<1>7. adm[a].alone => Done("update", o)'
  BY <1>0, <1>2, <1>3, <1>4, <1>6 DEF Done
<1> QED BY <1>0, <1>1, <1>2, <1>3, <1>4, <1>5, <1>7, GotoEnd DEF Pcs

LEMMA UpdateFailsStep ==
    ASSUME CronInv, NEW a \in Admins, UpdateFails(a)
    PROVE  CronInv'
<1>0. PICK o \in Ops, j \in Jobs :
        o = adm[a].op /\ j = o.job /\ a \in OpsOn(j) /\ (adm[a].alone => Done(adm[a].pc, o))
  BY Midway DEF UpdateFails, At
<1>1. adm[a].pc = "update" /\ Finish(a, FALSE) /\ UNCHANGED <<jobs, entries, live, run>>
  BY <1>0 DEF UpdateFails, At
<1>2. j \in Jobs
  BY <1>0
<1>3. EntryType' /\ OneEntry' /\ Distinct' /\ OnlyEntriesOf(j)
  BY <1>0, <1>1, Parts, SameEntries
<1>4. JobsType' /\ OnlyJob(j)
  BY <1>0, <1>1, <1>2, JobFacts, Parts
<1>5. CurrentAt(j)'
  <2>1. /\ \A b \in Admins \ {a} : adm'[b] = adm[b]
        /\ OpsOn(j)' = OpsOn(j) \ {a}
    BY <1>0, <1>1, Parts, FinishFacts
  <2>2. \A b \in OpsOn(j) : adm[b].pc \in {"look", "schedule"} => b \in Admins \ {a}
    BY <1>0, <1>1, OpsFacts
  <2> QED BY <1>0, <1>1, <1>2, <2>1, <2>2, StillCurrent
<1> QED BY <1>0, <1>1, <1>2, <1>3, <1>4, <1>5, FinishEnd

LEMMA UpdateStep ==
    ASSUME CronInv, NEW a \in Admins, Update(a)
    PROVE  CronInv'
<1>0. PICK o \in Ops, j \in Jobs :
        o = adm[a].op /\ j = o.job /\ a \in OpsOn(j) /\ (adm[a].alone => Done(adm[a].pc, o))
  BY Midway DEF Update, At
<1>1. /\ adm[a].pc = "update" /\ o.op # "badtype" /\ Stored(j)
      /\ IF o.op = "setexpr" THEN jobs' = [jobs EXCEPT ![j].expr = o.arg]
         ELSE SetEnabled(j, o.arg)
      /\ Goto(a, "look") /\ UNCHANGED <<entries, live, run>>
  BY <1>0 DEF Update, At
<1>2. /\ o \in Ops /\ j \in Jobs /\ a \in OpsOn(j) /\ (adm[a].alone => Without(j))
      /\ o.op \in {"setexpr", "setenabled"}
  BY <1>0, <1>1 DEF Done, CronInv, Updates
<1>3. JobsType' /\ OnlyJob(j) /\ (Stored(j)' <=> Stored(j))
  <2>1. CASE o.op = "setexpr"
    BY <1>0, <1>1, <1>2, <2>1, OpFacts, JobFacts, Parts
  <2>2. CASE o.op = "setenabled"
    BY <1>0, <1>1, <1>2, <2>2, OpFacts, JobFacts, Parts
  <2> QED BY <1>2, <2>1, <2>2
<1>4. EntryType' /\ OneEntry' /\ Distinct' /\ OnlyEntriesOf(j) /\ (Without(j)' <=> Without(j))
  BY <1>0, <1>1, Parts, SameEntries
<1>5. adm'[a].op = o /\ adm'[a].pc = "look" /\ OpsOn(j)' = OpsOn(j)
  BY <1>0, <1>1, Parts, GotoFacts DEF Pcs
<1>6. CurrentAt(j)'
  BY <1>2, <1>5 DEF CurrentAt
<1>7. adm[a].alone => Done("look", o)'
  BY <1>0, <1>1, <1>2, <1>3, <1>4, <1>5 DEF Done
<1> QED BY <1>0, <1>1, <1>2, <1>3, <1>4, <1>6, <1>7, GotoEnd DEF Pcs

LEMMA LookStep ==
    ASSUME CronInv, NEW a \in Admins, Look(a)
    PROVE  CronInv'
<1>0. PICK o \in Ops, j \in Jobs :
        o = adm[a].op /\ j = o.job /\ a \in OpsOn(j) /\ (adm[a].alone => Done(adm[a].pc, o))
  BY Midway DEF Look, At
<1> DEFINE go == Stored(j) /\ (o.op = "enable" \/ jobs[j].enabled)
<1>1. /\ adm[a].pc = "look" /\ UNCHANGED <<jobs, entries, live, run>>
      /\ IF go THEN Goto(a, "schedule") ELSE Finish(a, TRUE)
  BY <1>0 DEF Look, At
<1>2. /\ o \in Ops /\ j \in Jobs /\ a \in OpsOn(j)
      /\ adm[a].alone => /\ Stored(j)
                         /\ IF o.op = "enable" THEN jobs[j].enabled ELSE Without(j)
  BY <1>0, <1>1 DEF Done
<1>3. JobsType' /\ OnlyJob(j) /\ (Stored(j)' <=> Stored(j))
  BY <1>0, <1>1, <1>2, JobFacts, Parts DEF Stored
<1>4. EntryType' /\ OneEntry' /\ Distinct' /\ OnlyEntriesOf(j) /\ (Without(j)' <=> Without(j))
  BY <1>0, <1>1, Parts, SameEntries
<1>5. CASE go
  <2>1. Goto(a, "schedule") /\ "schedule" \in Pcs
    BY <1>0, <1>1, <1>5 DEF Pcs
  <2>2. adm'[a].op = o /\ adm'[a].pc = "schedule" /\ OpsOn(j)' = OpsOn(j)
    BY <1>0, <1>1, <2>1, Parts, GotoFacts
  <2>3. CurrentAt(j)'
    BY <1>2, <2>2 DEF CurrentAt
  <2>4. adm[a].alone => Done("schedule", o)'
    BY <1>0, <1>1, <1>2, <1>3, <1>5, <2>2 DEF Done
  <2> QED BY <1>0, <1>1, <1>2, <1>3, <1>4, <2>1, <2>3, <2>4, GotoEnd
<1>6. CASE ~go
  <2>1. Finish(a, TRUE)
    BY <1>0, <1>1, <1>6
  <2>2. ~(Stored(j)' /\ jobs'[j].enabled)
    BY <1>0, <1>1, <1>3, <1>6
  <2>3. CurrentAt(j)'
    BY <2>2 DEF CurrentAt
  <2>4. adm[a].alone => ~Scheduled(j)'
    BY <1>2, <1>4, <1>6 DEF Scheduled, Without
  <2> QED BY <1>0, <1>1, <1>2, <1>3, <1>4, <2>1, <2>2, <2>3, <2>4, FinishEnd
<1> QED BY <1>5, <1>6

LEMMA ScheduleStep ==
    ASSUME CronInv, NEW a \in Admins, Schedule(a)
    PROVE  CronInv'
<1>0. PICK o \in Ops, j \in Jobs :
        o = adm[a].op /\ j = o.job /\ a \in OpsOn(j) /\ (adm[a].alone => Done(adm[a].pc, o))
  BY Midway DEF Schedule, At
<1>1. adm[a].pc = "schedule" /\ ScheduleJob(j) /\ Finish(a, TRUE) /\ UNCHANGED <<jobs, run>>
  BY <1>0 DEF Schedule, At
<1>2. j \in Jobs /\ (adm[a].alone => Stored(j) /\ jobs[j].enabled)
  BY <1>0, <1>1 DEF Done
<1>3. /\ EntryType' /\ OneEntry' /\ Distinct' /\ OnlyEntriesOf(j)
      /\ \A x \in live' : x.job = j => x.expr = jobs[j].expr
      /\ \E x \in live' : x.id = entries'[j] /\ x.job = j
  BY <1>0, <1>1, <1>2, Parts, ScheduleFacts
<1>4. JobsType' /\ OnlyJob(j)
  BY <1>0, <1>1, <1>2, JobFacts, Parts
<1>5. CurrentAt(j)'
  BY <1>0, <1>1, <1>3 DEF CurrentAt
<1>6. Scheduled(j)'
  BY <1>3 DEF Scheduled
<1>7. adm[a].alone => Stored(j)' /\ jobs'[j].enabled
  BY <1>0, <1>1, <1>2 DEF Stored
<1> QED BY <1>0, <1>1, <1>2, <1>3, <1>4, <1>5, <1>6, <1>7, FinishEnd

LEMMA UnscheduleStep ==
    ASSUME CronInv, NEW a \in Admins, Unschedule(a)
    PROVE  CronInv'
<1>0. PICK o \in Ops, j \in Jobs :
        o = adm[a].op /\ j = o.job /\ a \in OpsOn(j) /\ (adm[a].alone => Done(adm[a].pc, o))
  BY Midway DEF Unschedule, At
<1>1. adm[a].pc = "unschedule" /\ UnscheduleJob(j) /\ Finish(a, TRUE) /\ UNCHANGED <<jobs, run>>
  BY <1>0 DEF Unschedule, At
<1>2. j \in Jobs /\ (adm[a].alone => ~jobs[j].enabled)
  BY <1>0, <1>1 DEF Done
<1>3. EntryType' /\ OneEntry' /\ Distinct' /\ OnlyEntriesOf(j) /\ Without(j)'
  BY <1>0, <1>1, <1>2, Parts, UnscheduleFacts
<1>4. JobsType' /\ OnlyJob(j)
  BY <1>0, <1>1, <1>2, JobFacts, Parts
<1>5. CurrentAt(j)' /\ ~Scheduled(j)'
  BY <1>3 DEF CurrentAt, Scheduled, Without
<1>6. adm[a].alone => ~jobs'[j].enabled
  BY <1>0, <1>1, <1>2
<1> QED BY <1>0, <1>1, <1>2, <1>3, <1>4, <1>5, <1>6, FinishEnd

LEMMA AdminSteps ==
    ASSUME CronInv, NEW a \in Admins,
           AddJob(a) \/ Toggle(a) \/ RemoveJob(a) \/ UpdateJob(a) \/ AdminStep(a)
    PROVE  CronInv'
BY AddStep, ToggleStep, RemoveStep, UpdateJobStep, RemoveStoredStep, UpdateUnschedulesStep,
   UpdateFailsStep, UpdateStep, LookStep, ScheduleStep, UnscheduleStep DEF AdminStep

-----------------------------------------------------------------------------
(* A start of the program                                                  *)

LEMMA StartFacts ==
    ASSUME JobsType
    PROVE  /\ StartEntries \in [Jobs -> Ids \cup {Nil}]
           /\ StartLive \subseteq [id : Ids, job : Jobs, expr : Exprs]
           /\ \A x \in StartLive : StartEntries[x.job] = x.id /\ x.expr = jobs[x.job].expr
           /\ \A j, k \in Jobs : j # k => StartEntries[j] = Nil \/ StartEntries[j] # StartEntries[k]
           /\ \A j \in Jobs : (\E x \in StartLive : x.id = StartEntries[j] /\ x.job = j)
                               <=> Stored(j) /\ jobs[j].enabled
<1> DEFINE P(f) == \A j, k \in Jobs : f[j] = f[k] => j = k
           ids == StartIds
           e(j) == [id |-> ids[j], job |-> j, expr |-> jobs[j].expr]
<1>1. ids \in [Jobs -> Ids] /\ P(ids)
  <2>1. \E f \in [Jobs -> Ids] : P(f)
    BY CronAssumption
  <2>2. ids = CHOOSE f \in [Jobs -> Ids] : P(f)
    BY DEF StartIds
  <2> HIDE DEF P, ids
  <2> QED BY <2>1, <2>2
<1>2. StartEntries = [j \in Jobs |-> IF j \in StartJobs THEN ids[j] ELSE Nil]
      /\ StartLive = {e(j) : j \in StartJobs}
  BY DEF StartEntries, StartLive
<1> HIDE DEF ids
<1>3. \A j \in Jobs : j \in StartJobs <=> Stored(j) /\ jobs[j].enabled
  BY DEF StartJobs
<1>4. StartJobs \subseteq Jobs
  BY DEF StartJobs
<1>5. \A j \in StartJobs : /\ e(j) \in [id : Ids, job : Jobs, expr : Exprs]
                          /\ e(j).id = ids[j] /\ e(j).job = j /\ e(j).expr = jobs[j].expr
  BY <1>1, <1>4 DEF JobsType, JobRecs
<1> HIDE DEF e
<1>6. StartEntries \in [Jobs -> Ids \cup {Nil}]
  BY <1>1, <1>2
<1>7. StartLive \subseteq [id : Ids, job : Jobs, expr : Exprs]
  BY <1>2, <1>5
<1>8. \A x \in StartLive : StartEntries[x.job] = x.id /\ x.expr = jobs[x.job].expr
  BY <1>2, <1>4, <1>5
<1>9. \A j, k \in Jobs : j # k => StartEntries[j] = Nil \/ StartEntries[j] # StartEntries[k]
  <2>1. Nil \notin Ids
    BY CronAssumption
  <2>2. ASSUME NEW j \in Jobs, NEW k \in Jobs, j # k
        PROVE  StartEntries[j] = Nil \/ StartEntries[j] # StartEntries[k]
    <3>1. StartEntries[j] = (IF j \in StartJobs THEN ids[j] ELSE Nil)
          /\ StartEntries[k] = (IF k \in StartJobs THEN ids[k] ELSE Nil)
      BY <1>2
    <3>2. ids[j] # ids[k] /\ ids[j] \in Ids
      BY <1>1, <2>2
    <3> QED BY <2>1, <3>1, <3>2
  <2> QED BY <2>2
<1>10. ASSUME NEW j \in Jobs
       PROVE  (\E x \in StartLive : x.id = StartEntries[j] /\ x.job = j) <=> j \in StartJobs
  <2>1. ASSUME NEW x \in StartLive, x.job = j PROVE j \in StartJobs
    BY <1>2, <1>5, <2>1
  <2>2. ASSUME j \in StartJobs
        PROVE  e(j) \in StartLive /\ e(j).id = StartEntries[j] /\ e(j).job = j
    BY <1>2, <1>5, <2>2
  <2> QED BY <2>1, <2>2
<1> QED BY <1>3, <1>6, <1>7, <1>8, <1>9, <1>10

LEMMA Started ==
    ASSUME JobsType, RunType, entries = StartEntries, live = StartLive,
           adm = [a \in Admins |-> Resting], sure \in [Jobs -> BOOLEAN]
    PROVE  CronInv
<1>1. EntryType /\ OneEntry /\ Distinct
  BY StartFacts DEF EntryType, OneEntry, Distinct
<1>2. Resting.pc = "idle" /\ \A a \in Admins : adm[a] = Resting
  BY DEF Resting
<1>3. CronTypeOK
  BY <1>1, TypeParts
<1>4. Updates /\ \A a \in Admins : AloneAt(a)
  BY <1>2 DEF Updates, AloneAt
<1>5. ASSUME NEW j \in Jobs PROVE CurrentAt(j) /\ SureAt(j)
  BY StartFacts DEF CurrentAt, SureAt, Scheduled
<1> QED BY <1>1, <1>3, <1>4, <1>5 DEF CronInv

LEMMA CronStart ==
    ASSUME CronInit
    PROVE  CronInv
<1>1. JobsType
  <2>1. Loaded \subseteq JobRecs
    <3> DEFINE x == CHOOSE e \in Exprs : TRUE
    <3>1. x \in Exprs
      BY CronAssumption
    <3>2. Loaded = [state : {"stored"}, enabled : BOOLEAN, expr : {x}]
                     \cup {[state |-> "new", enabled |-> FALSE, expr |-> x]}
      BY DEF Loaded
    <3> HIDE DEF x
    <3>3. \A c \in [state : {"stored"}, enabled : BOOLEAN, expr : {x}] : c \in JobRecs
      BY <3>1 DEF JobRecs
    <3>4. [state |-> "new", enabled |-> FALSE, expr |-> x] \in JobRecs
      BY <3>1 DEF JobRecs
    <3> QED BY <3>2, <3>3, <3>4
  <2> QED BY <2>1 DEF CronInit, JobsType
<1>2. RunType
  BY DEF CronInit, RunType, NoRun
<1> QED BY <1>1, <1>2, Started DEF CronInit

LEMMA CronRestarted ==
    ASSUME CronInv, CronRestart
    PROVE  CronInv'
<1>1. /\ JobsType /\ UNCHANGED jobs /\ entries' = StartEntries /\ live' = StartLive
      /\ adm' = [a \in Admins |-> Resting] /\ sure' = [j \in Jobs |-> TRUE]
      /\ run' = [r \in Runs |-> NoRun]
  BY Parts DEF CronRestart
<1>2. EntryType' /\ OneEntry' /\ Distinct'
  BY <1>1, StartFacts DEF EntryType, OneEntry, Distinct
<1>3. Resting.pc = "idle" /\ \A a \in Admins : adm'[a] = Resting
  BY <1>1 DEF Resting
<1>4. CronTypeOK'
  <2>1. RunType'
    BY <1>1 DEF RunType, NoRun
  <2>2. JobsType'
    BY <1>1 DEF JobsType
  <2> QED BY <1>1, <1>2, <2>1, <2>2 DEF CronTypeOK, JobsType, EntryType, RunType, JobRecs, AdmRecs, Pcs
<1>5. Updates' /\ \A a \in Admins : AloneAt(a)'
  BY <1>3 DEF Updates, AloneAt
<1>6. ASSUME NEW j \in Jobs PROVE CurrentAt(j)' /\ SureAt(j)'
  BY <1>1, StartFacts DEF CurrentAt, SureAt, Scheduled, Stored
<1> QED BY <1>2, <1>4, <1>5, <1>6 DEF CronInv

-----------------------------------------------------------------------------
(* The Session                                                             *)

RunRecs == [job : Jobs \cup {Nil}, wait : {"idle", "fired", "waiting"},
            limited : BOOLEAN, work : {"none", "start", "turn", "send"}, locked : BOOLEAN]
BeatRecs == [ticked : BOOLEAN, wait : {"idle", "fired", "probe", "waiting"},
             work : {"none", "start", "turn", "send"}]

HoldsRun(c) == c.work = "turn" /\ c.locked
HoldsBeat(c) == c.wait = "probe" \/ c.work = "turn"

(* Only a turn holds the Session for a run, and an execution that has not  *)
(* started its goroutine has no turn yet.                                  *)
RunShape(c) == (c.locked => c.work = "turn") /\ (c.wait = "fired" => c.work = "none")
BeatShape(c) == c.wait \in {"fired", "probe"} => c.work = "none"
Shapes ==
    /\ \A r \in Runs : RunShape(run[r])
    /\ \A b \in Beats : BeatShape(beat[b])

SessionInv == busy \in BOOLEAN /\ OneHolder /\ Shapes /\ RunType /\ beat \in [Beats -> BeatRecs]

LEMMA RunRecFacts ==
    ASSUME NEW c \in RunRecs
    PROVE  /\ c.locked \in BOOLEAN
           /\ \A w \in {"none", "send", "turn"} :
                 LET d == [c EXCEPT !.work = w]
                 IN  d \in RunRecs /\ d.work = w /\ d.wait = c.wait /\ d.locked = c.locked
           /\ LET d == [c EXCEPT !.wait = "idle"]
              IN  d \in RunRecs /\ d.work = c.work /\ d.wait = "idle" /\ d.locked = c.locked
           /\ LET d == [c EXCEPT !.work = "turn", !.locked = TRUE]
              IN  d \in RunRecs /\ d.work = "turn" /\ d.wait = c.wait /\ d.locked
           /\ LET d == [c EXCEPT !.work = "send", !.locked = FALSE]
              IN  d \in RunRecs /\ d.work = "send" /\ d.wait = c.wait /\ ~d.locked
           /\ \A l \in BOOLEAN :
                 LET d == [c EXCEPT !.wait = "waiting", !.limited = l, !.work = "start"]
                 IN  d \in RunRecs /\ d.work = "start" /\ d.wait = "waiting" /\ d.locked = c.locked
<1> DEFINE e(w) == [c EXCEPT !.work = w]
<1>1. \A w \in {"none", "send", "turn"} :
         e(w) \in RunRecs /\ e(w).work = w /\ e(w).wait = c.wait /\ e(w).locked = c.locked
  BY DEF RunRecs
<1>2. ASSUME NEW d \in RunRecs
      PROVE  \A b \in BOOLEAN :
                LET f == [d EXCEPT !.locked = b]
                IN  f \in RunRecs /\ f.work = d.work /\ f.wait = d.wait /\ f.locked = b
  BY DEF RunRecs
<1>3. ASSUME NEW d \in RunRecs
      PROVE  \A w \in {"idle", "waiting"} :
                LET f == [d EXCEPT !.wait = w]
                IN  f \in RunRecs /\ f.work = d.work /\ f.wait = w /\ f.locked = d.locked
  BY DEF RunRecs
<1>4. ASSUME NEW d \in RunRecs, NEW l \in BOOLEAN
      PROVE  LET f == [d EXCEPT !.limited = l]
             IN  f \in RunRecs /\ f.wait = d.wait /\ f.locked = d.locked
  BY DEF RunRecs
<1>5. ASSUME NEW d \in RunRecs
      PROVE  LET f == [d EXCEPT !.work = "start"]
             IN  f \in RunRecs /\ f.work = "start" /\ f.wait = d.wait /\ f.locked = d.locked
  BY DEF RunRecs
<1>6. LET d == [c EXCEPT !.work = "turn", !.locked = TRUE]
      IN  d \in RunRecs /\ d.work = "turn" /\ d.wait = c.wait /\ d.locked
  <2> HIDE DEF e
  <2>1. LET f == [e("turn") EXCEPT !.locked = TRUE]
        IN  f \in RunRecs /\ f.work = "turn" /\ f.wait = c.wait /\ f.locked
    BY <1>1, <1>2
  <2> QED BY <2>1 DEF e
<1>7. LET d == [c EXCEPT !.work = "send", !.locked = FALSE]
      IN  d \in RunRecs /\ d.work = "send" /\ d.wait = c.wait /\ ~d.locked
  <2> HIDE DEF e
  <2>1. LET f == [e("send") EXCEPT !.locked = FALSE]
        IN  f \in RunRecs /\ f.work = "send" /\ f.wait = c.wait /\ ~f.locked
    BY <1>1, <1>2
  <2> QED BY <2>1 DEF e
<1>8. ASSUME NEW l \in BOOLEAN
      PROVE  LET d == [c EXCEPT !.wait = "waiting", !.limited = l, !.work = "start"]
             IN  d \in RunRecs /\ d.work = "start" /\ d.wait = "waiting" /\ d.locked = c.locked
  <2> DEFINE d1 == [c EXCEPT !.wait = "waiting"]
             d2 == [d1 EXCEPT !.limited = l]
             d3 == [d2 EXCEPT !.work = "start"]
  <2>1. d1 \in RunRecs /\ d1.wait = "waiting" /\ d1.locked = c.locked
    BY <1>3
  <2> HIDE DEF d1
  <2>2. d2 \in RunRecs /\ d2.wait = "waiting" /\ d2.locked = c.locked
    BY <1>4, <2>1
  <2> HIDE DEF d2
  <2>3. d3 \in RunRecs /\ d3.work = "start" /\ d3.wait = "waiting" /\ d3.locked = c.locked
    BY <1>5, <2>2
  <2> QED BY <2>3 DEF d1, d2
<1>9. c.locked \in BOOLEAN
  BY DEF RunRecs
<1>10. \A w \in {"none", "send", "turn"} :
          LET d == [c EXCEPT !.work = w]
          IN  d \in RunRecs /\ d.work = w /\ d.wait = c.wait /\ d.locked = c.locked
  BY <1>1
<1>11. LET d == [c EXCEPT !.wait = "idle"]
       IN  d \in RunRecs /\ d.work = c.work /\ d.wait = "idle" /\ d.locked = c.locked
  BY <1>3
<1> QED BY <1>6, <1>7, <1>8, <1>9, <1>10, <1>11, Zenon

LEMMA BeatRecFacts ==
    ASSUME NEW c \in BeatRecs
    PROVE  /\ \A w \in {"none", "send", "turn"} :
                 LET d == [c EXCEPT !.work = w]
                 IN  d \in BeatRecs /\ d.work = w /\ d.wait = c.wait
           /\ \A w \in {"idle", "probe"} :
                 LET d == [c EXCEPT !.wait = w]
                 IN  d \in BeatRecs /\ d.work = c.work /\ d.wait = w
           /\ LET d == [c EXCEPT !.wait = "waiting", !.work = "start"]
              IN  d \in BeatRecs /\ d.work = "start" /\ d.wait = "waiting"
<1>1. \A w \in {"none", "send", "turn"} :
         LET d == [c EXCEPT !.work = w]
         IN  d \in BeatRecs /\ d.work = w /\ d.wait = c.wait
  BY DEF BeatRecs
<1>2. \A w \in {"idle", "probe", "waiting"} :
         LET d == [c EXCEPT !.wait = w]
         IN  d \in BeatRecs /\ d.work = c.work /\ d.wait = w
  BY DEF BeatRecs
<1>3. ASSUME NEW d \in BeatRecs
      PROVE  LET f == [d EXCEPT !.work = "start"]
             IN  f \in BeatRecs /\ f.work = "start" /\ f.wait = d.wait
  BY DEF BeatRecs
<1>4. LET d == [c EXCEPT !.wait = "waiting", !.work = "start"]
      IN  d \in BeatRecs /\ d.work = "start" /\ d.wait = "waiting"
  <2> DEFINE d1 == [c EXCEPT !.wait = "waiting"]
  <2>1. d1 \in BeatRecs /\ d1.wait = "waiting"
    BY <1>2
  <2> HIDE DEF d1
  <2>2. LET f == [d1 EXCEPT !.work = "start"]
        IN  f \in BeatRecs /\ f.work = "start" /\ f.wait = "waiting"
    BY <1>3, <2>1
  <2> QED BY <2>2 DEF d1
<1>5. \A w \in {"idle", "probe"} :
         LET d == [c EXCEPT !.wait = w]
         IN  d \in BeatRecs /\ d.work = c.work /\ d.wait = w
  BY <1>2
<1> QED BY <1>1, <1>4, <1>5, Zenon

(* Who holds the Session, seen from a step of one run or one beat.         *)
LEMMA HolderFacts ==
    /\ Holders = {} <=> HeldByRun = {} /\ H!HeldByBeat = {}
    /\ \A r \in HeldByRun : <<"run", r>> \in Holders
    /\ \A b \in H!HeldByBeat : <<"beat", b>> \in Holders
<1>1. /\ \A r \in HeldByRun : <<"run", r>> \in Holders
      /\ \A b \in H!HeldByBeat : <<"beat", b>> \in Holders
  BY DEF Holders
<1>2. ASSUME HeldByRun = {}, H!HeldByBeat = {}
      PROVE  Holders = {}
  BY <1>2 DEF Holders
<1> QED BY <1>1, <1>2

LEMMA RunMoves ==
    ASSUME SessionInv, NEW r \in Runs, NEW c \in RunRecs, run' = [run EXCEPT ![r] = c],
           RunShape(c), UNCHANGED beat,
           \/ (HoldsRun(c) <=> HoldsRun(run[r])) /\ UNCHANGED busy
           \/ ~HoldsRun(run[r]) /\ HoldsRun(c) /\ ~busy /\ busy' = TRUE
           \/ HoldsRun(run[r]) /\ ~HoldsRun(c) /\ busy' = FALSE
    PROVE  SessionInv'
<1>1. /\ run \in [Runs -> RunRecs] /\ busy \in BOOLEAN /\ OneHolder /\ Shapes
      /\ beat \in [Beats -> BeatRecs]
  BY DEF SessionInv, RunType, RunRecs
<1>2. run' \in [Runs -> RunRecs] /\ run'[r] = c /\ \A q \in Runs \ {r} : run'[q] = run[q]
  BY <1>1
<1>3. RunType' /\ beat' \in [Beats -> BeatRecs] /\ busy' \in BOOLEAN
  BY <1>1, <1>2 DEF RunType, RunRecs
<1>4. Shapes'
  BY <1>1, <1>2 DEF Shapes
<1>5. H!HeldByBeat' = H!HeldByBeat
  BY DEF H!HeldByBeat
<1>6. r \in HeldByRun <=> HoldsRun(run[r])
  BY DEF HeldByRun, HoldsRun
<1>7. HeldByRun' = IF HoldsRun(c) THEN HeldByRun \cup {r} ELSE HeldByRun \ {r}
  BY <1>2 DEF HeldByRun, HoldsRun
<1>8. OneHolder'
  <2>1. CASE (HoldsRun(c) <=> HoldsRun(run[r])) /\ UNCHANGED busy
    <3>1. HeldByRun' = HeldByRun
      BY <1>6, <1>7, <2>1
    <3>2. Holders' = Holders
      BY <1>5, <3>1 DEF Holders
    <3> QED BY <1>1, <2>1, <3>2 DEF OneHolder
  <2>2. CASE ~HoldsRun(run[r]) /\ HoldsRun(c) /\ ~busy /\ busy' = TRUE
    <3>1. Holders = {}
      BY <1>1, <2>2 DEF OneHolder
    <3>2. HeldByRun = {} /\ H!HeldByBeat = {}
      BY <3>1, HolderFacts
    <3>3. HeldByRun' = {r} /\ H!HeldByBeat' = {}
      BY <1>5, <1>7, <2>2, <3>2
    <3>4. Holders' = {<<"run", r>>}
      BY <3>3 DEF Holders
    <3> QED BY <2>2, <3>4 DEF OneHolder
  <2>3. CASE HoldsRun(run[r]) /\ ~HoldsRun(c) /\ busy' = FALSE
    <3>1. <<"run", r>> \in Holders
      BY <1>6, <2>3, HolderFacts
    <3>2. Holders = {<<"run", r>>}
      BY <1>1, <3>1 DEF OneHolder
    <3>3. HeldByRun = {r} /\ H!HeldByBeat = {}
      <4>1. \A q \in HeldByRun : <<"run", q>> = <<"run", r>>
        BY <3>2, HolderFacts
      <4>2. \A b \in H!HeldByBeat : <<"beat", b>> = <<"run", r>>
        BY <3>2, HolderFacts
      <4> QED BY <1>6, <2>3, <4>1, <4>2
    <3>4. HeldByRun' = {} /\ H!HeldByBeat' = {}
      BY <1>5, <1>7, <2>3, <3>3
    <3>5. Holders' = {}
      BY <3>4 DEF Holders
    <3> QED BY <2>3, <3>5 DEF OneHolder
  <2> QED BY <2>1, <2>2, <2>3
<1> QED BY <1>3, <1>4, <1>8 DEF SessionInv

LEMMA BeatMoves ==
    ASSUME SessionInv, NEW b \in Beats, NEW c \in BeatRecs, beat' = [beat EXCEPT ![b] = c],
           BeatShape(c), UNCHANGED run,
           \/ (HoldsBeat(c) <=> HoldsBeat(beat[b])) /\ UNCHANGED busy
           \/ ~HoldsBeat(beat[b]) /\ HoldsBeat(c) /\ ~busy /\ busy' = TRUE
           \/ HoldsBeat(beat[b]) /\ ~HoldsBeat(c) /\ busy' = FALSE
    PROVE  SessionInv'
<1>1. /\ run \in [Runs -> RunRecs] /\ busy \in BOOLEAN /\ OneHolder /\ Shapes
      /\ beat \in [Beats -> BeatRecs] /\ RunType
  BY DEF SessionInv, RunType, RunRecs
<1>2. beat' \in [Beats -> BeatRecs] /\ beat'[b] = c /\ \A q \in Beats \ {b} : beat'[q] = beat[q]
  BY <1>1
<1>3. RunType' /\ busy' \in BOOLEAN
  BY <1>1, <1>2 DEF RunType
<1>4. Shapes'
  BY <1>1, <1>2 DEF Shapes
<1>5. HeldByRun' = HeldByRun
  BY DEF HeldByRun
<1>6. b \in H!HeldByBeat <=> HoldsBeat(beat[b])
  BY DEF H!HeldByBeat, HoldsBeat
<1>7. H!HeldByBeat' = IF HoldsBeat(c) THEN H!HeldByBeat \cup {b} ELSE H!HeldByBeat \ {b}
  BY <1>2 DEF H!HeldByBeat, HoldsBeat
<1>8. OneHolder'
  <2>1. CASE (HoldsBeat(c) <=> HoldsBeat(beat[b])) /\ UNCHANGED busy
    <3>1. H!HeldByBeat' = H!HeldByBeat
      BY <1>6, <1>7, <2>1
    <3>2. Holders' = Holders
      BY <1>5, <3>1 DEF Holders
    <3> QED BY <1>1, <2>1, <3>2 DEF OneHolder
  <2>2. CASE ~HoldsBeat(beat[b]) /\ HoldsBeat(c) /\ ~busy /\ busy' = TRUE
    <3>1. Holders = {}
      BY <1>1, <2>2 DEF OneHolder
    <3>2. HeldByRun = {} /\ H!HeldByBeat = {}
      BY <3>1, HolderFacts
    <3>3. HeldByRun' = {} /\ H!HeldByBeat' = {b}
      BY <1>5, <1>7, <2>2, <3>2
    <3>4. Holders' = {<<"beat", b>>}
      BY <3>3 DEF Holders
    <3> QED BY <2>2, <3>4 DEF OneHolder
  <2>3. CASE HoldsBeat(beat[b]) /\ ~HoldsBeat(c) /\ busy' = FALSE
    <3>1. <<"beat", b>> \in Holders
      BY <1>6, <2>3, HolderFacts
    <3>2. Holders = {<<"beat", b>>}
      BY <1>1, <3>1 DEF OneHolder
    <3>3. HeldByRun = {} /\ H!HeldByBeat = {b}
      <4>1. \A q \in H!HeldByBeat : <<"beat", q>> = <<"beat", b>>
        BY <3>2, HolderFacts
      <4>2. \A r \in HeldByRun : <<"run", r>> = <<"beat", b>>
        BY <3>2, HolderFacts
      <4> QED BY <1>6, <2>3, <4>1, <4>2
    <3>4. HeldByRun' = {} /\ H!HeldByBeat' = {}
      BY <1>5, <1>7, <2>3, <3>3
    <3>5. Holders' = {}
      BY <3>4 DEF Holders
    <3> QED BY <2>3, <3>5 DEF OneHolder
  <2> QED BY <2>1, <2>2, <2>3
<1> QED BY <1>2, <1>3, <1>4, <1>8 DEF SessionInv

(* The steps of an execution change run and busy, and nothing else.        *)
LEMMA RunSteps ==
    ASSUME CronInv, SessionInv, NEW r \in Runs, UNCHANGED heartbeat,
           Fire(r) \/ RunStep(r) \/ EndRun(r) \/ RunTimeout(r)
    PROVE  /\ SessionInv'
           /\ UNCHANGED <<jobs, entries, live, adm, sure>>
<1> DEFINE c == run[r]
<1>1. c \in RunRecs /\ RunShape(c) /\ busy \in BOOLEAN /\ run \in [Runs -> RunRecs]
  BY DEF SessionInv, Shapes, RunType, RunRecs
<1>2. UNCHANGED beat
  BY DEF heartbeat
<1>3. HoldsRun(c) => busy
  <2>1. HoldsRun(c) => Holders # {}
    BY HolderFacts DEF HoldsRun, HeldByRun
  <2> QED BY <2>1 DEF SessionInv, OneHolder
<1> DEFINE Works(d, w) == d \in RunRecs /\ d.work = w /\ d.wait = c.wait /\ d.locked = c.locked
           Waits(d) == d \in RunRecs /\ d.work = "start" /\ d.wait = "waiting" /\ d.locked = c.locked
<1>13. /\ \A w \in {"none", "send", "turn"} : Works([c EXCEPT !.work = w], w)
      /\ \A l \in BOOLEAN : Waits([c EXCEPT !.wait = "waiting", !.limited = l, !.work = "start"])
  <2> HIDE DEF c
  <2> QED BY <1>1, RunRecFacts, Zenon
<1> HIDE DEF Works, Waits
<1>4. NoRun \in RunRecs /\ RunShape(NoRun) /\ ~HoldsRun(NoRun)
  BY DEF NoRun, RunRecs, RunShape, HoldsRun
<1>5. CASE Fire(r)
  <2>1. PICK x \in live : run' = [run EXCEPT ![r] = [NoRun EXCEPT !.job = x.job, !.wait = "fired"]]
    BY <1>5 DEF Fire
  <2>2. x.job \in Jobs
    BY EntryFacts DEF CronInv, CronTypeOK
  <2> DEFINE d == [NoRun EXCEPT !.job = x.job, !.wait = "fired"]
  <2>3. d \in RunRecs /\ d.work = "none" /\ d.locked = FALSE
    <3> DEFINE e == [NoRun EXCEPT !.job = x.job]
    <3>1. NoRun \in RunRecs /\ NoRun.work = "none" /\ NoRun.locked = FALSE
      BY <1>4 DEF NoRun
    <3>2. ASSUME NEW f \in RunRecs
          PROVE  LET g == [f EXCEPT !.job = x.job]
                 IN  g \in RunRecs /\ g.work = f.work /\ g.locked = f.locked
      BY <2>2 DEF RunRecs
    <3>3. e \in RunRecs /\ e.work = "none" /\ e.locked = FALSE
      BY <3>1, <3>2
    <3>4. ASSUME NEW f \in RunRecs
          PROVE  LET g == [f EXCEPT !.wait = "fired"]
                 IN  g \in RunRecs /\ g.work = f.work /\ g.locked = f.locked
      BY DEF RunRecs
    <3> HIDE DEF e
    <3>5. LET g == [e EXCEPT !.wait = "fired"]
          IN  g \in RunRecs /\ g.work = "none" /\ g.locked = FALSE
      BY <3>3, <3>4
    <3> QED BY <3>5 DEF e
  <2> HIDE DEF d
  <2>4. RunShape(d) /\ ~HoldsRun(d) /\ ~HoldsRun(c)
    BY <1>5, <2>3 DEF RunShape, HoldsRun, Fire
  <2> QED BY <1>2, <1>5, <2>1, <2>3, <2>4, RunMoves DEF Fire, d
<1>6. CASE ExecuteJob(r)
  <2>1. PICK l \in BOOLEAN :
           run' = [run EXCEPT ![r] =
                     IF Stored(c.job) /\ jobs[c.job].enabled
                     THEN [c EXCEPT !.wait = "waiting", !.limited = l, !.work = "start"]
                     ELSE NoRun]
    BY <1>1, <1>6 DEF ExecuteJob
  <2>2. c.work = "none" /\ ~c.locked /\ ~HoldsRun(c)
    BY <1>1, <1>6 DEF ExecuteJob, RunShape, HoldsRun
  <2> DEFINE d == [c EXCEPT !.wait = "waiting", !.limited = l, !.work = "start"]
  <2>3. d \in RunRecs /\ RunShape(d) /\ ~HoldsRun(d)
    <3>1. Waits(d)
      BY <1>13, Zenon
    <3> HIDE DEF d
    <3> QED BY <2>2, <3>1 DEF RunShape, HoldsRun, Waits
  <2>4. PICK e \in {d, NoRun} : run' = [run EXCEPT ![r] = e]
    BY <2>1
  <2> HIDE DEF d, c
  <2>5. e \in RunRecs /\ RunShape(e) /\ ~HoldsRun(e)
    BY <1>4, <2>3, <2>4
  <2> QED BY <1>2, <1>6, <2>2, <2>4, <2>5, RunMoves DEF ExecuteJob, c
<1>7. ASSUME CannotRun(r) \/ SendDone(r) \/ BeginFreshRun(r)
      PROVE  SessionInv' /\ UNCHANGED <<jobs, entries, live, adm, sure>>
  <2>1. PICK w \in {"none", "send", "turn"} : run' = [run EXCEPT ![r] = [c EXCEPT !.work = w]]
    BY <1>1, <1>7 DEF CannotRun, SendDone, BeginFreshRun
  <2>2. c.work # "turn" /\ ~c.locked /\ c.wait # "fired"
    BY <1>1, <1>7, RunRecFacts DEF CannotRun, SendDone, BeginFreshRun, RunShape
  <2> DEFINE d == [c EXCEPT !.work = w]
  <2>3. d \in RunRecs /\ RunShape(d) /\ ~HoldsRun(d) /\ ~HoldsRun(c)
    <3>1. Works(d, w)
      BY <1>13, Zenon
    <3> HIDE DEF d
    <3> QED BY <2>2, <3>1 DEF RunShape, HoldsRun, Works
  <2> HIDE DEF d
  <2> QED BY <1>2, <1>7, <2>1, <2>3, RunMoves DEF CannotRun, SendDone, BeginFreshRun, d
<1>8. CASE BeginRun(r)
  <2> DEFINE d == [c EXCEPT !.work = "turn", !.locked = TRUE]
  <2>1. run' = [run EXCEPT ![r] = d] /\ ~busy /\ busy' = TRUE /\ c.wait # "fired"
    BY <1>1, <1>8 DEF BeginRun, RunShape
  <2>2. d \in RunRecs /\ RunShape(d) /\ HoldsRun(d) /\ ~HoldsRun(c)
    <3>1. d \in RunRecs /\ d.work = "turn" /\ d.wait = c.wait /\ d.locked
      BY <1>1, RunRecFacts, Zenon
    <3> HIDE DEF d
    <3> QED BY <1>3, <2>1, <3>1 DEF RunShape, HoldsRun
  <2> HIDE DEF d
  <2> QED BY <1>2, <1>8, <2>1, <2>2, RunMoves DEF BeginRun
<1>9. CASE EndRun(r)
  <2> DEFINE d == [c EXCEPT !.work = "send", !.locked = FALSE]
  <2>1. run' = [run EXCEPT ![r] = d] /\ busy' = (busy /\ ~c.locked) /\ c.work = "turn" /\ c.wait # "fired"
    BY <1>1, <1>9 DEF EndRun, RunShape
  <2>2. d \in RunRecs /\ RunShape(d) /\ ~HoldsRun(d) /\ (HoldsRun(c) <=> c.locked) /\ c.locked \in BOOLEAN
    <3>1. d \in RunRecs /\ d.work = "send" /\ d.wait = c.wait /\ ~d.locked /\ c.locked \in BOOLEAN
      BY <1>1, RunRecFacts, Zenon
    <3> HIDE DEF d
    <3> QED BY <2>1, <3>1 DEF RunShape, HoldsRun
  <2>3. IF HoldsRun(c) THEN busy' = FALSE ELSE busy' = busy
    BY <1>1, <2>1, <2>2
  <2> HIDE DEF d
  <2> QED BY <1>2, <1>9, <2>1, <2>2, <2>3, RunMoves DEF EndRun
<1>10. CASE RunDone(r)
  <2>1. ~HoldsRun(c) /\ run' = [run EXCEPT ![r] = NoRun]
    BY <1>10 DEF RunDone, HoldsRun
  <2> QED BY <1>2, <1>4, <1>10, <2>1, RunMoves DEF RunDone
<1>11. CASE RunTimeout(r)
  <2> DEFINE d == [c EXCEPT !.wait = "idle"]
  <2>1. run' = [run EXCEPT ![r] = d]
    BY <1>1, <1>11 DEF RunTimeout
  <2>2. d \in RunRecs /\ RunShape(d) /\ (HoldsRun(d) <=> HoldsRun(c))
    <3>1. d \in RunRecs /\ d.work = c.work /\ d.wait = "idle" /\ d.locked = c.locked
      BY <1>1, RunRecFacts, Zenon
    <3> HIDE DEF d
    <3> QED BY <1>1, <3>1 DEF RunShape, HoldsRun
  <2> HIDE DEF d
  <2> QED BY <1>2, <1>11, <2>1, <2>2, RunMoves DEF RunTimeout
<1> QED BY <1>5, <1>6, <1>7, <1>8, <1>9, <1>10, <1>11 DEF RunStep

(* CronInv reads of the executions only that they are well formed.         *)
LEMMA CronKept ==
    ASSUME CronInv, RunType', UNCHANGED <<jobs, entries, live, adm, sure>>
    PROVE  CronInv'
<1>1. CronTypeOK /\ OneEntry /\ Distinct /\ Updates
  BY DEF CronInv
<1>2. CronTypeOK' /\ OneEntry' /\ Distinct' /\ Updates'
  BY <1>1 DEF CronTypeOK, RunType, OneEntry, Distinct, Updates
<1>3. ASSUME NEW j \in Jobs PROVE CurrentAt(j)' /\ SureAt(j)'
  BY DEF CronInv, CurrentAt, SureAt, OpsOn, Scheduled, Stored
<1>4. ASSUME NEW a \in Admins PROVE AloneAt(a)'
  BY DEF CronInv, AloneAt, OpsOn, Done, Stored, Without
<1> QED BY <1>2, <1>3, <1>4 DEF CronInv

LEMMA SessionKept ==
    ASSUME SessionInv, UNCHANGED <<run, beat, busy>>
    PROVE  SessionInv'
<1>1. HeldByRun' = HeldByRun /\ H!HeldByBeat' = H!HeldByBeat
  BY DEF HeldByRun, H!HeldByBeat
<1>2. Holders' = Holders
  BY <1>1 DEF Holders
<1> QED BY <1>2 DEF SessionInv, OneHolder, Shapes, RunType

(* The steps of a heartbeat change beat and busy, and nothing else.        *)
LEMMA BeatSteps ==
    ASSUME SessionInv, NEW b \in Beats, UNCHANGED run,
           H!Tick(b) \/ H!TriggerNow(b) \/ H!BeatStep(b) \/ H!EndBeat(b) \/ H!BeatTimeout(b)
    PROVE  SessionInv' /\ UNCHANGED <<mode, paused, mins, ticking, file, writing>>
<1> DEFINE c == beat[b]
           Works(d, w) == d \in BeatRecs /\ d.work = w /\ d.wait = c.wait
           Waits(d, w) == d \in BeatRecs /\ d.work = c.work /\ d.wait = w
           Starts(d) == d \in BeatRecs /\ d.work = "start" /\ d.wait = "waiting"
<1>1. c \in BeatRecs /\ BeatShape(c) /\ busy \in BOOLEAN /\ beat \in [Beats -> BeatRecs]
  BY DEF SessionInv, Shapes
<1>2. HoldsBeat(c) => busy
  <2>1. HoldsBeat(c) => Holders # {}
    BY HolderFacts DEF HoldsBeat, H!HeldByBeat
  <2> QED BY <2>1 DEF SessionInv, OneHolder
<1>3. /\ \A w \in {"none", "send", "turn"} : Works([c EXCEPT !.work = w], w)
      /\ \A w \in {"idle", "probe"} : Waits([c EXCEPT !.wait = w], w)
      /\ Starts([c EXCEPT !.wait = "waiting", !.work = "start"])
  <2> HIDE DEF c
  <2> QED BY <1>1, BeatRecFacts, Zenon
<1> HIDE DEF Works, Waits, Starts
<1>4. H!NoBeat \in BeatRecs /\ BeatShape(H!NoBeat) /\ ~HoldsBeat(H!NoBeat)
  BY DEF H!NoBeat, BeatRecs, BeatShape, HoldsBeat
<1>5. ASSUME H!Tick(b) \/ H!TriggerNow(b)
      PROVE  SessionInv' /\ UNCHANGED H!settings
  <2>1. PICK n \in BeatRecs : n.work = "none" /\ beat' = [beat EXCEPT ![b] = [n EXCEPT !.wait = "fired"]]
    <3> DEFINE e == [H!NoBeat EXCEPT !.ticked = TRUE]
    <3>1. H!NoBeat \in BeatRecs /\ H!NoBeat.work = "none"
      BY <1>4 DEF H!NoBeat
    <3>2. e \in BeatRecs /\ e.work = "none"
      <4>1. ASSUME NEW f \in BeatRecs
            PROVE  LET g == [f EXCEPT !.ticked = TRUE]
                   IN  g \in BeatRecs /\ g.work = f.work
        BY DEF BeatRecs
      <4> QED BY <3>1, <4>1
    <3>3. CASE H!Tick(b)
      <4>1. beat' = [beat EXCEPT ![b] = [e EXCEPT !.wait = "fired"]]
        BY <3>3, Zenon DEF H!Tick
      <4> HIDE DEF e
      <4> QED BY <3>2, <4>1, Zenon
    <3>4. CASE H!TriggerNow(b)
      BY <3>1, <3>4, Zenon DEF H!TriggerNow
    <3> QED BY <1>5, <3>3, <3>4
  <2> DEFINE d == [n EXCEPT !.wait = "fired"]
  <2>2. d \in BeatRecs /\ d.work = "none" /\ d.wait = "fired"
    BY <2>1 DEF BeatRecs
  <2> HIDE DEF d
  <2>3. BeatShape(d) /\ ~HoldsBeat(d) /\ ~HoldsBeat(c)
    BY <1>5, <2>2 DEF BeatShape, HoldsBeat, H!Tick, H!TriggerNow, H!Free
  <2> QED BY <1>5, <2>1, <2>2, <2>3, BeatMoves DEF H!Tick, H!TriggerNow, d
<1>6. ASSUME H!Skip(b) \/ H!BeatDone(b)
      PROVE  SessionInv' /\ UNCHANGED H!settings
  <2>1. ~HoldsBeat(c)
    BY <1>1, <1>6 DEF H!Skip, H!BeatDone, BeatShape, HoldsBeat
  <2> QED BY <1>4, <1>6, <2>1, BeatMoves DEF H!Skip, H!BeatDone
<1>7. CASE H!Probe(b)
  <2> DEFINE d == [c EXCEPT !.wait = "probe"]
  <2>1. beat' = [beat EXCEPT ![b] = d] /\ ~busy /\ busy' = TRUE /\ c.work = "none"
    BY <1>1, <1>7 DEF H!Probe, BeatShape
  <2>2. Waits(d, "probe")
    BY <1>3, Zenon
  <2> HIDE DEF d
  <2>3. d \in BeatRecs /\ BeatShape(d) /\ HoldsBeat(d) /\ ~HoldsBeat(c)
    BY <1>2, <2>1, <2>2 DEF Waits, BeatShape, HoldsBeat
  <2> QED BY <1>7, <2>1, <2>3, BeatMoves DEF H!Probe, H!settings
<1>8. ASSUME H!Unprobe(b) \/ H!Execute(b)
      PROVE  SessionInv' /\ UNCHANGED H!settings
  <2> DEFINE d == [c EXCEPT !.wait = "waiting", !.work = "start"]
  <2>1. beat' = [beat EXCEPT ![b] = d]
    BY <1>8 DEF H!Unprobe, H!Execute, H!Started
  <2>2. Starts(d)
    BY <1>3, Zenon
  <2> HIDE DEF d
  <2>3. d \in BeatRecs /\ BeatShape(d) /\ ~HoldsBeat(d)
    BY <2>2 DEF Starts, BeatShape, HoldsBeat
  <2>4. CASE H!Unprobe(b)
    <3>1. HoldsBeat(c) /\ busy' = FALSE /\ UNCHANGED H!settings
      BY <2>4 DEF H!Unprobe, HoldsBeat
    <3> QED BY <2>1, <2>3, <3>1, BeatMoves
  <2>5. CASE H!Execute(b)
    <3>1. ~HoldsBeat(c) /\ UNCHANGED <<H!settings, busy>>
      BY <1>1, <2>5 DEF H!Execute, HoldsBeat, BeatShape
    <3> QED BY <2>1, <2>3, <3>1, BeatMoves
  <2> QED BY <1>8, <2>4, <2>5
<1>9. ASSUME H!CannotBeat(b) \/ H!SendBeat(b)
      PROVE  SessionInv' /\ UNCHANGED H!settings
  <2>1. PICK w \in {"none", "send", "turn"} : w # "turn" /\ beat' = [beat EXCEPT ![b] = [c EXCEPT !.work = w]]
    BY <1>1, <1>9 DEF H!CannotBeat, H!SendBeat
  <2>2. c.wait \notin {"fired", "probe"} /\ c.work # "turn"
    BY <1>1, <1>9 DEF H!CannotBeat, H!SendBeat, BeatShape
  <2> DEFINE d == [c EXCEPT !.work = w]
  <2>3. Works(d, w)
    BY <1>3, Zenon
  <2> HIDE DEF d
  <2>4. d \in BeatRecs /\ BeatShape(d) /\ ~HoldsBeat(d) /\ ~HoldsBeat(c)
    BY <2>1, <2>2, <2>3 DEF Works, BeatShape, HoldsBeat
  <2> QED BY <1>9, <2>1, <2>4, BeatMoves DEF H!CannotBeat, H!SendBeat, d
<1>10. CASE H!BeginBeat(b)
  <2> DEFINE d == [c EXCEPT !.work = "turn"]
  <2>1. beat' = [beat EXCEPT ![b] = d] /\ ~busy /\ busy' = TRUE /\ c.wait \notin {"fired", "probe"}
    BY <1>1, <1>10 DEF H!BeginBeat, BeatShape
  <2>2. Works(d, "turn")
    BY <1>3, Zenon
  <2> HIDE DEF d
  <2>3. d \in BeatRecs /\ BeatShape(d) /\ HoldsBeat(d) /\ ~HoldsBeat(c)
    BY <1>2, <2>1, <2>2 DEF Works, BeatShape, HoldsBeat
  <2> QED BY <1>10, <2>1, <2>3, BeatMoves DEF H!BeginBeat, H!settings
<1>11. CASE H!EndBeat(b)
  <2> DEFINE d == [c EXCEPT !.work = "send"]
  <2>1. beat' = [beat EXCEPT ![b] = d] /\ busy' = FALSE /\ c.wait \notin {"fired", "probe"} /\ HoldsBeat(c)
    BY <1>1, <1>11 DEF H!EndBeat, BeatShape, HoldsBeat
  <2>2. Works(d, "send")
    BY <1>3, Zenon
  <2> HIDE DEF d
  <2>3. d \in BeatRecs /\ BeatShape(d) /\ ~HoldsBeat(d)
    BY <2>1, <2>2 DEF Works, BeatShape, HoldsBeat
  <2> QED BY <1>11, <2>1, <2>3, BeatMoves DEF H!EndBeat, H!settings
<1>12. CASE H!BeatTimeout(b)
  <2> DEFINE d == [c EXCEPT !.wait = "idle"]
  <2>1. beat' = [beat EXCEPT ![b] = d] /\ c.wait = "waiting"
    BY <1>1, <1>12 DEF H!BeatTimeout
  <2>2. Waits(d, "idle")
    BY <1>3, Zenon
  <2> HIDE DEF d
  <2>3. d \in BeatRecs /\ BeatShape(d) /\ (HoldsBeat(d) <=> HoldsBeat(c))
    BY <2>1, <2>2 DEF Waits, BeatShape, HoldsBeat
  <2> QED BY <1>12, <2>1, <2>3, BeatMoves DEF H!BeatTimeout, H!settings
<1> QED BY <1>5, <1>6, <1>7, <1>8, <1>9, <1>10, <1>11, <1>12
        DEF H!BeatStep, H!settings, H!Probe, H!BeginBeat, H!EndBeat, H!BeatTimeout

(* What a restart would restore is in force, unless a write is under way.  *)
SettingsInv ==
    /\ mode \in {"off", "always", "idle"} /\ paused \in BOOLEAN /\ ticking \in BOOLEAN /\ writing \in BOOLEAN
    /\ mins \in Intervals
    /\ file \in {NoFile, Torn} \cup [paused : BOOLEAN, mins : Intervals \cup {0}]
    /\ RestartNeutral

Saved == [paused : BOOLEAN, mins : Intervals \cup {0}]

LEMMA SavedFacts ==
    ASSUME NEW p \in BOOLEAN, NEW m \in Intervals
    PROVE  LET f == H!ToSave(p, m)
           IN  /\ f \in Saved /\ f \notin {NoFile, Torn}
               /\ f.paused = p /\ (IF f.mins > 0 THEN f.mins ELSE Configured) = m
BY HeartbeatAssumption DEF H!ToSave, Saved

LEMMA RestoredFacts ==
    ASSUME SettingsInv
    PROVE  H!Restored.paused \in BOOLEAN /\ H!Restored.mins \in Intervals
<1>1. CASE file \in {NoFile, Torn}
  BY <1>1, HeartbeatAssumption DEF H!Restored
<1>2. CASE file \in Saved /\ file \notin {NoFile, Torn}
  <2>1. file.paused \in BOOLEAN /\ file.mins \in Intervals \cup {0}
    BY <1>2 DEF Saved
  <2>2. (IF file.mins > 0 THEN file.mins ELSE Configured) \in Intervals
    BY <2>1, HeartbeatAssumption
  <2> QED BY <1>2, <2>1, <2>2 DEF H!Restored
<1> QED BY <1>1, <1>2 DEF SettingsInv, Saved

(* The commands on the heartbeat change its settings, and the end of a     *)
(* write its file.                                                         *)
LEMMA PersistFacts ==
    ASSUME NEW p \in BOOLEAN, NEW m \in Intervals, H!Persist(p, m), paused' = p, mins' = m
    PROVE  file' \in {NoFile, Torn} /\ writing' \in BOOLEAN /\ RestartNeutral'
<1>1. CASE p \/ m # Configured
  BY <1>1 DEF H!Persist, RestartNeutral, H!RestartNeutral
<1>2. CASE ~(p \/ m # Configured)
  <2>1. file' = NoFile /\ writing' = FALSE /\ paused' = FALSE /\ mins' = Configured
    BY <1>2 DEF H!Persist
  <2> QED BY <2>1 DEF RestartNeutral, H!RestartNeutral, H!Restored
<1> QED BY <1>1, <1>2

LEMMA SettingsSteps ==
    ASSUME SettingsInv, H!Written \/ H!Pause \/ H!Resume \/ H!SetInterval
    PROVE  SettingsInv' /\ UNCHANGED <<beat, busy>>
<1>1. CASE H!Written
  <2>1. file' = H!ToSave(paused, mins) /\ UNCHANGED <<mode, paused, mins, ticking, beat, busy>> /\ writing' = FALSE
    BY <1>1 DEF H!Written
  <2>2. paused \in BOOLEAN /\ mins \in Intervals
    BY DEF SettingsInv
  <2>3. H!Restored' = [paused |-> paused, mins |-> mins] /\ file' \in Saved
    BY <2>1, <2>2, SavedFacts DEF H!Restored
  <2> QED BY <2>1, <2>3 DEF SettingsInv, RestartNeutral, H!RestartNeutral, Saved
<1>2. ASSUME H!Pause \/ H!Resume \/ H!SetInterval
      PROVE  SettingsInv' /\ UNCHANGED <<beat, busy>>
  <2>1. /\ paused' \in BOOLEAN /\ mins' \in Intervals /\ ticking' \in BOOLEAN
        /\ H!Persist(paused', mins') /\ UNCHANGED <<mode, beat, busy>>
    <3>1. CASE H!Pause
      BY <3>1 DEF H!Pause, SettingsInv
    <3>2. CASE H!Resume
      BY <3>2 DEF H!Resume, SettingsInv
    <3>3. CASE H!SetInterval
      BY <3>3 DEF H!SetInterval, SettingsInv
    <3> QED BY <1>2, <3>1, <3>2, <3>3
  <2>2. PICK p \in BOOLEAN, m \in Intervals : paused' = p /\ mins' = m
    BY <2>1
  <2>3. H!Persist(p, m)
    BY <2>1, <2>2
  <2> QED BY <2>1, <2>2, <2>3, PersistFacts DEF SettingsInv
<1> QED BY <1>1, <1>2

-----------------------------------------------------------------------------
(* The specification                                                       *)

IInv == CronInv /\ SessionInv /\ SettingsInv

LEMMA Initially ==
    ASSUME Init
    PROVE  IInv
<1>1. CronInv
  BY CronStart DEF Init
<1>2. SettingsInv
  BY HeartbeatAssumption
     DEF Init, H!HbInit, SettingsInv, RestartNeutral, H!RestartNeutral, H!Restored
<1>3. SessionInv
  <2>1. run = [r \in Runs |-> NoRun] /\ beat = [b \in Beats |-> H!NoBeat] /\ busy = FALSE
    BY DEF Init, CronInit, H!HbInit
  <2>2. NoRun \in RunRecs /\ ~NoRun.locked /\ NoRun.work = "none"
    BY DEF NoRun, RunRecs
  <2>3. H!NoBeat \in BeatRecs /\ H!NoBeat.wait = "idle" /\ H!NoBeat.work = "none"
    BY DEF H!NoBeat, BeatRecs
  <2>4. HeldByRun = {} /\ H!HeldByBeat = {}
    BY <2>1, <2>2, <2>3 DEF HeldByRun, H!HeldByBeat
  <2>5. Holders = {}
    BY <2>4 DEF Holders
  <2>6. RunType /\ beat \in [Beats -> BeatRecs]
    BY <2>1, <2>2, <2>3 DEF RunType, RunRecs
  <2>7. Shapes
    BY <2>1, <2>2, <2>3 DEF Shapes, RunShape, BeatShape
  <2> QED BY <2>1, <2>5, <2>6, <2>7 DEF SessionInv, OneHolder
<1> QED BY <1>1, <1>2, <1>3 DEF IInv

LEMMA AfterRestart ==
    ASSUME IInv, Restart
    PROVE  IInv'
<1>1. CronInv'
  BY CronRestarted DEF IInv, Restart
<1>2. SettingsInv'
  <2>1. /\ paused' = H!Restored.paused /\ mins' = H!Restored.mins /\ ticking' = TRUE
        /\ writing' = FALSE /\ UNCHANGED <<mode, file>>
    BY DEF Restart, H!HbStart
  <2>2. H!Restored.paused \in BOOLEAN /\ H!Restored.mins \in Intervals
    BY RestoredFacts DEF IInv
  <2>3. H!Restored' = H!Restored
    BY <2>1 DEF H!Restored
  <2>4. H!Restored = [paused |-> H!Restored.paused, mins |-> H!Restored.mins]
    BY DEF H!Restored
  <2>5. RestartNeutral'
    BY <2>1, <2>3, <2>4 DEF RestartNeutral, H!RestartNeutral
  <2> QED BY <2>1, <2>2, <2>5 DEF IInv, SettingsInv
<1>3. SessionInv'
  <2>1. run' = [r \in Runs |-> NoRun] /\ beat' = [b \in Beats |-> H!NoBeat] /\ busy' = FALSE
    BY DEF Restart, CronRestart, H!HbStart
  <2>2. NoRun \in RunRecs /\ ~NoRun.locked /\ NoRun.work = "none"
    BY DEF NoRun, RunRecs
  <2>3. H!NoBeat \in BeatRecs /\ H!NoBeat.wait = "idle" /\ H!NoBeat.work = "none"
    BY DEF H!NoBeat, BeatRecs
  <2>4. HeldByRun' = {} /\ H!HeldByBeat' = {}
    BY <2>1, <2>2, <2>3 DEF HeldByRun, H!HeldByBeat
  <2>5. Holders' = {}
    BY <2>4 DEF Holders
  <2>6. RunType' /\ beat' \in [Beats -> BeatRecs]
    BY <2>1, <2>2, <2>3 DEF RunType, RunRecs
  <2>7. Shapes'
    BY <2>1, <2>2, <2>3 DEF Shapes, RunShape, BeatShape
  <2> QED BY <2>1, <2>5, <2>6, <2>7 DEF SessionInv, OneHolder
<1> QED BY <1>1, <1>2, <1>3 DEF IInv

LEMMA EachStep ==
    ASSUME IInv, [Next]_vars
    PROVE  IInv'
<1>1. CronInv /\ SessionInv /\ SettingsInv
  BY DEF IInv
<1>2. ASSUME UNCHANGED heartbeat
      PROVE  SettingsInv' /\ UNCHANGED beat
  BY <1>1, <1>2 DEF heartbeat, SettingsInv, RestartNeutral, H!RestartNeutral, H!Restored
<1>3. ASSUME UNCHANGED cronVars
      PROVE  CronInv' /\ UNCHANGED run
  <2>1. RunType' /\ UNCHANGED <<jobs, entries, live, adm, sure, run>>
    BY <1>1, <1>3 DEF cronVars, CronInv, CronTypeOK, RunType
  <2> QED BY <1>1, <2>1, CronKept
<1>4. CASE CronNext /\ UNCHANGED heartbeat
  <2>1. ASSUME NEW a \in Admins,
               AddJob(a) \/ Toggle(a) \/ RemoveJob(a) \/ UpdateJob(a) \/ AdminStep(a)
        PROVE  IInv'
    <3>1. CronInv'
      BY <1>1, <2>1, AdminSteps
    <3>2. UNCHANGED <<run, busy>>
      BY <2>1 DEF AddJob, Toggle, RemoveJob, UpdateJob, AdminStep, RemoveStored, UpdateUnschedules,
                  UpdateFails, Update, Look, Schedule, Unschedule
    <3> QED BY <1>1, <1>2, <1>4, <3>1, <3>2, SessionKept DEF IInv
  <2>2. ASSUME NEW r \in Runs, Fire(r) \/ RunStep(r) \/ EndRun(r) \/ RunTimeout(r)
        PROVE  IInv'
    <3>1. SessionInv' /\ UNCHANGED <<jobs, entries, live, adm, sure>>
      BY <1>1, <1>4, <2>2, RunSteps
    <3>2. CronInv'
      BY <1>1, <3>1, CronKept DEF SessionInv
    <3> QED BY <1>2, <1>4, <3>1, <3>2 DEF IInv
  <2> QED BY <1>4, <2>1, <2>2 DEF CronNext
<1>5. CASE H!HbNext /\ UNCHANGED cronVars
  <2>1. ASSUME NEW b \in Beats,
               H!Tick(b) \/ H!TriggerNow(b) \/ H!BeatStep(b) \/ H!EndBeat(b) \/ H!BeatTimeout(b)
        PROVE  IInv'
    <3>1. SessionInv' /\ UNCHANGED <<mode, paused, mins, ticking, file, writing>>
      BY <1>1, <1>3, <1>5, <2>1, BeatSteps
    <3>2. SettingsInv'
      BY <1>1, <3>1 DEF SettingsInv, RestartNeutral, H!RestartNeutral, H!Restored
    <3> QED BY <1>3, <1>5, <3>1, <3>2 DEF IInv
  <2>2. ASSUME H!Written \/ H!Pause \/ H!Resume \/ H!SetInterval
        PROVE  IInv'
    <3>1. SettingsInv' /\ UNCHANGED <<beat, busy>>
      BY <1>1, <2>2, SettingsSteps
    <3> QED BY <1>1, <1>3, <1>5, <3>1, SessionKept DEF IInv
  <2> QED BY <1>5, <2>1, <2>2 DEF H!HbNext
<1>6. CASE Restart
  BY <1>6, AfterRestart
<1>7. CASE UNCHANGED vars
  <2>1. UNCHANGED heartbeat /\ UNCHANGED cronVars /\ UNCHANGED busy
    BY <1>7 DEF vars
  <2> QED BY <1>1, <1>2, <1>3, <2>1, SessionKept DEF IInv
<1> QED BY <1>4, <1>5, <1>6, <1>7 DEF Next

LEMMA Always == Spec => []IInv
<1>1. Init => IInv
  BY Initially
<1>2. IInv /\ [Next]_vars => IInv'
  BY EachStep
<1> QED BY <1>1, <1>2, PTL DEF Spec

(* Every variable of the jobs, the runs and the heartbeat keeps its type.  *)
THEOREM SchedulesTypeCorrect == Spec => []TypeOK
<1>1. IInv => TypeOK
  BY DEF IInv, CronInv, SessionInv, SettingsInv, BeatRecs, TypeOK, H!HbTypeOK
<1> QED BY <1>1, Always, PTL

(* However the operations on jobs overlap (core/cron.go:484-620), the cron *)
(* library has no entry that the table has lost.                           *)
THEOREM OneEntryCorrect == Spec => []OneEntry
<1>1. IInv => OneEntry
  BY DEF IInv, CronInv
<1> QED BY <1>1, Always, PTL

(* The expression at which an enabled job fires is the one the store has,  *)
(* once the operations on it are over.                                     *)
THEOREM EntryCurrentCorrect == Spec => []EntryCurrent
<1>1. IInv => EntryCurrent
  <2> SUFFICES ASSUME IInv, NEW x \in live,
                      OpsOn(x.job) = {}, Stored(x.job), jobs[x.job].enabled
               PROVE  x.expr = jobs[x.job].expr
    BY DEF EntryCurrent
  <2>1. x.job \in Jobs
    BY DEF IInv, CronInv, CronTypeOK
  <2>2. CurrentAt(x.job)
    BY <2>1 DEF IInv, CronInv
  <2> QED BY <2>2 DEF CurrentAt
<1> QED BY <1>1, Always, PTL

(* An operation that no other one on the job overlapped leaves an entry    *)
(* exactly when the job is stored and enabled.                             *)
THEOREM AloneCorrect == Spec => []ScheduledIfAlone
<1>1. IInv => ScheduledIfAlone
  BY DEF IInv, CronInv, SureAt, ScheduledIfAlone
<1> QED BY <1>1, Always, PTL

(* The lock of the Session is taken exactly while one run, beat or probe   *)
(* has it, timeouts of any of them and restarts included.                  *)
THEOREM HolderCorrect == Spec => []OneHolder
<1>1. IInv => OneHolder
  BY DEF IInv, SessionInv
<1> QED BY <1>1, Always, PTL

(* A restart restores the pause and the interval of the heartbeat that are *)
(* in force (core/heartbeat.go), unless it cuts a write short.             *)
THEOREM RestartCorrect == Spec => []RestartNeutral
<1>1. IInv => RestartNeutral
  BY DEF IInv, SettingsInv
<1> QED BY <1>1, Always, PTL

=============================================================================
