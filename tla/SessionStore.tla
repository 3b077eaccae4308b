---------------------------- MODULE SessionStore ----------------------------
(***************************************************************************)
(* core/session.go: the SessionManager of one engine (or workspace), its   *)
(* Sessions, the agent conversations they name now and have named before,  *)
(* and the JSON file it is saved to and loaded from.                       *)
(*                                                                         *)
(* Two locks matter.  sm.mu is a read-write lock: an operation that takes  *)
(* it for writing changes the maps and saves before it lets go, which is   *)
(* one step here.  Save takes it for reading only, so that several saves   *)
(* can be under way at once, while a Session's own fields change under     *)
(* Session.mu alone.  A worker is a goroutine that runs a turn or one of   *)
(* the commands that change conversations; a step ends where it holds no   *)
(* lock another worker waits for.  A failing write of the file, the names, *)
(* the history and the user data are left out.                             *)
(***************************************************************************)
EXTENDS Naturals, FiniteSets

CONSTANTS
    Keys,          \* session keys: the chats
    Convs,         \* conversations (agent session IDs) the agent may allot
    Kinds,         \* agent types
    Workers,       \* goroutines that use the store
    OldConv,       \* a conversation an older version of the program saved
    FilterExternal,\* filter_external_sessions: list only known conversations
    Nil,           \* no session, an empty agent session ID, an empty type
    MaxSessions,   \* bound on sm.counter
    MaxRestarts    \* bound on the restarts of the program

Ids == 1 .. MaxSessions            \* nextID: "s1", "s2", ...

ASSUME StoreConstantsOK ==
    /\ OldConv \in Convs
    /\ FilterExternal \in BOOLEAN
    /\ Nil \notin Convs \cup Kinds \cup Keys \cup Ids
    /\ MaxSessions \in Nat \ {0}
    /\ MaxRestarts \in Nat

VARIABLES
    mem,       \* the SessionManager in memory
    disk,      \* the snapshot in the file
    kind,      \* the agent type of this run of the program
    made,      \* the conversations the agent has allotted and still keeps
    issued,    \* how many sessions were ever created, over all restarts
    work,      \* what each worker is doing, a record as Idle is
    restarts

vars == <<mem, disk, kind, made, issued, work, restarts>>

(* pc is where the worker stands in its task; key and ref are the chat and *)
(* the *Session it works for; conv is the conversation its agent runs, or  *)
(* that it deletes; snap is its snapshot of the sessions it has copied and *)
(* file the snapshot as it goes to the file.                               *)
Blank == [conv |-> Nil, past |-> {}, kind |-> Nil]
Idle == [pc |-> "idle", task |-> "none", key |-> Nil, ref |-> Nil, conv |-> Nil,
         copied |-> {}, snap |-> [i \in Ids |-> Blank], file |-> Nil]

(* sm.sessions holds exactly the IDs listed in sm.userSessions. *)
Live(s)  == UNION {s.owned[k] : k \in Keys}

(* KnownAgentSessionIDs, the legacy flag aside. *)
Named(r) == (IF r.conv = Nil THEN {} ELSE {r.conv}) \cup r.past
Known(s) == UNION {Named(s.rec[i]) : i \in Live(s)}

(* What a file can hold: a store that was never used, or one session that  *)
(* an older version saved, in which case the filter by known conversations *)
(* is off (legacyData) until every session has one.                        *)
NewStore == [counter |-> 0, owned |-> [k \in Keys |-> {}], active |-> [k \in Keys |-> Nil],
             rec |-> [i \in Ids |-> Blank], legacy |-> FALSE]
OldStore(k, c) == [NewStore EXCEPT !.counter = 1, !.owned[k] = {1}, !.active[k] = 1,
                                   !.rec[1].conv = c, !.legacy = TRUE]

Init ==
    /\ disk \in {NewStore} \cup {OldStore(k, c) : k \in Keys, c \in {OldConv, Nil}}
    /\ mem = disk
    /\ kind \in Kinds
    /\ made = {OldConv}
    /\ issued = disk.counter
    /\ work = [w \in Workers |-> Idle]
    /\ restarts = 0

-----------------------------------------------------------------------------
On(w, l)   == work[w].pc = l
Goto(w, l) == work' = [work EXCEPT ![w].pc = l]
Rest(w)    == work' = [work EXCEPT ![w] = Idle]

(* sm.mu can be taken for writing. *)
WriteLockAny == TRUE                                \* mutant: no read lock in Save
WriteLock == \A w \in Workers : work[w].copied = {} /\ ~On(w, "write")

(* saveLocked by a writer: legacyData is cleared once every session names  *)
(* a conversation; the file then holds what memory holds.                  *)
Untracked(rec, ids) == \E i \in ids : Named(rec[i]) = {}
OnDisk(s) == [s EXCEPT !.rec = [i \in Ids |-> IF i \in Live(s) THEN s.rec[i] ELSE Blank]]
SaveLocked(s) ==
    LET t == [s EXCEPT !.legacy = @ /\ Untracked(s.rec, Live(s))] IN
    mem' = t /\ disk' = OnDisk(t)

(* createLocked, and what NewSideSession does in its place. *)
NextId == mem.counter + 1
Enter(k)  == [mem EXCEPT !.counter = NextId, !.owned[k] = @ \cup {NextId}]
Create(k) == [Enter(k) EXCEPT !.active[k] = NextId]
AddUnsaved(s) ==                                    \* mutant: the new session is not saved
    /\ NextId \in Ids
    /\ mem' = s
    /\ disk' = disk
    /\ issued' = issued + 1
AddSession(s) ==
    /\ NextId \in Ids
    /\ SaveLocked(s)
    /\ issued' = issued + 1

(* GetOrCreateActive. *)
EnsureActive(k) ==
    IF mem.active[k] # Nil THEN UNCHANGED <<mem, disk, issued>> ELSE AddSession(Create(k))
EnsuredId(k) == IF mem.active[k] # Nil THEN mem.active[k] ELSE NextId

(* recordPastAgentSessionID and SetAgentSessionID(c, t). *)
SetConvForgets(r, c, t) == [r EXCEPT !.conv = c, !.kind = t]    \* mutant: not recorded
SetConv(r, c, t) ==
    [r EXCEPT !.past = IF r.conv # c /\ r.conv # Nil THEN @ \cup {r.conv} ELSE @,
              !.conv = c, !.kind = t]

(* Worker w takes up task t for chat k, on session i, and goes on at l. *)
TakeUp(w, t, k, i, l) ==
    /\ On(w, "idle")
    /\ WriteLock
    /\ work' = [work EXCEPT ![w] = [Idle EXCEPT !.pc = l, !.task = t, !.key = k, !.ref = i]]

(* Session.busy: a turn holds the session it runs on. *)
Busy(i) == \E v \in Workers : work[v].task = "turn" /\ work[v].ref = i

-----------------------------------------------------------------------------
(***************************************************************************)
(* A turn: find the session, start the agent on its conversation or on a   *)
(* new one, learn the conversation from the agent, save.                   *)
(***************************************************************************)
Turn(w, k) ==
    /\ TakeUp(w, "turn", k, EnsuredId(k), "start")
    /\ ~Busy(EnsuredId(k))
    /\ EnsureActive(k)
    /\ UNCHANGED <<kind, made, restarts>>

(* A cron job with session_mode new_per_run gets a session of its own, *)
(* which does not become the active one.                               *)
SideTurn(w, k) ==
    /\ TakeUp(w, "turn", k, NextId, "start")
    /\ AddSession(Enter(k))
    /\ UNCHANGED <<kind, made, restarts>>

(* Also when the session names a conversation may the agent start a new    *)
(* one: a resume that fails is followed by a fresh start.                  *)
StartAgent(w, c) ==
    /\ On(w, "start")
    /\ \/ c = mem.rec[work[w].ref].conv /\ made' = made
       \/ c \notin made \cup Known(mem) /\ made' = made \cup {c}
    /\ work' = [work EXCEPT ![w].pc = "report", ![w].conv = c]
    /\ UNCHANGED <<mem, disk, kind, issued, restarts>>

StartFails(w) ==
    /\ On(w, "start")
    /\ Rest(w)
    /\ UNCHANGED <<mem, disk, kind, made, issued, restarts>>

(* CompareAndSetAgentSessionID, under Session.mu alone. *)
Report(w) ==
    /\ On(w, "report")
    /\ mem' = IF mem.rec[work[w].ref].conv # Nil THEN mem
              ELSE [mem EXCEPT !.rec[work[w].ref].conv = work[w].conv,
                               !.rec[work[w].ref].kind = kind]
    /\ work' = [work EXCEPT ![w].pc = "save", ![w].conv = Nil]
    /\ UNCHANGED <<disk, kind, made, issued, restarts>>

(***************************************************************************)
(* /new, and the commands that only drop the conversation (/model, /mode,  *)
(* /provider, /dir): SetAgentSessionID("", ""), Save, and for /new then    *)
(* NewSession.                                                             *)
(***************************************************************************)
Reset(w, k, t) ==
    /\ TakeUp(w, t, k, EnsuredId(k), "clear")
    /\ EnsureActive(k)
    /\ UNCHANGED <<kind, made, restarts>>

Clear(w) ==
    /\ On(w, "clear")
    /\ mem' = [mem EXCEPT !.rec[work[w].ref] = SetConv(@, Nil, Nil)]
    /\ work' = [work EXCEPT ![w].pc = "save", ![w].ref = Nil]
    /\ UNCHANGED <<disk, kind, made, issued, restarts>>

NewSession(w) ==
    /\ On(w, "create")
    /\ WriteLock
    /\ AddSession(Create(work[w].key))
    /\ Rest(w)
    /\ UNCHANGED <<kind, made, restarts>>

(***************************************************************************)
(* /switch: SwitchToAgentSession, to a conversation the agent lists and    *)
(* the filter, when it is on, lets through.                                *)
(***************************************************************************)
Visible(c) ==
    /\ c \in made
    /\ ~FilterExternal \/ mem.legacy \/ Known(mem) = {} \/ c \in Known(mem)

Switch(w, k, c) ==
    /\ On(w, "idle")
    /\ WriteLock
    /\ Visible(c)
    /\ LET with == {i \in mem.owned[k] : mem.rec[i].conv = c} IN
       \/ \E i \in with :
              /\ \A j \in with : i <= j
              /\ SaveLocked([mem EXCEPT !.active[k] = i])
              /\ issued' = issued
       \/ /\ with = {}
          /\ AddSession([Create(k) EXCEPT !.rec[NextId] = SetConv(@, c, kind)])
    /\ UNCHANGED <<kind, made, work, restarts>>

(***************************************************************************)
(* /delete: refused for the active session's conversation; the agent       *)
(* deletes it, then DeleteByAgentSessionID forgets the sessions that name  *)
(* it now.                                                                 *)
(***************************************************************************)
Delete(w, k, c) ==
    /\ On(w, "idle")
    /\ WriteLock
    /\ Visible(c)
    /\ mem.active[k] # Nil => mem.rec[mem.active[k]].conv # c
    /\ EnsureActive(k)
    /\ made' = made \ {c}
    /\ work' = [work EXCEPT ![w].pc = "forget", ![w].task = "delete", ![w].conv = c]
    /\ UNCHANGED <<kind, restarts>>

Without(gone) ==
    [mem EXCEPT !.owned  = [k \in Keys |-> @[k] \ gone],
                !.active = [k \in Keys |-> IF @[k] \in gone THEN Nil ELSE @[k]]]

Forget(w) ==
    /\ On(w, "forget")
    /\ WriteLock
    /\ LET gone == {i \in Live(mem) : mem.rec[i].conv = work[w].conv} IN
       IF gone = {} THEN UNCHANGED <<mem, disk>> ELSE SaveLocked(Without(gone))
    /\ Rest(w)
    /\ UNCHANGED <<kind, made, issued, restarts>>

(***************************************************************************)
(* Save, under sm.mu for reading: each session is copied under its own     *)
(* mutex, one after another in map order; the last copy and the encoding   *)
(* of the snapshot are one step, since what lies between them reads only   *)
(* the snapshot; then AtomicWriteFile replaces the file at once.           *)
(* The lock counts from the first copy on: nothing tells a save that holds *)
(* it, but has copied nothing, from one that waits for it.                 *)
(***************************************************************************)
Copy(w, i) ==
    /\ On(w, "save")
    /\ i \in Live(mem) \ work[w].copied
    /\ Live(mem) # work[w].copied \cup {i}
    /\ work' = [work EXCEPT ![w].copied = @ \cup {i}, ![w].snap[i] = mem.rec[i]]
    /\ UNCHANGED <<mem, disk, kind, made, issued, restarts>>

CopyLast(w) ==
    LET last == Live(mem) \ work[w].copied
        snap == [i \in Ids |-> IF i \in last THEN mem.rec[i] ELSE work[w].snap[i]] IN
    /\ On(w, "save")
    /\ Cardinality(last) <= 1
    /\ mem' = [mem EXCEPT !.legacy = @ /\ Untracked(snap, Live(mem))]
    /\ work' = [work EXCEPT ![w] = [Idle EXCEPT
                    !.pc = "write", !.task = work[w].task, !.key = work[w].key,
                    !.ref = work[w].ref, !.file = [mem' EXCEPT !.rec = snap]]]
    /\ UNCHANGED <<disk, kind, made, issued, restarts>>

Write(w) ==
    /\ On(w, "write")
    /\ disk' = work[w].file
    /\ IF work[w].task = "new"
       THEN work' = [work EXCEPT ![w] = [Idle EXCEPT !.pc = "create", !.task = "new",
                                                     !.key = work[w].key]]
       ELSE Rest(w)
    /\ UNCHANGED <<mem, kind, made, issued, restarts>>

(***************************************************************************)
(* The program ends at any point and is started again, perhaps with an     *)
(* agent of another type: load, then InvalidateForAgent.                   *)
(***************************************************************************)
Foreign(r, t) == r.conv # Nil /\ r.kind # Nil /\ r.kind # t

Restart(t) ==
    /\ restarts < MaxRestarts
    /\ restarts' = restarts + 1
    /\ kind' = t
    /\ IF \E i \in Ids : Foreign(disk.rec[i], t)
       THEN SaveLocked([disk EXCEPT !.rec = [i \in Ids |->
                            IF Foreign(@[i], t) THEN SetConv(@[i], Nil, t) ELSE @[i]]])
       ELSE mem' = disk /\ disk' = disk
    /\ work' = [w \in Workers |-> Idle]
    /\ UNCHANGED <<made, issued>>

(* No goroutine has anything to do, within the bound on sessions. *)
Quiet ==
    /\ \A w \in Workers : On(w, "idle") \/ (On(w, "create") /\ NextId \notin Ids)
    /\ UNCHANGED vars

Next ==
    \/ \E w \in Workers, k \in Keys :
           \/ Turn(w, k) \/ SideTurn(w, k)
           \/ \E t \in {"new", "reset"} : Reset(w, k, t)
           \/ \E c \in Convs : Switch(w, k, c) \/ Delete(w, k, c)
    \/ \E w \in Workers :
           \/ StartFails(w) \/ Report(w) \/ Clear(w) \/ NewSession(w) \/ Forget(w)
           \/ CopyLast(w) \/ Write(w)
           \/ \E c \in Convs : StartAgent(w, c)
           \/ \E i \in Ids : Copy(w, i)
    \/ \E t \in Kinds : Restart(t)
    \/ Quiet

Spec == Init /\ [][Next]_vars

-----------------------------------------------------------------------------
(***************************************************************************)
(* Properties.                                                             *)
(***************************************************************************)
Recs == [conv : Convs \cup {Nil}, past : SUBSET Convs, kind : Kinds \cup {Nil}]
Stores == [counter : 0 .. MaxSessions, owned : [Keys -> SUBSET Ids],
           active : [Keys -> Ids \cup {Nil}], rec : [Ids -> Recs], legacy : BOOLEAN]
Works == [pc : {"idle", "start", "report", "clear", "save", "write", "create", "forget"},
          task : {"none", "turn", "new", "reset", "delete"}, key : Keys \cup {Nil},
          ref : Ids \cup {Nil}, conv : Convs \cup {Nil}, copied : SUBSET Ids,
          snap : [Ids -> Recs], file : Stores \cup {Nil}]

(* The types; and the active session of a chat, which the next message     *)
(* goes to, is one of the chat's own sessions.                             *)
ActiveOwned(s) == \A k \in Keys : s.active[k] \in s.owned[k] \cup {Nil}
TypeOK ==
    /\ mem \in Stores /\ ActiveOwned(mem)
    /\ disk \in Stores /\ ActiveOwned(disk)
    /\ kind \in Kinds
    /\ made \subseteq Convs
    /\ issued \in Nat
    /\ work \in [Workers -> Works]
    /\ restarts \in 0 .. MaxRestarts

(* A session ID is handed out once, over any number of crashes: no restart *)
(* brings the counter back to before a session that was already in use.    *)
IdsNeverReused == mem.counter = issued /\ disk.counter = issued

(* The file follows memory through concurrent saves, writers and crashes:  *)
(* it lists the same sessions under the same chats, so that no save that   *)
(* is late brings a deleted session back or drops a new one, and it names  *)
(* no conversation that memory has forgotten.                              *)
DiskFollows ==
    /\ disk.owned = mem.owned
    /\ disk.active = mem.active
    /\ Known(disk) \subseteq Known(mem)

(* Only a deletion or the end of the program forgets a conversation: one   *)
(* that is replaced or cleared stays known, and /list goes on showing it.  *)
KnownKept ==
    [][\/ Known(mem) \subseteq Known(mem')
       \/ restarts' # restarts
       \/ \E w \in Workers : On(w, "forget") /\ work'[w].pc # "forget"]_vars

(* Save "persists current state to disk" (session.go:552): when all work   *)
(* has ended, each piece of it with a Save, the file holds what memory     *)
(* holds.                                                                  *)
SavedPersisted ==
    (\A w \in Workers : On(w, "idle")) => disk.rec = OnDisk(mem).rec

=============================================================================
