------------------------- MODULE SessionStoreProofs -------------------------
(***************************************************************************)
(* What SessionStore guarantees for every number of chats, sessions,       *)
(* conversations, agent types, workers and restarts.                       *)
(*                                                                         *)
(* The argument: what a save has copied so far, and what it is about to    *)
(* write, names only sessions that memory still has and conversations that *)
(* memory still knows.  That holds since everything that could take them   *)
(* away waits for the save (WriteLock), and what does not wait only makes  *)
(* more conversations known.                                               *)
(***************************************************************************)
EXTENDS SessionStore, TLAPS

(* One store has the same sessions in the same places as another. *)
SameShape(s, t) == s.counter = t.counter /\ s.owned = t.owned /\ s.active = t.active

FileAt(w) ==
    On(w, "write") =>
        /\ work[w].file \in Stores
        /\ SameShape(work[w].file, mem)
        /\ Known(work[w].file) \subseteq Known(mem)
CopiesAt(w) ==
    /\ work[w].copied \subseteq Live(mem)
    /\ \A i \in work[w].copied : Named(work[w].snap[i]) \subseteq Known(mem)
PlaceAt(w) ==
    /\ work[w].pc \in {"start", "report", "clear"} => work[w].ref \in Ids
    /\ work[w].task = "new" => work[w].key \in Keys
    /\ On(w, "create") => work[w].task = "new"

IInv ==
    /\ TypeOK
    /\ IdsNeverReused
    /\ DiskFollows
    /\ \A w \in Workers : FileAt(w) /\ CopiesAt(w) /\ PlaceAt(w)

-----------------------------------------------------------------------------
(* Operators on stores                                                     *)

LEMMA KnownIn ==
    ASSUME NEW s, NEW c
    PROVE  c \in Known(s) <=> \E k \in Keys : \E i \in s.owned[k] : c \in Named(s.rec[i])
  BY DEF Known, Live

(* A store with more sessions, each of which names more, knows more. *)
LEMMA KnownGrows ==
    ASSUME NEW s, NEW t,
           \A k \in Keys : s.owned[k] \subseteq t.owned[k],
           \A i \in Live(s) : Named(s.rec[i]) \subseteq Named(t.rec[i])
    PROVE  Live(s) \subseteq Live(t) /\ Known(s) \subseteq Known(t)
<1>1. Live(s) \subseteq Live(t)
  BY DEF Live
<1> QED BY <1>1 DEF Known

LEMMA LiveIds == ASSUME NEW s \in Stores PROVE Live(s) \subseteq Ids
  BY DEF Live, Stores

(* A session that takes another conversation goes on naming the last one. *)
LEMMA SetConvNames ==
    ASSUME NEW r \in Recs, NEW c \in Convs \cup {Nil}, NEW t \in Kinds \cup {Nil}
    PROVE  SetConv(r, c, t) \in Recs /\ Named(r) \subseteq Named(SetConv(r, c, t))
  BY StoreConstantsOK DEF SetConv, Recs, Named

(* What a writer leaves in memory and in the file. *)
LEMMA SaveLeaves ==
    ASSUME NEW s \in Stores, ActiveOwned(s), SaveLocked(s)
    PROVE  /\ mem' \in Stores /\ ActiveOwned(mem')
           /\ disk' \in Stores /\ ActiveOwned(disk')
           /\ SameShape(mem', s) /\ SameShape(disk', s)
           /\ mem'.rec = s.rec
           /\ Known(mem') = Known(s) /\ Known(disk') = Known(s)
<1> DEFINE t == [s EXCEPT !.legacy = @ /\ Untracked(s.rec, Live(s))]
<1>1. mem' = t /\ disk' = OnDisk(t)
  BY DEF SaveLocked
<1>2. Untracked(s.rec, Live(s)) \in BOOLEAN
  BY DEF Untracked
<1>3. t \in Stores /\ SameShape(t, s) /\ t.rec = s.rec
  <2> HIDE DEF t
  <2>1. t = [s EXCEPT !.legacy = s.legacy /\ Untracked(s.rec, Live(s))]
    BY DEF t, Stores
  <2> QED BY <2>1, <1>2 DEF Stores, SameShape
<1> HIDE DEF t
<1>4. Live(t) = Live(s) /\ Known(t) = Known(s)
  BY <1>3 DEF Live, Known, SameShape
<1>5. /\ OnDisk(t) \in Stores /\ SameShape(OnDisk(t), s)
      /\ \A i \in Ids : OnDisk(t).rec[i] = IF i \in Live(t) THEN t.rec[i] ELSE Blank
  BY <1>3 DEF OnDisk, Stores, SameShape, Recs, Blank
<1>6. Live(OnDisk(t)) = Live(t)
  BY <1>3, <1>5 DEF Live, SameShape
<1>7. Known(OnDisk(t)) = Known(t)
  BY <1>3, <1>5, <1>6, LiveIds DEF Known
<1>8. ActiveOwned(t) /\ ActiveOwned(OnDisk(t))
  BY <1>3, <1>5 DEF ActiveOwned, SameShape
<1> QED BY <1>1, <1>3, <1>4, <1>5, <1>7, <1>8

LEMMA CreateTypes ==
    ASSUME TypeOK, NEW k \in Keys, NextId \in Ids
    PROVE  /\ Enter(k) \in Stores /\ ActiveOwned(Enter(k))
           /\ Create(k) \in Stores /\ ActiveOwned(Create(k))
           /\ Enter(k).counter = NextId /\ Create(k).counter = NextId
           /\ Enter(k).rec = mem.rec /\ Create(k).rec = mem.rec
           /\ Known(mem) \subseteq Known(Enter(k)) /\ Known(mem) \subseteq Known(Create(k))
<1> USE DEF TypeOK
<1>1. /\ Enter(k) \in Stores /\ ActiveOwned(Enter(k)) /\ Enter(k).rec = mem.rec
      /\ Enter(k).counter = NextId
      /\ \A j \in Keys : mem.owned[j] \subseteq Enter(k).owned[j]
  <2> DEFINE m == [mem EXCEPT !.counter = NextId]
             o == [m.owned EXCEPT ![k] = mem.owned[k] \cup {NextId}]
             e == [m EXCEPT !.owned = o]
  <2>1. /\ m \in Stores /\ m.counter = NextId /\ m.owned = mem.owned
        /\ m.active = mem.active /\ m.rec = mem.rec
    BY DEF Stores, Ids
  <2>2. Enter(k) = e
    BY DEF Enter
  <2>3. m.owned \in [Keys -> SUBSET Ids] /\ mem.owned \in [Keys -> SUBSET Ids]
    BY <2>1 DEF Stores
  <2> HIDE DEF m
  <2>4. o \in [Keys -> SUBSET Ids] /\ \A j \in Keys : mem.owned[j] \subseteq o[j]
    BY <2>1, <2>3
  <2> HIDE DEF o
  <2>5. /\ e.counter = NextId /\ e.owned = o /\ e.active = mem.active /\ e.rec = mem.rec
        /\ e \in Stores
    BY <2>1, <2>4 DEF Stores
  <2> HIDE DEF e
  <2>6. ActiveOwned(e)
    BY <2>4, <2>5 DEF ActiveOwned
  <2> QED BY <2>2, <2>4, <2>5, <2>6
<1>2. /\ Create(k) \in Stores /\ ActiveOwned(Create(k)) /\ Create(k).rec = mem.rec
      /\ Create(k).counter = NextId
      /\ \A j \in Keys : mem.owned[j] \subseteq Create(k).owned[j]
  <2> DEFINE e == Enter(k)
             a == [e.active EXCEPT ![k] = NextId]
             f == [e EXCEPT !.active = a]
  <2>1. Create(k) = f
    BY DEF Create
  <2>2. NextId \in e.owned[k]
    <3> DEFINE m == [mem EXCEPT !.counter = NextId]
    <3>1. m \in Stores /\ m.owned \in [Keys -> SUBSET Ids]
      BY DEF Stores, Ids
    <3>2. e = [m EXCEPT !.owned = [m.owned EXCEPT ![k] = mem.owned[k] \cup {NextId}]]
      BY DEF Enter
    <3> HIDE DEF m, e
    <3>3. e.owned = [m.owned EXCEPT ![k] = mem.owned[k] \cup {NextId}]
      BY <3>1, <3>2 DEF Stores
    <3> QED BY <3>1, <3>3
  <2> HIDE DEF e
  <2>3. a \in [Keys -> Ids \cup {Nil}] /\ \A j \in Keys : a[j] = IF j = k THEN NextId ELSE e.active[j]
    BY <1>1 DEF e, Stores
  <2> HIDE DEF a
  <2>4. /\ f.counter = NextId /\ f.owned = e.owned /\ f.rec = mem.rec /\ f.active = a
        /\ f \in Stores
    BY <1>1, <2>3 DEF Stores, e
  <2> HIDE DEF f
  <2>5. ActiveOwned(f)
    BY <1>1, <2>2, <2>3, <2>4 DEF ActiveOwned, e
  <2> QED BY <1>1, <2>1, <2>4, <2>5 DEF e
<1> QED BY <1>1, <1>2, KnownGrows

-----------------------------------------------------------------------------
(* Kinds of steps                                                          *)

(* What a writer's step leaves of the invariant: memory and file are       *)
(* saved together, and no save is under way when it starts or ends.        *)
Saved ==
    /\ mem' \in Stores /\ ActiveOwned(mem')
    /\ disk' \in Stores /\ ActiveOwned(disk')
    /\ mem'.counter = issued' /\ SameShape(disk', mem')
    /\ Known(disk') \subseteq Known(mem')
    /\ issued' \in Nat

(* A session that is added: it has the next number, which counts as issued. *)
LEMMA AddLeaves ==
    ASSUME IInv, NEW s \in Stores, ActiveOwned(s), s.counter = NextId, AddSession(s)
    PROVE  /\ Saved /\ Known(mem') = Known(s) /\ mem'.rec = s.rec
           /\ NextId \in Ids
  BY SaveLeaves DEF AddSession, Saved, SameShape, IInv, TypeOK, IdsNeverReused, NextId

LEMMA EnsureLeaves ==
    ASSUME IInv, NEW k \in Keys, EnsureActive(k)
    PROVE  /\ Saved /\ Known(mem) \subseteq Known(mem') /\ EnsuredId(k) \in Ids
<1>1. CASE mem.active[k] # Nil
  <2>1. UNCHANGED <<mem, disk, issued>>
    BY <1>1 DEF EnsureActive
  <2>2. mem.active[k] \in Ids
    BY <1>1 DEF IInv, TypeOK, Stores
  <2> QED BY <1>1, <2>1, <2>2 DEF Saved, IInv, TypeOK, IdsNeverReused, DiskFollows, SameShape, EnsuredId
<1>2. CASE mem.active[k] = Nil
  <2>1. AddSession(Create(k)) /\ EnsuredId(k) = NextId
    BY <1>2 DEF EnsureActive, EnsuredId
  <2>2. NextId \in Ids
    BY <2>1 DEF AddSession
  <2> QED BY <2>1, <2>2, AddLeaves, CreateTypes DEF IInv, Saved
<1> QED BY <1>1, <1>2

(* No save was under way, and none is after a step of w. *)
NoSave == \A v \in Workers : work[v].copied = {} /\ ~On(v, "write")

LEMMA WriterStep ==
    ASSUME IInv, NEW w \in Workers, WriteLock, Saved,
           NEW r \in Works, work' = [work EXCEPT ![w] = r], r.copied = {}, r.pc # "write",
           r.pc \in {"start", "report", "clear"} => r.ref \in Ids,
           r.task = "new" => r.key \in Keys,
           r.pc = "create" => r.task = "new",
           kind' \in Kinds, made' \subseteq Convs, restarts' \in 0 .. MaxRestarts
    PROVE  IInv'
<1>1. TypeOK'
  BY DEF IInv, TypeOK, Saved
<1>2. IdsNeverReused' /\ DiskFollows'
  BY DEF Saved, SameShape, IdsNeverReused, DiskFollows
<1>3. ASSUME NEW v \in Workers PROVE (FileAt(v) /\ CopiesAt(v) /\ PlaceAt(v))'
  <2>1. work'[v] = IF v = w THEN r ELSE work[v]
    BY DEF IInv, TypeOK
  <2>2. work'[v].copied = {} /\ work'[v].pc # "write"
    BY <2>1 DEF WriteLock, On
  <2>3. PlaceAt(v)'
    BY <2>1 DEF IInv, PlaceAt, On
  <2> QED BY <2>2, <2>3 DEF FileAt, CopiesAt, On
<1> QED BY <1>1, <1>2, <1>3 DEF IInv

(* A step that changes sessions' fields or a worker's place only: nothing  *)
(* becomes unknown, and the other saves go on as they were.                *)
LEMMA FieldStep ==
    ASSUME IInv, NEW w \in Workers, mem' \in Stores, SameShape(mem', mem),
           Known(mem) \subseteq Known(mem'), UNCHANGED <<disk, kind, issued, restarts>>,
           made' \subseteq Convs,
           NEW r \in Works, work' = [work EXCEPT ![w] = r],
           (FileAt(w) /\ CopiesAt(w) /\ PlaceAt(w))'
    PROVE  IInv'
<1>1. TypeOK'
  BY DEF IInv, TypeOK, ActiveOwned, SameShape
<1>2. IdsNeverReused' /\ DiskFollows'
  BY DEF IInv, SameShape, IdsNeverReused, DiskFollows
<1>3. ASSUME NEW v \in Workers PROVE (FileAt(v) /\ CopiesAt(v) /\ PlaceAt(v))'
  <2>1. CASE v = w
    BY <2>1
  <2>2. CASE v # w
    <3>1. work'[v] = work[v] /\ Live(mem') = Live(mem)
      BY <2>2 DEF IInv, TypeOK, Live, SameShape
    <3> QED BY <3>1 DEF IInv, FileAt, CopiesAt, PlaceAt, On, SameShape
  <2> QED BY <2>1, <2>2
<1> QED BY <1>1, <1>2, <1>3 DEF IInv

-----------------------------------------------------------------------------
(* The steps                                                               *)

Kept == Known(mem) \subseteq Known(mem')

LEMMA IdleWork == Idle \in Works /\ Blank \in Recs
  BY DEF Idle, Works, Blank, Recs

LEMMA TakeUpStep ==
    ASSUME IInv, Saved, NEW w \in Workers, NEW t \in {"turn", "new", "reset"}, NEW k \in Keys,
           NEW i \in Ids, NEW l \in {"start", "clear"}, TakeUp(w, t, k, i, l),
           UNCHANGED <<kind, made, restarts>>
    PROVE  IInv'
<1> DEFINE r == [Idle EXCEPT !.pc = l, !.task = t, !.key = k, !.ref = i]
<1>1. r \in Works /\ r.copied = {} /\ r.pc = l /\ r.task = t /\ r.key = k /\ r.ref = i
  BY IdleWork DEF Idle, Works
<1>2. WriteLock /\ work' = [work EXCEPT ![w] = r]
  BY DEF TakeUp
<1> HIDE DEF r
<1>3. kind' \in Kinds /\ made' \subseteq Convs /\ restarts' \in 0 .. MaxRestarts
  BY DEF IInv, TypeOK
<1> QED BY <1>1, <1>2, <1>3, WriterStep

LEMMA TurnSteps ==
    ASSUME IInv, NEW w \in Workers, NEW k \in Keys, Turn(w, k) \/ SideTurn(w, k)
    PROVE  IInv' /\ Kept
<1>1. CASE Turn(w, k)
  <2>1. Saved /\ Kept /\ EnsuredId(k) \in Ids
    BY <1>1, EnsureLeaves DEF Turn, Kept
  <2> QED BY <1>1, <2>1, TakeUpStep DEF Turn
<1>2. CASE SideTurn(w, k)
  <2>1. NextId \in Ids
    BY <1>2 DEF SideTurn, AddSession
  <2>2. Saved /\ Kept
    BY <1>2, <2>1, AddLeaves, CreateTypes DEF SideTurn, Kept, IInv
  <2> QED BY <1>2, <2>1, <2>2, TakeUpStep DEF SideTurn
<1> QED BY <1>1, <1>2

LEMMA ResetStep ==
    ASSUME IInv, NEW w \in Workers, NEW k \in Keys, NEW t \in {"new", "reset"}, Reset(w, k, t)
    PROVE  IInv' /\ Kept
<1>1. Saved /\ Kept /\ EnsuredId(k) \in Ids
  BY EnsureLeaves DEF Reset, Kept
<1> QED BY <1>1, TakeUpStep DEF Reset

LEMMA NewSessionStep ==
    ASSUME IInv, NEW w \in Workers, NewSession(w)
    PROVE  IInv' /\ Kept
<1>1. work[w].key \in Keys
  BY DEF NewSession, IInv, PlaceAt
<1>2. NextId \in Ids
  BY DEF NewSession, AddSession
<1>3. Saved /\ Kept
  BY <1>1, <1>2, AddLeaves, CreateTypes DEF NewSession, Kept, IInv
<1> QED BY <1>3, IdleWork, WriterStep DEF NewSession, Rest, Idle, IInv, TypeOK

LEMMA SwitchStep ==
    ASSUME IInv, NEW w \in Workers, NEW k \in Keys, NEW c \in Convs, Switch(w, k, c)
    PROVE  IInv' /\ Kept
<1> DEFINE old(i) == [mem EXCEPT !.active[k] = i]
           new == [Create(k) EXCEPT !.rec[NextId] = SetConv(@, c, kind)]
<1>1. work[w] \in Works /\ work' = [work EXCEPT ![w] = work[w]]
  BY DEF Switch, IInv, TypeOK
<1>2. work[w].copied = {} /\ work[w].pc # "write" /\ PlaceAt(w)
  BY DEF Switch, WriteLock, On, IInv
<1>3. ASSUME NEW i \in mem.owned[k], SaveLocked(old(i)), issued' = issued
      PROVE  Saved /\ Kept
  <2>1. /\ old(i) \in Stores /\ ActiveOwned(old(i)) /\ old(i).counter = mem.counter
        /\ old(i).owned = mem.owned /\ old(i).rec = mem.rec
    <3>1. mem \in Stores /\ i \in Ids
      BY DEF IInv, TypeOK, Stores
    <3>2. mem.active \in [Keys -> Ids \cup {Nil}]
      BY <3>1 DEF Stores
    <3> DEFINE a == [mem.active EXCEPT ![k] = i]
    <3>3. a \in [Keys -> Ids \cup {Nil}] /\ \A j \in Keys : a[j] = IF j = k THEN i ELSE mem.active[j]
      BY <3>1, <3>2
    <3> HIDE DEF a
    <3> DEFINE o == [mem EXCEPT !.active = a]
    <3>4. o \in Stores /\ o.counter = mem.counter /\ o.owned = mem.owned /\ o.rec = mem.rec /\ o.active = a
      BY <3>1, <3>3 DEF Stores
    <3>5. old(i) = o
      BY DEF a
    <3> HIDE DEF o, old
    <3>6. ActiveOwned(o)
      BY <3>3, <3>4 DEF ActiveOwned, IInv, TypeOK
    <3> QED BY <3>4, <3>5, <3>6
  <2> HIDE DEF old
  <2>2. Known(old(i)) = Known(mem)
    BY <2>1 DEF Known, Live
  <2> QED BY <1>3, <2>1, <2>2, SaveLeaves DEF Saved, Kept, SameShape, IInv, IdsNeverReused, TypeOK
<1>4. ASSUME AddSession(new) PROVE Saved /\ Kept
  <2>1. NextId \in Ids
    BY <1>4 DEF AddSession
  <2> DEFINE n == Create(k)
             q == [n.rec EXCEPT ![NextId] = SetConv(n.rec[NextId], c, kind)]
             o == [n EXCEPT !.rec = q]
  <2>2. /\ n \in Stores /\ ActiveOwned(n) /\ n.counter = NextId /\ n.rec = mem.rec
        /\ Known(mem) \subseteq Known(n)
    BY <2>1, CreateTypes DEF IInv
  <2>3. new = o
    OBVIOUS
  <2> HIDE DEF n, new
  <2>4. n.rec \in [Ids -> Recs] /\ kind \in Kinds
    BY <2>2 DEF Stores, IInv, TypeOK
  <2>5. SetConv(n.rec[NextId], c, kind) \in Recs /\ Named(n.rec[NextId]) \subseteq Named(SetConv(n.rec[NextId], c, kind))
    BY <2>1, <2>4, SetConvNames
  <2>6. q \in [Ids -> Recs] /\ \A i \in Ids : Named(n.rec[i]) \subseteq Named(q[i])
    BY <2>1, <2>4, <2>5
  <2> HIDE DEF q
  <2>7. /\ o \in Stores /\ o.counter = NextId /\ o.owned = n.owned /\ o.active = n.active /\ o.rec = q
    BY <2>2, <2>6 DEF Stores
  <2> HIDE DEF o
  <2>8. ActiveOwned(o)
    BY <2>2, <2>7 DEF ActiveOwned
  <2>9. Known(n) \subseteq Known(o)
    BY <2>2, <2>6, <2>7, LiveIds, KnownGrows
  <2> QED BY <1>4, <2>2, <2>3, <2>7, <2>8, <2>9, AddLeaves DEF Kept
<1> HIDE DEF old, new
<1>5. Saved /\ Kept
  BY <1>3, <1>4 DEF Switch, old, new
<1> QED BY <1>1, <1>2, <1>5, WriterStep DEF Switch, IInv, TypeOK, PlaceAt, On

LEMMA DeleteStep ==
    ASSUME IInv, NEW w \in Workers, NEW k \in Keys, NEW c \in Convs, Delete(w, k, c)
    PROVE  IInv' /\ Kept
<1> DEFINE r == [work[w] EXCEPT !.pc = "forget", !.task = "delete", !.conv = c]
<1>1. work[w] \in Works /\ work[w].copied = {}
  BY DEF Delete, WriteLock, IInv, TypeOK
<1>2. r \in Works /\ r.copied = {} /\ r.pc = "forget" /\ r.task = "delete"
  BY <1>1 DEF Works
<1>3. work' = [work EXCEPT ![w] = r]
  BY DEF Delete
<1> HIDE DEF r
<1>4. kind' \in Kinds /\ made' \subseteq Convs /\ restarts' \in 0 .. MaxRestarts
  BY DEF Delete, IInv, TypeOK
<1>5. Saved /\ Kept
  BY EnsureLeaves DEF Delete, Kept
<1> QED BY <1>2, <1>3, <1>4, <1>5, WriterStep DEF Delete

LEMMA ForgetStep ==
    ASSUME IInv, NEW w \in Workers, Forget(w)
    PROVE  IInv' /\ On(w, "forget") /\ work'[w].pc # "forget"
<1> DEFINE gone == {i \in Live(mem) : mem.rec[i].conv = work[w].conv}
<1>1. ASSUME SaveLocked(Without(gone)), issued' = issued PROVE Saved
  <2> HIDE DEF gone
  <2> DEFINE o == [k \in Keys |-> mem.owned[k] \ gone]
             a == [k \in Keys |-> IF mem.active[k] \in gone THEN Nil ELSE mem.active[k]]
             m == [mem EXCEPT !.owned = o]
             s == [m EXCEPT !.active = a]
  <2>1. mem \in Stores /\ ActiveOwned(mem)
    BY DEF IInv, TypeOK
  <2>2. o \in [Keys -> SUBSET Ids] /\ a \in [Keys -> Ids \cup {Nil}]
    BY <2>1 DEF Stores
  <2>3. \A k \in Keys : a[k] \in o[k] \cup {Nil}
    BY <2>1 DEF ActiveOwned
  <2>4. Without(gone) = s
    BY DEF Without
  <2> HIDE DEF o, a
  <2>5. m \in Stores /\ m.owned = o /\ m.counter = mem.counter
    BY <2>1, <2>2 DEF Stores
  <2> HIDE DEF m
  <2>6. s \in Stores /\ s.counter = mem.counter /\ s.owned = o /\ s.active = a
    BY <2>2, <2>5 DEF Stores
  <2> HIDE DEF s
  <2>7. ActiveOwned(s)
    BY <2>3, <2>6 DEF ActiveOwned
  <2> QED BY <1>1, <2>4, <2>6, <2>7, SaveLeaves DEF Saved, SameShape, IInv, IdsNeverReused, TypeOK
<1>2. ASSUME UNCHANGED <<mem, disk, issued>> PROVE Saved
  BY <1>2 DEF Saved, IInv, TypeOK, IdsNeverReused, DiskFollows, SameShape
<1>3. Saved
  BY <1>1, <1>2 DEF Forget
<1>4. kind' \in Kinds /\ made' \subseteq Convs /\ restarts' \in 0 .. MaxRestarts
  BY DEF Forget, IInv, TypeOK
<1>5. Idle.copied = {} /\ Idle.pc = "idle" /\ Idle.task = "none"
  BY DEF Idle
<1>6. work' = [work EXCEPT ![w] = Idle] /\ WriteLock
  BY DEF Forget, Rest
<1>7. IInv'
  BY <1>3, <1>4, <1>5, <1>6, IdleWork, WriterStep
<1> QED BY <1>5, <1>6, <1>7 DEF Forget, IInv, TypeOK

(* A worker that is not writing its file keeps what it has copied. *)
LEMMA PlaceStep ==
    ASSUME IInv, NEW w \in Workers, UNCHANGED <<mem, disk, kind, issued, restarts>>,
           made' \subseteq Convs,
           NEW r \in Works, work' = [work EXCEPT ![w] = r], r.pc # "write",
           r.copied = work[w].copied, r.snap = work[w].snap,
           r.pc \in {"start", "report", "clear"} => r.ref \in Ids,
           r.task = "new" => r.key \in Keys,
           r.pc = "create" => r.task = "new"
    PROVE  IInv' /\ Kept
<1>1. work'[w] = r
  BY DEF IInv, TypeOK
<1>2. (FileAt(w) /\ CopiesAt(w) /\ PlaceAt(w))'
  BY <1>1 DEF IInv, FileAt, CopiesAt, PlaceAt, On
<1>3. mem' \in Stores /\ SameShape(mem', mem) /\ Kept
  BY DEF IInv, TypeOK, SameShape, Kept
<1> QED BY <1>2, <1>3, FieldStep DEF Kept

LEMMA StartSteps ==
    ASSUME IInv, NEW w \in Workers, NEW c \in Convs, StartAgent(w, c)
    PROVE  IInv' /\ Kept
<1> DEFINE r == [work[w] EXCEPT !.pc = "report", !.conv = c]
<1>1. work[w] \in Works /\ PlaceAt(w) /\ work[w].pc = "start"
  BY DEF StartAgent, On, IInv, TypeOK
<1>2. /\ r \in Works /\ r.pc = "report" /\ r.copied = work[w].copied /\ r.snap = work[w].snap
      /\ r.ref = work[w].ref /\ r.task = work[w].task /\ r.key = work[w].key
  BY <1>1 DEF Works
<1>3. work' = [work EXCEPT ![w] = r] /\ made' \subseteq Convs
  BY DEF StartAgent, IInv, TypeOK
<1> HIDE DEF r
<1> QED BY <1>1, <1>2, <1>3, PlaceStep DEF StartAgent, PlaceAt

LEMMA ReportStep ==
    ASSUME IInv, NEW w \in Workers, Report(w)
    PROVE  IInv' /\ Kept
<1> DEFINE i == work[w].ref
           x == [mem.rec[i] EXCEPT !.conv = work[w].conv]
           y == [x EXCEPT !.kind = kind]
           q == [mem.rec EXCEPT ![i] = y]
           r == [work[w] EXCEPT !.pc = "save", !.conv = Nil]
<1>1. work[w] \in Works /\ PlaceAt(w) /\ work[w].pc = "report" /\ work[w] = work[w]
  BY DEF Report, On, IInv, TypeOK
<1>2. /\ r \in Works /\ r.pc = "save" /\ r.copied = work[w].copied /\ r.snap = work[w].snap
      /\ r.ref = work[w].ref /\ r.task = work[w].task /\ r.key = work[w].key
  BY <1>1 DEF Works
<1>3. work' = [work EXCEPT ![w] = r] /\ made' \subseteq Convs
  BY DEF Report, IInv, TypeOK
<1>4. mem \in Stores /\ mem.rec \in [Ids -> Recs] /\ i \in Ids /\ kind \in Kinds
  BY <1>1 DEF IInv, TypeOK, Stores, PlaceAt
<1>5. mem' \in Stores /\ SameShape(mem', mem) /\ Kept
  <2>1. CASE mem.rec[i].conv # Nil
    BY <1>4, <2>1 DEF Report, SameShape, Kept
  <2>2. CASE mem.rec[i].conv = Nil
    <3>1. mem' = [mem EXCEPT !.rec = [mem.rec EXCEPT ![i] = [[mem.rec[i] EXCEPT !.conv = work[w].conv] EXCEPT !.kind = kind]]]
      <4>1. mem' = [mem EXCEPT !.rec[i].conv = work[w].conv, !.rec[i].kind = kind]
        BY <2>2 DEF Report
      <4> DEFINE z == [mem.rec EXCEPT ![i] = [mem.rec[i] EXCEPT !.conv = work[w].conv]]
                 m == [mem EXCEPT !.rec = z]
      <4>2. mem' = [m EXCEPT !.rec = [m.rec EXCEPT ![i] = [m.rec[i] EXCEPT !.kind = kind]]]
        BY <4>1
      <4>3. z[i] = [mem.rec[i] EXCEPT !.conv = work[w].conv]
        BY <1>4
      <4>4. [z EXCEPT ![i] = [z[i] EXCEPT !.kind = kind]] = [mem.rec EXCEPT ![i] = [z[i] EXCEPT !.kind = kind]]
        BY <1>4
      <4> HIDE DEF z
      <4>5. m.rec = z
        BY <1>4 DEF Stores
      <4>6. \A n : [m EXCEPT !.rec = n] = [mem EXCEPT !.rec = n]
        BY <1>4 DEF Stores
      <4> HIDE DEF m
      <4>7. m.rec[i] = z[i]
        BY <4>5
      <4>8. mem' = [m EXCEPT !.rec = [mem.rec EXCEPT ![i] = [z[i] EXCEPT !.kind = kind]]]
        BY <4>2, <4>4, <4>5
      <4> QED BY <4>3, <4>6, <4>8
    <3>2. x \in Recs /\ x.past = mem.rec[i].past /\ x.conv = work[w].conv
      BY <1>1, <1>4 DEF Recs, Works
    <3> HIDE DEF x
    <3>3. y \in Recs /\ Named(mem.rec[i]) \subseteq Named(y)
      BY <1>4, <2>2, <3>2 DEF Recs, Named
    <3> HIDE DEF y
    <3>4. q \in [Ids -> Recs] /\ \A j \in Ids : Named(mem.rec[j]) \subseteq Named(q[j])
      BY <1>4, <3>3
    <3>5. mem' = [mem EXCEPT !.rec = q]
      BY <3>1 DEF x, y
    <3> HIDE DEF q
    <3>6. mem' \in Stores /\ SameShape(mem', mem) /\ mem'.rec = q
      BY <1>4, <3>4, <3>5 DEF Stores, SameShape
    <3> QED BY <1>4, <3>4, <3>6, LiveIds, KnownGrows DEF SameShape, Kept
  <2> QED BY <2>1, <2>2
<1> HIDE DEF r, i
<1>6. (FileAt(w) /\ CopiesAt(w) /\ PlaceAt(w))'
  <2>1. work'[w] = r /\ Live(mem') = Live(mem)
    BY <1>3, <1>5 DEF IInv, TypeOK, Live, SameShape
  <2> QED BY <1>1, <1>2, <1>5, <2>1 DEF IInv, FileAt, CopiesAt, PlaceAt, On, Kept
<1> QED BY <1>2, <1>3, <1>5, <1>6, FieldStep DEF Report, Kept

LEMMA StartFailsStep ==
    ASSUME IInv, NEW w \in Workers, StartFails(w)
    PROVE  IInv' /\ Kept
<1>1. /\ Idle.copied = {} /\ Idle.pc = "idle" /\ Idle.task = "none"
  BY DEF Idle
<1>2. work' = [work EXCEPT ![w] = Idle] /\ made' \subseteq Convs
  BY DEF StartFails, Rest, IInv, TypeOK
<1>3. work'[w] = Idle
  BY <1>2 DEF IInv, TypeOK
<1>4. (FileAt(w) /\ CopiesAt(w) /\ PlaceAt(w))'
  BY <1>1, <1>3 DEF FileAt, CopiesAt, PlaceAt, On
<1>5. mem' \in Stores /\ SameShape(mem', mem) /\ Kept
  BY DEF StartFails, IInv, TypeOK, SameShape, Kept
<1> QED BY <1>2, <1>4, <1>5, IdleWork, FieldStep DEF StartFails, Kept

LEMMA ClearStep ==
    ASSUME IInv, NEW w \in Workers, Clear(w)
    PROVE  IInv' /\ Kept
<1> DEFINE i == work[w].ref
           y == SetConv(mem.rec[i], Nil, Nil)
           q == [mem.rec EXCEPT ![i] = y]
           r == [work[w] EXCEPT !.pc = "save", !.ref = Nil]
<1>1. work[w] \in Works /\ PlaceAt(w) /\ work[w].pc = "clear"
  BY DEF Clear, On, IInv, TypeOK
<1>2. /\ r \in Works /\ r.pc = "save" /\ r.copied = work[w].copied /\ r.snap = work[w].snap
      /\ r.task = work[w].task /\ r.key = work[w].key
  BY <1>1 DEF Works
<1>3. work' = [work EXCEPT ![w] = r] /\ made' \subseteq Convs
  BY DEF Clear, IInv, TypeOK
<1>4. mem \in Stores /\ mem.rec \in [Ids -> Recs] /\ i \in Ids
  BY <1>1 DEF IInv, TypeOK, Stores, PlaceAt
<1>5. mem' = [mem EXCEPT !.rec = q]
  BY DEF Clear
<1>6. y \in Recs /\ Named(mem.rec[i]) \subseteq Named(y)
  BY <1>4, SetConvNames
<1> HIDE DEF i, y, r
<1>7. q \in [Ids -> Recs] /\ \A j \in Ids : Named(mem.rec[j]) \subseteq Named(q[j])
  BY <1>4, <1>6
<1> HIDE DEF q
<1>8. mem' \in Stores /\ SameShape(mem', mem) /\ mem'.rec = q
  BY <1>4, <1>5, <1>7 DEF Stores, SameShape
<1>9. Kept /\ Live(mem') = Live(mem)
  BY <1>4, <1>7, <1>8, LiveIds, KnownGrows DEF SameShape, Kept, Live
<1>10. (FileAt(w) /\ CopiesAt(w) /\ PlaceAt(w))'
  <2>1. work'[w] = r
    BY <1>3 DEF IInv, TypeOK
  <2> QED BY <1>1, <1>2, <1>9, <2>1 DEF IInv, FileAt, CopiesAt, PlaceAt, On, Kept
<1> QED BY <1>2, <1>3, <1>8, <1>9, <1>10, FieldStep DEF Clear, Kept

LEMMA CopyStep ==
    ASSUME IInv, NEW w \in Workers, NEW i \in Ids, Copy(w, i)
    PROVE  IInv' /\ Kept
<1> DEFINE sn == [work[w].snap EXCEPT ![i] = mem.rec[i]]
           r == [[work[w] EXCEPT !.copied = work[w].copied \cup {i}] EXCEPT !.snap = sn]
<1>1. work[w] \in Works /\ PlaceAt(w) /\ CopiesAt(w) /\ work[w].pc = "save"
  BY DEF Copy, On, IInv, TypeOK
<1>2. mem \in Stores /\ mem.rec \in [Ids -> Recs] /\ work[w].snap \in [Ids -> Recs]
  BY <1>1 DEF IInv, TypeOK, Stores, Works
<1>3. i \in Live(mem) /\ Named(mem.rec[i]) \subseteq Known(mem)
  BY DEF Copy, Known
<1>4. work' = [work EXCEPT ![w] = r]
  BY DEF Copy
<1>5. sn \in [Ids -> Recs] /\ \A j \in Ids : sn[j] = IF j = i THEN mem.rec[i] ELSE work[w].snap[j]
  BY <1>2
<1> HIDE DEF sn
<1>6. /\ r \in Works /\ r.pc = "save" /\ r.copied = work[w].copied \cup {i} /\ r.snap = sn
      /\ r.task = work[w].task /\ r.key = work[w].key
  <2> DEFINE x == [work[w] EXCEPT !.copied = work[w].copied \cup {i}]
  <2>1. /\ x \in Works /\ x.pc = "save" /\ x.copied = work[w].copied \cup {i}
        /\ x.task = work[w].task /\ x.key = work[w].key
    BY <1>1 DEF Works
  <2> HIDE DEF x
  <2>2. r = [x EXCEPT !.snap = sn]
    BY DEF x
  <2> HIDE DEF r
  <2> QED BY <1>5, <2>1, <2>2 DEF Works
<1> HIDE DEF r
<1>7. mem' \in Stores /\ SameShape(mem', mem) /\ Kept /\ UNCHANGED <<mem, disk, kind, issued, restarts>> /\ made' \subseteq Convs
  BY DEF Copy, IInv, TypeOK, SameShape, Kept
<1>8. (FileAt(w) /\ CopiesAt(w) /\ PlaceAt(w))'
  <2>1. work'[w] = r
    BY <1>4 DEF IInv, TypeOK
  <2>2. work[w].copied \subseteq Ids
    BY <1>1 DEF Works
  <2> QED BY <1>1, <1>3, <1>5, <1>6, <1>7, <2>1, <2>2 DEF FileAt, CopiesAt, PlaceAt, On
<1> QED BY <1>4, <1>6, <1>7, <1>8, FieldStep DEF Kept

LEMMA CopyLastStep ==
    ASSUME IInv, NEW w \in Workers, CopyLast(w)
    PROVE  IInv' /\ Kept
<1> DEFINE last == Live(mem) \ work[w].copied
           snap == [i \in Ids |-> IF i \in last THEN mem.rec[i] ELSE work[w].snap[i]]
           b == mem.legacy /\ Untracked(snap, Live(mem))
           f == [mem' EXCEPT !.rec = snap]
           r == [Idle EXCEPT !.pc = "write", !.task = work[w].task, !.key = work[w].key,
                             !.ref = work[w].ref, !.file = f]
<1>1. work[w] \in Works /\ PlaceAt(w) /\ CopiesAt(w)
  BY DEF IInv, TypeOK
<1>2. mem \in Stores /\ mem.rec \in [Ids -> Recs] /\ work[w].snap \in [Ids -> Recs]
  BY <1>1 DEF IInv, TypeOK, Stores, Works
<1>3. work' = [work EXCEPT ![w] = r]
  BY DEF CopyLast
<1>4. mem' = [mem EXCEPT !.legacy = b]
  BY DEF CopyLast
<1>5. b \in BOOLEAN
  BY <1>2 DEF Stores, Untracked
<1> HIDE DEF b
<1>6. mem' \in Stores /\ SameShape(mem', mem) /\ mem'.rec = mem.rec
  BY <1>2, <1>4, <1>5 DEF Stores, SameShape
<1>7. Known(mem') = Known(mem) /\ Live(mem') = Live(mem)
  BY <1>6 DEF Known, Live, SameShape
<1>8. snap \in [Ids -> Recs]
  BY <1>2
<1>9. \A i \in Live(mem) : Named(snap[i]) \subseteq Known(mem)
  BY <1>1, <1>2, LiveIds DEF CopiesAt, Known
<1> HIDE DEF snap
<1>10. f \in Stores /\ SameShape(f, mem) /\ f.rec = snap
  BY <1>6, <1>8 DEF Stores, SameShape
<1> HIDE DEF f
<1>11. Known(f) \subseteq Known(mem)
  <2>1. Live(f) = Live(mem)
    BY <1>10 DEF Live, SameShape
  <2> QED BY <1>9, <1>10, <2>1 DEF Known
<1>12. r \in Works /\ r.pc = "write" /\ r.copied = {} /\ r.file = f /\ r.task = work[w].task /\ r.key = work[w].key
  BY <1>1, <1>10, IdleWork DEF Works, Idle
<1> HIDE DEF r
<1>13. (FileAt(w) /\ CopiesAt(w) /\ PlaceAt(w))'
  <2>1. work'[w] = r
    BY <1>3 DEF IInv, TypeOK
  <2> QED BY <1>1, <1>6, <1>7, <1>10, <1>11, <1>12, <2>1 DEF FileAt, CopiesAt, PlaceAt, On, SameShape
<1>14. made' \subseteq Convs
  BY DEF CopyLast, IInv, TypeOK
<1> QED BY <1>3, <1>6, <1>7, <1>12, <1>13, <1>14, FieldStep DEF CopyLast, Kept

LEMMA WriteStep ==
    ASSUME IInv, NEW w \in Workers, Write(w)
    PROVE  IInv' /\ Kept
<1> DEFINE r == IF work[w].task = "new" THEN [Idle EXCEPT !.pc = "create", !.task = "new", !.key = work[w].key]
                ELSE Idle
<1>1. work[w] \in Works /\ PlaceAt(w) /\ FileAt(w) /\ work[w].pc = "write"
  BY DEF Write, On, IInv, TypeOK
<1>2. work' = [work EXCEPT ![w] = r]
  BY DEF Write, Rest
<1>3. /\ r \in Works /\ r.copied = {} /\ r.pc \in {"idle", "create"}
      /\ r.pc = "create" => r.task = "new"
      /\ r.task = "new" => r.key \in Keys
  <2>1. CASE work[w].task = "new"
    BY <1>1, <2>1, IdleWork DEF PlaceAt, Works, Idle
  <2>2. CASE work[w].task # "new"
    BY <2>2, IdleWork DEF Idle
  <2> QED BY <2>1, <2>2
<1> HIDE DEF r
<1>4. disk' \in Stores /\ SameShape(disk', mem) /\ Known(disk') \subseteq Known(mem) /\ mem' = mem
  BY <1>1 DEF Write, FileAt, On
<1>5. TypeOK'
  BY <1>2, <1>3, <1>4 DEF Write, IInv, TypeOK, ActiveOwned, SameShape
<1>6. IdsNeverReused' /\ DiskFollows'
  BY <1>4 DEF Write, IInv, IdsNeverReused, DiskFollows, SameShape
<1>7. ASSUME NEW v \in Workers PROVE (FileAt(v) /\ CopiesAt(v) /\ PlaceAt(v))'
  <2>1. work'[v] = IF v = w THEN r ELSE work[v]
    BY <1>2 DEF IInv, TypeOK
  <2> QED BY <1>3, <1>4, <2>1 DEF IInv, FileAt, CopiesAt, PlaceAt, On
<1> QED BY <1>4, <1>5, <1>6, <1>7 DEF IInv, Kept

(* A crash keeps only the file, which is a store of its own, and starts    *)
(* with workers that have copied nothing.                                  *)
LEMMA RestartStep ==
    ASSUME IInv, NEW t \in Kinds, Restart(t)
    PROVE  IInv' /\ restarts' # restarts
<1> DEFINE back == \E i \in Ids : Foreign(disk.rec[i], t)
           q == [i \in Ids |-> IF Foreign(disk.rec[i], t) THEN SetConv(disk.rec[i], Nil, t) ELSE disk.rec[i]]
           s == [disk EXCEPT !.rec = q]
<1>0. issued' = issued /\ issued \in Nat /\ kind' = t /\ made' = made
      /\ restarts \in 0 .. MaxRestarts /\ restarts < MaxRestarts /\ restarts' = restarts + 1
      /\ work' = [w \in Workers |-> Idle]
  BY DEF Restart, IInv, TypeOK
<1>1. disk \in Stores /\ ActiveOwned(disk) /\ disk.rec \in [Ids -> Recs] /\ disk.counter = issued
  BY DEF IInv, TypeOK, Stores, IdsNeverReused
<1>2. q \in [Ids -> Recs]
  BY <1>1, SetConvNames
<1>3. ASSUME back PROVE Saved
  <2>1. SaveLocked(s)
    BY <1>3 DEF Restart
  <2> HIDE DEF q
  <2>2. s \in Stores /\ SameShape(s, disk)
    BY <1>1, <1>2 DEF Stores, SameShape
  <2> HIDE DEF s
  <2>3. ActiveOwned(s)
    BY <1>1, <2>2 DEF ActiveOwned, SameShape
  <2> QED BY <1>1, <1>0, <2>1, <2>2, <2>3, SaveLeaves DEF Saved, SameShape
<1>4. ASSUME ~back PROVE Saved
  <2>1. mem' = disk /\ disk' = disk
    BY <1>4 DEF Restart
  <2> QED BY <1>1, <1>0, <2>1 DEF Saved, SameShape
<1> HIDE DEF back, q, s
<1>5. TypeOK'
  BY <1>0, <1>3, <1>4, IdleWork, StoreConstantsOK DEF IInv, TypeOK, Saved
<1>6. IdsNeverReused' /\ DiskFollows'
  BY <1>3, <1>4 DEF Saved, SameShape, IdsNeverReused, DiskFollows
<1>7. ASSUME NEW v \in Workers PROVE (FileAt(v) /\ CopiesAt(v) /\ PlaceAt(v))'
  <2>1. work'[v].pc = "idle" /\ work'[v].copied = {} /\ work'[v].task = "none"
    BY <1>0 DEF Idle
  <2> QED BY <2>1 DEF FileAt, CopiesAt, PlaceAt, On
<1> QED BY <1>0, <1>5, <1>6, <1>7 DEF IInv

LEMMA InvInit == Init => IInv
<1> SUFFICES ASSUME Init PROVE IInv
  OBVIOUS
<1>1. Blank \in Recs /\ Idle \in Works /\ OldConv \in Convs
  BY IdleWork, StoreConstantsOK
<1>2. NewStore \in Stores /\ ActiveOwned(NewStore)
  BY <1>1, StoreConstantsOK DEF NewStore, Stores, ActiveOwned
<1>3. ASSUME NEW k \in Keys, NEW c \in {OldConv, Nil}
      PROVE  OldStore(k, c) \in Stores /\ ActiveOwned(OldStore(k, c))
  <2> DEFINE n1 == [NewStore EXCEPT !.counter = 1]
             o == [n1.owned EXCEPT ![k] = {1}]
             n2 == [n1 EXCEPT !.owned = o]
             a == [n2.active EXCEPT ![k] = 1]
             n3 == [n2 EXCEPT !.active = a]
             q == [n3.rec EXCEPT ![1] = [n3.rec[1] EXCEPT !.conv = c]]
             n4 == [n3 EXCEPT !.rec = q]
             n5 == [n4 EXCEPT !.legacy = TRUE]
  <2>1. OldStore(k, c) = n5
    BY DEF OldStore
  <2>2. 1 \in Ids /\ 1 \in 0 .. MaxSessions
    BY StoreConstantsOK DEF Ids
  <2>3. n1 \in Stores /\ (\A j \in Keys : n1.active[j] = Nil)
    BY <1>2, <2>2 DEF Stores, NewStore
  <2> HIDE DEF n1
  <2>4. o \in [Keys -> SUBSET Ids] /\ o[k] = {1}
    BY <2>2, <2>3 DEF Stores
  <2> HIDE DEF o
  <2>5. n2 \in Stores /\ n2.owned = o /\ n2.active = n1.active
    BY <2>3, <2>4 DEF Stores
  <2> HIDE DEF n2
  <2>6. a \in [Keys -> Ids \cup {Nil}] /\ \A j \in Keys : a[j] = IF j = k THEN 1 ELSE Nil
    BY <2>2, <2>3, <2>5 DEF Stores
  <2> HIDE DEF a
  <2>7. n3 \in Stores /\ n3.owned = o /\ n3.active = a /\ n3.rec \in [Ids -> Recs]
    BY <2>5, <2>6 DEF Stores
  <2> HIDE DEF n3
  <2>8. n3.rec[1] \in Recs /\ c \in Convs \cup {Nil}
    BY <1>1, <2>2, <2>7
  <2>9. [n3.rec[1] EXCEPT !.conv = c] \in Recs
    BY <2>8 DEF Recs
  <2>10. q \in [Ids -> Recs]
    BY <2>7, <2>9
  <2> HIDE DEF q
  <2>11. n4 \in Stores /\ n4.owned = o /\ n4.active = a
    BY <2>7, <2>10 DEF Stores
  <2> HIDE DEF n4
  <2>12. n5 \in Stores /\ n5.owned = o /\ n5.active = a
    BY <2>11 DEF Stores
  <2> HIDE DEF n5
  <2>13. ActiveOwned(n5)
    BY <2>4, <2>6, <2>12 DEF ActiveOwned
  <2> QED BY <2>1, <2>12, <2>13
<1>4. disk \in Stores /\ ActiveOwned(disk) /\ mem = disk
  BY <1>2, <1>3 DEF Init
<1>5. TypeOK
  BY <1>1, <1>4, StoreConstantsOK DEF Init, TypeOK, Stores
<1>6. IdsNeverReused /\ DiskFollows
  BY <1>4 DEF Init, IdsNeverReused, DiskFollows
<1>7. ASSUME NEW v \in Workers PROVE FileAt(v) /\ CopiesAt(v) /\ PlaceAt(v)
  <2>1. work[v].pc = "idle" /\ work[v].copied = {} /\ work[v].task = "none"
    BY DEF Init, Idle
  <2> QED BY <2>1 DEF FileAt, CopiesAt, PlaceAt, On
<1> QED BY <1>5, <1>6, <1>7 DEF IInv

LEMMA InvStep ==
    ASSUME IInv, [Next]_vars
    PROVE  /\ IInv'
           /\ \/ Kept \/ restarts' # restarts
              \/ \E w \in Workers : On(w, "forget") /\ work'[w].pc # "forget"
<1>1. CASE UNCHANGED vars
  BY <1>1 DEF vars, IInv, TypeOK, IdsNeverReused, DiskFollows, FileAt, CopiesAt, PlaceAt, On, ActiveOwned, Kept
<1>2. CASE Quiet
  BY <1>1, <1>2 DEF Quiet
<1>3. ASSUME NEW w \in Workers, NEW k \in Keys,
             \/ Turn(w, k) \/ SideTurn(w, k)
             \/ \E t \in {"new", "reset"} : Reset(w, k, t)
             \/ \E c \in Convs : Switch(w, k, c) \/ Delete(w, k, c)
      PROVE  IInv' /\ Kept
  BY <1>3, TurnSteps, ResetStep, SwitchStep, DeleteStep
<1>4. ASSUME NEW w \in Workers,
             \/ StartFails(w) \/ Report(w) \/ Clear(w) \/ NewSession(w)
             \/ CopyLast(w) \/ Write(w)
             \/ \E c \in Convs : StartAgent(w, c)
             \/ \E i \in Ids : Copy(w, i)
      PROVE  IInv' /\ Kept
  BY <1>4, StartFailsStep, ReportStep, ClearStep, NewSessionStep, CopyLastStep, WriteStep, StartSteps, CopyStep
<1>5. ASSUME NEW w \in Workers, Forget(w)
      PROVE  IInv' /\ On(w, "forget") /\ work'[w].pc # "forget"
  BY <1>5, ForgetStep
<1>6. ASSUME NEW t \in Kinds, Restart(t) PROVE IInv' /\ restarts' # restarts
  BY <1>6, RestartStep
<1> QED BY <1>1, <1>2, <1>3, <1>4, <1>5, <1>6 DEF Next

-----------------------------------------------------------------------------
(* The store's types are kept, and the session a chat's next message goes  *)
(* to is one of the chat's own.                                            *)
THEOREM StoreTypeCorrect == Spec => []TypeOK
  BY InvInit, InvStep, PTL DEF Spec, IInv

(* No session ID is handed out twice, over any number of crashes.          *)
THEOREM IdsCorrect == Spec => []IdsNeverReused
  BY InvInit, InvStep, PTL DEF Spec, IInv

(* The file lists the sessions memory has, and names no conversation that  *)
(* memory has forgotten, however saves, writers and crashes interleave.    *)
THEOREM DiskCorrect == Spec => []DiskFollows
  BY InvInit, InvStep, PTL DEF Spec, IInv

(* A conversation is forgotten by a deletion or by a crash only.           *)
THEOREM KnownCorrect == Spec => KnownKept
<1>1. IInv /\ [Next]_vars =>
        [\/ Known(mem) \subseteq Known(mem') \/ restarts' # restarts
         \/ \E w \in Workers : On(w, "forget") /\ work'[w].pc # "forget"]_vars
  BY InvStep DEF Kept
<1> QED BY <1>1, InvInit, InvStep, PTL DEF Spec, KnownKept

=============================================================================
