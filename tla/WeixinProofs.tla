---------------------------- MODULE WeixinProofs ----------------------------
(***************************************************************************)
(* What Weixin guarantees for every set of messages and replies, every     *)
(* length of the gateway's log and of a reply, and any number of retries   *)
(* and restarts.                                                           *)
(***************************************************************************)
EXTENDS Weixin, TLAPS

(* Cursors and batches point into the gateway's log. *)
InLog ==
    /\ cursor <= Len(log) /\ next <= Len(log)
    /\ file # Torn => file <= Len(log)
    /\ batch \in Seq(1..Len(log))
    /\ pc = "accept" => batch # <<>>

(* A message that was handled is kept out by the dedup entry or by its     *)
(* age, or its entry has lapsed; the one about to be handled has its entry *)
(* and was not handled before, or its first entry has lapsed.              *)
Booked(m) == handled[m] > 0 => m \in Range(log) /\ m \in seen \cup old \cup lapsed
Books ==
    /\ \A m \in Msgs : Booked(m)
    /\ pc = "accept" => Current \in seen /\ (handled[Current] > 0 => Current \in lapsed)
    /\ HandledOnce

(* Which file holds what at each place of the loop. *)
Files ==
    /\ pc # "write" => Loaded(file) = cursor
    /\ pc # "accept" => Loaded(saved) = token

(* What the peer has of a reply under way is what was sent so far. *)
Sent ==
    /\ \A r \in Replies : rep[r].pc # "idle" => Len(got[r]) = rep[r].chunk - 1
    /\ ChunksInOrder

IInv == TypeOK /\ InLog /\ Books /\ Files /\ Sent

-----------------------------------------------------------------------------
LEMMA InvInit == Init => IInv
<1> SUFFICES ASSUME Init PROVE IInv
  OBVIOUS
<1>1. TypeOK /\ InLog
  BY WeixinAssumption DEF Init, TypeOK, InLog, Positions, NoReply
<1>2. Books /\ Files
  BY WeixinAssumption DEF Init, Books, Booked, HandledOnce, Files, Loaded
<1>3. Sent
  BY DEF Init, Sent, ChunksInOrder, NoReply
<1> QED BY <1>1, <1>2, <1>3 DEF IInv

(* A longer log keeps its messages where they were. *)
LEMMA LogGrows ==
    ASSUME TypeOK, NEW m \in Msgs, Len(log) < MaxLog, log' = Append(log, m)
    PROVE  /\ log' \in Seq(Msgs) /\ Len(log') = Len(log) + 1 /\ Len(log') <= MaxLog
           /\ \A i \in 1..Len(log) : log'[i] = log[i]
           /\ Range(log) \subseteq Range(log')
<1>1. /\ log \in Seq(Msgs) /\ log' \in Seq(Msgs) /\ Len(log') = Len(log) + 1 /\ Len(log') <= MaxLog
      /\ \A i \in 1..Len(log) : log'[i] = log[i]
  BY WeixinAssumption DEF TypeOK
<1> QED BY <1>1 DEF Range

LEMMA CurrentIn ==
    ASSUME TypeOK, InLog, batch # <<>>
    PROVE  /\ Head(batch) \in 1..Len(log) /\ Head(batch) \in Positions
           /\ Tail(batch) \in Seq(1..Len(log)) /\ Tail(batch) \in Seq(1..MaxLog)
           /\ Current \in Msgs /\ Current \in Range(log)
<1>1. Head(batch) \in 1..Len(log) /\ Tail(batch) \in Seq(1..Len(log)) /\ Tail(batch) \in Seq(1..MaxLog)
  BY DEF TypeOK, InLog
<1> QED BY <1>1, WeixinAssumption DEF TypeOK, Current, Range, Positions

(* The gateway's log grows. *)
LEMMA PostStep ==
    ASSUME IInv, NEW m \in Msgs, Post(m) \/ Repeat(m)
    PROVE  IInv'
<1>1. /\ log' \in Seq(Msgs) /\ Len(log') = Len(log) + 1 /\ Len(log') <= MaxLog
      /\ \A i \in 1..Len(log) : log'[i] = log[i]
      /\ Range(log) \subseteq Range(log')
  BY LogGrows DEF Post, Repeat, IInv
<1>2. /\ UNCHANGED <<pc, cursor, file, next, batch, seen, token, saved, old, handled, lapsed, rep, got>>
      /\ mine' \subseteq Msgs
  BY DEF Post, Repeat, IInv, TypeOK
<1>3. TypeOK'
  BY <1>1, <1>2 DEF IInv, TypeOK
<1>4. InLog'
  <2>1. log \in Seq(Msgs) /\ Len(log) \in Nat
    BY DEF IInv, TypeOK
  <2>2. cursor \in Nat /\ next \in Nat /\ (file # Torn => file \in Nat)
    BY WeixinAssumption DEF IInv, TypeOK, Positions
  <2>3. Seq(1..Len(log)) \subseteq Seq(1..(Len(log) + 1))
    BY <2>1
  <2> QED BY <1>1, <1>2, <2>1, <2>2, <2>3 DEF IInv, InLog
<1>5. Books'
  <2>1. pc = "accept" => Current' = Current
    BY <1>1, <1>2, CurrentIn DEF Current, IInv, InLog
  <2> QED BY <1>1, <1>2, <2>1 DEF IInv, Books, Booked, HandledOnce
<1>6. Files' /\ Sent'
  BY <1>2 DEF IInv, Files, Loaded, Sent, ChunksInOrder
<1> QED BY <1>3, <1>4, <1>5, <1>6 DEF IInv

(* A step of the loop that dispatches nothing. *)
LEMMA LoopStep ==
    ASSUME IInv, Poll \/ Expired \/ Unpause \/ SaveCursor \/ WriteCursor \/ BatchDone
    PROVE  IInv'
<1>1. /\ UNCHANGED <<log, seen, token, saved, old, handled, mine, lapsed, rep, got>>
      /\ pc # "accept" /\ pc' # "accept" /\ pc' \in {"poll", "paused", "save", "write", "dispatch"}
  BY DEF Poll, Expired, Unpause, SaveCursor, WriteCursor, BatchDone
<1>2. /\ log \in Seq(Msgs) /\ Len(log) \in Nat /\ Len(log) <= MaxLog /\ MaxLog \in Nat
      /\ cursor \in 0..Len(log) /\ next \in 0..Len(log)
  BY WeixinAssumption DEF IInv, TypeOK, InLog, Positions
<1>3. /\ cursor' \in 0..Len(log) /\ next' \in 0..Len(log)
      /\ file' \in 0..Len(log) \cup {Torn}
      /\ batch' \in Seq(1..Len(log))
      /\ pc' # "write" => Loaded(file') = cursor'
  <2>1. CASE Poll
    <3> PICK k \in cursor..Len(log) : k > 0 /\ next' = k /\ batch' = [i \in 1..(k - cursor) |-> cursor + i]
      BY <2>1 DEF Poll
    <3>1. k - cursor \in Nat /\ \A i \in 1..(k - cursor) : cursor + i \in 1..Len(log)
      BY <1>2
    <3>2. batch' \in Seq(1..Len(log))
      BY <3>1
    <3> QED BY <1>2, <2>1, <3>2 DEF Poll, IInv, TypeOK, InLog, Files, Positions
  <2>2. CASE Expired \/ Unpause \/ BatchDone
    BY <1>2, <2>2 DEF Expired, Unpause, BatchDone, IInv, TypeOK, InLog, Files, Positions
  <2>3. CASE SaveCursor
    BY <1>2, <2>3 DEF SaveCursor, IInv, InLog
  <2>4. CASE WriteCursor
    BY <1>2, <2>4, WeixinAssumption DEF WriteCursor, IInv, InLog, Loaded
  <2> QED BY <2>1, <2>2, <2>3, <2>4
<1>4. TypeOK'
  <2>1. Seq(1..Len(log)) \subseteq Seq(1..MaxLog)
    BY <1>2
  <2> QED BY <1>1, <1>2, <1>3, <2>1 DEF IInv, TypeOK, Positions
<1>5. InLog'
  BY <1>1, <1>2, <1>3 DEF InLog
<1>6. Books' /\ Sent'
  BY <1>1 DEF IInv, Books, Booked, HandledOnce, Sent, ChunksInOrder
<1>7. Files'
  BY <1>1, <1>3 DEF IInv, Files, Loaded
<1> QED BY <1>4, <1>5, <1>6, <1>7 DEF IInv

LEMMA SkipStep == ASSUME IInv, Skip PROVE IInv'
<1>1. /\ UNCHANGED <<log, cursor, file, next, seen, token, saved, old, handled, mine, lapsed, rep, got>>
      /\ pc' = pc /\ pc = "dispatch" /\ batch' = Tail(batch) /\ batch # <<>>
  BY DEF Skip
<1>2. Tail(batch) \in Seq(1..Len(log)) /\ Tail(batch) \in Seq(1..MaxLog)
  BY <1>1, CurrentIn DEF IInv
<1>3. TypeOK' /\ InLog'
  BY <1>1, <1>2 DEF IInv, TypeOK, InLog
<1>4. Books' /\ Files' /\ Sent'
  BY <1>1 DEF IInv, Books, Booked, HandledOnce, Files, Loaded, Sent, ChunksInOrder
<1> QED BY <1>3, <1>4 DEF IInv

LEMMA AcceptStep == ASSUME IInv, Accept PROVE IInv'
<1>1. /\ UNCHANGED <<log, cursor, file, next, batch, old, handled, mine, lapsed, rep, got>>
      /\ pc = "dispatch" /\ batch # <<>> /\ pc' = "accept" /\ token' = Head(batch) /\ saved' = Torn
      /\ seen' = seen \cup {Current} /\ Current \notin old \cup seen /\ Current' = Current
  BY DEF Accept, Current
<1>2. Head(batch) \in Positions /\ Current \in Msgs
  BY <1>1, CurrentIn DEF IInv
<1>3. TypeOK' /\ InLog'
  BY <1>1, <1>2 DEF IInv, TypeOK, InLog
<1>4. Books'
  BY <1>1, <1>2 DEF IInv, Books, Booked, HandledOnce
<1>5. Files' /\ Sent'
  BY <1>1 DEF IInv, Files, Loaded, Sent, ChunksInOrder
<1> QED BY <1>3, <1>4, <1>5 DEF IInv

LEMMA HandleStep == ASSUME IInv, Handle PROVE IInv'
<1>1. /\ UNCHANGED <<log, cursor, file, next, seen, token, old, mine, lapsed, rep, got>>
      /\ pc = "accept" /\ pc' = "dispatch" /\ saved' = token /\ batch' = Tail(batch) /\ batch # <<>>
      /\ handled' = [handled EXCEPT ![Current] = IF handled[Current] < 2 THEN handled[Current] + 1 ELSE 2]
  BY DEF Handle, IInv, InLog
<1>2. /\ Tail(batch) \in Seq(1..Len(log)) /\ Tail(batch) \in Seq(1..MaxLog)
      /\ Current \in Msgs /\ Current \in Range(log)
  BY <1>1, CurrentIn DEF IInv
<1>3. /\ handled \in [Msgs -> 0..2] /\ handled' \in [Msgs -> 0..2] /\ token \in Positions
      /\ \A m \in Msgs : m # Current => handled'[m] = handled[m]
      /\ handled'[Current] > 1 => handled[Current] > 0
  <2> DEFINE c == Current
  <2>1. handled \in [Msgs -> 0..2] /\ token \in Positions /\ c \in Msgs
    BY <1>2 DEF IInv, TypeOK
  <2> HIDE DEF c
  <2>2. handled' = [handled EXCEPT ![c] = IF handled[c] < 2 THEN handled[c] + 1 ELSE 2]
    BY <1>1 DEF c
  <2>3. /\ handled' \in [Msgs -> 0..2]
        /\ \A m \in Msgs : m # c => handled'[m] = handled[m]
        /\ handled'[c] > 1 => handled[c] > 0
    BY <2>1, <2>2
  <2> QED BY <2>1, <2>3 DEF c
<1>4. TypeOK' /\ InLog'
  BY <1>1, <1>2, <1>3 DEF IInv, TypeOK, InLog
<1>5. Books'
  <2>1. Current \in seen /\ (handled[Current] > 0 => Current \in lapsed)
    BY <1>1 DEF IInv, Books
  <2>2. ASSUME NEW m \in Msgs PROVE Booked(m)' /\ (handled'[m] > 1 => m \in lapsed')
    <3> HIDE DEF IInv
    <3>1. Booked(m) /\ (handled[m] > 1 => m \in lapsed)
      BY DEF IInv, Books, HandledOnce
    <3>2. CASE m = Current
      BY <1>1, <1>2, <1>3, <2>1, <3>2 DEF Booked
    <3>3. CASE m # Current
      BY <1>1, <1>3, <3>1, <3>3 DEF Booked
    <3> QED BY <3>2, <3>3
  <2> QED BY <1>1, <2>2 DEF Books, HandledOnce
<1>6. Files' /\ Sent'
  BY <1>1, <1>3, WeixinAssumption DEF IInv, Files, Loaded, Sent, ChunksInOrder, Positions
<1> QED BY <1>4, <1>5, <1>6 DEF IInv

LEMMA ForgetStep == ASSUME IInv, NEW m \in Msgs, Forget(m) PROVE IInv'
<1>1. /\ UNCHANGED <<log, pc, cursor, file, next, batch, token, saved, old, handled, mine, rep, got>>
      /\ pc = "dispatch" /\ seen' = seen \ {m} /\ lapsed' = lapsed \cup {m}
  BY DEF Forget
<1>2. TypeOK' /\ InLog'
  BY <1>1 DEF IInv, TypeOK, InLog
<1>3. Books'
  BY <1>1 DEF IInv, Books, Booked, HandledOnce
<1>4. Files' /\ Sent'
  BY <1>1 DEF IInv, Files, Loaded, Sent, ChunksInOrder
<1> QED BY <1>2, <1>3, <1>4 DEF IInv

(* Every message of the log is old or lapsed after a restart, so that the  *)
(* older cursor of a torn file brings none back unnoticed.                 *)
LEMMA RestartStep == ASSUME IInv, Restart PROVE IInv'
<1> PICK k \in 0..Len(log) :
        /\ old' = {log[i] : i \in 1..k} \ Undated
        /\ lapsed' = lapsed \cup (Range(log) \ ({log[i] : i \in 1..k} \ Undated))
  BY DEF Restart
<1>1. /\ pc' = "poll" /\ cursor' = Loaded(file) /\ token' = Loaded(saved)
      /\ next' = 0 /\ batch' = <<>> /\ seen' = {} /\ mine' = {}
      /\ rep' = [r \in Replies |-> NoReply] /\ got' = [r \in Replies |-> <<>>]
      /\ UNCHANGED <<log, file, saved, handled>>
  BY DEF Restart
<1>2. log \in Seq(Msgs) /\ Len(log) \in Nat /\ Len(log) <= MaxLog /\ Range(log) \subseteq Msgs
  BY DEF IInv, TypeOK, Range
<1>3. Loaded(file) \in 0..Len(log) /\ Loaded(saved) \in Positions
  BY <1>2, WeixinAssumption DEF IInv, TypeOK, InLog, Loaded, Positions
<1>4. NoReply \in [pc : {"idle", "send", "wait"}, chunk : 1..Chunks, tries : 0..(MaxRetries - 1)]
      /\ NoReply.pc = "idle"
  BY WeixinAssumption DEF NoReply
<1>5. TypeOK'
  <2>1. old' \subseteq Msgs /\ lapsed' \subseteq Msgs
    BY <1>2 DEF IInv, TypeOK
  <2>2. cursor' \in Positions /\ next' \in Positions /\ file' \in Positions \cup {Torn} /\ saved' \in Positions \cup {Torn}
    BY <1>1, <1>2, <1>3, WeixinAssumption DEF IInv, TypeOK, Positions
  <2>3. rep' \in [Replies -> [pc : {"idle", "send", "wait"}, chunk : 1..Chunks, tries : 0..(MaxRetries - 1)]]
    BY <1>1, <1>4
  <2>4. got' \in [Replies -> Seq(1..Chunks)] /\ batch' \in Seq(1..MaxLog)
    BY <1>1
  <2> QED BY <1>1, <1>3, <2>1, <2>2, <2>3, <2>4 DEF IInv, TypeOK
<1>6. InLog'
  BY <1>1, <1>2, <1>3 DEF IInv, TypeOK, InLog, Positions
<1>7. Books'
  BY <1>1 DEF IInv, Books, Booked, HandledOnce
<1>8. Files'
  BY <1>1 DEF Files, Loaded
<1>9. Sent'
  BY <1>1, <1>4 DEF Sent, ChunksInOrder
<1> QED BY <1>5, <1>6, <1>7, <1>8, <1>9 DEF IInv

ReplyRecs == [pc : {"idle", "send", "wait"}, chunk : 1..Chunks, tries : 0..(MaxRetries - 1)]

LEMMA ReplyRecords ==
    ASSUME NEW c \in ReplyRecs
    PROVE  /\ c.pc \in {"idle", "send", "wait"} /\ c.chunk \in 1..Chunks /\ c.tries \in 0..(MaxRetries - 1)
           /\ \A l \in {"send", "wait"} :
                 [c EXCEPT !.pc = l] \in ReplyRecs /\ [c EXCEPT !.pc = l].chunk = c.chunk
           /\ c.chunk < Chunks =>
                 NextChunk(c) \in ReplyRecs /\ NextChunk(c).chunk = c.chunk + 1
           /\ c.tries + 1 < MaxRetries =>
                 Again(c) \in ReplyRecs /\ Again(c).chunk = c.chunk
<1>1. c.pc \in {"idle", "send", "wait"} /\ c.chunk \in 1..Chunks /\ c.tries \in 0..(MaxRetries - 1)
  BY DEF ReplyRecs
<1>2. ASSUME NEW l \in {"send", "wait"}
      PROVE  [c EXCEPT !.pc = l] \in ReplyRecs /\ [c EXCEPT !.pc = l].chunk = c.chunk
  BY DEF ReplyRecs
<1>3. ASSUME c.chunk < Chunks
      PROVE  NextChunk(c) \in ReplyRecs /\ NextChunk(c).chunk = c.chunk + 1
  <2>1. c.chunk + 1 \in 1..Chunks /\ 0 \in 0..(MaxRetries - 1)
    BY <1>1, <1>3, WeixinAssumption
  <2> DEFINE n == c.chunk + 1
             e == [c EXCEPT !.chunk = n]
             d == [e EXCEPT !.tries = 0]
  <2> HIDE DEF n
  <2>2. e \in ReplyRecs /\ e.chunk = n
    BY <2>1 DEF ReplyRecs, n
  <2> HIDE DEF e
  <2>3. d \in ReplyRecs /\ d.chunk = n
    BY <2>1, <2>2 DEF ReplyRecs
  <2> QED BY <2>3 DEF e, n, NextChunk
<1>4. ASSUME c.tries + 1 < MaxRetries
      PROVE  Again(c) \in ReplyRecs /\ Again(c).chunk = c.chunk
  <2>1. c.tries + 1 \in 0..(MaxRetries - 1)
    BY <1>1, <1>4, WeixinAssumption
  <2> DEFINE n == c.tries + 1
             e == [c EXCEPT !.pc = "wait"]
             d == [e EXCEPT !.tries = n]
  <2> HIDE DEF n
  <2>2. e \in ReplyRecs /\ e.chunk = c.chunk
    BY DEF ReplyRecs
  <2> HIDE DEF e
  <2>3. d \in ReplyRecs /\ d.chunk = c.chunk
    BY <2>1, <2>2 DEF ReplyRecs, n
  <2> QED BY <2>3 DEF e, n, Again
<1> QED BY <1>1, <1>2, <1>3, <1>4

(* A reply: one chunk more has arrived, or none. *)
LEMMA ReplySteps ==
    ASSUME IInv, NEW r \in Replies, StartReply(r) \/ ReplyStep(r)
    PROVE  IInv'
<1> DEFINE R == ReplyRecs
<1>1. UNCHANGED inbound
  BY DEF StartReply, ReplyStep, SendText, Declined, Retry, SendBroken
<1>2. /\ rep \in [Replies -> R] /\ got \in [Replies -> Seq(1..Chunks)] /\ rep[r] \in R
      /\ got[r] \in Seq(1..Chunks) /\ rep[r].chunk \in 1..Chunks
      /\ rep[r].tries \in 0..(MaxRetries - 1)
  BY ReplyRecords DEF IInv, TypeOK, ReplyRecs
<1>3. NoReply \in R /\ NoReply.pc = "idle" /\ NoReply.chunk = 1
  BY WeixinAssumption DEF NoReply, ReplyRecs
<1>4. rep[r].pc # "idle" => Len(Append(got[r], rep[r].chunk)) = rep[r].chunk
      /\ Append(got[r], rep[r].chunk) \in Seq(1..Chunks)
      /\ \A i \in DOMAIN Append(got[r], rep[r].chunk) : Append(got[r], rep[r].chunk)[i] = i
  <2> SUFFICES ASSUME rep[r].pc # "idle" PROVE Len(Append(got[r], rep[r].chunk)) = rep[r].chunk
      /\ Append(got[r], rep[r].chunk) \in Seq(1..Chunks)
      /\ \A i \in DOMAIN Append(got[r], rep[r].chunk) : Append(got[r], rep[r].chunk)[i] = i
    BY <1>2, WeixinAssumption
  <2>1. Len(got[r]) = rep[r].chunk - 1 /\ \A i \in DOMAIN got[r] : got[r][i] = i
    BY DEF IInv, Sent, ChunksInOrder
  <2> QED BY <1>2, <2>1, WeixinAssumption
<1>5. PICK x \in R, g \in Seq(1..Chunks) :
        /\ rep' = [rep EXCEPT ![r] = x] /\ got' = [got EXCEPT ![r] = g]
        /\ x.pc # "idle" => Len(g) = x.chunk - 1
        /\ \A i \in DOMAIN g : g[i] = i
  <2> HIDE DEF R
  <2> DEFINE a == Append(got[r], rep[r].chunk)
             more == NextChunk(rep[r])
             again == Again(rep[r])
             on(l) == [rep[r] EXCEPT !.pc = l]
  <2>1. CASE StartReply(r)
    <3> DEFINE x == [NoReply EXCEPT !.pc = "send"]
    <3>1. x \in R /\ x.chunk = 1
      BY <1>3, ReplyRecords DEF R
    <3> DEFINE g == <<>>
    <3>2. rep' = [rep EXCEPT ![r] = x] /\ got' = [got EXCEPT ![r] = g]
      BY <2>1 DEF StartReply
    <3>3. g \in Seq(1..Chunks) /\ Len(g) = 0 /\ \A i \in DOMAIN g : g[i] = i
      OBVIOUS
    <3> HIDE DEF x, g
    <3>4. x.pc # "idle" => Len(g) = x.chunk - 1
      BY <3>1, <3>3
    <3> QED BY <3>1, <3>2, <3>3, <3>4
  <2>2. CASE SendText(r)
    <3> DEFINE x == IF rep[r].chunk < Chunks THEN more ELSE NoReply
    <3>1. rep[r].chunk < Chunks => more \in R /\ more.chunk = rep[r].chunk + 1
      BY <1>2, ReplyRecords DEF R
    <3>2. x \in R /\ (x.pc # "idle" => x.chunk = rep[r].chunk + 1)
      BY <1>3, <3>1
    <3>3. rep' = [rep EXCEPT ![r] = x] /\ got' = [got EXCEPT ![r] = a] /\ rep[r].pc # "idle"
      <4>1. rep' = [rep EXCEPT ![r] = x] /\ rep[r].pc # "idle"
        BY <2>2 DEF SendText
      <4>2. got' = [got EXCEPT ![r] = a]
        BY <2>2 DEF SendText, Got
      <4> QED BY <4>1, <4>2
    <3>4. Len(a) = rep[r].chunk /\ a \in Seq(1..Chunks) /\ \A i \in DOMAIN a : a[i] = i
      BY <1>4, <3>3
    <3> HIDE DEF x, a
    <3>5. x.pc # "idle" => Len(a) = x.chunk - 1
      BY <1>2, <3>2, <3>4
    <3> QED BY <3>2, <3>3, <3>4, <3>5
  <2> DEFINE same == got[r]
  <2>3. /\ same \in Seq(1..Chunks) /\ got = [got EXCEPT ![r] = same]
        /\ \A i \in DOMAIN same : same[i] = i
        /\ rep[r].pc # "idle" => Len(same) = rep[r].chunk - 1
    BY <1>2 DEF IInv, Sent, ChunksInOrder
  <2>4. CASE Declined(r)
    <3> DEFINE x == IF rep[r].tries + 1 < MaxRetries THEN again ELSE NoReply
    <3>1. rep[r].tries + 1 < MaxRetries => again \in R /\ again.chunk = rep[r].chunk
      BY <1>2, ReplyRecords DEF R
    <3>2. x \in R /\ (x.pc # "idle" => x.chunk = rep[r].chunk)
      BY <1>3, <3>1
    <3>3. rep' = [rep EXCEPT ![r] = x] /\ got' = [got EXCEPT ![r] = same] /\ rep[r].pc # "idle"
      <4>1. rep' = [rep EXCEPT ![r] = x] /\ rep[r].pc # "idle"
        BY <2>4 DEF Declined
      <4> QED BY <2>3, <2>4, <4>1 DEF Declined
    <3> HIDE DEF x, same
    <3> QED BY <2>3, <3>2, <3>3
  <2>5. CASE Retry(r)
    <3> DEFINE x == on("send")
    <3>1. x \in R /\ x.chunk = rep[r].chunk
      BY <1>2, ReplyRecords DEF R
    <3>2. rep' = [rep EXCEPT ![r] = x] /\ got' = [got EXCEPT ![r] = same] /\ rep[r].pc # "idle"
      BY <2>3, <2>5 DEF Retry
    <3> HIDE DEF x, same
    <3> QED BY <2>3, <3>1, <3>2
  <2>6. CASE SendBroken(r)
    <3>1. rep' = [rep EXCEPT ![r] = NoReply] /\ got' \in {got, Got(r)} /\ rep[r].pc # "idle"
      BY <2>6 DEF SendBroken
    <3>2. CASE got' = got
      <4>1. got' = [got EXCEPT ![r] = same]
        BY <2>3, <3>2
      <4> HIDE DEF same
      <4> QED BY <1>3, <2>3, <3>1, <4>1
    <3>3. CASE got' = Got(r)
      <4>1. got' = [got EXCEPT ![r] = a]
        BY <3>3 DEF Got
      <4>2. a \in Seq(1..Chunks) /\ \A i \in DOMAIN a : a[i] = i
        BY <1>4, <3>1
      <4> HIDE DEF a
      <4> QED BY <1>3, <3>1, <4>1, <4>2
    <3> QED BY <3>1, <3>2, <3>3
  <2> QED BY <2>1, <2>2, <2>4, <2>5, <2>6 DEF ReplyStep
<1>6. rep' \in [Replies -> R] /\ got' \in [Replies -> Seq(1..Chunks)]
  <2> HIDE DEF R
  <2> QED BY <1>2, <1>5
<1>7. TypeOK'
  BY <1>1, <1>6 DEF inbound, IInv, TypeOK, ReplyRecs
<1>8. Sent'
  <2> HIDE DEF R
  <2>1. ASSUME NEW q \in Replies
        PROVE  /\ rep'[q].pc # "idle" => Len(got'[q]) = rep'[q].chunk - 1
               /\ \A i \in DOMAIN got'[q] : got'[q][i] = i
    <3>1. CASE q = r
      <4>1. rep'[q] = x /\ got'[q] = g
        BY <1>2, <1>5, <3>1
      <4> QED BY <1>5, <4>1
    <3>2. CASE q # r
      <4>1. rep'[q] = rep[q] /\ got'[q] = got[q]
        BY <1>5, <3>2
      <4> QED BY <4>1 DEF IInv, Sent, ChunksInOrder
    <3> QED BY <3>1, <3>2
  <2> QED BY <2>1 DEF Sent, ChunksInOrder
<1>9. InLog' /\ Books' /\ Files'
  BY <1>1 DEF inbound, IInv, InLog, Books, Booked, HandledOnce, Current, Files, Loaded
<1> QED BY <1>7, <1>8, <1>9 DEF IInv

-----------------------------------------------------------------------------
LEMMA InvStep == IInv /\ [Next]_vars => IInv'
<1> SUFFICES ASSUME IInv, [Next]_vars PROVE IInv'
  OBVIOUS
<1>1. CASE UNCHANGED vars
  BY <1>1 DEF vars, inbound, IInv, TypeOK, InLog, Books, Booked, HandledOnce, Current, Files,
              Loaded, Sent, ChunksInOrder
<1>2. ASSUME NEW m \in Msgs, Post(m) \/ Repeat(m) \/ Forget(m) PROVE IInv'
  BY <1>2, PostStep, ForgetStep
<1>3. ASSUME NEW r \in Replies, StartReply(r) \/ ReplyStep(r) PROVE IInv'
  BY <1>3, ReplySteps
<1> QED BY <1>1, <1>2, <1>3, LoopStep, SkipStep, AcceptStep, HandleStep, RestartStep DEF Next

(* The platform's variables keep their types: in particular the cursor     *)
(* stays within the gateway's log, over torn files and restarts.           *)
THEOREM WeixinTypeCorrect == Spec => []TypeOK
  BY InvInit, InvStep, PTL DEF Spec, IInv

(* A message reaches the engine once, however often the gateway gives it.  *)
THEOREM HandledOnceCorrect == Spec => []HandledOnce
  BY InvInit, InvStep, PTL DEF Spec, IInv, Books

(* Between two batches both files hold what memory holds.                  *)
THEOREM FilesCorrect == Spec => []FilesFollow
<1>1. IInv => FilesFollow
  BY DEF IInv, Files, FilesFollow
<1> QED BY <1>1, InvInit, InvStep, PTL DEF Spec

(* The chunks of a reply arrive in order, none twice and none after a gap. *)
THEOREM ChunksCorrect == Spec => []ChunksInOrder
  BY InvInit, InvStep, PTL DEF Spec, IInv, Sent

=============================================================================
