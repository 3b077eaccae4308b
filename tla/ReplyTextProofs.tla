-------------------------- MODULE ReplyTextProofs ---------------------------
(***************************************************************************)
(* What ReplyText guarantees for every configuration, any number of turns  *)
(* and of events in them, and sends that may fail.                         *)
(***************************************************************************)
EXTENDS ReplyText, SequenceTheorems, TLAPS

Item == [at : Nat, cut : BOOLEAN]

(* The places of the loop at which text may still be held back. *)
Open == loop \in {"idle", "running", "asking"}

(* Pieces are noted in the order of their events. *)
Pieces == \A j, k \in DOMAIN parts : j < k => parts[j] < parts[k]

(* What is held back comes after all that the chat has. *)
Held == Open => \A x \in DOMAIN shown, k \in segStart + 1 .. Len(parts) : shown[x].at < parts[k]

(* A text that the agent has just said is held back. *)
LastHeld ==
    Open /\ LastEvent \in Texts =>
        parts # <<>> /\ parts[Len(parts)] = Len(stream) /\ segStart < Len(parts)

Asked == \E i \in DOMAIN stream : stream[i] = "ask"

(* Nothing is sent before a tool or a question, since nothing but these two *)
(* comes after a text.                                                     *)
OneText == Open /\ ~toolUsed /\ ~Asked /\ parts # <<>> => segStart = 0 /\ LastEvent \in Texts

Gone == loop = "idle" => stream = <<>> /\ parts = <<>> /\ segStart = 0

(* What the loop holds of its turn. *)
TurnInv ==
    /\ stream \in Seq(Texts \cup Notices) /\ parts \in Seq(DOMAIN stream)
    /\ segStart \in 0 .. Len(parts) /\ shown \in Seq([at : 0 .. Len(stream), cut : BOOLEAN])
    /\ Pieces /\ Held /\ LastHeld /\ OneText /\ Gone
    /\ Open => Ordered(shown)
    /\ InOrder

OrderInv == TypeOK /\ TurnInv

-----------------------------------------------------------------------------
(* Sequences of messages. *)

LEMMA Concat ==
    ASSUME NEW S, NEW s \in Seq(S), NEW t \in Seq(S)
    PROVE  /\ s \o t \in Seq(S) /\ Len(s \o t) = Len(s) + Len(t)
           /\ \A i \in 1 .. Len(s) : (s \o t)[i] = s[i]
           /\ \A i \in 1 .. Len(t) : (s \o t)[Len(s) + i] = t[i]
           /\ \A i \in DOMAIN (s \o t) :
                 \/ i \in DOMAIN s /\ (s \o t)[i] = s[i]
                 \/ i - Len(s) \in DOMAIN t /\ (s \o t)[i] = t[i - Len(s)]
  OBVIOUS

(* Messages that come after all that is there may follow it. *)
LEMMA Join ==
    ASSUME NEW s \in Seq(Item), NEW t \in Seq(Item), Ordered(s), Ordered(t),
           \A i \in DOMAIN s, j \in DOMAIN t : s[i].at < t[j].at
    PROVE  s \o t \in Seq(Item) /\ Ordered(s \o t)
<1>1. s \o t \in Seq(Item)
  BY Concat
<1> SUFFICES ASSUME NEW i \in DOMAIN (s \o t), NEW j \in DOMAIN (s \o t), i < j,
                    (s \o t)[i].at > 0, (s \o t)[j].at > 0
             PROVE  (s \o t)[i].at < (s \o t)[j].at
  BY <1>1 DEF Ordered
<1> DEFINE n == Len(s)
<1>0. /\ n \in Nat /\ DOMAIN s = 1 .. n /\ DOMAIN t = 1 .. Len(t) /\ Len(t) \in Nat
      /\ DOMAIN (s \o t) = 1 .. n + Len(t)
  BY Concat
<1>2. CASE j <= n
  BY <1>0, <1>2, Concat DEF Ordered
<1>3. CASE i <= n /\ n < j
  <2>1. (s \o t)[i] = s[i] /\ i \in DOMAIN s
    BY <1>0, <1>3, Concat
  <2>2. (s \o t)[j] = t[j - n] /\ j - n \in DOMAIN t
    BY <1>0, <1>3
  <2> QED BY <2>1, <2>2
<1>4. CASE n < i
  <2>1. (s \o t)[i] = t[i - n] /\ i - n \in DOMAIN t
    BY <1>0, <1>4
  <2>2. (s \o t)[j] = t[j - n] /\ j - n \in DOMAIN t
    BY <1>0, <1>4
  <2> QED BY <1>0, <1>4, <2>1, <2>2 DEF Ordered
<1> QED BY <1>0, <1>2, <1>3, <1>4

Upto(s, n) == \A i \in DOMAIN s : s[i].at <= n

LEMMA ItemType ==
    ASSUME NEW n \in Nat, NEW s
    PROVE  s \in Seq([at : 0 .. n, cut : BOOLEAN]) <=> s \in Seq(Item) /\ Upto(s, n)
<1> DEFINE T == [at : 0 .. n, cut : BOOLEAN]
<1>0. T \subseteq Item /\ \A x \in Item : x.at <= n => x \in T
  BY DEF Item
<1>1. ASSUME s \in Seq(T) PROVE s \in Seq(Item) /\ Upto(s, n)
  <2>1. \A i \in DOMAIN s : s[i] \in T
    BY <1>1, LenProperties, ElementOfSeq
  <2>2. \A i \in DOMAIN s : s[i].at <= n
    BY <2>1
  <2>3. s \in Seq(Item)
    BY <1>0, <1>1, SeqMonotonic
  <2> QED BY <2>2, <2>3 DEF Upto
<1>2. ASSUME s \in Seq(Item), Upto(s, n) PROVE s \in Seq(T)
  <2>1. /\ Len(s) \in Nat /\ s \in [1 .. Len(s) -> Item] /\ DOMAIN s = 1 .. Len(s)
    BY <1>2, LenProperties
  <2>2. \A i \in 1 .. Len(s) : s[i] \in Item
    BY <2>1
  <2>3. \A i \in 1 .. Len(s) : s[i] \in T
    BY <1>0, <1>2, <2>1, <2>2 DEF Upto
  <2> HIDE DEF T
  <2>4. s \in [1 .. Len(s) -> T]
    BY <2>1, <2>3
  <2> QED BY <2>1, <2>4, SeqDef
<1> QED BY <1>1, <1>2

(* Pieces become messages one by one. *)
LEMMA RawOf ==
    ASSUME NEW q \in Seq(Nat)
    PROVE  /\ Raw(q) \in Seq(Item) /\ DOMAIN Raw(q) = DOMAIN q
           /\ \A i \in DOMAIN q : Raw(q)[i].at = q[i]
<1>1. Len(q) \in Nat /\ DOMAIN q = 1 .. Len(q) /\ \A i \in DOMAIN q : q[i] \in Nat
  BY LenProperties, ElementOfSeq
<1>2. Raw(q) \in [1 .. Len(q) -> Item]
  BY <1>1 DEF Raw, Item
<1>3. Raw(q) \in Seq(Item)
  BY <1>1, <1>2, SeqDef
<1> QED BY <1>1, <1>3 DEF Raw

LEMMA StrippedOf ==
    ASSUME NEW q \in Seq(Nat)
    PROVE  /\ Stripped(q) \in Seq(Item) /\ DOMAIN Stripped(q) = DOMAIN q
           /\ \A i \in DOMAIN q : Stripped(q)[i].at = q[i]
<1>1. Len(q) \in Nat /\ DOMAIN q = 1 .. Len(q) /\ \A i \in DOMAIN q : q[i] \in Nat
  BY LenProperties, ElementOfSeq
<1>2. Stripped(q) \in [1 .. Len(q) -> Item]
  BY <1>1 DEF Stripped, Item
<1>3. Stripped(q) \in Seq(Item)
  BY <1>1, <1>2, SeqDef
<1> QED BY <1>1, <1>3 DEF Stripped

LEMMA PartsType ==
    ASSUME TypeOK
    PROVE  /\ parts \in Seq(Nat) /\ Len(parts) \in Nat /\ DOMAIN parts = 1 .. Len(parts)
           /\ \A k \in DOMAIN parts : parts[k] \in 1 .. Len(stream)
           /\ segStart \in Nat /\ segStart <= Len(parts) /\ Len(stream) \in Nat
           /\ DOMAIN stream = 1 .. Len(stream)
           /\ stream \in Seq(Texts \cup Notices) /\ shown \in Seq(Item) /\ Upto(shown, Len(stream))
<1>1. /\ stream \in Seq(Texts \cup Notices) /\ Len(stream) \in Nat
      /\ DOMAIN stream = 1 .. Len(stream)
  BY DEF TypeOK
<1>2. shown \in Seq(Item) /\ Upto(shown, Len(stream))
  BY <1>1, ItemType DEF TypeOK
<1> QED BY <1>1, <1>2 DEF TypeOK

LEMMA UnsentIs ==
    ASSUME TypeOK
    PROVE  /\ Unsent \in Seq(Nat) /\ DOMAIN Unsent = 1 .. Len(parts) - segStart
           /\ \A i \in DOMAIN Unsent : /\ segStart + i \in DOMAIN parts
                                       /\ Unsent[i] = parts[segStart + i]
                                       /\ Unsent[i] \in 1 .. Len(stream)
<1> DEFINE n == Len(parts)
           u == SubSeq(parts, segStart + 1, n)
<1>0. n \in Nat /\ segStart \in Nat /\ segStart <= n /\ DOMAIN parts = 1 .. n
  BY PartsType
<1>1. \A i \in segStart + 1 .. n : parts[i] \in Nat
  BY <1>0, PartsType
<1>2. /\ u \in Seq(Nat) /\ Len(u) = n - segStart
      /\ \A i \in 1 .. n - segStart : u[i] = parts[segStart + i]
  <2>1. /\ u \in Seq(Nat) /\ Len(u) = (IF segStart + 1 <= n THEN n - (segStart + 1) + 1 ELSE 0)
        /\ \A i \in 1 .. n - (segStart + 1) + 1 : u[i] = parts[(segStart + 1) + i - 1]
    BY <1>0, <1>1, SubSeqProperties
  <2>2. n - (segStart + 1) + 1 = n - segStart /\ \A i \in Nat : (segStart + 1) + i - 1 = segStart + i
    BY <1>0
  <2>3. Len(u) = n - segStart
    <3> HIDE DEF u, n
    <3> QED BY <1>0, <2>1
  <2>4. ASSUME NEW i \in 1 .. n - segStart PROVE u[i] = parts[segStart + i]
    <3> HIDE DEF u, n
    <3> QED BY <1>0, <2>1, <2>2
  <2> QED BY <2>1, <2>3, <2>4
<1>3. DOMAIN u = 1 .. n - segStart
  BY <1>2, LenProperties
<1>4. \A i \in 1 .. n - segStart : segStart + i \in 1 .. n
  BY <1>0
<1>5. Unsent = u
  BY DEF Unsent
<1> QED BY <1>0, <1>2, <1>3, <1>4, <1>5, PartsType

(* The rest of the text may be sent at any time. *)
LEMMA RestFits ==
    ASSUME TypeOK, Pieces, Held, Open, NEW q, q = Raw(Unsent) \/ q = Stripped(Unsent) \/ q = <<>>
    PROVE  /\ q \in Seq(Item) /\ Ordered(q) /\ Upto(q, Len(stream))
           /\ \A i \in DOMAIN shown, j \in DOMAIN q : shown[i].at < q[j].at
<1>1. CASE q = <<>>
  BY <1>1 DEF Ordered, Upto
<1>2. ASSUME q \in Seq(Item), DOMAIN q = DOMAIN Unsent, \A i \in DOMAIN q : q[i].at = Unsent[i]
      PROVE  /\ Ordered(q) /\ Upto(q, Len(stream))
             /\ \A i \in DOMAIN shown, j \in DOMAIN q : shown[i].at < q[j].at
  <2>1. ASSUME NEW i \in DOMAIN q, NEW j \in DOMAIN q, i < j PROVE q[i].at < q[j].at
    <3>1. /\ i \in Nat /\ j \in Nat /\ segStart + i \in DOMAIN parts /\ segStart + j \in DOMAIN parts
          /\ q[i].at = parts[segStart + i] /\ q[j].at = parts[segStart + j]
      BY <1>2, UnsentIs
    <3> QED BY <2>1, <3>1, PartsType DEF Pieces
  <2>2. Upto(q, Len(stream))
    BY <1>2, UnsentIs, PartsType DEF Upto
  <2>3. ASSUME NEW i \in DOMAIN shown, NEW j \in DOMAIN q PROVE shown[i].at < q[j].at
    <3>0. j \in 1 .. Len(parts) - segStart /\ q[j].at = parts[segStart + j]
      BY <1>2, UnsentIs
    <3>1. segStart + j \in segStart + 1 .. Len(parts)
      BY <3>0, PartsType
    <3> QED BY <3>0, <3>1 DEF Held
  <2> QED BY <2>1, <2>2, <2>3 DEF Ordered
<1>3. CASE q = Raw(Unsent)
  BY <1>2, <1>3, UnsentIs, RawOf
<1>4. CASE q = Stripped(Unsent)
  BY <1>2, <1>4, UnsentIs, StrippedOf
<1> QED BY <1>1, <1>3, <1>4

-----------------------------------------------------------------------------
(* Steps that say nothing. *)

LEMMA Same ==
    ASSUME OrderInv, UNCHANGED <<turnVars, shown>>,
           loop' = loop \/ (Open /\ loop' # "idle")
    PROVE  TurnInv'
<1>1. /\ stream' = stream /\ parts' = parts /\ segStart' = segStart /\ toolUsed' = toolUsed
      /\ shown' = shown
  BY DEF turnVars
<1>2. (Pieces /\ Held /\ LastHeld /\ OneText /\ Gone)'
  BY <1>1 DEF OrderInv, TurnInv, Pieces, Held, LastHeld, OneText, Gone, Open, LastEvent, Asked
<1>3. (Open => Ordered(shown))'
  BY <1>1 DEF OrderInv, TurnInv, Open, Ordered
<1>4. InOrder'
  <2>1. CASE Open
    BY <1>1, <2>1 DEF OrderInv, TurnInv, InOrder, Ordered
  <2>2. CASE ~Open
    BY <1>1, <2>2 DEF OrderInv, TurnInv, InOrder, Ordered, AskedOnly, LastEvent
  <2> QED BY <2>1, <2>2
<1> QED BY <1>1, <1>2, <1>3, <1>4 DEF OrderInv, TurnInv

LEMMA Fresh ==
    ASSUME stream' = <<>>, parts' = <<>>, segStart' = 0, shown' = <<>>
    PROVE  TurnInv'
<1>1. DOMAIN shown' = {} /\ DOMAIN parts' = {} /\ Len(parts') = 0 /\ LastEvent' = "none"
  BY DEF LastEvent
<1>2. (Pieces /\ Held /\ OneText /\ Gone)' /\ InOrder' /\ Ordered(shown)'
  BY <1>1 DEF Pieces, Held, OneText, Gone, InOrder, Ordered
<1>3. LastHeld'
  BY <1>1 DEF LastHeld, Texts, Markers
<1>4. /\ <<>> \in Seq(Texts \cup Notices) /\ <<>> \in Seq(DOMAIN stream')
      /\ <<>> \in Seq([at : 0 .. Len(stream'), cut : BOOLEAN])
  BY EmptySeq
<1> QED BY <1>1, <1>2, <1>3, <1>4 DEF TurnInv

-----------------------------------------------------------------------------
(* Steps that add to what the chat has. *)

Fits(q) ==
    /\ q \in Seq(Item) /\ Ordered(q)
    /\ \A i \in DOMAIN shown, j \in DOMAIN q : shown[i].at < q[j].at

LEMMA Told ==
    ASSUME OrderInv, NEW q, Fits(q), NEW b \in BOOLEAN, NEW n \in Nat, Upto(q, n),
           Upto(shown, n), Ordered(shown)
    PROVE  /\ shown \o Sent(b, q) \in Seq(Item) /\ Ordered(shown \o Sent(b, q))
           /\ Upto(shown \o Sent(b, q), n)
<1>1. shown \in Seq(Item)
  BY PartsType DEF OrderInv
<1>2. CASE b
  <2>1. Sent(b, q) = q
    BY <1>2 DEF Sent
  <2>2. Upto(shown \o q, n)
    <3> SUFFICES ASSUME NEW i \in DOMAIN (shown \o q) PROVE (shown \o q)[i].at <= n
      BY DEF Upto
    <3> QED BY <1>1, Concat DEF Upto, Fits
  <2> QED BY <1>1, <2>1, <2>2, Join DEF Fits
<1>3. CASE ~b
  <2>1. shown \o Sent(b, q) = shown
    BY <1>1, <1>3, ConcatEmptySeq DEF Sent
  <2> QED BY <1>1, <2>1
<1> QED BY <1>2, <1>3

(* The rest of the text, sent as it is or stripped. *)
LEMMA RestIs ==
    ASSUME OrderInv, Open, NEW q, q = Raw(Unsent) \/ q = Stripped(Unsent) \/ q = <<>>
    PROVE  Fits(q) /\ Upto(q, Len(stream))
<1>1. Pieces /\ Held
  BY DEF OrderInv, TurnInv
<1> QED BY <1>1, RestFits DEF OrderInv, Fits

LEMMA WholeIsRest ==
    ASSUME TypeOK, segStart = 0
    PROVE  Unsent = parts
<1>1. Unsent = SubSeq(parts, 1, Len(parts))
  BY DEF Unsent
<1> QED BY <1>1, PartsType, SubSeqFull

(* The last text may be sent alone. *)
LEMMA LastFits ==
    ASSUME OrderInv, Open, LastText # <<>>
    PROVE  Fits(Stripped(LastText)) /\ Upto(Stripped(LastText), Len(stream))
<1> DEFINE n == Len(stream)
<1>1. LastEvent \in Texts /\ LastText = <<n>>
  BY DEF LastText
<1>2. n \in Nat /\ LastText \in Seq(Nat) /\ DOMAIN LastText = {1} /\ LastText[1] = n
  BY <1>1, PartsType DEF OrderInv
<1>3. /\ Stripped(LastText) \in Seq(Item) /\ DOMAIN Stripped(LastText) = {1}
      /\ Stripped(LastText)[1].at = n
  BY <1>2, StrippedOf
<1>4. /\ Len(parts) \in segStart + 1 .. Len(parts) /\ parts[Len(parts)] = n
  BY <1>1, PartsType DEF OrderInv, TurnInv, LastHeld
<1>5. \A i \in DOMAIN shown : shown[i].at < n
  BY <1>4 DEF OrderInv, TurnInv, Held
<1> HIDE DEF n
<1>6. Upto(Stripped(LastText), n) /\ Ordered(Stripped(LastText))
  BY <1>2, <1>3 DEF Upto, Ordered
<1> QED BY <1>3, <1>5, <1>6 DEF Fits, n

(* All the text may be sent, unless the turn asked and used no tool. *)
LEMMA PartsFit ==
    ASSUME OrderInv, Open, ~(toolUsed /\ segStart > 0)
    PROVE  \/ Fits(Stripped(parts)) /\ Upto(Stripped(parts), Len(stream))
           \/ segStart # 0 /\ AskedOnly
<1>1. CASE segStart = 0
  BY <1>1, RestIs, WholeIsRest DEF OrderInv
<1>2. CASE segStart # 0
  <2>1. segStart \in Nat /\ segStart > 0 /\ parts # <<>>
    BY <1>2, PartsType DEF OrderInv
  <2> QED BY <2>1 DEF OrderInv, TurnInv, OneText, AskedOnly, Asked
<1> QED BY <1>1, <1>2

LEMMA ResponseFits ==
    ASSUME OrderInv, Open, ~(toolUsed /\ segStart > 0)
    PROVE  \/ Fits(Stripped(FullResponse)) /\ Upto(Stripped(FullResponse), Len(stream))
           \/ AskedOnly /\ LastEvent \notin Texts
<1>1. CASE FullResponse = parts /\ (LastText = <<>> \/ segStart = 0)
  BY <1>1, PartsFit DEF LastText
<1>2. CASE FullResponse = LastText /\ LastText # <<>>
  BY <1>2, LastFits
<1> QED BY <1>1, <1>2 DEF FullResponse

(* Pieces sent once more are still messages. *)
LEMMA PiecesTyped ==
    ASSUME OrderInv, NEW q, q = parts \/ q = LastText \/ q = Unsent
    PROVE  Stripped(q) \in Seq(Item) /\ Upto(Stripped(q), Len(stream))
<1>1. q \in Seq(Nat) /\ \A i \in DOMAIN q : q[i] <= Len(stream)
  <2>1. CASE q = parts
    BY <2>1, PartsType DEF OrderInv
  <2>2. CASE q = Unsent
    BY <2>2, UnsentIs, PartsType DEF OrderInv
  <2>3. CASE q = LastText
    BY <2>3, PartsType DEF OrderInv, LastText
  <2> QED BY <2>1, <2>2, <2>3
<1> QED BY <1>1, StrippedOf DEF Upto

LEMMA SentTyped ==
    ASSUME OrderInv, NEW q \in Seq(Item), NEW b \in BOOLEAN, Upto(q, Len(stream))
    PROVE  shown \o Sent(b, q) \in Seq([at : 0 .. Len(stream), cut : BOOLEAN])
<1>1. shown \in Seq(Item) /\ Upto(shown, Len(stream)) /\ Len(stream) \in Nat
  BY PartsType DEF OrderInv
<1>2. Sent(b, q) \in Seq(Item) /\ Upto(Sent(b, q), Len(stream))
  BY DEF Sent, Upto
<1>3. shown \o Sent(b, q) \in Seq(Item) /\ Upto(shown \o Sent(b, q), Len(stream))
  BY <1>1, <1>2, Concat DEF Upto
<1> QED BY <1>1, <1>3, ItemType

(* The end of a turn. *)
LEMMA Closing ==
    ASSUME OrderInv, Open, UNCHANGED turnVars, loop' \in {"answered", "ended"},
           NEW q \in Seq(Item), Upto(q, Len(stream)),
           Fits(q) \/ (AskedOnly /\ (loop' = "answered" => LastEvent \notin Texts)),
           NEW b \in BOOLEAN, shown' = shown \o Sent(b, q)
    PROVE  TurnInv'
<1>1. stream' = stream /\ parts' = parts /\ segStart' = segStart /\ toolUsed' = toolUsed
  BY DEF turnVars
<1>2. (Pieces /\ Held /\ LastHeld /\ OneText /\ Gone /\ (Open => Ordered(shown)))'
  BY <1>1 DEF OrderInv, TurnInv, Pieces, Held, LastHeld, OneText, Gone, Open
<1>3. shown' \in Seq([at : 0 .. Len(stream), cut : BOOLEAN])
  BY SentTyped
<1>4. CASE Fits(q)
  <2>1. Ordered(shown')
    BY <1>4, Told, PartsType DEF OrderInv, TurnInv
  <2> QED BY <1>1, <1>2, <1>3, <2>1 DEF OrderInv, TurnInv, InOrder, Ordered
<1>5. CASE AskedOnly /\ (loop' = "answered" => LastEvent \notin Texts)
  <2>0. LastEvent' = LastEvent /\ AskedOnly'
    BY <1>1, <1>5 DEF AskedOnly, LastEvent
  <2>1. InOrder'
    BY <1>5, <2>0 DEF InOrder
  <2> QED BY <1>1, <1>2, <1>3, <2>1 DEF OrderInv, TurnInv, Ordered
<1> QED BY <1>4, <1>5

-----------------------------------------------------------------------------
(* What the agent says next. *)

LEMMA Spoken ==
    ASSUME OrderInv, NEW e \in Texts \cup Notices, Says(e)
    PROVE  /\ stream' \in Seq(Texts \cup Notices) /\ Len(stream') = Len(stream) + 1
           /\ DOMAIN stream' = 1 .. Len(stream) + 1 /\ LastEvent' = e
           /\ \A i \in DOMAIN stream : stream'[i] = stream[i]
           /\ stream'[Len(stream) + 1] = e
           /\ DOMAIN stream \subseteq DOMAIN stream'
           /\ parts \in Seq(DOMAIN stream')
           /\ Asked' <=> Asked \/ e = "ask"
<1>1. /\ stream \in Seq(Texts \cup Notices) /\ Len(stream) \in Nat /\ DOMAIN stream = 1 .. Len(stream)
  BY PartsType DEF OrderInv
<1>2. stream' = Append(stream, e)
  BY DEF Says
<1>3. /\ stream' \in Seq(Texts \cup Notices) /\ Len(stream') = Len(stream) + 1
      /\ DOMAIN stream' = 1 .. Len(stream) + 1
      /\ \A i \in DOMAIN stream : stream'[i] = stream[i]
      /\ stream'[Len(stream) + 1] = e
  BY <1>1, <1>2
<1>4. LastEvent' = e /\ DOMAIN stream \subseteq DOMAIN stream'
  BY <1>1, <1>3 DEF LastEvent
<1>5. parts \in Seq(DOMAIN stream')
  BY <1>4, SeqMonotonic DEF OrderInv, TurnInv
<1>6. Asked' <=> Asked \/ e = "ask"
  BY <1>1, <1>3 DEF Asked
<1> QED BY <1>3, <1>4, <1>5, <1>6

(* A flush and a notice. *)
LEMMA Flushed ==
    ASSUME OrderInv, Open, NEW n, n = <<>> \/ n = Notice(Len(stream) + 1), FlushAndTell(n)
    PROVE  /\ shown' \in Seq(Item) /\ Ordered(shown') /\ Upto(shown', Len(stream) + 1)
           /\ segStart' = Len(parts) /\ clean' \in BOOLEAN
<1> DEFINE l == Len(stream)
           r == Raw(Unsent)
<1>1. PICK f \in Sends, g \in Sends :
        /\ shown' = shown \o Sent(f, r) \o Sent(g, n)
        /\ segStart' = Len(parts)
        /\ clean' = (clean /\ f /\ g)
  BY DEF FlushAndTell
<1>2. f \in BOOLEAN /\ g \in BOOLEAN /\ clean \in BOOLEAN
  BY SendsAreOutcomes DEF OrderInv, TypeOK
<1>3. l \in Nat /\ shown \in Seq(Item) /\ Upto(shown, l) /\ Fits(r) /\ Upto(r, l) /\ Ordered(shown)
  BY RestIs, PartsType DEF OrderInv, TurnInv
<1> DEFINE s == shown \o Sent(f, r)
<1>4. s \in Seq(Item) /\ Ordered(s) /\ Upto(s, l)
  BY <1>2, <1>3, Told
<1> HIDE DEF s, l
<1>5. \A i \in DOMAIN s : s[i] \in Item /\ s[i].at <= l
  BY <1>4, LenProperties, ElementOfSeq DEF Upto
<1>6. Upto(s, l + 1)
  BY <1>3, <1>5 DEF Upto, Item
<1>7. CASE Sent(g, n) = <<>>
  <2>1. s \o Sent(g, n) = s
    BY <1>4, <1>7, ConcatEmptySeq
  <2> QED BY <1>1, <1>2, <1>4, <1>6, <2>1 DEF s, l
<1>8. CASE Sent(g, n) = Notice(l + 1)
  <2> DEFINE t == Notice(l + 1)
  <2>1. t \in Seq(Item) /\ DOMAIN t = {1} /\ t[1].at = l + 1
    BY <1>3 DEF Notice, Item
  <2> HIDE DEF t
  <2>2. Ordered(t) /\ \A i \in DOMAIN s, j \in DOMAIN t : s[i].at < t[j].at
    BY <1>3, <1>5, <2>1 DEF Ordered, Item
  <2>3. s \o t \in Seq(Item) /\ Ordered(s \o t)
    BY <1>4, <2>1, <2>2, Join
  <2>4. \A i \in DOMAIN t : t[i].at <= l + 1
    BY <1>3, <2>1
  <2>5. \A i \in DOMAIN (s \o t) : \/ i \in DOMAIN s /\ (s \o t)[i] = s[i]
                                   \/ i - Len(s) \in DOMAIN t /\ (s \o t)[i] = t[i - Len(s)]
    BY <1>4, <2>1, Concat
  <2>6. Upto(s \o t, l + 1)
    BY <1>6, <2>4, <2>5 DEF Upto
  <2> QED BY <1>1, <1>2, <1>8, <2>3, <2>6 DEF s, l, t
<1> QED BY <1>7, <1>8 DEF Sent, l

(* A thought, a tool use or a question. *)
LEMMA Noticed ==
    ASSUME OrderInv, NEW e \in Notices, Says(e), parts' = parts,
           loop' \in {"running", "asking"},
           \/ UNCHANGED <<shown, segStart>>
           \/ FlushAndTell(<<>>)
           \/ FlushAndTell(Notice(Len(stream'))),
           \/ toolUsed' = TRUE
           \/ toolUsed' = toolUsed /\ (e = "ask" \/ LastEvent \notin Texts)
    PROVE  TurnInv'
<1>0. Open /\ Open' /\ e \notin Texts
  BY DEF Says, Open, Notices, Texts, Markers
<1>1. /\ stream' \in Seq(Texts \cup Notices) /\ Len(stream') = Len(stream) + 1 /\ LastEvent' = e
      /\ parts \in Seq(DOMAIN stream') /\ (Asked' <=> Asked \/ e = "ask")
  BY Spoken
<1>2. /\ Len(stream) \in Nat /\ Len(parts) \in Nat /\ segStart \in 0 .. Len(parts)
      /\ shown \in Seq(Item) /\ Upto(shown, Len(stream))
      /\ \A i \in DOMAIN shown : shown[i] \in Item
  BY PartsType, LenProperties, ElementOfSeq DEF OrderInv, TurnInv
<1>3. Pieces' /\ LastHeld' /\ Gone'
  BY <1>0, <1>1 DEF OrderInv, TurnInv, Pieces, LastHeld, Gone
<1>4. OneText'
  BY <1>0, <1>1 DEF OrderInv, TurnInv, OneText
<1>5. CASE UNCHANGED <<shown, segStart>>
  <2>1. Held' /\ Ordered(shown)'
    BY <1>0, <1>5 DEF OrderInv, TurnInv, Held, Ordered
  <2>2. Upto(shown, Len(stream) + 1)
    <3>1. ASSUME NEW i \in DOMAIN shown PROVE shown[i].at <= Len(stream) + 1
      <4>1. shown[i].at \in Nat /\ shown[i].at <= Len(stream)
        BY <1>2 DEF Upto, Item
      <4> QED BY <1>2, <4>1
    <3> QED BY <3>1 DEF Upto
  <2>3. shown' \in Seq([at : 0 .. Len(stream'), cut : BOOLEAN])
    BY <1>1, <1>2, <1>5, <2>2, ItemType
  <2> QED BY <1>1, <1>2, <1>3, <1>4, <1>5, <2>1, <2>3 DEF TurnInv, InOrder
<1>6. CASE FlushAndTell(<<>>) \/ FlushAndTell(Notice(Len(stream')))
  <2>1. shown' \in Seq(Item) /\ Ordered(shown)' /\ Upto(shown', Len(stream) + 1)
        /\ segStart' = Len(parts)
    BY <1>0, <1>1, <1>6, Flushed DEF Ordered
  <2> DEFINE l == Len(stream')
  <2>2. shown' \in Seq([at : 0 .. l, cut : BOOLEAN])
    <3>1. l \in Nat /\ Upto(shown', l)
      BY <1>1, <1>2, <2>1
    <3> HIDE DEF l
    <3> QED BY <2>1, <3>1, ItemType
  <2>3. Held'
    BY <1>2, <2>1 DEF Held
  <2> QED BY <1>1, <1>2, <1>3, <1>4, <2>1, <2>2, <2>3 DEF TurnInv, InOrder
<1> QED BY <1>5, <1>6

LEMMA HearTextStep == ASSUME OrderInv, HearText PROVE TurnInv'
<1>0. PICK e \in Texts : Says(e)
  BY DEF HearText
<1> DEFINE l == Len(stream)
           n == Len(parts)
<1>1. /\ stream' \in Seq(Texts \cup Notices) /\ Len(stream') = l + 1 /\ LastEvent' = e
      /\ DOMAIN stream' = 1 .. l + 1
      /\ parts \in Seq(DOMAIN stream') /\ (Asked' <=> Asked)
  BY <1>0, Spoken DEF Texts, Markers
<1>2. /\ l \in Nat /\ n \in Nat /\ segStart \in 0 .. n /\ DOMAIN parts = 1 .. n
      /\ \A k \in DOMAIN parts : parts[k] \in 1 .. l
      /\ shown \in Seq(Item) /\ Upto(shown, l)
      /\ \A i \in DOMAIN shown : shown[i] \in Item /\ shown[i].at <= l
  BY PartsType, LenProperties, ElementOfSeq DEF OrderInv, TurnInv, Upto
<1>3. /\ UNCHANGED <<loop, segStart, toolUsed, shown>> /\ Open /\ Open'
      /\ parts' = Append(parts, l + 1) /\ LastEvent \notin Texts
  <2>1. loop = "running" /\ LastEvent \notin Texts
    BY <1>0 DEF Says
  <2> QED BY <1>1, <2>1 DEF HearText, Open
<1> HIDE DEF l
<1>4. /\ parts' \in Seq(DOMAIN stream') /\ Len(parts') = n + 1 /\ DOMAIN parts' = 1 .. n + 1
      /\ \A k \in 1 .. n : parts'[k] = parts[k]
      /\ parts'[n + 1] = l + 1
  <2>1. l + 1 \in DOMAIN stream'
    BY <1>1, <1>2
  <2> QED BY <1>1, <1>3, <2>1
<1> HIDE DEF n
<1>5. Pieces'
  <2> SUFFICES ASSUME NEW j \in 1 .. n + 1, NEW k \in 1 .. n + 1, j < k PROVE parts'[j] < parts'[k]
    BY <1>4 DEF Pieces
  <2>1. CASE k <= n
    <3>1. j \in 1 .. n /\ k \in 1 .. n
      BY <1>2, <2>1
    <3> QED BY <1>2, <1>4, <3>1 DEF OrderInv, TurnInv, Pieces
  <2>2. CASE k = n + 1
    BY <1>2, <1>4, <2>2
  <2> QED BY <1>2, <2>1, <2>2
<1>6. Held'
  <2> SUFFICES ASSUME NEW x \in DOMAIN shown, NEW k \in segStart + 1 .. n + 1
               PROVE  shown[x].at < parts'[k]
    BY <1>3, <1>4 DEF Held
  <2>1. CASE k <= n
    <3>1. k \in segStart + 1 .. n /\ k \in 1 .. n
      BY <1>2, <2>1
    <3> QED BY <1>3, <1>4, <3>1 DEF OrderInv, TurnInv, Held, n
  <2>2. CASE k = n + 1
    BY <1>2, <1>4, <2>2 DEF Item
  <2> QED BY <1>2, <2>1, <2>2
<1>7. LastHeld'
  <2>1. parts' # <<>> /\ segStart' < Len(parts')
    BY <1>2, <1>3, <1>4
  <2> QED BY <1>1, <1>4, <2>1 DEF LastHeld
<1>8. OneText'
  <2>1. ~toolUsed /\ ~Asked => parts = <<>>
    BY <1>3 DEF OrderInv, TurnInv, OneText
  <2>2. parts = <<>> => segStart = 0
    BY <1>2 DEF n
  <2> QED BY <1>0, <1>1, <1>3, <2>1, <2>2 DEF OneText
<1>9. Gone' /\ Ordered(shown)' /\ InOrder'
  <2>1. loop' # "idle"
    BY <1>0, <1>3 DEF Says
  <2> QED BY <1>3, <2>1 DEF OrderInv, TurnInv, Gone, InOrder, Ordered
<1>10. shown' \in Seq([at : 0 .. Len(stream'), cut : BOOLEAN])
  <2>1. ASSUME NEW i \in DOMAIN shown PROVE shown[i].at <= l + 1
    <3>1. shown[i].at \in Nat /\ shown[i].at <= l
      BY <1>2 DEF Item
    <3> QED BY <1>2, <3>1
  <2> DEFINE d == Len(stream')
  <2>2. d \in Nat /\ shown' \in Seq(Item) /\ Upto(shown', d)
    BY <1>1, <1>2, <1>3, <2>1 DEF Upto
  <2> HIDE DEF d
  <2>3. shown' \in Seq([at : 0 .. d, cut : BOOLEAN])
    BY <2>2, ItemType
  <2> QED BY <2>3 DEF d
<1>11. segStart' \in 0 .. Len(parts')
  BY <1>2, <1>3, <1>4
<1> QED BY <1>1, <1>4, <1>5, <1>6, <1>7, <1>8, <1>9, <1>10, <1>11 DEF TurnInv

(* `cc-connect send` puts a message of its own among the others. *)
LEMMA SideSendStep == ASSUME OrderInv, SideSend PROVE TurnInv'
<1> DEFINE z == [at |-> 0, cut |-> FALSE]
           n == Len(shown)
<1>1. /\ UNCHANGED <<loop, stream, parts, segStart, toolUsed>>
      /\ shown' = Append(shown, z)
  BY DEF SideSend, turnVars
<1>2. /\ z \in [at : 0 .. Len(stream), cut : BOOLEAN] /\ z.at = 0 /\ n \in Nat
      /\ DOMAIN shown = 1 .. n /\ shown \in Seq([at : 0 .. Len(stream), cut : BOOLEAN])
  BY PartsType, LenProperties DEF OrderInv, TurnInv
<1> HIDE DEF z
<1>3. /\ shown' \in Seq([at : 0 .. Len(stream), cut : BOOLEAN]) /\ DOMAIN shown' = 1 .. n + 1
      /\ \A i \in 1 .. n : shown'[i] = shown[i]
      /\ shown'[n + 1].at = 0
  BY <1>1, <1>2
<1> HIDE DEF n
<1>4. \A i \in DOMAIN shown' : (i \in DOMAIN shown /\ shown'[i] = shown[i]) \/ shown'[i].at = 0
  BY <1>2, <1>3
<1>5. (Pieces /\ LastHeld /\ OneText /\ Gone)'
  BY <1>1 DEF OrderInv, TurnInv, Pieces, LastHeld, OneText, Gone, Open, LastEvent, Asked
<1>6. Held'
  <2> SUFFICES ASSUME Open, NEW x \in DOMAIN shown', NEW k \in segStart + 1 .. Len(parts)
               PROVE  shown'[x].at < parts[k]
    BY <1>1 DEF Held, Open
  <2>1. parts[k] \in Nat /\ parts[k] > 0
    BY PartsType DEF OrderInv
  <2> QED BY <1>4, <2>1 DEF OrderInv, TurnInv, Held
<1>7. Ordered(shown) => Ordered(shown')
  BY <1>4 DEF Ordered
<1>8. (Open => Ordered(shown))' /\ InOrder'
  BY <1>1, <1>7 DEF OrderInv, TurnInv, Open, InOrder, Ordered, AskedOnly, LastEvent
<1> QED BY <1>1, <1>3, <1>5, <1>6, <1>8 DEF OrderInv, TurnInv

-----------------------------------------------------------------------------
(* The steps of the loop. *)

LEMMA ProgressStep ==
    ASSUME OrderInv, HearThinking \/ HearToolUse PROVE TurnInv'
<1>1. CASE HearThinking
  <2>1. Says("think") /\ UNCHANGED <<loop, parts, toolUsed>> /\ Progress(display.thinking)
    BY <1>1 DEF HearThinking
  <2>2. loop' = "running" /\ LastEvent \notin Texts /\ "think" \in Notices
    BY <2>1 DEF Says, Notices
  <2> QED BY <2>1, <2>2, Noticed DEF Progress
<1>2. CASE HearToolUse
  <2>1. Says("tool") /\ UNCHANGED <<loop, parts>> /\ Progress(display.tools) /\ toolUsed' = TRUE
    BY <1>2 DEF HearToolUse
  <2>2. loop' = "running" /\ "tool" \in Notices
    BY <2>1 DEF Says, Notices
  <2> QED BY <2>1, <2>2, Noticed DEF Progress
<1> QED BY <1>1, <1>2

LEMMA PermissionStep ==
    ASSUME OrderInv, NEW e \in {"permission", "ask"}, HearPermission(e) PROVE TurnInv'
<1>1. Says(e) /\ UNCHANGED <<parts, toolUsed>> /\ e \in Notices
  BY DEF HearPermission, Notices
<1>2. e = "ask" \/ LastEvent \notin Texts
  BY <1>1 DEF Says, Texts, Markers
<1>3. /\ loop' \in {"running", "asking"}
      /\ UNCHANGED <<shown, segStart>> \/ FlushAndTell(Notice(Len(stream')))
  BY <1>1 DEF HearPermission, Says
<1> QED BY <1>1, <1>2, <1>3, Noticed

LEMMA ResultStep == ASSUME OrderInv, HearResult PROVE TurnInv'
<1>0. loop = "running" /\ Open /\ UNCHANGED turnVars
  BY DEF HearResult, Open
<1>1. CASE NoReply("answered")
  BY <1>0, <1>1, Same DEF NoReply
<1>2. CASE Reply(Raw(Unsent), "answered")
  <2>1. PICK b \in Sends : /\ shown' = shown \o Sent(b, Raw(Unsent))
                           /\ loop' = IF b THEN "answered" ELSE "ended"
    BY <1>2 DEF Reply
  <2>2. b \in BOOLEAN /\ loop' \in {"answered", "ended"}
    BY <2>1, SendsAreOutcomes
  <2>3. Fits(Raw(Unsent)) /\ Upto(Raw(Unsent), Len(stream)) /\ Raw(Unsent) \in Seq(Item)
    BY <1>0, RestIs DEF Fits
  <2> QED BY <1>0, <2>1, <2>2, <2>3, Closing
<1>3. CASE ~(toolUsed /\ segStart > 0) /\ Reply(Stripped(FullResponse), "answered")
  <2> DEFINE q == Stripped(FullResponse)
  <2>1. PICK b \in Sends : /\ shown' = shown \o Sent(b, q)
                           /\ loop' = IF b THEN "answered" ELSE "ended"
    BY <1>3 DEF Reply
  <2>2. b \in BOOLEAN /\ loop' \in {"answered", "ended"}
    BY <2>1, SendsAreOutcomes
  <2>3. Fits(q) \/ (AskedOnly /\ LastEvent \notin Texts)
    BY <1>0, <1>3, ResponseFits
  <2>4. q \in Seq(Item) /\ Upto(q, Len(stream))
    BY PiecesTyped DEF FullResponse
  <2> HIDE DEF q
  <2> QED BY <1>0, <2>1, <2>2, <2>3, <2>4, Closing
<1> QED BY <1>1, <1>2, <1>3 DEF HearResult

LEMMA EndStep == ASSUME OrderInv, HearEnd PROVE TurnInv'
<1>0. loop = "running" /\ Open /\ UNCHANGED turnVars /\ loop' = "ended"
  BY DEF HearEnd, Open
<1>1. CASE UNCHANGED shown
  BY <1>0, <1>1, Same
<1>2. ASSUME NEW b \in Sends, toolUsed /\ segStart > 0, shown' = shown \o Sent(b, Raw(Unsent))
      PROVE  TurnInv'
  <2>1. Fits(Raw(Unsent)) /\ Upto(Raw(Unsent), Len(stream)) /\ Raw(Unsent) \in Seq(Item)
    BY <1>0, RestIs DEF Fits
  <2> QED BY <1>0, <1>2, <2>1, SendsAreOutcomes, Closing
<1>3. ASSUME NEW b \in Sends, ~(toolUsed /\ segStart > 0), shown' = shown \o Sent(b, Stripped(parts))
      PROVE  TurnInv'
  <2>1. Stripped(parts) \in Seq(Item) /\ Upto(Stripped(parts), Len(stream))
    BY PiecesTyped
  <2>2. Fits(Stripped(parts)) \/ AskedOnly
    BY <1>0, <1>3, PartsFit
  <2> QED BY <1>0, <1>3, <2>1, <2>2, SendsAreOutcomes, Closing
<1> QED BY <1>0, <1>1, <1>2, <1>3 DEF HearEnd

LEMMA ResetStep == ASSUME NextQueued \/ Return PROVE TurnInv'
  BY Fresh DEF NextQueued, Return, Reset

LEMMA BeginStep == ASSUME OrderInv, Begin PROVE TurnInv'
<1>1. stream' = <<>> /\ parts' = <<>> /\ segStart' = 0 /\ shown' = <<>>
  BY DEF Begin, turnVars, OrderInv, TurnInv, Gone
<1> QED BY <1>1, Fresh

LEMMA SwitchStep ==
    ASSUME OrderInv, Reload \/ (\E m \in Modes : SetMode(m))
                     \/ (\E f \in {"thinking", "tools"}, b \in BOOLEAN : SetFlag(f, b))
    PROVE  TurnInv'
<1>1. UNCHANGED <<turnVars, shown>> /\ loop' = loop
  BY DEF Reload, SetMode, SetFlag, Switch
<1> QED BY <1>1, Same

LEMMA TurnStep == ASSUME OrderInv, [Next]_vars PROVE TurnInv'
<1>1. CASE SideNote \/ GiveUp \/ UNCHANGED vars
  <2>1. UNCHANGED <<turnVars, shown>> /\ (loop' = loop \/ (loop = "running" /\ loop' = "ended"))
    BY <1>1 DEF SideNote, GiveUp, vars, turnVars
  <2> QED BY <2>1, Same DEF Open
<1>2. ASSUME NEW all \in BOOLEAN, Answer(all) PROVE TurnInv'
  <2>1. UNCHANGED <<turnVars, shown>> /\ loop = "asking" /\ loop' = "running"
    BY <1>2 DEF Answer
  <2> QED BY <2>1, Same DEF Open
<1> QED BY <1>1, <1>2, SwitchStep, BeginStep, ResetStep, ProgressStep, HearTextStep, ResultStep,
           EndStep, PermissionStep, SideSendStep DEF Next

-----------------------------------------------------------------------------
(* The settings and the flags of a turn. *)

DataType ==
    /\ config \in Config /\ display \in Display
    /\ loop \in {"idle", "running", "asking", "answered", "ended"}
    /\ toolUsed \in BOOLEAN /\ approveAll \in BOOLEAN
    /\ sideText \in {"none", "side"} /\ sending \in BOOLEAN /\ clean \in BOOLEAN

LEMMA TypeParts == TypeOK <=> /\ DataType
                              /\ loop = "asking" => LastEvent \in {"permission", "ask"}
                              /\ stream \in Seq(Texts \cup Notices) /\ parts \in Seq(DOMAIN stream)
                              /\ segStart \in 0 .. Len(parts)
                              /\ shown \in Seq([at : 0 .. Len(stream), cut : BOOLEAN])
  BY DEF TypeOK, DataType

LEMMA EffectiveType == ASSUME NEW c \in Config PROVE EffectiveDisplay(c) \in Display
<1>1. /\ c.project.mode \in Modes \cup {Unset} /\ c.global.mode \in Modes \cup {Unset}
      /\ c.project.thinking \in BOOLEAN \cup {Unset} /\ c.global.thinking \in BOOLEAN \cup {Unset}
      /\ c.project.tools \in BOOLEAN \cup {Unset} /\ c.global.tools \in BOOLEAN \cup {Unset}
      /\ c.quiet \in BOOLEAN
  BY DEF Config, Block
<1> DEFINE m == Pick(c.project.mode, c.global.mode, IF c.quiet THEN "quiet" ELSE "full")
           t == Pick(c.project.thinking, c.global.thinking, m = "full")
           u == Pick(c.project.tools, c.global.tools, m = "full")
<1>2. m \in Modes
  BY <1>1 DEF Pick, Modes
<1>3. t \in BOOLEAN
  BY <1>1 DEF Pick
<1>4. u \in BOOLEAN
  BY <1>1 DEF Pick
<1>5. EffectiveDisplay(c) = [mode |-> m, thinking |-> t, tools |-> u]
  BY DEF EffectiveDisplay
<1> HIDE DEF m, t, u
<1> QED BY <1>2, <1>3, <1>4, <1>5 DEF Display

(* What SaveDisplayConfig leaves in the file. *)
LEMMA SavedIs ==
    ASSUME config \in Config, NEW d \in Display, NEW f \in SUBSET {"mode", "thinking", "tools"},
           SaveDisplay(d, f)
    PROVE  /\ config' \in Config /\ config'.project = config.project /\ config'.quiet = config.quiet
           /\ \A x \in {"mode", "thinking", "tools"} :
                 config'.global[x] = IF x \in f THEN d[x] ELSE config.global[x]
<1> DEFINE g == [x \in {"mode", "thinking", "tools"} |-> IF x \in f THEN d[x] ELSE config.global[x]]
<1>1. config' = [config EXCEPT !.global = g]
  BY DEF SaveDisplay
<1>2. /\ config.global.mode \in Modes \cup {Unset}
      /\ config.global.thinking \in BOOLEAN \cup {Unset}
      /\ config.global.tools \in BOOLEAN \cup {Unset}
      /\ d.mode \in Modes /\ d.thinking \in BOOLEAN /\ d.tools \in BOOLEAN
  BY DEF Config, Block, Display
<1>3. g \in Block
  BY <1>2 DEF Block
<1> HIDE DEF g
<1>4. /\ config' \in Config /\ config'.project = config.project /\ config'.quiet = config.quiet
      /\ config'.global = g
  BY <1>1, <1>3 DEF Config
<1> QED BY <1>4 DEF g

(* /quiet and /config mode save all that they set, and the flags one field. *)
LEMMA SettingsStep ==
    ASSUME config \in Config, display \in Display,
           Reload \/ (\E m \in Modes : SetMode(m))
                  \/ (\E f \in {"thinking", "tools"}, b \in BOOLEAN : SetFlag(f, b))
    PROVE  /\ config' \in Config /\ display' \in Display
           /\ DisplayKept => DisplayKept'
<1> DEFINE Fields == {"mode", "thinking", "tools"}
<1>0. /\ \A f \in Fields : config.project[f] \in (IF f = "mode" THEN Modes ELSE BOOLEAN) \cup {Unset}
      /\ \A f \in Fields : display[f] \in IF f = "mode" THEN Modes ELSE BOOLEAN
  BY DEF Config, Block, Display
<1>1. CASE Reload
  <2>1. config' = config /\ display' = EffectiveDisplay(config)
    BY <1>1 DEF Reload, Switch
  <2> QED BY <2>1, EffectiveType DEF DisplayKept
<1>2. ASSUME NEW m \in Modes, SetMode(m)
      PROVE  config' \in Config /\ display' \in Display /\ DisplayKept'
  <2>1. DisplayOf(m) \in Display /\ display' = DisplayOf(m)
    BY <1>2 DEF SetMode, Switch, DisplayOf, Display
  <2>2. /\ config' \in Config
        /\ \A f \in Fields : config'.global[f] = display'[f]
    BY <1>2, <2>1, SavedIs DEF SetMode
  <2>3. \A f \in Fields : display'[f] # Unset
    BY <2>1, UnsetIsNoValue DEF Display
  <2>4. \A f \in Fields : config'.project[f] = Unset => EffectiveDisplay(config')[f] = display'[f]
    BY <2>2, <2>3 DEF EffectiveDisplay, Pick
  <2>5. DisplayKept'
    BY <2>4 DEF DisplayKept
  <2> QED BY <2>1, <2>2, <2>5
<1>3. ASSUME NEW f \in {"thinking", "tools"}, NEW b \in BOOLEAN, SetFlag(f, b)
      PROVE  config' \in Config /\ display' \in Display /\ (DisplayKept => DisplayKept')
  <2>1. display' = [display EXCEPT ![f] = b] /\ display' \in Display
    BY <1>3 DEF SetFlag, Switch, Display
  <2>2. /\ config' \in Config /\ config'.project = config.project /\ config'.quiet = config.quiet
        /\ \A x \in Fields : config'.global[x] = IF x \in {f} THEN display'[x] ELSE config.global[x]
    BY <1>3, <2>1, SavedIs DEF SetFlag
  <2>3. b # Unset /\ config'.global[f] = b /\ config'.global.mode = config.global.mode
    BY <2>1, <2>2, UnsetIsNoValue DEF Display
  <2>4. config'.project[f] = Unset => EffectiveDisplay(config')[f] = b
    BY <2>3 DEF EffectiveDisplay, Pick
  <2>5. \A x \in Fields \ {f} : EffectiveDisplay(config')[x] = EffectiveDisplay(config)[x]
    BY <2>2, <2>3 DEF EffectiveDisplay, Pick
  <2>6. display'[f] = b /\ \A x \in Fields \ {f} : display'[x] = display[x]
    BY <2>1 DEF Display
  <2>7. DisplayKept => DisplayKept'
    BY <2>2, <2>4, <2>5, <2>6 DEF DisplayKept
  <2> QED BY <2>1, <2>2, <2>7
<1> QED BY <1>1, <1>2, <1>3

LEMMA TypeStep == ASSUME OrderInv, [Next]_vars PROVE TypeOK'
<1> SUFFICES ASSUME TRUE
             PROVE  DataType' /\ (loop = "asking" => LastEvent \in {"permission", "ask"})'
  <2>1. TurnInv'
    BY TurnStep
  <2> QED BY <2>1 DEF TurnInv, DataType, TypeOK
<1> USE SendsAreOutcomes DEF DataType, LastEvent
<1>0. DataType
  BY DEF OrderInv, TypeOK
<1>1. CASE \/ Reload \/ (\E m \in Modes : SetMode(m))
           \/ (\E f \in {"thinking", "tools"}, b \in BOOLEAN : SetFlag(f, b))
  <2>1. config' \in Config /\ display' \in Display
    BY <1>0, <1>1, SettingsStep
  <2> QED BY <1>0, <1>1, <2>1 DEF Reload, SetMode, SetFlag, Switch, turnVars, sideVars, OrderInv, TypeOK
<1>2. CASE Begin \/ NextQueued \/ Return \/ SideSend \/ SideNote \/ UNCHANGED vars
  BY <1>0, <1>2 DEF Begin, NextQueued, Return, SideSend, SideNote, Reset, vars, turnVars, settings,
                    sideVars, OrderInv, TypeOK
<1>3. CASE GiveUp \/ (\E all \in BOOLEAN : Answer(all))
  BY <1>0, <1>3 DEF GiveUp, Answer, turnVars, settings, sideVars
<1>4. CASE HearEnd
  BY <1>0, <1>4 DEF HearEnd, turnVars, settings, sideVars
<1>5. CASE HearResult
  BY <1>0, <1>5 DEF HearResult, NoReply, Reply, turnVars, settings
<1>6. CASE HearThinking \/ HearToolUse
  BY <1>0, <1>6 DEF HearThinking, HearToolUse, Progress, FlushAndTell, Says, settings, sideVars
<1>7. CASE HearText
  BY <1>0, <1>7 DEF HearText, Says, settings, sideVars
<1>8. ASSUME NEW e \in {"permission", "ask"}, HearPermission(e)
      PROVE  DataType' /\ (loop = "asking" => LastEvent \in {"permission", "ask"})'
  <2>1. Says(e) /\ LastEvent' = e
    BY <1>8, Spoken DEF HearPermission, Notices
  <2> QED BY <1>0, <1>8, <2>1 DEF HearPermission, FlushAndTell, Says, settings, sideVars
<1> QED BY <1>1, <1>2, <1>3, <1>4, <1>5, <1>6, <1>7, <1>8 DEF Next

LEMMA InitInv == Init => OrderInv /\ DisplayKept
<1> SUFFICES ASSUME Init PROVE OrderInv /\ DisplayKept
  OBVIOUS
<1>1. config \in Config /\ display \in Display
  BY ConfigsAreConfigs, EffectiveType DEF Init
<1>2. /\ stream = <<>> /\ parts = <<>> /\ segStart = 0 /\ shown = <<>> /\ loop = "idle"
      /\ DOMAIN shown = {} /\ DOMAIN parts = {} /\ Len(parts) = 0 /\ LastEvent = "none"
  BY DEF Init, LastEvent
<1>3. /\ <<>> \in Seq(Texts \cup Notices) /\ <<>> \in Seq(DOMAIN stream)
      /\ <<>> \in Seq([at : 0 .. Len(stream), cut : BOOLEAN])
  BY EmptySeq
<1>4. Pieces /\ Held /\ OneText /\ Gone /\ InOrder /\ Ordered(shown)
  BY <1>2 DEF Pieces, Held, OneText, Gone, InOrder, Ordered
<1>5. LastHeld
  BY <1>2 DEF LastHeld, Texts, Markers
<1>6. TypeOK
  <2>1. DataType /\ loop # "asking"
    BY <1>1 DEF Init, DataType
  <2>2. /\ stream \in Seq(Texts \cup Notices) /\ parts \in Seq(DOMAIN stream)
        /\ shown \in Seq([at : 0 .. Len(stream), cut : BOOLEAN])
    BY <1>2, <1>3
  <2>3. segStart \in 0 .. Len(parts)
    BY <1>2
  <2> QED BY <2>1, <2>2, <2>3, TypeParts
<1> QED BY <1>2, <1>3, <1>4, <1>5, <1>6 DEF OrderInv, TurnInv, Init, DisplayKept

LEMMA OrderAlways == Spec => []OrderInv
<1>1. OrderInv /\ [Next]_vars => OrderInv'
  BY TurnStep, TypeStep DEF OrderInv
<1> QED BY InitInv, <1>1, PTL DEF Spec

(* Every variable keeps its type: segmentStart never points past the       *)
(* pieces of the reply, and every piece is an event of this turn.          *)
THEOREM ReplyTypeCorrect == Spec => []TypeOK
<1>1. OrderInv => TypeOK
  BY DEF OrderInv
<1> QED BY <1>1, OrderAlways, PTL

(* The chat reads in the order in which the agent spoke, and nothing       *)
(* stands in it twice, for turns of any length, in every display mode,     *)
(* however it is changed in between and whichever sends fail.              *)
THEOREM InOrderCorrect == Spec => []InOrder
<1>1. OrderInv => InOrder
  BY DEF OrderInv, TurnInv
<1> QED BY <1>1, OrderAlways, PTL

(* A restart and a reload bring back the display that the user has chosen, *)
(* unless the project gives its own, whatever config.toml said at first.   *)
THEOREM DisplayCorrect == Spec => []DisplayKept
<1>1. OrderInv /\ DisplayKept /\ [Next]_vars => DisplayKept'
  <2> SUFFICES ASSUME OrderInv, DisplayKept, [Next]_vars PROVE DisplayKept'
    OBVIOUS
  <2>1. CASE UNCHANGED <<config, display>>
    BY <2>1 DEF DisplayKept
  <2>2. CASE \/ Reload \/ (\E m \in Modes : SetMode(m))
             \/ (\E f \in {"thinking", "tools"}, b \in BOOLEAN : SetFlag(f, b))
    BY <2>2, SettingsStep DEF OrderInv, TypeOK
  <2>3. \/ UNCHANGED <<config, display>>
        \/ Reload \/ (\E m \in Modes : SetMode(m))
        \/ (\E f \in {"thinking", "tools"}, b \in BOOLEAN : SetFlag(f, b))
    BY DEF Next, vars, settings, Begin, NextQueued, Return, HearThinking, HearToolUse, HearText,
           HearResult, HearEnd, GiveUp, HearPermission, Answer, SideSend, SideNote, Says
  <2> QED BY <2>1, <2>2, <2>3
<1> QED BY <1>1, InitInv, OrderAlways, PTL DEF Spec


-----------------------------------------------------------------------------
(* Nothing of a clean turn is lost. *)

On(s, i) == \E x \in DOMAIN s : s[x].at = i

(* Every text of the turn is noted as a piece, and nothing else is. *)
Noted ==
    Open => /\ \A k \in DOMAIN parts : stream[parts[k]] \in Texts
            /\ \A i \in DOMAIN stream : stream[i] \in Texts => \E k \in DOMAIN parts : parts[k] = i

(* What lies before the segment was sent. *)
SentBefore == Open /\ clean => \A k \in 1 .. segStart : On(shown, parts[k])

(* Where no tool was used, or tools are shown, at most the last text is    *)
(* held back: what came before it went out with a notice.                  *)
OneHeld ==
    Open /\ (~toolUsed \/ (clean /\ display.tools)) =>
        /\ LastEvent \notin Texts => segStart = Len(parts)
        /\ LastEvent \in Texts => segStart + 1 >= Len(parts)

(* What `cc-connect send` is remembered for stands in the chat. *)
SideSeen == loop # "idle" /\ clean /\ (sending \/ sideText = "side") => On(shown, 0)

SaidInv == Noted /\ SentBefore /\ OneHeld /\ SideSeen /\ AllSaid

LEMMA OnMore ==
    ASSUME OrderInv, NEW q \in Seq(Item), shown' = shown \o q
    PROVE  /\ \A i : On(shown, i) => On(shown', i)
           /\ \A j \in DOMAIN q : On(shown', q[j].at)
<1>0. shown \in Seq(Item)
  BY PartsType DEF OrderInv
<1>1. ASSUME NEW x \in DOMAIN shown PROVE x \in DOMAIN shown' /\ shown'[x] = shown[x]
  BY <1>0
<1>2. ASSUME NEW j \in DOMAIN q PROVE Len(shown) + j \in DOMAIN shown' /\ shown'[Len(shown) + j] = q[j]
  BY <1>0
<1> QED BY <1>1, <1>2 DEF On

LEMMA SaidSame ==
    ASSUME OrderInv, SaidInv, UNCHANGED <<turnVars, shown>>, clean' => clean,
           loop' = loop \/ (loop = "asking" /\ loop' = "running"),
           clean' => display' = display,
           clean' /\ loop # "idle" /\ (sending' \/ sideText' = "side") => sending \/ sideText = "side"
    PROVE  SaidInv'
<1>1. /\ stream' = stream /\ parts' = parts /\ segStart' = segStart /\ toolUsed' = toolUsed
      /\ shown' = shown /\ LastEvent' = LastEvent
  BY DEF turnVars, LastEvent
<1>2. Noted' /\ SentBefore' /\ SideSeen'
  BY <1>1 DEF SaidInv, Noted, SentBefore, SideSeen, Open, On
<1>3. OneHeld'
  BY <1>1 DEF SaidInv, OneHeld, Open
<1>4. AllSaid'
  BY <1>1 DEF SaidInv, AllSaid, InChat, TextsOf
<1> QED BY <1>2, <1>3, <1>4 DEF SaidInv

LEMMA SaidFresh ==
    ASSUME stream' = <<>>, parts' = <<>>, segStart' = 0, loop' \in {"idle", "running"},
           loop' = "running" /\ clean' => ~sending' /\ sideText' = "none"
    PROVE  SaidInv'
<1>1. DOMAIN stream' = {} /\ DOMAIN parts' = {} /\ Len(parts') = 0 /\ LastEvent' = "none"
  BY DEF LastEvent
<1>2. LastEvent' \notin Texts
  BY <1>1 DEF Texts, Markers
<1>3. Noted' /\ SentBefore' /\ SideSeen' /\ AllSaid'
  BY <1>1 DEF Noted, SentBefore, SideSeen, AllSaid
<1>4. OneHeld'
  BY <1>1, <1>2 DEF OneHeld
<1> QED BY <1>3, <1>4 DEF SaidInv

LEMMA SaidInit == Init => SaidInv
<1> SUFFICES ASSUME Init PROVE SaidInv
  OBVIOUS
<1>1. DOMAIN stream = {} /\ DOMAIN parts = {} /\ Len(parts) = 0 /\ LastEvent = "none" /\ loop = "idle"
      /\ segStart = 0
  BY DEF Init, LastEvent
<1>2. LastEvent \notin Texts
  BY <1>1 DEF Texts, Markers
<1> QED BY <1>1, <1>2 DEF SaidInv, Noted, SentBefore, SideSeen, AllSaid, OneHeld

LEMMA SaidEnded ==
    ASSUME loop' = "ended", clean' = FALSE PROVE SaidInv'
  BY DEF SaidInv, Noted, SentBefore, OneHeld, SideSeen, AllSaid, Open

LEMMA FlushSaid ==
    ASSUME OrderInv, Open, NEW n, n = <<>> \/ n = Notice(Len(stream) + 1), FlushAndTell(n)
    PROVE  /\ \A i : On(shown, i) => On(shown', i)
           /\ clean' => clean /\ \A k \in segStart + 1 .. Len(parts) : On(shown', parts[k])
<1> DEFINE r == Raw(Unsent)
<1>1. PICK f \in Sends, g \in Sends :
        /\ shown' = shown \o Sent(f, r) \o Sent(g, n)
        /\ clean' = (clean /\ f /\ g)
  BY DEF FlushAndTell
<1>2. /\ shown \in Seq(Item) /\ r \in Seq(Item) /\ n \in Seq(Item) /\ DOMAIN r = DOMAIN Unsent
      /\ \A i \in DOMAIN Unsent : r[i].at = Unsent[i]
  <2>1. n \in Seq(Item)
    <3>1. CASE n = <<>>
      BY <3>1
    <3>2. CASE n = Notice(Len(stream) + 1)
      <4>1. Len(stream) + 1 \in Nat
        BY PartsType DEF OrderInv
      <4> QED BY <3>2, <4>1 DEF Notice, Item
    <3> QED BY <3>1, <3>2
  <2> QED BY <2>1, PartsType, UnsentIs, RawOf DEF OrderInv
<1> DEFINE u == Sent(f, r)
           v == Sent(g, n)
<1>3. u \in Seq(Item) /\ v \in Seq(Item)
  BY <1>2 DEF Sent
<1>4. shown' = shown \o (u \o v) /\ u \o v \in Seq(Item)
  <2>1. shown' = (shown \o u) \o v
    BY <1>1
  <2> HIDE DEF u, v
  <2>2. (shown \o u) \o v = shown \o (u \o v)
    BY <1>2, <1>3, ConcatAssociative
  <2>3. u \o v \in Seq(Item)
    BY <1>3, ConcatProperties
  <2> QED BY <2>1, <2>2, <2>3
<1>5. \A i : On(shown, i) => On(shown', i)
  BY <1>4, OnMore
<1>6. ASSUME f, NEW k \in segStart + 1 .. Len(parts) PROVE On(shown', parts[k])
  <2> DEFINE j == k - segStart
  <2>1. j \in DOMAIN Unsent /\ Unsent[j] = parts[k] /\ j \in DOMAIN r /\ u = r
    <3>1. j \in 1 .. Len(parts) - segStart /\ segStart + j = k
      BY PartsType DEF OrderInv
    <3> QED BY <1>2, <1>6, <3>1, UnsentIs DEF OrderInv, Sent
  <2>2. j \in DOMAIN (u \o v) /\ (u \o v)[j] = r[j]
    BY <1>3, <2>1, Concat
  <2> QED BY <1>2, <1>4, <2>1, <2>2, OnMore
<1> QED BY <1>1, <1>5, <1>6

LEMMA SaidNoticed ==
    ASSUME OrderInv, SaidInv, NEW e \in Notices, Says(e), parts' = parts,
           loop' \in {"running", "asking"},
           \/ /\ UNCHANGED <<shown, segStart, clean>>
              /\ \/ toolUsed' = toolUsed /\ LastEvent \notin Texts
                 \/ toolUsed' = TRUE /\ ~display.tools
           \/ FlushAndTell(<<>>) \/ FlushAndTell(Notice(Len(stream')))
    PROVE  SaidInv'
<1>0. /\ Open /\ Open' /\ e \notin Texts /\ display' = display /\ loop = "running"
      /\ sideText' = sideText /\ sending' = sending
  BY DEF Says, Open, Notices, Texts, Markers, settings, sideVars
<1>1. /\ Len(stream') = Len(stream) + 1 /\ LastEvent' = e /\ DOMAIN stream' = 1 .. Len(stream) + 1
      /\ DOMAIN stream = 1 .. Len(stream) /\ Len(stream) \in Nat
      /\ \A i \in DOMAIN stream : stream'[i] = stream[i]
      /\ stream'[Len(stream) + 1] = e
  BY Spoken, PartsType DEF OrderInv
<1>2. /\ DOMAIN parts = 1 .. Len(parts) /\ Len(parts) \in Nat /\ segStart \in 0 .. Len(parts)
      /\ \A k \in DOMAIN parts : parts[k] \in DOMAIN stream
  BY PartsType DEF OrderInv
<1>3. Noted'
  BY <1>0, <1>1, <1>2 DEF SaidInv, Noted
<1>4. AllSaid'
  BY DEF AllSaid
<1>5. CASE UNCHANGED <<shown, segStart, clean>> /\ \/ toolUsed' = toolUsed /\ LastEvent \notin Texts
                                                   \/ toolUsed' = TRUE /\ ~display.tools
  <2>1. SentBefore' /\ SideSeen'
    BY <1>0, <1>5 DEF SaidInv, SentBefore, SideSeen, On
  <2>2. OneHeld'
    BY <1>0, <1>1, <1>5 DEF SaidInv, OneHeld
  <2> QED BY <1>3, <1>4, <2>1, <2>2 DEF SaidInv
<1>6. CASE FlushAndTell(<<>>) \/ FlushAndTell(Notice(Len(stream')))
  <2>1. /\ \A i : On(shown, i) => On(shown', i)
        /\ clean' => clean /\ \A k \in segStart + 1 .. Len(parts) : On(shown', parts[k])
        /\ segStart' = Len(parts)
    BY <1>0, <1>1, <1>6, FlushSaid, Flushed
  <2>2. SentBefore'
    <3>0. ASSUME clean', NEW k \in 1 .. Len(parts) PROVE On(shown', parts[k])
      <4>1. CASE k <= segStart
        <5>1. clean
          BY <2>1, <3>0
        <5>2. k \in 1 .. segStart
          BY <1>2, <4>1
        <5> QED BY <1>0, <2>1, <5>1, <5>2 DEF SaidInv, SentBefore
      <4>2. CASE k > segStart
        <5>1. k \in segStart + 1 .. Len(parts)
          BY <1>2, <4>2
        <5> QED BY <2>1, <3>0, <5>1
      <4> QED BY <1>2, <4>1, <4>2
    <3>1. segStart' = Len(parts)
      BY <2>1
    <3> QED BY <3>0, <3>1 DEF SentBefore
  <2>3. SideSeen'
    BY <1>0, <2>1 DEF SaidInv, SideSeen
  <2>4. OneHeld'
    BY <1>0, <1>1, <2>1 DEF OneHeld
  <2> QED BY <1>3, <1>4, <2>2, <2>3, <2>4 DEF SaidInv
<1> QED BY <1>5, <1>6

LEMMA SaidText == ASSUME OrderInv, SaidInv, HearText PROVE SaidInv'
<1>0. PICK e \in Texts : Says(e)
  BY DEF HearText
<1> DEFINE l == Len(stream)
           n == Len(parts)
<1>1. /\ Len(stream') = l + 1 /\ LastEvent' = e /\ DOMAIN stream' = 1 .. l + 1
      /\ DOMAIN stream = 1 .. l /\ l \in Nat /\ stream'[l + 1] = e
      /\ \A i \in DOMAIN stream : stream'[i] = stream[i]
  BY <1>0, Spoken, PartsType DEF OrderInv
<1>2. /\ UNCHANGED <<loop, segStart, toolUsed, shown, clean, display, sending, sideText>>
      /\ Open /\ Open' /\ loop = "running" /\ parts' = Append(parts, l + 1) /\ LastEvent \notin Texts
  <2>1. /\ loop = "running" /\ LastEvent \notin Texts
        /\ UNCHANGED <<display, sending, sideText>>
    BY <1>0 DEF Says, settings, sideVars
  <2> QED BY <1>1, <2>1 DEF HearText, Open
<1>3. /\ parts \in Seq(Nat) /\ n \in Nat /\ DOMAIN parts = 1 .. n /\ segStart \in 0 .. n
      /\ \A k \in DOMAIN parts : parts[k] \in DOMAIN stream
  BY PartsType DEF OrderInv
<1>4. /\ DOMAIN parts' = 1 .. n + 1 /\ Len(parts') = n + 1 /\ parts'[n + 1] = l + 1
      /\ \A k \in 1 .. n : parts'[k] = parts[k]
  <2>1. l + 1 \in Nat
    BY <1>1
  <2> QED BY <1>2, <1>3, <2>1
<1> HIDE DEF l, n
<1>5. Noted'
  <2>1. ASSUME NEW k \in 1 .. n + 1 PROVE stream'[parts'[k]] \in Texts
    <3>1. CASE k = n + 1
      BY <1>1, <1>4, <3>1
    <3>2. CASE k # n + 1
      <4>1. k \in 1 .. n
        BY <1>3, <3>2
      <4> QED BY <1>1, <1>2, <1>3, <1>4, <4>1 DEF SaidInv, Noted
    <3> QED BY <3>1, <3>2
  <2>2. ASSUME NEW i \in 1 .. l + 1, stream'[i] \in Texts PROVE \E k \in 1 .. n + 1 : parts'[k] = i
    <3>1. CASE i = l + 1
      <4>1. n + 1 \in 1 .. n + 1
        BY <1>3
      <4> QED BY <1>4, <3>1, <4>1
    <3>2. CASE i # l + 1
      <4>1. i \in DOMAIN stream /\ stream[i] \in Texts
        BY <1>1, <2>2, <3>2
      <4>2. PICK k \in 1 .. n : parts[k] = i
        BY <1>2, <1>3, <4>1 DEF SaidInv, Noted
      <4>3. k \in 1 .. n + 1 /\ parts'[k] = i
        BY <1>3, <1>4, <4>2
      <4> QED BY <4>3
    <3> QED BY <3>1, <3>2
  <2> QED BY <1>1, <1>4, <2>1, <2>2 DEF Noted
<1>6. SentBefore'
  <2> SUFFICES ASSUME clean, NEW k \in 1 .. segStart PROVE On(shown, parts'[k])
    BY <1>2 DEF SentBefore, On
  <2>1. k \in 1 .. n
    BY <1>3
  <2> QED BY <1>2, <1>4, <2>1 DEF SaidInv, SentBefore
<1>7. OneHeld'
  <2>1. ~toolUsed \/ (clean /\ display.tools) => segStart = n
    BY <1>2 DEF SaidInv, OneHeld, n
  <2> QED BY <1>0, <1>1, <1>2, <1>3, <1>4, <2>1 DEF OneHeld
<1>8. SideSeen' /\ AllSaid'
  BY <1>2 DEF SaidInv, SideSeen, AllSaid, On
<1> QED BY <1>5, <1>6, <1>7, <1>8 DEF SaidInv

(* The last text at the end of a turn. *)
LEMMA AtEnd ==
    ASSUME OrderInv, SaidInv, loop = "running", LastEvent \in Texts
    PROVE  /\ Len(parts) \in DOMAIN parts /\ parts[Len(parts)] = Len(stream)
           /\ DOMAIN parts = 1 .. Len(parts) /\ Len(parts) \in Nat /\ segStart \in Nat
           /\ segStart < Len(parts)
           /\ stream[Len(stream)] = LastEvent /\ Len(stream) > 0 /\ LastText = <<Len(stream)>>
           /\ \A i \in TextsOf : \E k \in DOMAIN parts : parts[k] = i
           /\ TextsOf = {Len(stream)} => Len(parts) = 1
           /\ ~On(shown, Len(stream))
<1> DEFINE n == Len(parts)
<1>0. /\ n \in Nat /\ DOMAIN parts = 1 .. n /\ segStart \in Nat /\ segStart <= n
      /\ DOMAIN stream = 1 .. Len(stream) /\ Len(stream) \in Nat /\ shown \in Seq(Item)
      /\ \A k \in DOMAIN parts : parts[k] \in DOMAIN stream
  BY PartsType DEF OrderInv
<1>1. Open /\ parts[n] = Len(stream) /\ segStart < n
  BY DEF Open, OrderInv, TurnInv, LastHeld
<1>2. n \in DOMAIN parts /\ n \in segStart + 1 .. n
  BY <1>0, <1>1
<1>3. stream # <<>>
  BY DEF LastEvent, Texts, Markers
<1>4. stream[Len(stream)] = LastEvent /\ Len(stream) > 0 /\ LastText = <<Len(stream)>>
  BY <1>0, <1>1, <1>2, <1>3 DEF LastEvent, LastText
<1>5. \A i \in TextsOf : \E k \in DOMAIN parts : parts[k] = i
  BY <1>1 DEF SaidInv, Noted, TextsOf
<1>6. ASSUME TextsOf = {Len(stream)} PROVE n = 1
  <2>1. 1 \in DOMAIN parts
    BY <1>0, <1>1
  <2>2. parts[1] \in TextsOf
    BY <1>0, <1>1, <2>1 DEF SaidInv, Noted, TextsOf
  <2>3. n > 1 => parts[1] < parts[n]
    BY <1>2, <2>1 DEF OrderInv, TurnInv, Pieces
  <2> QED BY <1>0, <1>1, <1>6, <2>2, <2>3
<1>7. ~On(shown, Len(stream))
  BY <1>0, <1>1, <1>2 DEF On, OrderInv, TurnInv, Held, Item
<1> QED BY <1>0, <1>1, <1>2, <1>4, <1>5, <1>6, <1>7

(* A reply that is not the whole text is the last one, and what came       *)
(* before it has been sent.                                                *)
LEMMA ResponseIs ==
    ASSUME OrderInv, SaidInv, loop = "running", clean, LastEvent \in Texts,
           ~(toolUsed /\ segStart > 0)
    PROVE  /\ \/ FullResponse = parts
              \/ /\ FullResponse = <<Len(stream)>>
                 /\ \A k \in DOMAIN parts : k # Len(parts) => On(shown, parts[k])
           /\ Len(FullResponse) = 1 => FullResponse[1] = Len(stream)
           /\ Len(parts) = 1 => Len(FullResponse) = 1
<1> DEFINE n == Len(parts)
<1>0. /\ n \in DOMAIN parts /\ parts[n] = Len(stream) /\ DOMAIN parts = 1 .. n /\ n \in Nat
      /\ segStart \in Nat /\ segStart < n /\ LastText = <<Len(stream)>> /\ Open
  BY AtEnd DEF Open
<1>1. CASE FullResponse = parts
  BY <1>0, <1>1
<1>2. CASE FullResponse # parts
  <2>1. FullResponse = <<Len(stream)>> /\ ~(segStart = 0 /\ ~display.tools)
    BY <1>0, <1>2 DEF FullResponse
  <2>2. ~toolUsed \/ display.tools
    BY <1>0, <2>1
  <2>3. segStart + 1 >= n
    BY <1>0, <2>2 DEF SaidInv, OneHeld
  <2>4. ASSUME NEW k \in DOMAIN parts, k # n PROVE On(shown, parts[k])
    <3>1. k \in 1 .. segStart
      BY <1>0, <2>3, <2>4
    <3> QED BY <1>0, <3>1 DEF SaidInv, SentBefore
  <2> QED BY <2>1, <2>4
<1> QED BY <1>1, <1>2

(* What is said when all texts, or all but the last, are in the chat. *)
LEMMA SaidClosed ==
    ASSUME OrderInv, SaidInv, loop = "running", clean, LastEvent \in Texts, UNCHANGED turnVars,
           \/ LastEvent # "bare" /\ \A k \in DOMAIN parts :
                  \/ On(shown', parts[k])
                  \/ stream[parts[k]] = "side" /\ On(shown', 0)
           \/ LastEvent = "bare" /\ (Len(parts) = 1 => ~On(shown', Len(stream)))
    PROVE  AllSaid'
<1>1. /\ stream' = stream /\ LastEvent' = LastEvent /\ TextsOf' = TextsOf
      /\ \A i : InChat(i)' <=> On(shown', i) \/ (stream[i] = "side" /\ On(shown', 0))
  BY DEF turnVars, LastEvent, TextsOf, InChat, On
<1>2. CASE LastEvent # "bare" /\ \A k \in DOMAIN parts :
                  On(shown', parts[k]) \/ (stream[parts[k]] = "side" /\ On(shown', 0))
  <2>1. \A i \in TextsOf : On(shown', i) \/ (stream[i] = "side" /\ On(shown', 0))
    BY <1>2, AtEnd
  <2>2. stream[Len(stream)] # "bare"
    BY <1>2, AtEnd
  <2> QED BY <1>1, <2>1, <2>2 DEF AllSaid, InChat, On
<1>3. CASE LastEvent = "bare" /\ (Len(parts) = 1 => ~On(shown', Len(stream)))
  <2>1. stream[Len(stream)] = "bare" /\ (TextsOf = {Len(stream)} => ~On(shown', Len(stream)))
    BY <1>3, AtEnd
  <2> QED BY <1>1, <2>1 DEF AllSaid, InChat, On
<1> QED BY <1>2, <1>3

LEMMA SaidNoReply ==
    ASSUME OrderInv, SaidInv, loop = "running", clean, LastEvent \in Texts, UNCHANGED <<turnVars, shown>>,
           \/ Silent(FullResponse)
           \/ ~(toolUsed /\ segStart > 0) /\ Suppressed
    PROVE  AllSaid'
<1> DEFINE l == Len(stream)
<1>0. /\ Len(parts) \in DOMAIN parts /\ parts[Len(parts)] = l /\ DOMAIN parts = 1 .. Len(parts)
      /\ Len(parts) \in Nat /\ LastText = <<l>> /\ stream[l] = LastEvent /\ ~On(shown, l)
  BY AtEnd
<1>1. CASE Silent(FullResponse)
  <2>1. FullResponse[1] = l
    BY <1>0, <1>1 DEF Silent, FullResponse
  <2>2. LastEvent = "bare"
    BY <1>0, <1>1, <2>1 DEF Silent
  <2> QED BY <1>0, <2>2, SaidClosed
<1>2. CASE ~(toolUsed /\ segStart > 0) /\ Suppressed
  <2>1. Len(FullResponse) = 1 /\ stream[FullResponse[1]] = sideText
    BY <1>2 DEF Suppressed
  <2>2. stream[l] = sideText
    BY <1>2, <2>1, ResponseIs
  <2>3. sideText = "side" /\ LastEvent = "side"
    BY <1>0, <2>2 DEF OrderInv, TypeOK, Texts, Markers
  <2>4. On(shown, 0)
    BY <2>3 DEF SaidInv, SideSeen
  <2>5. ASSUME NEW k \in DOMAIN parts
        PROVE  On(shown, parts[k]) \/ (stream[parts[k]] = "side" /\ On(shown, 0))
    <3>1. CASE k = Len(parts)
      BY <1>0, <2>3, <2>4, <3>1
    <3>2. CASE k # Len(parts)
      <4>1. ASSUME FullResponse = parts PROVE FALSE
        <5>1. Len(parts) = 1
          BY <2>1, <4>1
        <5> QED BY <1>0, <3>2, <5>1
      <4> QED BY <1>2, <3>2, <4>1, ResponseIs
    <3> QED BY <3>1, <3>2
  <2> QED BY <2>3, <2>5, SaidClosed
<1> QED BY <1>1, <1>2

LEMMA SaidRest ==
    ASSUME OrderInv, SaidInv, loop = "running", clean, LastEvent \in Texts, UNCHANGED turnVars,
           segStart > 0, shown' = shown \o Raw(Unsent)
    PROVE  AllSaid'
<1> DEFINE r == Raw(Unsent)
           n == Len(parts)
<1>0. /\ r \in Seq(Item) /\ DOMAIN r = DOMAIN Unsent /\ \A i \in DOMAIN Unsent : r[i].at = Unsent[i]
      /\ DOMAIN Unsent = 1 .. n - segStart
      /\ \A i \in DOMAIN Unsent : Unsent[i] = parts[segStart + i]
  BY UnsentIs, RawOf DEF OrderInv
<1>1. DOMAIN parts = 1 .. n /\ n \in Nat /\ segStart \in Nat /\ segStart < n
  BY AtEnd
<1>2. (\A i : On(shown, i) => On(shown', i)) /\ \A j \in DOMAIN r : On(shown', r[j].at)
  BY <1>0, OnMore
<1>3. ASSUME NEW k \in DOMAIN parts PROVE On(shown', parts[k])
  <2>1. CASE k <= segStart
    <3>1. k \in 1 .. segStart
      BY <1>1, <2>1
    <3> QED BY <1>2, <3>1 DEF SaidInv, SentBefore, Open
  <2>2. CASE k > segStart
    <3> DEFINE j == k - segStart
    <3>1. j \in 1 .. n - segStart /\ segStart + j = k
      BY <1>1, <2>2
    <3>2. j \in DOMAIN r /\ r[j].at = parts[k]
      BY <1>0, <3>1
    <3> QED BY <1>2, <3>2
  <2> QED BY <1>1, <2>1, <2>2
<1>4. n # 1
  <2> HIDE DEF n
  <2>1. segStart \in Nat /\ n \in Nat /\ segStart > 0 /\ segStart < n
    BY <1>1
  <2> QED BY <2>1
<1>5. CASE LastEvent = "bare"
  BY <1>4, <1>5, SaidClosed
<1>6. CASE LastEvent # "bare"
  <2>1. \A k \in DOMAIN parts :
          On(shown', parts[k]) \/ (stream[parts[k]] = "side" /\ On(shown', 0))
    BY <1>3
  <2> QED BY <1>6, <2>1, SaidClosed
<1> QED BY <1>5, <1>6

LEMMA SaidWhole ==
    ASSUME OrderInv, SaidInv, loop = "running", clean, LastEvent \in Texts, UNCHANGED turnVars,
           ~(toolUsed /\ segStart > 0), ~Silent(FullResponse),
           shown' = shown \o Stripped(FullResponse)
    PROVE  AllSaid'
<1> DEFINE l == Len(stream)
           n == Len(parts)
           q == FullResponse
           z == Stripped(q)
<1>0. /\ n \in DOMAIN parts /\ parts[n] = l /\ DOMAIN parts = 1 .. n /\ n \in Nat
      /\ LastText = <<l>> /\ stream[l] = LastEvent
  BY AtEnd
<1>1. q \in Seq(Nat)
  BY <1>0, PartsType DEF OrderInv, FullResponse
<1>2. z \in Seq(Item) /\ DOMAIN z = DOMAIN q /\ \A i \in DOMAIN q : z[i].at = q[i]
  BY <1>1, StrippedOf
<1>3. (\A i : On(shown, i) => On(shown', i)) /\ \A j \in DOMAIN q : On(shown', q[j])
  <2>1. \A j \in DOMAIN z : On(shown', z[j].at)
    BY <1>2, OnMore
  <2> QED BY <1>2, <2>1, OnMore
<1>4. ASSUME NEW k \in DOMAIN parts PROVE On(shown', parts[k])
  <2>1. CASE q = parts
    BY <1>3, <2>1
  <2>2. CASE q = <<l>> /\ \A i \in DOMAIN parts : i # n => On(shown, parts[i])
    <3>1. 1 \in DOMAIN q /\ q[1] = l
      BY <2>2
    <3>2. On(shown', l)
      BY <1>3, <3>1
    <3> QED BY <1>0, <1>3, <2>2, <3>2
  <2> QED BY <2>1, <2>2, ResponseIs
<1>5. LastEvent = "bare" => n # 1
  <2>1. ASSUME n = 1 PROVE Len(q) = 1 /\ q[1] = l
    BY <2>1, ResponseIs
  <2> QED BY <1>0, <2>1 DEF Silent
<1> QED BY <1>4, <1>5, SaidClosed

LEMMA ResultSaid == ASSUME OrderInv, SaidInv, HearResult PROVE SaidInv'
<1>0. /\ loop = "running" /\ UNCHANGED turnVars /\ sideText' = "none" /\ UNCHANGED sending
      /\ LastEvent' = LastEvent
  BY DEF HearResult, turnVars, LastEvent
<1>1. ASSUME loop' = "answered", clean' => clean, NEW q \in Seq(Item), shown' = shown \o q,
             clean' /\ LastEvent \in Texts => AllSaid'
      PROVE  SaidInv'
  <2>1. Noted' /\ SentBefore' /\ OneHeld'
    BY <1>1 DEF Noted, SentBefore, OneHeld, Open
  <2>2. SideSeen'
    BY <1>0, <1>1, OnMore DEF SaidInv, SideSeen
  <2>3. AllSaid'
    BY <1>0, <1>1 DEF AllSaid
  <2> QED BY <2>1, <2>2, <2>3 DEF SaidInv
<1>2. <<>> \in Seq(Item) /\ shown \o <<>> = shown
  BY PartsType, ConcatEmptySeq, EmptySeq DEF OrderInv
<1>3. ASSUME NoReply("answered"),
             Silent(FullResponse) \/ (~(toolUsed /\ segStart > 0) /\ Suppressed)
                                  \/ (segStart > 0 /\ Unsent = <<>>)
      PROVE  SaidInv'
  <2>1. loop' = "answered" /\ clean' = clean /\ shown' = shown
    BY <1>3 DEF NoReply
  <2>2. LastEvent \in Texts => Unsent # <<>>
    <3> SUFFICES ASSUME LastEvent \in Texts PROVE Unsent # <<>>
      OBVIOUS
    <3>1. segStart \in Nat /\ Len(parts) \in Nat /\ segStart < Len(parts)
      BY <1>0, AtEnd
    <3>2. 1 \in DOMAIN Unsent
      <4>1. 1 \in 1 .. Len(parts) - segStart
        BY <3>1
      <4> QED BY <4>1, UnsentIs DEF OrderInv
    <3> QED BY <3>2
  <2>3. clean /\ LastEvent \in Texts => AllSaid'
    BY <1>0, <1>3, <2>1, <2>2, SaidNoReply
  <2> QED BY <1>1, <1>2, <2>1, <2>3
<1>4. ASSUME NEW q \in Seq(Item), Reply(q, "answered"),
             clean /\ LastEvent \in Texts /\ shown' = shown \o q => AllSaid'
      PROVE  SaidInv'
  <2>1. PICK ok \in Sends : /\ shown' = shown \o Sent(ok, q)
                            /\ clean' = (clean /\ ok)
                            /\ loop' = IF ok THEN "answered" ELSE "ended"
    BY <1>4 DEF Reply
  <2>2. ok \in BOOLEAN /\ clean \in BOOLEAN
    BY SendsAreOutcomes DEF OrderInv, TypeOK
  <2>3. CASE ok
    <3>1. loop' = "answered" /\ shown' = shown \o q /\ clean' = clean
      BY <2>1, <2>2, <2>3 DEF Sent
    <3> QED BY <1>1, <1>4, <3>1
  <2>4. CASE ~ok
    <3>1. loop' = "ended" /\ clean' = FALSE
      BY <2>1, <2>2, <2>4
    <3> QED BY <3>1, SaidEnded
  <2> QED BY <2>3, <2>4
<1>5. CASE Silent(FullResponse) /\ NoReply("answered")
  BY <1>3, <1>5
<1>6. CASE /\ ~Silent(FullResponse) /\ toolUsed /\ segStart > 0
           /\ IF Unsent = <<>> THEN NoReply("answered") ELSE Reply(Raw(Unsent), "answered")
  <2>1. Raw(Unsent) \in Seq(Item)
    BY UnsentIs, RawOf DEF OrderInv
  <2>2. clean /\ LastEvent \in Texts /\ shown' = shown \o Raw(Unsent) => AllSaid'
    BY <1>0, <1>6, SaidRest
  <2> QED BY <1>3, <1>4, <1>6, <2>1, <2>2
<1>7. CASE /\ ~Silent(FullResponse) /\ ~(toolUsed /\ segStart > 0)
           /\ IF Suppressed THEN NoReply("answered") ELSE Reply(Stripped(FullResponse), "answered")
  <2>1. Stripped(FullResponse) \in Seq(Item)
    BY PiecesTyped DEF FullResponse
  <2>2. clean /\ LastEvent \in Texts /\ shown' = shown \o Stripped(FullResponse) => AllSaid'
    BY <1>0, <1>7, SaidWhole
  <2> QED BY <1>3, <1>4, <1>7, <2>1, <2>2
<1> QED BY <1>5, <1>6, <1>7 DEF HearResult

LEMMA SideSendSaid == ASSUME OrderInv, SaidInv, SideSend PROVE SaidInv'
<1> DEFINE z == [at |-> 0, cut |-> FALSE]
<1>1. /\ UNCHANGED <<loop, stream, parts, segStart, toolUsed, clean, display>>
      /\ shown' = Append(shown, z)
  BY DEF SideSend, turnVars, settings
<1>2. shown \in Seq(Item) /\ z \in Item /\ z.at = 0 /\ Len(shown) \in Nat
  BY PartsType, LenProperties DEF OrderInv, Item
<1> HIDE DEF z
<1>3. shown' = shown \o <<z>> /\ <<z>> \in Seq(Item)
  BY <1>1, <1>2
<1>4. (\A i : On(shown, i) => On(shown', i)) /\ On(shown', 0)
  <2>1. 1 \in DOMAIN <<z>> /\ <<z>>[1].at = 0
    BY <1>2
  <2> QED BY <1>3, <2>1, OnMore
<1>5. ASSUME NEW i, i # 0, On(shown', i) PROVE On(shown, i)
  <2>1. PICK x \in DOMAIN shown' : shown'[x].at = i
    BY <1>5 DEF On
  <2>2. CASE x \in DOMAIN shown
    BY <1>1, <1>2, <2>1, <2>2 DEF On
  <2>3. CASE x \notin DOMAIN shown
    BY <1>1, <1>2, <1>5, <2>1, <2>3
  <2> QED BY <2>2, <2>3
<1>6. LastEvent' = LastEvent /\ TextsOf' = TextsOf
  BY <1>1 DEF LastEvent, TextsOf
<1>7. Noted' /\ SentBefore' /\ OneHeld' /\ SideSeen'
  BY <1>1, <1>4, <1>6 DEF SaidInv, Noted, SentBefore, OneHeld, SideSeen, Open
<1>8. AllSaid'
  <2> SUFFICES ASSUME loop = "answered", clean, LastEvent \in Texts
               PROVE  \/ stream[Len(stream)] # "bare" /\ \A i \in TextsOf : InChat(i)'
                      \/ stream[Len(stream)] = "bare"
                         /\ (TextsOf = {Len(stream)} => ~InChat(Len(stream))')
    BY <1>1, <1>6 DEF AllSaid, InChat, TextsOf
  <2>1. \A i : InChat(i) <=> On(shown, i) \/ (stream[i] = "side" /\ On(shown, 0))
    BY DEF InChat, On
  <2>2. \A i : InChat(i)' <=> On(shown', i) \/ (stream[i] = "side" /\ On(shown', 0))
    BY <1>1 DEF InChat, On
  <2>3. Len(stream) # 0
    BY PartsType DEF OrderInv, LastEvent, Texts, Markers
  <2>4. CASE stream[Len(stream)] # "bare"
    <3>1. \A i \in TextsOf : InChat(i)
      BY <2>4 DEF SaidInv, AllSaid
    <3>2. \A i \in TextsOf : InChat(i)'
      BY <1>4, <2>1, <2>2, <3>1
    <3> QED BY <2>4, <3>2
  <2>5. CASE stream[Len(stream)] = "bare"
    <3>1. TextsOf = {Len(stream)} => ~InChat(Len(stream))
      BY <2>5 DEF SaidInv, AllSaid
    <3>2. TextsOf = {Len(stream)} => ~On(shown, Len(stream))
      BY <2>1, <3>1
    <3>3. stream[Len(stream)] # "side"
      BY <2>5
    <3>4. TextsOf = {Len(stream)} => ~InChat(Len(stream))'
      BY <1>1, <1>5, <2>2, <2>3, <3>2, <3>3
    <3> QED BY <2>5, <3>4
  <2> QED BY <2>4, <2>5
<1> QED BY <1>7, <1>8 DEF SaidInv

LEMMA ProgressSaid ==
    ASSUME OrderInv, SaidInv, HearThinking \/ HearToolUse PROVE SaidInv'
<1>1. CASE HearThinking
  <2>1. Says("think") /\ UNCHANGED <<loop, parts, toolUsed>> /\ Progress(display.thinking)
    BY <1>1 DEF HearThinking
  <2>2. loop' = "running" /\ LastEvent \notin Texts /\ "think" \in Notices
    BY <2>1 DEF Says, Notices
  <2> QED BY <2>1, <2>2, SaidNoticed DEF Progress
<1>2. CASE HearToolUse
  <2>1. Says("tool") /\ UNCHANGED <<loop, parts>> /\ Progress(display.tools) /\ toolUsed' = TRUE
    BY <1>2 DEF HearToolUse
  <2>2. loop' = "running" /\ "tool" \in Notices
    BY <2>1 DEF Says, Notices
  <2> QED BY <2>1, <2>2, SaidNoticed DEF Progress
<1> QED BY <1>1, <1>2

LEMMA PermissionSaid ==
    ASSUME OrderInv, SaidInv, NEW e \in {"permission", "ask"}, HearPermission(e) PROVE SaidInv'
<1>1. Says(e) /\ UNCHANGED <<parts, toolUsed>> /\ e \in Notices
  BY DEF HearPermission, Notices
<1>2. e = "permission" => LastEvent \notin Texts
  BY <1>1 DEF Says, Texts, Markers
<1>3. /\ loop' \in {"running", "asking"}
      /\ \/ UNCHANGED <<shown, segStart, clean>> /\ e # "ask"
         \/ FlushAndTell(Notice(Len(stream')))
  BY <1>1 DEF HearPermission, Says
<1> QED BY <1>1, <1>2, <1>3, SaidNoticed

LEMMA FreshSaid ==
    ASSUME OrderInv, Begin \/ NextQueued \/ Return PROVE SaidInv'
<1>1. CASE Begin
  <2>1. stream' = <<>> /\ parts' = <<>> /\ segStart' = 0
    BY <1>1 DEF Begin, turnVars, OrderInv, TurnInv, Gone
  <2> QED BY <1>1, <2>1, SaidFresh DEF Begin
<1>2. CASE NextQueued
  BY <1>2, SaidFresh DEF NextQueued, Reset, sideVars
<1>3. CASE Return
  BY <1>3, SaidFresh DEF Return, Reset
<1> QED BY <1>1, <1>2, <1>3

LEMMA SwitchSaid == ASSUME OrderInv, SaidInv, NEW d, Switch(d) PROVE SaidInv'
<1>1. UNCHANGED <<loop, turnVars, sideVars, shown>> /\ clean' = (clean /\ loop = "idle")
  BY DEF Switch
<1>2. CASE loop = "idle"
  <2>1. stream' = <<>> /\ parts' = <<>> /\ segStart' = 0 /\ loop' = "idle"
    BY <1>1, <1>2 DEF turnVars, OrderInv, TurnInv, Gone
  <2> QED BY <2>1, SaidFresh
<1>3. CASE loop # "idle"
  <2>0. (loop = "idle") = FALSE
    BY <1>3
  <2>1. ~clean'
    BY <1>1, <2>0
  <2> QED BY <1>1, <2>1, SaidSame
<1> QED BY <1>2, <1>3

LEMMA SaidStep == ASSUME OrderInv, SaidInv, [Next]_vars PROVE SaidInv'
<1>1. CASE UNCHANGED vars
  BY <1>1, SaidSame DEF vars, turnVars
<1>2. CASE SideNote
  <2>1. /\ UNCHANGED <<turnVars, shown, loop, clean, display>> /\ sending
    BY <1>2 DEF SideNote, settings
  <2> QED BY <2>1, SaidSame
<1>3. ASSUME NEW all \in BOOLEAN, Answer(all) PROVE SaidInv'
  <2>1. /\ UNCHANGED <<turnVars, shown, clean, display, sideText, sending>>
        /\ loop = "asking" /\ loop' = "running"
    BY <1>3 DEF Answer, settings, sideVars
  <2> QED BY <2>1, SaidSame
<1>4. CASE HearEnd \/ GiveUp
  BY <1>4, SaidEnded DEF HearEnd, GiveUp
<1>5. CASE \/ Reload \/ (\E m \in Modes : SetMode(m))
           \/ (\E f \in {"thinking", "tools"}, b \in BOOLEAN : SetFlag(f, b))
  BY <1>5, SwitchSaid DEF Reload, SetMode, SetFlag
<1> QED BY <1>1, <1>2, <1>3, <1>4, <1>5, FreshSaid, ProgressSaid, SaidText, ResultSaid,
           PermissionSaid, SideSendSaid DEF Next

(* In a turn in which nothing failed every text the agent has said is in   *)
(* the chat when it ends, however long the turn is, in every display mode  *)
(* and whichever way the last text took: what was held back is sent by     *)
(* exactly one of the notices, the rest and the whole reply.               *)
THEOREM AllSaidCorrect == Spec => []AllSaid
<1>1. OrderInv /\ SaidInv /\ [Next]_vars => SaidInv'
  BY SaidStep
<1>2. SaidInv => AllSaid
  BY DEF SaidInv
<1> QED BY <1>1, <1>2, SaidInit, OrderAlways, PTL DEF Spec
=============================================================================
