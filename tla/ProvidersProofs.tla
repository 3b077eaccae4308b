--------------------------- MODULE ProvidersProofs ---------------------------
(***************************************************************************)
(* The proxy and the switch of the provider, for every set of providers,   *)
(* chats and goroutines that handle commands at the same time.             *)
(*                                                                         *)
(* That the next agent gets the proxy of its own provider is inductive     *)
(* only together with: the proxy runs for a provider that needs it, and    *)
(* the agent of the chat that switched last goes through that proxy or     *)
(* none.                                                                   *)
(*                                                                         *)
(* Below that, that the file restores what a command has set.  It rests on *)
(* what resolving the file and filtering a list have to do with each       *)
(* other: an entry added, removed or changed in the file shows in the      *)
(* resolved list exactly as the change of the list in memory does.         *)
(***************************************************************************)
EXTENDS Providers, SequenceTheorems, WellFoundedInduction, FiniteSetTheorems, TLAPS

Types ==
    /\ adrift \in BOOLEAN
    /\ proxy \in Thinking \cup {None}
    /\ DOMAIN agent = Chats /\ DOMAIN cmd = Workers

(* The agent of chat c is what the active provider asks for. *)
OnActive(c) ==
    /\ agent[c].key = ActiveName
    /\ \/ agent[c].route = "own"
       \/ agent[c].route = "proxy" /\ proxy = ActiveName /\ ActiveName \in Thinking

Reached(c) ==
    (c = last /\ ~adrift /\ agent[c].up /\ \A w \in Workers : ~Cleans(w, c)) => OnActive(c)

IInv == Types /\ ProxyOfActive /\ \A c \in Chats : Reached(c)

LEMMA NoneIsNoName == None \notin Names /\ None \notin Thinking
  BY ProvidersAssumption

LEMMA NewAgent == ~NoAgent.up
  BY DEF NoAgent

(* A step that only moves a command on, not out of its cleanup, and may    *)
(* change the file.                                                        *)
Aside(w) ==
    /\ UNCHANGED memory
    /\ DOMAIN cmd' = Workers
    /\ cmd[w].pc # "clean" /\ \A v \in Workers \ {w} : cmd'[v] = cmd[v]

LEMMA AsideStep == ASSUME IInv, NEW w \in Workers, Aside(w) PROVE IInv'
<1>1. ASSUME NEW c \in Chats PROVE Reached(c)'
  <2>1. ASSUME NEW v \in Workers, Cleans(v, c) PROVE Cleans(v, c)'
    BY <2>1 DEF Aside, Cleans
  <2> QED BY <2>1 DEF IInv, Reached, OnActive, Aside, memory, ActiveName
<1> QED BY <1>1 DEF IInv, Types, ProxyOfActive, Aside, memory, ActiveName

LEMMA InitInv == Init => IInv
  BY NewAgent DEF Init, IInv, Types, ProxyOfActive, Reached

LEMMA RestartInv == ASSUME IInv, Restart PROVE IInv'
  BY NewAgent DEF Restart, Wire, IInv, Types, ProxyOfActive, Reached

LEMMA EditInv == ASSUME IInv, EditFile PROVE IInv'
  BY DEF EditFile, IInv, Types, ProxyOfActive, Reached, OnActive, ActiveName, Cleans

LEMMA EndsInv == ASSUME IInv, NEW b \in Chats, AgentEnds(b) PROVE IInv'
  BY NewAgent DEF AgentEnds, IInv, Types, ProxyOfActive, Reached, OnActive, ActiveName, Cleans

LEMMA StartInv == ASSUME IInv, NEW b \in Chats, StartSession(b) PROVE IInv'
<1> DEFINE Started(route) == [up |-> TRUE, key |-> ActiveName, route |-> route]
<1>0. ActiveName' = ActiveName /\ adrift' = adrift /\ last' = last /\ cmd' = cmd
  BY DEF StartSession, ActiveName
<1>1. CASE ActiveName \notin Thinking /\ proxy' = None /\ agent' = [Cut EXCEPT ![b] = Started("own")]
  <2>1. ASSUME NEW c \in Chats PROVE Reached(c)'
    <3>1. CASE c = b
      BY <1>0, <1>1, <3>1 DEF Reached, OnActive, Cut
    <3>2. CASE c # b
      <4>1. agent'[c] = Cut[c]
        BY <1>1, <3>2
      <4>2. SUFFICES ASSUME c = last, ~adrift, Cut[c].up, \A w \in Workers : ~Cleans(w, c)
            PROVE  OnActive(c)'
        BY <1>0, <4>1 DEF Reached, Cleans
      <4>3. agent[c].up
        BY <4>2 DEF Cut, IInv, Types
      <4>4. OnActive(c)
        BY <4>2, <4>3 DEF IInv, Reached
      <4>5. agent[c].route = "own" /\ agent[c].key = ActiveName
        BY <1>1, <4>4 DEF OnActive
      <4>6. Cut[c] = agent[c]
        BY <4>5 DEF Cut
      <4> QED BY <1>0, <4>1, <4>5, <4>6 DEF OnActive
    <3> QED BY <3>1, <3>2
  <2> QED BY <1>0, <1>1, <2>1 DEF IInv, Types, ProxyOfActive, Cut
<1>2. CASE /\ ActiveName \in Thinking
           /\ proxy' = IF proxy = None THEN ActiveName ELSE proxy
           /\ agent' = [agent EXCEPT ![b] = Started("proxy")]
  <2>1. ASSUME NEW c \in Chats PROVE Reached(c)'
    BY <1>0, <1>2, NoneIsNoName DEF IInv, Types, ProxyOfActive, Reached, OnActive, Cleans
  <2> QED BY <1>0, <1>2, <2>1 DEF IInv, Types, ProxyOfActive
<1>3. CASE /\ ActiveName \in Thinking /\ proxy = None /\ proxy' = None
           /\ agent' = [agent EXCEPT ![b] = Started("own")]
  <2>1. ASSUME NEW c \in Chats PROVE Reached(c)'
    BY <1>0, <1>3, NoneIsNoName DEF IInv, Types, ProxyOfActive, Reached, OnActive, Cleans
  <2> QED BY <1>0, <1>3, <2>1 DEF IInv, Types, ProxyOfActive
<1> QED BY <1>1, <1>2, <1>3 DEF StartSession

LEMMA AsideInv ==
  ASSUME IInv, NEW w \in Workers,
         \/ Begin(w) \/ AddCheck(w) \/ AddList(w) \/ RemoveList(w) \/ ModelActive(w)
         \/ ModelList(w) \/ ModelPersist(w) \/ ReloadList(w) \/ Save(w)
  PROVE  IInv'
<1>1. Begin(w) => Aside(w)
  BY DEF Begin, Aside, memory, IInv, Types, NoCmd
<1>2. AddCheck(w) \/ AddList(w) \/ RemoveList(w) => Aside(w)
  BY DEF AddCheck, AddList, RemoveList, At, Goto, Done, Aside, memory, IInv, Types
<1>3. ModelActive(w) \/ ModelList(w) \/ ModelPersist(w) => Aside(w)
  BY DEF ModelActive, ModelList, ModelPersist, At, Goto, Done, Aside, memory, IInv, Types
<1>4. ReloadList(w) \/ Save(w) => Aside(w)
  BY DEF ReloadList, Save, At, Done, Aside, memory, IInv, Types
<1> QED BY <1>1, <1>2, <1>3, <1>4, AsideStep

LEMMA SetInv == ASSUME IInv, NEW w \in Workers, Set(w) PROVE IInv'
<1>1. adrift' \in BOOLEAN /\ (~adrift' => ~adrift /\ ActiveName' = ActiveName)
  BY DEF Set, ActiveName, IInv, Types
<1>2. ASSUME NEW c \in Chats PROVE Reached(c)'
  <2>1. ASSUME NEW v \in Workers, Cleans(v, c) PROVE Cleans(v, c)'
    BY <2>1 DEF Set, Cleans, IInv, Types
  <2>2. c = last' => c = last
    BY ProvidersAssumption DEF Set
  <2> QED BY <1>1, <2>1, <2>2 DEF Set, IInv, Reached, OnActive
<1>3. UNCHANGED <<proxy, agent>> /\ DOMAIN cmd' = Workers
  BY DEF Set, IInv, Types
<1> QED BY <1>1, <1>2, <1>3 DEF IInv, Types, ProxyOfActive

LEMMA SelectInv == ASSUME IInv, NEW w \in Workers, Select(w) PROVE IInv'
<1>1. proxy' = None /\ DOMAIN agent' = Chats /\ DOMAIN cmd' = Workers
  BY DEF Select, Cut, Goto, Done, IInv, Types
<1>2. adrift' \in BOOLEAN
  BY DEF Select, IInv, Types
<1>3. ASSUME NEW c \in Chats, c = last' PROVE \E v \in Workers : Cleans(v, c)'
  <2>1. c # None
    BY ProvidersAssumption
  <2>2. cmd[w].chat = c /\ cmd' = [cmd EXCEPT ![w].pc = "clean"]
    BY <1>3, <2>1 DEF Select, Goto
  <2>3. Cleans(w, c)'
    BY <2>2 DEF Cleans, IInv, Types
  <2> QED BY <2>3
<1> QED BY <1>1, <1>2, <1>3 DEF IInv, Types, ProxyOfActive, Reached

LEMMA CleanInv == ASSUME IInv, NEW w \in Workers, Clean(w) PROVE IInv'
<1>1. UNCHANGED <<providers, activeIdx, proxy, adrift, last>> /\ DOMAIN cmd' = Workers
      /\ agent' = [agent EXCEPT ![cmd[w].chat] = NoAgent]
  BY DEF Clean, Goto, Done, IInv, Types
<1>2. ASSUME NEW c \in Chats PROVE Reached(c)'
  <2>1. CASE c = cmd[w].chat
    BY <1>1, <2>1, NewAgent DEF Reached, IInv, Types
  <2>2. CASE c # cmd[w].chat
    <3>1. ASSUME NEW v \in Workers, Cleans(v, c) PROVE Cleans(v, c)'
      BY <2>2, <3>1 DEF Clean, Goto, Done, Cleans, IInv, Types
    <3> QED BY <1>1, <2>2, <3>1 DEF IInv, Types, Reached, OnActive, ActiveName
  <2> QED BY <2>1, <2>2
<1> QED BY <1>1, <1>2 DEF IInv, Types, ProxyOfActive, ActiveName

LEMMA EachStep == IInv /\ [Next]_vars => IInv'
<1> SUFFICES ASSUME IInv, [Next]_vars PROVE IInv'
  OBVIOUS
<1>1. CASE UNCHANGED vars
  BY <1>1 DEF vars, IInv, Types, ProxyOfActive, Reached, OnActive, ActiveName, Cleans
<1>2. ASSUME NEW c \in Chats, StartSession(c) \/ AgentEnds(c) PROVE IInv'
  BY <1>2, StartInv, EndsInv
<1>3. ASSUME NEW w \in Workers, Step(w) PROVE IInv'
  BY <1>3, AsideInv, SetInv, SelectInv, CleanInv DEF Step
<1> QED BY <1>1, <1>2, <1>3, RestartInv, EditInv DEF Next

(* However commands and starts of agents interleave, the proxy forwards to *)
(* the provider whose key the next agent gets.                             *)
THEOREM ProxyCorrect == Spec => []ProxyOfActive
<1>1. IInv => ProxyOfActive
  BY DEF IInv
<1> QED BY <1>1, InitInv, EachStep, PTL DEF Spec

(* The chat that switched the provider works with it, by its key and at    *)
(* its URL, whatever the other chats and commands do.                      *)
THEOREM SwitchCorrect == Spec => []SwitchReaches
<1>1. IInv => SwitchReaches
  BY DEF IInv, SwitchReaches, Reached, OnActive
<1> QED BY <1>1, InitInv, EachStep, PTL DEF Spec

-----------------------------------------------------------------------------
(* Sequences and the filter                                                *)

(* Induction, and induction on sequences by their last entry, over a set.  *)
LEMMA Induction ==
  ASSUME NEW N, 0 \in N, \A n \in Nat : n \in N => n + 1 \in N
  PROVE  Nat \subseteq N
<1> SUFFICES ASSUME Nat \ N # {} PROVE FALSE
  OBVIOUS
<1>1. PICK x \in Nat \ N : \A y \in Nat \ N : ~(<<y, x>> \in OpToRel(<, Nat))
  <2>1. Nat \ N \subseteq Nat
    OBVIOUS
  <2> QED BY ONLY <2>1, Nat \ N # {}, NatLessThanWellFounded, WFMin
<1>2. \A y \in Nat \ N : ~(y < x)
  BY <1>1 DEF OpToRel
<1>3. x # 0 /\ x - 1 \in Nat /\ (x - 1) + 1 = x
  OBVIOUS
<1>4. x - 1 \in N
  BY <1>2, <1>3
<1> QED BY <1>3, <1>4

LEMMA SeqInduction ==
  ASSUME NEW S, NEW X, <<>> \in X,
         \A s \in Seq(S), e \in S : s \in X => Append(s, e) \in X
  PROVE  Seq(S) \subseteq X
<1> DEFINE N == {n \in Nat : \A s \in Seq(S) : Len(s) = n => s \in X}
<1>1. 0 \in N
  <2>1. ASSUME NEW s \in Seq(S), Len(s) = 0 PROVE s \in X
    BY <2>1, EmptySeq
  <2> QED BY <2>1
<1>2. ASSUME NEW n \in Nat, n \in N PROVE n + 1 \in N
  <2>1. ASSUME NEW s \in Seq(S), Len(s) = n + 1 PROVE s \in X
    <3>1. s # <<>>
      BY <2>1, EmptySeq
    <3>2. PICK t \in Seq(S), e \in S : s = Append(t, e)
      BY <3>1, SequenceEmptyOrAppend
    <3>3. Len(t) = n
      BY <2>1, <3>2, AppendProperties, LenProperties
    <3> QED BY <1>2, <3>2, <3>3
  <2> QED BY <2>1
<1> HIDE DEF N
<1>3. Nat \subseteq N
  BY <1>1, <1>2, Induction
<1> QED BY <1>3, LenProperties DEF N

LEMMA KeptToIs ==
  ASSUME NEW S, NEW s \in Seq(S), NEW T
  PROVE  KeptTo(s, T) = [n \in 0..Len(s) |->
             IF n = 0 THEN <<>>
             ELSE IF s[n] \in T THEN Append(KeptTo(s, T)[n-1], s[n]) ELSE KeptTo(s, T)[n-1]]
<1> DEFINE Nth(f, n) == IF n = 0 THEN <<>> ELSE IF s[n] \in T THEN Append(f[n-1], s[n]) ELSE f[n-1]
           Is(f, m) == f = [n \in 0..m |-> Nth(f, n)]
           N == {m \in Nat : \E f : Is(f, m)}
<1>1. 0 \in N
  <2> DEFINE f == [n \in 0..0 |-> <<>>]
  <2>1. Is(f, 0)
    OBVIOUS
  <2> QED BY <2>1
<1>2. ASSUME NEW m \in Nat, m \in N PROVE m + 1 \in N
  <2>1. PICK f : Is(f, m)
    BY <1>2
  <2> DEFINE g == [n \in 0 .. m + 1 |-> IF n = m + 1 THEN Nth(f, n) ELSE f[n]]
  <2>2. ASSUME NEW n \in 0 .. m + 1 PROVE g[n] = Nth(g, n)
    <3>1. CASE n = 0
      <4>1. g[n] = f[n] /\ n \in 0 .. m
        BY <3>1
      <4>2. f[n] = Nth(f, n)
        BY <2>1, <4>1
      <4> QED BY <3>1, <4>1, <4>2
    <3>2. CASE n # 0
      <4>1. n - 1 \in 0 .. m /\ n - 1 # m + 1 /\ n - 1 \in 0 .. m + 1
        BY <3>2
      <4>2. g[n-1] = f[n-1]
        BY <4>1
      <4>3. Nth(g, n) = Nth(f, n)
        BY <3>2, <4>2
      <4>4. n # m + 1 => n \in 0 .. m
        OBVIOUS
      <4>5. n # m + 1 => f[n] = Nth(f, n)
        BY <2>1, <4>4
      <4> QED BY <4>3, <4>5
    <3> QED BY <3>1, <3>2
  <2>3. Is(g, m + 1)
    <3> HIDE DEF Nth
    <3> QED BY <2>2
  <2> HIDE DEF Is, g
  <2> QED BY <2>3
<1>3. Nat \subseteq N
  <2> HIDE DEF N
  <2> QED BY <1>1, <1>2, Induction
<1>4. \E f : Is(f, Len(s))
  <2>1. Len(s) \in Nat
    BY LenProperties
  <2> QED BY <1>3, <2>1
<1>5. KeptTo(s, T) = CHOOSE f : Is(f, Len(s))
  BY DEF KeptTo
<1>6. Is(CHOOSE f : Is(f, Len(s)), Len(s))
  <2> HIDE DEF Is
  <2> QED BY <1>4
<1>7. Is(KeptTo(s, T), Len(s))
  <2> HIDE DEF Is
  <2> QED BY <1>5, <1>6
<1> QED BY <1>7

LEMMA KeptEmpty == ASSUME NEW T PROVE Kept(<<>>, T) = <<>>
<1>1. <<>> \in Seq(Nat) /\ Len(<<>>) = 0
  BY EmptySeq
<1>2. ASSUME NEW S, NEW z \in Seq(S), Len(z) = 0 PROVE KeptTo(z, T)[0] = <<>>
  <2> DEFINE f == KeptTo(z, T)
  <2>1. f = [n \in 0..Len(z) |->
                IF n = 0 THEN <<>> ELSE IF z[n] \in T THEN Append(f[n-1], z[n]) ELSE f[n-1]]
    BY KeptToIs
  <2> HIDE DEF f
  <2>2. 0 \in 0..Len(z)
    BY <1>2
  <2>3. f[0] = <<>>
    BY <2>1, <2>2
  <2> QED BY <2>3 DEF f
<1> QED BY <1>1, <1>2 DEF Kept

LEMMA KeptAppend ==
  ASSUME NEW S, NEW s \in Seq(S), NEW e \in S, NEW T
  PROVE  Kept(Append(s, e), T) = IF e \in T THEN Append(Kept(s, T), e) ELSE Kept(s, T)
<1> DEFINE a == Append(s, e)
           f == KeptTo(a, T)
           g == KeptTo(s, T)
           L == Len(s)
           N == {n \in Nat : n <= L => f[n] = g[n]}
<1>1. /\ L \in Nat /\ Len(a) = L + 1 /\ a \in Seq(S) /\ a[L + 1] = e
      /\ \A n \in 1 .. L : a[n] = s[n]
  BY AppendProperties, LenProperties
<1> HIDE DEF a
<1>a. f = [n \in 0 .. Len(a) |->
              IF n = 0 THEN <<>> ELSE IF a[n] \in T THEN Append(f[n-1], a[n]) ELSE f[n-1]]
  BY <1>1, KeptToIs
<1>b. g = [n \in 0 .. L |->
              IF n = 0 THEN <<>> ELSE IF s[n] \in T THEN Append(g[n-1], s[n]) ELSE g[n-1]]
  BY KeptToIs
<1> HIDE DEF f, g, L
<1>2. f = [n \in 0 .. L + 1 |->
              IF n = 0 THEN <<>> ELSE IF a[n] \in T THEN Append(f[n-1], a[n]) ELSE f[n-1]]
  BY <1>1, <1>a
<1>3. /\ f[0] = <<>> /\ g[0] = <<>>
      /\ \A n \in 1 .. L + 1 : f[n] = IF a[n] \in T THEN Append(f[n-1], a[n]) ELSE f[n-1]
      /\ \A n \in 1 .. L : g[n] = IF s[n] \in T THEN Append(g[n-1], s[n]) ELSE g[n-1]
  <2>1. f[0] = <<>> /\ g[0] = <<>>
    BY <1>1, <1>2, <1>b
  <2>2. ASSUME NEW n \in 1 .. L + 1
        PROVE  f[n] = IF a[n] \in T THEN Append(f[n-1], a[n]) ELSE f[n-1]
    <3>1. n \in 0 .. L + 1 /\ n # 0
      BY <1>1
    <3> QED BY <1>2, <3>1
  <2>3. ASSUME NEW n \in 1 .. L
        PROVE  g[n] = IF s[n] \in T THEN Append(g[n-1], s[n]) ELSE g[n-1]
    <3>1. n \in 0 .. L /\ n # 0
      BY <1>1
    <3> QED BY <1>b, <3>1
  <2> QED BY <2>1, <2>2, <2>3
<1>4. 0 \in N
  BY <1>3
<1>5. ASSUME NEW n \in Nat, n \in N PROVE n + 1 \in N
  <2>1. SUFFICES ASSUME n + 1 <= L PROVE f[n + 1] = g[n + 1]
    OBVIOUS
  <2>2. n + 1 \in 1 .. L /\ n + 1 \in 1 .. L + 1 /\ n <= L /\ (n + 1) - 1 = n
    BY <1>1, <2>1
  <2>3. f[n] = g[n] /\ a[n + 1] = s[n + 1]
    BY <1>1, <1>5, <2>2
  <2> QED BY <1>3, <2>2, <2>3
<1>6. L \in N
  <2> HIDE DEF N
  <2> QED BY <1>1, <1>4, <1>5, Induction
<1>7. L + 1 \in 1 .. L + 1 /\ (L + 1) - 1 = L
  BY <1>1
<1>8. f[L + 1] = IF e \in T THEN Append(g[L], e) ELSE g[L]
  BY <1>1, <1>3, <1>6, <1>7
<1> QED BY <1>1, <1>8 DEF Kept, f, g, a, L

(* The entries kept are those of s that are in T. *)
LEMMA KeptType ==
  ASSUME NEW S, NEW s \in Seq(S), NEW T PROVE Kept(s, T) \in Seq(S \cap T)
<1> DEFINE X == {x \in Seq(S) : Kept(x, T) \in Seq(S \cap T)}
<1>1. <<>> \in X
  BY KeptEmpty, EmptySeq
<1>2. ASSUME NEW x \in Seq(S), NEW e \in S, x \in X PROVE Append(x, e) \in X
  <2>1. Append(x, e) \in Seq(S) /\ Kept(x, T) \in Seq(S \cap T)
    BY <1>2, AppendProperties
  <2>2. CASE e \in T
    <3>1. Append(Kept(x, T), e) \in Seq(S \cap T)
      BY <2>1, <2>2, AppendProperties
    <3>2. Kept(Append(x, e), T) = Append(Kept(x, T), e)
      BY <2>2, KeptAppend
    <3> QED BY <2>1, <3>1, <3>2
  <2>3. CASE e \notin T
    <3>1. Kept(Append(x, e), T) = Kept(x, T)
      BY <2>3, KeptAppend
    <3> QED BY <2>1, <3>1
  <2> QED BY <2>2, <2>3
<1> HIDE DEF X
<1>3. Seq(S) \subseteq X
  BY <1>1, <1>2, SeqInduction
<1> QED BY <1>3 DEF X

LEMMA RangeAppend ==
  ASSUME NEW S, NEW s \in Seq(S), NEW e \in S
  PROVE  Range(Append(s, e)) = Range(s) \cup {e}
<1>1. /\ DOMAIN s = 1 .. Len(s) /\ DOMAIN Append(s, e) = 1 .. Len(s) + 1 /\ Len(s) \in Nat
      /\ Append(s, e)[Len(s) + 1] = e /\ \A i \in 1 .. Len(s) : Append(s, e)[i] = s[i]
  BY AppendProperties, LenProperties
<1> QED BY <1>1 DEF Range

LEMMA KeptRange ==
  ASSUME NEW S, NEW s \in Seq(S), NEW T PROVE Range(Kept(s, T)) = Range(s) \cap T
<1> DEFINE X == {x \in Seq(S) : Range(Kept(x, T)) = Range(x) \cap T}
<1>1. <<>> \in X
  BY KeptEmpty, EmptySeq DEF Range
<1>2. ASSUME NEW x \in Seq(S), NEW e \in S, x \in X PROVE Append(x, e) \in X
  <2>1. Kept(x, T) \in Seq(S \cap T) /\ Range(Append(x, e)) = Range(x) \cup {e}
    BY KeptType, RangeAppend
  <2>2. Append(x, e) \in Seq(S)
    BY AppendProperties
  <2>3. CASE e \in T
    <3>1. Range(Kept(Append(x, e), T)) = Range(Kept(x, T)) \cup {e}
      <4>1. Kept(Append(x, e), T) = Append(Kept(x, T), e)
        BY <2>3, KeptAppend
      <4>2. Range(Append(Kept(x, T), e)) = Range(Kept(x, T)) \cup {e}
        BY <2>1, <2>3, RangeAppend
      <4> QED BY <4>1, <4>2
    <3> QED BY <1>2, <2>1, <2>2, <2>3, <3>1
  <2>4. CASE e \notin T
    <3>1. Kept(Append(x, e), T) = Kept(x, T)
      BY <2>4, KeptAppend
    <3> QED BY <1>2, <2>1, <2>2, <2>4, <3>1
  <2> QED BY <2>3, <2>4
<1> HIDE DEF X
<1>3. Seq(S) \subseteq X
  BY <1>1, <1>2, SeqInduction
<1> QED BY <1>3 DEF X

(* Only what s has in T matters. *)
LEMMA KeptSame ==
  ASSUME NEW S, NEW s \in Seq(S), NEW T, NEW U, Range(s) \cap T = Range(s) \cap U
  PROVE  Kept(s, T) = Kept(s, U)
<1> DEFINE X == {x \in Seq(S) : Range(x) \cap T = Range(x) \cap U => Kept(x, T) = Kept(x, U)}
<1>1. <<>> \in X
  BY KeptEmpty, EmptySeq
<1>2. ASSUME NEW x \in Seq(S), NEW e \in S, x \in X PROVE Append(x, e) \in X
  <2>1. Append(x, e) \in Seq(S) /\ Range(Append(x, e)) = Range(x) \cup {e}
    BY AppendProperties, RangeAppend
  <2>2. SUFFICES ASSUME (Range(x) \cup {e}) \cap T = (Range(x) \cup {e}) \cap U
        PROVE  Kept(Append(x, e), T) = Kept(Append(x, e), U)
    BY <2>1
  <2>3. Range(x) \cap T = Range(x) \cap U /\ (e \in T <=> e \in U)
    BY <2>2
  <2>4. Kept(x, T) = Kept(x, U)
    BY <1>2, <2>3
  <2>5. /\ Kept(Append(x, e), T) = IF e \in T THEN Append(Kept(x, T), e) ELSE Kept(x, T)
        /\ Kept(Append(x, e), U) = IF e \in U THEN Append(Kept(x, U), e) ELSE Kept(x, U)
    BY KeptAppend
  <2> QED BY <2>3, <2>4, <2>5
<1> HIDE DEF X
<1>3. Seq(S) \subseteq X
  BY <1>1, <1>2, SeqInduction
<1> QED BY <1>3 DEF X

LEMMA KeptTwice ==
  ASSUME NEW S, NEW s \in Seq(S), NEW T, NEW U
  PROVE  Kept(Kept(s, T), U) = Kept(s, T \cap U)
<1> DEFINE X == {x \in Seq(S) : Kept(Kept(x, T), U) = Kept(x, T \cap U)}
<1>1. <<>> \in X
  BY KeptEmpty, EmptySeq
<1>2. ASSUME NEW x \in Seq(S), NEW e \in S, x \in X PROVE Append(x, e) \in X
  <2>1. Append(x, e) \in Seq(S) /\ Kept(x, T) \in Seq(S \cap T)
    BY AppendProperties, KeptType
  <2>2. CASE e \in T
    <3>1. Kept(Append(x, e), T) = Append(Kept(x, T), e) /\ e \in S \cap T
      BY <2>2, KeptAppend
    <3>2. Kept(Append(Kept(x, T), e), U)
             = IF e \in U THEN Append(Kept(Kept(x, T), U), e) ELSE Kept(Kept(x, T), U)
      <4> DEFINE k == Kept(x, T)
                 V == S \cap T
      <4>1. k \in Seq(V) /\ e \in V
        BY <2>1, <3>1
      <4> HIDE DEF k, V
      <4>2. Kept(Append(k, e), U) = IF e \in U THEN Append(Kept(k, U), e) ELSE Kept(k, U)
        BY <4>1, KeptAppend
      <4> QED BY <4>2 DEF k
    <3>3. Kept(Append(x, e), T \cap U)
             = IF e \in T \cap U THEN Append(Kept(x, T \cap U), e) ELSE Kept(x, T \cap U)
      BY KeptAppend
    <3>4. Kept(Kept(x, T), U) = Kept(x, T \cap U) /\ (e \in T \cap U <=> e \in U)
      BY <1>2, <2>2
    <3>5. Kept(Kept(Append(x, e), T), U) = Kept(Append(x, e), T \cap U)
      BY <3>1, <3>2, <3>3, <3>4
    <3> QED BY <2>1, <3>5
  <2>3. CASE e \notin T
    <3>1. Kept(Append(x, e), T) = Kept(x, T)
      BY <2>3, KeptAppend
    <3>2. Kept(Append(x, e), T \cap U) = Kept(x, T \cap U)
      BY <2>3, KeptAppend
    <3> QED BY <1>2, <2>1, <3>1, <3>2
  <2> QED BY <2>2, <2>3
<1> HIDE DEF X
<1>3. Seq(S) \subseteq X
  BY <1>1, <1>2, SeqInduction
<1> QED BY <1>3 DEF X

LEMMA ConcatAppend ==
  ASSUME NEW S, NEW s \in Seq(S), NEW t \in Seq(S), NEW e \in S
  PROVE  s \o Append(t, e) = Append(s \o t, e)
<1>1. Append(t, e) = t \o <<e>> /\ Append(s \o t, e) = (s \o t) \o <<e>> /\ <<e>> \in Seq(S)
  BY AppendIsConcat, ConcatProperties
<1> QED BY <1>1, ConcatAssociative

LEMMA KeptConcat ==
  ASSUME NEW S, NEW s \in Seq(S), NEW t \in Seq(S), NEW T
  PROVE  Kept(s \o t, T) = Kept(s, T) \o Kept(t, T)
<1> DEFINE X == {x \in Seq(S) : Kept(s \o x, T) = Kept(s, T) \o Kept(x, T)}
<1>0. Kept(s, T) \in Seq(S \cap T)
  BY KeptType
<1>1. <<>> \in X
  <2>1. Kept(s, T) \o <<>> = Kept(s, T) /\ s \o <<>> = s
    BY <1>0, ConcatEmptySeq
  <2> QED BY <2>1, KeptEmpty, EmptySeq
<1>2. ASSUME NEW x \in Seq(S), NEW e \in S, x \in X PROVE Append(x, e) \in X
  <2>1. /\ Append(x, e) \in Seq(S) /\ Kept(x, T) \in Seq(S \cap T) /\ s \o x \in Seq(S)
        /\ s \o Append(x, e) = Append(s \o x, e)
    BY AppendProperties, KeptType, ConcatAppend, ConcatProperties
  <2>2. Kept(s \o Append(x, e), T)
           = IF e \in T THEN Append(Kept(s, T) \o Kept(x, T), e) ELSE Kept(s, T) \o Kept(x, T)
    <3> DEFINE y == s \o x
    <3>1. Kept(y, T) = Kept(s, T) \o Kept(x, T) /\ y \in Seq(S)
      BY <1>2, <2>1
    <3> HIDE DEF y
    <3>2. Kept(Append(y, e), T) = IF e \in T THEN Append(Kept(y, T), e) ELSE Kept(y, T)
      BY <3>1, KeptAppend
    <3>3. s \o Append(x, e) = Append(y, e)
      BY <2>1 DEF y
    <3> QED BY <3>1, <3>2, <3>3
  <2>3. CASE e \in T
    <3>1. Kept(s, T) \o Append(Kept(x, T), e) = Append(Kept(s, T) \o Kept(x, T), e)
      BY <1>0, <2>1, <2>3, ConcatAppend
    <3> QED BY <2>1, <2>2, <2>3, <3>1, KeptAppend
  <2>4. CASE e \notin T
    <3>1. Kept(Append(x, e), T) = Kept(x, T)
      BY <2>4, KeptAppend
    <3> QED BY <2>1, <2>2, <2>4, <3>1
  <2> QED BY <2>3, <2>4
<1> HIDE DEF X
<1>3. Seq(S) \subseteq X
  BY <1>1, <1>2, SeqInduction
<1> QED BY <1>3 DEF X

NoTwice(s) == \A i, j \in DOMAIN s : s[i] = s[j] => i = j

LEMMA NoTwiceAppend ==
  ASSUME NEW S, NEW s \in Seq(S), NEW e \in S
  PROVE  NoTwice(Append(s, e)) <=> NoTwice(s) /\ e \notin Range(s)
<1>1. /\ DOMAIN s = 1 .. Len(s) /\ DOMAIN Append(s, e) = 1 .. Len(s) + 1 /\ Len(s) \in Nat
      /\ Append(s, e)[Len(s) + 1] = e /\ \A i \in 1 .. Len(s) : Append(s, e)[i] = s[i]
  BY AppendProperties, LenProperties
<1>2. ASSUME NoTwice(Append(s, e)) PROVE NoTwice(s) /\ e \notin Range(s)
  <2>1. NoTwice(s)
    BY <1>1, <1>2 DEF NoTwice
  <2>2. ASSUME NEW i \in DOMAIN s, s[i] = e PROVE FALSE
    BY <1>1, <1>2, <2>2 DEF NoTwice
  <2> QED BY <2>1, <2>2 DEF Range
<1>3. ASSUME NoTwice(s), e \notin Range(s) PROVE NoTwice(Append(s, e))
  BY <1>1, <1>3 DEF NoTwice, Range
<1> QED BY <1>2, <1>3

LEMMA KeptNoTwice ==
  ASSUME NEW S, NEW s \in Seq(S), NEW T, NoTwice(s) PROVE NoTwice(Kept(s, T))
<1> DEFINE X == {x \in Seq(S) : NoTwice(x) => NoTwice(Kept(x, T))}
<1>1. <<>> \in X
  BY KeptEmpty, EmptySeq DEF NoTwice
<1>2. ASSUME NEW x \in Seq(S), NEW e \in S, x \in X PROVE Append(x, e) \in X
  <2>1. Append(x, e) \in Seq(S) /\ Kept(x, T) \in Seq(S \cap T)
    BY AppendProperties, KeptType
  <2>2. SUFFICES ASSUME NoTwice(x), e \notin Range(x) PROVE NoTwice(Kept(Append(x, e), T))
    BY <2>1, NoTwiceAppend
  <2>3. e \notin Range(Kept(x, T)) /\ NoTwice(Kept(x, T))
    BY <1>2, <2>2, KeptRange
  <2>4. CASE e \in T
    <3>1. NoTwice(Append(Kept(x, T), e))
      BY <2>1, <2>3, <2>4, NoTwiceAppend
    <3> QED BY <2>4, <3>1, KeptAppend
  <2>5. CASE e \notin T
    BY <2>3, <2>5, KeptAppend
  <2> QED BY <2>4, <2>5
<1> HIDE DEF X
<1>3. Seq(S) \subseteq X
  BY <1>1, <1>2, SeqInduction
<1> QED BY <1>3 DEF X

(* When all of s is in T, it stays as it is. *)
LEMMA KeptAll ==
  ASSUME NEW S, NEW s \in Seq(S), NEW T, Range(s) \subseteq T PROVE Kept(s, T) = s
<1> DEFINE X == {x \in Seq(S) : Range(x) \subseteq T => Kept(x, T) = x}
<1>1. <<>> \in X
  BY KeptEmpty, EmptySeq
<1>2. ASSUME NEW x \in Seq(S), NEW e \in S, x \in X PROVE Append(x, e) \in X
  <2>1. Append(x, e) \in Seq(S) /\ Range(Append(x, e)) = Range(x) \cup {e}
    BY AppendProperties, RangeAppend
  <2>2. SUFFICES ASSUME Range(x) \subseteq T, e \in T PROVE Kept(Append(x, e), T) = Append(x, e)
    BY <2>1
  <2>3. Kept(x, T) = x
    BY <1>2, <2>2
  <2>4. Kept(Append(x, e), T) = Append(Kept(x, T), e)
    BY <2>2, KeptAppend
  <2> QED BY <2>3, <2>4
<1> HIDE DEF X
<1>3. Seq(S) \subseteq X
  BY <1>1, <1>2, SeqInduction
<1> QED BY <1>3 DEF X

(* The one entry that is not in T is removed at its place. *)
LEMMA KeptAt ==
  ASSUME NEW S, NEW s \in Seq(S), NEW T, NEW i \in 1 .. Len(s), s[i] \notin T,
         \A j \in 1 .. Len(s) : j # i => s[j] \in T
  PROVE  RemoveAt(s, i) = Kept(s, T)
<1> DEFINE p == SubSeq(s, 1, i - 1)
           q == SubSeq(s, i + 1, Len(s))
           e == s[i]
<1>0. Len(s) \in Nat /\ e \in S /\ \A j \in 1 .. Len(s) : s[j] \in S
  BY LenProperties, ElementOfSeq
<1>1. p \in Seq(S) /\ Len(p) = i - 1 /\ \A j \in 1 .. i - 1 : p[j] = s[j]
  <2>1. \A j \in 1 .. i - 1 : s[j] \in S
    BY <1>0
  <2>2. 1 \in Int /\ i - 1 \in Int
    BY <1>0
  <2>3. /\ p \in Seq(S) /\ Len(p) = IF 1 <= i - 1 THEN i - 1 - 1 + 1 ELSE 0
        /\ \A j \in 1 .. i - 1 - 1 + 1 : p[j] = s[1 + j - 1]
    <3> HIDE DEF p
    <3> QED BY <2>1, <2>2, SubSeqProperties DEF p
  <2> QED BY <1>0, <2>3
<1>2. q \in Seq(S) /\ Len(q) = Len(s) - i /\ \A j \in 1 .. Len(s) - i : q[j] = s[i + j]
  <2>1. \A j \in i + 1 .. Len(s) : s[j] \in S
    BY <1>0
  <2>2. i + 1 \in Int /\ Len(s) \in Int
    BY <1>0
  <2>3. /\ q \in Seq(S) /\ Len(q) = IF i + 1 <= Len(s) THEN Len(s) - (i + 1) + 1 ELSE 0
        /\ \A j \in 1 .. Len(s) - (i + 1) + 1 : q[j] = s[(i + 1) + j - 1]
    <3> HIDE DEF q
    <3> QED BY <2>1, <2>2, SubSeqProperties DEF q
  <2> QED BY <1>0, <2>3
<1> HIDE DEF p, q, e
<1>3. Append(p, e) \in Seq(S) /\ s = Append(p, e) \o q
  <2> DEFINE a == Append(p, e)
  <2>1. /\ a \in Seq(S) /\ Len(a) = i /\ a[i] = e
        /\ \A j \in 1 .. i - 1 : a[j] = s[j]
    <3>1. /\ a \in Seq(S) /\ Len(a) = Len(p) + 1 /\ a[Len(p) + 1] = e
          /\ \A j \in 1 .. Len(p) : a[j] = p[j]
      BY <1>0, <1>1, AppendProperties
    <3> QED BY <1>0, <1>1, <3>1
  <2> HIDE DEF a
  <2>2. /\ a \o q \in Seq(S) /\ Len(a \o q) = Len(s)
        /\ \A j \in 1 .. Len(s) : (a \o q)[j] = IF j <= i THEN a[j] ELSE q[j - i]
    <3>1. /\ a \o q \in Seq(S) /\ Len(a \o q) = Len(a) + Len(q)
          /\ \A j \in 1 .. Len(a) + Len(q) :
                 (a \o q)[j] = IF j <= Len(a) THEN a[j] ELSE q[j - Len(a)]
      BY <1>2, <2>1, ConcatProperties
    <3>2. Len(a) + Len(q) = Len(s)
      BY <1>0, <1>2, <2>1
    <3> QED BY <2>1, <3>1, <3>2
  <2>3. ASSUME NEW j \in 1 .. Len(s) PROVE (a \o q)[j] = s[j]
    <3>1. CASE j < i
      <4>1. j \in 1 .. i - 1 /\ j <= i
        BY <1>0, <3>1
      <4> QED BY <2>1, <2>2, <4>1
    <3>2. CASE j = i
      <4>1. (a \o q)[i] = a[i]
        BY <1>0, <2>2
      <4> QED BY <2>1, <3>2, <4>1 DEF e
    <3>3. CASE j > i
      <4>1. j - i \in 1 .. Len(s) - i /\ i + (j - i) = j /\ ~(j <= i)
        BY <1>0, <3>3
      <4>2. (a \o q)[j] = q[j - i]
        BY <2>2, <4>1
      <4> QED BY <1>2, <4>1, <4>2
    <3>4. j < i \/ j = i \/ j > i
      BY <1>0
    <3> QED BY <3>1, <3>2, <3>3, <3>4
  <2>4. a \o q = s
    BY <2>2, <2>3, SeqEqual
  <2> QED BY <2>1, <2>4 DEF a
<1>4. Kept(p, T) = p /\ Kept(q, T) = q
  <2>1. DOMAIN p = 1 .. i - 1 /\ DOMAIN q = 1 .. Len(s) - i
    BY <1>1, <1>2, LenProperties
  <2>2. Range(p) \subseteq T
    BY <1>0, <1>1, <2>1 DEF Range
  <2>3. Range(q) \subseteq T
    BY <1>0, <1>2, <2>1 DEF Range
  <2> QED BY <1>1, <1>2, <2>2, <2>3, KeptAll
<1>5. Kept(s, T) = Kept(Append(p, e), T) \o Kept(q, T)
  <2> DEFINE a == Append(p, e)
  <2>0. a \in Seq(S)
    BY <1>3
  <2> HIDE DEF a
  <2>1. Kept(a \o q, T) = Kept(a, T) \o Kept(q, T)
    BY <1>2, <2>0, KeptConcat
  <2> QED BY <1>3, <2>1 DEF a
<1>6. Kept(Append(p, e), T) = Kept(p, T)
  <2>1. e \in S /\ e \notin T
    BY <1>0 DEF e
  <2> QED BY <1>1, <2>1, KeptAppend
<1>7. RemoveAt(s, i) = p \o q
  BY DEF RemoveAt, p, q
<1> QED BY <1>4, <1>5, <1>6, <1>7

LEMMA RemoveFirstKept ==
  ASSUME NEW S, NEW s \in Seq(S), NoTwice(s), NEW e PROVE RemoveFirst(s, e) = Kept(s, S \ {e})
<1>0. DOMAIN s = 1 .. Len(s) /\ Len(s) \in Nat /\ \A j \in 1 .. Len(s) : s[j] \in S
  BY LenProperties, ElementOfSeq
<1>1. CASE \E i \in 1 .. Len(s) : s[i] = e
  <2>1. PICK i \in 1 .. Len(s) : s[i] = e
    BY <1>1
  <2> DEFINE I == {j \in 1 .. Len(s) : s[j] = e}
  <2>2. I = {i}
    BY <1>0, <2>1 DEF NoTwice
  <2>3. Min(I) = i
    BY <2>2 DEF Min
  <2>4. SelectInSeq(s, LAMBDA v : v = e) = i
    BY <2>2, <2>3 DEF SelectInSeq
  <2>5. RemoveFirst(s, e) = RemoveAt(s, i)
    BY <1>1, <2>4 DEF RemoveFirst
  <2>6. s[i] \notin S \ {e} /\ \A j \in 1 .. Len(s) : j # i => s[j] \in S \ {e}
    BY <1>0, <2>1 DEF NoTwice
  <2> QED BY <2>5, <2>6, KeptAt
<1>2. CASE ~\E i \in 1 .. Len(s) : s[i] = e
  <2>1. Range(s) \subseteq S \ {e}
    BY <1>0, <1>2 DEF Range
  <2> QED BY <1>2, <2>1, KeptAll DEF RemoveFirst
<1> QED BY <1>1, <1>2

OneName(list) == \A i, j \in DOMAIN list : list[i].name = list[j].name => i = j

LEMMA RemoveNameKept ==
  ASSUME NEW s \in Seq(Provider), OneName(s), NEW n
  PROVE  WithoutFirst(s, n) = Without(s, n)
<1> DEFINE T == [name : Names \ {n}, model : Models]
<1>0. DOMAIN s = 1 .. Len(s) /\ Len(s) \in Nat /\ \A j \in 1 .. Len(s) : s[j] \in Provider
  BY LenProperties, ElementOfSeq
<1>a. \A p \in Provider : p \in T <=> p.name # n
  BY DEF Provider
<1> HIDE DEF T
<1>1. CASE \E i \in 1 .. Len(s) : s[i].name = n
  <2>1. PICK i \in 1 .. Len(s) : s[i].name = n
    BY <1>1
  <2> DEFINE I == {j \in 1 .. Len(s) : s[j].name = n}
  <2>2. I = {i}
    BY <1>0, <2>1 DEF OneName
  <2>3. Min(I) = i
    BY <2>2 DEF Min
  <2>4. SelectInSeq(s, LAMBDA p : p.name = n) = i
    BY <2>2, <2>3 DEF SelectInSeq
  <2>5. WithoutFirst(s, n) = RemoveAt(s, i)
    BY <1>1, <2>4 DEF WithoutFirst, RemoveFirstMatch
  <2>6. s[i] \notin T /\ \A j \in 1 .. Len(s) : j # i => s[j] \in T
    BY <1>0, <1>a, <2>1 DEF OneName
  <2> QED BY <2>5, <2>6, KeptAt DEF Without, T
<1>2. CASE ~\E i \in 1 .. Len(s) : s[i].name = n
  <2>1. Range(s) \subseteq T
    BY <1>0, <1>a, <1>2 DEF Range
  <2>2. Kept(s, T) = s
    BY <2>1, KeptAll
  <2> QED BY <1>2, <2>2 DEF WithoutFirst, RemoveFirstMatch, Without, T
<1> QED BY <1>1, <1>2

LEMMA LeastOf ==
  ASSUME NEW I, I \subseteq Nat, I # {} PROVE Min(I) \in I /\ \A j \in I : Min(I) <= j
<1>1. PICK x \in I : \A y \in I : ~(<<y, x>> \in OpToRel(<, Nat))
  BY ONLY I \subseteq Nat, I # {}, NatLessThanWellFounded, WFMin
<1>2. ASSUME NEW y \in I PROVE x <= y
  <2>1. x \in Nat /\ y \in Nat /\ ~(<<y, x>> \in OpToRel(<, Nat))
    BY <1>1
  <2>2. x \in Nat /\ y \in Nat /\ ~(y < x)
    BY <2>1 DEF OpToRel
  <2> QED BY <2>2
<1> QED BY <1>2 DEF Min

(* The first entry with the name. *)
LEMMA IndexIs ==
  ASSUME NEW list \in Seq(Provider), NEW n
  PROVE  /\ n \notin Listed(list) => IndexOf(list, n) = 0
         /\ n \in Listed(list) => /\ IndexOf(list, n) \in DOMAIN list
                                  /\ list[IndexOf(list, n)].name = n
                                  /\ \A j \in DOMAIN list : list[j].name = n => IndexOf(list, n) <= j
<1> DEFINE I == {j \in 1 .. Len(list) : list[j].name = n}
<1>0. DOMAIN list = 1 .. Len(list) /\ Len(list) \in Nat
  BY LenProperties
<1>1. IndexOf(list, n) = IF I # {} THEN Min(I) ELSE 0
  BY DEF IndexOf, SelectInSeq
<1>2. n \in Listed(list) <=> I # {}
  BY <1>0 DEF Listed
<1>3. CASE I # {}
  <2>1. Min(I) \in I /\ \A j \in I : Min(I) <= j
    <3>1. I \subseteq Nat
      BY <1>0
    <3> HIDE DEF I
    <3> QED BY <1>3, <3>1, LeastOf
  <2> HIDE DEF I
  <2>2. IndexOf(list, n) = Min(I)
    BY <1>1, <1>3
  <2> QED BY <1>0, <1>2, <1>3, <2>1, <2>2 DEF I
<1>4. CASE I = {}
  BY <1>1, <1>2, <1>4
<1> QED BY <1>3, <1>4

LEMMA NamesListed ==
  ASSUME NEW list \in Seq(Provider)
  PROVE  /\ Listed(list) \subseteq Names /\ DOMAIN list = 1 .. Len(list) /\ Len(list) \in Nat
         /\ \A i \in DOMAIN list : list[i] \in Provider
<1>1. DOMAIN list = 1 .. Len(list) /\ Len(list) \in Nat /\ \A i \in 1 .. Len(list) : list[i] \in Provider
  BY LenProperties, ElementOfSeq
<1> QED BY <1>1 DEF Listed, Provider

LEMMA NameAtIndex ==
  ASSUME NEW list \in Seq(Provider), NEW n
  PROVE  NameAt(list, IndexOf(list, n)) = IF n \in Listed(list) THEN n ELSE None
<1>1. 0 \notin DOMAIN list
  BY NamesListed
<1> QED BY <1>1, IndexIs DEF NameAt

-----------------------------------------------------------------------------
(* Lists of providers                                                      *)

LEMMA WithModelIs ==
  ASSUME NEW list \in Seq(Provider), NEW n, NEW m \in Models
  PROVE  /\ WithModel(list, n, m) \in Seq(Provider) /\ DOMAIN WithModel(list, n, m) = DOMAIN list
         /\ Len(WithModel(list, n, m)) = Len(list)
         /\ \A i \in DOMAIN list : WithModel(list, n, m)[i].name = list[i].name
         /\ Listed(WithModel(list, n, m)) = Listed(list)
<1> DEFINE l == WithModel(list, n, m)
<1>0. DOMAIN list = 1 .. Len(list) /\ Len(list) \in Nat /\ \A i \in DOMAIN list : list[i] \in Provider
  BY NamesListed
<1>1. DOMAIN l = DOMAIN list
  BY DEF WithModel
<1>2. ASSUME NEW i \in DOMAIN list PROVE l[i] \in Provider /\ l[i].name = list[i].name
  <2>1. list[i] \in Provider
    BY <1>0
  <2>2. [list[i] EXCEPT !.model = m] \in Provider /\ [list[i] EXCEPT !.model = m].name = list[i].name
    BY <2>1 DEF Provider
  <2> QED BY <2>1, <2>2 DEF WithModel
<1>3. l \in [1 .. Len(list) -> Provider]
  <2>1. l = [i \in DOMAIN list |-> l[i]]
    BY DEF WithModel
  <2> HIDE DEF l
  <2> QED BY <1>0, <1>2, <2>1
<1> HIDE DEF l
<1>4. l \in Seq(Provider) /\ Len(l) = Len(list)
  BY <1>0, <1>3, LenProperties, SeqDef
<1>5. Listed(l) = Listed(list)
  BY <1>1, <1>2 DEF Listed
<1> QED BY <1>1, <1>2, <1>4, <1>5 DEF l

LEMMA EntriesType ==
  ASSUME NEW r \in Seq(Globals), NEW g \in [Globals -> Models]
  PROVE  /\ Entries(r, g) \in Seq(Provider) /\ Len(Entries(r, g)) = Len(r)
         /\ \A i \in 1 .. Len(r) : Entries(r, g)[i] = [name |-> r[i], model |-> g[r[i]]]
         /\ Listed(Entries(r, g)) = Range(r)
<1> DEFINE l == Entries(r, g)
<1>0. DOMAIN r = 1 .. Len(r) /\ Len(r) \in Nat /\ \A i \in 1 .. Len(r) : r[i] \in Globals
  BY LenProperties, ElementOfSeq
<1>1. DOMAIN l = 1 .. Len(r) /\ \A i \in 1 .. Len(r) : l[i] = [name |-> r[i], model |-> g[r[i]]]
  BY <1>0 DEF Entries
<1>2. \A i \in 1 .. Len(r) : l[i] \in Provider
  BY <1>0, <1>1, ProvidersAssumption DEF Provider
<1>3. l \in [1 .. Len(r) -> Provider]
  <2>1. l = [i \in 1 .. Len(r) |-> l[i]]
    BY <1>0 DEF Entries
  <2> HIDE DEF l
  <2> QED BY <1>2, <2>1
<1> HIDE DEF l
<1>4. l \in Seq(Provider) /\ Len(l) = Len(r)
  BY <1>0, <1>3, LenProperties, SeqDef
<1>5. Listed(l) = Range(r)
  BY <1>0, <1>1 DEF Listed, Range
<1> QED BY <1>1, <1>4, <1>5 DEF l

LEMMA ListedConcat ==
  ASSUME NEW s \in Seq(Provider), NEW t \in Seq(Provider)
  PROVE  Listed(s \o t) = Listed(s) \cup Listed(t)
<1>1. /\ DOMAIN s = 1 .. Len(s) /\ DOMAIN t = 1 .. Len(t) /\ Len(s) \in Nat /\ Len(t) \in Nat
  BY LenProperties
<1>2. /\ DOMAIN (s \o t) = 1 .. Len(s) + Len(t)
      /\ \A i \in 1 .. Len(s) + Len(t) : (s \o t)[i] = IF i <= Len(s) THEN s[i] ELSE t[i - Len(s)]
  BY ConcatProperties, LenProperties
<1>3. ASSUME NEW i \in DOMAIN (s \o t) PROVE (s \o t)[i].name \in Listed(s) \cup Listed(t)
  <2>1. CASE i <= Len(s)
    BY <1>1, <1>2, <1>3, <2>1 DEF Listed
  <2>2. CASE ~(i <= Len(s))
    <3>1. i - Len(s) \in DOMAIN t
      BY <1>1, <1>2, <2>2
    <3> QED BY <1>2, <2>2, <3>1 DEF Listed
  <2> QED BY <2>1, <2>2
<1>4. ASSUME NEW i \in DOMAIN s PROVE s[i].name \in Listed(s \o t)
  <2>1. i \in DOMAIN (s \o t) /\ (s \o t)[i] = s[i]
    BY <1>1, <1>2
  <2> QED BY <2>1 DEF Listed
<1>5. ASSUME NEW i \in DOMAIN t PROVE t[i].name \in Listed(s \o t)
  <2>1. Len(s) + i \in DOMAIN (s \o t) /\ (s \o t)[Len(s) + i] = t[i]
    <3>1. Len(s) + i \in 1 .. Len(s) + Len(t) /\ ~(Len(s) + i <= Len(s)) /\ Len(s) + i - Len(s) = i
      BY <1>1
    <3> QED BY <1>2, <3>1
  <2> QED BY <2>1 DEF Listed
<1> QED BY <1>3, <1>4, <1>5 DEF Listed

(* Removal from the references is removal from their entries. *)
LEMMA KeptEntries ==
  ASSUME NEW r \in Seq(Globals), NEW g \in [Globals -> Models], NEW n
  PROVE  Without(Entries(r, g), n) = Entries(Kept(r, Globals \ {n}), g)
<1> DEFINE T == [name : Names \ {n}, model : Models]
           U == Globals \ {n}
           X == {x \in Seq(Globals) : Kept(Entries(x, g), T) = Entries(Kept(x, U), g)}
<1>0. Entries(<<>>, g) = <<>>
  <2>1. Entries(<<>>, g) \in Seq(Provider) /\ Len(Entries(<<>>, g)) = 0
    BY EntriesType, EmptySeq
  <2> QED BY <2>1, EmptySeq
<1>1. <<>> \in X
  BY <1>0, KeptEmpty, EmptySeq
<1>a. ASSUME NEW x \in Seq(Globals), NEW e \in Globals
      PROVE  Entries(Append(x, e), g) = Append(Entries(x, g), [name |-> e, model |-> g[e]])
  <2> DEFINE a == Append(x, e)
             p == [name |-> e, model |-> g[e]]
             l == Entries(x, g)
             la == Entries(a, g)
  <2>1. a \in Seq(Globals) /\ Len(a) = Len(x) + 1 /\ Len(x) \in Nat /\ a[Len(x) + 1] = e
        /\ \A i \in 1 .. Len(x) : a[i] = x[i]
    BY AppendProperties, LenProperties
  <2> HIDE DEF a
  <2>2. la \in Seq(Provider) /\ Len(la) = Len(x) + 1
        /\ \A i \in 1 .. Len(x) + 1 : la[i] = [name |-> a[i], model |-> g[a[i]]]
    BY <2>1, EntriesType
  <2>3. l \in Seq(Provider) /\ Len(l) = Len(x)
        /\ \A i \in 1 .. Len(x) : l[i] = [name |-> x[i], model |-> g[x[i]]]
    BY EntriesType
  <2>4. p \in Provider
    BY ProvidersAssumption DEF Provider
  <2> HIDE DEF l, la
  <2>5. Append(l, p) \in Seq(Provider) /\ Len(Append(l, p)) = Len(x) + 1
        /\ Append(l, p)[Len(x) + 1] = p /\ \A i \in 1 .. Len(x) : Append(l, p)[i] = l[i]
    <3> HIDE DEF p
    <3> QED BY <2>3, <2>4, AppendProperties
  <2>6. ASSUME NEW i \in 1 .. Len(x) + 1 PROVE la[i] = Append(l, p)[i]
    <3>1. CASE i = Len(x) + 1
      BY <2>1, <2>2, <2>5, <3>1
    <3>2. CASE i # Len(x) + 1
      <4>1. i \in 1 .. Len(x)
        BY <2>1, <3>2
      <4> QED BY <2>1, <2>2, <2>3, <2>5, <4>1
    <3> QED BY <3>1, <3>2
  <2>7. la = Append(l, p)
    <3> DEFINE b == Append(l, p)
    <3>1. b \in Seq(Provider) /\ Len(b) = Len(la) /\ \A i \in 1 .. Len(la) : la[i] = b[i]
      BY <2>2, <2>5, <2>6
    <3> HIDE DEF b
    <3>2. la = b
      BY <2>2, <3>1, SeqEqual
    <3> QED BY <3>2 DEF b
  <2> QED BY <2>7 DEF a, l, la
<1>2. ASSUME NEW x \in Seq(Globals), NEW e \in Globals, x \in X PROVE Append(x, e) \in X
  <2> DEFINE p == [name |-> e, model |-> g[e]]
             l == Entries(x, g)
  <2>1. Append(x, e) \in Seq(Globals) /\ l \in Seq(Provider) /\ p \in Provider /\ (p \in T <=> e \in U)
    BY AppendProperties, EntriesType, ProvidersAssumption DEF Provider
  <2>2. Kept(x, U) \in Seq(Globals)
    <3>1. Kept(x, U) \in Seq(Globals \cap U) /\ Globals \cap U \subseteq Globals
      BY KeptType
    <3> QED BY <3>1, SeqMonotonic
  <2>3. Kept(l, T) = Entries(Kept(x, U), g) /\ Entries(Append(x, e), g) = Append(l, p)
    BY <1>2, <1>a
  <2> HIDE DEF l, p, T, U
  <2>4. Kept(Append(l, p), T) = IF p \in T THEN Append(Kept(l, T), p) ELSE Kept(l, T)
    BY <2>1, KeptAppend
  <2>5. Kept(Append(x, e), U) = IF e \in U THEN Append(Kept(x, U), e) ELSE Kept(x, U)
    BY KeptAppend
  <2>6. Entries(Append(Kept(x, U), e), g) = Append(Entries(Kept(x, U), g), p)
    <3> DEFINE k == Kept(x, U)
    <3>1. k \in Seq(Globals)
      BY <2>2
    <3> HIDE DEF k
    <3>2. Entries(Append(k, e), g) = Append(Entries(k, g), p)
      BY <1>a, <3>1 DEF p
    <3> QED BY <3>2 DEF k
  <2> QED BY <2>1, <2>3, <2>4, <2>5, <2>6
<1> HIDE DEF X, T, U
<1>3. Seq(Globals) \subseteq X
  BY <1>1, <1>2, SeqInduction
<1> QED BY <1>3 DEF X, T, U, Without

-----------------------------------------------------------------------------
(* What config.toml resolves to                                            *)

File == [refs : Seq(Globals), inline : Seq(Provider), global : [Globals -> Models],
         active : Names \cup {None}]

FromRefs(f) == Kept(f.refs, Globals \ Listed(f.inline))

LEMMA ResolvedIs ==
  ASSUME NEW f \in File
  PROVE  /\ FromRefs(f) \in Seq(Globals) /\ Entries(FromRefs(f), f.global) \in Seq(Provider)
         /\ Resolved(f) = Entries(FromRefs(f), f.global) \o f.inline
         /\ Resolved(f) \in Seq(Provider)
         /\ Range(FromRefs(f)) = Range(f.refs) \ Listed(f.inline)
         /\ Listed(Resolved(f)) = Range(f.refs) \cup Listed(f.inline)
<1>1. f.refs \in Seq(Globals) /\ f.inline \in Seq(Provider) /\ f.global \in [Globals -> Models]
  BY DEF File
<1>2. /\ FromRefs(f) \in Seq(Globals \cap (Globals \ Listed(f.inline)))
      /\ Range(FromRefs(f)) = Range(f.refs) \cap (Globals \ Listed(f.inline))
  BY <1>1, KeptType, KeptRange DEF FromRefs
<1>3. FromRefs(f) \in Seq(Globals)
  BY <1>2, SeqMonotonic
<1>4. Range(f.refs) \subseteq Globals
  BY <1>1, RangeOfSeq
<1> DEFINE l == Entries(FromRefs(f), f.global)
<1>5. l \in Seq(Provider) /\ Listed(l) = Range(FromRefs(f))
  BY <1>1, <1>3, EntriesType
<1>6. Resolved(f) = l \o f.inline
  BY DEF Resolved, FromRefs
<1> HIDE DEF l
<1>7. Resolved(f) \in Seq(Provider) /\ Listed(Resolved(f)) = Listed(l) \cup Listed(f.inline)
  BY <1>1, <1>5, <1>6, ConcatProperties, ListedConcat
<1> QED BY <1>2, <1>3, <1>4, <1>5, <1>6, <1>7 DEF l

(* AddProviderToConfig adds to what a restart finds what AddList adds in   *)
(* memory.                                                                 *)
LEMMA AddResolved ==
  ASSUME NEW f \in File, NEW p \in Provider, p.name \notin Listed(Resolved(f))
  PROVE  Resolved([f EXCEPT !.inline = Append(@, p)]) = Append(Resolved(f), p)
<1> DEFINE h == [f EXCEPT !.inline = Append(@, p)]
           l == Entries(FromRefs(f), f.global)
<1>1. /\ f.refs \in Seq(Globals) /\ f.inline \in Seq(Provider)
      /\ l \in Seq(Provider) /\ Resolved(f) = l \o f.inline
      /\ Listed(Resolved(f)) = Range(f.refs) \cup Listed(f.inline)
  BY ResolvedIs DEF File
<1>2. h.refs = f.refs /\ h.global = f.global /\ h.inline = Append(f.inline, p)
  BY DEF File
<1>3. Listed(h.inline) = Listed(f.inline) \cup {p.name}
  <2>1. /\ DOMAIN f.inline = 1 .. Len(f.inline) /\ Len(f.inline) \in Nat
        /\ DOMAIN h.inline = 1 .. Len(f.inline) + 1 /\ h.inline[Len(f.inline) + 1] = p
        /\ \A i \in 1 .. Len(f.inline) : h.inline[i] = f.inline[i]
    BY <1>1, <1>2, AppendProperties, LenProperties
  <2> QED BY <2>1 DEF Listed
<1>4. FromRefs(h) = FromRefs(f)
  <2> DEFINE T == Globals \ Listed(f.inline)
             U == Globals \ Listed(h.inline)
  <2>1. Range(f.refs) \cap T = Range(f.refs) \cap U
    BY <1>1, <1>3
  <2> HIDE DEF T, U
  <2>2. Kept(f.refs, T) = Kept(f.refs, U)
    BY <1>1, <2>1, KeptSame
  <2> QED BY <1>2, <2>2 DEF FromRefs, T, U
<1>5. Resolved(h) = l \o Append(f.inline, p)
  BY <1>2, <1>4 DEF Resolved, FromRefs
<1> HIDE DEF h, l
<1>6. l \o Append(f.inline, p) = Append(l \o f.inline, p)
  BY <1>1, ConcatAppend
<1> QED BY <1>1, <1>5, <1>6 DEF h

(* RemoveProviderFromConfig removes from what a restart finds what         *)
(* RemoveList removes in memory.                                           *)
LEMMA RemoveResolved ==
  ASSUME NEW f \in File, NoTwice(f.refs), OneName(f.inline), NEW n
  PROVE  Resolved([f EXCEPT !.inline = WithoutFirst(@, n),
                            !.refs = RemoveFirst(@, n)]) = Without(Resolved(f), n)
<1> DEFINE h == [f EXCEPT !.inline = WithoutFirst(@, n),
                          !.refs = RemoveFirst(@, n)]
           T == [name : Names \ {n}, model : Models]
           L == Listed(f.inline)
           l == Entries(FromRefs(f), f.global)
<1>1. /\ f.refs \in Seq(Globals) /\ f.inline \in Seq(Provider) /\ f.global \in [Globals -> Models]
      /\ l \in Seq(Provider) /\ Resolved(f) = l \o f.inline /\ FromRefs(f) \in Seq(Globals)
  BY ResolvedIs DEF File
<1>2. h.inline = Without(f.inline, n) /\ h.refs = Kept(f.refs, Globals \ {n}) /\ h.global = f.global
  <2>1. h.inline = WithoutFirst(f.inline, n) /\ h.refs = RemoveFirst(f.refs, n)
        /\ h.global = f.global
    BY DEF File
  <2> HIDE DEF h
  <2>2. RemoveFirst(f.refs, n) = Kept(f.refs, Globals \ {n})
    BY <1>1, RemoveFirstKept
  <2>3. WithoutFirst(f.inline, n) = Without(f.inline, n)
    BY <1>1, RemoveNameKept
  <2> QED BY <2>1, <2>2, <2>3
<1>3. Listed(h.inline) = L \ {n}
  <2>1. Range(h.inline) = Range(f.inline) \cap T
    BY <1>1, <1>2, KeptRange DEF Without
  <2>2. \A p \in Range(f.inline) : p \in T <=> p.name # n
    <3>1. Range(f.inline) \subseteq Provider
      BY <1>1, RangeOfSeq
    <3> QED BY <3>1 DEF Provider
  <2>3. \A s : Listed(s) = {p.name : p \in Range(s)}
    BY DEF Listed, Range
  <2> QED BY <2>1, <2>2, <2>3
<1>4. FromRefs(h) = Kept(FromRefs(f), Globals \ {n})
  <2> DEFINE A == Globals \ {n}
             B == Globals \ Listed(h.inline)
             C == Globals \ L
  <2>1. A \cap B = C \cap A
    BY <1>3
  <2> HIDE DEF A, B, C
  <2>2. Kept(Kept(f.refs, A), B) = Kept(f.refs, A \cap B)
    BY <1>1, KeptTwice
  <2>3. Kept(Kept(f.refs, C), A) = Kept(f.refs, C \cap A)
    BY <1>1, KeptTwice
  <2> QED BY <1>2, <2>1, <2>2, <2>3 DEF FromRefs, A, B, C
<1>5. Entries(FromRefs(h), f.global) = Without(l, n)
  <2> DEFINE r == FromRefs(f)
  <2>1. r \in Seq(Globals)
    BY <1>1
  <2> HIDE DEF r
  <2>2. Without(Entries(r, f.global), n) = Entries(Kept(r, Globals \ {n}), f.global)
    BY <1>1, <2>1, KeptEntries
  <2> QED BY <1>4, <2>2 DEF r
<1>6. Resolved(h) = Without(l, n) \o Without(f.inline, n)
  BY <1>2, <1>5 DEF Resolved, FromRefs
<1> HIDE DEF h, l
<1>7. Without(l \o f.inline, n) = Without(l, n) \o Without(f.inline, n)
  BY <1>1, KeptConcat DEF Without
<1> QED BY <1>1, <1>6, <1>7 DEF h

LEMMA IndexUnique ==
  ASSUME NEW list \in Seq(Provider), NEW i \in DOMAIN list,
         \A j \in DOMAIN list : list[j].name = list[i].name => i <= j
  PROVE  IndexOf(list, list[i].name) = i
<1> DEFINE n == list[i].name
<1>1. n \in Listed(list)
  BY DEF Listed
<1>2. /\ IndexOf(list, n) \in DOMAIN list /\ list[IndexOf(list, n)].name = n
      /\ \A j \in DOMAIN list : list[j].name = n => IndexOf(list, n) <= j
  BY <1>1, IndexIs
<1>3. DOMAIN list \subseteq Nat
  BY NamesListed
<1> QED BY <1>2, <1>3

LEMMA ConcatAt ==
  ASSUME NEW s \in Seq(Provider), NEW t \in Seq(Provider)
  PROVE  /\ DOMAIN (s \o t) = 1 .. Len(s) + Len(t) /\ Len(s \o t) = Len(s) + Len(t)
         /\ s \o t \in Seq(Provider)
         /\ \A i \in 1 .. Len(s) : (s \o t)[i] = s[i]
         /\ \A i \in 1 .. Len(t) : (s \o t)[Len(s) + i] = t[i]
         /\ \A i \in 1 .. Len(s) + Len(t) : i <= Len(s) \/ \E j \in 1 .. Len(t) : i = Len(s) + j
<1>0. Len(s) \in Nat /\ Len(t) \in Nat
  BY LenProperties
<1>1. /\ s \o t \in Seq(Provider) /\ Len(s \o t) = Len(s) + Len(t)
      /\ \A i \in 1 .. Len(s) + Len(t) : (s \o t)[i] = IF i <= Len(s) THEN s[i] ELSE t[i - Len(s)]
  BY ConcatProperties
<1>2. DOMAIN (s \o t) = 1 .. Len(s) + Len(t)
  BY <1>1, LenProperties
<1>3. \A i \in 1 .. Len(s) : (s \o t)[i] = s[i]
  BY <1>0, <1>1
<1>4. ASSUME NEW i \in 1 .. Len(t) PROVE (s \o t)[Len(s) + i] = t[i]
  <2>1. Len(s) + i \in 1 .. Len(s) + Len(t) /\ ~(Len(s) + i <= Len(s)) /\ Len(s) + i - Len(s) = i
    BY <1>0
  <2> QED BY <1>1, <2>1
<1>5. ASSUME NEW i \in 1 .. Len(s) + Len(t), ~(i <= Len(s)) PROVE \E j \in 1 .. Len(t) : i = Len(s) + j
  <2>1. i - Len(s) \in 1 .. Len(t) /\ i = Len(s) + (i - Len(s))
    BY <1>0, <1>5
  <2> QED BY <2>1
<1> QED BY <1>1, <1>2, <1>3, <1>4, <1>5

LEMMA IndexInConcat ==
  ASSUME NEW s \in Seq(Provider), NEW t \in Seq(Provider), NEW n
  PROVE  /\ n \in Listed(s) => IndexOf(s \o t, n) = IndexOf(s, n)
         /\ n \notin Listed(s) /\ n \in Listed(t) => IndexOf(s \o t, n) = Len(s) + IndexOf(t, n)
<1> DEFINE c == s \o t
<1>0. /\ Len(s) \in Nat /\ Len(t) \in Nat /\ DOMAIN s = 1 .. Len(s) /\ DOMAIN t = 1 .. Len(t)
  BY LenProperties
<1>1. /\ DOMAIN c = 1 .. Len(s) + Len(t) /\ c \in Seq(Provider)
      /\ \A i \in 1 .. Len(s) : c[i] = s[i]
      /\ \A i \in 1 .. Len(t) : c[Len(s) + i] = t[i]
      /\ \A i \in 1 .. Len(s) + Len(t) : i <= Len(s) \/ \E j \in 1 .. Len(t) : i = Len(s) + j
  BY ConcatAt
<1> HIDE DEF c
<1>2. ASSUME n \in Listed(s) PROVE IndexOf(c, n) = IndexOf(s, n)
  <2> DEFINE k == IndexOf(s, n)
  <2>1. k \in DOMAIN s /\ s[k].name = n /\ \A j \in DOMAIN s : s[j].name = n => k <= j
    BY <1>2, IndexIs
  <2> HIDE DEF k
  <2>2. k \in DOMAIN c /\ c[k].name = n
    BY <1>0, <1>1, <2>1
  <2>3. ASSUME NEW j \in DOMAIN c, c[j].name = n PROVE k <= j
    <3>1. CASE j <= Len(s)
      BY <1>0, <1>1, <2>1, <2>3, <3>1
    <3>2. CASE ~(j <= Len(s))
      BY <1>0, <1>1, <2>1, <3>2
    <3> QED BY <3>1, <3>2
  <2>4. IndexOf(c, c[k].name) = k
    BY <1>1, <2>2, <2>3, IndexUnique
  <2> QED BY <2>2, <2>4 DEF k
<1>3. ASSUME n \notin Listed(s), n \in Listed(t) PROVE IndexOf(c, n) = Len(s) + IndexOf(t, n)
  <2> DEFINE k == IndexOf(t, n)
             h == Len(s) + k
  <2>1. k \in DOMAIN t /\ t[k].name = n /\ \A j \in DOMAIN t : t[j].name = n => k <= j
    BY <1>3, IndexIs
  <2> HIDE DEF k
  <2>2. h \in DOMAIN c /\ c[h].name = n
    BY <1>0, <1>1, <2>1
  <2>3. ASSUME NEW j \in DOMAIN c, c[j].name = n PROVE h <= j
    <3>1. CASE j <= Len(s)
      <4>1. j \in DOMAIN s /\ s[j].name = n
        BY <1>0, <1>1, <2>3, <3>1
      <4> QED BY <1>3, <4>1 DEF Listed
    <3>2. CASE ~(j <= Len(s))
      <4>1. PICK i \in 1 .. Len(t) : j = Len(s) + i
        BY <1>1, <3>2
      <4>2. t[i].name = n
        BY <1>1, <2>3, <4>1
      <4>3. k <= i
        BY <1>0, <2>1, <4>2
      <4> QED BY <1>0, <2>1, <4>1, <4>3
    <3> QED BY <3>1, <3>2
  <2> HIDE DEF h
  <2>4. IndexOf(c, c[h].name) = h
    BY <1>1, <2>2, <2>3, IndexUnique
  <2> QED BY <2>2, <2>4 DEF k, h
<1> QED BY <1>2, <1>3 DEF c

LEMMA ConcatEqual ==
  ASSUME NEW s \in Seq(Provider), NEW t \in Seq(Provider), NEW c \in Seq(Provider),
         Len(c) = Len(s) + Len(t), \A i \in 1 .. Len(s) : c[i] = s[i],
         \A i \in 1 .. Len(t) : c[Len(s) + i] = t[i]
  PROVE  c = s \o t
<1> DEFINE d == s \o t
<1>1. /\ d \in Seq(Provider) /\ Len(d) = Len(s) + Len(t)
      /\ \A i \in 1 .. Len(s) : d[i] = s[i]
      /\ \A i \in 1 .. Len(t) : d[Len(s) + i] = t[i]
      /\ \A i \in 1 .. Len(s) + Len(t) : i <= Len(s) \/ \E j \in 1 .. Len(t) : i = Len(s) + j
  BY ConcatAt
<1>2. Len(s) \in Nat
  BY LenProperties
<1> HIDE DEF d
<1>3. ASSUME NEW i \in 1 .. Len(s) + Len(t) PROVE c[i] = d[i]
  <2>1. CASE i <= Len(s)
    BY <1>1, <1>2, <2>1
  <2>2. CASE \E j \in 1 .. Len(t) : i = Len(s) + j
    BY <1>1, <2>2
  <2> QED BY <1>1, <2>1, <2>2
<1>4. c = d
  BY <1>1, <1>3, SeqEqual
<1> QED BY <1>4 DEF d

Other(p, m) == [p EXCEPT !.model = m]

LEMMA WithModelAt ==
  ASSUME NEW list \in Seq(Provider), NEW n, NEW m, NEW i \in 1 .. Len(list)
  PROVE  WithModel(list, n, m)[i] =
             IF i = IndexOf(list, n) THEN Other(list[i], m) ELSE list[i]
<1>1. i \in DOMAIN list
  BY LenProperties
<1> QED BY <1>1 DEF WithModel, Other

LEMMA ModelInFirst ==
  ASSUME NEW s \in Seq(Provider), NEW t \in Seq(Provider), NEW n \in Listed(s), NEW m \in Models
  PROVE  WithModel(s \o t, n, m) = WithModel(s, n, m) \o t
<1> DEFINE c == s \o t
           w == WithModel(c, n, m)
           u == WithModel(s, n, m)
           k == IndexOf(s, n)
<1>1. /\ c \in Seq(Provider) /\ Len(c) = Len(s) + Len(t)
      /\ \A i \in 1 .. Len(s) : c[i] = s[i]
      /\ \A i \in 1 .. Len(t) : c[Len(s) + i] = t[i]
  BY ConcatAt
<1>2. Len(s) \in Nat /\ Len(t) \in Nat /\ DOMAIN s = 1 .. Len(s)
  BY LenProperties
<1>3. IndexOf(c, n) = k /\ k \in 1 .. Len(s)
  BY <1>2, IndexInConcat, IndexIs
<1> HIDE DEF c, k
<1>4. u \in Seq(Provider) /\ Len(u) = Len(s)
  BY WithModelIs
<1>5. w \in Seq(Provider) /\ Len(w) = Len(s) + Len(t)
  BY <1>1, WithModelIs
<1>6. \A i \in 1 .. Len(s) : u[i] = IF i = k THEN Other(s[i], m) ELSE s[i]
  BY WithModelAt DEF k
<1>7. \A i \in 1 .. Len(s) + Len(t) : w[i] = IF i = k THEN Other(c[i], m) ELSE c[i]
  BY <1>1, <1>3, WithModelAt
<1> HIDE DEF u, w
<1>8. ASSUME NEW i \in 1 .. Len(s) PROVE w[i] = u[i]
  <2>1. i \in 1 .. Len(s) + Len(t) /\ c[i] = s[i]
    BY <1>1, <1>2
  <2> QED BY <1>6, <1>7, <2>1
<1>9. ASSUME NEW i \in 1 .. Len(t) PROVE w[Len(s) + i] = t[i]
  <2>1. Len(s) + i \in 1 .. Len(s) + Len(t) /\ Len(s) + i # k
    BY <1>2, <1>3
  <2> QED BY <1>1, <1>7, <2>1
<1>10. w = u \o t
  <2>1. Len(w) = Len(u) + Len(t) /\ \A i \in 1 .. Len(u) : w[i] = u[i]
    BY <1>4, <1>5, <1>8
  <2>2. \A i \in 1 .. Len(t) : w[Len(u) + i] = t[i]
    BY <1>4, <1>9
  <2> QED BY <1>4, <1>5, <2>1, <2>2, ConcatEqual
<1> QED BY <1>10 DEF c, u, w

LEMMA ModelInSecond ==
  ASSUME NEW s \in Seq(Provider), NEW t \in Seq(Provider), NEW n \in Listed(t), n \notin Listed(s),
         NEW m \in Models
  PROVE  WithModel(s \o t, n, m) = s \o WithModel(t, n, m)
<1> DEFINE c == s \o t
           w == WithModel(c, n, m)
           u == WithModel(t, n, m)
           k == IndexOf(t, n)
<1>1. /\ c \in Seq(Provider) /\ Len(c) = Len(s) + Len(t)
      /\ \A i \in 1 .. Len(s) : c[i] = s[i]
      /\ \A i \in 1 .. Len(t) : c[Len(s) + i] = t[i]
  BY ConcatAt
<1>2. Len(s) \in Nat /\ Len(t) \in Nat /\ DOMAIN t = 1 .. Len(t)
  BY LenProperties
<1>3. IndexOf(c, n) = Len(s) + k /\ k \in 1 .. Len(t)
  BY <1>2, IndexInConcat, IndexIs
<1> HIDE DEF c, k
<1>4. u \in Seq(Provider) /\ Len(u) = Len(t)
  BY WithModelIs
<1>5. w \in Seq(Provider) /\ Len(w) = Len(s) + Len(t)
  BY <1>1, WithModelIs
<1>6. \A i \in 1 .. Len(t) : u[i] = IF i = k THEN Other(t[i], m) ELSE t[i]
  BY WithModelAt DEF k
<1>7. \A i \in 1 .. Len(s) + Len(t) :
          w[i] = IF i = Len(s) + k THEN Other(c[i], m) ELSE c[i]
  BY <1>1, <1>3, WithModelAt
<1> HIDE DEF u, w
<1>8. ASSUME NEW i \in 1 .. Len(s) PROVE w[i] = s[i]
  <2>1. i \in 1 .. Len(s) + Len(t) /\ i # Len(s) + k
    BY <1>2, <1>3
  <2> QED BY <1>1, <1>7, <2>1
<1>9. ASSUME NEW i \in 1 .. Len(t) PROVE w[Len(s) + i] = u[i]
  <2>1. Len(s) + i \in 1 .. Len(s) + Len(t) /\ (Len(s) + i = Len(s) + k <=> i = k)
    BY <1>2, <1>3
  <2> QED BY <1>1, <1>6, <1>7, <2>1
<1>10. w = s \o u
  <2>1. Len(w) = Len(s) + Len(u) /\ \A i \in 1 .. Len(u) : w[Len(s) + i] = u[i]
    BY <1>4, <1>5, <1>9
  <2> QED BY <1>4, <1>5, <1>8, <2>1, ConcatEqual
<1> QED BY <1>10 DEF c, u, w

(* SaveProviderModel changes what a restart finds as SetProviderModel      *)
(* changes the list in memory: for a provider of the project...            *)
LEMMA InlineModelResolved ==
  ASSUME NEW f \in File, NEW n \in Listed(f.inline), NEW m \in Models
  PROVE  Resolved([f EXCEPT !.inline = WithModel(@, n, m)]) = WithModel(Resolved(f), n, m)
<1> DEFINE h == [f EXCEPT !.inline = WithModel(@, n, m)]
           l == Entries(FromRefs(f), f.global)
<1>1. /\ f.inline \in Seq(Provider) /\ l \in Seq(Provider) /\ Resolved(f) = l \o f.inline
      /\ FromRefs(f) \in Seq(Globals) /\ f.global \in [Globals -> Models]
      /\ Range(FromRefs(f)) = Range(f.refs) \ Listed(f.inline)
  BY ResolvedIs DEF File
<1>2. h.refs = f.refs /\ h.global = f.global /\ h.inline = WithModel(f.inline, n, m)
  BY DEF File
<1>3. Listed(WithModel(f.inline, n, m)) = Listed(f.inline)
  BY <1>1, WithModelIs
<1>4. Resolved(h) = l \o WithModel(f.inline, n, m)
  BY <1>2, <1>3 DEF Resolved, FromRefs
<1>5. n \notin Listed(l)
  BY <1>1, EntriesType
<1> HIDE DEF h, l
<1>6. WithModel(l \o f.inline, n, m) = l \o WithModel(f.inline, n, m)
  BY <1>1, <1>5, ModelInSecond
<1> QED BY <1>1, <1>4, <1>6 DEF h

LEMMA EntriesModel ==
  ASSUME NEW r \in Seq(Globals), NoTwice(r), NEW g \in [Globals -> Models],
         NEW n \in Range(r), NEW m \in Models
  PROVE  Entries(r, [g EXCEPT ![n] = m]) = WithModel(Entries(r, g), n, m)
<1> DEFINE h == [g EXCEPT ![n] = m]
           l == Entries(r, g)
           u == Entries(r, h)
           w == WithModel(l, n, m)
           k == IndexOf(l, n)
<1>1. n \in Globals /\ h \in [Globals -> Models] /\ \A x \in Globals : h[x] = IF x = n THEN m ELSE g[x]
  BY RangeOfSeq
<1> HIDE DEF h
<1>2. /\ l \in Seq(Provider) /\ Len(l) = Len(r) /\ Listed(l) = Range(r)
      /\ \A i \in 1 .. Len(r) : l[i] = [name |-> r[i], model |-> g[r[i]]]
  BY EntriesType
<1>3. /\ u \in Seq(Provider) /\ Len(u) = Len(r)
      /\ \A i \in 1 .. Len(r) : u[i] = [name |-> r[i], model |-> h[r[i]]]
  BY <1>1, EntriesType
<1> HIDE DEF l, u
<1>4. /\ Len(r) \in Nat /\ DOMAIN r = 1 .. Len(r) /\ DOMAIN l = 1 .. Len(r)
      /\ \A i \in 1 .. Len(r) : r[i] \in Globals
  BY <1>2, LenProperties, ElementOfSeq
<1>5. k \in 1 .. Len(r) /\ l[k].name = n
  BY <1>2, <1>4, IndexIs
<1> HIDE DEF k
<1>6. r[k] = n
  <2>1. l[k] = [name |-> r[k], model |-> g[r[k]]]
    BY <1>2, <1>5
  <2> QED BY <1>5, <2>1
<1>7. ASSUME NEW i \in 1 .. Len(r) PROVE r[i] = n <=> i = k
  BY <1>4, <1>5, <1>6 DEF NoTwice
<1>8. w \in Seq(Provider) /\ Len(w) = Len(r)
  BY <1>2, WithModelIs
<1>9. \A i \in 1 .. Len(r) : w[i] = IF i = k THEN Other(l[i], m) ELSE l[i]
  BY <1>2, WithModelAt DEF k
<1> HIDE DEF w
<1>10. ASSUME NEW i \in 1 .. Len(r) PROVE u[i] = w[i]
  <2>1. u[i] = [name |-> r[i], model |-> h[r[i]]] /\ l[i] = [name |-> r[i], model |-> g[r[i]]]
    BY <1>2, <1>3
  <2>2. h[r[i]] = IF i = k THEN m ELSE g[r[i]]
    BY <1>1, <1>4, <1>7
  <2>3. Other(l[i], m) = [name |-> r[i], model |-> m]
    BY <2>1 DEF Other
  <2> QED BY <1>9, <2>1, <2>2, <2>3
<1>11. u = w
  BY <1>3, <1>8, <1>10, SeqEqual
<1> QED BY <1>11 DEF h, l, u, w

(* ... and for one of [[providers]] that the project refers to.            *)
LEMMA GlobalModelResolved ==
  ASSUME NEW f \in File, NoTwice(f.refs), NEW m \in Models,
         NEW n \in Range(f.refs), n \notin Listed(f.inline)
  PROVE  Resolved([f EXCEPT !.global[n] = m]) = WithModel(Resolved(f), n, m)
<1> DEFINE h == [f EXCEPT !.global[n] = m]
           r == FromRefs(f)
           l == Entries(r, f.global)
<1>1. /\ f.inline \in Seq(Provider) /\ l \in Seq(Provider) /\ Resolved(f) = l \o f.inline
      /\ r \in Seq(Globals) /\ f.global \in [Globals -> Models] /\ f.refs \in Seq(Globals)
      /\ Range(r) = Range(f.refs) \ Listed(f.inline)
  BY ResolvedIs DEF File
<1>2. h.refs = f.refs /\ h.inline = f.inline /\ h.global = [f.global EXCEPT ![n] = m]
  BY DEF File
<1>3. Resolved(h) = Entries(r, h.global) \o f.inline
  BY <1>2 DEF Resolved, FromRefs
<1>4. NoTwice(r)
  <2> DEFINE T == Globals \ Listed(f.inline)
  <2> HIDE DEF T
  <2>1. NoTwice(Kept(f.refs, T))
    BY <1>1, KeptNoTwice
  <2> QED BY <2>1 DEF FromRefs, T
<1> HIDE DEF h, r
<1>5. n \in Range(r) /\ n \in Listed(l)
  BY <1>1, EntriesType
<1>6. Entries(r, h.global) = WithModel(l, n, m)
  BY <1>1, <1>2, <1>4, <1>5, EntriesModel
<1> HIDE DEF l
<1>7. WithModel(l \o f.inline, n, m) = WithModel(l, n, m) \o f.inline
  BY <1>1, <1>5, ModelInFirst
<1> QED BY <1>1, <1>3, <1>6, <1>7 DEF h

-----------------------------------------------------------------------------
(* Types                                                                   *)

(* The arguments of a command, by where it is. *)
Args(x) ==
    /\ x.op = "none" <=> x.pc = "idle"
    /\ x.op = "none" => x = NoCmd
    /\ x.op \in {"add", "remove", "switch"} => x.name \in Names
    /\ x.op \in {"add", "model"} => x.model \in Models
    /\ x.op = "clear" => x.name = None
    /\ x.op = "add" => x.pc \in {"check", "list", "set", "save"}
    /\ x.op = "remove" => x.pc \in {"list", "set", "save"}
    /\ x.op \in {"switch", "clear"} => x.pc \in {"select", "clean", "save"}
    /\ x.op = "model" => /\ x.pc \in {"list", "persist", "set", "select", "clean"}
                         /\ x.pc \in {"persist", "set", "select"} => x.name \in Names
    /\ x.op = "reload" => x.pc \in {"list", "set", "select"}

TypeInv == TypeOK /\ \A w \in Workers : Args(cmd[w])

LEMMA WithoutType == ASSUME NEW s \in Seq(Provider), NEW n PROVE Without(s, n) \in Seq(Provider)
<1> DEFINE T == [name : Names \ {n}, model : Models]
<1> HIDE DEF T
<1>1. Kept(s, T) \in Seq(Provider \cap T) /\ Provider \cap T \subseteq Provider
  BY KeptType
<1> QED BY <1>1, SeqMonotonic DEF Without, T

LEMMA RemoveAtType ==
  ASSUME NEW S, NEW s \in Seq(S), NEW i \in 1 .. Len(s) PROVE RemoveAt(s, i) \in Seq(S)
<1> DEFINE p == SubSeq(s, 1, i - 1)
           q == SubSeq(s, i + 1, Len(s))
<1>0. Len(s) \in Nat /\ \A j \in 1 .. Len(s) : s[j] \in S
  BY LenProperties, ElementOfSeq
<1>1. p \in Seq(S)
  <2>1. 1 \in Int /\ i - 1 \in Int /\ \A j \in 1 .. i - 1 : s[j] \in S
    BY <1>0
  <2> QED BY <2>1, SubSeqProperties
<1>2. q \in Seq(S)
  <2>1. i + 1 \in Int /\ Len(s) \in Int /\ \A j \in i + 1 .. Len(s) : s[j] \in S
    BY <1>0
  <2> QED BY <2>1, SubSeqProperties
<1> HIDE DEF p, q
<1>3. p \o q \in Seq(S)
  BY <1>1, <1>2, ConcatProperties
<1> QED BY <1>3 DEF RemoveAt, p, q

LEMMA RemoveFirstType ==
  ASSUME NEW s \in Seq(Globals), NEW e PROVE RemoveFirst(s, e) \in Seq(Globals)
<1> DEFINE I == {j \in 1 .. Len(s) : s[j] = e}
<1>1. CASE I # {}
  <2>1. I \subseteq Nat
    BY LenProperties
  <2> HIDE DEF I
  <2>2. Min(I) \in I
    BY <1>1, <2>1, LeastOf
  <2> USE DEF I
  <2>3. RemoveFirst(s, e) = RemoveAt(s, Min(I)) /\ Min(I) \in 1 .. Len(s)
    BY <1>1, <2>2 DEF RemoveFirst, SelectInSeq
  <2> QED BY <2>3, RemoveAtType
<1>2. CASE I = {}
  BY <1>2 DEF RemoveFirst
<1> QED BY <1>1, <1>2

LEMMA RemoveNameType ==
  ASSUME NEW s \in Seq(Provider), NEW n
  PROVE  WithoutFirst(s, n) \in Seq(Provider)
<1> DEFINE I == {j \in 1 .. Len(s) : s[j].name = n}
<1>1. CASE I # {}
  <2>1. I \subseteq Nat
    BY LenProperties
  <2> HIDE DEF I
  <2>2. Min(I) \in I
    BY <1>1, <2>1, LeastOf
  <2> USE DEF I
  <2>3. WithoutFirst(s, n) = RemoveAt(s, Min(I)) /\ Min(I) \in 1 .. Len(s)
    BY <1>1, <2>2 DEF WithoutFirst, RemoveFirstMatch, SelectInSeq
  <2> QED BY <2>3, RemoveAtType
<1>2. CASE I = {}
  BY <1>2 DEF WithoutFirst, RemoveFirstMatch
<1> QED BY <1>1, <1>2

(* What the user leaves of the inline providers is a list of some of them. *)
LEMMA EditedType ==
  ASSUME NEW t \in Seq(Provider), NEW s \in SetToAllKPermutations(ToSet(t))
  PROVE  s \in Seq(Provider) /\ (OneName(t) => OneName(s))
<1>1. DOMAIN t = 1 .. Len(t) /\ Len(t) \in Nat /\ \A i \in 1 .. Len(t) : t[i] \in Provider
  BY LenProperties, ElementOfSeq
<1>2. PICK A \in SUBSET ToSet(t) : s \in SetToSeqs(A)
  BY DEF SetToAllKPermutations
<1>3. Cardinality(A) \in Nat
  <2>1. IsFiniteSet(1 .. Len(t))
    BY <1>1, FS_Interval
  <2>2. t \in Surjection(1 .. Len(t), ToSet(t))
    <3>1. t \in [1 .. Len(t) -> ToSet(t)]
      <4>1. t = [i \in 1 .. Len(t) |-> t[i]]
        BY LenProperties
      <4> QED BY <1>1, <4>1 DEF ToSet
    <3> QED BY <1>1, <3>1 DEF Surjection, ToSet
  <2>3. IsFiniteSet(ToSet(t))
    BY <2>1, <2>2, FS_Surjection
  <2> QED BY <2>3, FS_Subset, FS_CardinalityType
<1>4. /\ s \in [1 .. Cardinality(A) -> A]
      /\ \A i, j \in 1 .. Cardinality(A) : i # j => s[i] # s[j]
  BY <1>2 DEF SetToSeqs
<1>5. A \subseteq Provider
  BY <1>1, <1>2 DEF ToSet
<1>6. s \in Seq(Provider)
  <2>1. s \in [1 .. Cardinality(A) -> Provider]
    BY <1>4, <1>5
  <2> QED BY <1>3, <2>1, SeqDef
<1>7. ASSUME OneName(t) PROVE OneName(s)
  <2>1. SUFFICES ASSUME NEW i \in DOMAIN s, NEW j \in DOMAIN s, s[i].name = s[j].name PROVE i = j
    BY DEF OneName
  <2>2. s[i] \in ToSet(t) /\ s[j] \in ToSet(t) /\ i \in 1 .. Cardinality(A) /\ j \in 1 .. Cardinality(A)
    BY <1>2, <1>4
  <2>3. PICK a \in DOMAIN t, b \in DOMAIN t : s[i] = t[a] /\ s[j] = t[b]
    BY <2>2 DEF ToSet
  <2>4. a = b
    BY <1>7, <2>1, <2>3 DEF OneName
  <2> QED BY <1>4, <2>2, <2>3, <2>4
<1> QED BY <1>6, <1>7

LEMMA ActiveType == TypeOK => ActiveName \in Names \cup {None}
<1> SUFFICES ASSUME TypeOK PROVE ActiveName \in Names \cup {None}
  OBVIOUS
<1>1. \A i \in DOMAIN providers : providers[i] \in Provider
  BY NamesListed DEF TypeOK
<1> QED BY <1>1 DEF ActiveName, NameAt, Provider

Command == [op : Ops \cup {"none"},
            pc : {"idle", "check", "list", "set", "persist", "select", "clean", "save"},
            chat : Chats \cup {None}, name : Names \cup {None}, model : Models \cup {None},
            list : Seq(Provider)]

Memory == /\ providers \in Seq(Provider) /\ activeIdx \in Nat /\ proxy \in Names \cup {None}
          /\ agent \in [Chats -> [up : BOOLEAN, key : Names \cup {None}, route : {"own", "proxy", "cut"}]]
          /\ adrift \in BOOLEAN /\ last \in Chats \cup {None}

LEMMA TypeParts ==
  /\ TypeOK <=> /\ Memory /\ file \in File /\ cmd \in [Workers -> Command]
                /\ edits \in 0 .. MaxEdits /\ agree \in BOOLEAN
  /\ TypeOK' <=> /\ Memory' /\ file' \in File /\ cmd' \in [Workers -> Command]
                 /\ edits' \in 0 .. MaxEdits /\ agree' \in BOOLEAN
  BY DEF TypeOK, Memory, File, Command

LEMMA NoCmdType == NoCmd \in Command /\ Args(NoCmd)
  BY EmptySeq DEF NoCmd, Command, Args, Ops

(* A command that takes a step to x. *)
LEMMA CmdStep ==
  ASSUME TypeInv, NEW w \in Workers, NEW x \in Command, Args(x), cmd' = [cmd EXCEPT ![w] = x]
  PROVE  cmd' \in [Workers -> Command] /\ \A v \in Workers : Args(cmd[v])'
  BY TypeParts DEF TypeInv

LEMMA DoneStep ==
  ASSUME TypeInv, NEW w \in Workers, Done(w)
  PROVE  cmd' \in [Workers -> Command] /\ \A v \in Workers : Args(cmd[v])'
  BY NoCmdType, CmdStep DEF Done

LEMMA GotoStep ==
  ASSUME TypeInv, NEW w \in Workers, NEW pc, Goto(w, pc), cmd[w].op # "none",
         \/ cmd[w].op = "add" /\ pc \in {"list", "set", "save"}
         \/ cmd[w].op = "remove" /\ pc \in {"set", "save"}
         \/ cmd[w].op \in {"switch", "clear"} /\ pc \in {"clean", "save"}
         \/ cmd[w].op = "model" /\ pc = "clean"
         \/ cmd[w].op = "model" /\ pc \in {"set", "select"} /\ cmd[w].name \in Names
         \/ cmd[w].op = "reload" /\ pc \in {"set", "select"}
  PROVE  cmd' \in [Workers -> Command] /\ \A v \in Workers : Args(cmd[v])'
<1> DEFINE x == [cmd[w] EXCEPT !.pc = pc]
<1>1. cmd[w] \in Command /\ Args(cmd[w]) /\ cmd' = [cmd EXCEPT ![w] = x]
  BY TypeParts DEF TypeInv, Goto
<1>2. x \in Command
  BY <1>1 DEF Command
<1>3. Args(x)
  BY <1>1 DEF Command, Args
<1> QED BY <1>1, <1>2, <1>3, CmdStep

LEMMA ResolvedType ==
  ASSUME NEW f \in File
  PROVE  Resolved(f) \in Seq(Provider) /\ \A n : IndexOf(Resolved(f), n) \in Nat
<1>1. Resolved(f) \in Seq(Provider)
  BY ResolvedIs
<1> DEFINE l == Resolved(f)
<1> HIDE DEF l
<1>2. ASSUME NEW n PROVE IndexOf(l, n) \in Nat
  <2>1. DOMAIN l \subseteq Nat
    BY <1>1, NamesListed DEF l
  <2> QED BY <1>1, <2>1, IndexIs DEF l
<1> QED BY <1>1, <1>2 DEF l

LEMMA InitType == Init => TypeInv
<1> SUFFICES ASSUME Init PROVE TypeInv
  OBVIOUS
<1>1. file \in File /\ providers = Resolved(file)
  BY ProvidersAssumption, EmptySeq DEF Init, File
<1>2. Memory
  BY <1>1, ResolvedType DEF Init, Memory, NoAgent
<1>3. cmd \in [Workers -> Command] /\ \A w \in Workers : Args(cmd[w])
  BY NoCmdType DEF Init
<1>4. edits \in 0 .. MaxEdits /\ agree \in BOOLEAN
  BY ProvidersAssumption DEF Init
<1> QED BY <1>1, <1>2, <1>3, <1>4, TypeParts DEF TypeInv

LEMMA RestartType == TypeInv /\ Restart => TypeInv'
<1> SUFFICES ASSUME TypeInv, Restart PROVE TypeInv'
  OBVIOUS
<1>1. file \in File /\ file' = file /\ edits' = edits
  BY TypeParts DEF TypeInv, Restart
<1>2. Memory'
  <2>1. /\ providers' = Resolved(file) /\ activeIdx' = IndexOf(Resolved(file), file.active)
        /\ proxy' = None /\ agent' = [c \in Chats |-> NoAgent] /\ last' = None
        /\ adrift' = (file.active \notin Listed(Resolved(file)) \cup {None})
    BY DEF Restart, Wire
  <2>2. providers' \in Seq(Provider) /\ activeIdx' \in Nat
    BY <1>1, <2>1, ResolvedType
  <2> QED BY <2>1, <2>2 DEF Memory, NoAgent
<1>3. cmd' \in [Workers -> Command] /\ \A w \in Workers : Args(cmd[w])'
  BY NoCmdType DEF Restart, Wire
<1>4. agree' \in BOOLEAN
  BY DEF Restart, Wire
<1> QED BY <1>1, <1>2, <1>3, <1>4, TypeParts DEF TypeInv

LEMMA EditType == TypeInv /\ EditFile => TypeInv'
<1> SUFFICES ASSUME TypeInv, EditFile PROVE TypeInv'
  OBVIOUS
<1>1. file \in File /\ edits \in 0 .. MaxEdits /\ MaxEdits \in Nat
  BY TypeParts, ProvidersAssumption DEF TypeInv
<1>2. PICK s \in SetToAllKPermutations(ToSet(file.inline)), a \in Names \cup {None} :
          file' = [file EXCEPT !.inline = s, !.active = a]
  BY DEF EditFile
<1>3. s \in Seq(Provider)
  <2>1. file.inline \in Seq(Provider)
    BY <1>1 DEF File
  <2> QED BY <2>1, EditedType
<1>4. file' \in File
  BY <1>1, <1>2, <1>3 DEF File
<1>5. edits' \in 0 .. MaxEdits /\ agree' \in BOOLEAN
  <2>1. edits < MaxEdits /\ edits' = edits + 1
    BY DEF EditFile
  <2>2. agree' \in BOOLEAN
    BY DEF EditFile
  <2>3. edits \in 0 .. MaxEdits /\ MaxEdits \in Nat
    BY <1>1
  <2>4. edits' \in 0 .. MaxEdits
    BY <2>1, <2>3
  <2> QED BY <2>2, <2>4
<1>6. UNCHANGED <<providers, activeIdx, proxy, agent, cmd, adrift, last>>
  BY DEF EditFile
<1> QED BY <1>4, <1>5, <1>6, TypeParts DEF TypeInv, Memory

LEMMA ChatType == ASSUME TypeInv, NEW c \in Chats, StartSession(c) \/ AgentEnds(c) PROVE TypeInv'
<1>1. Memory /\ ActiveName \in Names \cup {None} /\ Thinking \subseteq Names
  BY TypeParts, ActiveType, ProvidersAssumption DEF TypeInv
<1>2. UNCHANGED <<providers, activeIdx, file, cmd, edits, adrift, agree, last>>
  BY DEF StartSession, AgentEnds
<1> DEFINE Agents == [up : BOOLEAN, key : Names \cup {None}, route : {"own", "proxy", "cut"}]
<1>3. NoAgent \in Agents
  BY DEF NoAgent
<1>4. agent \in [Chats -> Agents] /\ Cut \in [Chats -> Agents]
  <2>1. agent \in [Chats -> Agents]
    BY <1>1 DEF Memory
  <2>2. \A b \in Chats : [agent[b] EXCEPT !.route = "cut"] \in Agents
    BY <2>1
  <2> QED BY <2>1, <2>2 DEF Cut
<1>5. agent' \in [Chats -> Agents] /\ proxy' \in Names \cup {None}
  <2>1. CASE AgentEnds(c)
    BY <1>1, <1>3, <1>4, <2>1 DEF AgentEnds, Memory
  <2>2. CASE StartSession(c)
    <3> DEFINE Started(route) == [up |-> TRUE, key |-> ActiveName, route |-> route]
    <3>1. Started("own") \in Agents /\ Started("proxy") \in Agents
      BY <1>1
    <3>2. /\ proxy' \in {None, ActiveName, proxy}
          /\ \/ agent' = [Cut EXCEPT ![c] = Started("own")]
             \/ agent' = [agent EXCEPT ![c] = Started("proxy")]
             \/ agent' = [agent EXCEPT ![c] = Started("own")]
      BY <2>2 DEF StartSession
    <3>3. agent' \in [Chats -> Agents]
      <4> HIDE DEF Agents, Started
      <4> QED BY <1>4, <3>1, <3>2
    <3> QED BY <1>1, <3>2, <3>3 DEF Memory
  <2> QED BY <2>1, <2>2
<1>6. Memory'
  BY <1>1, <1>2, <1>5 DEF Memory
<1> QED BY <1>2, <1>6, TypeParts DEF TypeInv

(* The steps of a command.                                                 *)

LEMMA Finished ==
  ASSUME TypeInv, Memory', file' \in File, cmd' \in [Workers -> Command],
         \A v \in Workers : Args(cmd[v])', edits' = edits, agree' \in BOOLEAN
  PROVE  TypeInv'
  BY TypeParts DEF TypeInv

LEMMA CommandOf ==
  ASSUME TypeInv, NEW w \in Workers
  PROVE  /\ cmd[w] \in Command /\ Args(cmd[w]) /\ Memory /\ file \in File /\ agree \in BOOLEAN
         /\ cmd \in [Workers -> Command]
  BY TypeParts DEF TypeInv

LEMMA BeginType == ASSUME TypeInv, NEW w \in Workers, Begin(w) PROVE TypeInv'
<1>1. PICK op \in Ops : \E x \in Arguments(op) : cmd' = [cmd EXCEPT ![w] = x]
  BY DEF Begin
<1>2. PICK x \in Arguments(op) : cmd' = [cmd EXCEPT ![w] = x]
  BY <1>1
<1>3. /\ x.op = op /\ x.chat \in Chats /\ x.list = <<>>
      /\ x.name \in (IF op \in {"add", "remove", "switch"} THEN Names ELSE {None})
      /\ x.model \in (IF op \in {"add", "model"} THEN Models ELSE {None})
      /\ x.pc = (IF op \in {"switch", "clear"} THEN "select" ELSE IF op = "add" THEN "check" ELSE "list")
      /\ x = [op |-> x.op, chat |-> x.chat, list |-> x.list, name |-> x.name, model |-> x.model, pc |-> x.pc]
  BY <1>2 DEF Arguments
<1>4. x \in Command
  BY <1>3, EmptySeq DEF Command
<1>5. Args(x)
  BY <1>3 DEF Args, Ops
<1>6. cmd' \in [Workers -> Command] /\ \A v \in Workers : Args(cmd[v])'
  BY <1>2, <1>4, <1>5, CmdStep
<1>7. agree' \in BOOLEAN /\ UNCHANGED <<providers, activeIdx, proxy, file, agent, edits, adrift, last>>
  BY DEF Begin
<1>8. Memory' /\ file' \in File
  BY <1>7, CommandOf DEF Memory
<1> QED BY <1>6, <1>7, <1>8, Finished

LEMMA AsideType ==
  ASSUME TypeInv, NEW w \in Workers, UNCHANGED <<memory, file, edits>>, agree' \in BOOLEAN,
         cmd' \in [Workers -> Command], \A v \in Workers : Args(cmd[v])'
  PROVE  TypeInv'
<1>1. Memory' /\ file' \in File /\ edits' = edits
  BY CommandOf DEF memory, Memory
<1> QED BY <1>1, Finished

LEMMA ListType ==
  ASSUME TypeInv, NEW w \in Workers,
         \/ AddCheck(w) \/ AddList(w) \/ RemoveList(w) \/ ModelActive(w) \/ ModelList(w) \/ ReloadList(w)
  PROVE  TypeInv'
<1> DEFINE c == cmd[w]
           Moved == cmd' \in [Workers -> Command] /\ \A v \in Workers : Args(cmd[v])'
<1>0. c \in Command /\ Args(c) /\ Memory /\ file \in File /\ agree \in BOOLEAN /\ providers \in Seq(Provider)
  BY CommandOf DEF Memory
<1>1. CASE AddCheck(w)
  <2>1. c.op = "add" /\ (Done(w) \/ Goto(w, "list"))
    BY <1>1 DEF AddCheck, At
  <2>2. Moved
    BY <2>1, DoneStep, GotoStep
  <2> QED BY <1>0, <1>1, <2>2, AsideType DEF AddCheck
<1>2. CASE AddList(w)
  <2> DEFINE p == [name |-> c.name, model |-> c.model]
             l == Append(providers, p)
             x == [c EXCEPT !.list = l, !.pc = "set"]
  <2>1. c.op = "add" /\ p \in Provider
    BY <1>0, <1>2 DEF AddList, At, Args, Provider
  <2>2. l \in Seq(Provider)
    <3> HIDE DEF p
    <3> QED BY <1>0, <2>1, AppendProperties
  <2>3. cmd' = [cmd EXCEPT ![w] = x]
    BY <1>2, CommandOf DEF AddList
  <2> HIDE DEF l
  <2>4. x \in Command /\ Args(x)
    BY <1>0, <2>1, <2>2 DEF Command, Args
  <2>5. Moved
    BY <2>3, <2>4, CmdStep
  <2> QED BY <1>0, <1>2, <2>5, AsideType DEF AddList
<1>3. CASE RemoveList(w)
  <2> DEFINE l == Without(providers, c.name)
             x == [c EXCEPT !.list = l, !.pc = "set"]
  <2>1. c.op = "remove"
    BY <1>3 DEF RemoveList, At
  <2>2. l \in Seq(Provider)
    BY <1>0, WithoutType
  <2>3. cmd' = [cmd EXCEPT ![w] = x] \/ Done(w)
    BY <1>3, CommandOf DEF RemoveList
  <2> HIDE DEF l
  <2>4. x \in Command /\ Args(x)
    BY <1>0, <2>1, <2>2 DEF Command, Args
  <2>5. Moved
    BY <2>3, <2>4, CmdStep, DoneStep
  <2> QED BY <1>0, <1>3, <2>5, AsideType DEF RemoveList
<1>4. CASE ModelActive(w)
  <2> DEFINE x == [c EXCEPT !.name = ActiveName]
  <2>1. c.op = "model" /\ c.pc = "list" /\ ActiveName \in Names \cup {None}
    BY <1>4, ActiveType DEF ModelActive, At, TypeInv
  <2>2. Goto(w, "clean") \/ cmd' = [cmd EXCEPT ![w] = x]
    BY <1>4, CommandOf DEF ModelActive
  <2>3. x \in Command /\ Args(x)
    BY <1>0, <2>1 DEF Command, Args
  <2>4. Moved
    BY <2>1, <2>2, <2>3, CmdStep, GotoStep
  <2> QED BY <1>0, <1>4, <2>4, AsideType DEF ModelActive
<1>5. CASE ModelList(w)
  <2> DEFINE l == WithModel(providers, c.name, c.model)
             x == [c EXCEPT !.list = l, !.pc = "persist"]
  <2>1. c.op = "model" /\ c.pc = "list" /\ c.name \in Names /\ c.model \in Models
    BY <1>0, <1>5 DEF ModelList, At, Args, Command
  <2>2. l \in Seq(Provider)
    BY <1>0, <2>1, WithModelIs
  <2>3. cmd' = [cmd EXCEPT ![w] = x] \/ Goto(w, "clean")
    BY <1>5, CommandOf DEF ModelList
  <2> HIDE DEF l
  <2>4. x \in Command /\ Args(x)
    BY <1>0, <2>1, <2>2 DEF Command, Args
  <2>5. Moved
    BY <2>1, <2>3, <2>4, CmdStep, GotoStep
  <2> QED BY <1>0, <1>5, <2>5, AsideType DEF ModelList
<1>6. CASE ReloadList(w)
  <2> DEFINE l == Resolved(file)
             x == [c EXCEPT !.list = l, !.name = file.active, !.pc = "set"]
  <2>1. c.op = "reload" /\ file.active \in Names \cup {None}
    BY <1>0, <1>6 DEF ReloadList, At, File
  <2>2. l \in Seq(Provider)
    BY <1>0, ResolvedType
  <2>3. cmd' = [cmd EXCEPT ![w] = x]
    BY <1>6, CommandOf DEF ReloadList
  <2> HIDE DEF l
  <2>4. x \in Command /\ Args(x)
    BY <1>0, <2>1, <2>2 DEF Command, Args
  <2>5. Moved /\ agree' \in BOOLEAN
    BY <1>6, <2>3, <2>4, CmdStep DEF ReloadList
  <2> QED BY <1>6, <2>5, AsideType DEF ReloadList
<1> QED BY <1>1, <1>2, <1>3, <1>4, <1>5, <1>6

LEMMA PersistType == ASSUME TypeInv, NEW w \in Workers, ModelPersist(w) PROVE TypeInv'
<1> DEFINE n == cmd[w].name
           m == cmd[w].model
<1>0. cmd[w] \in Command /\ Args(cmd[w]) /\ Memory /\ file \in File /\ agree \in BOOLEAN
  BY CommandOf
<1>1. cmd[w].op = "model" /\ cmd[w].pc = "persist"
  BY DEF ModelPersist, At
<1>2. n \in Names /\ m \in Models
  BY <1>0, <1>1 DEF Args
<1>3. cmd' \in [Workers -> Command] /\ \A v \in Workers : Args(cmd[v])'
  <2>1. Goto(w, "set") \/ Done(w)
    BY DEF ModelPersist
  <2> QED BY <1>1, <1>2, <2>1, DoneStep, GotoStep
<1>4. file' \in File
  <2> DEFINE u == WithModel(file.inline, n, m)
  <2>1. u \in Seq(Provider)
    BY <1>0, <1>2, WithModelIs DEF File
  <2>2. \/ file' = [file EXCEPT !.inline = u]
        \/ n \in Range(file.refs) /\ file' = [file EXCEPT !.global[n] = m]
        \/ file' = file
    BY DEF ModelPersist
  <2> HIDE DEF u, n, m
  <2> QED BY <1>0, <1>2, <2>1, <2>2 DEF File
<1>5. Memory' /\ edits' = edits /\ agree' = agree
  BY <1>0 DEF ModelPersist, memory, Memory
<1> QED BY <1>0, <1>3, <1>4, <1>5, Finished

LEMMA SetType == ASSUME TypeInv, NEW w \in Workers, Set(w) PROVE TypeInv'
<1> DEFINE c == cmd[w]
           unnamed == c.op = "reload" /\ c.name = None
           x == IF unnamed THEN NoCmd
                ELSE [c EXCEPT !.list = <<>>, !.pc = IF c.op \in {"model", "reload"} THEN "select" ELSE "save"]
<1>0. c \in Command /\ Args(c) /\ Memory /\ file \in File /\ agree \in BOOLEAN
  BY CommandOf
<1>1. cmd' = [cmd EXCEPT ![w] = x] /\ c.pc = "set"
  BY CommandOf DEF Set
<1>2. x \in Command /\ Args(x)
  <2>1. CASE unnamed
    BY <2>1, NoCmdType
  <2>2. CASE ~unnamed
    BY <1>0, <1>1, <2>2, EmptySeq DEF Command, Args
  <2> QED BY <2>1, <2>2
<1>3. cmd' \in [Workers -> Command] /\ \A v \in Workers : Args(cmd[v])'
  <2> HIDE DEF x
  <2> QED BY <1>1, <1>2, CmdStep
<1>4. Memory'
  <2>1. providers' = c.list /\ c.list \in Seq(Provider) /\ adrift' \in BOOLEAN
        /\ UNCHANGED <<activeIdx, proxy, agent>>
    BY <1>0 DEF Set, Command, Memory
  <2>2. last' \in Chats \cup {None}
    BY <1>0 DEF Set, Memory
  <2> QED BY <1>0, <2>1, <2>2 DEF Memory
<1>5. file' = file /\ edits' = edits /\ agree' = agree
  BY DEF Set
<1> QED BY <1>0, <1>3, <1>4, <1>5, Finished

LEMMA SelectType == ASSUME TypeInv, NEW w \in Workers, Select(w) PROVE TypeInv'
<1> DEFINE c == cmd[w]
<1>0. c \in Command /\ Args(c) /\ Memory /\ file \in File /\ agree \in BOOLEAN
  BY CommandOf
<1>1. c.pc = "select" /\ c.op \in {"switch", "clear", "model", "reload"}
  BY <1>0 DEF Select, Args, Command, Ops
<1>2. cmd' \in [Workers -> Command] /\ \A v \in Workers : Args(cmd[v])'
  <2>1. Done(w) \/ (Goto(w, "clean") /\ c.op # "reload")
    BY <1>1 DEF Select
  <2> QED BY <1>1, <2>1, DoneStep, GotoStep
<1>3. activeIdx' \in Nat
  <2>1. activeIdx' = activeIdx \/ activeIdx' = IndexOf(providers, c.name)
    BY DEF Select
  <2>2. IndexOf(providers, c.name) \in Nat
    <3>1. DOMAIN providers \subseteq Nat /\ providers \in Seq(Provider)
      BY <1>0, NamesListed DEF Memory
    <3> QED BY <3>1, IndexIs
  <2> QED BY <1>0, <2>1, <2>2 DEF Memory
<1>4. adrift' \in BOOLEAN /\ last' \in Chats \cup {None} /\ proxy' = None /\ providers' = providers
  BY <1>0 DEF Select, Memory, Command
<1>5. agent' = Cut
  BY DEF Select
<1>6. agent' \in [Chats -> [up : BOOLEAN, key : Names \cup {None}, route : {"own", "proxy", "cut"}]]
  BY <1>0, <1>5 DEF Cut, Memory
<1>7. Memory'
  BY <1>0, <1>3, <1>4, <1>6 DEF Memory
<1>8. file' = file /\ edits' = edits /\ agree' = agree
  BY DEF Select
<1> QED BY <1>0, <1>2, <1>7, <1>8, Finished

LEMMA CleanType == ASSUME TypeInv, NEW w \in Workers, Clean(w) PROVE TypeInv'
<1>0. cmd[w] \in Command /\ Args(cmd[w]) /\ Memory /\ file \in File /\ agree \in BOOLEAN
  BY CommandOf
<1>1. cmd[w].pc = "clean" /\ cmd[w].op \in {"switch", "clear", "model"}
  BY <1>0 DEF Clean, Args, Command, Ops
<1>2. cmd' \in [Workers -> Command] /\ \A v \in Workers : Args(cmd[v])'
  <2>1. Done(w) \/ (Goto(w, "save") /\ cmd[w].op # "model")
    BY <1>1 DEF Clean
  <2> QED BY <1>1, <2>1, DoneStep, GotoStep
<1>3. Memory'
  BY <1>0 DEF Clean, Memory, NoAgent
<1>4. file' = file /\ edits' = edits /\ agree' = agree
  BY DEF Clean
<1> QED BY <1>0, <1>2, <1>3, <1>4, Finished

LEMMA SavedType ==
  ASSUME NEW f \in File, NEW x \in Command, Args(x), x.pc = "save" PROVE Saved(f, x) \in File
<1>0. f.refs \in Seq(Globals) /\ f.inline \in Seq(Provider)
  BY DEF File
<1>1. CASE x.op = "add"
  <2> DEFINE p == [name |-> x.name, model |-> x.model]
             l == Append(f.inline, p)
  <2>1. p \in Provider
    BY <1>1 DEF Args, Provider
  <2>2. l \in Seq(Provider)
    <3> HIDE DEF p
    <3> QED BY <1>0, <2>1, AppendProperties
  <2>3. Saved(f, x) \in {f, [f EXCEPT !.inline = l]}
    BY <1>1 DEF Saved
  <2> HIDE DEF l
  <2> QED BY <2>2, <2>3 DEF File
<1>2. CASE x.op = "remove"
  <2> DEFINE n == x.name
             r == RemoveFirst(f.refs, n)
             l == WithoutFirst(f.inline, n)
  <2>2. Saved(f, x) = [f EXCEPT !.inline = l, !.refs = r]
    BY <1>2 DEF Saved
  <2> HIDE DEF n
  <2>1. r \in Seq(Globals) /\ l \in Seq(Provider)
    BY <1>0, RemoveFirstType, RemoveNameType
  <2> HIDE DEF r, l
  <2> QED BY <2>1, <2>2 DEF File
<1>3. CASE x.op \notin {"add", "remove"}
  <2>1. Saved(f, x) = [f EXCEPT !.active = x.name] /\ x.name \in Names \cup {None}
    BY <1>3 DEF Saved, Command
  <2> QED BY <2>1 DEF File
<1> QED BY <1>1, <1>2, <1>3

LEMMA SaveType == ASSUME TypeInv, NEW w \in Workers, Save(w) PROVE TypeInv'
<1>0. cmd[w] \in Command /\ Args(cmd[w]) /\ Memory /\ file \in File /\ agree \in BOOLEAN
  BY CommandOf
<1>1. cmd' \in [Workers -> Command] /\ \A v \in Workers : Args(cmd[v])'
  BY DoneStep DEF Save
<1>2. file' \in File
  BY <1>0, SavedType DEF Save
<1>3. Memory' /\ edits' = edits /\ agree' = agree
  BY <1>0 DEF Save, memory, Memory
<1> QED BY <1>0, <1>1, <1>2, <1>3, Finished

LEMMA TypeStep == TypeInv /\ [Next]_vars => TypeInv'
<1> SUFFICES ASSUME TypeInv, [Next]_vars PROVE TypeInv'
  OBVIOUS
<1>1. CASE UNCHANGED vars
  BY <1>1, TypeParts DEF vars, TypeInv, Memory
<1>2. ASSUME NEW c \in Chats, StartSession(c) \/ AgentEnds(c) PROVE TypeInv'
  BY <1>2, ChatType
<1>3. ASSUME NEW w \in Workers, Step(w) PROVE TypeInv'
  BY <1>3, BeginType, ListType, PersistType, SetType, SelectType, CleanType, SaveType DEF Step
<1> QED BY <1>1, <1>2, <1>3, RestartType, EditType DEF Next

(* Every list of providers, index and command has the type its field has   *)
(* in the code, whatever commands, edits and restarts do.                  *)
THEOREM ProvidersTypeCorrect == Spec => []TypeOK
<1>1. TypeInv => TypeOK
  BY DEF TypeInv
<1> QED BY <1>1, InitType, TypeStep, PTL DEF Spec

-----------------------------------------------------------------------------
(* The file names no provider twice                                        *)

FileInv == NoTwice(file.refs) /\ OneName(file.inline)

Added(x) == [name |-> x.name, model |-> x.model]

LEMMA OneNameAppend ==
  ASSUME NEW s \in Seq(Provider), NEW p \in Provider
  PROVE  OneName(Append(s, p)) <=> OneName(s) /\ p.name \notin Listed(s)
<1>1. /\ DOMAIN s = 1 .. Len(s) /\ DOMAIN Append(s, p) = 1 .. Len(s) + 1 /\ Len(s) \in Nat
      /\ Append(s, p)[Len(s) + 1] = p /\ \A i \in 1 .. Len(s) : Append(s, p)[i] = s[i]
  BY AppendProperties, LenProperties
<1>2. ASSUME OneName(Append(s, p)) PROVE OneName(s) /\ p.name \notin Listed(s)
  <2>1. OneName(s)
    BY <1>1, <1>2 DEF OneName
  <2>2. ASSUME NEW i \in DOMAIN s, s[i].name = p.name PROVE FALSE
    BY <1>1, <1>2, <2>2 DEF OneName
  <2> QED BY <2>1, <2>2 DEF Listed
<1>3. ASSUME OneName(s), p.name \notin Listed(s) PROVE OneName(Append(s, p))
  BY <1>1, <1>3 DEF OneName, Listed
<1> QED BY <1>2, <1>3

LEMMA ListedKept ==
  ASSUME NEW s \in Seq(Provider), NEW T PROVE Listed(Kept(s, T)) \subseteq Listed(s)
<1>1. Range(Kept(s, T)) \subseteq Range(s)
  BY KeptRange
<1>2. \A t : Listed(t) = {p.name : p \in Range(t)}
  BY DEF Listed, Range
<1> QED BY <1>1, <1>2

LEMMA KeptOneName ==
  ASSUME NEW s \in Seq(Provider), NEW T, OneName(s) PROVE OneName(Kept(s, T))
<1> DEFINE X == {x \in Seq(Provider) : OneName(x) => OneName(Kept(x, T))}
<1>1. <<>> \in X
  BY KeptEmpty, EmptySeq DEF OneName
<1>2. ASSUME NEW x \in Seq(Provider), NEW e \in Provider, x \in X PROVE Append(x, e) \in X
  <2> DEFINE k == Kept(x, T)
  <2>1. Append(x, e) \in Seq(Provider) /\ k \in Seq(Provider)
    <3>1. k \in Seq(Provider \cap T) /\ Provider \cap T \subseteq Provider
      BY KeptType
    <3> QED BY <3>1, AppendProperties, SeqMonotonic
  <2>2. SUFFICES ASSUME OneName(x), e.name \notin Listed(x) PROVE OneName(Kept(Append(x, e), T))
    BY <2>1, OneNameAppend
  <2>3. e.name \notin Listed(k) /\ OneName(k)
    BY <1>2, <2>2, ListedKept
  <2>4. Kept(Append(x, e), T) \in {k, Append(k, e)}
    BY KeptAppend
  <2> HIDE DEF k
  <2>5. OneName(Append(k, e))
    BY <2>1, <2>3, OneNameAppend
  <2> QED BY <2>3, <2>4, <2>5
<1> HIDE DEF X
<1>3. Seq(Provider) \subseteq X
  BY <1>1, <1>2, SeqInduction
<1> QED BY <1>3 DEF X

LEMMA SavedFile ==
  ASSUME NEW f \in File, NoTwice(f.refs), OneName(f.inline),
         NEW x \in Command, Args(x), x.pc = "save"
  PROVE  NoTwice(Saved(f, x).refs) /\ OneName(Saved(f, x).inline)
<1>0. f.refs \in Seq(Globals) /\ f.inline \in Seq(Provider)
  BY DEF File
<1>1. CASE x.op = "add"
  <2> DEFINE p == Added(x)
  <2>1. p \in Provider /\ p.name = x.name
    BY <1>1 DEF Args, Provider, Added
  <2>2. Saved(f, x) = IF x.name \in Listed(f.inline) THEN f ELSE [f EXCEPT !.inline = Append(f.inline, p)]
    BY <1>1 DEF Saved, Added
  <2> HIDE DEF p
  <2>3. x.name \notin Listed(f.inline) => OneName(Append(f.inline, p))
    BY <1>0, <2>1, OneNameAppend
  <2> QED BY <2>2, <2>3 DEF File
<1>2. CASE x.op = "remove"
  <2> DEFINE n == x.name
             r == RemoveFirst(f.refs, n)
             l == WithoutFirst(f.inline, n)
  <2>1. Saved(f, x) = [f EXCEPT !.inline = l, !.refs = r]
    BY <1>2 DEF Saved
  <2> HIDE DEF n
  <2>2. NoTwice(r)
    <3> DEFINE U == Globals \ {n}
    <3>1. r = Kept(f.refs, U)
      BY <1>0, RemoveFirstKept
    <3> HIDE DEF U, r
    <3> QED BY <1>0, <3>1, KeptNoTwice
  <2>3. OneName(l)
    <3> DEFINE T == [name : Names \ {n}, model : Models]
    <3>1. l = Kept(f.inline, T)
      BY <1>0, RemoveNameKept DEF Without
    <3> HIDE DEF T, l
    <3> QED BY <1>0, <3>1, KeptOneName
  <2> HIDE DEF r, l
  <2> QED BY <2>1, <2>2, <2>3 DEF File
<1>3. CASE x.op \notin {"add", "remove"}
  <2>1. Saved(f, x) = [f EXCEPT !.active = x.name]
    BY <1>3 DEF Saved
  <2> QED BY <2>1 DEF File
<1> QED BY <1>1, <1>2, <1>3

LEMMA FileStep == TypeInv /\ FileInv /\ [Next]_vars => FileInv'
<1> SUFFICES ASSUME TypeInv, FileInv, [Next]_vars PROVE FileInv'
  OBVIOUS
<1>0. file \in File /\ file.inline \in Seq(Provider)
  BY TypeParts DEF TypeInv, File
<1>1. CASE file' = file
  BY <1>1 DEF FileInv
<1>2. CASE EditFile
  <2>1. PICK s \in SetToAllKPermutations(ToSet(file.inline)), a \in Names \cup {None} :
            file' = [file EXCEPT !.inline = s, !.active = a]
    BY <1>2 DEF EditFile
  <2>2. OneName(s)
    BY <1>0, EditedType DEF FileInv
  <2> QED BY <1>0, <2>1, <2>2 DEF FileInv, File
<1>3. ASSUME NEW w \in Workers, ModelPersist(w) PROVE FileInv'
  <2> DEFINE n == cmd[w].name
             m == cmd[w].model
             u == WithModel(file.inline, n, m)
  <2>1. m \in Models
    BY <1>3, CommandOf DEF ModelPersist, At, Args
  <2>2. OneName(u)
    <3>1. DOMAIN u = DOMAIN file.inline /\ \A i \in DOMAIN file.inline : u[i].name = file.inline[i].name
      BY <1>0, <2>1, WithModelIs
    <3> HIDE DEF u
    <3> QED BY <3>1 DEF OneName, FileInv
  <2>3. \/ file' = [file EXCEPT !.inline = u]
        \/ file' = [file EXCEPT !.global[n] = m]
        \/ file' = file
    BY <1>3 DEF ModelPersist
  <2> HIDE DEF u, n, m
  <2> QED BY <1>0, <2>2, <2>3 DEF File, FileInv
<1>4. ASSUME NEW w \in Workers, Save(w) PROVE FileInv'
  <2>1. file' = Saved(file, cmd[w]) /\ cmd[w].pc = "save"
    BY <1>4 DEF Save
  <2> QED BY <1>0, <2>1, CommandOf, SavedFile DEF FileInv
<1>5. CASE UNCHANGED vars
  BY <1>1, <1>5 DEF vars
<1>6. CASE Restart
  BY <1>1, <1>6 DEF Restart
<1>7. ASSUME NEW c \in Chats, StartSession(c) \/ AgentEnds(c) PROVE FileInv'
  BY <1>1, <1>7 DEF StartSession, AgentEnds
<1>8. ASSUME NEW w \in Workers, Step(w) PROVE FileInv'
  <2>1. Begin(w) \/ AddCheck(w) \/ AddList(w) \/ RemoveList(w) => file' = file
    BY DEF Begin, AddCheck, AddList, RemoveList
  <2>2. ModelActive(w) \/ ModelList(w) \/ ReloadList(w) => file' = file
    BY DEF ModelActive, ModelList, ReloadList
  <2>3. Set(w) \/ Select(w) \/ Clean(w) => file' = file
    BY DEF Set, Select, Clean
  <2> QED BY <1>1, <1>3, <1>4, <1>8, <2>1, <2>2, <2>3 DEF Step
<1> QED BY <1>2, <1>5, <1>6, <1>7, <1>8 DEF Next

-----------------------------------------------------------------------------
(* The file against the agent                                              *)

Stored == Resolved(file) = providers
Chosen == ~adrift => ActiveName = file.active

(* Where the file and the agent are while x is the only command at work.   *)
Progress(x) ==
    /\ x.op = "add" =>
          /\ Chosen /\ (x.pc # "save" => Stored)
          /\ x.pc # "check" => x.name \notin Listed(Resolved(file))
          /\ x.pc = "set" => x.list = Append(Resolved(file), Added(x))
          /\ x.pc = "save" => providers = Append(Resolved(file), Added(x))
    /\ x.op = "remove" =>
          /\ Chosen /\ (x.pc # "save" => Stored)
          /\ x.pc = "set" => x.list = Without(Resolved(file), x.name)
          /\ x.pc = "save" => providers = Without(Resolved(file), x.name)
    /\ x.op \in {"switch", "clear"} =>
          /\ Stored
          /\ x.pc = "select" => Chosen
          /\ x.pc # "select" => (~adrift => ActiveName = x.name)
    /\ x.op = "model" =>
          /\ Chosen /\ (x.pc # "set" => Stored)
          /\ x.pc = "persist" => x.list = WithModel(providers, x.name, x.model)
          /\ x.pc = "set" => x.list = Resolved(file)
    /\ x.op = "reload" =>
          /\ x.pc = "set" => x.list = Resolved(file) /\ x.name = file.active
          /\ x.pc = "select" => Stored /\ x.name = file.active

Alone(w) == \A v \in Workers \ {w} : cmd[v].pc = "idle"

(* As long as commands did not overlap and nobody edited the file.         *)
SyncInv ==
    agree =>
        /\ \A w \in Workers : cmd[w].pc # "idle" => Alone(w)
        /\ Idle => Stored /\ Chosen
        /\ \A w \in Workers : Progress(cmd[w])

LEMMA Atwork ==
  ASSUME SyncInv, agree, NEW w \in Workers, cmd[w].pc # "idle"
  PROVE  Alone(w) /\ Progress(cmd[w])
  BY DEF SyncInv

LEMMA SyncTo ==
  ASSUME TypeInv', NEW w \in Workers,
         agree' => /\ Alone(w)'
                   /\ cmd'[w].pc = "idle" => Stored' /\ Chosen'
                   /\ Progress(cmd[w])'
  PROVE  SyncInv'
<1> SUFFICES ASSUME agree' PROVE /\ \A v \in Workers : cmd'[v].pc # "idle" => Alone(v)'
                                 /\ Idle' => Stored' /\ Chosen'
                                 /\ \A v \in Workers : Progress(cmd[v])'
  BY DEF SyncInv
<1>1. \A v \in Workers : cmd'[v].pc # "idle" => v = w
  BY DEF Alone
<1>2. \A v \in Workers : cmd'[v].pc # "idle" => Alone(v)'
  BY <1>1 DEF Alone
<1>3. Idle' => Stored' /\ Chosen'
  BY DEF Idle
<1>4. ASSUME NEW v \in Workers PROVE Progress(cmd[v])'
  <2>1. CASE v = w
    BY <2>1
  <2>2. CASE v # w
    <3>1. cmd'[v].op = "none"
      BY <1>1, <2>2 DEF TypeInv, Args
    <3> QED BY <3>1 DEF Progress
  <2> QED BY <2>1, <2>2
<1> QED BY <1>2, <1>3, <1>4

(* A step of the only command at work. *)
LEMMA SyncStep ==
  ASSUME TypeInv', SyncInv, NEW w \in Workers, cmd[w].pc # "idle", agree' = agree,
         \A v \in Workers \ {w} : cmd'[v] = cmd[v],
         agree => /\ cmd'[w].pc = "idle" => Stored' /\ Chosen'
                  /\ Progress(cmd[w])'
  PROVE  SyncInv'
<1>1. agree' => Alone(w)'
  BY Atwork DEF Alone
<1> QED BY <1>1, SyncTo

LEMMA Unmoved ==
  ASSUME UNCHANGED <<memory, file>>
  PROVE  /\ Stored' <=> Stored
         /\ Chosen' <=> Chosen
         /\ Resolved(file)' = Resolved(file) /\ providers' = providers /\ file' = file
         /\ ActiveName' = ActiveName /\ adrift' = adrift
  BY DEF memory, Stored, Chosen, ActiveName

LEMMA NoProgress == ASSUME NEW w \in Workers, cmd'[w] = NoCmd PROVE Progress(cmd[w])' /\ cmd'[w].pc = "idle"
  BY DEF Progress, NoCmd

LEMMA InitSync == Init => SyncInv /\ (NoTwice(Refs) => FileInv)
<1> SUFFICES ASSUME Init PROVE SyncInv /\ (NoTwice(Refs) => FileInv)
  OBVIOUS
<1>1. Stored /\ Chosen
  <2>1. 0 \notin DOMAIN providers
    <3>1. providers \in Seq(Provider)
      BY InitType, TypeParts DEF TypeInv, Memory
    <3> QED BY <3>1, NamesListed
  <2>2. ActiveName = None /\ file.active = None
    BY <2>1 DEF Init, ActiveName, NameAt
  <2> QED BY <2>2 DEF Init, Stored, Chosen
<1>2. \A w \in Workers : cmd[w] = NoCmd
  BY DEF Init
<1>3. SyncInv
  BY <1>1, <1>2 DEF SyncInv, Progress, NoCmd
<1>4. file.refs = Refs /\ file.inline = <<>>
  BY DEF Init
<1>5. OneName(<<>>)
  BY EmptySeq DEF OneName
<1> QED BY <1>3, <1>4, <1>5 DEF FileInv

LEMMA RestartSync == TypeInv /\ Restart => SyncInv'
<1> SUFFICES ASSUME TypeInv, Restart PROVE SyncInv'
  OBVIOUS
<1> DEFINE l == Resolved(file)
<1>1. file \in File /\ l \in Seq(Provider)
  BY TypeParts, ResolvedIs DEF TypeInv
<1>2. /\ file' = file /\ providers' = l /\ activeIdx' = IndexOf(l, file.active)
      /\ adrift' = (file.active \notin Listed(l) \cup {None}) /\ cmd' = [w \in Workers |-> NoCmd]
  BY DEF Restart, Wire
<1>3. Stored'
  BY <1>2 DEF Stored
<1>4. Chosen'
  <2>1. NameAt(l, IndexOf(l, file.active)) = IF file.active \in Listed(l) THEN file.active ELSE None
    BY <1>1, NameAtIndex
  <2>2. ActiveName' = NameAt(l, IndexOf(l, file.active))
    BY <1>2 DEF ActiveName
  <2> HIDE DEF l
  <2> QED BY <1>2, <2>1, <2>2 DEF Chosen
<1>5. \A w \in Workers : cmd'[w] = NoCmd
  BY <1>2
<1> QED BY <1>3, <1>4, <1>5 DEF SyncInv, Progress, NoCmd

LEMMA BeginSync == ASSUME TypeInv, TypeInv', SyncInv, NEW w \in Workers, Begin(w) PROVE SyncInv'
<1>1. PICK op \in Ops : \E x \in Arguments(op) : cmd' = [cmd EXCEPT ![w] = x]
  BY DEF Begin
<1>2. PICK x \in Arguments(op) : cmd' = [cmd EXCEPT ![w] = x]
  BY <1>1
<1>3. UNCHANGED <<memory, file>> /\ agree' = (agree /\ Idle)
  BY DEF Begin, memory
<1>4. SUFFICES ASSUME agree' PROVE Alone(w)' /\ (cmd'[w].pc # "idle") /\ Progress(cmd[w])'
  BY SyncTo
<1>5. agree /\ Idle /\ Stored /\ Chosen
  BY <1>3, <1>4 DEF SyncInv
<1>6. Stored' /\ Chosen'
  BY <1>3, <1>5, Unmoved
<1>7. Alone(w)'
  BY <1>2, <1>5 DEF Alone, Idle
<1>8. cmd'[w].op = op /\ cmd'[w].pc = (IF op \in {"switch", "clear"} THEN "select"
                                       ELSE IF op = "add" THEN "check" ELSE "list")
  <2>1. cmd \in [Workers -> Command]
    BY CommandOf
  <2>2. cmd'[w] = x
    BY <1>2, <2>1
  <2> QED BY <2>2 DEF Arguments
<1>9. Progress(cmd[w])'
  BY <1>6, <1>8 DEF Progress
<1> QED BY <1>7, <1>8, <1>9

(* The steps that only prepare the list. *)
LEMMA AddSync ==
  ASSUME TypeInv, TypeInv', SyncInv, NEW w \in Workers, AddCheck(w) \/ AddList(w) \/ RemoveList(w)
  PROVE  SyncInv'
<1> DEFINE c == cmd[w]
<1>0. cmd \in [Workers -> Command] /\ c \in Command
  BY CommandOf
<1>1. UNCHANGED <<memory, file>> /\ agree' = agree /\ c.pc # "idle"
  BY DEF AddCheck, AddList, RemoveList, At
<1>2. \A v \in Workers \ {w} : cmd'[v] = cmd[v]
  BY <1>0 DEF AddCheck, AddList, RemoveList, Goto, Done
<1>3. SUFFICES ASSUME agree PROVE (cmd'[w].pc = "idle" => Stored' /\ Chosen') /\ Progress(cmd[w])'
  BY <1>1, <1>2, SyncStep
<1>4. Progress(c)
  BY <1>1, <1>3, Atwork
<1>5. Stored /\ Chosen /\ Stored' /\ Chosen' /\ Resolved(file)' = Resolved(file) /\ Resolved(file) = providers
  <2>1. Stored /\ Chosen
    BY <1>4 DEF Progress, AddCheck, AddList, RemoveList, At
  <2> QED BY <1>1, <2>1, Unmoved DEF Stored
<1>6. CASE cmd'[w] = NoCmd
  BY <1>5, <1>6, NoProgress
<1>7. CASE AddCheck(w) /\ cmd'[w] # NoCmd
  <2>1. c.op = "add" /\ c.name \notin Listed(providers) /\ cmd'[w] = [c EXCEPT !.pc = "list"]
    BY <1>0, <1>7 DEF AddCheck, At, Goto, Done
  <2>2. cmd'[w].op = "add" /\ cmd'[w].pc = "list" /\ cmd'[w].name = c.name
    BY <1>0, <2>1 DEF Command
  <2> QED BY <1>5, <2>1, <2>2 DEF Progress
<1>8. CASE AddList(w)
  <2>1. /\ c.op = "add" /\ c.pc = "list"
        /\ cmd'[w] = [c EXCEPT !.list = Append(providers, Added(c)), !.pc = "set"]
    BY <1>0, <1>8 DEF AddList, At, Added
  <2>2. /\ cmd'[w].op = "add" /\ cmd'[w].pc = "set" /\ cmd'[w].name = c.name /\ cmd'[w].model = c.model
        /\ cmd'[w].list = Append(providers, Added(c))
    BY <1>0, <2>1 DEF Command
  <2>3. c.name \notin Listed(Resolved(file))
    BY <1>4, <2>1 DEF Progress
  <2> QED BY <1>5, <2>2, <2>3 DEF Progress, Added
<1>9. CASE RemoveList(w) /\ cmd'[w] # NoCmd
  <2>1. c.op = "remove" /\ cmd'[w] = [c EXCEPT !.list = Without(providers, c.name), !.pc = "set"]
    BY <1>0, <1>9 DEF RemoveList, At, Done
  <2>2. /\ cmd'[w].op = "remove" /\ cmd'[w].pc = "set" /\ cmd'[w].name = c.name
        /\ cmd'[w].list = Without(providers, c.name)
    BY <1>0, <2>1 DEF Command
  <2> QED BY <1>5, <2>2 DEF Progress
<1> QED BY <1>6, <1>7, <1>8, <1>9

LEMMA ModelSync ==
  ASSUME TypeInv, TypeInv', SyncInv, NEW w \in Workers, ModelActive(w) \/ ModelList(w)
  PROVE  SyncInv'
<1> DEFINE c == cmd[w]
<1>0. cmd \in [Workers -> Command] /\ c \in Command
  BY CommandOf
<1>1. UNCHANGED <<memory, file>> /\ agree' = agree /\ c.op = "model" /\ c.pc = "list"
  BY DEF ModelActive, ModelList, At
<1>2. \A v \in Workers \ {w} : cmd'[v] = cmd[v]
  BY <1>0 DEF ModelActive, ModelList, Goto
<1>3. SUFFICES ASSUME agree PROVE (cmd'[w].pc # "idle") /\ Progress(cmd[w])'
  BY <1>1, <1>2, SyncStep
<1>4. Progress(c)
  BY <1>1, <1>3, Atwork
<1>5. Stored' /\ Chosen' /\ providers' = providers
  BY <1>1, <1>4, Unmoved DEF Progress
<1>6. \/ cmd'[w] = [c EXCEPT !.pc = "clean"]
      \/ cmd'[w] = [c EXCEPT !.name = ActiveName]
      \/ cmd'[w] = [c EXCEPT !.list = WithModel(providers, c.name, c.model), !.pc = "persist"]
  BY <1>0 DEF ModelActive, ModelList, Goto
<1>7. /\ cmd'[w].op = "model" /\ cmd'[w].pc \in {"clean", "list", "persist"}
      /\ cmd'[w].pc = "persist" => cmd'[w].list = WithModel(providers, cmd'[w].name, cmd'[w].model)
  BY <1>0, <1>1, <1>6 DEF Command
<1> QED BY <1>5, <1>7 DEF Progress

LEMMA ReloadSync ==
  ASSUME TypeInv, TypeInv', NEW w \in Workers, ReloadList(w) PROVE SyncInv'
<1> DEFINE c == cmd[w]
<1>0. cmd \in [Workers -> Command] /\ c \in Command
  BY CommandOf
<1>1. /\ file' = file /\ c.op = "reload"
      /\ cmd' = [cmd EXCEPT ![w].list = Resolved(file), ![w].name = file.active, ![w].pc = "set"]
      /\ agree' = \A v \in Workers \ {w} : cmd[v].pc = "idle"
  BY DEF ReloadList, At
<1>2. cmd'[w].op = "reload" /\ cmd'[w].pc = "set" /\ cmd'[w].list = Resolved(file) /\ cmd'[w].name = file.active
  BY <1>0, <1>1 DEF Command
<1>3. agree' => Alone(w)'
  BY <1>0, <1>1 DEF Alone
<1>4. Progress(cmd[w])'
  BY <1>1, <1>2 DEF Progress
<1> QED BY <1>2, <1>3, <1>4, SyncTo

LEMMA PersistSync ==
  ASSUME TypeInv, TypeInv', FileInv, SyncInv, NEW w \in Workers, ModelPersist(w) PROVE SyncInv'
<1> DEFINE c == cmd[w]
           n == c.name
           m == c.model
<1>0. cmd \in [Workers -> Command] /\ c \in Command /\ file \in File /\ Args(c)
  BY CommandOf
<1>1. /\ UNCHANGED memory /\ agree' = agree /\ c.op = "model" /\ c.pc = "persist" /\ m \in Models
      /\ cmd' = [cmd EXCEPT ![w].pc = "set"] \/ (cmd' = [cmd EXCEPT ![w] = NoCmd] /\ file' = file)
  BY <1>0 DEF ModelPersist, At, Goto, Done, Args
<1>2. \A v \in Workers \ {w} : cmd'[v] = cmd[v]
  BY <1>0, <1>1
<1>3. SUFFICES ASSUME agree PROVE (cmd'[w].pc = "idle" => Stored' /\ Chosen') /\ Progress(cmd[w])'
  BY <1>1, <1>2, SyncStep
<1>4. Chosen /\ Stored /\ c.list = WithModel(providers, n, m)
  BY <1>1, <1>3, Atwork DEF Progress
<1>5. CASE cmd' = [cmd EXCEPT ![w] = NoCmd] /\ file' = file
  <2>1. cmd'[w] = NoCmd
    BY <1>0, <1>5
  <2>2. Stored' /\ Chosen'
    BY <1>1, <1>4, <1>5, Unmoved
  <2> QED BY <2>1, <2>2, NoProgress
<1>6. CASE cmd' = [cmd EXCEPT ![w].pc = "set"] /\ (n \in Listed(file.inline) \/ n \in Range(file.refs))
  <2>1. cmd'[w].op = "model" /\ cmd'[w].pc = "set" /\ cmd'[w].list = c.list
    BY <1>0, <1>1, <1>6 DEF Command
  <2>2. Resolved(file') = WithModel(Resolved(file), n, m) /\ file'.active = file.active
    <3>1. CASE n \in Listed(file.inline)
      <4>1. file' = [file EXCEPT !.inline = WithModel(@, n, m)]
        BY <3>1, <1>6 DEF ModelPersist
      <4> QED BY <1>0, <1>1, <3>1, <4>1, InlineModelResolved DEF File
    <3>2. CASE n \notin Listed(file.inline) /\ n \in Range(file.refs)
      <4>1. file' = [file EXCEPT !.global[n] = m]
        BY <3>2, <1>6 DEF ModelPersist
      <4>2. Resolved([file EXCEPT !.global[n] = m]) = WithModel(Resolved(file), n, m)
        BY <1>0, <1>1, <3>2, GlobalModelResolved DEF FileInv
      <4> QED BY <1>0, <4>1, <4>2 DEF File
    <3> QED BY <1>6, <3>1, <3>2
  <2>3. cmd'[w].list = Resolved(file)'
    BY <1>4, <2>1, <2>2 DEF Stored
  <2>4. Chosen'
    BY <1>1, <1>4, <2>2 DEF Chosen, ActiveName, memory
  <2> QED BY <2>1, <2>3, <2>4 DEF Progress
<1>7. (cmd' = [cmd EXCEPT ![w].pc = "set"] /\ (n \in Listed(file.inline) \/ n \in Range(file.refs)))
      \/ (cmd' = [cmd EXCEPT ![w] = NoCmd] /\ file' = file)
  BY DEF ModelPersist, Goto, Done
<1> QED BY <1>5, <1>6, <1>7

LEMMA SetSync ==
  ASSUME TypeInv, TypeInv', SyncInv, NEW w \in Workers, Set(w) PROVE SyncInv'
<1> DEFINE c == cmd[w]
           unnamed == c.op = "reload" /\ c.name = None
<1>0. cmd \in [Workers -> Command] /\ c \in Command /\ Args(c)
  BY CommandOf
<1>1. /\ file' = file /\ agree' = agree /\ c.pc = "set" /\ providers' = c.list /\ activeIdx' = activeIdx
      /\ adrift' = (adrift \/ NameAt(c.list, activeIdx) # ActiveName
                           \/ (unnamed /\ NameAt(c.list, activeIdx) # None))
      /\ cmd' = [cmd EXCEPT ![w] = IF unnamed THEN NoCmd
                  ELSE [c EXCEPT !.list = <<>>, !.pc = IF c.op \in {"model", "reload"} THEN "select" ELSE "save"]]
  BY DEF Set
<1>2. \A v \in Workers \ {w} : cmd'[v] = cmd[v]
  BY <1>0, <1>1
<1>3. SUFFICES ASSUME agree PROVE (cmd'[w].pc = "idle" => Stored' /\ Chosen') /\ Progress(cmd[w])'
  BY <1>1, <1>2, SyncStep
<1>4. Progress(c)
  BY <1>1, <1>3, Atwork
<1>5. ActiveName' = NameAt(c.list, activeIdx) /\ Resolved(file)' = Resolved(file)
  BY <1>1 DEF ActiveName
<1>6. Chosen => Chosen'
  BY <1>1, <1>5 DEF Chosen
<1>7. CASE unnamed
  <2>1. cmd'[w] = NoCmd
    BY <1>0, <1>1, <1>7
  <2>2. c.list = Resolved(file) /\ file.active = None
    BY <1>1, <1>4, <1>7 DEF Progress
  <2>3. Stored' /\ Chosen'
    BY <1>1, <1>5, <1>7, <2>2 DEF Stored, Chosen
  <2> QED BY <2>1, <2>3, NoProgress
<1>8. CASE ~unnamed
  <2>1. cmd'[w] = [c EXCEPT !.list = <<>>, !.pc = IF c.op \in {"model", "reload"} THEN "select" ELSE "save"]
    BY <1>0, <1>1, <1>8
  <2>2. /\ cmd'[w].op = c.op /\ cmd'[w].name = c.name /\ cmd'[w].model = c.model
        /\ cmd'[w].pc = IF c.op \in {"model", "reload"} THEN "select" ELSE "save"
    BY <1>0, <2>1 DEF Command
  <2>3. c.op \in {"add", "remove", "model", "reload"}
    BY <1>0, <1>1 DEF Args, Command, Ops
  <2>4. CASE c.op = "add"
    <3>1. /\ Chosen /\ c.name \notin Listed(Resolved(file)) /\ c.list = Append(Resolved(file), Added(c))
      BY <1>1, <1>4, <2>4 DEF Progress
    <3>2. Chosen' /\ providers' = Append(Resolved(file), Added(c))
      BY <1>1, <1>6, <3>1
    <3> QED BY <1>5, <2>2, <2>4, <3>1, <3>2 DEF Progress, Added
  <2>5. CASE c.op = "remove"
    <3>1. /\ Chosen' /\ providers' = Without(Resolved(file), c.name)
      BY <1>1, <1>4, <1>6, <2>5 DEF Progress
    <3> QED BY <1>5, <2>2, <2>5, <3>1 DEF Progress
  <2>6. CASE c.op = "model"
    <3>1. /\ Chosen' /\ providers' = Resolved(file)
      BY <1>1, <1>4, <1>6, <2>6 DEF Progress
    <3> QED BY <1>5, <2>2, <2>6, <3>1 DEF Progress, Stored
  <2>7. CASE c.op = "reload"
    <3>1. /\ c.name = file'.active /\ providers' = Resolved(file)
      BY <1>1, <1>4, <2>7 DEF Progress
    <3> QED BY <1>5, <2>2, <2>7, <3>1 DEF Progress, Stored
  <2> QED BY <2>3, <2>4, <2>5, <2>6, <2>7
<1> QED BY <1>7, <1>8

LEMMA SelectSync ==
  ASSUME TypeInv, TypeInv', SyncInv, NEW w \in Workers, Select(w) PROVE SyncInv'
<1> DEFINE c == cmd[w]
           n == c.name
           found == n \in Listed(providers) \cup {None}
<1>0. cmd \in [Workers -> Command] /\ c \in Command /\ Args(c) /\ providers \in Seq(Provider)
  BY CommandOf DEF Memory
<1>1. /\ providers' = providers /\ file' = file /\ agree' = agree /\ c.pc = "select"
      /\ \/ /\ found /\ activeIdx' = IndexOf(providers, n)
            /\ adrift' = (c.op = "model" /\ (adrift \/ n # ActiveName))
            /\ IF c.op = "reload" THEN Done(w) ELSE Goto(w, "clean")
         \/ /\ ~found /\ activeIdx' = activeIdx
            /\ adrift' = (adrift \/ c.op = "reload")
            /\ IF c.op = "model" THEN Goto(w, "clean") ELSE Done(w)
  BY DEF Select
<1>2. \A v \in Workers \ {w} : cmd'[v] = cmd[v]
  BY <1>0, <1>1 DEF Goto, Done
<1>3. SUFFICES ASSUME agree PROVE (cmd'[w].pc = "idle" => Stored' /\ Chosen') /\ Progress(cmd[w])'
  BY <1>1, <1>2, SyncStep
<1>4. Progress(c)
  BY <1>1, <1>3, Atwork
<1>5. c.op \in {"switch", "clear", "model", "reload"}
  BY <1>0, <1>1 DEF Args, Command, Ops
<1>6. Stored'
  <2>1. Stored
    BY <1>1, <1>4, <1>5 DEF Progress
  <2> QED BY <1>1, <2>1 DEF Stored
<1>7. found => (activeIdx' = IndexOf(providers, n) => ActiveName' = n)
  BY <1>0, <1>1, NameAtIndex DEF ActiveName
<1>8. ~found => ActiveName' = ActiveName
  BY <1>1 DEF ActiveName
<1>9. Goto(w, "clean") => cmd'[w].op = c.op /\ cmd'[w].name = n /\ cmd'[w].pc = "clean"
  BY <1>0 DEF Goto, Command
<1>10. Done(w) => cmd'[w] = NoCmd
  BY <1>0 DEF Done
<1>11. CASE c.op \in {"switch", "clear"}
  <2>1. Chosen
    BY <1>1, <1>4, <1>11 DEF Progress
  <2>2. CASE found
    BY <1>1, <1>6, <1>7, <1>9, <1>11, <2>2 DEF Progress
  <2>3. CASE ~found
    <3>1. Chosen' /\ cmd'[w] = NoCmd
      BY <1>1, <1>8, <1>10, <1>11, <2>1, <2>3 DEF Chosen
    <3> QED BY <1>6, <3>1, NoProgress
  <2> QED BY <2>2, <2>3
<1>12. CASE c.op = "model"
  <2>1. Chosen
    BY <1>4, <1>12 DEF Progress
  <2>2. Chosen' /\ Goto(w, "clean")
    BY <1>1, <1>7, <1>8, <1>12, <2>1 DEF Chosen
  <2> QED BY <1>6, <1>9, <1>12, <2>2 DEF Progress
<1>13. CASE c.op = "reload"
  <2>1. n = file.active
    BY <1>1, <1>4, <1>13 DEF Progress
  <2>2. Chosen' /\ cmd'[w] = NoCmd
    BY <1>1, <1>7, <1>10, <1>13, <2>1 DEF Chosen
  <2> QED BY <1>6, <2>2, NoProgress
<1> QED BY <1>5, <1>11, <1>12, <1>13

LEMMA CleanSync ==
  ASSUME TypeInv, TypeInv', SyncInv, NEW w \in Workers, Clean(w) PROVE SyncInv'
<1> DEFINE c == cmd[w]
<1>0. cmd \in [Workers -> Command] /\ c \in Command /\ Args(c)
  BY CommandOf
<1>1. /\ providers' = providers /\ activeIdx' = activeIdx /\ adrift' = adrift
      /\ file' = file /\ agree' = agree /\ c.pc = "clean"
      /\ IF c.op = "model" THEN Done(w) ELSE Goto(w, "save")
  BY DEF Clean
<1>2. \A v \in Workers \ {w} : cmd'[v] = cmd[v]
  BY <1>0, <1>1 DEF Goto, Done
<1>3. SUFFICES ASSUME agree PROVE (cmd'[w].pc = "idle" => Stored' /\ Chosen') /\ Progress(cmd[w])'
  BY <1>1, <1>2, SyncStep
<1>4. Progress(c) /\ c.op \in {"switch", "clear", "model"}
  BY <1>0, <1>1, <1>3, Atwork DEF Args, Command, Ops
<1>5. ActiveName' = ActiveName /\ Resolved(file)' = Resolved(file)
  BY <1>1 DEF ActiveName
<1>6. Stored'
  BY <1>1, <1>4, <1>5 DEF Progress, Stored
<1>7. CASE c.op = "model"
  <2>1. Chosen' /\ cmd'[w] = NoCmd
    BY <1>0, <1>1, <1>4, <1>5, <1>7 DEF Progress, Chosen, Done
  <2> QED BY <1>6, <2>1, NoProgress
<1>8. CASE c.op \in {"switch", "clear"}
  <2>1. cmd'[w].op = c.op /\ cmd'[w].name = c.name /\ cmd'[w].pc = "save"
    BY <1>0, <1>1, <1>8 DEF Goto, Command
  <2>2. ~adrift' => ActiveName' = c.name
    BY <1>1, <1>4, <1>5, <1>8 DEF Progress
  <2> QED BY <1>6, <1>8, <2>1, <2>2 DEF Progress
<1> QED BY <1>4, <1>7, <1>8

LEMMA SaveSync ==
  ASSUME TypeInv, TypeInv', FileInv, SyncInv, NEW w \in Workers, Save(w) PROVE SyncInv'
<1> DEFINE c == cmd[w]
<1>0. cmd \in [Workers -> Command] /\ c \in Command /\ Args(c) /\ file \in File
  BY CommandOf
<1>1. /\ UNCHANGED memory /\ agree' = agree /\ c.pc = "save"
      /\ file' = Saved(file, c) /\ Done(w)
  BY DEF Save
<1>2. cmd'[w] = NoCmd /\ \A v \in Workers \ {w} : cmd'[v] = cmd[v]
  BY <1>0, <1>1 DEF Done
<1>3. SUFFICES ASSUME agree PROVE Stored' /\ Chosen'
  BY <1>1, <1>2, SyncStep, NoProgress
<1>4. Progress(c) /\ c.op \in {"add", "remove", "switch", "clear"}
  BY <1>0, <1>1, <1>3, Atwork DEF Args, Command, Ops
<1>5. ActiveName' = ActiveName /\ providers' = providers /\ adrift' = adrift
  BY <1>1 DEF ActiveName, memory
<1>6. CASE c.op = "add"
  <2> DEFINE p == Added(c)
  <2>1. p \in Provider /\ p.name = c.name
    BY <1>0, <1>6 DEF Args, Provider, Added
  <2>2. /\ Chosen /\ c.name \notin Listed(Resolved(file)) /\ providers = Append(Resolved(file), p)
    BY <1>1, <1>4, <1>6 DEF Progress
  <2>3. c.name \notin Listed(file.inline)
    BY <1>0, <2>2, ResolvedIs
  <2>4. file' = [file EXCEPT !.inline = Append(@, p)]
    BY <1>1, <1>6, <2>3 DEF Saved, Added
  <2> HIDE DEF p
  <2>5. Resolved([file EXCEPT !.inline = Append(@, p)]) = Append(Resolved(file), p)
    BY <1>0, <2>1, <2>2, AddResolved
  <2>6. Stored'
    BY <1>5, <2>2, <2>4, <2>5 DEF Stored
  <2>7. file'.active = file.active
    BY <1>0, <2>4 DEF File
  <2> QED BY <1>5, <2>2, <2>6, <2>7 DEF Chosen
<1>7. CASE c.op = "remove"
  <2>1. file' = [file EXCEPT !.inline = WithoutFirst(@, c.name), !.refs = RemoveFirst(@, c.name)]
    BY <1>1, <1>7 DEF Saved
  <2>2. /\ Chosen /\ providers = Without(Resolved(file), c.name)
    BY <1>1, <1>4, <1>7 DEF Progress
  <2>3. Resolved(file') = Without(Resolved(file), c.name)
    BY <1>0, <2>1, RemoveResolved DEF FileInv
  <2>4. Stored'
    BY <1>5, <2>2, <2>3 DEF Stored
  <2>5. file'.active = file.active
    BY <1>0, <2>1 DEF File
  <2> QED BY <1>5, <2>2, <2>4, <2>5 DEF Chosen
<1>8. CASE c.op \in {"switch", "clear"}
  <2>1. file' = [file EXCEPT !.active = c.name]
    BY <1>1, <1>8 DEF Saved
  <2>2. file'.active = c.name /\ file'.refs = file.refs /\ file'.inline = file.inline /\ file'.global = file.global
    BY <1>0, <2>1 DEF File
  <2>3. Resolved(file') = Resolved(file)
    BY <2>2 DEF Resolved
  <2>4. Stored /\ (~adrift => ActiveName = c.name)
    BY <1>1, <1>4, <1>8 DEF Progress
  <2> QED BY <1>5, <2>2, <2>3, <2>4 DEF Stored, Chosen
<1> QED BY <1>4, <1>6, <1>7, <1>8

LEMMA SyncStays == TypeInv /\ TypeInv' /\ FileInv /\ SyncInv /\ [Next]_vars => SyncInv'
<1> SUFFICES ASSUME TypeInv, TypeInv', FileInv, SyncInv, [Next]_vars PROVE SyncInv'
  OBVIOUS
<1>1. ASSUME UNCHANGED <<providers, activeIdx, file, cmd, adrift, agree>> PROVE SyncInv'
  <2>1. /\ Stored' <=> Stored
        /\ Chosen' <=> Chosen
        /\ Idle' <=> Idle
    BY <1>1 DEF Stored, Chosen, ActiveName, Idle
  <2>2. ASSUME NEW w \in Workers PROVE (Progress(cmd[w])' <=> Progress(cmd[w])) /\ (Alone(w)' <=> Alone(w))
    BY <1>1 DEF Progress, Stored, Chosen, ActiveName, Alone
  <2> QED BY <1>1, <2>1, <2>2 DEF SyncInv
<1>2. CASE UNCHANGED vars
  BY <1>1, <1>2 DEF vars
<1>3. CASE Restart
  BY <1>3, RestartSync
<1>4. CASE EditFile
  BY <1>4 DEF EditFile, SyncInv
<1>5. ASSUME NEW c \in Chats, StartSession(c) \/ AgentEnds(c) PROVE SyncInv'
  BY <1>1, <1>5 DEF StartSession, AgentEnds
<1>6. ASSUME NEW w \in Workers, Step(w) PROVE SyncInv'
  BY <1>6, BeginSync, AddSync, ModelSync, ReloadSync, PersistSync, SetSync, SelectSync, CleanSync, SaveSync
     DEF Step
<1> QED BY <1>2, <1>3, <1>4, <1>5, <1>6 DEF Next

LEMMA SyncRestored == TypeInv /\ SyncInv => SettingsRestored
<1> SUFFICES ASSUME TypeInv, SyncInv, Idle, agree
             PROVE  /\ Resolved(file) = providers
                    /\ ~adrift => NameAt(providers, IndexOf(providers, file.active)) = ActiveName
  BY DEF SettingsRestored
<1>1. Stored /\ Chosen
  BY DEF SyncInv
<1>2. providers \in Seq(Provider)
  BY TypeParts DEF TypeInv, Memory
<1>3. ActiveName \in Listed(providers) \cup {None}
  BY DEF ActiveName, NameAt, Listed
<1>4. NameAt(providers, IndexOf(providers, ActiveName)) = ActiveName
  BY <1>2, <1>3, NameAtIndex
<1> QED BY <1>1, <1>4 DEF Stored, Chosen

(* The file restores what the commands have set, for any providers, chats  *)
(* and commands, if the project refers to no provider twice: from two such *)
(* references /provider remove takes away only the first.                  *)
THEOREM SettingsCorrect ==
  ASSUME NoTwice(Refs) PROVE Spec => []SettingsRestored
<1>1. Init => TypeInv /\ FileInv /\ SyncInv
  BY InitType, InitSync
<1>2. TypeInv /\ FileInv /\ SyncInv /\ [Next]_vars => (TypeInv /\ FileInv /\ SyncInv)'
  BY TypeStep, FileStep, SyncStays
<1>3. TypeInv /\ SyncInv => SettingsRestored
  BY SyncRestored
<1> QED BY <1>1, <1>2, <1>3, PTL DEF Spec

=============================================================================
