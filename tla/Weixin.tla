------------------------------- MODULE Weixin -------------------------------
(* The WeChat platform, platform/weixin/weixin.go: the loop that polls the *)
(* gateway and hands its messages to the engine, the two files it keeps    *)
(* (poll cursor and context tokens), and the replies it sends in chunks.   *)
(*                                                                         *)
(* The gateway is external: it has a log of messages in which one may be   *)
(* repeated, gives what follows a cursor, and starts over for an empty one.*)
(* The process may end at any moment and start again; a write is in place, *)
(* so a crash in its middle leaves a file from which nothing is loaded.    *)
(*                                                                         *)
(* One peer.  Left out: media, typing indicators, the text of a message, a *)
(* write that fails, and a response with messages but without a cursor.    *)
EXTENDS Integers, Sequences, SequencesExt

CONSTANTS
    Msgs,           \* messages of the peer, told apart as the dedup key does: those of
                    \* equal IDs, sequence, create time and client ID are one
    Undated,        \* those without a create time: no age check
    Ignored,        \* those of bots, of senders not allowed, without content
    Replies,        \* replies in progress at once, a bound
    Chunks,         \* chunks of a reply
    MaxRetries,     \* weixinSendMaxRetries
    MaxLog,         \* length of the gateway's log, a bound
    Torn

ASSUME WeixinAssumption ==
    /\ Ignored \subseteq Msgs /\ Undated \subseteq Msgs
    /\ {Chunks, MaxRetries, MaxLog} \subseteq Nat \ {0}
    /\ Torn \notin 0..MaxLog

VARIABLES
    log,            \* the gateway's messages
    pc,             \* pollLoop
    cursor, file,   \* syncBuf, and get_updates.buf
    next,           \* the cursor of the response
    batch,          \* the messages of the response still to dispatch
    seen,           \* dedup
    token, saved,   \* the peer's context token, and context_tokens.json
    old,            \* messages dated before StartTime (with its grace)
    handled,        \* how often the engine got a message (2 stands for more)
    mine,           \* observation: posted since this process runs
    lapsed,         \* observation: see HandledOnce
    rep,            \* sendChunks: where each reply is
    got             \* the chunks of each reply that the peer has

inbound == <<log, pc, cursor, file, next, batch, seen, token, saved, old, handled, mine, lapsed>>
vars == <<inbound, rep, got>>

Positions == 0..MaxLog
NoReply == [pc |-> "idle", chunk |-> 1, tries |-> 0]

TypeOK ==
    /\ log \in Seq(Msgs) /\ Len(log) <= MaxLog
    /\ pc \in {"poll", "paused", "save", "write", "dispatch", "accept"}
    /\ cursor \in Positions /\ next \in Positions /\ token \in Positions
    /\ file \in Positions \cup {Torn} /\ saved \in Positions \cup {Torn}
    /\ batch \in Seq(1..MaxLog)
    /\ seen \subseteq Msgs /\ old \subseteq Msgs /\ mine \subseteq Msgs /\ lapsed \subseteq Msgs
    /\ handled \in [Msgs -> 0..2]
    /\ rep \in [Replies -> [pc : {"idle", "send", "wait"}, chunk : 1..Chunks,
                            tries : 0..(MaxRetries - 1)]]
    /\ got \in [Replies -> Seq(1..Chunks)]

Init ==
    /\ log = <<>> /\ pc = "poll"
    /\ cursor = 0 /\ file = 0 /\ next = 0 /\ batch = <<>>
    /\ seen = {} /\ token = 0 /\ saved = 0
    /\ old = {} /\ handled = [m \in Msgs |-> 0]
    /\ mine = {} /\ lapsed = {}
    /\ rep = [r \in Replies |-> NoReply] /\ got = [r \in Replies |-> <<>>]

-----------------------------------------------------------------------------
(* The gateway                                                             *)

Post(m) ==
    /\ Len(log) < MaxLog /\ m \notin Range(log)
    /\ log' = Append(log, m) /\ mine' = mine \cup {m}
    /\ UNCHANGED <<pc, cursor, file, next, batch, seen, token, saved, old, handled, lapsed, rep, got>>

\* the gateway gives a message a second time
Repeat(m) ==
    /\ Len(log) < MaxLog /\ m \in Range(log)
    /\ log' = Append(log, m)
    /\ UNCHANGED <<pc, cursor, file, next, batch, seen, token, saved, old, handled, mine, lapsed, rep, got>>

-----------------------------------------------------------------------------
(* pollLoop                                                                *)

\* getUpdates: some of what follows the cursor; a timeout gives the cursor back
Poll ==
    /\ pc = "poll"
    /\ \E k \in cursor..Len(log) :
        /\ k > 0
        /\ next' = k /\ batch' = [i \in 1..(k - cursor) |-> cursor + i]
    /\ pc' = "save"
    /\ UNCHANGED <<log, cursor, file, seen, token, saved, old, handled, mine, lapsed, rep, got>>

ExpiredSaved ==
    /\ pc = "poll"
    /\ cursor' = Len(log) /\ file' = Len(log) /\ pc' = "paused"
    /\ UNCHANGED <<log, next, batch, seen, token, saved, old, handled, mine, lapsed, rep, got>>

\* sessionExpiredErrcode: nothing of the response is used
Expired ==
    /\ pc = "poll"
    /\ pc' = "paused"
    /\ UNCHANGED <<log, cursor, file, next, batch, seen, token, saved, old, handled, mine, lapsed, rep, got>>

Unpause ==
    /\ pc = "paused"
    /\ pc' = "poll"
    /\ UNCHANGED <<log, cursor, file, next, batch, seen, token, saved, old, handled, mine, lapsed, rep, got>>

\* persistSyncBuf, before anything of the batch is dispatched
SaveCursor ==
    /\ pc = "save"
    /\ cursor' = next /\ file' = Torn /\ pc' = "write"
    /\ UNCHANGED <<log, next, batch, seen, token, saved, old, handled, mine, lapsed, rep, got>>

WriteCursorLate ==
    /\ pc = "write"
    /\ file' = IF batch = <<>> THEN cursor ELSE Head(batch) - 1
    /\ pc' = "dispatch"
    /\ UNCHANGED <<log, cursor, next, batch, seen, token, saved, old, handled, mine, lapsed, rep, got>>

WriteCursor ==
    /\ pc = "write"
    /\ file' = cursor /\ pc' = "dispatch"
    /\ UNCHANGED <<log, cursor, next, batch, seen, token, saved, old, handled, mine, lapsed, rep, got>>

BatchDone ==
    /\ pc = "dispatch" /\ batch = <<>>
    /\ pc' = "poll"
    /\ UNCHANGED <<log, cursor, file, next, batch, seen, token, saved, old, handled, mine, lapsed, rep, got>>

Current == log[Head(batch)]

\* dispatchInbound: the early returns
Skip ==
    /\ pc = "dispatch" /\ batch # <<>>
    /\ Current \in Ignored \cup old \cup seen
    /\ batch' = Tail(batch)
    /\ UNCHANGED <<log, pc, cursor, file, next, seen, token, saved, old, handled, mine, lapsed, rep, got>>

AcceptUnseen ==
    /\ pc = "dispatch" /\ batch # <<>>
    /\ Current \notin Ignored \cup old
    /\ seen' = seen \cup {Current}
    /\ token' = Head(batch) /\ saved' = Torn /\ pc' = "accept"
    /\ UNCHANGED <<log, cursor, file, next, batch, old, handled, mine, lapsed, rep, got>>

\* the dedup entry, then setContextToken
Accept ==
    /\ pc = "dispatch" /\ batch # <<>>
    /\ Current \notin Ignored \cup old \cup seen
    /\ seen' = seen \cup {Current}
    /\ token' = Head(batch) /\ saved' = Torn /\ pc' = "accept"
    /\ UNCHANGED <<log, cursor, file, next, batch, old, handled, mine, lapsed, rep, got>>

\* persistTokens is through; the handler gets the message
Handle ==
    /\ pc = "accept"
    /\ saved' = token
    /\ handled' = [handled EXCEPT ![Current] = IF @ < 2 THEN @ + 1 ELSE 2]
    /\ batch' = Tail(batch) /\ pc' = "dispatch"
    /\ UNCHANGED <<log, cursor, file, next, seen, token, old, mine, lapsed, rep, got>>

\* a dedup entry is five minutes old
Forget(m) ==
    /\ pc = "dispatch" /\ m \in seen
    /\ seen' = seen \ {m} /\ lapsed' = lapsed \cup {m}
    /\ UNCHANGED <<log, pc, cursor, file, next, batch, token, saved, old, handled, mine, rep, got>>

-----------------------------------------------------------------------------
(* sendChunks, sendChunkWithRetry                                          *)

\* Reply to a message, or ReconstructReplyCtx and Send: both need a token
StartReply(r) ==
    /\ rep[r].pc = "idle" /\ token # 0
    /\ rep' = [rep EXCEPT ![r] = [NoReply EXCEPT !.pc = "send"]]
    /\ got' = [got EXCEPT ![r] = <<>>]
    /\ UNCHANGED inbound

NextChunk(c) == [c EXCEPT !.chunk = c.chunk + 1, !.tries = 0]
Again(c) == [c EXCEPT !.pc = "wait", !.tries = c.tries + 1]
Got(r) == [got EXCEPT ![r] = Append(@, rep[r].chunk)]

SendText(r) ==
    /\ rep[r].pc = "send"
    /\ got' = Got(r)
    /\ rep' = [rep EXCEPT ![r] = IF @.chunk < Chunks THEN NextChunk(@) ELSE NoReply]
    /\ UNCHANGED inbound

DeclinedUncounted(r) ==
    /\ rep[r].pc = "send"
    /\ rep' = [rep EXCEPT ![r].pc = "wait"]
    /\ UNCHANGED <<inbound, got>>

\* ret=-2: the gateway did not take it
Declined(r) ==
    /\ rep[r].pc = "send"
    /\ rep' = [rep EXCEPT ![r] = IF @.tries + 1 < MaxRetries THEN Again(@) ELSE NoReply]
    /\ UNCHANGED <<inbound, got>>

\* weixinSendRetryDelay, and the newest token
Retry(r) ==
    /\ rep[r].pc = "wait"
    /\ rep' = [rep EXCEPT ![r].pc = "send"]
    /\ UNCHANGED <<inbound, got>>

SendBrokenRetried(r) ==
    /\ rep[r].pc = "send"
    /\ got' \in {got, Got(r)}
    /\ rep' = [rep EXCEPT ![r] = IF @.tries + 1 < MaxRetries THEN Again(@) ELSE NoReply]
    /\ UNCHANGED inbound

\* any other error: the gateway may have taken it all the same
SendBroken(r) ==
    /\ rep[r].pc = "send"
    /\ got' \in {got, Got(r)}
    /\ rep' = [rep EXCEPT ![r] = NoReply]
    /\ UNCHANGED inbound

ReplyStep(r) == SendText(r) \/ Declined(r) \/ Retry(r) \/ SendBroken(r)

-----------------------------------------------------------------------------
(* A restart                                                               *)

Loaded(f) == IF f = Torn THEN 0 ELSE f

\* New and Start: what was posted up to some moment is before StartTime, if it
\* says so, and what was posted in the two seconds of grace after it is not
Restart ==
    /\ \E k \in 0..Len(log) :
        LET before == {log[i] : i \in 1..k} \ Undated
        IN  old' = before /\ lapsed' = lapsed \cup (Range(log) \ before)
    /\ pc' = "poll"
    /\ cursor' = Loaded(file) /\ token' = Loaded(saved)
    /\ next' = 0 /\ batch' = <<>> /\ seen' = {} /\ mine' = {}
    /\ rep' = [r \in Replies |-> NoReply] /\ got' = [r \in Replies |-> <<>>]
    /\ UNCHANGED <<log, file, saved, handled>>

Next ==
    \/ \E m \in Msgs : Post(m) \/ Repeat(m) \/ Forget(m)
    \/ Poll \/ Expired \/ Unpause \/ SaveCursor \/ WriteCursor
    \/ BatchDone \/ Skip \/ Accept \/ Handle
    \/ \E r \in Replies : StartReply(r) \/ ReplyStep(r)
    \/ Restart

Spec == Init /\ [][Next]_vars

\* the loop runs, the gateway answers sooner or later with what it has, and a
\* request of a reply ends
FairSpec ==
    /\ Spec
    /\ WF_vars(Unpause \/ SaveCursor \/ WriteCursor \/ BatchDone \/ Skip \/ Accept \/ Handle)
    /\ SF_vars(Poll /\ batch' # <<>>)
    /\ \A r \in Replies : WF_vars(ReplyStep(r))

-----------------------------------------------------------------------------
(* Properties                                                              *)

(* A message reaches the engine once, however often the gateway gives it   *)
(* and over a restart that finds an older cursor, or none: unless its      *)
(* dedup entry was five minutes old by then, or at the restart it was less *)
(* than two seconds old (core/dedup.go:49) or without a create time.       *)
HandledOnce == \A m \in Msgs : handled[m] > 1 => m \in lapsed

(* Between two batches the files are in step: a restart takes the cursor   *)
(* up where it was, and cron jobs can still write to the peer with the     *)
(* token of the last message (platform/weixin/weixin.go:716).  A crash in  *)
(* the middle of a write loses them, and the next write mends the file.    *)
FilesFollow ==
    pc \in {"poll", "paused"} => Loaded(file) = cursor /\ Loaded(saved) = token

(* What the peer has of a reply is its first chunks, in order, each once:  *)
(* no retry doubles a chunk that had arrived, and none follows a gap.      *)
ChunksInOrder == \A r \in Replies : \A i \in DOMAIN got[r] : got[r][i] = i

(* A message posted while the process runs is handled while it runs: an    *)
(* expired session, a failed poll or a repetition does not skip it.        *)
MessagesHandled ==
    \A m \in Msgs \ Ignored : (m \in mine) ~> (handled[m] > 0 \/ m \notin mine)

(* A reply ends, whatever the gateway answers: retries are bounded.        *)
RepliesEnd == \A r \in Replies : (rep[r].pc # "idle") ~> (rep[r].pc = "idle")

=============================================================================
