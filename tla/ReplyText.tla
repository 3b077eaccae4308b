----------------------------- MODULE ReplyText -----------------------------
(***************************************************************************)
(* How what the agent says in a turn becomes messages of the chat:         *)
(* processInteractiveEvents of core/engine.go on a platform that can       *)
(* neither edit a message nor show a card (WeChat), so that text is held   *)
(* in textParts and sent in segments, and the display settings that        *)
(* decide when (core/engine.go, config/config.go).                         *)
(*                                                                         *)
(* A turn is a sequence of events, `stream`; a piece of text is its index  *)
(* in it.  The texts are of four kinds: "plain"; "side", the words that    *)
(* `cc-connect send` also sends; "bare", NO_REPLY and nothing else;        *)
(* "trail", words with NO_REPLY on a last line.  Who may run a turn is the *)
(* subject of TurnQueue; lengths, footers and wording are left out.        *)
(***************************************************************************)
EXTENDS Naturals, Sequences

CONSTANTS
    Configs,      \* config.toml as it may be at the start
    Unset,        \* a field config.toml does not give
    Sends,        \* what p.Send may do: {TRUE}, or BOOLEAN when it may fail
    MaxEvents,    \* bound: the turns, and how many events each may have
    MaxSwitches,  \* bound: changes of the display
    MaxSide       \* bound: messages of `cc-connect send`

Modes == {"full", "compact", "quiet"}
Display == [mode: Modes, thinking: BOOLEAN, tools: BOOLEAN]
Block == [mode: Modes \cup {Unset}, thinking: BOOLEAN \cup {Unset}, tools: BOOLEAN \cup {Unset}]
Config == [project: Block, global: Block, quiet: BOOLEAN]

ASSUME BoundsAreNat == MaxEvents \in Seq(Nat) /\ MaxSwitches \in Nat /\ MaxSide \in Nat
ASSUME ConfigsAreConfigs == Configs \subseteq Config
ASSUME UnsetIsNoValue == Unset \notin Modes /\ Unset \notin BOOLEAN
ASSUME SendsAreOutcomes == TRUE \in Sends /\ Sends \subseteq BOOLEAN

Markers == {"bare", "trail"}
Texts == {"plain", "side"} \cup Markers
Notices == {"think", "tool", "permission", "ask"}

VARIABLES
    config,     \* config.toml: the [display] blocks and the old quiet flag
    display,    \* e.display
    loop,       \* the event loop: idle, running, asking (in <-pending.Resolved), answered
                \* (EventResult, before state.pendingMessages is looked at), ended (returning)
    stream,     \* the events of this turn
    parts,      \* textParts
    segStart,   \* segmentStart
    toolUsed,   \* toolCount > 0
    approveAll, \* state.approveAll
    sideText,   \* state.sideText
    sending,    \* a SendToSession whose p.Send is over and whose lock is not yet taken
    shown,      \* what the chat has got since the turn began, oldest first
    clean,      \* this turn: nothing failed, the display was not changed, no old side text
    turns, switches, sides

vars == <<config, display, loop, stream, parts, segStart, toolUsed, approveAll, sideText,
          sending, shown, clean, turns, switches, sides>>

turnVars == <<stream, parts, segStart, toolUsed>>
settings == <<config, display, switches>>
sideVars == <<sideText, sending, sides>>

-----------------------------------------------------------------------------
(* The display settings. *)

Pick(project, global, default) ==
    IF project # Unset THEN project ELSE IF global # Unset THEN global ELSE default

EffectiveDisplay(c) ==
    LET mode == Pick(c.project.mode, c.global.mode, IF c.quiet THEN "quiet" ELSE "full")
    IN  [mode     |-> mode,
         thinking |-> Pick(c.project.thinking, c.global.thinking, mode = "full"),
         tools    |-> Pick(c.project.tools, c.global.tools, mode = "full")]

DisplayOf(mode) == [mode |-> mode, thinking |-> mode = "full", tools |-> mode = "full"]

SaveModeOnly(d, f) ==                               \* mutant: the flags are not saved with the mode
    config' = [config EXCEPT !.global.mode = IF "mode" \in f THEN d.mode ELSE @]

(* SaveDisplayConfig: the fields f of d, in the global block.  The code     *)
(* patches the file field by field; a crash between two is not modelled.    *)
SaveDisplay(d, f) ==
    config' = [config EXCEPT !.global = [x \in {"mode", "thinking", "tools"} |->
                                            IF x \in f THEN d[x] ELSE config.global[x]]]

Switch(d) ==
    /\ switches < MaxSwitches
    /\ switches' = switches + 1
    /\ display' = d
    /\ clean' = (clean /\ loop = "idle")
    /\ UNCHANGED <<loop, turnVars, approveAll, sideVars, shown, turns>>

(* /quiet, and /config mode. *)
SetMode(mode) ==
    /\ Switch(DisplayOf(mode))
    /\ SaveDisplay(DisplayOf(mode), {"mode", "thinking", "tools"})

(* /config thinking_messages and /config tool_messages. *)
SetFlag(f, b) ==
    /\ Switch([display EXCEPT ![f] = b])
    /\ SaveDisplay([display EXCEPT ![f] = b], {f})

(* /config reload. *)
Reload == Switch(EffectiveDisplay(config)) /\ UNCHANGED config

-----------------------------------------------------------------------------
(* What is sent. *)

Raw(s) == [i \in DOMAIN s |-> [at |-> s[i], cut |-> FALSE]]
Notice(i) == <<[at |-> i, cut |-> FALSE]>>
Sent(ok, items) == IF ok THEN items ELSE <<>>

Unsent == SubSeq(parts, segStart + 1, Len(parts))

(* isSilentReply, stripTrailingSilent: the pieces are joined with nothing in *)
(* between, so a "bare" piece after another one is not recognised.           *)
Silent(s) == Len(s) = 1 /\ stream[s[1]] = "bare"
Stripped(s) ==
    [i \in DOMAIN s |-> [at |-> s[i], cut |-> i = Len(s) /\ stream[s[i]] = "trail"]]

-----------------------------------------------------------------------------
(* What the agent may do next: its messages are a thought, a text and tool *)
(* uses, each of them optional, and every message but the last uses a tool. *)

LastEvent == IF stream = <<>> THEN "none" ELSE stream[Len(stream)]
Says(e) ==
    /\ loop = "running"
    /\ Len(stream) < MaxEvents[turns]
    /\ LastEvent \notin Markers
    /\ e = "think" => LastEvent \notin Texts \cup {"think"}
    /\ e \in Texts => LastEvent \notin Texts
    /\ e = "permission" => LastEvent = "tool"
    /\ stream' = Append(stream, e)
    /\ UNCHANGED <<settings, sideVars, turns>>

LastText == IF LastEvent \in Texts THEN <<Len(stream)>> ELSE <<>>

-----------------------------------------------------------------------------
(* The events. *)

TellAndFlush(n) ==                                  \* mutant: the notice goes first
    \E f \in Sends, g \in Sends :
        /\ shown' = shown \o Sent(g, n) \o Sent(f, Raw(Unsent))
        /\ segStart' = Len(parts)
        /\ clean' = (clean /\ f /\ g)

(* Flush of the segment, then the notice n. *)
FlushAndTell(n) ==
    \E f \in Sends, g \in Sends :
        /\ shown' = shown \o Sent(f, Raw(Unsent)) \o Sent(g, n)
        /\ segStart' = Len(parts)
        /\ clean' = (clean /\ f /\ g)

(* A thought or a tool use: a notice if it is displayed; otherwise only the *)
(* text before it is sent, and in quiet mode not even that.                 *)
Progress(displayed) ==
    \/ displayed /\ FlushAndTell(Notice(Len(stream')))
    \/ ~displayed /\ display.mode # "quiet" /\ FlushAndTell(<<>>)
    \/ ~displayed /\ display.mode = "quiet" /\ UNCHANGED <<shown, segStart, clean>>

HearThinking ==
    /\ Says("think")
    /\ Progress(display.thinking)
    /\ UNCHANGED <<loop, parts, toolUsed, approveAll>>

HearToolUse ==
    /\ Says("tool")
    /\ Progress(display.tools)
    /\ toolUsed' = TRUE
    /\ UNCHANGED <<loop, parts, approveAll>>

HearText ==
    /\ \E t \in Texts : Says(t)
    /\ parts' = Append(parts, Len(stream'))
    /\ UNCHANGED <<loop, segStart, toolUsed, approveAll, shown, clean>>

HearPermission(e) ==
    /\ Says(e)
    /\ \/ /\ approveAll /\ e # "ask"
          /\ UNCHANGED <<loop, shown, segStart, clean>>
       \/ /\ ~approveAll \/ e = "ask"
          /\ FlushAndTell(Notice(Len(stream')))
          /\ loop' = "asking"
    /\ UNCHANGED <<parts, toolUsed, approveAll>>

(* The user answers; "allow all" holds for the rest of the session. *)
Answer(all) ==
    /\ loop = "asking"
    /\ loop' = "running"
    /\ approveAll' = (approveAll \/ all)
    /\ UNCHANGED <<turnVars, settings, sideVars, shown, clean, turns>>

-----------------------------------------------------------------------------
(* The end of a turn. *)

LastOnly == IF LastText # <<>> THEN LastText ELSE parts   \* mutant: only the last message

FullResponse ==
    IF parts # <<>> /\ segStart = 0 /\ ~display.tools THEN parts
    ELSE IF LastText # <<>> THEN LastText ELSE parts

(* A reply that cannot be sent ends the loop. *)
Reply(items, otherwise) ==
    \E ok \in Sends :
        /\ shown' = shown \o Sent(ok, items)
        /\ clean' = (clean /\ ok)
        /\ loop' = IF ok THEN otherwise ELSE "ended"

NoReply(next) == loop' = next /\ UNCHANGED <<shown, clean>>

Suppressed == Len(FullResponse) = 1 /\ stream[FullResponse[1]] = sideText

HearResult ==
    /\ loop = "running"
    /\ \/ Silent(FullResponse) /\ NoReply("answered")
       \/ /\ ~Silent(FullResponse) /\ toolUsed /\ segStart > 0
          /\ IF Unsent = <<>> THEN NoReply("answered") ELSE Reply(Raw(Unsent), "answered")
       \/ /\ ~Silent(FullResponse) /\ ~(toolUsed /\ segStart > 0)
          /\ IF Suppressed THEN NoReply("answered") ELSE Reply(Stripped(FullResponse), "answered")
    /\ sideText' = "none"
    /\ UNCHANGED <<turnVars, approveAll, settings, sending, sides, turns>>

(* channelClosed: the process has exited. *)
HearEnd ==
    /\ loop = "running"
    /\ IF parts = <<>> \/ Silent(parts) THEN loop' = "ended" /\ UNCHANGED shown
       ELSE \E ok \in Sends :
              /\ shown' = shown \o Sent(ok, IF toolUsed /\ segStart > 0 THEN Raw(Unsent) ELSE Stripped(parts))
              /\ loop' = "ended"
    /\ clean' = FALSE
    /\ UNCHANGED <<turnVars, approveAll, settings, sideVars, turns>>

(* An error event, a prompt that cannot be sent, /stop, the idle timeout and *)
(* the shutdown: the text that was held is not sent.                         *)
GiveUp ==
    /\ loop = "running"
    /\ loop' = "ended"
    /\ clean' = FALSE
    /\ UNCHANGED <<turnVars, approveAll, settings, sideVars, shown, turns>>

ResetTextOnly ==                                    \* mutant: segmentStart survives
    /\ stream' = <<>>
    /\ parts' = <<>>
    /\ toolUsed' = FALSE
    /\ UNCHANGED segStart

Reset ==
    /\ stream' = <<>>
    /\ parts' = <<>>
    /\ segStart' = 0
    /\ toolUsed' = FALSE

(* A message waits in the queue: the loop goes on with it.  Its state.sideText *)
(* is what the turn before has left.                                          *)
NextQueued ==
    /\ loop = "answered"
    /\ turns < Len(MaxEvents)
    /\ turns' = turns + 1
    /\ loop' = "running"
    /\ Reset
    /\ shown' = <<>>
    /\ clean' = (~sending /\ sideText = "none")
    /\ UNCHANGED <<approveAll, settings, sideVars>>

(* The loop returns, and its variables are gone. *)
Return ==
    /\ loop \in {"answered", "ended"}
    /\ loop' = "idle"
    /\ Reset
    /\ shown' = <<>>
    /\ clean' = TRUE
    /\ UNCHANGED <<approveAll, settings, sideVars, turns>>

(* A new message: processInteractiveMessageWith enters the loop. *)
Begin ==
    /\ loop = "idle"
    /\ turns < Len(MaxEvents)
    /\ turns' = turns + 1
    /\ loop' = "running"
    /\ sideText' = "none"
    /\ shown' = <<>>
    /\ clean' = ~sending
    /\ UNCHANGED <<turnVars, approveAll, settings, sending, sides>>

(* `cc-connect send`: SendToSession first sends, then notes what it sent. *)
SideSend ==
    /\ turns > 0 /\ ~sending /\ sides < MaxSide
    /\ sides' = sides + 1
    /\ sending' = TRUE
    /\ shown' = Append(shown, [at |-> 0, cut |-> FALSE])
    /\ UNCHANGED <<loop, turnVars, approveAll, settings, sideText, clean, turns>>

SideNote ==
    /\ sending
    /\ sending' = FALSE
    /\ sideText' = "side"
    /\ UNCHANGED <<loop, turnVars, approveAll, settings, sides, shown, clean, turns>>

-----------------------------------------------------------------------------
Init ==
    /\ config \in Configs
    /\ display = EffectiveDisplay(config)
    /\ loop = "idle"
    /\ stream = <<>> /\ parts = <<>> /\ segStart = 0 /\ toolUsed = FALSE
    /\ approveAll = FALSE
    /\ sideText = "none" /\ sending = FALSE
    /\ shown = <<>> /\ clean = TRUE
    /\ turns = 0 /\ switches = 0 /\ sides = 0

Next ==
    \/ \E m \in Modes : SetMode(m)
    \/ \E f \in {"thinking", "tools"}, b \in BOOLEAN : SetFlag(f, b)
    \/ Reload
    \/ Begin \/ NextQueued \/ Return
    \/ HearThinking \/ HearToolUse \/ HearText \/ HearResult \/ HearEnd \/ GiveUp
    \/ \E e \in {"permission", "ask"} : HearPermission(e)
    \/ \E all \in BOOLEAN : Answer(all)
    \/ SideSend \/ SideNote

Spec == Init /\ [][Next]_vars

-----------------------------------------------------------------------------
(* Properties. *)

(* Type invariant: segmentStart never points past textParts, every piece is *)
(* an event of this turn, a request waits only for a question that was asked.*)
TypeOK ==
    /\ config \in Config /\ display \in Display
    /\ loop \in {"idle", "running", "asking", "answered", "ended"}
    /\ stream \in Seq(Texts \cup Notices)
    /\ parts \in Seq(DOMAIN stream) /\ segStart \in 0..Len(parts)
    /\ toolUsed \in BOOLEAN /\ approveAll \in BOOLEAN
    /\ sideText \in {"none", "side"} /\ sending \in BOOLEAN
    /\ shown \in Seq([at: 0..Len(stream), cut: BOOLEAN])
    /\ clean \in BOOLEAN
    /\ loop = "asking" => LastEvent \in {"permission", "ask"}

(* The chat reads in the order in which the agent spoke, and nothing in it  *)
(* stands twice: text that was held back goes out before the notice or the  *)
(* question that follows it, never after and never again at the end of the  *)
(* turn, whatever fails and however the display is changed in between.  One *)
(* case is left out: after a turn that asked a question and used no tool.   *)
(* Answered without a last text, it sends the text before the question once *)
(* more; and what stands in the chat after that is not judged once the loop *)
(* has ended, whichever way it did.                                         *)
Ordered(s) ==
    \A i, j \in DOMAIN s : i < j /\ s[i].at > 0 /\ s[j].at > 0 => s[i].at < s[j].at
AskedOnly == ~toolUsed /\ \E i \in DOMAIN stream : stream[i] = "ask"
InOrder ==
    \/ Ordered(shown)
    \/ AskedOnly /\ loop \in {"answered", "ended"} /\ (loop = "answered" => LastEvent \notin Texts)

(* When a turn is over and nothing failed, every text the agent has said in *)
(* it is in the chat, whatever the display mode and whichever way the last  *)
(* text took: a reply that ends in words shows all of them, a last word the *)
(* chat has just got from `cc-connect send` counts as shown, and a reply    *)
(* that is the bare marker shows nothing.  (A bare marker after other texts *)
(* is left out: it is dropped or shown depending on the mode.)              *)
InChat(i) ==
    \/ \E x \in DOMAIN shown : shown[x].at = i
    \/ stream[i] = "side" /\ \E x \in DOMAIN shown : shown[x].at = 0
TextsOf == {i \in DOMAIN stream : stream[i] \in Texts}
AllSaid ==
    loop = "answered" /\ clean /\ LastEvent \in Texts =>
        \/ stream[Len(stream)] # "bare" /\ \A i \in TextsOf : InChat(i)
        \/ stream[Len(stream)] = "bare" /\ (TextsOf = {Len(stream)} => ~InChat(Len(stream)))

(* A setting of the display that the user has chosen is the one a restart   *)
(* or /config reload brings back, unless the project gives its own: what    *)
(* /quiet and /config save in the global block and how EffectiveDisplay     *)
(* derives the flags from the mode agree.                                   *)
DisplayKept ==
    \A f \in {"mode", "thinking", "tools"} :
        config.project[f] = Unset => EffectiveDisplay(config)[f] = display[f]

(* core/interfaces.go:136: "cc-connect strips the trailing marker before    *)
(* delivery".                                                               *)
MarkerStripped ==
    \A x \in DOMAIN shown :
        shown[x].at > 0 /\ stream[shown[x].at] = "trail" => shown[x].cut
=============================================================================
