---------------------------- MODULE MCReplyText ----------------------------
(* Small instances of ReplyText for TLC.                                   *)
EXTENDS ReplyText

NotGiven == [mode |-> Unset, thinking |-> Unset, tools |-> Unset]

(* A turn, and one that was queued meanwhile. *)
MCMaxEvents == <<3, 3>>

(* A fresh file, the old quiet flag with a flag set against it, and a project *)
(* with a mode of its own.                                                    *)
MCConfigs ==
    {[project |-> NotGiven, global |-> NotGiven, quiet |-> FALSE],
     [project |-> NotGiven, global |-> [NotGiven EXCEPT !.thinking = TRUE], quiet |-> TRUE],
     [project |-> [NotGiven EXCEPT !.mode = "compact"], global |-> NotGiven, quiet |-> TRUE]}

=============================================================================
