------------------------------ MODULE MCWeixin ------------------------------
(* Small instances of Weixin for TLC; the .cfg files give the sets.        *)
EXTENDS Weixin, TLC

=============================================================================
