----------------------------- MODULE MCChatProxy -----------------------------
(***************************************************************************)
(* Three requests on a server with two slots, whose generator stands two   *)
(* numbers short of exhaustion: two receipts to order and to verify, and a *)
(* third request to turn away or to fail.                                  *)
(***************************************************************************)
EXTENDS ChatProxy

CONSTANTS t1, t2, t3, e1

MCTask == {t1, t2, t3}

=============================================================================
