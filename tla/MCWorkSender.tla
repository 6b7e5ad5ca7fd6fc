---------------------------- MODULE MCWorkSender ----------------------------
(* Two requests, one of them long enough for a keep-alive line or for its    *)
(* client to stop waiting, for two composites of which one is selected at a  *)
(* time; the other clients finish or factor one of them.                     *)
EXTENDS WorkSender, TLC

CONSTANTS t1, t2

OneLine == t1 :> 1 @@ t2 :> 0
=============================================================================
