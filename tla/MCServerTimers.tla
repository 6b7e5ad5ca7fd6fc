--------------------------- MODULE MCServerTimers ---------------------------
(* Two events with a composite factor each, one of them by a finder whose   *)
(* address is refused, and an event without a detail; an administrator may  *)
(* add a composite named N_R1.                                              *)
EXTENDS ServerTimers, TLC

AnyEventOf  == "c1" :> "e1" @@ "p1" :> "e1" @@ "c2" :> "e2"
AnyMasterOf == "e1" :> "N" @@ "e2" :> "N" @@ "none" :> "N"
AnyTaken    == {<<"N", 1>>}
AnyFinder   == "e1" :> "good" @@ "e2" :> "bad" @@ "none" :> "good"
=============================================================================
