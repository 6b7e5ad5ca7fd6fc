--------------------------- MODULE MCReturnSession ---------------------------
(***************************************************************************)
(* Clients that hold several units, as the protocol allows ("one or more   *)
(* of Factoring Work"), the second with a refused unit in front.           *)
(***************************************************************************)
EXTENDS ReturnSession

Several  == << <<"u1", "u2", "idle">>, <<"u3">> >>
BadFirst == << <<"bad", "u1">> >>

Either == {Several, BadFirst}
=============================================================================
