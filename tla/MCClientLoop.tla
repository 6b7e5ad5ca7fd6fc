---------------------------- MODULE MCClientLoop ----------------------------
(* Instances of ClientLoop for TLC.                                        *)
EXTENDS ClientLoop

ECM(n) == [method |-> "ECM", max |-> n]

(* Two servers that share the work, or one in reserve.                     *)
TwoServers == {<<20, 80>>, <<100, 0>>}

(* No work, one unit, or two: a P-1 unit of more curves than it takes in    *)
(* front.                                                                  *)
AllBatches == {<<>>, <<ECM(2)>>, <<[method |-> "P-1", max |-> 2], ECM(1)>>}
=============================================================================
