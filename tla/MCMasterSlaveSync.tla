------------------------- MODULE MCMasterSlaveSync -------------------------
(* Instances of MasterSlaveSync: k1 and k2 are returned at slaves, k3 at the *)
(* master.                                                                  *)
EXTENDS MasterSlaveSync

CONSTANTS s1, s2, k1, k2, k3, m

OneSlaveAt  == [k \in Curve |-> IF k = k3 THEN m ELSE s1]
OnOne       == [k \in Curve |-> 1]
OnTwo       == [k \in Curve |-> IF k = k2 THEN 2 ELSE 1]
=============================================================================
