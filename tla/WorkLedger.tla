----------------------------- MODULE WorkLedger -----------------------------
(***************************************************************************)
(* What the returning of work promises, without sessions and messages: a   *)
(* work unit that was handed out stays with its client until the server    *)
(* has counted it, and every unit the server can accept is counted in the  *)
(* end.  A unit can only be lost by a failure of its own: a COMMIT that    *)
(* fails unnoticed loses one, a client that dies loses units only while it *)
(* writes the record of what it holds.  The ledger does not promise that a *)
(* unit is counted once only.                                              *)
(***************************************************************************)
EXTENDS Naturals

CONSTANTS Unit,      \* work units
          Refused,   \* those the server never accepts
          Untouched  \* those without a curve done: nothing is owed for them

VARIABLES issued,    \* units handed out so far
          held,      \* units the client has, in memory or, if it is down, on file
          counted,   \* [Unit -> Nat], how often the server counted the unit
          waived,    \* units that a failure took
          writing,   \* the client is writing the record of its units
          failures   \* failures so far

ledgerVars == <<issued, held, counted, waived, writing, failures>>

Settled(u) == counted[u] > 0 \/ u \in Untouched \/ u \in waived

LedgerInit ==
  /\ issued = {}
  /\ held = {}
  /\ counted = [u \in Unit |-> 0]
  /\ waived = {}
  /\ writing = FALSE
  /\ failures = 0

(* Units are handed out to a client that has none, which records them. *)
Issue ==
  /\ held = {}
  /\ \E us \in SUBSET (Unit \ issued) :
       us # {} /\ issued' = issued \cup us /\ held' = us
  /\ ~writing /\ writing'
  /\ UNCHANGED <<counted, waived, failures>>

(* The server counts a unit it can accept. *)
Count(u) ==
  /\ u \in issued \ (Refused \cup Untouched)
  /\ counted' = [counted EXCEPT ![u] = @ + 1]
  /\ UNCHANGED <<issued, held, waived, writing, failures>>

(* The client lets go of settled units, or finds some of them again: with   *)
(* or without a failure, which takes nothing.                               *)
Settle ==
  /\ held' \subseteq issued
  /\ \A u \in issued \ held' : Settled(u)
  /\ failures' \in {failures, failures + 1}
  /\ writing' \in BOOLEAN
  /\ UNCHANGED <<issued, counted, waived>>

(* The server overlooks that it did not count a unit: one for each failure. *)
Overlook(u) ==
  /\ u \in issued \ (Refused \cup Untouched)
  /\ waived' = waived \cup {u}
  /\ failures' = failures + 1
  /\ UNCHANGED <<issued, held, counted, writing>>

(* The client dies while it writes its record, and has only a part of it.   *)
LoseRecord ==
  /\ writing /\ ~writing'
  /\ held' \subseteq held
  /\ waived' = waived \cup (held \ held')
  /\ failures' = failures + 1
  /\ UNCHANGED <<issued, counted>>

LedgerNext == Issue \/ Settle \/ LoseRecord \/ \E u \in Unit : Count(u) \/ Overlook(u)

LedgerSpec == LedgerInit /\ [][LedgerNext]_ledgerVars

(* Every unit handed out that can be accepted is counted eventually, unless *)
(* a failure took it.                                                       *)
EveryUnitCounted ==
  \A u \in Unit \ (Refused \cup Untouched) :
    (u \in issued) ~> (counted[u] > 0 \/ u \in waived)
=============================================================================
