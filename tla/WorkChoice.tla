----------------------------- MODULE WorkChoice -----------------------------
(***************************************************************************)
(* What the server hands out for a composite: WorkSender::SendWork,        *)
(* GetECMIndexAndCurves and GetCurvesDone, over the table of B1 values of  *)
(* ecmserver.b1, and how the returns of clients move the composite up that *)
(* table.  Composites are independent of each other here: this is one.     *)
(* The choice is made from what the cursor of the request fetched, which    *)
(* may be older than what returns have committed since.                    *)
(*                                                                         *)
(* B1 values and work are whole numbers, which the doubles of the code     *)
(* represent exactly.                                                      *)
(***************************************************************************)
EXTENDS Integers, Sequences

CONSTANTS
  B1Table,   \* the b1= lines: records [b1, ecm, pm1, pp1, sumWork]
  MinB1,     \* minb1=
  MaxB1,     \* maxb1=
  PM1Depth,  \* p-1depthoverecm=
  PP1Depth,  \* p+1depthoverecm=
  Client,    \* clients
  Junk,      \* numbers that uninitialised memory may hold
  MaxLost,   \* bound on the units that clients give up
  None       \* no unit, no row

Level == 1..Len(B1Table)

(* ExtractB1 refuses a B1 below that of the line before, and adds up the    *)
(* work of the lines.                                                      *)
ASSUME TableAssumption ==
  /\ B1Table \in Seq([b1 : Nat \ {0}, ecm : Nat, pm1 : Nat, pp1 : Nat, sumWork : Nat])
  /\ Len(B1Table) > 0
  /\ \A i, j \in Level : i <= j => B1Table[i].b1 <= B1Table[j].b1
  /\ \A i \in Level : B1Table[i].sumWork =
       B1Table[i].b1 * B1Table[i].ecm + IF i = 1 THEN 0 ELSE B1Table[i - 1].sumWork

ASSUME ParameterAssumption ==
  /\ MinB1 \in Nat /\ MaxB1 \in Nat
  /\ PM1Depth \in Nat /\ PP1Depth \in Nat
  /\ Junk \subseteq Nat
  /\ MaxLost \in Nat
  /\ None \notin [method : {"ECM", "P-1", "P+1"}, b1 : Nat, curves : Nat]

VARIABLES
  total,     \* TotalWorkDone of the composite
  done,      \* [method -> [B1 -> LocalCurves]], MasterCompositeWorkDone
  assigned,  \* [Client -> the unit it works on, or None]
  seen,      \* [Client -> what its request has fetched of the composite, or None]
  lost       \* units given up so far, at most MaxLost

vars == <<total, done, assigned, seen, lost>>

Method == {"ECM", "P-1", "P+1"}
B1     == {B1Table[i].b1 : i \in Level} \cup Junk
Unit   == [method : Method, b1 : B1, curves : Nat]
Row    == [total : Nat, done : [Method -> [B1 -> Nat]]]

Init ==
  /\ total = 0
  /\ done = [m \in Method |-> [b \in B1 |-> 0]]
  /\ assigned = [c \in Client |-> None]
  /\ seen = [c \in Client |-> None]
  /\ lost = 0

-----------------------------------------------------------------------------
Least(S) == CHOOSE i \in S : \A j \in S : i <= j

(* Defect: there is no upper end. *)
InRangeAbove(i) == MinB1 <= B1Table[i].b1

InRange(i) == MinB1 <= B1Table[i].b1 /\ B1Table[i].b1 <= MaxB1

(* Defect: ">=" for ">". *)
IncompleteOrEqual(i, t) == B1Table[i].sumWork >= t

(* The ECM curves through level i are not completed with t work done. *)
Incomplete(i, t) == B1Table[i].sumWork > t

(* The loop of GetECMIndexAndCurves stops at the first level above MaxB1,   *)
(* or at one that is not too low and not completed.                         *)
Stops(t) == {i \in Level : \/ B1Table[i].b1 > MaxB1
                           \/ B1Table[i].b1 >= MinB1 /\ Incomplete(i, t)}

(* It returns true at such a level, and when it runs off the table because  *)
(* the last level is too low.                                               *)
OffTable(t) == Stops(t) = {} /\ B1Table[Len(B1Table)].b1 < MinB1
HasWork(t)  == OffTable(t) \/ (Stops(t) # {} /\ B1Table[Least(Stops(t))].b1 <= MaxB1)

ECMLevel(t) == IF OffTable(t) THEN Len(B1Table) + 1 ELSE Least(Stops(t))

AtLeastOne(curves) == IF curves = 0 THEN 1 ELSE curves

(* The curves that complete the level, rounded down; off the table neither  *)
(* the B1 nor the number of curves was ever set.                            *)
ECMUnits(t) ==
  IF OffTable(t)
  THEN [method : {"ECM"}, b1 : Junk, curves : {AtLeastOne(n) : n \in Junk}]
  ELSE LET e == B1Table[ECMLevel(t)] IN
       {[method |-> "ECM", b1 |-> e.b1,
         curves |-> AtLeastOne((e.sumWork - t) \div e.b1)]}

(* GetCurvesDone, subtracted from what the table asks for. *)
CurvesLeft(m, i, d) ==
  (IF m = "P-1" THEN B1Table[i].pm1 ELSE B1Table[i].pp1) - d[m][B1Table[i].b1]

(* Defect: more curves than asked for are a lack too. *)
LacksOrExceeds(m, i, d) == i \in Level /\ InRange(i) /\ CurvesLeft(m, i, d) # 0

Lacks(m, i, d) == i \in Level /\ InRange(i) /\ CurvesLeft(m, i, d) > 0

(* The levels the loop for P-1 and P+1 looks at: both conditions end it. *)
LookedAt(t) ==
  LET k == ECMLevel(t) IN {i \in Level : k <= i /\ i < k + PM1Depth /\ i < k + PP1Depth}

Lacking(v) == {i \in LookedAt(v.total) : Lacks("P-1", i, v.done) \/ Lacks("P+1", i, v.done)}

(* P-1 is asked for before P+1, a lower level before a higher. *)
OtherUnit(v) ==
  LET i == Least(Lacking(v))
      m == IF Lacks("P-1", i, v.done) THEN "P-1" ELSE "P+1"
  IN [method |-> m, b1 |-> B1Table[i].b1, curves |-> CurvesLeft(m, i, v.done)]

(* The cursor of a request is opened: it and the curves done are read from  *)
(* one snapshot, and the request comes to the composite only later.         *)
FetchRow(c) ==
  /\ assigned[c] = None /\ seen[c] = None
  /\ seen' = [seen EXCEPT ![c] = [total |-> total, done |-> done]]
  /\ UNCHANGED <<total, done, assigned, lost>>

(* A composite before it had no work and was rolled back: the curves done   *)
(* are read from a new snapshot, TotalWorkDone has been fetched.            *)
Rollback(c) ==
  /\ seen[c] # None /\ seen[c].done # done
  /\ seen' = [seen EXCEPT ![c].done = done]
  /\ UNCHANGED <<total, done, assigned, lost>>

(* The request comes to the composite, and gets a unit if there is one. *)
SendWork(c) ==
  /\ seen[c] # None
  /\ seen' = [seen EXCEPT ![c] = None]
  /\ \/ HasWork(seen[c].total)
        /\ \E u \in IF Lacking(seen[c]) # {} THEN {OtherUnit(seen[c])} ELSE ECMUnits(seen[c].total) :
             assigned' = [assigned EXCEPT ![c] = u]
     \/ ~HasWork(seen[c].total) /\ UNCHANGED assigned
  /\ UNCHANGED <<total, done, lost>>

(* TotalWorkDone is recomputed from the ECM rows. *)
WorkOf(u, n) == IF u.method = "ECM" THEN u.b1 * n ELSE 0

(* Defect: only ECM curves are added. *)
ReturnWorkOfECM(c, n) ==
  LET u == assigned[c] IN
  /\ total' = total + WorkOf(u, n)
  /\ done' = [done EXCEPT !["ECM"][u.b1] = IF u.method = "ECM" THEN @ + n ELSE @]
  /\ assigned' = [assigned EXCEPT ![c] = None]
  /\ UNCHANGED <<seen, lost>>

(* A client returns some or all of its curves. *)
ReturnWork(c, n) ==
  LET u == assigned[c] IN
  /\ total' = total + WorkOf(u, n)
  /\ done' = [done EXCEPT ![u.method][u.b1] = @ + n]
  /\ assigned' = [assigned EXCEPT ![c] = None]
  /\ UNCHANGED <<seen, lost>>

Return(c) == assigned[c] # None /\ \E n \in 1..assigned[c].curves : ReturnWork(c, n)

(* It abandons the unit, or is never heard of again. *)
GiveUp(c) ==
  /\ assigned[c] # None
  /\ lost < MaxLost
  /\ lost' = lost + 1
  /\ assigned' = [assigned EXCEPT ![c] = None]
  /\ UNCHANGED <<total, done, seen>>

Next == \E c \in Client : FetchRow(c) \/ Rollback(c) \/ SendWork(c) \/ Return(c) \/ GiveUp(c)

Spec == Init /\ [][Next]_vars

(* The server answers the requests of clients that have no work, and these  *)
(* return what they did.                                                    *)
FairSpec ==
  Spec /\ \A c \in Client : WF_vars(FetchRow(c)) /\ WF_vars(SendWork(c)) /\ WF_vars(Return(c))

-----------------------------------------------------------------------------
(* Every variable has its type. *)
TypeOK ==
  /\ total \in Nat
  /\ done \in [Method -> [B1 -> Nat]]
  /\ assigned \in [Client -> Unit \cup {None}]
  /\ seen \in [Client -> Row \cup {None}]
  /\ lost \in 0..MaxLost

(* "minb1= is the minimum b1 to use for factoring assignments", and maxb1=  *)
(* the maximum: also for the P-1 and P+1 work looked up further up the      *)
(* table.  And no unit is empty.                                            *)
UnitInRange ==
  \A c \in Client : assigned[c] # None =>
    /\ MinB1 <= assigned[c].b1 /\ assigned[c].b1 <= MaxB1
    /\ assigned[c].curves > 0

(* The unit that client c gets in this step. *)
Given(c) == assigned[c] = None /\ assigned[c]' # None

(* With any number of clients returning any part of their curves, no level  *)
(* of the range is passed over: when ECM work of a level is handed out, all *)
(* the ECM work below it was done.  And none is done again, unless a return *)
(* was committed after the request fetched TotalWorkDone (WorkSender.cpp,   *)
(* SendUsingStrategy, which takes the lock only later).                     *)
LowestLevelFirst ==
  [][\A c \in Client : Given(c) /\ assigned[c]'.method = "ECM" =>
       \E i \in Level :
         /\ B1Table[i].b1 = assigned[c]'.b1
         /\ B1Table[i].sumWork > total \/ seen[c].total < total
         /\ \A j \in Level : j < i /\ MinB1 <= B1Table[j].b1 => B1Table[j].sumWork <= total]_vars

(* P-1 comes first: "the server will assign P-1/P+1 for those B1s before    *)
(* assigning ECM curves".  When ECM work is handed out, the P-1 curves of   *)
(* that level and of the next p-1depthoverecm - 1 levels are done, though   *)
(* the server looked at them before other returns were committed.           *)
PM1BeforeECM ==
  [][\A c \in Client, i, j \in Level :
       /\ Given(c) /\ assigned[c]'.method = "ECM" /\ B1Table[i].b1 = assigned[c]'.b1
       /\ i <= j /\ j < i + PM1Depth /\ B1Table[j].b1 <= MaxB1
       => done["P-1"][B1Table[j].b1] >= B1Table[j].pm1]_vars

(* When a composite is found to have no work left, all the ECM work of the  *)
(* levels in the range was done: as of the last commit, and as of what any  *)
(* request has fetched.                                                     *)
NoneLeftIsDone ==
  /\ ~HasWork(total) => \A i \in Level : InRange(i) => B1Table[i].sumWork <= total
  /\ \A c \in Client : seen[c] # None /\ ~HasWork(seen[c].total) =>
       \A i \in Level : InRange(i) => B1Table[i].sumWork <= total

(* What is handed out, and that nothing is handed out, is within the range. *)
UnitsAndEndInRange == UnitInRange /\ NoneLeftIsDone

(* ECM work waits for all that is to be done before it.                     *)
ECMInOrder == LowestLevelFirst /\ PM1BeforeECM

(* Every composite comes to the end of the table, though clients return     *)
(* only a part of their curves or none.                                     *)
EventuallyDone == <>[](~HasWork(total))
=============================================================================
