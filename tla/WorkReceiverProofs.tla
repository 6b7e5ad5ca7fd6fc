------------------------- MODULE WorkReceiverProofs -------------------------
(***************************************************************************)
(* Theorems of WorkReceiver, for any threads, returns and tables.          *)
(***************************************************************************)
EXTENDS WorkReceiver, FiniteSetTheorems, TLAPS

-----------------------------------------------------------------------------
(***************************************************************************)
(* Type correctness.                                                       *)
(***************************************************************************)
(* The details received so far are a prefix of those of the unit, and there *)
(* are none before "Return Factor Event".                                   *)
DetailsReceived(t) ==
  /\ pc[t] \in {"idle", "started", "worked"} => obj[t].seq = 0
  /\ pc[t] = "event" => obj[t].seq \in 0..Len(Details[ret[t]])

TypeInv == TypeOK /\ \A t \in Thread : DetailsReceived(t)

LEMMA NoReturnType == NoReturn \in Return
  BY ConstantsAssumption DEF NoReturn

LEMMA EmptyDatabaseType == EmptyDatabase \in Database
  BY ConstantsAssumption
  DEF EmptyDatabase, Database, WorkDoneRow, MasterRow, CompositeRow, StatsRow

(* The objects built from a database of the right type are of theirs. *)
LEMMA ObjectsForType ==
  ASSUME NEW c \in Composite, NEW d \in Database
  PROVE  ObjectsFor(c, d) \in Objects /\ ObjectsFor(c, d).seq = 0
<1>1. d.mc[MasterOf[c]] \in MasterRow
  BY ConstantsAssumption DEF Database
<1>2. d.comp[c].eventCount \in Nat
  BY DEF Database, CompositeRow
<1> QED
  BY <1>1, <1>2 DEF ObjectsFor, Objects

LEMMA NoObjectsType == NoObjects \in Objects /\ NoObjects.seq = 0
  BY ObjectsForType, EmptyDatabaseType, NoReturnType, ConstantsAssumption DEF NoObjects

LEMMA WorkSumType ==
  ASSUME TypeOK, NEW t \in Thread, NEW rows \in SUBSET WorkRow
  PROVE  WorkSum(t, rows) \in SUBSET Return
<1>1. db.local \in [WorkRow -> WorkDoneRow] /\ snap[t].local \in [WorkRow -> WorkDoneRow]
  BY DEF TypeOK, Database
<1>2. ret[t] \in Return
  BY DEF TypeOK
<1>3. \A k \in rows : /\ db.local[k].curves \cup {ret[t]} \subseteq Return
                      /\ snap[t].local[k].curves \subseteq Return
  BY <1>1, <1>2 DEF WorkDoneRow
<1> QED
  BY <1>3 DEF WorkSum

LEMMA NewDetailsType ==
  ASSUME TypeInv, NEW t \in Thread, AllReceived(t)
  PROVE  NewDetails(t) \subseteq Detail
<1>1. obj[t].seq \in Nat /\ obj[t].event \in Nat /\ ret[t] \in Return
  BY DEF TypeInv, TypeOK, Objects
<1>2. Details[ret[t]] \in Seq(Value) /\ CompositeOf[ret[t]] \in Composite
  BY <1>1, ConstantsAssumption
<1>3. obj[t].seq \in 0..Len(Details[ret[t]])
  BY <1>2 DEF TypeInv, DetailsReceived, AllReceived
<1>4. \A i \in 1..obj[t].seq : i \in Nat /\ Details[ret[t]][i] \in Value
  BY <1>1, <1>2, <1>3
<1>5. \A i \in 1..obj[t].seq :
        [comp |-> CompositeOf[ret[t]], no |-> obj[t].event, seq |-> i,
         value |-> Details[ret[t]][i], recursed |-> FALSE] \in Detail
  BY <1>1, <1>2, <1>4 DEF Detail
<1> QED
  BY <1>5 DEF NewDetails

LEMMA CommittedType ==
  ASSUME TypeInv, NEW t \in Thread, AllReceived(t),
         NEW inserted \in SUBSET NewDetails(t)
  PROVE  Committed(t, inserted) \in Database
<1> DEFINE r == ret[t]
           c == CompositeOf[r]
           m == MasterFor(r)
<1>1. /\ r \in Return /\ c \in Composite /\ m \in Master /\ UserOf[r] \in User
      /\ RowOf[r] \in WorkRow
  BY ConstantsAssumption DEF TypeInv, TypeOK, MasterFor
<1>2. db \in Database /\ snap[t] \in Database /\ obj[t] \in Objects
  BY DEF TypeInv, TypeOK
<1>3. [db.local EXCEPT ![RowOf[r]] = WorkDone(t)] \in [WorkRow -> WorkDoneRow]
  BY <1>1, <1>2 DEF Database, WorkDone, WorkDoneRow
<1>4. [db.mc EXCEPT ![m] = MasterRowWritten(t, inserted)] \in [Master -> MasterRow]
  <2>1. WorkSum(t, EcmRowsOf(m)) \in SUBSET Return
    BY WorkSumType DEF TypeInv, EcmRowsOf, RowsOf
  <2>2. obj[t].mc \in MasterRow /\ db.mc[m].ver \in Nat
    BY <1>1, <1>2 DEF Objects, Database, MasterRow
  <2> DEFINE w == WorkSum(t, EcmRowsOf(MasterFor(ret[t])))
             f == obj[t].mc.fully \/ (NoneUnfactored(t) /\ NoneToRecurse(t, inserted))
             v == db.mc[MasterFor(ret[t])].ver + 1
  <2>3. w \in SUBSET Return /\ f \in BOOLEAN /\ v \in Nat
    <3>1. f \in BOOLEAN
      BY <2>2 DEF MasterRow
    <3> QED
      BY <2>1, <2>2, <3>1
  <2>4. MasterRowWritten(t, inserted) = [obj[t].mc EXCEPT !.work = w, !.fully = f, !.ver = v]
    BY DEF MasterRowWritten
  <2> HIDE DEF w, f, v
  <2>5. MasterRowWritten(t, inserted) \in MasterRow
    BY <2>2, <2>3, <2>4 DEF MasterRow
  <2> QED
    BY <1>1, <1>2, <2>5 DEF Database
<1>5. [db.comp EXCEPT ![c] = CompositeRowWritten(t)] \in [Composite -> CompositeRow]
  <2>1. WorkSum(t, RowsOf(m)) \in SUBSET Return
    BY WorkSumType DEF TypeInv, RowsOf
  <2>2. CompositeRowWritten(t) \in CompositeRow
    BY <1>1, <1>2, <2>1 DEF CompositeRowWritten, CompositeRow, Database, Objects
  <2> QED
    BY <1>1, <1>2, <2>2 DEF Database
<1>6. [db.stats EXCEPT ![UserOf[r]] = [work |-> snap[t].stats[UserOf[r]].work \cup {r},
                                      ver |-> @.ver + 1]] \in [User -> StatsRow]
  BY <1>1, <1>2 DEF Database, StatsRow
<1>7. db.events \cup NewEvents(t) \subseteq Event
  BY <1>1, <1>2 DEF Database, Event, NewEvents, Objects
<1>8. db.details \cup inserted \subseteq Detail
  BY <1>2, NewDetailsType DEF Database
<1> QED
  BY <1>1, <1>2, <1>3, <1>4, <1>5, <1>6, <1>7, <1>8 DEF Committed, Database

(* Forget leaves a thread as it was at the start. *)
LEMMA ForgetType ==
  ASSUME TypeInv, NEW t \in Thread, Forget(t)
  PROVE  /\ pc' \in [Thread -> {"idle", "started", "worked", "event", "failed", "ended"}]
         /\ ret' \in [Thread -> Return]
         /\ snap' \in [Thread -> Database]
         /\ obj' \in [Thread -> Objects]
         /\ \A s \in Thread : DetailsReceived(s)'
<1>1. NoReturn \in Return /\ NoObjects \in Objects /\ NoObjects.seq = 0
  BY NoReturnType, NoObjectsType
<1>2. ASSUME NEW s \in Thread PROVE DetailsReceived(s)'
  BY <1>1 DEF TypeInv, TypeOK, Forget, DetailsReceived
<1> QED
  BY <1>1, <1>2, EmptyDatabaseType DEF TypeInv, TypeOK, Forget

(* The end of a unit puts its thread and the victims in a state of their    *)
(* own; the objects stay.                                                   *)
LEMMA EndedType ==
  ASSUME TypeInv, NEW t \in Thread, pc' = Ended(t), UNCHANGED <<ret, snap, obj>>
  PROVE  /\ pc' \in [Thread -> {"idle", "started", "worked", "event", "failed", "ended"}]
         /\ ret' \in [Thread -> Return]
         /\ snap' \in [Thread -> Database]
         /\ obj' \in [Thread -> Objects]
         /\ \A s \in Thread : DetailsReceived(s)'
<1>1. ASSUME NEW s \in Thread PROVE DetailsReceived(s)'
  BY DEF TypeInv, TypeOK, Ended, DetailsReceived
<1> QED
  BY <1>1 DEF TypeInv, TypeOK, Ended

LEMMA TypeInvInit == Init => TypeInv
<1> SUFFICES ASSUME Init PROVE TypeInv
  OBVIOUS
<1>1. TypeOK
  BY NoReturnType, NoObjectsType, EmptyDatabaseType, ConstantsAssumption DEF Init, TypeOK
<1>2. \A t \in Thread : DetailsReceived(t)
  BY NoObjectsType DEF Init, DetailsReceived
<1> QED
  BY <1>1, <1>2 DEF TypeInv

LEMMA TypeInvStep == TypeInv /\ [Next]_vars => TypeInv'
<1> SUFFICES ASSUME TypeInv, [Next]_vars PROVE TypeInv'
  OBVIOUS
<1>1. ASSUME NEW t \in Thread, NEW r \in Return, StartWork(t, r)
      PROVE  TypeInv'
  <2>1. db \in Database /\ CompositeOf[r] \in Composite
    BY ConstantsAssumption DEF TypeInv, TypeOK
  <2>2. ObjectsFor(CompositeOf[r], db) \in Objects /\ ObjectsFor(CompositeOf[r], db).seq = 0
    BY <2>1, ObjectsForType
  <2>3. ASSUME NEW s \in Thread PROVE DetailsReceived(s)'
    BY <1>1, <2>2 DEF TypeInv, TypeOK, StartWork, DetailsReceived
  <2>4. TypeOK'
    BY <1>1, <2>1, <2>2 DEF TypeInv, TypeOK, StartWork
  <2> QED
    BY <2>3, <2>4 DEF TypeInv
<1>2. ASSUME NEW t \in Thread, NEW r \in Return, AbandonWork(t, r)
      PROVE  TypeInv'
  <2>1. db' \in Database
    BY <1>2 DEF TypeInv, TypeOK, AbandonWork, Database
  <2>2. ASSUME NEW s \in Thread PROVE DetailsReceived(s)'
    BY <1>2 DEF TypeInv, AbandonWork, DetailsReceived
  <2> QED
    BY <1>2, <2>1, <2>2 DEF TypeInv, TypeOK, AbandonWork
<1>3. ASSUME NEW t \in Thread, ProcessWork(t)
      PROVE  TypeInv'
  <2>1. obj[t].mc \in MasterRow /\ obj \in [Thread -> Objects]
    BY <1>3 DEF TypeInv, TypeOK, Objects
  <2> DEFINE b == obj[t].mc.active /\ ret[t] \notin FactorIsNumber
             mc == [obj[t].mc EXCEPT !.active = b, !.toMaster = TRUE]
  <2>2. obj' \in [Thread -> Objects]
    <3>1. b \in BOOLEAN
      BY <2>1 DEF MasterRow
    <3>2. obj' = [obj EXCEPT ![t] = [obj[t] EXCEPT !.mc = mc]]
      BY <1>3, <2>1 DEF ProcessWork, Objects
    <3> HIDE DEF b
    <3>3. mc \in MasterRow
      BY <2>1, <3>1 DEF MasterRow
    <3> HIDE DEF mc
    <3>4. [obj[t] EXCEPT !.mc = mc] \in Objects
      BY <2>1, <3>3 DEF Objects
    <3> QED
      BY <2>1, <3>2, <3>4
  <2>3. ASSUME NEW s \in Thread PROVE DetailsReceived(s)'
    BY <1>3, <2>1 DEF TypeInv, TypeOK, ProcessWork, DetailsReceived
  <2> QED
    BY <1>3, <2>2, <2>3 DEF TypeInv, TypeOK, ProcessWork
<1>4. ASSUME NEW t \in Thread, ProcessFactorEvent(t)
      PROVE  TypeInv'
  <2>1. Details[ret[t]] \in Seq(Value)
    BY ConstantsAssumption DEF TypeInv, TypeOK
  <2>2. obj' \in [Thread -> Objects]
    <3>1. obj[t] \in Objects /\ obj \in [Thread -> Objects]
      BY DEF TypeInv, TypeOK
    <3> DEFINE n == obj[t].eventCount + 1
    <3>2. obj' = [obj EXCEPT ![t] = [obj[t] EXCEPT !.eventCount = n, !.event = n]]
      BY <1>4, <3>1 DEF ProcessFactorEvent, NextFactorEvent
    <3>3. n \in Nat
      BY <3>1 DEF Objects
    <3> HIDE DEF n
    <3>4. [obj[t] EXCEPT !.eventCount = n, !.event = n] \in Objects
      BY <3>1, <3>3 DEF Objects
    <3> QED
      BY <3>1, <3>2, <3>4
  <2>3. ASSUME NEW s \in Thread PROVE DetailsReceived(s)'
    BY <1>4, <2>1 DEF TypeInv, TypeOK, ProcessFactorEvent, DetailsReceived
  <2> QED
    BY <1>4, <2>2, <2>3 DEF TypeInv, TypeOK, ProcessFactorEvent
<1>5. ASSUME NEW t \in Thread, ProcessFactorEventDetail(t)
      PROVE  TypeInv'
  <2>1. Details[ret[t]] \in Seq(Value) /\ ret[t] \in Return
    BY ConstantsAssumption DEF TypeInv, TypeOK
  <2>2. obj[t] \in Objects /\ obj[t].mc \in MasterRow /\ obj[t].seq \in Nat
    BY DEF TypeInv, TypeOK, Objects
  <2>3. [ret |-> ret[t], seq |-> obj[t].seq + 1] \in Factor
    BY <2>1, <2>2 DEF Factor
  <2> DEFINE r == ret[t]
             i == obj[t].seq + 1
             dup == \E d \in snap[t].details : d.comp = CompositeOf[r] /\ d.value = Details[r][i]
             fs == IF CountsForMaster(r, i)
                     THEN obj[t].mc.factors \cup {[ret |-> r, seq |-> i]}
                     ELSE obj[t].mc.factors
             act == obj[t].mc.active /\ Recurse
             mc == [obj[t].mc EXCEPT !.factors = fs, !.active = act]
             o == [obj[t] EXCEPT !.seq = i, !.dup = dup, !.mc = mc]
  <2>4. obj \in [Thread -> Objects]
    BY DEF TypeInv, TypeOK
  <2>5. obj' = [obj EXCEPT ![t] = o]
    BY <1>5, <2>2, <2>4 DEF ProcessFactorEventDetail, Objects
  <2>6. o \in Objects /\ o.seq = i
    <3>1. fs \in SUBSET Factor
      BY <2>2, <2>3 DEF MasterRow
    <3>2. act \in BOOLEAN
      OBVIOUS
    <3> HIDE DEF fs, act
    <3>3. mc \in MasterRow
      BY <2>2, <3>1, <3>2 DEF MasterRow
    <3> HIDE DEF mc
    <3>4. dup \in BOOLEAN /\ i \in Nat
      BY <2>2
    <3> HIDE DEF dup, i
    <3> QED
      BY <2>2, <3>3, <3>4 DEF Objects
  <2>7. i \in 1..Len(Details[r])
    <3>1. i \in DOMAIN Details[r]
      BY <1>5 DEF ProcessFactorEventDetail
    <3> QED
      BY <2>1, <3>1
  <2> HIDE DEF o, i
  <2>8. obj' \in [Thread -> Objects]
    BY <2>4, <2>5, <2>6
  <2>9. ASSUME NEW s \in Thread PROVE DetailsReceived(s)'
    <3>1. pc' = pc /\ ret' = ret /\ pc[t] = "event"
      BY <1>5 DEF ProcessFactorEventDetail
    <3> QED
      BY <2>4, <2>5, <2>6, <2>7, <3>1 DEF TypeInv, TypeOK, DetailsReceived
  <2> QED
    BY <1>5, <2>8, <2>9 DEF TypeInv, TypeOK, ProcessFactorEventDetail
<1>6. ASSUME NEW t \in Thread, EndWork(t)
      PROVE  TypeInv'
  <2>1. db' \in Database
    BY <1>6, CommittedType DEF EndWork, CanEnd
  <2> QED
    BY <1>6, <2>1, EndedType DEF TypeInv, TypeOK, EndWork
<1>7. ASSUME NEW t \in Thread, EndWorkFails(t) \/ SendAccepted(t) \/ Rollback(t) \/ Disconnect(t)
      PROVE  TypeInv'
  <2>1. Forget(t) /\ UNCHANGED <<db, committed>>
    BY <1>7 DEF EndWorkFails, SendAccepted, Rollback, Disconnect
  <2>2. acked' \subseteq Return /\ trouble' \in 0..MaxTrouble
    BY <1>7, ConstantsAssumption
    DEF TypeInv, TypeOK, EndWorkFails, SendAccepted, Rollback, Disconnect
  <2> QED
    BY <2>1, <2>2, ForgetType DEF TypeInv, TypeOK
<1>8. ASSUME NEW t \in Thread, EndWorkWithoutDetail(t)
      PROVE  TypeInv'
  <2>1. db' \in Database
    <3>1. PICK d \in NewDetails(t) : db' = Committed(t, NewDetails(t) \ {d})
      BY <1>8 DEF EndWorkWithoutDetail
    <3> QED
      BY <1>8, <3>1, CommittedType DEF EndWorkWithoutDetail, CanEnd
  <2> QED
    BY <1>8, <2>1, EndedType DEF TypeInv, TypeOK, EndWorkWithoutDetail
<1>9. ASSUME NEW t \in Thread, EndWorkWithoutCommit(t)
      PROVE  TypeInv'
  <2>1. trouble' \in 0..MaxTrouble
    BY <1>9, ConstantsAssumption DEF TypeInv, TypeOK, EndWorkWithoutCommit
  <2> QED
    BY <1>9, <2>1, EndedType DEF TypeInv, TypeOK, EndWorkWithoutCommit
<1>10. ASSUME NEW t \in Thread, StatementFails(t)
       PROVE  TypeInv'
  <2>1. ASSUME NEW s \in Thread PROVE DetailsReceived(s)'
    BY <1>10 DEF TypeInv, TypeOK, StatementFails, DetailsReceived
  <2> QED
    BY <1>10, <2>1, ConstantsAssumption DEF TypeInv, TypeOK, StatementFails
<1>11. ASSUME ServerExits
       PROVE  TypeInv'
  <2>1. ASSUME NEW s \in Thread PROVE DetailsReceived(s)'
    BY <1>11, NoObjectsType DEF ServerExits, DetailsReceived
  <2> QED
    BY <1>11, <2>1, NoReturnType, NoObjectsType, EmptyDatabaseType, ConstantsAssumption
    DEF TypeInv, TypeOK, ServerExits
<1>12. CASE UNCHANGED vars
  <2>1. ASSUME NEW s \in Thread PROVE DetailsReceived(s)'
    BY <1>12 DEF TypeInv, DetailsReceived, vars
  <2> QED
    BY <1>12, <2>1 DEF TypeInv, TypeOK, vars
<1> QED
  BY <1>1, <1>2, <1>3, <1>4, <1>5, <1>6, <1>7, <1>8, <1>9, <1>10, <1>11, <1>12
  DEF Next, Proceed

(* The tables, snapshots and objects keep their types. *)
THEOREM TypeCorrect == Spec => []TypeOK
<1>1. Spec => []TypeInv
  BY TypeInvInit, TypeInvStep, PTL DEF Spec
<1>2. TypeInv => TypeOK
  BY DEF TypeInv
<1> QED
  BY <1>1, <1>2, PTL

-----------------------------------------------------------------------------
(***************************************************************************)
(* The steps, as far as the tables are concerned: a transaction commits, or *)
(* none of the tables below changes.                                        *)
(***************************************************************************)
CommitStep(t, inserted) ==
  /\ CanEnd(t)
  /\ db' = Committed(t, inserted)
  /\ committed' = committed \cup {ret[t]}
  /\ pc' = Ended(t)
  /\ UNCHANGED <<ret, snap, obj, acked, trouble>>

TablesUnchanged ==
  /\ db'.local = db.local
  /\ db'.mc = db.mc
  /\ db'.comp = db.comp
  /\ db'.stats = db.stats
  /\ db'.events = db.events
  /\ db'.details = db.details
  /\ committed' = committed

LEMMA StepCases ==
  ASSUME TypeInv, [Next]_vars
  PROVE  \/ TablesUnchanged
         \/ \E t \in Thread : \E inserted \in SUBSET NewDetails(t) : CommitStep(t, inserted)
<1>1. ASSUME NEW t \in Thread, NEW r \in Return, AbandonWork(t, r)
      PROVE  TablesUnchanged
  BY <1>1 DEF TypeInv, TypeOK, AbandonWork, Database, TablesUnchanged
<1>2. ASSUME NEW t \in Thread, EndWork(t)
      PROVE  CommitStep(t, NewDetails(t))
  BY <1>2 DEF EndWork, CommitStep
<1>3. ASSUME NEW t \in Thread, EndWorkWithoutDetail(t)
      PROVE  \E inserted \in SUBSET NewDetails(t) : CommitStep(t, inserted)
  <2>1. PICK d \in NewDetails(t) : db' = Committed(t, NewDetails(t) \ {d})
    BY <1>3 DEF EndWorkWithoutDetail
  <2>2. NewDetails(t) \ {d} \in SUBSET NewDetails(t)
    OBVIOUS
  <2> QED
    BY <1>3, <2>1, <2>2 DEF EndWorkWithoutDetail, CommitStep
<1>4. ASSUME UNCHANGED <<db, committed>>
      PROVE  TablesUnchanged
  BY <1>4 DEF TablesUnchanged
<1> QED
  BY <1>1, <1>2, <1>3, <1>4
  DEF Next, Proceed, vars, StartWork, ProcessWork, ProcessFactorEvent,
      ProcessFactorEventDetail, EndWorkFails, SendAccepted, Rollback,
      EndWorkWithoutCommit, StatementFails, Disconnect, ServerExits

(* What a commit writes, table by table. *)
LEMMA CommitTables ==
  ASSUME TypeInv, NEW t \in Thread, NEW inserted \in SUBSET NewDetails(t),
         CommitStep(t, inserted)
  PROVE  /\ ret[t] \in Return
         /\ db'.local = [db.local EXCEPT ![RowOf[ret[t]]] = WorkDone(t)]
         /\ db'.mc = [db.mc EXCEPT ![MasterFor(ret[t])] = MasterRowWritten(t, inserted)]
         /\ db'.comp = [db.comp EXCEPT ![CompositeOf[ret[t]]] = CompositeRowWritten(t)]
         /\ db'.stats = [db.stats EXCEPT ![UserOf[ret[t]]] =
                           [work |-> snap[t].stats[UserOf[ret[t]]].work \cup {ret[t]},
                            ver |-> @.ver + 1]]
         /\ db'.events = db.events \cup NewEvents(t)
         /\ db'.details = db.details \cup inserted
  BY DEF TypeInv, TypeOK, Database, CommitStep, Committed

-----------------------------------------------------------------------------
(***************************************************************************)
(* The curves, on any database.                                            *)
(***************************************************************************)
LEMMA CurvesStep == TypeInv /\ CurvesExact /\ [Next]_vars => CurvesExact'
<1> SUFFICES ASSUME TypeInv, CurvesExact, [Next]_vars, NEW k \in WorkRow
             PROVE  db'.local[k].curves = {r \in committed' : RowOf[r] = k}
  BY DEF CurvesExact
<1>1. CASE TablesUnchanged
  BY <1>1 DEF TablesUnchanged, CurvesExact
<1>2. ASSUME NEW t \in Thread, NEW inserted \in SUBSET NewDetails(t),
             CommitStep(t, inserted)
      PROVE  db'.local[k].curves = {r \in committed' : RowOf[r] = k}
  <2>1. /\ db'.local = [db.local EXCEPT ![RowOf[ret[t]]] = WorkDone(t)]
        /\ db.local \in [WorkRow -> WorkDoneRow]
        /\ committed' = committed \cup {ret[t]}
    BY <1>2, CommitTables DEF CommitStep, TypeInv, TypeOK, Database
  <2>2. db.local[k].curves = {r \in committed : RowOf[r] = k}
    BY DEF CurvesExact
  <2>3. CASE RowOf[ret[t]] = k
    <3>1. db'.local[k].curves = db.local[k].curves \cup {ret[t]}
      BY <2>1, <2>3 DEF WorkDone
    <3> QED
      BY <2>1, <2>2, <2>3, <3>1
  <2>4. CASE RowOf[ret[t]] # k
    BY <2>1, <2>2, <2>4
  <2> QED
    BY <2>3, <2>4
<1> QED
  BY <1>1, <1>2, StepCases

(* No curves of a committed return are lost, and none are counted that were *)
(* not committed: on PostgreSQL and on InnoDB, with failures that are       *)
(* noticed or overlooked, for any number of threads.                        *)
THEOREM CurvesCorrect == Spec => []CurvesExact
<1>1. Init => CurvesExact
  BY DEF Init, CurvesExact, EmptyDatabase
<1>2. TypeInv /\ CurvesExact /\ [Next]_vars => (TypeInv /\ CurvesExact)'
  BY TypeInvStep, CurvesStep
<1> QED
  BY <1>1, <1>2, TypeInvInit, PTL DEF Spec

-----------------------------------------------------------------------------
(***************************************************************************)
(* The answers.  A thread at "ended" is past its COMMIT, which may have     *)
(* failed; its unit is then as good as accepted.                            *)
(***************************************************************************)
Answered == acked \cup {ret[t] : t \in {s \in Thread : pc[s] = "ended"}}

AnswerInv ==
  /\ IsFiniteSet(Answered \ committed)
  /\ Cardinality(Answered \ committed) <= trouble

(* Fewer units are lost, or as many and one more failure, or one of each. *)
LEMMA LossStep ==
  ASSUME NEW A, NEW B, NEW r, NEW n \in Nat, NEW m \in Nat,
         IsFiniteSet(A), Cardinality(A) <= n,
         (B \subseteq A /\ n <= m) \/ (B \subseteq A \cup {r} /\ n + 1 <= m)
  PROVE  IsFiniteSet(B) /\ Cardinality(B) <= m
<1>1. Cardinality(A) \in Nat
  BY FS_CardinalityType
<1>2. CASE B \subseteq A /\ n <= m
  <2>1. IsFiniteSet(B) /\ Cardinality(B) <= Cardinality(A)
    BY <1>2, FS_Subset
  <2>2. Cardinality(B) \in Nat
    BY <2>1, FS_CardinalityType
  <2> QED
    BY <1>1, <1>2, <2>1, <2>2
<1>3. CASE B \subseteq A \cup {r} /\ n + 1 <= m
  <2>1. IsFiniteSet(A \cup {r}) /\ Cardinality(A \cup {r}) <= Cardinality(A) + 1
    BY <1>1, FS_AddElement
  <2>2. IsFiniteSet(B) /\ Cardinality(B) <= Cardinality(A \cup {r})
    BY <1>3, <2>1, FS_Subset
  <2>3. Cardinality(B) \in Nat /\ Cardinality(A \cup {r}) \in Nat
    BY <2>1, <2>2, FS_CardinalityType
  <2> QED
    BY <1>1, <1>3, <2>1, <2>2, <2>3
<1> QED
  BY <1>2, <1>3

(* What a step does to the units that are answered but not committed. *)
LEMMA AnsweredStep ==
  ASSUME TypeInv, [Next]_vars
  PROVE  \E r :
           \/ Answered' \ committed' \subseteq Answered \ committed /\ trouble <= trouble'
           \/ /\ Answered' \ committed' \subseteq (Answered \ committed) \cup {r}
              /\ trouble + 1 <= trouble'
<1> DEFINE Fewer == Answered' \ committed' \subseteq Answered \ committed /\ trouble <= trouble'
           More(r) == /\ Answered' \ committed' \subseteq (Answered \ committed) \cup {r}
                      /\ trouble + 1 <= trouble'
<1>0. /\ trouble \in Nat
      /\ pc \in [Thread -> {"idle", "started", "worked", "event", "failed", "ended"}]
      /\ \A t \in Thread : ret[t] \in Return
      /\ ret \in [Thread -> Return]
  BY ConstantsAssumption DEF TypeInv, TypeOK
<1>1. ASSUME NEW t \in Thread, EndWork(t) \/ EndWorkWithoutDetail(t)
      PROVE  Fewer
  BY <1>0, <1>1 DEF EndWork, EndWorkWithoutDetail, Ended, Answered
<1>2. ASSUME NEW t \in Thread, EndWorkWithoutCommit(t)
      PROVE  More(ret[t])
  BY <1>0, <1>2 DEF EndWorkWithoutCommit, Ended, Answered
<1>3. ASSUME NEW t \in Thread,
             EndWorkFails(t) \/ SendAccepted(t) \/ Rollback(t) \/ Disconnect(t)
      PROVE  Fewer
  BY <1>0, <1>3 DEF EndWorkFails, SendAccepted, Rollback, Disconnect, Forget, Answered
<1>4. ASSUME NEW t \in Thread, NEW r \in Return, StartWork(t, r) \/ AbandonWork(t, r)
      PROVE  Fewer
  BY <1>0, <1>4 DEF StartWork, AbandonWork, Answered
<1>5. ASSUME NEW t \in Thread,
             \/ ProcessWork(t) \/ ProcessFactorEvent(t)
             \/ ProcessFactorEventDetail(t) \/ StatementFails(t)
      PROVE  Fewer
  BY <1>0, <1>5 DEF ProcessWork, ProcessFactorEvent, ProcessFactorEventDetail, StatementFails,
              Answered
<1>6. CASE ServerExits
  BY <1>0, <1>6 DEF ServerExits, Answered
<1>7. CASE UNCHANGED vars
  BY <1>0, <1>7 DEF vars, Answered
<1>8. CASE Fewer
  BY <1>8
<1>9. ASSUME NEW r, More(r)
      PROVE  \E x : Fewer \/ More(x)
  BY <1>9
<1> QED
  BY <1>1, <1>2, <1>3, <1>4, <1>5, <1>6, <1>7, <1>8, <1>9 DEF Next, Proceed

LEMMA AnswerStep ==
  ASSUME TypeInv, AnswerInv, [Next]_vars
  PROVE  AnswerInv'
<1>1. trouble \in Nat /\ trouble' \in Nat
  <2>1. TypeInv'
    BY TypeInvStep
  <2> QED
    BY <2>1, ConstantsAssumption DEF TypeInv, TypeOK
<1> DEFINE A == Answered \ committed
           B == Answered' \ committed'
<1>2. PICK r : \/ B \subseteq A /\ trouble <= trouble'
               \/ B \subseteq A \cup {r} /\ trouble + 1 <= trouble'
  BY AnsweredStep
<1>3. IsFiniteSet(A) /\ Cardinality(A) <= trouble
  BY DEF AnswerInv
<1> HIDE DEF A, B
<1>4. IsFiniteSet(B) /\ Cardinality(B) <= trouble'
  BY <1>1, <1>2, <1>3, LossStep
<1> QED
  BY <1>4 DEF AnswerInv, B

(* A client lets go of a unit that is not in the database only when the     *)
(* COMMIT of that unit failed: on PostgreSQL and on InnoDB, whatever other  *)
(* threads do to the transaction and whatever else fails.                   *)
THEOREM AnswersCorrect == Spec => []OneLossPerFailure
<1>1. Init => AnswerInv
  <2> SUFFICES ASSUME Init PROVE AnswerInv
    OBVIOUS
  <2>1. Answered \ committed = {} /\ trouble = 0
    BY DEF Init, Answered
  <2> QED
    BY <2>1, FS_EmptySet DEF AnswerInv
<1>2. TypeInv /\ AnswerInv /\ [Next]_vars => (TypeInv /\ AnswerInv)'
  BY TypeInvStep, AnswerStep
<1>3. TypeInv /\ AnswerInv => OneLossPerFailure
  <2> SUFFICES ASSUME TypeInv, AnswerInv PROVE OneLossPerFailure
    OBVIOUS
  <2>1. acked \ committed \subseteq Answered \ committed
    BY DEF Answered
  <2>2. trouble \in Nat
    BY ConstantsAssumption DEF TypeInv, TypeOK
  <2>3. IsFiniteSet(acked \ committed) /\ Cardinality(acked \ committed) <= trouble
    BY <2>1, <2>2, LossStep DEF AnswerInv
  <2> QED
    BY <2>3 DEF OneLossPerFailure
<1> QED
  BY <1>1, <1>2, <1>3, TypeInvInit, PTL DEF Spec

-----------------------------------------------------------------------------
(***************************************************************************)
(* The columns that are written from memory, on PostgreSQL.  An UPDATE      *)
(* passes only when the row has the version of the snapshot, and then the   *)
(* snapshot's row is the committed one; the work rows of a master composite *)
(* change only together with its own row.                                   *)
(***************************************************************************)
Reading(t) == pc[t] \in {"started", "worked", "event"}

StatsSeen(t) ==
  \A u \in User :
    /\ snap[t].stats[u].ver <= db.stats[u].ver
    /\ snap[t].stats[u].ver = db.stats[u].ver => snap[t].stats[u] = db.stats[u]

WorkSeen(t) ==
  \A m \in Master :
    /\ snap[t].mc[m].ver <= db.mc[m].ver
    /\ snap[t].mc[m].ver = db.mc[m].ver =>
         \A k \in RowsOf(m) : snap[t].local[k] = db.local[k]

SnapshotInv == \A t \in Thread : Reading(t) => StatsSeen(t) /\ WorkSeen(t)

(* A thread that is reading after a step was reading before, with the same  *)
(* snapshot, unless it has just started.                                    *)
LEMMA ReadingStep ==
  ASSUME TypeInv, [Next]_vars, NEW t \in Thread, Reading(t)'
  PROVE  \/ snap'[t] = db /\ db' = db
         \/ Reading(t) /\ snap'[t] = snap[t] /\ ret'[t] = ret[t]
<1>1. ASSUME NEW s \in Thread, NEW r \in Return, StartWork(s, r)
      PROVE  \/ snap'[t] = db /\ db' = db
             \/ Reading(t) /\ snap'[t] = snap[t] /\ ret'[t] = ret[t]
  BY <1>1 DEF TypeInv, TypeOK, StartWork, Reading
<1>2. ASSUME NEW s \in Thread,
             EndWorkFails(s) \/ SendAccepted(s) \/ Rollback(s) \/ Disconnect(s)
      PROVE  Reading(t) /\ snap'[t] = snap[t] /\ ret'[t] = ret[t]
  BY <1>2 DEF TypeInv, TypeOK, EndWorkFails, SendAccepted, Rollback, Disconnect, Forget, Reading
<1>3. ASSUME NEW s \in Thread,
             \/ ProcessWork(s) \/ ProcessFactorEvent(s)
             \/ ProcessFactorEventDetail(s) \/ StatementFails(s)
      PROVE  Reading(t) /\ snap'[t] = snap[t] /\ ret'[t] = ret[t]
  BY <1>3 DEF TypeInv, TypeOK, ProcessWork, ProcessFactorEvent, ProcessFactorEventDetail,
              StatementFails, Reading
<1>4. ASSUME NEW s \in Thread,
             EndWork(s) \/ EndWorkWithoutDetail(s) \/ EndWorkWithoutCommit(s)
      PROVE  Reading(t) /\ snap'[t] = snap[t] /\ ret'[t] = ret[t]
  BY <1>4 DEF TypeInv, TypeOK, EndWork, EndWorkWithoutDetail, EndWorkWithoutCommit, Ended,
              Reading
<1>5. ASSUME NEW s \in Thread, NEW r \in Return, AbandonWork(s, r)
      PROVE  Reading(t) /\ snap'[t] = snap[t] /\ ret'[t] = ret[t]
  BY <1>5 DEF AbandonWork, Reading
<1>6. ~ServerExits
  BY DEF ServerExits, Reading
<1>7. CASE UNCHANGED vars
  BY <1>7 DEF vars, Reading
<1> QED
  BY <1>1, <1>2, <1>3, <1>4, <1>5, <1>6, <1>7 DEF Next, Proceed

LEMMA SnapshotStep ==
  ASSUME TypeInv, SnapshotInv, [Next]_vars
  PROVE  SnapshotInv'
<1> SUFFICES ASSUME NEW t \in Thread, Reading(t)'
             PROVE  StatsSeen(t)' /\ WorkSeen(t)'
  BY DEF SnapshotInv
<1>0. db \in Database /\ snap[t] \in Database
  BY DEF TypeInv, TypeOK
<1>1. CASE snap'[t] = db /\ db' = db
  <2>1. /\ \A u \in User : db.stats[u].ver \in Nat
        /\ \A m \in Master : db.mc[m].ver \in Nat
    BY <1>0 DEF Database, StatsRow, MasterRow
  <2> QED
    BY <1>1, <2>1 DEF StatsSeen, WorkSeen
<1>2. CASE Reading(t) /\ snap'[t] = snap[t] /\ ret'[t] = ret[t]
  <2>1. StatsSeen(t) /\ WorkSeen(t)
    BY <1>2 DEF SnapshotInv
  <2>2. CASE TablesUnchanged
    BY <1>2, <2>1, <2>2 DEF TablesUnchanged, StatsSeen, WorkSeen
  <2>3. ASSUME NEW s \in Thread, NEW inserted \in SUBSET NewDetails(s),
               CommitStep(s, inserted)
        PROVE  StatsSeen(t)' /\ WorkSeen(t)'
    <3> DEFINE r == ret[s]
               n == MasterFor(r)
    <3>1. /\ r \in Return
          /\ db'.local = [db.local EXCEPT ![RowOf[r]] = WorkDone(s)]
          /\ db'.mc = [db.mc EXCEPT ![n] = MasterRowWritten(s, inserted)]
          /\ db'.stats = [db.stats EXCEPT ![UserOf[r]] =
                           [work |-> snap[s].stats[UserOf[r]].work \cup {r},
                            ver |-> @.ver + 1]]
      BY <2>3, CommitTables
    <3>2. MasterRowWritten(s, inserted).ver = db.mc[n].ver + 1
      <4>1. obj[s].mc \in MasterRow
        BY DEF TypeInv, TypeOK, Objects
      <4> DEFINE w == WorkSum(s, EcmRowsOf(n))
                 f == obj[s].mc.fully \/ (NoneUnfactored(s) /\ NoneToRecurse(s, inserted))
                 v == db.mc[n].ver + 1
      <4>2. MasterRowWritten(s, inserted) =
              [obj[s].mc EXCEPT !.work = w, !.fully = f, !.ver = v]
        BY DEF MasterRowWritten
      <4> HIDE DEF w, f, v
      <4>3. MasterRowWritten(s, inserted).ver = v
        BY <4>1, <4>2 DEF MasterRow
      <4> QED
        BY <4>3 DEF v
    <3>3. StatsSeen(t)'
      <4> SUFFICES ASSUME NEW u \in User
                   PROVE  /\ snap[t].stats[u].ver <= db'.stats[u].ver
                          /\ snap[t].stats[u].ver = db'.stats[u].ver =>
                               snap[t].stats[u] = db'.stats[u]
        BY <1>2 DEF StatsSeen
      <4>1. db.stats \in [User -> StatsRow] /\ snap[t].stats[u].ver \in Nat
            /\ db.stats[u].ver \in Nat
        BY <1>0 DEF Database, StatsRow
      <4>2. /\ snap[t].stats[u].ver <= db.stats[u].ver
            /\ snap[t].stats[u].ver = db.stats[u].ver => snap[t].stats[u] = db.stats[u]
        BY <2>1 DEF StatsSeen
      <4>3. CASE u = UserOf[r]
        <5>1. db'.stats[u].ver = db.stats[u].ver + 1
          BY <3>1, <4>1, <4>3
        <5> QED
          BY <4>1, <4>2, <5>1
      <4>4. CASE u # UserOf[r]
        BY <3>1, <4>1, <4>2, <4>4
      <4> QED
        BY <4>3, <4>4
    <3>4. WorkSeen(t)'
      <4> SUFFICES ASSUME NEW m \in Master
                   PROVE  /\ snap[t].mc[m].ver <= db'.mc[m].ver
                          /\ snap[t].mc[m].ver = db'.mc[m].ver =>
                               \A k \in RowsOf(m) : snap[t].local[k] = db'.local[k]
        BY <1>2 DEF WorkSeen
      <4>1. /\ db.mc \in [Master -> MasterRow] /\ db.local \in [WorkRow -> WorkDoneRow]
            /\ snap[t].mc[m].ver \in Nat /\ db.mc[m].ver \in Nat
        BY <1>0 DEF Database, MasterRow
      <4>2. /\ snap[t].mc[m].ver <= db.mc[m].ver
            /\ snap[t].mc[m].ver = db.mc[m].ver =>
                 \A k \in RowsOf(m) : snap[t].local[k] = db.local[k]
        BY <2>1 DEF WorkSeen
      <4>3. CASE m = n
        <5>1. db'.mc[m].ver = db.mc[m].ver + 1
          BY <3>1, <3>2, <4>1, <4>3
        <5> QED
          BY <4>1, <4>2, <5>1
      <4>4. CASE m # n
        <5>1. db'.mc[m] = db.mc[m]
          BY <3>1, <4>1, <4>4
        <5>2. RowMaster[RowOf[r]] = n
          BY <3>1, ConstantsAssumption DEF MasterFor
        <5>3. \A k \in RowsOf(m) : db'.local[k] = db.local[k]
          BY <3>1, <4>1, <4>4, <5>2 DEF RowsOf
        <5> QED
          BY <4>2, <5>1, <5>3
      <4> QED
        BY <4>3, <4>4
    <3> QED
      BY <3>3, <3>4
  <2> QED
    BY <2>2, <2>3, StepCases
<1> QED
  BY <1>1, <1>2, ReadingStep

LEMMA SnapshotInit == Init => SnapshotInv
  BY DEF Init, SnapshotInv, Reading

LEMMA StatsStep ==
  ASSUME Postgres, TypeInv, SnapshotInv, StatsExact, [Next]_vars
  PROVE  StatsExact'
<1>1. CASE TablesUnchanged
  BY <1>1 DEF TablesUnchanged, StatsExact
<1>2. ASSUME NEW t \in Thread, NEW inserted \in SUBSET NewDetails(t),
             CommitStep(t, inserted)
      PROVE  StatsExact'
  <2> DEFINE r == ret[t]
             u == UserOf[r]
  <2>1. /\ r \in Return /\ u \in User
        /\ db'.stats = [db.stats EXCEPT ![u] =
                         [work |-> snap[t].stats[u].work \cup {r}, ver |-> @.ver + 1]]
        /\ committed' = committed \cup {r}
    BY <1>2, CommitTables, ConstantsAssumption DEF CommitStep
  <2>2. db.stats \in [User -> StatsRow]
    BY DEF TypeInv, TypeOK, Database
  <2>3. snap[t].stats[u].work = db.stats[u].work
    <3>1. Reading(t) /\ EndPasses(t)
      BY <1>2 DEF CommitStep, CanEnd, AllReceived, Reading
    <3>2. CASE snap[t].stats[u].work = {}
      BY <3>1, <3>2 DEF EndPasses
    <3>3. CASE snap[t].stats[u].work # {}
      <4>1. snap[t].stats[u].ver = db.stats[u].ver
        BY <3>1, <3>3 DEF EndPasses, Writable
      <4> QED
        BY <2>1, <3>1, <4>1 DEF SnapshotInv, StatsSeen
    <3> QED
      BY <3>2, <3>3
  <2>4. ASSUME NEW v \in User
        PROVE  db'.stats[v].work = {q \in committed' : UserOf[q] = v}
    <3>1. db.stats[v].work = {q \in committed : UserOf[q] = v}
      BY DEF StatsExact
    <3>2. CASE v = u
      <4>1. db'.stats[u].work = snap[t].stats[u].work \cup {r}
        <5>1. db'.stats[u] = [work |-> snap[t].stats[u].work \cup {r}, ver |-> db.stats[u].ver + 1]
          BY <2>1, <2>2
        <5> QED
          BY <5>1
      <4>2. db'.stats[u].work = {q \in committed : UserOf[q] = u} \cup {r}
        BY <2>3, <3>1, <3>2, <4>1
      <4> QED
        BY <2>1, <3>2, <4>2
    <3>3. CASE v # u
      BY <2>1, <2>2, <3>1, <3>3
    <3> QED
      BY <3>2, <3>3
  <2> QED
    BY <2>4 DEF StatsExact
<1> QED
  BY <1>1, <1>2, StepCases

(* On PostgreSQL the statistics of a user hold all of his committed returns *)
(* although they are computed in memory: a return computed from an old row  *)
(* is refused.                                                              *)
THEOREM StatsCorrect ==
  ASSUME Postgres
  PROVE  Spec => []StatsExact
<1>1. Init => StatsExact
  BY DEF Init, StatsExact, EmptyDatabase
<1>2. TypeInv /\ SnapshotInv /\ StatsExact /\ [Next]_vars
        => (TypeInv /\ SnapshotInv /\ StatsExact)'
  BY TypeInvStep, SnapshotStep, StatsStep
<1> QED
  BY <1>1, <1>2, TypeInvInit, SnapshotInit, PTL DEF Spec

LEMMA TotalWorkStep ==
  ASSUME Postgres, TypeInv, SnapshotInv, TotalWorkExact, [Next]_vars
  PROVE  TotalWorkExact'
<1>1. CASE TablesUnchanged
  BY <1>1 DEF TablesUnchanged, TotalWorkExact
<1>2. ASSUME NEW t \in Thread, NEW inserted \in SUBSET NewDetails(t),
             CommitStep(t, inserted)
      PROVE  TotalWorkExact'
  <2> DEFINE r == ret[t]
             n == MasterFor(r)
             k0 == RowOf[r]
  <2>1. /\ r \in Return /\ n \in Master /\ k0 \in WorkRow /\ RowMaster[k0] = n
        /\ db'.local = [db.local EXCEPT ![k0] = WorkDone(t)]
        /\ db'.mc = [db.mc EXCEPT ![n] = MasterRowWritten(t, inserted)]
    BY <1>2, CommitTables, ConstantsAssumption DEF MasterFor
  <2>2. db.mc \in [Master -> MasterRow] /\ db.local \in [WorkRow -> WorkDoneRow]
    BY DEF TypeInv, TypeOK, Database
  <2>3. \A k \in RowsOf(n) : snap[t].local[k] = db.local[k]
    <3>1. Reading(t) /\ EndPasses(t)
      BY <1>2 DEF CommitStep, CanEnd, AllReceived, Reading
    <3>2. snap[t].mc[n].ver = db.mc[n].ver
      BY <3>1 DEF EndPasses, Writable
    <3> QED
      BY <2>1, <3>1, <3>2 DEF SnapshotInv, WorkSeen
  <2>4. db'.local[k0].curves = db.local[k0].curves \cup {r}
    BY <2>1, <2>2 DEF WorkDone
  <2>5. \A k \in WorkRow \ {k0} : db'.local[k] = db.local[k]
    BY <2>1, <2>2
  <2>6. WorkSum(t, EcmRowsOf(n)) = UNION {db'.local[k].curves : k \in EcmRowsOf(n)}
    <3>1. \A k \in EcmRowsOf(n) :
            (IF k = RowOf[ret[t]] THEN db.local[k].curves \cup {ret[t]}
                                  ELSE snap[t].local[k].curves) = db'.local[k].curves
      BY <2>3, <2>4, <2>5 DEF EcmRowsOf, RowsOf
    <3> DEFINE S == EcmRowsOf(n)
               F(k) == IF k = RowOf[ret[t]] THEN db.local[k].curves \cup {ret[t]}
                                            ELSE snap[t].local[k].curves
               G(k) == db'.local[k].curves
    <3>2. \A k \in S : F(k) = G(k)
      BY <3>1
    <3> HIDE DEF S, F, G
    <3>3. {F(k) : k \in S} = {G(k) : k \in S}
      BY <3>2
    <3>4. UNION {F(k) : k \in S} = UNION {G(k) : k \in S}
      BY <3>3
    <3> USE DEF S, F, G
    <3> QED
      BY <3>4 DEF WorkSum
  <2>7. MasterRowWritten(t, inserted).work = WorkSum(t, EcmRowsOf(n))
    <3>1. obj[t].mc \in MasterRow
      BY DEF TypeInv, TypeOK, Objects
    <3> DEFINE w == WorkSum(t, EcmRowsOf(MasterFor(ret[t])))
               f == obj[t].mc.fully \/ (NoneUnfactored(t) /\ NoneToRecurse(t, inserted))
               v == db.mc[MasterFor(ret[t])].ver + 1
    <3>2. MasterRowWritten(t, inserted) =
            [obj[t].mc EXCEPT !.work = w, !.fully = f, !.ver = v]
      BY DEF MasterRowWritten
    <3>3. w = WorkSum(t, EcmRowsOf(n))
      OBVIOUS
    <3> HIDE DEF w, f, v
    <3>4. MasterRowWritten(t, inserted).work = w
      BY <3>1, <3>2 DEF MasterRow
    <3> QED
      BY <3>3, <3>4
  <2>8. ASSUME NEW m \in Master
        PROVE  db'.mc[m].work = UNION {db'.local[k].curves : k \in EcmRowsOf(m)}
    <3>1. CASE m = n
      BY <2>1, <2>2, <2>6, <2>7, <3>1
    <3>2. CASE m # n
      <4>1. db'.mc[m] = db.mc[m]
        BY <2>1, <2>2, <3>2
      <4>2. \A k \in EcmRowsOf(m) : db'.local[k].curves = db.local[k].curves
        BY <2>1, <2>5, <3>2 DEF EcmRowsOf, RowsOf
      <4>3. db.mc[m].work = UNION {db.local[k].curves : k \in EcmRowsOf(m)}
        BY DEF TotalWorkExact
      <4> QED
        BY <4>1, <4>2, <4>3
    <3> QED
      BY <3>1, <3>2
  <2> QED
    BY <2>8 DEF TotalWorkExact
<1> QED
  BY <1>1, <1>2, StepCases

(* On PostgreSQL TotalWorkDone is the sum of the ECM rows after every       *)
(* commit, although the sum is taken over a snapshot.                       *)
THEOREM TotalWorkCorrect ==
  ASSUME Postgres
  PROVE  Spec => []TotalWorkExact
<1>1. Init => TotalWorkExact
  <2> SUFFICES ASSUME Init, NEW m \in Master
               PROVE  db.mc[m].work = UNION {db.local[k].curves : k \in EcmRowsOf(m)}
    BY DEF TotalWorkExact
  <2>1. db.mc[m].work = {} /\ \A k \in EcmRowsOf(m) : db.local[k].curves = {}
    BY DEF Init, EmptyDatabase, EcmRowsOf, RowsOf
  <2> QED
    BY <2>1
<1>2. TypeInv /\ SnapshotInv /\ TotalWorkExact /\ [Next]_vars
        => (TypeInv /\ SnapshotInv /\ TotalWorkExact)'
  BY TypeInvStep, SnapshotStep, TotalWorkStep
<1> QED
  BY <1>1, <1>2, TypeInvInit, SnapshotInit, PTL DEF Spec
-----------------------------------------------------------------------------
(***************************************************************************)
(* The events and the other columns of MasterComposite, on PostgreSQL.      *)
(* They are written from memory too; what a thread has in memory is its     *)
(* snapshot and the lines it has received.                                  *)
(***************************************************************************)
(* The details of a composite's factor events, in a database.              *)
DetailsOf(d, c) == {x \in d.details : x.comp = c}

(* A master composite's row of the same version stands for the same row,    *)
(* the same composites and the same details.                                *)
RowsSeen(t) ==
  \A m \in Master :
    snap[t].mc[m].ver = db.mc[m].ver =>
      /\ snap[t].mc[m] = db.mc[m]
      /\ \A c \in Composite : MasterOf[c] = m =>
           /\ snap[t].comp[c] = db.comp[c]
           /\ DetailsOf(snap[t], c) = DetailsOf(db, c)

(* What a thread has in memory, against its snapshot: the factors counted   *)
(* for the lines received, no flag that the snapshot does not have, and the  *)
(* number of the event.                                                      *)
CountedOf(r, n) == {[ret |-> r, seq |-> i] : i \in {j \in 1..n : CountsForMaster(r, j)}}

Remembers(r, at, o, d) ==
  LET m == MasterFor(r) c == CompositeOf[r] IN
  /\ o.mc.factors = d.mc[m].factors \cup CountedOf(r, o.seq)
  /\ o.mc.fully = d.mc[m].fully
  /\ o.mc.active => /\ d.mc[m].active
                    /\ at # "started" => r \notin FactorIsNumber
                    /\ o.seq > 0 => Recurse
  /\ at = "event" => /\ o.event = d.comp[c].eventCount + 1
                     /\ o.eventCount = o.event
                     /\ Details[r] # <<>>
  /\ at # "event" => o.event = 0 /\ o.eventCount = d.comp[c].eventCount
  /\ at # "started" => d.comp[c].exists

InMemory(t) == Remembers(ret[t], pc[t], obj[t], snap[t])

ReadingInv ==
  \A t \in Thread : Reading(t) =>
    /\ ret[t] \notin committed
    /\ RowsSeen(t)
    /\ InMemory(t)
    /\ \A c \in Composite : snap[t].comp[c].exists <=> c \in Known

(* Two threads work on two returns.                                         *)
Apart == \A s, t \in Thread : s # t /\ pc[s] # "idle" /\ pc[t] # "idle" => ret[s] # ret[t]

TableInv ==
  /\ \A c \in Composite : db.comp[c].exists <=> c \in Known
  /\ \A d \in db.details : d.no \in 1..db.comp[d.comp].eventCount


(* What a step makes of a thread that goes on reading.                      *)
LEMMA ThreadStep ==
  ASSUME TypeInv, [Next]_vars, NEW t \in Thread, Reading(t)'
  PROVE  \/ Reading(t) /\ pc'[t] = pc[t] /\ ret'[t] = ret[t] /\ snap'[t] = snap[t] /\ obj'[t] = obj[t]
         \/ \E r \in Return : StartWork(t, r)
         \/ ProcessWork(t)
         \/ ProcessFactorEvent(t)
         \/ ProcessFactorEventDetail(t)
<1> DEFINE Same == Reading(t) /\ pc'[t] = pc[t] /\ ret'[t] = ret[t] /\ snap'[t] = snap[t] /\ obj'[t] = obj[t]
<1>1. ASSUME NEW s \in Thread, NEW r \in Return, StartWork(s, r), s # t
      PROVE  Same
  BY <1>1 DEF TypeInv, TypeOK, StartWork, Reading
<1>2. ASSUME NEW s \in Thread,
             EndWorkFails(s) \/ SendAccepted(s) \/ Rollback(s) \/ Disconnect(s)
      PROVE  Same
  BY <1>2 DEF TypeInv, TypeOK, EndWorkFails, SendAccepted, Rollback, Disconnect, Forget, Reading
<1>3. ASSUME NEW s \in Thread, s # t,
             \/ ProcessWork(s) \/ ProcessFactorEvent(s)
             \/ ProcessFactorEventDetail(s)
      PROVE  Same
  BY <1>3 DEF TypeInv, TypeOK, ProcessWork, ProcessFactorEvent, ProcessFactorEventDetail, Reading
<1>4. ASSUME NEW s \in Thread,
             EndWork(s) \/ EndWorkWithoutDetail(s) \/ EndWorkWithoutCommit(s)
      PROVE  Same
  BY <1>4 DEF TypeInv, TypeOK, EndWork, EndWorkWithoutDetail, EndWorkWithoutCommit, Ended, Reading
<1>5. ASSUME NEW s \in Thread, NEW r \in Return, AbandonWork(s, r)
      PROVE  Same
  BY <1>5 DEF AbandonWork, Reading
<1>6. ASSUME NEW s \in Thread, StatementFails(s)
      PROVE  Same
  BY <1>6 DEF TypeInv, TypeOK, StatementFails, Reading
<1>7. ~ServerExits
  BY DEF ServerExits, Reading
<1>8. CASE UNCHANGED vars
  BY <1>8 DEF vars, Reading
<1> QED
  BY <1>1, <1>2, <1>3, <1>4, <1>5, <1>6, <1>7, <1>8 DEF Next, Proceed

(* What is counted for the lines received: nothing, then one factor more.   *)
LEMMA Counted ==
  ASSUME NEW r \in Return, NEW n \in Nat
  PROVE  /\ CountedOf(r, 0) = {}
         /\ CountedOf(r, n + 1) = IF CountsForMaster(r, n + 1)
                                    THEN CountedOf(r, n) \cup {[ret |-> r, seq |-> n + 1]}
                                    ELSE CountedOf(r, n)
<1>1. 1..0 = {} /\ 1..(n + 1) = (1..n) \cup {n + 1}
  OBVIOUS
<1> QED
  BY <1>1 DEF CountedOf

LEMMA InMemoryStep ==
  ASSUME TypeInv, ReadingInv, [Next]_vars, NEW t \in Thread, Reading(t)'
  PROVE  InMemory(t)'
<1>1. CASE Reading(t) /\ pc'[t] = pc[t] /\ ret'[t] = ret[t] /\ snap'[t] = snap[t] /\ obj'[t] = obj[t]
  BY <1>1 DEF ReadingInv, InMemory
<1>2. ASSUME NEW r \in Return, StartWork(t, r)
      PROVE  InMemory(t)'
  <2>1. /\ pc'[t] = "started" /\ ret'[t] = r /\ snap'[t] = db
        /\ obj'[t] = ObjectsFor(CompositeOf[r], db)
    BY <1>2 DEF StartWork, TypeInv, TypeOK
  <2>2. /\ obj'[t].mc = db.mc[MasterFor(r)] /\ obj'[t].seq = 0 /\ obj'[t].event = 0
        /\ obj'[t].eventCount = db.comp[CompositeOf[r]].eventCount
    BY <2>1 DEF ObjectsFor, MasterFor
  <2>3. CountedOf(r, 0) = {}
    BY Counted
  <2> QED
    BY <2>1, <2>2, <2>3 DEF InMemory, Remembers
<1>3. ASSUME ProcessWork(t)
      PROVE  InMemory(t)'
  <2>1. /\ obj[t] \in Objects /\ obj[t].mc \in MasterRow /\ obj \in [Thread -> Objects] /\ pc[t] = "started"
        /\ InMemory(t) /\ pc'[t] = "worked" /\ ret'[t] = ret[t] /\ snap'[t] = snap[t] /\ WorkPasses(t)
        /\ obj[t].seq = 0
    BY <1>3 DEF ProcessWork, TypeInv, TypeOK, DetailsReceived, Objects, ReadingInv, Reading
  <2>2. PICK mc \in MasterRow : mc = obj[t].mc
    BY <2>1
  <2>3. PICK b \in BOOLEAN : b = (mc.active /\ ret[t] \notin FactorIsNumber)
    BY DEF MasterRow
  <2>4. PICK new \in MasterRow : /\ new = [mc EXCEPT !.active = b, !.toMaster = TRUE]
                                 /\ new.active = b /\ new.factors = mc.factors /\ new.fully = mc.fully
    <3>1. /\ [mc EXCEPT !.active = b, !.toMaster = TRUE] \in MasterRow
          /\ [mc EXCEPT !.active = b, !.toMaster = TRUE].active = b
          /\ [mc EXCEPT !.active = b, !.toMaster = TRUE].factors = mc.factors
          /\ [mc EXCEPT !.active = b, !.toMaster = TRUE].fully = mc.fully
      BY DEF MasterRow
    <3> QED
      BY <3>1
  <2>5. obj' = [obj EXCEPT ![t].mc = new]
    BY <1>3, <2>2, <2>3, <2>4 DEF ProcessWork
  <2>6. /\ obj'[t].mc = new /\ obj'[t].seq = obj[t].seq /\ obj'[t].event = obj[t].event
        /\ obj'[t].eventCount = obj[t].eventCount
    BY <2>1, <2>5 DEF Objects
  <2>7. PICK o1, d : o1 = obj'[t] /\ d = snap[t]
    OBVIOUS
  <2>8. PICK r \in Return, o \in Objects : r = ret[t] /\ o = obj[t]
    BY <2>1 DEF TypeInv, TypeOK
  <2>9. /\ o1.mc = new /\ o1.seq = o.seq /\ o1.event = o.event /\ o1.eventCount = o.eventCount
        /\ o.seq = 0 /\ o.mc = mc
    BY <2>1, <2>2, <2>6, <2>7, <2>8
  <2>10. Remembers(r, "started", o, d) /\ d.comp[CompositeOf[r]].exists
    BY <2>1, <2>7, <2>8 DEF InMemory, WorkPasses
  <2>11. /\ new.active => mc.active /\ r \notin FactorIsNumber
         /\ new.factors = mc.factors /\ new.fully = mc.fully
    BY <2>3, <2>4, <2>8
  <2>12. Remembers(r, "worked", o1, d)
    BY ONLY <2>9, <2>10, <2>11 DEF Remembers
  <2> QED
    BY <2>1, <2>7, <2>8, <2>12 DEF InMemory
<1>4. ASSUME ProcessFactorEvent(t)
      PROVE  InMemory(t)'
  <2>1. /\ obj[t] \in Objects /\ obj \in [Thread -> Objects] /\ pc[t] = "worked"
        /\ InMemory(t) /\ pc'[t] = "event" /\ ret'[t] = ret[t] /\ snap'[t] = snap[t] /\ Details[ret[t]] # <<>>
    BY <1>4 DEF ProcessFactorEvent, TypeInv, TypeOK, ReadingInv, Reading
  <2>2. PICK o \in Objects, n \in Nat : o = obj[t] /\ n = o.eventCount + 1
    BY <2>1 DEF Objects
  <2>3. obj' = [obj EXCEPT ![t] = [o EXCEPT !.eventCount = n, !.event = n]]
    BY <1>4, <2>2 DEF ProcessFactorEvent, NextFactorEvent
  <2>4. /\ [o EXCEPT !.eventCount = n, !.event = n].mc = o.mc
        /\ [o EXCEPT !.eventCount = n, !.event = n].seq = o.seq
        /\ [o EXCEPT !.eventCount = n, !.event = n].event = n
        /\ [o EXCEPT !.eventCount = n, !.event = n].eventCount = n
    BY DEF Objects
  <2>5. /\ obj'[t].mc = o.mc /\ obj'[t].seq = o.seq /\ obj'[t].event = n /\ obj'[t].eventCount = n
    BY <2>1, <2>3, <2>4
  <2> QED
    BY <2>1, <2>2, <2>5 DEF InMemory, Remembers
<1>5. ASSUME ProcessFactorEventDetail(t)
      PROVE  InMemory(t)'
  <2>1. /\ obj[t] \in Objects /\ obj \in [Thread -> Objects] /\ pc[t] = "event"
        /\ InMemory(t) /\ pc'[t] = "event" /\ ret'[t] = ret[t] /\ snap'[t] = snap[t] /\ ret[t] \in Return
    BY <1>5 DEF ProcessFactorEventDetail, TypeInv, TypeOK, ReadingInv, Reading
  <2>2. PICK o \in Objects, mc \in MasterRow, r \in Return, i \in Nat, n \in Nat :
          o = obj[t] /\ mc = o.mc /\ r = ret[t] /\ n = o.seq /\ i = n + 1
    BY <2>1 DEF Objects
  <2>3. PICK dup \in BOOLEAN : dup = \E d \in snap[t].details : d.comp = CompositeOf[r] /\ d.value = Details[r][i]
    OBVIOUS
  <2>4. PICK act \in BOOLEAN : act = (mc.active /\ Recurse)
    OBVIOUS
  <2>5. PICK fs : fs = IF CountsForMaster(r, i) THEN mc.factors \cup {[ret |-> r, seq |-> i]} ELSE mc.factors
    OBVIOUS
  <2>6. PICK new : /\ new = [mc EXCEPT !.factors = fs, !.active = act]
                   /\ new.factors = fs /\ new.active = act /\ new.fully = mc.fully
    <3>1. /\ [mc EXCEPT !.factors = fs, !.active = act].factors = fs
          /\ [mc EXCEPT !.factors = fs, !.active = act].active = act
          /\ [mc EXCEPT !.factors = fs, !.active = act].fully = mc.fully
      BY DEF MasterRow
    <3> QED
      BY <3>1
  <2>7. obj' = [obj EXCEPT ![t] = [o EXCEPT !.seq = i, !.dup = dup, !.mc = new]]
    BY <1>5, <2>2, <2>3, <2>4, <2>5, <2>6 DEF ProcessFactorEventDetail
  <2>8. /\ [o EXCEPT !.seq = i, !.dup = dup, !.mc = new].mc = new
        /\ [o EXCEPT !.seq = i, !.dup = dup, !.mc = new].seq = i
        /\ [o EXCEPT !.seq = i, !.dup = dup, !.mc = new].event = o.event
        /\ [o EXCEPT !.seq = i, !.dup = dup, !.mc = new].eventCount = o.eventCount
    BY DEF Objects
  <2>9. /\ obj'[t].mc = new /\ obj'[t].seq = i /\ obj'[t].event = o.event /\ obj'[t].eventCount = o.eventCount
    BY <2>1, <2>7, <2>8
  <2>10. new.factors = snap[t].mc[MasterFor(r)].factors \cup CountedOf(r, i)
    <3>1. mc.factors = snap[t].mc[MasterFor(r)].factors \cup CountedOf(r, n)
      BY <2>1, <2>2 DEF InMemory, Remembers
    <3>2. CountedOf(r, i) = IF CountsForMaster(r, i) THEN CountedOf(r, n) \cup {[ret |-> r, seq |-> i]}
                                                     ELSE CountedOf(r, n)
      BY <2>2, Counted
    <3> QED
      BY <2>5, <2>6, <3>1, <3>2
  <2>11. PICK o1, d : o1 = obj'[t] /\ d = snap[t]
    OBVIOUS
  <2>12. /\ o1.mc = new /\ o1.seq = i /\ o1.event = o.event /\ o1.eventCount = o.eventCount
         /\ new.factors = d.mc[MasterFor(r)].factors \cup CountedOf(r, i)
         /\ o.mc = mc
    BY <2>2, <2>9, <2>10, <2>11
  <2>13. Remembers(r, "event", o, d)
    BY <2>1, <2>2, <2>11 DEF InMemory
  <2>14. new.active => mc.active /\ Recurse
    BY <2>4, <2>6
  <2>15. new.fully = mc.fully
    BY <2>6
  <2>16. Remembers(r, "event", o1, d)
    BY ONLY <2>12, <2>13, <2>14, <2>15 DEF Remembers
  <2> QED
    BY <2>1, <2>2, <2>11, <2>16 DEF InMemory
<1> QED
  BY <1>1, <1>2, <1>3, <1>4, <1>5, ThreadStep

(* The columns of MasterComposite that EndWork leaves as they are in memory. *)
LEMMA RowWritten ==
  ASSUME TypeInv, NEW t \in Thread, NEW inserted
  PROVE  LET new == MasterRowWritten(t, inserted) mc == obj[t].mc IN
         /\ new.ver = db.mc[MasterFor(ret[t])].ver + 1
         /\ new.factors = mc.factors
         /\ new.active = mc.active
         /\ new.fully <=> mc.fully \/ (NoneUnfactored(t) /\ NoneToRecurse(t, inserted))
<1>1. obj[t].mc \in MasterRow
  BY DEF TypeInv, TypeOK, Objects
<1> DEFINE w == WorkSum(t, EcmRowsOf(MasterFor(ret[t])))
           f == obj[t].mc.fully \/ (NoneUnfactored(t) /\ NoneToRecurse(t, inserted))
           v == db.mc[MasterFor(ret[t])].ver + 1
<1>2. MasterRowWritten(t, inserted) = [obj[t].mc EXCEPT !.work = w, !.fully = f, !.ver = v]
  BY DEF MasterRowWritten
<1> HIDE DEF w, f, v
<1>3. PICK mc \in MasterRow : mc = obj[t].mc
  BY <1>1
<1>4. PICK new : new = [mc EXCEPT !.work = w, !.fully = f, !.ver = v]
  OBVIOUS
<1>5. new.ver = v /\ new.factors = mc.factors /\ new.active = mc.active /\ new.fully = f
  BY <1>4 DEF MasterRow
<1>6. MasterRowWritten(t, inserted) = new
  BY <1>2, <1>3, <1>4
<1> USE DEF w, f, v
<1> QED
  BY <1>3, <1>5, <1>6

(* On PostgreSQL a statement that fails is never overlooked.                *)
LEMMA PostgresCases ==
  ASSUME Postgres, TypeInv, [Next]_vars
  PROVE  TablesUnchanged \/ \E t \in Thread : CommitStep(t, NewDetails(t))
<1>1. ASSUME NEW t \in Thread, NEW r \in Return, AbandonWork(t, r)
      PROVE  TablesUnchanged
  BY <1>1 DEF TypeInv, TypeOK, AbandonWork, Database, TablesUnchanged
<1>2. ASSUME NEW t \in Thread, EndWork(t)
      PROVE  CommitStep(t, NewDetails(t))
  BY <1>2 DEF EndWork, CommitStep
<1>3. ASSUME UNCHANGED <<db, committed>>
      PROVE  TablesUnchanged
  BY <1>3 DEF TablesUnchanged
<1> QED
  BY <1>1, <1>2, <1>3
  DEF Next, Proceed, vars, StartWork, ProcessWork, ProcessFactorEvent,
      ProcessFactorEventDetail, EndWorkFails, SendAccepted, Rollback,
      EndWorkWithoutDetail, EndWorkWithoutCommit, StatementFails, Disconnect, ServerExits

(* A commit for another master composite leaves the rows alone; one for the *)
(* same master composite gives its row a version no snapshot has.           *)
LEMMA RowsSeenStep ==
  ASSUME TypeInv, SnapshotInv, ReadingInv, [Next]_vars, NEW t \in Thread, Reading(t)'
  PROVE  RowsSeen(t)'
<1>1. CASE snap'[t] = db /\ db' = db
  BY <1>1 DEF RowsSeen
<1>2. CASE Reading(t) /\ snap'[t] = snap[t] /\ ret'[t] = ret[t]
  <2>1. RowsSeen(t) /\ WorkSeen(t)
    BY <1>2 DEF ReadingInv, SnapshotInv
  <2>2. CASE TablesUnchanged
    BY <1>2, <2>1, <2>2 DEF TablesUnchanged, RowsSeen, DetailsOf
  <2>3. ASSUME NEW s \in Thread, NEW inserted \in SUBSET NewDetails(s),
               CommitStep(s, inserted)
        PROVE  RowsSeen(t)'
    <3>1. PICK r \in Return, c0 \in Composite, n \in Master :
            r = ret[s] /\ c0 = CompositeOf[r] /\ n = MasterFor(r) /\ n = MasterOf[c0]
      <4>1. ret[s] \in Return
        BY DEF TypeInv, TypeOK
      <4>2. CompositeOf[ret[s]] \in Composite
        BY <4>1, ConstantsAssumption
      <4>3. MasterFor(ret[s]) \in Master
        BY <4>2, ConstantsAssumption DEF MasterFor
      <4> QED
        BY <4>1, <4>2, <4>3 DEF MasterFor
    <3>2. /\ db'.mc = [db.mc EXCEPT ![n] = MasterRowWritten(s, inserted)]
          /\ db'.comp = [db.comp EXCEPT ![c0] = CompositeRowWritten(s)]
          /\ db'.details = db.details \cup inserted
          /\ MasterRowWritten(s, inserted).ver = db.mc[n].ver + 1
      <4>1. /\ db'.mc = [db.mc EXCEPT ![MasterFor(ret[s])] = MasterRowWritten(s, inserted)]
            /\ db'.comp = [db.comp EXCEPT ![CompositeOf[ret[s]]] = CompositeRowWritten(s)]
            /\ db'.details = db.details \cup inserted
        BY <2>3, CommitTables
      <4>2. MasterRowWritten(s, inserted).ver = db.mc[MasterFor(ret[s])].ver + 1
        BY RowWritten
      <4> QED
        BY <3>1, <4>1, <4>2
    <3>3. /\ db.mc \in [Master -> MasterRow]
          /\ db.comp \in [Composite -> CompositeRow]
          /\ snap[t].mc \in [Master -> MasterRow]
      BY DEF TypeInv, TypeOK, Database
    <3>4. \A d \in inserted : d.comp = c0
      BY <3>1 DEF NewDetails
    <3>5. SUFFICES ASSUME NEW m \in Master, snap[t].mc[m].ver = db'.mc[m].ver
                   PROVE  /\ snap[t].mc[m] = db'.mc[m]
                          /\ \A c \in Composite : MasterOf[c] = m =>
                               /\ snap[t].comp[c] = db'.comp[c]
                               /\ DetailsOf(snap[t], c) = DetailsOf(db', c)
      BY <1>2 DEF RowsSeen
    <3>6. m # n
      <4>1. snap[t].mc[n].ver \in Nat /\ db.mc[n].ver \in Nat
        BY <3>3 DEF MasterRow
      <4>2. snap[t].mc[n].ver <= db.mc[n].ver
        BY <2>1 DEF WorkSeen
      <4>3. db'.mc[n].ver = db.mc[n].ver + 1
        BY <3>2, <3>3
      <4> QED
        BY <3>5, <4>1, <4>2, <4>3
    <3>7. db'.mc[m] = db.mc[m]
      BY <3>2, <3>3, <3>6
    <3>8. /\ snap[t].mc[m] = db.mc[m]
          /\ \A c \in Composite : MasterOf[c] = m =>
               snap[t].comp[c] = db.comp[c] /\ DetailsOf(snap[t], c) = DetailsOf(db, c)
      BY <2>1, <3>5, <3>7 DEF RowsSeen
    <3>9. ASSUME NEW c \in Composite, MasterOf[c] = m
          PROVE  db'.comp[c] = db.comp[c] /\ DetailsOf(db', c) = DetailsOf(db, c)
      <4>1. c # c0
        BY <3>1, <3>6, <3>9
      <4>2. db'.comp[c] = db.comp[c]
        BY <3>2, <3>3, <4>1
      <4>3. DetailsOf(db', c) = DetailsOf(db, c)
        BY <3>2, <3>4, <4>1 DEF DetailsOf
      <4> QED
        BY <4>2, <4>3
    <3> QED
      BY <3>7, <3>8, <3>9
  <2> QED
    BY <2>2, <2>3, StepCases
<1> QED
  BY <1>1, <1>2, ReadingStep

LEMMA ApartStep ==
  ASSUME TypeInv, Apart, [Next]_vars
  PROVE  Apart'
<1>1. ASSUME NEW t \in Thread, NEW r \in Return, StartWork(t, r)
      PROVE  Apart'
  BY <1>1 DEF TypeInv, TypeOK, StartWork, Apart
<1>2. ASSUME NEW t \in Thread,
             EndWorkFails(t) \/ SendAccepted(t) \/ Rollback(t) \/ Disconnect(t)
      PROVE  Apart'
  BY <1>2 DEF TypeInv, TypeOK, EndWorkFails, SendAccepted, Rollback, Disconnect, Forget, Apart
<1>3. ASSUME NEW t \in Thread,
             \/ ProcessWork(t) \/ ProcessFactorEvent(t)
             \/ ProcessFactorEventDetail(t) \/ StatementFails(t)
      PROVE  Apart'
  BY <1>3 DEF TypeInv, TypeOK, ProcessWork, ProcessFactorEvent, ProcessFactorEventDetail,
              StatementFails, Apart
<1>4. ASSUME NEW t \in Thread,
             EndWork(t) \/ EndWorkWithoutDetail(t) \/ EndWorkWithoutCommit(t)
      PROVE  Apart'
  <2>1. pc[t] # "idle" /\ pc' = Ended(t) /\ ret' = ret
    BY <1>4 DEF EndWork, EndWorkWithoutDetail, EndWorkWithoutCommit, CanEnd, AllReceived
  <2>2. \A s \in Thread : pc'[s] # "idle" => pc[s] # "idle"
    BY <2>1 DEF Ended, Victims, HoldsParent
  <2> QED
    BY <2>1, <2>2 DEF Apart
<1>5. ASSUME NEW t \in Thread, NEW r \in Return, AbandonWork(t, r)
      PROVE  Apart'
  BY <1>5 DEF AbandonWork, Apart
<1>6. ASSUME ServerExits
      PROVE  Apart'
  BY <1>6 DEF ServerExits, Apart
<1>7. CASE UNCHANGED vars
  BY <1>7 DEF vars, Apart
<1> QED
  BY <1>1, <1>2, <1>3, <1>4, <1>5, <1>6, <1>7 DEF Next, Proceed

(* A return that is being read was not committed.                           *)
LEMMA FreshStep ==
  ASSUME TypeInv, ReadingInv, Apart, [Next]_vars, NEW t \in Thread, Reading(t)'
  PROVE  ret'[t] \notin committed'
<1>1. ASSUME NEW r \in Return, StartWork(t, r)
      PROVE  ret'[t] \notin committed'
  BY <1>1 DEF StartWork, TypeInv, TypeOK
<1>2. ASSUME ProcessWork(t) \/ ProcessFactorEvent(t) \/ ProcessFactorEventDetail(t)
      PROVE  ret'[t] \notin committed'
  <2>1. Reading(t) /\ UNCHANGED <<ret, committed>>
    BY <1>2 DEF ProcessWork, ProcessFactorEvent, ProcessFactorEventDetail, Reading
  <2> QED
    BY <2>1 DEF ReadingInv
<1>3. CASE Reading(t) /\ pc'[t] = pc[t] /\ ret'[t] = ret[t]
  <2>1. ret[t] \notin committed
    BY <1>3 DEF ReadingInv
  <2>2. CASE TablesUnchanged
    BY <1>3, <2>1, <2>2 DEF TablesUnchanged
  <2>3. ASSUME NEW s \in Thread, NEW inserted \in SUBSET NewDetails(s),
               CommitStep(s, inserted)
        PROVE  ret'[t] \notin committed'
    <3>1. pc[s] # "idle" /\ pc'[s] = "ended" /\ committed' = committed \cup {ret[s]}
      BY <2>3 DEF CommitStep, CanEnd, AllReceived, Ended
    <3>2. s # t /\ pc[t] # "idle"
      BY <1>3, <3>1 DEF Reading
    <3>3. ret[s] # ret[t]
      BY <3>1, <3>2 DEF Apart
    <3> QED
      BY <1>3, <2>1, <3>1, <3>3
  <2> QED
    BY <2>2, <2>3, StepCases
<1> QED
  BY <1>1, <1>2, <1>3, ThreadStep

LEMMA KnownStep ==
  ASSUME TypeInv, ReadingInv, TableInv, [Next]_vars
  PROVE  \A c \in Composite : db'.comp[c].exists <=> c \in Known
<1>1. CASE TablesUnchanged
  BY <1>1 DEF TablesUnchanged, TableInv
<1>2. ASSUME NEW t \in Thread, NEW inserted \in SUBSET NewDetails(t),
             CommitStep(t, inserted)
      PROVE  \A c \in Composite : db'.comp[c].exists <=> c \in Known
  <2>1. PICK r \in Return, c0 \in Composite : r = ret[t] /\ c0 = CompositeOf[r]
    BY <1>2, CommitTables, ConstantsAssumption
  <2>2. db'.comp = [db.comp EXCEPT ![c0] = CompositeRowWritten(t)]
    BY <1>2, <2>1, CommitTables
  <2>3. db.comp \in [Composite -> CompositeRow] /\ CompositeRowWritten(t).exists
    BY DEF TypeInv, TypeOK, Database, CompositeRowWritten
  <2>4. pc[t] \in {"worked", "event"}
    BY <1>2 DEF CommitStep, CanEnd, AllReceived
  <2>5. Remembers(r, pc[t], obj[t], snap[t]) /\ (snap[t].comp[c0].exists <=> c0 \in Known)
    BY <2>1, <2>4 DEF ReadingInv, Reading, InMemory
  <2>6. c0 \in Known
    BY <2>1, <2>4, <2>5 DEF Remembers
  <2> QED
    BY <2>2, <2>3, <2>6 DEF TableInv
<1> QED
  BY <1>1, <1>2, StepCases

-----------------------------------------------------------------------------
(* The detail rows of a return whose event has number k.                    *)
DetailRows(r, k) ==
  {[comp |-> CompositeOf[r], no |-> k, seq |-> i, value |-> Details[r][i],
    recursed |-> FALSE] : i \in DOMAIN Details[r]}

(* What one commit makes of the tables: the return is new, its factor event  *)
(* takes the number after the last one, and the row of the master composite  *)
(* is computed from the committed rows.                                      *)
Taken(t, r, c, n, dup) ==
  LET k == db.comp[c].eventCount + 1 IN
  /\ r \notin committed
  /\ committed' = committed \cup {r}
  /\ db'.comp = [db.comp EXCEPT ![c] = CompositeRowWritten(t)]
  /\ db'.mc = [db.mc EXCEPT ![n] = MasterRowWritten(t, NewDetails(t))]
  /\ \/ /\ Details[r] = <<>>
        /\ db'.comp[c].eventCount = db.comp[c].eventCount
        /\ NewDetails(t) = {}
        /\ db'.events = db.events
        /\ db'.details = db.details
     \/ /\ Details[r] # <<>>
        /\ db'.comp[c].eventCount = k
        /\ NewDetails(t) = DetailRows(r, k)
        /\ db'.events = db.events \cup {[comp |-> c, no |-> k, ret |-> r, dup |-> dup]}
        /\ db'.details = db.details \cup DetailRows(r, k)

SeenRows(t, n) ==
  /\ snap[t].mc[n] = db.mc[n]
  /\ \A c \in Composite : MasterOf[c] = n =>
       snap[t].comp[c] = db.comp[c] /\ DetailsOf(snap[t], c) = DetailsOf(db, c)

LEMMA CommitSees ==
  ASSUME Postgres, TypeInv, ReadingInv, NEW t \in Thread, CommitStep(t, NewDetails(t)),
         ret[t] \in Return
  PROVE  /\ pc[t] \in {"worked", "event"} /\ Reading(t)
         /\ ret[t] \notin committed
         /\ SeenRows(t, MasterFor(ret[t]))
         /\ InMemory(t)
         /\ \A c \in Composite : snap[t].comp[c].exists <=> c \in Known
         /\ Details[ret[t]] \in Seq(Value)
         /\ obj[t].seq = Len(Details[ret[t]])
<1>1. pc[t] \in {"worked", "event"} /\ Reading(t) /\ EndPasses(t) /\ AllReceived(t)
  BY DEF CommitStep, CanEnd, AllReceived, Reading
<1>2. MasterFor(ret[t]) \in Master /\ Details[ret[t]] \in Seq(Value)
  BY ConstantsAssumption DEF MasterFor
<1>3. snap[t].mc[MasterFor(ret[t])].ver = db.mc[MasterFor(ret[t])].ver
  BY <1>1 DEF EndPasses, Writable
<1>4. /\ ret[t] \notin committed /\ RowsSeen(t) /\ InMemory(t)
      /\ \A c \in Composite : snap[t].comp[c].exists <=> c \in Known
  BY <1>1 DEF ReadingInv
<1>5. SeenRows(t, MasterFor(ret[t]))
  BY <1>2, <1>3, <1>4 DEF RowsSeen, SeenRows
<1>6. obj[t].seq = Len(Details[ret[t]])
  BY <1>1, <1>2 DEF AllReceived, TypeInv, DetailsReceived
<1> QED
  BY <1>1, <1>2, <1>4, <1>5, <1>6

LEMMA CommitTaken ==
  ASSUME Postgres, TypeInv, ReadingInv, NEW t \in Thread, CommitStep(t, NewDetails(t))
  PROVE  LET r == ret[t] IN
         /\ r \in Return /\ CompositeOf[r] \in Composite /\ MasterFor(r) \in Master
         /\ MasterFor(r) = MasterOf[CompositeOf[r]]
         /\ obj[t].dup \in BOOLEAN
         /\ Taken(t, r, CompositeOf[r], MasterFor(r), obj[t].dup)
<1>1. PICK r \in Return, c \in Composite, n \in Master, k \in Nat, o \in Objects :
        /\ r = ret[t] /\ c = CompositeOf[r] /\ n = MasterFor(r) /\ n = MasterOf[c]
        /\ k = db.comp[c].eventCount /\ o = obj[t]
  <2>1. ret[t] \in Return /\ obj[t] \in Objects /\ db.comp \in [Composite -> CompositeRow]
    BY DEF TypeInv, TypeOK, Database
  <2>2. CompositeOf[ret[t]] \in Composite /\ MasterFor(ret[t]) \in Master
    BY <2>1, ConstantsAssumption DEF MasterFor
  <2>3. db.comp[CompositeOf[ret[t]]].eventCount \in Nat
    BY <2>1, <2>2 DEF CompositeRow
  <2> QED
    BY <2>1, <2>2, <2>3 DEF MasterFor
<1>2. /\ db'.mc = [db.mc EXCEPT ![n] = MasterRowWritten(t, NewDetails(t))]
      /\ db'.comp = [db.comp EXCEPT ![c] = CompositeRowWritten(t)]
      /\ db'.events = db.events \cup NewEvents(t)
      /\ db'.details = db.details \cup NewDetails(t)
  <2>1. /\ db'.mc = [db.mc EXCEPT ![MasterFor(ret[t])] = MasterRowWritten(t, NewDetails(t))]
        /\ db'.comp = [db.comp EXCEPT ![CompositeOf[ret[t]]] = CompositeRowWritten(t)]
        /\ db'.events = db.events \cup NewEvents(t)
        /\ db'.details = db.details \cup NewDetails(t)
    BY CommitTables
  <2> QED
    BY <1>1, <2>1
<1>3. committed' = committed \cup {r}
  BY <1>1 DEF CommitStep
<1>4. /\ pc[t] \in {"worked", "event"}
      /\ r \notin committed
      /\ SeenRows(t, n)
      /\ InMemory(t)
      /\ Details[r] \in Seq(Value) /\ o.seq = Len(Details[r])
  BY <1>1, CommitSees
<1>5. snap[t].comp[c].eventCount = k
  BY <1>1, <1>4 DEF SeenRows
<1>6. db'.comp[c].eventCount = o.eventCount
  <2>1. CompositeRowWritten(t).eventCount = o.eventCount /\ db.comp \in [Composite -> CompositeRow]
    BY <1>1 DEF CompositeRowWritten, TypeInv, TypeOK, Database
  <2> QED
    BY <1>2, <2>1
<1>7. CASE Details[r] = <<>>
  <2>1. pc[t] # "event"
    BY <1>1, <1>4, <1>7 DEF InMemory, Remembers
  <2>2. o.event = 0 /\ o.eventCount = k
    BY <1>1, <1>4, <1>5, <2>1 DEF InMemory, Remembers
  <2>3. o.seq = 0
    BY <1>4, <1>7
  <2>4. NewDetails(t) = {} /\ NewEvents(t) = {}
    BY <1>1, <2>2, <2>3 DEF NewDetails, NewEvents
  <2>5. Taken(t, r, c, n, o.dup)
    BY <1>1, <1>2, <1>3, <1>4, <1>6, <1>7, <2>2, <2>4 DEF Taken
  <2>6. o.dup \in BOOLEAN
    BY DEF Objects
  <2> QED
    BY <1>1, <2>5, <2>6
<1>8. CASE Details[r] # <<>>
  <2>1. pc[t] = "event"
    BY <1>1, <1>4, <1>8 DEF CommitStep, CanEnd, AllReceived
  <2>2. o.event = k + 1 /\ o.eventCount = k + 1
    BY <1>1, <1>4, <1>5, <2>1 DEF InMemory, Remembers
  <2>3. NewDetails(t) = DetailRows(r, k + 1)
    <3>1. DOMAIN Details[r] = 1..o.seq
      BY <1>4
    <3> QED
      BY <1>1, <2>2, <3>1 DEF NewDetails, DetailRows
  <2>4. NewEvents(t) = {[comp |-> c, no |-> k + 1, ret |-> r, dup |-> o.dup]}
    BY <1>1, <2>2 DEF NewEvents
  <2>5. Taken(t, r, c, n, o.dup)
    BY <1>1, <1>2, <1>3, <1>4, <1>6, <1>8, <2>2, <2>3, <2>4 DEF Taken
  <2>6. o.dup \in BOOLEAN
    BY DEF Objects
  <2> QED
    BY <1>1, <2>5, <2>6
<1> QED
  BY <1>7, <1>8

LEMMA NumberedStep ==
  ASSUME Postgres, TypeInv, ReadingInv, TableInv, [Next]_vars
  PROVE  \A d \in db'.details : d.no \in 1..db'.comp[d.comp].eventCount
<1>1. CASE TablesUnchanged
  BY <1>1 DEF TablesUnchanged, TableInv
<1>2. ASSUME NEW t \in Thread, CommitStep(t, NewDetails(t))
      PROVE  \A d \in db'.details : d.no \in 1..db'.comp[d.comp].eventCount
  <2>1. PICK r \in Return, c \in Composite, n \in Master, dup \in BOOLEAN :
          Taken(t, r, c, n, dup) /\ c = CompositeOf[r]
    BY <1>2, CommitTaken
  <2>2. /\ db.comp \in [Composite -> CompositeRow] /\ db.details \subseteq Detail
        /\ \A d \in db.details : d.no \in 1..db.comp[d.comp].eventCount
    BY DEF TypeInv, TypeOK, Database, TableInv
  <2>3. PICK k \in Nat : k = db.comp[c].eventCount
    BY <2>2 DEF CompositeRow
  <2>4. /\ \A x \in Composite : x # c => db'.comp[x] = db.comp[x]
        /\ db'.comp[c].eventCount \in {k, k + 1}
    BY <2>1, <2>2, <2>3 DEF Taken
  <2>5. ASSUME NEW d \in db.details
        PROVE  d.no \in 1..db'.comp[d.comp].eventCount
    <3>1. d.no \in 1..db.comp[d.comp].eventCount /\ d.comp \in Composite
      BY <2>2 DEF Detail
    <3> QED
      BY <2>3, <2>4, <3>1
  <2>6. CASE db'.details = db.details
    BY <2>5, <2>6
  <2>7. CASE /\ db'.comp[c].eventCount = k + 1
             /\ db'.details = db.details \cup DetailRows(r, k + 1)
    <3>1. \A d \in DetailRows(r, k + 1) : d.comp = c /\ d.no = k + 1
      BY <2>1 DEF DetailRows
    <3>2. k + 1 \in 1..(k + 1)
      OBVIOUS
    <3> QED
      BY <2>5, <2>7, <3>1, <3>2
  <2> QED
    BY <2>1, <2>3, <2>6, <2>7 DEF Taken
<1> QED
  BY <1>1, <1>2, PostgresCases

(* The invariant that the tables are computed from memory under.            *)
MemoryInv == TypeInv /\ SnapshotInv /\ ReadingInv /\ Apart /\ TableInv

LEMMA MemoryInit == Init => MemoryInv
<1> SUFFICES ASSUME Init PROVE MemoryInv
  OBVIOUS
<1>1. ReadingInv /\ Apart
  BY DEF Init, ReadingInv, Reading, Apart
<1>2. TableInv
  BY DEF Init, EmptyDatabase, TableInv
<1> QED
  BY <1>1, <1>2, TypeInvInit, SnapshotInit DEF MemoryInv

LEMMA MemoryStep ==
  ASSUME Postgres, MemoryInv, [Next]_vars
  PROVE  MemoryInv'
<1>1. ReadingInv'
  <2> SUFFICES ASSUME NEW t \in Thread, Reading(t)'
               PROVE  /\ ret'[t] \notin committed'
                      /\ RowsSeen(t)'
                      /\ InMemory(t)'
                      /\ \A c \in Composite : snap'[t].comp[c].exists <=> c \in Known
    BY DEF ReadingInv
  <2>1. \A c \in Composite : snap'[t].comp[c].exists <=> c \in Known
    <3>1. CASE snap'[t] = db
      BY <3>1 DEF MemoryInv, TableInv
    <3>2. CASE Reading(t) /\ snap'[t] = snap[t]
      BY <3>2 DEF MemoryInv, ReadingInv
    <3> QED
      BY <3>1, <3>2, ReadingStep DEF MemoryInv
  <2> QED
    BY <2>1, FreshStep, RowsSeenStep, InMemoryStep DEF MemoryInv
<1>2. TableInv'
  BY KnownStep, NumberedStep DEF MemoryInv, TableInv
<1> QED
  BY <1>1, <1>2, TypeInvStep, SnapshotStep, ApartStep DEF MemoryInv

-----------------------------------------------------------------------------
(* Storing an event under a number that is not taken leaves the details of  *)
(* the others alone.                                                         *)
LEMMA EventTablesStep ==
  ASSUME Postgres, MemoryInv, EventTablesExact, [Next]_vars
  PROVE  EventTablesExact'
<1>1. CASE TablesUnchanged
  BY <1>1 DEF TablesUnchanged, EventTablesExact, EventsExact, EventCountExact, DetailsStored
<1>2. ASSUME NEW t \in Thread, CommitStep(t, NewDetails(t))
      PROVE  EventTablesExact'
  <2>1. PICK r \in Return, c \in Composite, n \in Master, dup \in BOOLEAN :
          Taken(t, r, c, n, dup) /\ c = CompositeOf[r]
    BY <1>2, CommitTaken DEF MemoryInv
  <2>2. /\ db.comp \in [Composite -> CompositeRow] /\ db.details \subseteq Detail
        /\ db.events \subseteq Event
        /\ \A d \in db.details : d.no \in 1..db.comp[d.comp].eventCount
    BY DEF MemoryInv, TypeInv, TypeOK, Database, TableInv
  <2>3. PICK k \in Nat : k = db.comp[c].eventCount
    BY <2>2 DEF CompositeRow
  <2>4. /\ \A x \in Composite : x # c => db'.comp[x] = db.comp[x]
        /\ r \notin committed /\ committed' = committed \cup {r}
    BY <2>1, <2>2 DEF Taken
  <2>5. /\ {e.ret : e \in db.events} = {q \in committed : Details[q] # <<>>}
        /\ \A e, f \in db.events : e.ret = f.ret => e = f
        /\ \A e \in db.events : e.comp = CompositeOf[e.ret] /\ DetailsStored(e)
        /\ \A x \in Composite :
             {e.no : e \in {y \in db.events : y.comp = x}} = 1..db.comp[x].eventCount
    BY DEF EventTablesExact, EventsExact, EventCountExact
  <2>6. CASE /\ Details[r] = <<>>
             /\ db'.comp[c].eventCount = db.comp[c].eventCount
             /\ db'.events = db.events
             /\ db'.details = db.details
    <3>1. {q \in committed' : Details[q] # <<>>} = {q \in committed : Details[q] # <<>>}
      BY <2>4, <2>6
    <3>2. \A e \in db.events : DetailsStored(e)'
      BY <2>5, <2>6 DEF DetailsStored
    <3>3. EventsExact'
      BY <2>5, <2>6, <3>1, <3>2 DEF EventsExact
    <3>4. \A x \in Composite : db'.comp[x].eventCount = db.comp[x].eventCount
      BY <2>4, <2>6
    <3>5. EventCountExact'
      BY <2>5, <2>6, <3>4 DEF EventCountExact
    <3> QED
      BY <3>3, <3>5 DEF EventTablesExact
  <2>7. CASE /\ Details[r] # <<>>
             /\ db'.comp[c].eventCount = k + 1
             /\ db'.events = db.events \cup {[comp |-> c, no |-> k + 1, ret |-> r, dup |-> dup]}
             /\ db'.details = db.details \cup DetailRows(r, k + 1)
    <3>1. PICK e0 : /\ e0 = [comp |-> c, no |-> k + 1, ret |-> r, dup |-> dup]
                    /\ e0.comp = c /\ e0.no = k + 1 /\ e0.ret = r
      <4>1. /\ [comp |-> c, no |-> k + 1, ret |-> r, dup |-> dup].comp = c
            /\ [comp |-> c, no |-> k + 1, ret |-> r, dup |-> dup].no = k + 1
            /\ [comp |-> c, no |-> k + 1, ret |-> r, dup |-> dup].ret = r
        OBVIOUS
      <4> QED
        BY <4>1
    <3>2. db'.events = db.events \cup {e0}
      BY <2>7, <3>1
    <3>3. {e.ret : e \in db'.events} = {q \in committed' : Details[q] # <<>>}
      <4>1. {e.ret : e \in db'.events} = {e.ret : e \in db.events} \cup {r}
        BY <3>1, <3>2
      <4>2. {q \in committed' : Details[q] # <<>>} = {q \in committed : Details[q] # <<>>} \cup {r}
        BY <2>4, <2>7
      <4> QED
        BY <2>5, <4>1, <4>2
    <3>4. \A e \in db.events : e.ret # r
      BY <2>4, <2>5
    <3>5. \A e, f \in db'.events : e.ret = f.ret => e = f
      BY <2>5, <3>1, <3>2, <3>4
    <3>6. \A d \in DetailRows(r, k + 1) : d.comp = c /\ d.no = k + 1
      BY <2>1 DEF DetailRows
    <3>7. ASSUME NEW e \in db.events
          PROVE  DetailsStored(e)'
      <4>1. ~(e.comp = c /\ e.no = k + 1)
        <5>1. SUFFICES ASSUME e.comp = c, e.no = k + 1 PROVE FALSE
          OBVIOUS
        <5>2. e.no \in 1..k
          BY <2>3, <2>5, <5>1
        <5> QED
          BY <5>1, <5>2
      <4>2. {x \in db'.details : x.comp = e.comp /\ x.no = e.no}
              = {x \in db.details : x.comp = e.comp /\ x.no = e.no}
        BY <2>7, <3>6, <4>1
      <4>3. DetailsStored(e)
        BY <2>5
      <4> QED
        BY <4>2, <4>3 DEF DetailsStored
    <3>8. DetailsStored(e0)'
      <4>1. \A d \in db.details : ~(d.comp = c /\ d.no = k + 1)
        BY <2>2, <2>3
      <4>2. {x \in db'.details : x.comp = e0.comp /\ x.no = e0.no} = DetailRows(r, k + 1)
        BY <2>7, <3>1, <3>6, <4>1
      <4>3. {<<d.seq, d.value>> : d \in DetailRows(r, k + 1)}
              = {<<i, Details[r][i]>> : i \in DOMAIN Details[r]}
        <5>1. ASSUME NEW d \in DetailRows(r, k + 1)
              PROVE  \E i \in DOMAIN Details[r] : d.seq = i /\ d.value = Details[r][i]
          BY DEF DetailRows
        <5>2. ASSUME NEW i \in DOMAIN Details[r]
              PROVE  \E d \in DetailRows(r, k + 1) : d.seq = i /\ d.value = Details[r][i]
          <6> DEFINE d == [comp |-> CompositeOf[r], no |-> k + 1, seq |-> i,
                           value |-> Details[r][i], recursed |-> FALSE]
          <6>1. d \in DetailRows(r, k + 1)
            BY DEF DetailRows
          <6>2. d.seq = i /\ d.value = Details[r][i]
            OBVIOUS
          <6> QED
            BY <6>1, <6>2
        <5> QED
          BY <5>1, <5>2
      <4> QED
        BY <3>1, <4>2, <4>3 DEF DetailsStored
    <3>9. EventsExact'
      BY <2>1, <2>5, <3>1, <3>2, <3>3, <3>5, <3>7, <3>8 DEF EventsExact
    <3>10. ASSUME NEW x \in Composite
           PROVE  {e.no : e \in {y \in db'.events : y.comp = x}} = 1..db'.comp[x].eventCount
      <4>1. {e.no : e \in {y \in db.events : y.comp = x}} = 1..db.comp[x].eventCount
        BY <2>5
      <4>2. CASE x = c
        <5>1. {e.no : e \in {y \in db'.events : y.comp = x}}
                = {e.no : e \in {y \in db.events : y.comp = x}} \cup {k + 1}
          BY <3>1, <3>2, <4>2
        <5>2. 1..(k + 1) = (1..k) \cup {k + 1}
          OBVIOUS
        <5> QED
          BY <2>3, <2>7, <4>1, <4>2, <5>1, <5>2
      <4>3. CASE x # c
        <5>1. {y \in db'.events : y.comp = x} = {y \in db.events : y.comp = x}
          BY <3>1, <3>2, <4>3
        <5> QED
          BY <2>4, <4>1, <4>3, <5>1
      <4> QED
        BY <4>2, <4>3
    <3> QED
      BY <3>9, <3>10 DEF EventTablesExact, EventCountExact
  <2> QED
    BY <2>1, <2>3, <2>6, <2>7 DEF Taken
<1> QED
  BY <1>1, <1>2, PostgresCases DEF MemoryInv

LEMMA EventTablesInit == Init => EventTablesExact
<1> SUFFICES ASSUME Init PROVE EventTablesExact
  OBVIOUS
<1>1. db.events = {} /\ db.details = {} /\ committed = {}
  BY DEF Init, EmptyDatabase
<1>2. \A c \in Composite : db.comp[c].eventCount = 0
  BY DEF Init, EmptyDatabase
<1>3. 1..0 = {}
  OBVIOUS
<1>4. EventCountExact
  BY <1>1, <1>2, <1>3 DEF EventCountExact
<1>5. EventsExact
  BY <1>1 DEF EventsExact
<1> QED
  BY <1>4, <1>5 DEF EventTablesExact

(* On PostgreSQL the event tables hold the factor events of exactly the     *)
(* committed returns, each once and with all its details, numbered without  *)
(* a gap, although every thread numbers its event from memory and           *)
(* MasterComposite::Lock excludes nobody.                                    *)
THEOREM EventTablesCorrect ==
  ASSUME Postgres
  PROVE  Spec => []EventTablesExact
<1>1. MemoryInv /\ EventTablesExact /\ [Next]_vars => (MemoryInv /\ EventTablesExact)'
  BY MemoryStep, EventTablesStep
<1> QED
  BY <1>1, MemoryInit, EventTablesInit, PTL DEF Spec

-----------------------------------------------------------------------------
(* The factors that count for a master composite, of the returns in R.      *)
CountedFactors(R, m) ==
  {f \in UNION {[ret : {q}, seq : DOMAIN Details[q]] : q \in R} :
     /\ MasterFor(f.ret) = m
     /\ CompositeOf[f.ret] # m => f.seq # 1}

LEMMA OneMoreCounted ==
  ASSUME NEW R \in SUBSET Return, NEW r \in Return, NEW m \in Master
  PROVE  CountedFactors(R \cup {r}, m)
           = CountedFactors(R, m)
               \cup (IF MasterFor(r) = m THEN CountedOf(r, Len(Details[r])) ELSE {})
<1>1. Details[r] \in Seq(Value) /\ DOMAIN Details[r] = 1..Len(Details[r])
  BY ConstantsAssumption
<1>2. CountedFactors(R \cup {r}, m) = CountedFactors(R, m) \cup CountedFactors({r}, m)
  BY DEF CountedFactors
<1>3. CASE MasterFor(r) # m
  <2>1. \A f \in CountedFactors({r}, m) : f.ret = r /\ MasterFor(f.ret) = m
    BY DEF CountedFactors
  <2>2. CountedFactors({r}, m) = {}
    BY <1>3, <2>1
  <2> QED
    BY <1>2, <1>3, <2>2
<1>4. CASE MasterFor(r) = m
  <2>1. ASSUME NEW f \in CountedFactors({r}, m)
        PROVE  f \in CountedOf(r, Len(Details[r]))
    <3>1. f \in [ret : {r}, seq : 1..Len(Details[r])] /\ (CompositeOf[f.ret] # m => f.seq # 1)
      BY <1>1 DEF CountedFactors
    <3>2. PICK i \in 1..Len(Details[r]) : i = f.seq /\ f = [ret |-> r, seq |-> i]
      BY <3>1
    <3>3. CountsForMaster(r, i)
      BY <1>4, <3>1, <3>2 DEF CountsForMaster
    <3> QED
      BY <3>2, <3>3 DEF CountedOf
  <2>2. ASSUME NEW f \in CountedOf(r, Len(Details[r]))
        PROVE  f \in CountedFactors({r}, m)
    <3>1. PICK i \in 1..Len(Details[r]) : CountsForMaster(r, i) /\ f = [ret |-> r, seq |-> i]
      BY DEF CountedOf
    <3>2. f.ret = r /\ f.seq = i /\ f \in [ret : {r}, seq : DOMAIN Details[r]]
      BY <1>1, <3>1
    <3>3. CompositeOf[r] # m => i # 1
      BY <1>4, <3>1 DEF CountsForMaster
    <3> QED
      BY <1>4, <3>2, <3>3 DEF CountedFactors
  <2> QED
    BY <1>2, <1>4, <2>1, <2>2
<1> QED
  BY <1>3, <1>4

LEMMA FactorCountStep ==
  ASSUME Postgres, MemoryInv, FactorCountExact, [Next]_vars
  PROVE  FactorCountExact'
<1>1. CASE TablesUnchanged
  BY <1>1 DEF TablesUnchanged, FactorCountExact
<1>2. ASSUME NEW t \in Thread, CommitStep(t, NewDetails(t))
      PROVE  FactorCountExact'
  <2>1. PICK r \in Return, c \in Composite, n \in Master, dup \in BOOLEAN :
          /\ Taken(t, r, c, n, dup)
          /\ r = ret[t] /\ c = CompositeOf[r] /\ n = MasterFor(r) /\ n = MasterOf[c]
    BY <1>2, CommitTaken DEF MemoryInv
  <2>2. PICK o \in Objects : o = obj[t] /\ db.mc \in [Master -> MasterRow] /\ committed \subseteq Return
    BY DEF MemoryInv, TypeInv, TypeOK, Database
  <2>3. db'.mc[n].factors = o.mc.factors
    <3>1. MasterRowWritten(t, NewDetails(t)).factors = o.mc.factors
      BY <2>2, RowWritten DEF MemoryInv
    <3> QED
      BY <2>1, <2>2, <3>1 DEF Taken
  <2>4. o.mc.factors = db.mc[n].factors \cup CountedOf(r, Len(Details[r]))
    <3>1. SeenRows(t, n) /\ InMemory(t) /\ o.seq = Len(Details[r])
      BY <1>2, <2>1, <2>2, CommitSees DEF MemoryInv
    <3> QED
      BY <2>1, <2>2, <3>1 DEF SeenRows, InMemory, Remembers
  <2>5. ASSUME NEW m \in Master
        PROVE  db'.mc[m].factors = CountedFactors(committed', m)
    <3>1. db.mc[m].factors = CountedFactors(committed, m)
      BY DEF FactorCountExact, CountedFactors
    <3>2. committed' = committed \cup {r}
      BY <2>1 DEF Taken
    <3>3. CountedFactors(committed', m)
            = CountedFactors(committed, m)
                \cup (IF n = m THEN CountedOf(r, Len(Details[r])) ELSE {})
      <4>1. PICK R \in SUBSET Return, q \in Return : R = committed /\ q = r
        BY <2>2
      <4>2. CountedFactors(R \cup {q}, m)
              = CountedFactors(R, m)
                  \cup (IF MasterFor(q) = m THEN CountedOf(q, Len(Details[q])) ELSE {})
        BY ONLY OneMoreCounted, R \in SUBSET Return, q \in Return, m \in Master
      <4> QED
        BY ONLY <4>1, <4>2, <3>2, <2>1
    <3>4. CASE m = n
      BY <2>3, <2>4, <3>1, <3>3, <3>4
    <3>5. CASE m # n
      <4>1. db'.mc[m] = db.mc[m]
        BY <2>1, <2>2, <3>5 DEF Taken
      <4> QED
        BY <3>1, <3>3, <3>5, <4>1
    <3> QED
      BY <3>4, <3>5
  <2> QED
    BY <2>5 DEF FactorCountExact, CountedFactors
<1> QED
  BY <1>1, <1>2, PostgresCases DEF MemoryInv

LEMMA DeactivationStep ==
  ASSUME Postgres, MemoryInv, DeactivationKept, [Next]_vars
  PROVE  DeactivationKept'
<1>1. CASE TablesUnchanged
  BY <1>1 DEF TablesUnchanged, DeactivationKept
<1>2. ASSUME NEW t \in Thread, CommitStep(t, NewDetails(t))
      PROVE  DeactivationKept'
  <2>1. PICK r \in Return, c \in Composite, n \in Master, dup \in BOOLEAN :
          /\ Taken(t, r, c, n, dup)
          /\ r = ret[t] /\ c = CompositeOf[r] /\ n = MasterFor(r) /\ n = MasterOf[c]
    BY <1>2, CommitTaken DEF MemoryInv
  <2>2. PICK o \in Objects : o = obj[t] /\ db.mc \in [Master -> MasterRow] /\ committed \subseteq Return
    BY DEF MemoryInv, TypeInv, TypeOK, Database
  <2>3. db'.mc[n].active = o.mc.active
    <3>1. MasterRowWritten(t, NewDetails(t)).active = o.mc.active
      BY <2>2, RowWritten DEF MemoryInv
    <3> QED
      BY <2>1, <2>2, <3>1 DEF Taken
  <2>4. /\ pc[t] \in {"worked", "event"} /\ SeenRows(t, n) /\ InMemory(t)
        /\ Details[r] \in Seq(Value) /\ o.seq = Len(Details[r])
    BY <1>2, <2>1, <2>2, CommitSees DEF MemoryInv
  <2>5. o.mc.active => /\ db.mc[n].active
                       /\ r \notin FactorIsNumber
                       /\ o.seq > 0 => Recurse
    BY <2>1, <2>2, <2>4 DEF SeenRows, InMemory, Remembers
  <2>6. Details[r] # <<>> => o.seq > 0
    BY <2>4
  <2>7. \A m \in Master : m # n => db'.mc[m] = db.mc[m]
    BY <2>1, <2>2 DEF Taken
  <2>8. committed' = committed \cup {r}
    BY <2>1 DEF Taken
  <2>9. ASSUME NEW q \in committed', q \in FactorIsNumber \/ (~Recurse /\ Details[q] # <<>>)
        PROVE  ~db'.mc[MasterFor(q)].active
    <3>1. CASE q = r
      BY <2>1, <2>3, <2>5, <2>6, <2>9, <3>1
    <3>2. CASE q \in committed
      <4>1. ~db.mc[MasterFor(q)].active
        BY <2>9, <3>2 DEF DeactivationKept
      <4>2. MasterFor(q) \in Master
        BY <2>2, <3>2, ConstantsAssumption DEF MasterFor
      <4> QED
        BY <2>3, <2>5, <2>7, <4>1, <4>2
    <3> QED
      BY <2>8, <3>1, <3>2
  <2> QED
    BY <2>9 DEF DeactivationKept
<1> QED
  BY <1>1, <1>2, PostgresCases DEF MemoryInv

(* The composites of a master composite that the database has, each with    *)
(* an event, by their counts.                                                *)
LEMMA EventsByCount ==
  ASSUME NEW d \in Database, NEW m \in Master,
         \A c \in Composite :
           {e.no : e \in {x \in d.events : x.comp = c}} = 1..d.comp[c].eventCount
  PROVE  (\A c \in Known : MasterOf[c] = m => \E e \in d.events : e.comp = c)
           <=> \A c \in Composite : MasterOf[c] = m /\ c \in Known => d.comp[c].eventCount # 0
<1>1. ASSUME NEW c \in Composite
      PROVE  (\E e \in d.events : e.comp = c) <=> d.comp[c].eventCount # 0
  <2>1. PICK k \in Nat : k = d.comp[c].eventCount
    BY DEF Database, CompositeRow
  <2>2. {e.no : e \in {x \in d.events : x.comp = c}} = 1..k
    BY <2>1
  <2>3. 1..k # {} <=> k # 0
    OBVIOUS
  <2>4. {e.no : e \in {x \in d.events : x.comp = c}} # {} <=> \E e \in d.events : e.comp = c
    OBVIOUS
  <2> QED
    BY <2>1, <2>2, <2>3, <2>4
<1> QED
  BY <1>1, ConstantsAssumption

LEMMA FullyFactoredStep ==
  ASSUME Postgres, MemoryInv, EventTablesExact, EventTablesExact', TypeInv',
         FullyFactoredExact, [Next]_vars
  PROVE  FullyFactoredExact'
<1>1. CASE TablesUnchanged
  BY <1>1 DEF TablesUnchanged, FullyFactoredExact, Finished, AllHaveEvents
<1>2. ASSUME NEW t \in Thread, CommitStep(t, NewDetails(t))
      PROVE  FullyFactoredExact'
  <2>1. PICK r \in Return, c \in Composite, n \in Master, dup \in BOOLEAN :
          /\ Taken(t, r, c, n, dup)
          /\ r = ret[t] /\ c = CompositeOf[r] /\ n = MasterFor(r) /\ n = MasterOf[c]
    BY <1>2, CommitTaken DEF MemoryInv
  <2>2. PICK o \in Objects : /\ o = obj[t] /\ db.mc \in [Master -> MasterRow]
                             /\ db.comp \in [Composite -> CompositeRow]
                             /\ committed \subseteq Return
                             /\ snap[t].details \subseteq Detail /\ db.details \subseteq Detail
    BY DEF MemoryInv, TypeInv, TypeOK, Database
  <2>3. db'.mc[n].fully <=> o.mc.fully \/ (NoneUnfactored(t) /\ NoneToRecurse(t, NewDetails(t)))
    <3>1. MasterRowWritten(t, NewDetails(t)).fully
            <=> o.mc.fully \/ (NoneUnfactored(t) /\ NoneToRecurse(t, NewDetails(t)))
      BY <2>2, RowWritten DEF MemoryInv
    <3> QED
      BY <2>1, <2>2, <3>1 DEF Taken
  <2>4. /\ SeenRows(t, n) /\ InMemory(t)
        /\ \A x \in Composite : snap[t].comp[x].exists <=> x \in Known
    BY <1>2, <2>1, CommitSees DEF MemoryInv
  <2>5. o.mc.fully = db.mc[n].fully
    BY <2>1, <2>2, <2>4 DEF SeenRows, InMemory, Remembers
  <2>6. /\ db.events \subseteq db'.events
        /\ \A e \in db'.events : e \in db.events \/ e.comp = c
        /\ db'.details = db.details \cup NewDetails(t)
    <3>1. PICK e0 : e0 = [comp |-> c, no |-> db.comp[c].eventCount + 1, ret |-> r, dup |-> dup]
                    /\ e0.comp = c
      <4>1. [comp |-> c, no |-> db.comp[c].eventCount + 1, ret |-> r, dup |-> dup].comp = c
        OBVIOUS
      <4> QED
        BY <4>1
    <3>2. db'.events = db.events \/ db'.events = db.events \cup {e0}
      BY <2>1, <3>1 DEF Taken
    <3>3. db'.details = db.details \cup NewDetails(t)
      BY <2>1 DEF Taken
    <3> QED
      BY <3>1, <3>2, <3>3
  <2>7. \A m \in Master : AllHaveEvents(m) => AllHaveEvents(m)'
    BY <2>6 DEF AllHaveEvents
  <2>8. NoneUnfactored(t) <=> AllHaveEvents(n)'
    <3>1. AllHaveEvents(n)'
            <=> \A x \in Composite : MasterOf[x] = n /\ x \in Known => db'.comp[x].eventCount # 0
      <4>1. /\ db' \in Database
            /\ \A x \in Composite :
                 {e.no : e \in {y \in db'.events : y.comp = x}} = 1..db'.comp[x].eventCount
        BY DEF TypeInv, TypeOK, EventTablesExact, EventCountExact
      <4>2. AllHaveEvents(n)'
              <=> \A x \in Known : MasterOf[x] = n => \E e \in db'.events : e.comp = x
        BY DEF AllHaveEvents
      <4> QED
        BY <4>1, <4>2, EventsByCount
    <3>2. db'.comp[c].eventCount = o.eventCount
      <4>1. CompositeRowWritten(t).eventCount = o.eventCount
        BY <2>2 DEF CompositeRowWritten
      <4> QED
        BY <2>1, <2>2, <4>1 DEF Taken
    <3>3. \A x \in Composite : MasterOf[x] = n /\ x # c =>
            snap[t].comp[x].eventCount = db'.comp[x].eventCount
      <4>1. \A x \in Composite : MasterOf[x] = n => snap[t].comp[x] = db.comp[x]
        BY <2>4 DEF SeenRows
      <4>2. \A x \in Composite : x # c => db'.comp[x] = db.comp[x]
        BY <2>1, <2>2 DEF Taken
      <4> QED
        BY <4>1, <4>2
    <3> QED
      BY <2>1, <2>2, <2>4, <3>1, <3>2, <3>3 DEF NoneUnfactored
  <2>9. ASSUME \A d \in db'.details :
                 MasterOf[d.comp] = n /\ d.value \in CompositeValue => d.recursed
        PROVE  NoneToRecurse(t, NewDetails(t))
    <3>1. SUFFICES ASSUME NEW d \in snap[t].details \cup NewDetails(t),
                          MasterOf[d.comp] = n, d.value \in CompositeValue
                   PROVE  d.recursed
      BY <2>1 DEF NoneToRecurse
    <3>2. CASE d \in NewDetails(t)
      BY <2>6, <2>9, <3>1, <3>2
    <3>3. CASE d \in snap[t].details
      <4>1. d.comp \in Composite
        BY <2>2, <3>3 DEF Detail
      <4>2. d \in DetailsOf(snap[t], d.comp)
        BY <3>3 DEF DetailsOf
      <4>3. d \in db.details
        BY <2>4, <3>1, <4>1, <4>2 DEF SeenRows, DetailsOf
      <4> QED
        BY <2>6, <2>9, <3>1, <4>3
    <3> QED
      BY <3>1, <3>2, <3>3
  <2>10. ASSUME NEW m \in Master
         PROVE  /\ db'.mc[m].fully => AllHaveEvents(m)'
                /\ Finished(m)' => db'.mc[m].fully
    <3>1. (db.mc[m].fully => AllHaveEvents(m)) /\ (Finished(m) => db.mc[m].fully)
      BY DEF FullyFactoredExact
    <3>2. CASE m = n
      <4>1. db'.mc[n].fully => AllHaveEvents(n)'
        BY <2>3, <2>5, <2>7, <2>8, <3>1, <3>2
      <4>2. Finished(n)' => db'.mc[n].fully
        BY <2>3, <2>8, <2>9 DEF Finished
      <4> QED
        BY <3>2, <4>1, <4>2
    <3>3. CASE m # n
      <4>1. db'.mc[m] = db.mc[m]
        BY <2>1, <2>2, <3>3 DEF Taken
      <4>2. AllHaveEvents(m)' => AllHaveEvents(m)
        BY <2>1, <2>6, <3>3 DEF AllHaveEvents
      <4>3. (\E q \in committed' : MasterFor(q) = m) => \E q \in committed : MasterFor(q) = m
        BY <2>1, <3>3 DEF Taken
      <4>4. Finished(m)' => Finished(m)
        BY <2>6, <4>2, <4>3 DEF Finished
      <4> QED
        BY <2>7, <3>1, <4>1, <4>4
    <3> QED
      BY <3>2, <3>3
  <2> QED
    BY <2>10 DEF FullyFactoredExact
<1> QED
  BY <1>1, <1>2, PostgresCases DEF MemoryInv

LEMMA MasterColumnsInit == Init => MasterColumnsExact
<1> SUFFICES ASSUME Init PROVE MasterColumnsExact
  OBVIOUS
<1>1. committed = {} /\ \A m \in Master : db.mc[m].factors = {} /\ ~db.mc[m].fully
  BY DEF Init, EmptyDatabase
<1>2. FactorCountExact
  BY <1>1 DEF FactorCountExact
<1>3. DeactivationKept
  BY <1>1 DEF DeactivationKept
<1>4. FullyFactoredExact
  BY <1>1 DEF FullyFactoredExact, Finished
<1> QED
  BY <1>2, <1>3, <1>4 DEF MasterColumnsExact

(* On PostgreSQL the columns of MasterComposite that Update writes from      *)
(* memory are right after every commit: FactorCount counts the factors of    *)
(* the committed returns, a candidate that was deactivated stays so, and     *)
(* FullyFactored is set when the last factor event was committed.            *)
THEOREM MasterColumnsCorrect ==
  ASSUME Postgres
  PROVE  Spec => []MasterColumnsExact
<1> DEFINE I == MemoryInv /\ EventTablesExact /\ MasterColumnsExact
<1>1. Init => I
  BY MemoryInit, EventTablesInit, MasterColumnsInit
<1>2. I /\ [Next]_vars => I'
  <2> SUFFICES ASSUME I, [Next]_vars PROVE I'
    OBVIOUS
  <2>1. MemoryInv' /\ EventTablesExact'
    BY MemoryStep, EventTablesStep
  <2>2. TypeInv'
    BY <2>1 DEF MemoryInv
  <2>3. FactorCountExact' /\ DeactivationKept'
    BY FactorCountStep, DeactivationStep DEF MasterColumnsExact
  <2>4. FullyFactoredExact'
    BY <2>1, <2>2, FullyFactoredStep DEF MasterColumnsExact
  <2> QED
    BY <2>1, <2>3, <2>4 DEF MasterColumnsExact
<1>3. I => MasterColumnsExact
  OBVIOUS
<1> QED
  BY <1>1, <1>2, <1>3, PTL DEF Spec
=============================================================================
