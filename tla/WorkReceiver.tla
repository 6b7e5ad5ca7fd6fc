---------------------------- MODULE WorkReceiver ----------------------------
(***************************************************************************)
(* The server's helper threads while they take returned work into the      *)
(* database: WorkReceiver::ProcessMessage and the persistence classes it   *)
(* drives (MasterComposite, Composite, CompositeFactorEvent, UserStats).   *)
(*                                                                         *)
(* Each thread has a database connection of its own, with auto-commit off  *)
(* and isolation level REPEATABLE READ.  The three SELECTs of StartWork    *)
(* open its transaction, so that everything it reads later comes from the  *)
(* snapshot of that moment, plus its own writes.  Its writes are visible   *)
(* to the other threads only at Commit.                                    *)
(*                                                                         *)
(* A counter is represented by the set of the contributions it holds: the  *)
(* curves of a MasterCompositeWorkDone row, the work of a user, the        *)
(* factors of a master composite.  "set col = col + ?" joins the return to *)
(* the committed set; an UPDATE with a value computed in memory replaces   *)
(* the committed set by the snapshot's set and the return.  A contribution *)
(* that is lost or that was never accepted is then visible as such.        *)
(***************************************************************************)
EXTENDS Naturals, Sequences, FiniteSets

CONSTANTS
  Thread,           \* helper threads, one per connected client
  Return,           \* submissions of a work unit: "Return Work" .. "End Return Work"
  Composite,        \* names of rows of table Composite
  Master,           \* names of rows of table MasterComposite
  User,             \* user IDs
  WorkRow,          \* keys (MasterCompositeName, FactorMethod, B1) of MasterCompositeWorkDone
  EcmRow,           \* those with FactorMethod = FM_ECM
  Value,            \* values a factor event detail may carry
  CompositeValue,   \* those that fail the PRP test (PRPTEST_AS_COMPOSITE)
  MasterOf,         \* [Composite -> Master], column MasterCompositeName
  RowMaster,        \* [WorkRow -> Master]
  CompositeOf,      \* [Return -> Composite], the composite the unit is for
  UserOf,           \* [Return -> User], from the FROM message of the session
  RowOf,            \* [Return -> WorkRow], method and B1 of the unit
  Details,          \* [Return -> Seq(Value)], the factors it reports, in order
  FactorIsNumber,   \* SUBSET Return: GMP-ECM reported the input as its factor
  Mismatch,         \* SUBSET Return: the value sent is not the value stored
  Known,            \* SUBSET Composite: the composites present at the start
  Assigned,         \* SUBSET Return: the units with a row in PendingWork
  Recurse,          \* the ini option recurse=1
  SlaveRows,        \* SUBSET Master: those with rows in MasterCompositeSlaveSync
  Untouched,        \* SUBSET Return: the units with no curve done, to be abandoned
  Postgres,         \* the database is PostgreSQL, otherwise MySQL with InnoDB
  InstanceColumn,   \* the tables have column InstanceID (PostgreSQL script), not ClientID
  Overlooked,       \* the statements that can fail unnoticed: "commit", "detail"
  MaxTrouble        \* bound on statement failures, disconnections and exits

ASSUME ConstantsAssumption ==
  /\ Return # {}
  /\ EcmRow \subseteq WorkRow
  /\ CompositeValue \subseteq Value
  /\ MasterOf \in [Composite -> Master]
  /\ RowMaster \in [WorkRow -> Master]
  /\ CompositeOf \in [Return -> Composite]
  /\ UserOf \in [Return -> User]
  /\ RowOf \in [Return -> WorkRow]
  /\ Details \in [Return -> Seq(Value)]
  /\ FactorIsNumber \subseteq Return
  /\ Mismatch \subseteq Return
  /\ Known \subseteq Composite
  /\ Assigned \subseteq Return
  /\ SlaveRows \subseteq Master
  /\ Untouched \subseteq Return
  /\ {Recurse, Postgres, InstanceColumn} \subseteq BOOLEAN
  /\ Overlooked \subseteq {"commit", "detail"}
  /\ MaxTrouble \in Nat
  /\ \A r \in Return : RowMaster[RowOf[r]] = MasterOf[CompositeOf[r]]

MasterFor(r) == MasterOf[CompositeOf[r]]
RowsOf(m)    == {k \in WorkRow : RowMaster[k] = m}
EcmRowsOf(m) == RowsOf(m) \cap EcmRow

VARIABLES
  db,        \* the committed database
  pc,        \* [Thread -> where ProcessMessage stands]
  ret,       \* [Thread -> Return], the unit being processed
  snap,      \* [Thread -> database], the snapshot of the open transaction
  obj,       \* [Thread -> the fields of ip_MasterComposite, ip_Composite, ...]
  committed, \* returns whose transaction was committed (history)
  acked,     \* returns answered with "Accepted Work for"
  trouble    \* failures so far, at most MaxTrouble

vars == <<db, pc, ret, snap, obj, committed, acked, trouble>>

-----------------------------------------------------------------------------
(***************************************************************************)
(* The tables.  "ver" counts the committed versions of a row: the database *)
(* compares versions, not values.                                          *)
(***************************************************************************)
Factor == [ret : Return, seq : Nat]

WorkDoneRow == [curves : SUBSET Return,    \* LocalCurves
                ver : Nat]

MasterRow == [factors : SUBSET Factor,     \* FactorCount
              work : SUBSET Return,        \* TotalWorkDone
              active : BOOLEAN,            \* IsActive
              fully : BOOLEAN,             \* FullyFactored
              recurseIndex : Nat,          \* RecurseIndex
              toMaster : BOOLEAN,          \* SendUpdatesToMaster
              ver : Nat]

CompositeRow == [exists : BOOLEAN,
                 eventCount : Nat,            \* FactorEventCount
                 difficulty : SUBSET Return,  \* Difficulty
                 ver : Nat]

StatsRow == [work : SUBSET Return, ver : Nat]

Event  == [comp : Composite, no : Nat, ret : Return, dup : BOOLEAN]

Detail == [comp : Composite, no : Nat, seq : Nat, value : Value, recursed : BOOLEAN]

Database ==
  [local    : [WorkRow -> WorkDoneRow],      \* MasterCompositeWorkDone
   mc       : [Master -> MasterRow],         \* MasterComposite
   comp     : [Composite -> CompositeRow],   \* Composite
   stats    : [User -> StatsRow],            \* UserStats
   events   : SUBSET Event,                  \* CompositeFactorEvent
   details  : SUBSET Detail,                 \* CompositeFactorEventDetail
   toSlaves : SUBSET Master,                 \* SendUpdatesToSlave = 1
   pending  : SUBSET Return]                 \* PendingWork

EmptyDatabase ==
  [local    |-> [k \in WorkRow |-> [curves |-> {}, ver |-> 0]],
   mc       |-> [m \in Master |-> [factors |-> {}, work |-> {}, active |-> TRUE,
                                   fully |-> FALSE, recurseIndex |-> 0,
                                   toMaster |-> FALSE, ver |-> 0]],
   comp     |-> [c \in Composite |-> [exists |-> c \in Known, eventCount |-> 0,
                                      difficulty |-> {}, ver |-> 0]],
   stats    |-> [u \in User |-> [work |-> {}, ver |-> 0]],
   events   |-> {},
   details  |-> {},
   toSlaves |-> {},
   pending  |-> Assigned]

(* The in-memory objects of a thread: ip_MasterComposite's fields, the      *)
(* FactorEventCount of ip_Composite, and ip_CompositeFactorEvent (its       *)
(* number or 0 for NULL, its detail count and ib_DuplicateEvent).           *)
Objects == [mc : MasterRow, eventCount : Nat, event : Nat, seq : Nat, dup : BOOLEAN]

(* Defect: the count of factor events is off by one. *)
ObjectsForOffByOne(c, d) ==
  [mc |-> d.mc[MasterOf[c]], eventCount |-> d.comp[c].eventCount - 1,
   event |-> 0, seq |-> 0, dup |-> FALSE]

ObjectsFor(c, d) ==
  [mc |-> d.mc[MasterOf[c]], eventCount |-> d.comp[c].eventCount,
   event |-> 0, seq |-> 0, dup |-> FALSE]

NoReturn    == CHOOSE r \in Return : TRUE
NoObjects   == ObjectsFor(CompositeOf[NoReturn], EmptyDatabase)

Init ==
  /\ db = EmptyDatabase
  /\ pc = [t \in Thread |-> "idle"]
  /\ ret = [t \in Thread |-> NoReturn]
  /\ snap = [t \in Thread |-> EmptyDatabase]
  /\ obj = [t \in Thread |-> NoObjects]
  /\ committed = {}
  /\ acked = {}
  /\ trouble = 0

-----------------------------------------------------------------------------
(* Defect: writes of one row never conflict. *)
WritableAlways(snapVer, nowVer) == TRUE

(***************************************************************************)
(* What a thread's statements see and whether the database lets them pass. *)
(***************************************************************************)
(* PostgreSQL refuses to update a row that was changed since the snapshot;  *)
(* InnoDB updates its newest version.                                       *)
Writable(snapVer, nowVer) == Postgres => snapVer = nowVer

(* The row locks held until the transaction ends: an uncommitted UPDATE or  *)
(* INSERT of MasterCompositeWorkDone, and the UPDATE of the rows of         *)
(* MasterCompositeSlaveSync, if the master composite has any.               *)
HoldsRow(t, r) ==
  /\ pc[t] \in {"worked", "event"}
  /\ \/ RowOf[ret[t]] = RowOf[r]
     \/ MasterFor(ret[t]) = MasterFor(r) /\ MasterFor(r) \in SlaveRows

(* InnoDB also locks, in share mode, the MasterComposite row that an        *)
(* inserted MasterCompositeWorkDone row refers to.                          *)
HoldsParent(t, m) ==
  /\ ~Postgres
  /\ pc[t] \in {"worked", "event"}
  /\ MasterFor(ret[t]) = m
  /\ snap[t].local[RowOf[ret[t]]].curves = {}

(* MasterComposite::Lock: every object locks a mutex of its own.            *)
HoldsLock(t, m) == pc[t] # "idle" /\ MasterFor(ret[t]) = m

(* Defect: the sum is read before the thread's own row is written. *)
WorkSumBefore(t, rows) == UNION {snap[t].local[k].curves : k \in rows}

(* select sum(LocalCurves * B1) over some rows: the snapshot's rows and the *)
(* thread's own.                                                            *)
WorkSum(t, rows) ==
  UNION {IF k = RowOf[ret[t]] THEN db.local[k].curves \cup {ret[t]}
                              ELSE snap[t].local[k].curves : k \in rows}

NewEvents(t) ==
  IF obj[t].event = 0 THEN {}
  ELSE {[comp |-> CompositeOf[ret[t]], no |-> obj[t].event, ret |-> ret[t],
         dup |-> obj[t].dup]}

(* Defect: the last detail is not inserted. *)
NewDetailsButLast(t) ==
  {[comp |-> CompositeOf[ret[t]], no |-> obj[t].event, seq |-> i,
    value |-> Details[ret[t]][i], recursed |-> FALSE] : i \in 1..(obj[t].seq - 1)}

NewDetails(t) ==
  {[comp |-> CompositeOf[ret[t]], no |-> obj[t].event, seq |-> i,
    value |-> Details[ret[t]][i], recursed |-> FALSE] : i \in 1..obj[t].seq}

(* UpdateIfFullyFactored: every composite of the master has a factor event  *)
(* and no composite factor is left to recurse.                              *)
NoneUnfactored(t) ==
  \A c \in Composite :
    (MasterOf[c] = MasterFor(ret[t]) /\ snap[t].comp[c].exists) =>
      (IF c = CompositeOf[ret[t]] THEN obj[t].eventCount
                                  ELSE snap[t].comp[c].eventCount) # 0

NoneToRecurse(t, inserted) ==
  \A d \in snap[t].details \cup inserted :
    MasterOf[d.comp] = MasterFor(ret[t]) /\ d.value \in CompositeValue => d.recursed

-----------------------------------------------------------------------------
(* The objects are deleted and the transaction is over.                     *)
Forget(t) ==
  /\ pc' = [pc EXCEPT ![t] = "idle"]
  /\ ret' = [ret EXCEPT ![t] = NoReturn]
  /\ snap' = [snap EXCEPT ![t] = EmptyDatabase]
  /\ obj' = [obj EXCEPT ![t] = NoObjects]

(* "Return Work for": StartWork reads the three objects, then takes the     *)
(* (private) lock.  Two threads never process one submission: a unit sent   *)
(* again is another submission with the same data.                          *)
StartWork(t, r) ==
  /\ pc[t] = "idle"
  /\ r \notin committed \cup acked \cup Untouched
  /\ \A s \in Thread : pc[s] # "idle" => ret[s] # r
  /\ pc' = [pc EXCEPT ![t] = "started"]
  /\ ret' = [ret EXCEPT ![t] = r]
  /\ snap' = [snap EXCEPT ![t] = db]
  /\ obj' = [obj EXCEPT ![t] = ObjectsFor(CompositeOf[r], db)]
  /\ UNCHANGED <<db, committed, acked, trouble>>

(* Defect: a row of work that is there is inserted again. *)
WorkPassesAsInsert(t) ==
  /\ snap[t].comp[CompositeOf[ret[t]]].exists
  /\ db.local[RowOf[ret[t]]].curves = {}
  /\ InstanceColumn

(* ProcessWork's statements succeed: the composite is there with this       *)
(* value; AddWorkDone's UPDATE passes, or its INSERT when the snapshot had  *)
(* no row; so does the UPDATE of MasterCompositeSlaveSync, whose rows       *)
(* change in every transaction that changes the master composite; the       *)
(* DELETE from PendingWork names a column the table has.                    *)
WorkPasses(t) ==
  LET r == ret[t] k == RowOf[r] m == MasterFor(r) IN
  /\ snap[t].comp[CompositeOf[r]].exists
  /\ r \notin Mismatch
  /\ IF snap[t].local[k].curves = {} THEN db.local[k].curves = {}
                                     ELSE Writable(snap[t].local[k].ver, db.local[k].ver)
  /\ m \in SlaveRows => Writable(snap[t].mc[m].ver, db.mc[m].ver)
  /\ InstanceColumn

ProcessWork(t) ==
  /\ pc[t] = "started"
  /\ \A s \in Thread \ {t} : ~HoldsRow(s, ret[t])
  /\ pc' = [pc EXCEPT ![t] = IF WorkPasses(t) THEN "worked" ELSE "failed"]
  /\ obj' = [obj EXCEPT ![t].mc = [obj[t].mc EXCEPT !.active = @ /\ ret[t] \notin FactorIsNumber,
                                                     !.toMaster = TRUE]]
  /\ UNCHANGED <<db, ret, snap, committed, acked, trouble>>

(* "Abandon Work for": the DELETE names column ClientID.  It commits or     *)
(* rolls back a transaction of its own.                                     *)
AbandonWork(t, r) ==
  /\ pc[t] = "idle"
  /\ r \in Untouched
  /\ db' = IF InstanceColumn THEN db ELSE [db EXCEPT !.pending = @ \ {r}]
  /\ UNCHANGED <<pc, ret, snap, obj, committed, acked, trouble>>

(* Composite::NextFactorEvent increments the count and returns it.          *)
NextFactorEvent(t) == obj[t].eventCount + 1

(* "Return Factor Event for": the event takes the next number.              *)
ProcessFactorEvent(t) ==
  /\ pc[t] = "worked"
  /\ Details[ret[t]] # <<>>
  /\ pc' = [pc EXCEPT ![t] = "event"]
  /\ obj' = [obj EXCEPT ![t] = [obj[t] EXCEPT !.eventCount = @ + 1,
                                              !.event = NextFactorEvent(t)]]
  /\ UNCHANGED <<db, ret, snap, committed, acked, trouble>>

(* Defect: every factor of a co-factor is counted. *)
CountsForMasterAll(r, i) == i > 0

(* AddFactor counts a factor of the master composite, and of a co-factor    *)
(* every factor but the first, which was counted as a factor itself.        *)
CountsForMaster(r, i) == CompositeOf[r] = MasterFor(r) \/ i > 1

(* "Return Factor Event Detail for": the duplicate test looks for the value *)
(* in the snapshot, and the last detail's answer stands.                    *)
ProcessFactorEventDetail(t) ==
  LET r == ret[t] i == obj[t].seq + 1 IN
  /\ pc[t] = "event"
  /\ i \in DOMAIN Details[r]
  /\ obj' = [obj EXCEPT ![t] =
       [obj[t] EXCEPT
          !.seq = i,
          !.dup = \E d \in snap[t].details :
                    d.comp = CompositeOf[r] /\ d.value = Details[r][i],
          !.mc = [obj[t].mc EXCEPT
                    !.factors = IF CountsForMaster(r, i) THEN @ \cup {[ret |-> r, seq |-> i]}
                                                         ELSE @,
                    !.active = @ /\ Recurse]]]
  /\ UNCHANGED <<db, pc, ret, snap, committed, acked, trouble>>

(* All lines of the unit were received: "End Return Work for" comes next.   *)
AllReceived(t) ==
  \/ pc[t] = "worked" /\ Details[ret[t]] = <<>>
  \/ pc[t] = "event" /\ obj[t].seq = Len(Details[ret[t]])

(* The rows EndWork writes: the master composite, the composite, the user   *)
(* and, when there is a factor, the event under its primary key.            *)
EndPasses(t) ==
  LET r == ret[t] c == CompositeOf[r] u == UserOf[r] m == MasterFor(r) IN
  /\ Writable(snap[t].mc[m].ver, db.mc[m].ver)
  /\ Writable(snap[t].comp[c].ver, db.comp[c].ver)
  /\ IF snap[t].stats[u].work = {} THEN db.stats[u].work = {}
                                   ELSE Writable(snap[t].stats[u].ver, db.stats[u].ver)
  /\ \A e \in db.events : e.comp = c => e.no # obj[t].event

(* The thread's UPDATE of MasterComposite passes the share locks of the     *)
(* others' INSERTs.  A thread that holds one and is about to do the same    *)
(* UPDATE is in a deadlock with this one, and becomes the victim.           *)
Victims(t) == {s \in Thread \ {t} : HoldsParent(s, MasterFor(ret[t]))}

CanEnd(t) ==
  /\ AllReceived(t)
  /\ EndPasses(t)
  /\ \A s \in Victims(t) : AllReceived(s)

Ended(t) ==
  [s \in Thread |-> IF s = t THEN "ended" ELSE IF s \in Victims(t) THEN "failed" ELSE pc[s]]

(* The master row as Update writes it: every column from memory.            *)
MasterRowWritten(t, inserted) ==
  [obj[t].mc EXCEPT
     !.work = WorkSum(t, EcmRowsOf(MasterFor(ret[t]))),
     !.fully = @ \/ (NoneUnfactored(t) /\ NoneToRecurse(t, inserted)),
     !.ver = db.mc[MasterFor(ret[t])].ver + 1]

(* The composite's row: the sum for its Difficulty has no FactorMethod.     *)
CompositeRowWritten(t) ==
  [exists |-> TRUE, eventCount |-> obj[t].eventCount,
   difficulty |-> WorkSum(t, RowsOf(MasterFor(ret[t]))),
   ver |-> db.comp[CompositeOf[ret[t]]].ver + 1]

(* Defect: the counter is written from memory. *)
WorkDoneFromMemory(t) ==
  [curves |-> snap[t].local[RowOf[ret[t]]].curves \cup {ret[t]},
   ver |-> db.local[RowOf[ret[t]]].ver + 1]

(* The work row: the counter is incremented by the database.                *)
WorkDone(t) ==
  [curves |-> db.local[RowOf[ret[t]]].curves \cup {ret[t]},
   ver |-> db.local[RowOf[ret[t]]].ver + 1]

(* The database after COMMIT, with the detail rows that were inserted.      *)
Committed(t, inserted) ==
  LET r == ret[t] c == CompositeOf[r] IN
  [db EXCEPT
     !.local[RowOf[r]] = WorkDone(t),
     !.mc[MasterFor(r)] = MasterRowWritten(t, inserted),
     !.comp[c] = CompositeRowWritten(t),
     !.stats[UserOf[r]] = [work |-> snap[t].stats[UserOf[r]].work \cup {r},
                           ver |-> @.ver + 1],
     !.events = @ \cup NewEvents(t),
     !.details = @ \cup inserted,
     !.toSlaves = @ \cup ({MasterFor(r)} \cap SlaveRows),
     !.pending = @ \ {r}]

(* EndWork(success) when every statement passes: the answer is sent after   *)
(* COMMIT, by SendAccepted.                                                 *)
EndWork(t) ==
  /\ CanEnd(t)
  /\ db' = Committed(t, NewDetails(t))
  /\ committed' = committed \cup {ret[t]}
  /\ pc' = Ended(t)
  /\ UNCHANGED <<ret, snap, obj, acked, trouble>>

(* InsertEventDetails keeps the result of its last INSERT only.  InnoDB     *)
(* undoes a statement that failed and goes on with the transaction.         *)
EndWorkWithoutDetail(t) ==
  /\ "detail" \in Overlooked /\ ~Postgres
  /\ CanEnd(t)
  /\ \E d \in NewDetails(t) :
       d.seq < obj[t].seq /\ db' = Committed(t, NewDetails(t) \ {d})
  /\ committed' = committed \cup {ret[t]}
  /\ pc' = Ended(t)
  /\ UNCHANGED <<ret, snap, obj, acked, trouble>>

(* Commit has no result: the thread goes on to "Accepted Work for" also     *)
(* when COMMIT failed.                                                      *)
EndWorkWithoutCommit(t) ==
  /\ "commit" \in Overlooked
  /\ trouble < MaxTrouble
  /\ CanEnd(t)
  /\ pc' = Ended(t)
  /\ trouble' = trouble + 1
  /\ UNCHANGED <<db, ret, snap, obj, committed, acked>>

(* EndWork(success) when a statement fails: Rollback, and no answer.        *)
EndWorkFails(t) ==
  /\ AllReceived(t)
  /\ ~EndPasses(t)
  /\ Forget(t)
  /\ UNCHANGED <<db, committed, acked, trouble>>

(* Defect: accepted although a statement failed. *)
SendAcceptedAnyway(t) ==
  /\ pc[t] \in {"ended", "failed"}
  /\ acked' = acked \cup {ret[t]}
  /\ Forget(t)
  /\ UNCHANGED <<db, committed, trouble>>

SendAccepted(t) ==
  /\ pc[t] = "ended"
  /\ acked' = acked \cup {ret[t]}
  /\ Forget(t)
  /\ UNCHANGED <<db, committed, trouble>>

(* After a failure the rest of the unit is answered with errors; the next   *)
(* "Return Work for" or the end of the session rolls the transaction back.  *)
Rollback(t) ==
  /\ pc[t] = "failed"
  /\ Forget(t)
  /\ UNCHANGED <<db, committed, acked, trouble>>

(* A statement fails for a reason of the database: the victim of a deadlock *)
(* between row locks, a lock wait timeout, a lost connection.               *)
StatementFails(t) ==
  /\ trouble < MaxTrouble
  /\ pc[t] \in {"started", "worked", "event"}
  /\ pc' = [pc EXCEPT ![t] = "failed"]
  /\ trouble' = trouble + 1
  /\ UNCHANGED <<db, ret, snap, obj, committed, acked>>

(* Nothing is received for two seconds: ProcessMessage leaves its loop and  *)
(* rolls back; or the client is gone before the answer was sent.            *)
Disconnect(t) ==
  /\ trouble < MaxTrouble
  /\ pc[t] # "idle"
  /\ Forget(t)
  /\ trouble' = trouble + 1
  /\ UNCHANGED <<db, committed, acked>>

(* exit(0), a signal or a power cut: every open transaction is undone.      *)
ServerExits ==
  /\ trouble < MaxTrouble
  /\ pc' = [t \in Thread |-> "idle"]
  /\ ret' = [t \in Thread |-> NoReturn]
  /\ snap' = [t \in Thread |-> EmptyDatabase]
  /\ obj' = [t \in Thread |-> NoObjects]
  /\ trouble' = trouble + 1
  /\ UNCHANGED <<db, committed, acked>>

Proceed(t) ==
  \/ ProcessWork(t)
  \/ ProcessFactorEvent(t)
  \/ ProcessFactorEventDetail(t)
  \/ EndWork(t)
  \/ EndWorkFails(t)
  \/ SendAccepted(t)
  \/ Rollback(t)

Next ==
  \/ \E t \in Thread, r \in Return : StartWork(t, r) \/ AbandonWork(t, r)
  \/ \E t \in Thread : \/ Proceed(t)
                      \/ EndWorkWithoutDetail(t)
                      \/ EndWorkWithoutCommit(t)
                      \/ StatementFails(t)
                      \/ Disconnect(t)
  \/ ServerExits

Spec == Init /\ [][Next]_vars

(* A helper thread keeps reading and executing while there is something to  *)
(* do, and a client that has no answer for a unit sends it again.           *)
FairSpec ==
  /\ Spec
  /\ \A t \in Thread : WF_vars(Proceed(t))
  /\ \A r \in Return : WF_vars(\E t \in Thread : StartWork(t, r))

-----------------------------------------------------------------------------
(***************************************************************************)
(* Properties.                                                             *)
(***************************************************************************)
(* Type invariant: the tables, the snapshots and the objects of the helper  *)
(* threads have the types of the columns and fields they stand for.         *)
TypeOK ==
  /\ db \in Database
  /\ pc \in [Thread -> {"idle", "started", "worked", "event", "failed", "ended"}]
  /\ ret \in [Thread -> Return]
  /\ snap \in [Thread -> Database]
  /\ obj \in [Thread -> Objects]
  /\ committed \subseteq Return
  /\ acked \subseteq Return
  /\ trouble \in 0..MaxTrouble

(* LocalCurves of a row holds the curves of exactly the returns committed   *)
(* for it: whatever the threads interleave, and whatever rolls back, the    *)
(* UPDATE of AddWorkDone neither loses curves nor counts any twice.         *)
CurvesExact ==
  \A k \in WorkRow : db.local[k].curves = {r \in committed : RowOf[r] = k}

(* All or nothing: the factor event of a return is stored exactly when its  *)
(* transaction was committed, once, and with all of its details.            *)
DetailsStored(e) ==
  {<<d.seq, d.value>> : d \in {x \in db.details : x.comp = e.comp /\ x.no = e.no}}
    = {<<i, Details[e.ret][i]>> : i \in DOMAIN Details[e.ret]}

EventsExact ==
  /\ {e.ret : e \in db.events} = {r \in committed : Details[r] # <<>>}
  /\ \A e, f \in db.events : e.ret = f.ret => e = f
  /\ \A e \in db.events : e.comp = CompositeOf[e.ret] /\ DetailsStored(e)

(* The client deletes the unit when it reads "Accepted Work for".  A unit   *)
(* is accepted and not in the database only if its own COMMIT failed: not   *)
(* one whose thread was the victim of a dead-lock, was refused a statement, *)
(* or whose transaction was rolled back.  So no failure costs two units.    *)
OneLossPerFailure == Cardinality(acked \ committed) <= trouble

(* FactorEventCount is the number of the last event, and the events are     *)
(* numbered from 1 without a gap: the next one always finds a free key.     *)
EventCountExact ==
  \A c \in Composite :
    {e.no : e \in {x \in db.events : x.comp = c}} = 1..db.comp[c].eventCount

(* FactorCount counts the factors reported by committed returns: all of a   *)
(* master composite's own, and all but the first of a co-factor's, since a  *)
(* co-factor has already been counted as a factor itself.                   *)
FactorCountExact ==
  \A m \in Master :
    db.mc[m].factors =
      {f \in UNION {[ret : {r}, seq : DOMAIN Details[r]] : r \in committed} :
         /\ MasterFor(f.ret) = m
         /\ CompositeOf[f.ret] # m => f.seq # 1}

(* The statistics of a user hold the work of exactly the returns committed  *)
(* for that user.                                                           *)
StatsExact ==
  \A u \in User : db.stats[u].work = {r \in committed : UserOf[r] = u}

(* TotalWorkDone is the sum over the ECM rows of the master composite.      *)
TotalWorkExact ==
  \A m \in Master :
    db.mc[m].work = UNION {db.local[k].curves : k \in EcmRowsOf(m)}

(* Difficulty multiplies the total (ECM) work done of the master composite  *)
(* by a constant: after the last return for it, a composite's Difficulty    *)
(* stands for the work in TotalWorkDone.                                    *)
DifficultyFollowsTotal ==
  \A c \in Composite :
    MasterOf[c] = c /\ db.comp[c].ver = db.mc[c].ver =>
      db.comp[c].difficulty = db.mc[c].work

(* A candidate that was deactivated, because GMP-ECM reported the input as  *)
(* a factor or because a factor was found and recurse is off, stays so.     *)
DeactivationKept ==
  \A r \in committed :
    (r \in FactorIsNumber \/ (~Recurse /\ Details[r] # <<>>)) =>
      ~db.mc[MasterFor(r)].active

(* FullyFactored is set only when every composite of the master has a       *)
(* factor event, and it is set as soon as that is so and no composite       *)
(* factor waits to be recursed.  (A factor event that comes later never     *)
(* takes it back.)                                                          *)
AllHaveEvents(m) ==
  \A c \in Known : MasterOf[c] = m => \E e \in db.events : e.comp = c

Finished(m) ==
  /\ \E r \in committed : MasterFor(r) = m
  /\ AllHaveEvents(m)
  /\ \A d \in db.details :
       MasterOf[d.comp] = m /\ d.value \in CompositeValue => d.recursed

FullyFactoredExact ==
  \A m \in Master :
    /\ db.mc[m].fully => AllHaveEvents(m)
    /\ Finished(m) => db.mc[m].fully

(* The columns of MasterComposite that are written from memory are right    *)
(* after every commit, whatever the threads interleave.                     *)
MasterColumnsExact == FactorCountExact /\ DeactivationKept /\ FullyFactoredExact

(* The event tables hold the events of the committed returns, whole, and    *)
(* numbered so that the next one finds a free key.                          *)
EventTablesExact == EventsExact /\ EventCountExact

(* Every unit that has curves and is known to the server is eventually      *)
(* taken in, when its client keeps sending it: committed, or accepted by a  *)
(* server that overlooked that its COMMIT failed.                           *)
EventuallyCommitted ==
  \A r \in Return \ (Mismatch \cup Untouched) :
    CompositeOf[r] \in Known => <>(r \in committed \cup acked)

(* While a thread holds the lock of a master composite, no other thread     *)
(* updates the master composite.                                            *)
LockExcludesOthers ==
  [][\A t \in Thread, m \in Master :
       (HoldsLock(t, m) /\ db.mc[m]' # db.mc[m]) =>
         (pc[t] # "ended" /\ pc'[t] = "ended")]_vars
=============================================================================
