-------------------------- MODULE MasterSlaveSync --------------------------
(***************************************************************************)
(* Synchronising slave servers with their master: IAmASlave.cpp, run by    *)
(* the timer thread of a slave, against IAmAMaster.cpp, run by a helper    *)
(* thread of the master, over one connection.  In phase 1 the slave        *)
(* reports its curves and gets everything back, composite by composite; in *)
(* phase 2 the master sends the composites that changed.                   *)
(*                                                                         *)
(* Each side works in a transaction at REPEATABLE READ on its own          *)
(* database: "snap" is what it reads, "pend" the row it has written and    *)
(* locked.  On PostgreSQL writing a row that changed after the snapshot    *)
(* fails, on InnoDB it does not.  Clients return curves at every server    *)
(* meanwhile (module WorkReceiver; here one step).                         *)
(*                                                                         *)
(* Curves stand for all that hangs under a master composite: factor events *)
(* are reported and replaced in the same transactions.  The statistics of  *)
(* users that follow, and the password, are left out.  Sessions of one     *)
(* slave do not overlap.                                                   *)
(***************************************************************************)
EXTENDS Naturals, Sequences

CONSTANTS
  Slave,        \* slave servers
  Composite,    \* master composites, numbers in the order of their names
  Later,        \* SUBSET Composite: added at the master while it runs
  Titled,       \* SUBSET Composite: whose name is not their value
  Curve,        \* returns of curves
  CompositeOf,  \* [Curve -> Composite]
  ServerOf,     \* [Curve -> Slave \cup {Master}]
  Master,       \* the master server
  Postgres,     \* the database is PostgreSQL (otherwise InnoDB)
  MaxTrouble,   \* bound on lost connections and time-outs
  None          \* no snapshot, no row, no composite

ASSUME SyncAssumption ==
  /\ Composite \subseteq Nat
  /\ Later \subseteq Composite
  /\ Titled \subseteq Composite
  /\ CompositeOf \in [Curve -> Composite]
  /\ ServerOf \in [Curve -> Slave \cup {Master}]
  /\ Postgres \in BOOLEAN
  /\ MaxTrouble \in Nat
  /\ Master \notin Slave

VARIABLES
  mrow,     \* [Composite -> row], the master's composites
  sync,     \* [Composite -> [Slave -> flag]], MasterCompositeSlaveSync
  srow,     \* [Slave -> [Composite -> row]], the slaves' composites
  ses,      \* [Slave -> the slave's side of its session]
  hlp,      \* [Slave -> the master's side of it]
  up,       \* [Slave -> lines on their way to the master]
  down,     \* [Slave -> lines on their way to the slave]
  link,     \* [Slave -> the connection stands]
  done,     \* the curves returned so far
  trouble   \* failures so far, at most MaxTrouble

vars == <<mrow, sync, srow, ses, hlp, up, down, link, done, trouble>>

Tally == [Curve -> 0..(MaxTrouble + 1)]
NoCurves == [k \in Curve |-> 0]
(* Defect: curves added twice. *)
PlusTwice(tally, curves) == [k \in Curve |-> tally[k] + IF k \in curves THEN 2 ELSE 0]

Plus(tally, curves) == [k \in Curve |-> tally[k] + IF k \in curves THEN 1 ELSE 0]

(* "local" is LocalCurves, "since" CurvesSinceLastReport and "toMaster"     *)
(* SendUpdatesToMaster.                                                     *)
MasterRow == [exists : BOOLEAN, local : Tally]
SlaveRow  == [exists : BOOLEAN, local : Tally, since : SUBSET Curve, toMaster : BOOLEAN]

(* No row, SendUpdatesToSlave = 0, SendUpdatesToSlave = 1. *)
Flag == {"none", "clear", "send"}

Message == [type : {"Found", "Begin", "OK", "Error"}, comp : Composite]
           \cup [type : {"Work"}, comp : Composite, curves : SUBSET Curve]
           \cup [type : {"Content"}, comp : Composite, local : Tally]
           \cup [type : {"Start", "NoMore", "SyncError"}]

About(type, c) == [type |-> type, comp |-> c]
Start     == [type |-> "Start"]
NoMore    == [type |-> "NoMore"]
SyncError == [type |-> "SyncError"]

SlaveWaits  == {"found", "answer", "content", "start2", "receive2", "content2"}
MasterWaits == {"receive", "work", "found", "answer", "found2", "answer2"}

Session == [pc : {"idle", "next", "closed"} \cup SlaveWaits,
            todo : SUBSET Composite, comp : Composite \cup {None},
            snap : [Composite -> SlaveRow] \cup {None},
            pend : SlaveRow \cup {None}]

Helper == [pc : {"idle", "start", "next2", "closed"} \cup MasterWaits,
           todo : SUBSET Composite, comp : Composite \cup {None},
           snap : [rows : [Composite -> MasterRow],
                   sync : [Composite -> [Slave -> Flag]]] \cup {None},
           stale : SUBSET Composite,  \* changed since the snapshot
           pend : MasterRow \cup {None},
           added : SUBSET Composite,  \* rows of "sync" inserted, uncommitted
           failed : BOOLEAN]

(* None is not one of the values it stands in for.                          *)
ASSUME NoneAssumption ==
  /\ None \notin Composite
  /\ None \notin SlaveRow
  /\ None \notin MasterRow
  /\ None \notin [Composite -> SlaveRow]
  /\ None \notin [rows : [Composite -> MasterRow], sync : [Composite -> [Slave -> Flag]]]

NoSession == [pc |-> "idle", todo |-> {}, comp |-> None, snap |-> None, pend |-> None]
NoHelper  == [pc |-> "idle", todo |-> {}, comp |-> None, snap |-> None, stale |-> {},
              pend |-> None, added |-> {}, failed |-> FALSE]

(* Slaves start with an empty database. *)
Init ==
  /\ mrow = [c \in Composite |-> [exists |-> c \notin Later, local |-> NoCurves]]
  /\ sync = [c \in Composite |-> [s \in Slave |-> "none"]]
  /\ srow = [s \in Slave |-> [c \in Composite |->
       [exists |-> FALSE, local |-> NoCurves, since |-> {}, toMaster |-> FALSE]]]
  /\ ses = [s \in Slave |-> NoSession]
  /\ hlp = [s \in Slave |-> NoHelper]
  /\ up = [s \in Slave |-> <<>>] /\ down = [s \in Slave |-> <<>>]
  /\ link = [s \in Slave |-> FALSE]
  /\ done = {}
  /\ trouble = 0

First(S) == CHOOSE c \in S : \A d \in S : c <= d

Trouble == trouble < MaxTrouble /\ trouble' = trouble + 1

(* What one side sends while the other listens. *)
SlaveSays(s, lines) ==
  up' = IF link[s] /\ hlp[s].pc # "closed" THEN [up EXCEPT ![s] = @ \o lines] ELSE up
MasterSays(s, lines) ==
  down' = IF link[s] /\ ses[s].pc # "closed" THEN [down EXCEPT ![s] = @ \o lines] ELSE down

(* The line each side reads next, taken off the connection. *)
SlaveReads(s)  == down[s] # <<>> /\ down' = [down EXCEPT ![s] = Tail(@)]
MasterReads(s) == up[s] # <<>> /\ up' = [up EXCEPT ![s] = Tail(@)]
ToSlave(s)  == Head(down[s])
ToMaster(s) == Head(up[s])

(* Each is waiting for the other. *)
Stuck(s) == /\ ses[s].pc \in SlaveWaits /\ hlp[s].pc \in MasterWaits
            /\ up[s] = <<>> /\ down[s] = <<>>

-----------------------------------------------------------------------------
(***************************************************************************)
(* The slave.                                                              *)
(***************************************************************************)
SlaveRollback(x) == [x EXCEPT !.snap = None, !.pend = None]

(* A client's return of this composite waits for the slave's transaction. *)
SlaveHolds(s, c) == ses[s].comp = c /\ ses[s].pend # None

(* Defect: not isolated from clients. *)
AlwaysWritable(s, c, snap) == TRUE

(* No client changed the row after the snapshot, where that matters. *)
SlaveWritable(s, c, snap) == Postgres => snap[c] = srow[s][c]

SlaveDB == <<srow, mrow, sync, hlp, link, done, trouble>>

(* SyncWithMaster, and the query of SendUpdatesToMaster. *)
StartSync(s) ==
  /\ ses[s].pc = "idle" /\ hlp[s].pc = "idle"
  /\ ses' = [ses EXCEPT ![s] = [NoSession EXCEPT !.pc = "next", !.snap = srow[s],
               !.todo = {c \in Composite : srow[s][c].exists /\ srow[s][c].toMaster}]]
  /\ hlp' = [hlp EXCEPT ![s] = [NoHelper EXCEPT !.pc = "start"]]
  /\ link' = [link EXCEPT ![s] = TRUE]
  /\ UNCHANGED <<mrow, sync, srow, up, down, done, trouble>>

BeginComposite(s) ==
  /\ ses[s].pc = "next" /\ ses[s].todo # {}
  /\ LET c == First(ses[s].todo) IN
       /\ SlaveSays(s, <<About("Begin", c)>>)
       /\ ses' = [ses EXCEPT ![s] = [@ EXCEPT !.pc = "found", !.comp = c, !.todo = ses[s].todo \ {c}]]
  /\ UNCHANGED <<SlaveDB, down>>

EndPhase1(s) ==
  /\ ses[s].pc = "next" /\ ses[s].todo = {}
  /\ SlaveSays(s, <<NoMore>>)
  /\ ses' = [ses EXCEPT ![s] = [SlaveRollback(@) EXCEPT !.pc = "start2", !.comp = None]]
  /\ UNCHANGED <<SlaveDB, down>>

(* The slave ends the session: everything still open is rolled back. *)
SlaveCloses(s, lines) ==
  /\ ses' = [ses EXCEPT ![s] = [NoSession EXCEPT !.pc = "closed"]]
  /\ SlaveSays(s, lines)

(* SendWorkToMaster: the curves are those of the snapshot; the UPDATE sets  *)
(* the counter of the row to 0, whatever it holds by now.  A failing UPDATE *)
(* is fatal.                                                                *)
SendWork(s) ==
  LET c    == ses[s].comp
      snap == IF ses[s].snap = None THEN srow[s] ELSE ses[s].snap
      sent == snap[c].since
      row  == IF sent = {} THEN None ELSE [srow[s][c] EXCEPT !.since = {}]
  IN
  /\ ses[s].pc = "found"
  /\ SlaveReads(s) /\ ToSlave(s) = About("Found", c)
  /\ \/ /\ sent = {} \/ SlaveWritable(s, c, snap)
        /\ ses' = [ses EXCEPT ![s] = [@ EXCEPT !.pc = "answer", !.snap = snap, !.pend = row]]
        /\ SlaveSays(s, <<[type |-> "Work", comp |-> c, curves |-> sent]>>)
     \/ /\ sent # {} /\ ~SlaveWritable(s, c, snap)
        /\ SlaveCloses(s, <<SyncError, NoMore>>)
  /\ UNCHANGED SlaveDB

(* Any other answer: this composite is not synchronised. *)
CompositeRefused(s) ==
  /\ SlaveReads(s)
  /\ \/ ses[s].pc = "found" /\ ToSlave(s) # About("Found", ses[s].comp)
     \/ ses[s].pc = "answer" /\ ToSlave(s) = About("Error", ses[s].comp)
  /\ ses' = [ses EXCEPT ![s] = [SlaveRollback(@) EXCEPT !.pc = "next"]]
  /\ UNCHANGED <<SlaveDB, up>>

(* HandleMasterCompositeFromMaster, up to "Found": the details are deleted. *)
(* When that fails in phase 1 nothing is answered.                          *)
DeleteDetails(s) ==
  LET c == ses[s].comp IN
  /\ ses[s].pc = "answer"
  /\ SlaveReads(s) /\ ToSlave(s) = About("Begin", c)
  /\ \/ /\ ses[s].pend # None \/ SlaveWritable(s, c, ses[s].snap)
        /\ ses' = [ses EXCEPT ![s] = [@ EXCEPT !.pc = "content",
                     !.pend = [srow[s][c] EXCEPT !.local = NoCurves, !.since = {}]]]
        /\ SlaveSays(s, <<About("Found", c)>>)
     \/ /\ ses[s].pend = None /\ ~SlaveWritable(s, c, ses[s].snap)
        /\ UNCHANGED <<ses, up>>
  /\ UNCHANGED SlaveDB

(* Defect: the slave commits before the master. *)
InsertDetailsCommitted(s) ==
  LET c == ses[s].comp IN
  /\ ses[s].pc = "content"
  /\ SlaveReads(s) /\ ToSlave(s).type = "Content"
  /\ ses' = [ses EXCEPT ![s] = [@ EXCEPT !.pc = "answer", !.pend.local = ToSlave(s).local]]
  /\ srow' = [srow EXCEPT ![s][c] = [ses[s].pend EXCEPT !.local = ToSlave(s).local]]
  /\ SlaveSays(s, <<About("OK", c)>>)
  /\ UNCHANGED <<mrow, sync, hlp, link, done, trouble>>

(* The rest of it: the master's content is inserted. *)
InsertDetails(s) ==
  LET c == ses[s].comp IN
  /\ ses[s].pc = "content"
  /\ SlaveReads(s) /\ ToSlave(s).type = "Content"
  /\ ses' = [ses EXCEPT ![s] = [@ EXCEPT !.pc = "answer", !.pend.local = ToSlave(s).local]]
  /\ SlaveSays(s, <<About("OK", c)>>)
  /\ UNCHANGED SlaveDB

(* Defect: CurvesSinceLastReport is not reset. *)
SlaveCommitsKeeping(s) ==
  LET c == ses[s].comp IN
  /\ ses[s].pc = "answer"
  /\ SlaveReads(s) /\ ToSlave(s) = About("OK", c)
  /\ srow' = [srow EXCEPT ![s][c] = [ses[s].pend EXCEPT !.since = srow[s][c].since]]
  /\ ses' = [ses EXCEPT ![s] = [SlaveRollback(@) EXCEPT !.pc = "next"]]
  /\ UNCHANGED <<mrow, sync, hlp, up, link, done, trouble>>

(* The master has committed: so does the slave. *)
SlaveCommits(s) ==
  LET c == ses[s].comp IN
  /\ ses[s].pc = "answer"
  /\ SlaveReads(s) /\ ToSlave(s) = About("OK", c)
  /\ srow' = [srow EXCEPT ![s][c] = [ses[s].pend EXCEPT !.toMaster = FALSE]]
  /\ ses' = [ses EXCEPT ![s] = [SlaveRollback(@) EXCEPT !.pc = "next"]]
  /\ UNCHANGED <<mrow, sync, hlp, up, link, done, trouble>>

(* GetUpdatesFromMaster. *)
StartPhase2(s) ==
  /\ ses[s].pc = "start2" /\ SlaveReads(s)
  /\ \/ ToSlave(s) = Start /\ ses' = [ses EXCEPT ![s] = [@ EXCEPT !.pc = "receive2"]] /\ UNCHANGED up
     \/ ToSlave(s) # Start /\ SlaveCloses(s, <<>>)
  /\ UNCHANGED SlaveDB

(* MasterComposite::SetValue refuses a row that exists when the value sent  *)
(* is not its NAME.                                                         *)
ReceiveComposite(s) ==
  LET c   == ToSlave(s).comp
      bad == srow[s][c].exists /\ c \in Titled
  IN
  /\ ses[s].pc = "receive2"
  /\ SlaveReads(s) /\ ToSlave(s).type = "Begin"
  /\ \/ /\ bad
        /\ SlaveSays(s, <<SyncError, About("Error", c)>>) /\ UNCHANGED ses
     \/ /\ ~bad
        /\ SlaveSays(s, <<About("Found", c)>>)
        /\ ses' = [ses EXCEPT ![s] = [@ EXCEPT !.pc = "content2", !.comp = c, !.snap = srow[s],
                     !.pend = [exists |-> TRUE, local |-> NoCurves, since |-> {},
                               toMaster |-> srow[s][c].toMaster]]]
  /\ UNCHANGED SlaveDB

(* SendUpdatesToMaster of a new composite was never initialised. *)
ReplaceComposite(s) ==
  LET c == ses[s].comp IN
  /\ ses[s].pc = "content2"
  /\ SlaveReads(s) /\ ToSlave(s).type = "Content"
  /\ \E flag \in IF srow[s][c].exists THEN {ses[s].pend.toMaster} ELSE BOOLEAN :
       srow' = [srow EXCEPT ![s][c] =
                  [ses[s].pend EXCEPT !.local = ToSlave(s).local, !.toMaster = flag]]
  /\ ses' = [ses EXCEPT ![s] = [SlaveRollback(@) EXCEPT !.pc = "receive2", !.comp = None]]
  /\ SlaveSays(s, <<About("OK", c)>>)
  /\ UNCHANGED <<mrow, sync, hlp, link, done, trouble>>

EndPhase2(s) ==
  /\ ses[s].pc = "receive2"
  /\ SlaveReads(s) /\ ToSlave(s) = NoMore
  /\ SlaveCloses(s, <<>>)
  /\ UNCHANGED SlaveDB

(* Lines that are only logged, or answered with an error. *)
SlaveSkips(s) ==
  LET c == ses[s].comp IN
  /\ SlaveReads(s)
  /\ \/ /\ ses[s].pc = "answer"
        /\ ToSlave(s) \notin {About("Begin", c), About("Error", c), About("OK", c)}
        /\ UNCHANGED up
     \/ /\ \/ ses[s].pc \in {"content", "content2"} /\ ToSlave(s).type # "Content"
           \/ ses[s].pc = "receive2" /\ ToSlave(s).type \notin {"Begin", "NoMore"}
        /\ SlaveSays(s, <<SyncError>>)
  /\ UNCHANGED <<SlaveDB, ses>>

(* Nothing came for ten seconds. *)
SlaveTimesOut(s) ==
  /\ ses[s].pc \in SlaveWaits /\ down[s] = <<>>
  /\ \/ (~link[s] \/ hlp[s].pc = "closed" \/ Stuck(s)) /\ UNCHANGED trouble
     \/ link[s] /\ hlp[s].pc # "closed" /\ ~Stuck(s) /\ Trouble
  /\ SlaveCloses(s, IF ses[s].pc = "start2" THEN <<>> ELSE <<SyncError, NoMore>>)
  /\ UNCHANGED <<srow, mrow, sync, hlp, down, link, done>>

-----------------------------------------------------------------------------
(***************************************************************************)
(* The master.                                                             *)
(***************************************************************************)
MasterDB == <<mrow, sync, srow, ses, link, done, trouble>>

Snapshot == [rows |-> mrow, sync |-> sync]

MasterRollback(x) ==
  [x EXCEPT !.snap = None, !.stale = {}, !.pend = None, !.added = {}, !.failed = FALSE]

(* The row is written, and not committed, by another transaction. *)
MasterHolds(t, c) == hlp[t].comp = c /\ hlp[t].pend # None
Locked(s, c) == \E t \in Slave \ {s} : MasterHolds(t, c)

(* A row changed after the snapshot cannot be written on PostgreSQL. *)
MasterWritable(s, c) == Postgres => c \notin hlp[s].stale

(* The commit of a change to composite c ends the transaction of s and makes *)
(* the snapshots of the other transactions stale.                           *)
HelpersAfter(s, x, c) ==
  [t \in Slave |-> IF t = s THEN x
                   ELSE IF hlp[t].snap = None THEN hlp[t]
                   ELSE [hlp[t] EXCEPT !.stale = @ \cup {c}]]

(* Defect: SendUpdatesToSlave is not set. *)
FlaggedNever(c, seen) == sync[c]

(* SendUpdatesToAllSlaves updates the rows it can see. *)
Flagged(c, seen) ==
  [s \in Slave |-> IF sync[c][s] # "none" /\ seen[c][s] # "none" THEN "send" ELSE sync[c][s]]

(* SyncWithSlave: the rows PopulateMasterSlaveSync inserts belong to a       *)
(* transaction that nothing commits yet.                                    *)
PopulateSlaveSync(s) ==
  /\ hlp[s].pc = "start"
  /\ hlp' = [hlp EXCEPT ![s] = [@ EXCEPT !.pc = "receive", !.snap = Snapshot,
               !.added = {c \in Composite : mrow[c].exists /\ sync[c][s] = "none"}]]
  /\ UNCHANGED <<MasterDB, up, down>>

(* StartMasterCompositeSync rolls back first.  SetValue refuses a composite  *)
(* whose name is not its value; two lines answer that.                      *)
StartComposite(s) ==
  LET c == ToMaster(s).comp IN
  /\ hlp[s].pc = "receive"
  /\ MasterReads(s) /\ ToMaster(s).type = "Begin"
  /\ \/ /\ c \in Titled
        /\ hlp' = [hlp EXCEPT ![s] = MasterRollback(@)]
        /\ MasterSays(s, <<SyncError, About("Error", c)>>)
     \/ /\ c \notin Titled
        /\ hlp' = [hlp EXCEPT ![s] =
                     [MasterRollback(@) EXCEPT !.pc = "work", !.comp = c, !.snap = Snapshot]]
        /\ MasterSays(s, <<About("Found", c)>>)
  /\ UNCHANGED MasterDB

(* EndMasterCompositeSync without success. *)
FailComposite(s) ==
  /\ hlp' = [hlp EXCEPT ![s] = [MasterRollback(@) EXCEPT !.pc = "receive"]]
  /\ MasterSays(s, <<About("Error", hlp[s].comp)>>)

(* The work of the slave is added.  After an unexpected line the rest is    *)
(* read and ignored.                                                        *)
AddWork(s) ==
  LET c    == hlp[s].comp
      sent == ToMaster(s).curves
      row  == [mrow[c] EXCEPT !.local = Plus(@, sent)]
  IN
  /\ hlp[s].pc = "work"
  /\ MasterReads(s) /\ ToMaster(s).type = "Work"
  /\ sent # {} => ~Locked(s, c)
  /\ \/ /\ sent = {} \/ MasterWritable(s, c)
        /\ hlp' = [hlp EXCEPT ![s] = [@ EXCEPT !.pc = "found", !.pend = IF sent = {} THEN None ELSE row]]
        /\ MasterSays(s, <<About("Begin", c)>>)
     \/ /\ sent # {} /\ ~MasterWritable(s, c)
        /\ FailComposite(s)
  /\ UNCHANGED MasterDB

(* SendMasterCompositeToSlave: the work is read after the slave's "Found". *)
SendContent(s) ==
  LET c     == hlp[s].comp
      row   == IF hlp[s].pend # None THEN hlp[s].pend ELSE hlp[s].snap.rows[c]
      after == IF hlp[s].pc = "found" THEN "answer" ELSE "answer2"
  IN
  /\ hlp[s].pc \in {"found", "found2"}
  /\ MasterReads(s) /\ ToMaster(s) = About("Found", c)
  /\ hlp' = [hlp EXCEPT ![s] = [@ EXCEPT !.pc = after]]
  /\ MasterSays(s, <<[type |-> "Content", comp |-> c, local |-> row.local]>>)
  /\ UNCHANGED MasterDB

(* Defect: "success" is false at the end of every composite. *)
MasterNeverCommits(s) ==
  /\ hlp[s].pc = "answer"
  /\ MasterReads(s) /\ ToMaster(s) = About("OK", hlp[s].comp)
  /\ FailComposite(s)
  /\ UNCHANGED MasterDB

(* The slave has everything: the master commits, then tells the slave. *)
MasterCommits(s) ==
  LET c    == hlp[s].comp
      row  == IF hlp[s].pend # None THEN hlp[s].pend ELSE mrow[c]
      seen == IF Postgres THEN hlp[s].snap.sync ELSE sync
      flag == Flagged(c, seen)
  IN
  /\ hlp[s].pc = "answer"
  /\ MasterReads(s) /\ ToMaster(s) = About("OK", c)
  /\ ~Locked(s, c)
  /\ \/ /\ MasterWritable(s, c)
        /\ mrow' = [mrow EXCEPT ![c] = row]
        /\ sync' = [sync EXCEPT ![c] = flag]
        /\ hlp' = HelpersAfter(s, [MasterRollback(hlp[s]) EXCEPT !.pc = "receive"], c)
        /\ MasterSays(s, <<About("OK", c)>>)
     \/ /\ ~MasterWritable(s, c)
        /\ FailComposite(s)
        /\ UNCHANGED <<mrow, sync>>
  /\ UNCHANGED <<srow, ses, link, done, trouble>>

(* SendUpdatesToSlave, its query: the rows inserted by PopulateSlaveSync are *)
(* seen unless phase 1 has rolled them back.                                *)
StartSending(s) ==
  LET snap == IF hlp[s].snap = None THEN Snapshot ELSE hlp[s].snap IN
  /\ hlp[s].pc = "receive"
  /\ MasterReads(s) /\ ToMaster(s) = NoMore
  /\ hlp' = [hlp EXCEPT ![s] = [@ EXCEPT !.pc = "next2", !.snap = snap,
               !.todo = {c \in Composite : snap.sync[c][s] = "send"} \cup hlp[s].added]]
  /\ MasterSays(s, <<Start>>)
  /\ UNCHANGED MasterDB

SendComposite(s) ==
  LET c == First(hlp[s].todo) IN
  /\ hlp[s].pc = "next2" /\ hlp[s].todo # {}
  /\ hlp' = [hlp EXCEPT ![s] = [@ EXCEPT !.pc = "found2", !.comp = c, !.todo = hlp[s].todo \ {c},
               !.snap = IF hlp[s].snap = None THEN Snapshot ELSE hlp[s].snap]]
  /\ MasterSays(s, <<About("Begin", c)>>)
  /\ UNCHANGED <<MasterDB, up>>

MasterCloses(s, lines) ==
  /\ hlp' = [hlp EXCEPT ![s] = [NoHelper EXCEPT !.pc = "closed"]]
  /\ MasterSays(s, lines)

EndSending(s) ==
  /\ hlp[s].pc = "next2" /\ hlp[s].todo = {}
  /\ MasterCloses(s, <<NoMore>>)
  /\ UNCHANGED <<MasterDB, up>>

(* SentUpdateToSlave and the commit; a failure ends the phase. *)
CompositeSent(s) ==
  LET c == hlp[s].comp IN
  /\ hlp[s].pc = "answer2"
  /\ MasterReads(s) /\ ToMaster(s) = About("OK", c)
  /\ \/ /\ MasterWritable(s, c)
        /\ sync' = [d \in Composite |->
             [sync[d] EXCEPT ![s] = IF d = c THEN "clear"
                                    ELSE IF d \in hlp[s].added THEN "send" ELSE @]]
        /\ hlp' = [hlp EXCEPT ![s] = [MasterRollback(@) EXCEPT !.pc = "next2"]]
        /\ UNCHANGED down
     \/ /\ ~MasterWritable(s, c)
        /\ MasterCloses(s, <<NoMore>>)
        /\ UNCHANGED sync
  /\ UNCHANGED <<mrow, srow, ses, link, done, trouble>>

(* Lines that were not expected. *)
MasterSkips(s) ==
  LET c == hlp[s].comp IN
  /\ MasterReads(s)
  /\ \/ /\ hlp[s].pc = "receive" /\ ToMaster(s).type \notin {"Begin", "NoMore"}
        /\ MasterSays(s, <<SyncError>>) /\ UNCHANGED hlp
     \/ /\ hlp[s].pc = "work" /\ ToMaster(s).type # "Work"
        /\ MasterSays(s, IF hlp[s].failed THEN <<>> ELSE <<SyncError>>)
        /\ hlp' = [hlp EXCEPT ![s] = [@ EXCEPT !.failed = TRUE]]
     \/ /\ hlp[s].pc = "found" /\ ToMaster(s) # About("Found", c)
        /\ FailComposite(s)
     \/ /\ hlp[s].pc = "found2" /\ ToMaster(s) # About("Found", c)
        /\ MasterCloses(s, <<NoMore>>)
     \/ /\ hlp[s].pc \in {"answer", "answer2"} /\ ToMaster(s) # About("OK", c)
        /\ UNCHANGED <<hlp, down>>
  /\ UNCHANGED MasterDB

MasterTimesOut(s) ==
  /\ hlp[s].pc \in MasterWaits /\ up[s] = <<>>
  /\ \/ (~link[s] \/ ses[s].pc = "closed" \/ Stuck(s)) /\ UNCHANGED trouble
     \/ link[s] /\ ses[s].pc # "closed" /\ ~Stuck(s) /\ Trouble
  /\ MasterCloses(s, <<SyncError>>)
  /\ UNCHANGED <<mrow, sync, srow, ses, up, link, done>>

-----------------------------------------------------------------------------
(* Both sides have closed the connection. *)
EndSession(s) ==
  /\ ses[s].pc = "closed" /\ hlp[s].pc = "closed"
  /\ ses' = [ses EXCEPT ![s] = NoSession]
  /\ hlp' = [hlp EXCEPT ![s] = NoHelper]
  /\ up' = [up EXCEPT ![s] = <<>>] /\ down' = [down EXCEPT ![s] = <<>>]
  /\ link' = [link EXCEPT ![s] = FALSE]
  /\ UNCHANGED <<mrow, sync, srow, done, trouble>>

(* The connection breaks: of what is on its way only a beginning arrives. *)
LoseConnection(s) ==
  /\ link[s] /\ Trouble
  /\ link' = [link EXCEPT ![s] = FALSE]
  /\ \E i \in 0..Len(up[s]), j \in 0..Len(down[s]) :
       /\ up' = [up EXCEPT ![s] = SubSeq(@, 1, i)]
       /\ down' = [down EXCEPT ![s] = SubSeq(@, 1, j)]
  /\ UNCHANGED <<mrow, sync, srow, ses, hlp, done>>

(* A client's return of curves, committed at the slave or at the master. *)
ReturnAtSlave(k, s) ==
  LET c   == CompositeOf[k]
      row == srow[s][c]
  IN
  /\ k \notin done /\ ServerOf[k] = s
  /\ row.exists /\ ~SlaveHolds(s, c)
  /\ done' = done \cup {k}
  /\ srow' = [srow EXCEPT ![s][c] =
       [row EXCEPT !.local = Plus(@, {k}), !.since = @ \cup {k}, !.toMaster = TRUE]]
  /\ UNCHANGED <<mrow, sync, ses, hlp, up, down, link, trouble>>

ReturnAtMaster(k) ==
  LET c == CompositeOf[k] IN
  /\ k \notin done /\ ServerOf[k] = Master
  /\ mrow[c].exists /\ ~Locked(Master, c)
  /\ done' = done \cup {k}
  /\ mrow' = [mrow EXCEPT ![c].local = Plus(@, {k})]
  /\ sync' = [sync EXCEPT ![c] = Flagged(c, sync)]
  /\ hlp' = HelpersAfter(Master, NoHelper, c)
  /\ UNCHANGED <<srow, ses, up, down, link, trouble>>

(* HelperThread::AddComposites, refused by a slave. *)
AddComposite(c) ==
  /\ ~mrow[c].exists
  /\ mrow' = [mrow EXCEPT ![c].exists = TRUE]
  /\ UNCHANGED <<sync, srow, ses, hlp, up, down, link, done, trouble>>

SlaveStep(s) ==
  \/ StartSync(s) \/ BeginComposite(s) \/ EndPhase1(s) \/ SendWork(s)
  \/ CompositeRefused(s) \/ DeleteDetails(s) \/ InsertDetails(s) \/ SlaveCommits(s)
  \/ StartPhase2(s) \/ ReceiveComposite(s) \/ ReplaceComposite(s) \/ EndPhase2(s)
  \/ SlaveSkips(s) \/ SlaveTimesOut(s)

MasterStep(s) ==
  \/ PopulateSlaveSync(s) \/ StartComposite(s) \/ AddWork(s) \/ SendContent(s)
  \/ MasterCommits(s) \/ StartSending(s) \/ SendComposite(s) \/ CompositeSent(s)
  \/ EndSending(s) \/ MasterSkips(s) \/ MasterTimesOut(s)

Client ==
  \/ \E k \in Curve, s \in Slave : ReturnAtSlave(k, s)
  \/ \E k \in Curve : ReturnAtMaster(k)
  \/ \E c \in Later : AddComposite(c)

Next ==
  \/ \E s \in Slave : SlaveStep(s) \/ MasterStep(s) \/ EndSession(s) \/ LoseConnection(s)
  \/ Client

Spec == Init /\ [][Next]_vars

(* The timer of a slave synchronises again and again, and a session that has *)
(* begun goes on; nothing makes clients return work.                        *)
FairSpec ==
  Spec /\ \A s \in Slave : WF_vars(SlaveStep(s)) /\ WF_vars(MasterStep(s))
                           /\ WF_vars(EndSession(s))

-----------------------------------------------------------------------------
(***************************************************************************)
(* Properties.                                                             *)
(***************************************************************************)
(* Every variable has its type. *)
TypeOK ==
  /\ mrow \in [Composite -> MasterRow]
  /\ sync \in [Composite -> [Slave -> Flag]]
  /\ srow \in [Slave -> [Composite -> SlaveRow]]
  /\ ses \in [Slave -> Session]
  /\ hlp \in [Slave -> Helper]
  /\ up \in [Slave -> Seq(Message)]
  /\ down \in [Slave -> Seq(Message)]
  /\ link \in [Slave -> BOOLEAN]
  /\ done \subseteq Curve
  /\ trouble \in 0..MaxTrouble

(* A slave never shows curves that the master does not have, unless it is   *)
(* still to report them: the two transactions end in the right order        *)
(* (IAmAMaster::EndMasterCompositeSync before the slave's Commit).          *)
SlaveNeverAhead ==
  \A s \in Slave, k \in Curve :
    srow[s][CompositeOf[k]].local[k]
      <= mrow[CompositeOf[k]].local[k] + IF k \in srow[s][CompositeOf[k]].since THEN 1 ELSE 0

(* Curves are counted again at the master only after a failure: once, plus  *)
(* once for each lost connection or time-out (SendWorkToMaster resets the   *)
(* counter in the transaction that ends with the master's "OK").            *)
OneRecountPerFailure ==
  \A k \in Curve : mrow[CompositeOf[k]].local[k] <= 1 + trouble

(* A slave whose flag is clear has at least what the master has: no change  *)
(* at the master is passed over (MasterComposite::SendUpdatesToAllSlaves    *)
(* and SentUpdateToSlave).                                                  *)
NoMissedUpdate ==
  \A s \in Slave, k \in Curve :
    sync[CompositeOf[k]][s] = "clear"
      => mrow[CompositeOf[k]].local[k] <= srow[s][CompositeOf[k]].local[k]

(* Reporting loses nothing: a step other than phase 2's replacement never   *)
(* forgets curves of a slave that the master has not counted                *)
(* (IAmASlave::SendMasterCompositeToMaster, one transaction).               *)
Phase1KeepsUnreported ==
  [][\A s \in Slave, k \in Curve :
       ~ReplaceComposite(s)
         /\ k \in srow[s][CompositeOf[k]].since
         /\ k \notin srow[s][CompositeOf[k]].since'
       => mrow[CompositeOf[k]].local[k] > 0]_vars

(* Curves returned at a slave are still to be reported or counted by the    *)
(* master.                                                                  *)
SlaveKeepsUnreported ==
  \A s \in Slave, k \in done :
    ServerOf[k] = s => \/ k \in srow[s][CompositeOf[k]].since
                       \/ mrow[CompositeOf[k]].local[k] > 0

(* Between two sessions CurvesSinceLastReport holds what the master has not *)
(* heard of.                                                                *)
SinceIsUnreported ==
  \A s \in Slave, k \in Curve :
    ses[s].pc = "idle" /\ k \in srow[s][CompositeOf[k]].since
      => mrow[CompositeOf[k]].local[k] = 0

(* Both sides refuse a composite whose name is not its value, and a session *)
(* that has met one is out of step.                                         *)
AllUntitled == \A c \in Titled : ~mrow[c].exists

(* What a slave has to report is reported, or replaced, some day, as long   *)
(* as no composite is refused.                                              *)
EventuallyReported ==
  []AllUntitled =>
    \A s \in Slave, k \in Curve :
      k \in srow[s][CompositeOf[k]].since ~> k \notin srow[s][CompositeOf[k]].since

(* When clients are quiet and no composite is refused, every slave comes to *)
(* show what the master has.                                                *)
EventuallyTheSame ==
  []AllUntitled =>
    <>[](\A s \in Slave, c \in Composite : mrow[c].exists =>
           /\ srow[s][c].exists
           /\ srow[s][c].local = mrow[c].local)

(* Synchronising comes to its end, in both directions.                      *)
EventuallyInStep == EventuallyReported /\ EventuallyTheSame
=============================================================================
