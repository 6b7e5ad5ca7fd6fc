# ECMNet in TLA+

This directory holds TLA+ models of ECMNet 3.0.5 (`src/source`), the configurations that check
them with TLC, and proofs checked by TLAPS. Every definition was written from the source; the
documents of the repository are only quoted where they say something that the code does not do.
`PROJECT.json` maps each definition to the lines it stands for.

## 1. The system

ECMNet spreads the factoring of large numbers with GMP-ECM over many computers. A *server* keeps
the numbers in a database and hands out work; *clients* run curves and return them; a *slave*
server synchronises its own database with a *master* server; *ecmadmin* sends administrative
lines. Everything goes over TCP as lines of text, and into MySQL (InnoDB) or PostgreSQL over ODBC
with auto-commit off and isolation level REPEATABLE READ (`DBInterface.cpp:184`).

| component | state it keeps | operations | talks to |
|---|---|---|---|
| server main, timers (`ecmserver.cpp`, `ServerThread.cpp`) | quit flag, client counter, strategies, B1 table | accept, start helper threads, every few seconds: expire, recurse, e-mail, sync; shut down | helper threads (shared counters), database |
| helper threads (`HelperThread.cpp`) | one socket, one database connection | read one request; dispatch to the next rows of this table; administration | client, admin, slave |
| handing out work (`WorkSender.cpp`, `KeepAliveThread.cpp`) | work sent per strategy and in all; `PendingWork`, `LastSendTime` | choose strategy, composite, method, B1 and curves; send; keep the client waiting | client |
| taking in work (`WorkReceiver.cpp`, `MasterComposite.cpp`, `Composite.cpp`, `CompositeFactorEvent.cpp`, `UserStats.cpp`) | the tables `MasterComposite`, `MasterCompositeWorkDone`, `Composite`, `CompositeFactorEvent(Detail)`, `UserStats`, `PendingWork`, `MasterCompositeSlaveSync` | `Return Work`, `Return Factor Event (Detail)`, `End Return Work`, `Abandon Work` | client |
| synchronisation (`IAmAMaster.cpp`, `IAmASlave.cpp`) | the same tables on both sides, `CurvesSinceLastReport`, `SendUpdatesToMaster`, `SendUpdatesToSlave` | phase 1: the slave reports and gets back; phase 2: the master sends what changed; user statistics | master, slave |
| client (`ecmclient.cpp`, `Work.cpp`, `WorkUnit.cpp`) | per server: list of work units, save file, share and work done; stop flags and options | choose a server, get work, run a curve, save, return work, load, stop | server, GMP-ECM |
| administration (`ecmadmin.cpp`) | server, password, file | set a status, import composites, import curves | helper thread |
| e-mail (`Mail.cpp`, `MailSocket.cpp`) | whether the mail server answered at the start | one message for each factor event | mail server |
| sockets, SQL, log, HTML, import of version 2, expressions | buffers | plumbing | |

The behaviours that are hard to test:

* **Concurrent transactions.** Helper threads, the timer thread and the sync share rows. Most columns
  are written from values read at the start of the transaction; the locks of the code exclude nobody.
  What the isolation level of each database refuses decides what is lost.
* **Answers and failures.** A client reads one line per unit; a refused unit is answered with
  several and a failed one with none. A COMMIT that fails is only logged (`DBInterface.cpp:268`), and answered like one that did not. Time-outs of 2 s (server) and 10 s (client), crashes and
  lost connections fall between a COMMIT and its answer.
* **Two databases in one exchange.** Master and slave commit one after the other, each on an
  answer of the other, and clients return curves on both sides meanwhile.
* **Threads that share counters and the process.** The server thread reads the quit flag and the counter of clients in
  separate steps, helper threads count themselves off before they free what they use, and main ends the process in between.
* **Stops and starts.** A stop signal changes a client's flags at any point of its loop and may put a question to a user who is not there; a second one ends it where it stands,
  and only what was saved is there at the next start, which is nothing while the file is being rewritten; a timer round that fails half-way is repeated against tables that changed.
* **Loops that wait.** The sender's selection loop, the stop handshake of the keep-alive thread,
  the shutdown that waits for helper threads, the resending of what failed.

What makes each component correct, in one line: *taking in* - what is answered "Accepted" is in
every table exactly once, unless its own COMMIT failed; *returning* - no unit is lost but by such a COMMIT or with a file half written, and none is counted without bound;
*synchronising* - curves returned anywhere are at the master in the end and the slave shows them;
*handing out* - what is sent is the next piece of work on the ladder of B1 values, as of when the cursor was opened, and it is on
record; *threads* - the limit of clients holds, almost nothing is left running when the server ends, and everything that waits
ends; *timers* - each composite factor gets one composite of its own, each event is mailed once unless something fails;
*administration* - what is reported as verified is in the database or was answered; *client* - no finished curve is lost but the
one that was not saved or those of a file half written, the shares are kept, a client told to stop stops or asks.

## 2. Modules

| module | models | lines of code it stands for |
|---|---|---|
| `WorkReceiver` | the database side of returning work, all helper threads at once | `WorkReceiver.cpp` (3.0 protocol) and the four persistence classes |
| `WorkReceiverProofs` | the theorems about it | |
| `ReturnSession` | both ends of a returning session: client queue, save file, lines, time-outs, crashes | `Work.cpp`, `WorkUnit.cpp`, `WorkReceiver::ProcessMessage` |
| `WorkLedger` | abstract specification: what returning work promises | implemented by `ReturnSession` |
| `ReturnSessionProofs` | the theorems about `ReturnSession`, the refinement among them | |
| `MasterSlaveSync` | the exchange between master and slaves | `IAmAMaster.cpp`, `IAmASlave.cpp` |
| `MasterSlaveSyncProofs` | the theorems about it | |
| `WorkSender` | a request for work: selection loop, sending and recording, keep-alive thread, the client that reads | `WorkSender.cpp`, `KeepAliveThread.cpp`, `Socket::Send` |
| `WorkChoice` | which method, B1 and curves a composite gets, and how returns move it up the table | `WorkSender::SendWork`, `GetECMIndexAndCurves`, `GetCurvesDone` |
| `WorkSenderProofs`, `WorkChoiceProofs` | the theorems about these two | |
| `HelperThread` | one connection: the helper thread, the requests of an administrator, and `ecmadmin` or another program at the other end | `HelperThread.cpp`, `ecmadmin.cpp`, `HelperSocket.cpp` |
| `ServerLifecycle` | composes any number of `HelperThread`s with the thread that accepts, the shared counter and flag, and the end of the server | `ecmserver.cpp` (`main`, `SetQuitting`), `ServerThread.cpp`, `SharedMemoryItem.cpp` |
| `ServerLifecycleProofs` | the theorems about it | |
| `ServerTimers` | what main does on its timers while returns and administrators write the same rows | `RecurseFactors`, `SendEmail`, `Mail.cpp`, `MailSocket.cpp` |
| `ServerTimersProofs` | the theorems about it | |
| `ClientLoop` | the client around its sessions: shares, curves, save files, stop and start | `ecmclient.cpp`, `Work.cpp`, `WorkUnit.cpp` |
| `ClientLoopProofs` | the theorems about it | |
| `MC...` | constants for TLC of the module of that name | |

`ReturnSession` and `WorkReceiver` are two views of one component, split where the code is split:
`ReturnSession` has the lines and treats a transaction as one step that commits or fails in silence;
`WorkReceiver` has the statements and treats a session as a sequence of submissions in any order.
The step *EndWork* of the first is *StartWork .. EndWork* of the second; "Accepted Work for" leaves
after the COMMIT in both, failed or not. `MasterSlaveSync` takes a client's return as one committed step, guarded
by the row locks that `WorkReceiver` shows it needs.

`ClientLoop` and `ReturnSession` meet in `ReturnWork`: the first takes a session as one step that leaves any part of the units
unconfirmed, the second shows what the lines of that session can do. `ServerLifecycle` takes the requests that have a module of
their own as one step of the helper thread (`ServeRequest`), and `ServerTimers` takes a return as the transaction that
`WorkReceiver` says it is: begun with a read of the row, committed with a write of it, refused on PostgreSQL if the row changed.

`WorkSender` and `WorkChoice` split one function: `PickRow` and `NoWorkForRow` of the first stand for a call of
`SendWork` of the second that finds work, or none.

In every module a definition called *Defect: ...* in its comment is not part of the model. It is
the plausible bug that shows that a property has teeth: put in place of the definition after it, TLC
finds the property violated.

### 2.1 `WorkReceiver`

State: `db` is the committed database, one function per table. A helper thread `t` has a program
counter, the unit in progress `ret[t]`, the snapshot `snap[t]` its SELECTs read, and the fields
of its in-memory objects `obj[t]`. `committed`, `acked` are history; `trouble` counts failures.

* A **counter is the set of contributions** that it holds: `LocalCurves`, `TotalWorkDone`,
  `FactorCount`, `Difficulty`, the work of a user. `set col = col + ?` adds to the committed set, a value
  written from memory replaces it by what the snapshot held plus the return. Lost or doubled
  contributions show as such.
* **Isolation.** A row carries the number of its version. `Writable` says when a statement passes:
  PostgreSQL refuses an UPDATE of a row that changed since the snapshot, InnoDB goes on with the newest
  version. `HoldsRow` and `HoldsParent` are the row locks (of an updated work row, of the rows of
  `MasterCompositeSlaveSync`, and InnoDB's share lock on the parent of an inserted row);
  `CanEnd`, `Victims`, `Ended` are the dead-lock of two share locks and its victim.
* **Actions**, one per line of the protocol: `StartWork` (the three SELECTs), `ProcessWork` (AddWorkDone,
  flags, DELETE from `PendingWork`), `ProcessFactorEvent`, `ProcessFactorEventDetail`, `EndWork` (the
  UPDATEs and INSERTs and COMMIT: it is one action because the statements before are only visible through
  the locks above), `EndWorkFails`, `SendAccepted`, `AbandonWork`; failures are `StatementFails`, `Disconnect`,
  `ServerExits`, and the two that the code overlooks (`Overlooked`): `EndWorkWithoutCommit` (`DBInterface::Commit` returns nothing and only
  logs, so "Accepted Work for" follows all the same) and `EndWorkWithoutDetail` (only the last INSERT's result counts).
* A unit that is returned again is another element of `Return` with the same data, so that counting
  twice is not hidden: it is `ReturnSession` that says how often a unit is sent.

| run | what it shows |
|---|---|
| `wr_postgres` | PostgreSQL, two threads, one return of each kind (curves, a factor, a factor of a co-factor, "number", an untouched unit, a value that does not match): every column of the master composite that a return writes (`MasterColumnsExact`), every event and detail (`EventTablesExact`), every user's totals exact, with a COMMIT that may fail unnoticed too; and every unit that is sent again until accepted gets in, or is accepted by mistake, although returns make each other's transactions fail |
| `wr_innodb` | InnoDB, with two failures, among them a COMMIT or a detail that fails unnoticed, dead-locks of share locks and a registered slave: the curves of the work rows are exact although whole rows are overwritten (`CurvesExact`), and no more units are accepted without being in the database than there were failures (`OneLossPerFailure`): a dead-lock, a refused or a failing statement, a victim's rollback or another thread's lost COMMIT never has a unit accepted |
| `wr_wedge` | counterexample, see section 4 |

The other constants give more. They are not runs of their own; each takes one change in a configuration:

* `wr_innodb` with `TotalWorkExact` or `StatsExact`: violated. On InnoDB `MasterComposite::FinalizeChanges` writes a sum over its
  snapshot, and `UserStats::Update` totals from values read before.
* `wr_postgres` with `LockExcludesOthers`: violated, since every object locks a mutex of its own (`MasterComposite.cpp:91`).
* `wr_postgres` with `DifficultyFollowsTotal`: violated, since `Difficulty` sums P-1 and P+1 work too (`Composite.cpp:116`).
* `wr_innodb` with `acked \subseteq committed` as its invariant: violated, since `DBInterface::Commit` returns nothing. This is why the promise is `OneLossPerFailure`.
* `InstanceColumn = FALSE` (the tables of `create_tables_mysql.sql`, whose `PendingWork` has `ClientID`) and `EventuallyCommitted`: violated,
  every return fails in its DELETE.

Bounds: two threads interleave in every order, and seven returns, each of another kind, meet each other in pairs with any number before
and after; one failure of any kind (two in `wr_innodb`, so that one can hide behind another) on top of the conflicts, which are not bounded. Two threads are enough for the stale reads that the
properties are about, since each relates one transaction to one that commits during it.
Fairness (`FairSpec`): a helper thread goes on with the lines it has (`Proceed`), and a client that got no answer sends
the unit again (`ReturnWork` is called from the client's main loop until the list is empty).

### 2.2 `ReturnSession` and `WorkLedger`

The client has `mem` (`im_FirstWorkUnit`), `todo` (the part of the list that `ReturnWork` has not
come to), and `file`. A session `n` has two channels `c2s[n]`, `s2c[n]`, a connection `link[n]` and a helper
thread `srv[n]` with the unit of its open transaction, `success` and the unit of `goodMessage`.
A helper thread may go on reading after the client has gone, next to the client's following session.

* Client: `GetWork` (only with an empty list; ends with a `Save`), `Save` (opens the file, which is empty from then on), `WriteFile` (closes it), `ReturnWork`, `SendAbandon`, `SendUnit`, `ReadAnswer`
  (one line; deletes the unit only for exactly "Accepted Work for" it, otherwise `AddWorkUnit`), `NoAnswer`,
  `EndOfReturn`, `Close` (reads to the end, removes the file if nothing is left), `Crash` (between `Save` and `WriteFile` it leaves any beginning of the file), `Restart` (`Load`).
* Server: `ReceiveReturn`, `ReceiveFactor`, `EndWork` (commits and accepts, rolls back in silence, or accepts after a COMMIT that failed), `ReceiveAbandon`, `NotUnderstood` (an ERROR line for
  each line of a unit that failed), `Finish` (end of the return, or two seconds of silence).
* Network: `LoseConnection` keeps any beginning of what was under way; `ServerExit`.

A time-out is free when nothing could come any more (`Over`, `Idle`), otherwise it counts as one of the
`MaxTrouble` failures, since then one side was merely slow.

`waived` is history: the units that a failure took, either one, accepted after a COMMIT that failed, or those a dying client's half-written file lacks.
A line that is cut in the middle makes `Work::Load` end the program (`WorkUnit.cpp:599`) until a user mends the file; the model takes its unit for lost.

`WorkLedger` is the promise: units are issued to a client that holds none (`Issue`), counted (`Count`), and the client
lets go only of what was counted, needs no counting or was waived (`Settle`). A unit is waived in two ways, each of which takes a failure: `Overlook`, one unit the server did not
count, and `LoseRecord`, which is possible only while the client is `writing` its record. No other failure, late answer or restart takes a unit.
The refinement maps `held` to what the client has in memory, or on file while it is down, and `writing` to the state "saving". `LedgerKept` is checked as a property of
`ReturnSession`, with the liveness `ReturningEnds`: every unit is counted or waived, and the client gets rid of all, if none is refused.

| run | what it shows |
|---|---|
| `rs_several` | several units in a session, as `protocol.txt` allows, and a second batch; two failures: recounts are bounded by failures, no file is left behind, the ledger is implemented, and without refused units the client gets rid of everything. A behaviour that starts with the batch `BadFirst` has a unit the server never accepts: its surplus ERROR lines are read as the answers of the unit behind it, which is counted all the same |

`Batches` holds the possible runs of GETWORK replies. `BatchAssumption` says that no unit is handed out twice, in two replies of a run or in one: a unit here is one handing out of work, not its composite.

`CountedAtMostOnce` is not a property of the code: one lost answer is enough to count a unit twice, and behind a refused unit the
others are counted again at every return (`BadFirst` with `MaxTrouble = 0`). What does hold is `OneCountPerFailure`.

Bounds: `MaxSession` is larger than the number of batches plus failures, so that the client never stops for lack of sessions;
two failures are enough for a crash or lost answer followed by a second one while the first is repaired.
Fairness: the client's main loop goes on to return and to ask for work (including its restart) - strongly, because it may save in between, once for each curve, and the
curves of its units end, which is not in this module -, a file that is open is written, and helper threads run. No fairness obliges anything to
fail or to succeed: a transaction may fail only as often as `MaxTrouble` allows.

### 2.3 `MasterSlaveSync`

For each slave `s`: `ses[s]` is the thread that runs `IAmASlave::SyncWithMaster`, `hlp[s]` the helper thread in
`IAmAMaster::SyncWithSlave`, `up[s]` and `down[s]` the lines under way. `mrow`, `srow` are the committed rows, `sync` the
flags of `MasterCompositeSlaveSync`. Each side has the snapshot of its open transaction, and the uncommitted row (`pend`).

* Phase 1, slave: `BeginComposite`, `SendWork` (reports `CurvesSinceLastReport` of the snapshot and sets the counter to 0),
  `DeleteDetails`, `InsertDetails` (everything of the composite is replaced by what the master sends), `SlaveCommits`.
  Master: `StartComposite`, `AddWork`, `SendContent`, `MasterCommits` (commit, then "OK"), `MasterSkips`, `FailComposite`.
* Phase 2, master: `StartSending`, `SendComposite`, `CompositeSent` (flag cleared and committed), `EndSending`. Slave: `StartPhase2`,
  `ReceiveComposite`, `ReplaceComposite`, `EndPhase2`.
* `PopulateSlaveSync` inserts a slave's flags; when a composite of phase 1 starts, its Rollback undoes them (`added`).
* Around it: `ReturnAtSlave`, `ReturnAtMaster` (clients), `AddComposite`, `LoseConnection`, `SlaveTimesOut`, `MasterTimesOut`.
* `Titled` composites have a name that is not their value: `MasterComposite::SetValue` compares the new value with the
  *name* and both sides refuse them, with two lines for one question.

Slaves start empty and get their composites in phase 2 of the first session. Sessions of one slave follow each other without
end; the state space stays finite since counts are bounded by the failures.

| run | what it shows |
|---|---|
| `sync_one` | PostgreSQL, returns on both sides, a composite added later, a failure: nothing at the master is passed over, the slave is never ahead, all reports get through and both sides come to show the same (`EventuallyInStep`). A third composite, which both sides refuse because its name is not its value, may be added at any moment: from then on only the safety properties are promised |
| `sync_between` | counterexample (section 4) |

With other constants:

* `Postgres = FALSE`: `NoMissedUpdate` is violated (a flag set by a return during phase 2 is overwritten, `MasterComposite.cpp:382`), and so is
  `Phase1KeepsUnreported` (a return at the slave during phase 1 is wiped, `IAmASlave.cpp:286`); `SlaveNeverAhead` and `OneRecountPerFailure` hold.
* `SinceIsUnreported` is violated with one lost answer: the master has counted what the slave will report again.
* `Titled = {1}` next to a composite 2, `EventuallyInStep` without its condition on titles: violated. The refusal is answered with two lines, both sides fall out of
  step, and no composite behind it is ever reported.
* two slaves that report at the same time: `SlaveNeverAhead` and `OneRecountPerFailure` hold (without a failure); the second starting its first session while the first reports, and `NoMissedUpdate`: violated on PostgreSQL, since
  `SendUpdatesToAllSlaves` does not see the new flag.

Bounds: one slave, three composites, up to three returns at different servers, at most one failure. A recount, a missed
flag or a wiped counter takes one session and one return that falls into it.
Fairness: the timer loop of the slave starts a session again and again (`ecmserver.cpp:268`; the time of the next sync is never updated,
so every second), and each side of a session goes on. Clients are under no fairness.
Assumptions on the constants: every return belongs to one composite and one server, the master is none of the slaves, and `None` is not
a row, a snapshot or a composite (`NoneAssumption`).
Left out: a COMMIT that fails and is only logged (`DBInterface.cpp:268`) on either side, above all before the "OK" of `IAmAMaster.cpp:281`: a slave would then forget curves the
master never kept, so what the runs and theorems of this module say holds as long as each COMMIT succeeds or takes the session down with it; user statistics, passwords, factor events as items of their own (they travel with the curves in the same transactions),
overlapping sessions of one slave.

### 2.4 `WorkSender` and `WorkChoice`

`WorkSender` has, for each thread `t` that answers GETWORK, its local variables and transaction (`sender[t]`), the
keep-alive thread (`keeper[t]`), the number the two share (`waiter[t]`), the socket's one send buffer (`buffer[t]`), the lines
under way (`wire[t]`) and the client (`client[t]`, `held[t]`).

* Selection (`SendUsingStrategy`): `OpenCursor` (the first `CursorLimit` rows, for "limit 100", in any order a strategy may give; they may all be finished), `SkipRow`, `NoWorkForRow` (rolls back), `PickRow` (under the lock of `ip_TotalWorkSent`), `NextPass`.
  The chance to skip a row shrinks by 10% a pass: after `SureAfter` passes no row is skipped.
* Recording (`SendWorkUnit`): `PutWork` sends the line; `RecordWork` inserts into `PendingWork`, sets `LastSendTime` and commits, or has a COMMIT that fails, which is only logged (`overlooked`); `RecordFails`
  exits the server. On PostgreSQL the UPDATE fails on a row somebody changed since the cursor was opened (`stale`): another sender, or a return (`OthersReturn`).
* A `Send` is two steps, since both threads format into one buffer without a lock: the keep-alive thread can send the sender's line, and either can
  send nothing, or a mixed line ("torn").
* The end of the keep-alive thread: `StopKeepAlive` is one round of the sender's loop under the lock of the shared number, `KeepAliveWakes` .. `KeepAliveEnds` the thread.
* `ReadLine`: the client takes every line it cannot parse, "keepalive" among them, for the end of the answer.

As written, the INSERT into `PendingWork` always fails (nine columns, eight placeholders), so that this version of the server
exits after each unit it sends. `InsertOutcomes` is `{FALSE}` for that; with `{TRUE, FALSE}` the run also says
what the rest of the code does once the statement has its ninth placeholder, a failure of it still being possible.

`WorkChoice` follows one composite up the table of B1 values. `FetchRow` opens the cursor of a request and so fixes the total (TotalWorkDone) it will decide with, and the snapshot;
`Rollback`, after a composite before it that had no work, gives a new snapshot of the curves but not of the total; `SendWork` chooses the unit from what was
`seen`, while any number of returns may have been committed since: the lock of `ip_TotalWorkSent` is taken after the row was fetched. `Return` adds any part of the curves, `GiveUp` loses a unit. B1 values and work are whole numbers.

| run | what it shows |
|---|---|
| `ws_two` | two requests at a time, failing statements, keep-alive lines: each is answered unless the server exits or finished composites alone can fill the cursor for ever (`NothingToDo`; the cursor takes one of the two composites, so this happens with work left); the keep-alive thread is gone before what it uses; what a client holds is recorded once the sending is over, but for the very unit whose COMMIT failed (`HeldIsTracked`) |
| `wc_range` | two clients on a table with levels outside the range, a level without ECM curves, two lines of one B1 and work that does not divide evenly: units and the end of work are in the range (`UnitsAndEndInRange`), ECM work goes to the lowest level that needs it and waits for the P-1 work above (`ECMInOrder`), although both are decided on what was fetched before other returns: no level is ever passed over, and one that is done is handed out again only if a return was committed after the fetch; the composite gets to the end |

With other constants: `WorkSender` with `InsertOutcomes = {FALSE}` and the property that the server stays up: violated at the first unit, although
`WorkSender.cpp:371` means to "insert a record into PendingWork"; the same instance with `EventuallyAnswered` without `NothingToDo`: violated, since the loop
of `SendUsingStrategy` never ends when only composites without ECM work are left (`WorkSender.cpp:137`).
`WorkChoice` with `PM1Depth = 2`, `PP1Depth = 0` violates `ECMInOrder`, since the loop over both depths ends at the smaller
one (`WorkSender.cpp:228`), although `ecmserver.b1:7-12` describes each by itself; with the last B1 of the table below `minb1` it violates `UnitsAndEndInRange`, since the index
runs off the table and the number of curves is never set (`WorkSender.cpp:279-304`).

Bounds: two senders and two composites, of which one is selected at a time and the others' returns concern one, so that each pair of senders, and a sender and a return, meet on a row, and a finished composite can hide the other; one keep-alive line per request,
which can meet each line of the sender, for one of the two, whose client alone may also stop waiting (`Impatient`; the other is gone only after a line it does not understand); one pass with chance before the sure one. Two clients and five levels, one lost unit; `wc_range` stays finite because a composite ends.
Fairness: the operating system runs both threads; the sender gets the lock of the shared number because the keep-alive thread sleeps without it.
In `WorkChoice` requests are served (`FetchRow`, `SendWork`), and clients ask for work and return at least one curve, which says that clients go on, as `EventuallyDone` needs.

### 2.5 `HelperThread` and `ServerLifecycle`

`HelperThread` has, for each connection `c`, the thread's program counter, the line it works on and the snapshot of its transaction
(`helper[c]`), the lines on their way to it (`inbox[c]`), the last line its peer waits for (`reply[c]`), the lines it answered with a
message (`answered[c]`) and the program at the other end (`peer[c]`). `composites` are the names and values in `Composite` and
`MasterComposite`, `credited` the curves that `AddCurves` counted. `clientCounter` is `p_ClientCounter`.

* The thread: `StartThread` (counted before it runs), `ReceiveFirst`, `ConnectDatabase`, `ReceiveRequest` (with the password),
  `ServeRequest` (work, returns, sync, pages: their modules), `ChangeStatus`, and the loop of `AddComposites` and `AddCurves`: `ReceiveLine`,
  `LookUpComposite`, `InsertComposite` (its COMMIT may fail, and is only logged: `overlooked`), `InsertFails`, `LookUpCurves`, `CountCurves`, `CountFails`, `RejectCurves`, `Finish`.
  `ReleaseResources` counts the thread off and `CloseConnection` frees what it uses, in this order. `TimesOut` is possible before any line.
* `ecmadmin`: `EnterServer` (forgets the password), `EnterPassword`, `ChooseOption`, `SendFile`, `ReadDone`, `GiveUp`. `PromptForValue` reads the
  first line of the file over the name it was given, so the import opens the file that this line names, and the program fails
  when there is none. `Connect` stands for a browser, a client, or a program that says nothing it understands.

`ServerLifecycle` composes these threads with the server thread (`AcceptMessage`, `ReadQuitting`, `ReadCounter`, `RejectConnection`, `StartHelper`: one
read of a shared value a step), the console handler (`HandlerRoutine` on Windows, `SetQuitting` on UNIX) and the end of main
(`LeaveLoop`, `FreeObjects`, `Return`).

| run | what it shows |
|---|---|
| `server` | a master for two clients on Windows, or a slave for one on UNIX; one connection of an administrator who adds composites, one of any peer: the counter is the number of threads at work and within `i_MaxClients`; after main has decided to leave at most one thread is still at work, the only one that can use what main has freed; of a file that was reported as verified each line is in the database, was answered with a message, was still on its way when the helper stopped to wait, or lost its own COMMIT, also when two administrators add the same lines at once (`VerifiedIsHandled`): no line is lost by another's failure, by the snapshot or by a duplicate; a server that is told to quit ends |

What the model has and no property calls wrong, since no statement of the repository says otherwise:

* a line of curves that cannot be parsed is answered and parsed again for ever (`HelperThread.cpp:488-516`, pc "spinning"); this
  thread keeps the server from ending, and `ShutdownEnds` excepts it;
* curves whose SQL statement fails are passed over without a message (`HelperThread.cpp:538`), so that `VerifiedIsHandled` is about composites only;
* `ChangeStatus` binds name and flag in the wrong order, which PostgreSQL refuses: it never changes a row;
* two administrators can add one value under two names, since only the name is a key;
* on UNIX the first signal ends the process at once, without the wait for clients: the handler raises the signal again after it restored the default.

Bounds: two connections are two threads that meet on the counter, the flag and the tables; the lines contain one that is malformed, one that
is prime and one both administrators add. A second round of the menu adds nothing to a connection.
Fairness: the threads run (`FairSpec`); administrators and peers need not do anything, since every wait for them has a time-out.

### 2.6 `ServerTimers`

`timer` is the main thread's cursor, transaction and local variables in `RecurseFactors` and `SendEmail`; `index` is `RecurseIndex`, `names` the recursed
composites and those of administrators, `recursed` and `sent` the flags of details and events; `returns[e]` is the transaction of the return that
reports event `e`. `round` is the counter of seconds divided by 256, modulo 4: main recurses in every round and sends mail in each fourth.

* `StartRecursion` opens the cursor (rows and `RecurseIndex` of one snapshot), `NextName` looks for a free name from there, `UpdateIndex`, `InsertComposite`
  and `RowFails` are the transaction of a row; `EndRecursion` ends the round. `UpdateIndex` locks the row: no return commits to it before the end of the transaction.
* `NotifyUserAboutFactor` (a message is begun with the first detail), `NewMessageFails`, `SendMessage` (whose result nothing looks at), `MarkSent`, `MarkFails`, `EndMail`.
* Around it: `ReturnBegins`, `ReturnCommits`, `ReturnFails`, `AdminAdds`, `Crash` and `Restart` (which finds the mail server or does without).

| run | what it shows |
|---|---|
| `timers` | both databases, three events of one master composite, a finder whose address is refused, an administrator's composite that has a recursed name, two failures or crashes: a composite factor has one composite of its own exactly if it is marked, and on PostgreSQL `RecurseIndex` is never behind a name; no event is mailed again without a failure; every factor is recursed and every event mailed in the end, also behind one that is refused |

On InnoDB a return puts `RecurseIndex` back to what it read (`MasterComposite::Update`); the names stay unique since `NextName` looks each one up.
An event of a refused address is tried again in every fourth round; one without details is marked without a message.

Bounds: the two composite factors race for the same names, a third number is left for the administrator's; two failures are enough for one
to hit the repair of the other.
Fairness: main runs, and a server that stopped is started again. Clients are under no fairness.

### 2.7 `ClientLoop`

`units[w]`, `file[w]`, `totalWork[w]` and `percent[w]` belong to the server `w` of `ecmclient.ini`; `pc`, `at` and `level` say where main is: looking at the server
`at` with the `level`-th of its attempts, in `DoWork`, returning, or starting. `open` is the server whose save file is being written. `quitting`, `terminating`, `stopOption` are the flags of the signal handler,
`asking` says that it waits for an answer.
`ran`, `accepted`, `cut` and `served` are history: the curves GMP-ECM completed, the units a server took, those that were lost with a file, and whether every server has served so far.

* Start: `CheckFinished`, `CheckUnfinished`, `EndCheck`, `EndCheckAndExit` (`CheckForIncompleteWork` with the answers of `PromptForStartOption`).
* Choice: `Loop`, `WorkIsHere`, `GetWork`, `NextServer`, `NextAttempt` (over-work levels 1, 2, 5, 10, 25, then any server, then one with share 0),
  `Pause`.
* Curves: `StartCurve` (with the search over the units, `AtUnit`), `CurveCompleted`, `CurveInterrupted`, `Save`, `CountCurve`, `EndDoWork`.
* The save file: `Save`, `GetWork` and `DeleteWork` open it, which empties it, and `WriteFile` closes it; main does nothing in between, but a signal or a crash can strike.
  A sudden end then leaves any beginning of the list (`SuddenEnd`): `exit` flushes what `fprintf` has put into the buffer, a crash nothing.
* Returning and the end: `ReturnAll`; `EndLoop`, `ReturnFinally`, `DeleteWork` (the destructors, which save what is left), `Return`.
* Signals: `Signal` (`SetQuitting`, at any point), `AnswerStop`, `SignalAgain`; `Kill`, `Start`.

A SIGINT asks the user what to do if a server has a unit (`AsksAfter`), and asks again after every answer but 2 and 9, while main stands still; the answers are taken into the option one by one (`AnswerStop`).
Nobody need ever answer: without a user, or when standard input is at its end, the handler never returns. The client raises SIGINT itself when GMP-ECM ends before its curve is done
(`CurveInterrupted`, `WorkUnit.cpp:90`), so a SIGTERM that reaches GMP-ECM too has the client ask. A SIGINT that comes while main deletes its units reads freed objects (`ecmclient.cpp:459` against `283`): whether it asks is any outcome.

`ReturnWork` is one step that leaves any part of the units that had curves: what `ReturnSession` shows a session can do.

| run | what it shows |
|---|---|
| `client` | two servers that share the client or one of them in reserve; no work, one unit, a P-1 unit with another unit behind it; a signal, a crash, a second start: a completed curve is in a save file until a server took its unit (`CurvesKept`), but for one that a sudden end outside of a save takes, and for the units that a file broken off lacks; no server gets ahead of its share by more than a batch while all of them serve; a client told to stop ends, or a later SIGINT has it ask (`StopsWhenTold`) |
| `client_interrupt` | counterexample (section 4) |

What the code does here that a reader may not expect:

* A client that dies while it writes its file loses all its units, not just a curve: `fopen(.., "wt")` empties the old file before the new one is there (`Work.cpp:263`). `CurvesKept` counts them apart (`cut`), so that it still
  says that they are lost in no other way: not by a session, a refusal, a start, a `Save` of another server or a clean end.
* `stopoption=` of the file never takes effect after the first curve: `ReprocessINIFile` writes a variable of its own over it (`ReprocessedStopOption`), and
  `stopasapoption=` never at all; `ValidateConfiguration` tests `g_StartOption` where it means `g_StopOption` (`ecmclient.cpp:665`).
* A stop request during the start is forgotten (`EndCheck` sets `g_IsQuitting` to 0), which is why `StopsWhenTold` leaves out "check" and "ask".
* `FindAnyIncompleteWork` never finds anything: `FindNextServerForWork` has taken whatever has curves to do, so `DoWork` is never asked for one curve only.
* `didWork` of main is not initialised; in the pause it decides whether the client ends (`Pause`, any value).
* The client also ends when a server that it asked has no work: `Work::GetWork` returns true, and no curve is done.
* The restart with option 9 and two units ends again at once, for the reason of section 4.

Bounds: two units are the least with which the search for the next curve can go wrong, two servers the least with shares; two curves a unit are
enough to stop in the middle of it, and two units in one file to cut it between them. One signal and one crash can strike together.
Fairness: main runs, but for `PromptForStartOption` and the question of `SetQuitting` (`Prompted`, `asking`), GMP-ECM ends and a session has time-outs. Users and their answers, and the second start, are under no fairness.
Left out: the Windows build, a change of servers in the file between two starts (`Load` from another server's file), `GetGMPEXEVersion`,
the command line of GMP-ECM and the text it prints.

## 3. Proofs

`WorkReceiverProofs` proves, for all sets of threads, returns, composites, rows, users and all values of the switches (database, recurse, slaves):

| theorem | states |
|---|---|
| `TypeCorrect` | `Spec => []TypeOK` |
| `CurvesCorrect` | `Spec => []CurvesExact`, on either database |
| `AnswersCorrect` | `Spec => []OneLossPerFailure`, on either database, whichever statements can fail unnoticed |
| `StatsCorrect` | `Spec => []StatsExact`, on PostgreSQL |
| `TotalWorkCorrect` | `Spec => []TotalWorkExact`, on PostgreSQL |
| `EventTablesCorrect` | `Spec => []EventTablesExact`, on PostgreSQL |
| `MasterColumnsCorrect` | `Spec => []MasterColumnsExact`, on PostgreSQL |

`CurvesExact` is inductive together with the types: the counter is incremented by the database, so no statement about snapshots is needed.
Its proof goes through `Committed(t, ...)`: the only step that changes a work row adds the return that is joined to `committed` in the same step, to the row that `RowOf` names.
`StatsExact` and `TotalWorkExact` are not inductive: a row is written from a snapshot. The strengthening `SnapshotInv` says that
a snapshot's row with the version number of the committed row *is* the committed row, and that a work row never changes without a new version
of its master composite's row. On PostgreSQL `EndPasses` then makes the snapshot current in all that the written value depends on.
Without `Postgres` both are false (section 2.1).

The event tables and the other columns of `MasterComposite` also depend on what a thread keeps in memory between its lines. `MemoryInv` adds three things:
`ReadingInv`, that a thread's objects are its snapshot plus the lines received so far (`Remembers`), that its return is not yet committed, and that a snapshot's master row of the
committed version brings the composites and details of that master composite with it (`RowsSeen`); `Apart`, that two threads never work on one return; `TableInv`, that a detail has the
number of an event that was counted. `CommitTaken` then says what a commit is in terms of the committed rows alone: a new return, whose event takes the next free number.
`EventTablesStep` and the steps for `FactorCount`, `IsActive` and `FullyFactored` follow from that; `FullyFactoredStep` needs the event tables of the next state. The proofs for
`MasterComposite` are what `Lock` does not give: the locks are private to each thread (section 2.1), and it is the row version that keeps two threads apart.

`AnswerInv` counts the units that are accepted, or belong to a thread at "ended" (past its COMMIT, so as good as accepted), and are not committed: there are no more of them than failures.
A step adds at most one to them, and only with a failure of its own (`AnsweredStep`); conflicts and dead-locks, which are not counted as failures, therefore cost no unit. `LossStep` is the arithmetic of it.
`TypeInv` adds to the types that the details counted so far are those of the unit.

`WorkChoiceProofs` and `WorkSenderProofs` prove, for every table, range and number of clients, and every number of threads and composites:

| theorem | states | under |
|---|---|---|
| `WorkChoiceProofs!TypeCorrect` | `Spec => []TypeOK` | |
| `UnitsAndEndCorrect` | `Spec => []UnitsAndEndInRange` | the last line of the table is not below `minb1=` (`LastReachesMin`) |
| `LowestCorrect` | `Spec => LowestLevelFirst` | `LastReachesMin` |
| `OrderCorrect` | `Spec => ECMInOrder` | `LastReachesMin`, no B1 on two lines, `PM1Depth <= PP1Depth` |
| `WorkSenderProofs!TypeCorrect` | `Spec => []TypeOK` | |
| `KeeperStopped` | `Spec => []KeepAliveStopped` | |
| `HeldTracked` | `Spec => []HeldIsTracked` | |

The hypotheses are the ones the code needs: without `LastReachesMin` the loop of `GetECMIndexAndCurves` runs off the table with the number of
curves unset (the model hands out any member of `Junk`); with two lines for one B1, or a smaller P+1 depth, ECM work is given although
P-1 work higher up is missing (section 2.4). The argument of `WorkChoiceProofs` is about the row that a request has fetched, which may be older than the tables. `PastCorrect` proves that it is no
more than that (`SeenIsPast`): what a request has seen of the total and of the curves is at most what is there now, since returns only add. So a level that was done as of the fetch is done, and P-1 work
that was not missing then is not missing now; what was *not* done then may be done by now, and hence the exception in `LowestLevelFirst`. The rest is about one state: `LeastProperty` (a set of natural numbers
has a least member) gives `ECMLevelProperty`, what the loop finds; `OtherUnitProperty` and `ECMUnitProperty` say what a unit looks like,
`GivenBySendWork` that no other step assigns one. `UnitInRange` is then inductive with the types.

`KeepAliveStopped` is not inductive: `HandshakeInv` adds that the value TERMINATED is only there when the keep-alive thread has ended,
which no step undoes. For `HeldIsTracked`, `TrackInv` follows the unit from the row to the client: before a row is picked no composite is in the
buffer, on the wire or held; afterwards only that one is, whichever of the two threads sends the buffer; and once the thread is past the
sending, its record is in `pending`, or it is the one whose COMMIT failed (`Known`). This needs that no other text the server sends looks like a composite (`NameAssumption`).

`ServerLifecycleProofs` proves, for any number of connections, files, lines and limits:

| theorem | states |
|---|---|
| `TypeCorrect` | `Spec => []TypeOK` |
| `CounterCorrect` | `Spec => []ClientsBounded` |
| `StragglerCorrect` | `Spec => []AtMostOneStraggler` |
| `VerifiedCorrect` | `Spec => []VerifiedIsHandled` |

The counter is changed in the step that starts or releases a thread, so that it *is* the number of threads at work (the cardinality
of a set with one element more or less). That it stays within the limit is not inductive: the server thread compares a value that it read
before. `CountInv` adds that the counter has not grown since it was read, because this thread alone starts threads; and, once main has
left the loop, that the flag is set and that nothing runs as long as the server thread may still start a thread for a flag it read before.
`TypeInv` adds to the types that a thread with a line to look up has one, and that an administrator who waits has a file.

`VerifiedCorrect` says that what `ecmadmin` reports as verified was handled. Its invariant
`VerifyInv` follows a line: an administrator waits only behind a helper thread that accepted the request; from then on every line of the file
is on the way, is the line the thread looks up or inserts, is a row, was answered, or lost its own COMMIT; and "Done" is only there once the thread has no such line any more.
It holds for each connection by itself, because other threads only add rows (`OthersKeep`). The step that needs the file is `SendFile`: without a file the program
crashes rather than waits. A line may still be on the way when the thread's time-out ends the file: the code then answers "Done" as well, so the property allows it.

`ServerTimersProofs` proves, for any events, details, names, returns, administrators and numbers of failures:

| theorem | states |
|---|---|
| `TypeCorrect` | `Spec => []TypeOK` |
| `MailCorrect` | `Spec => []OneMailPerFailure` |
| `RecursedCorrect` | `Spec => []RecursedOnce`, on both databases; on PostgreSQL with its second part |

`TypeInv` adds that the row being written and the event being mailed are there. `OneMailPerFailure` is not inductive: `MailInv` adds that the events of
the round are those not yet marked, and that only a marked event, or the one about to be marked, has been mailed once more than there were failures: only a failure
leaves the state "mark" without the mark. For `RecursedOnce`, `MadeInv` adds that neither a row of the cursor nor the one being written is recursed: each is taken out of
the cursor before its INSERT, and only the main thread inserts for a detail. The second part is about writes that pass each other: `IndexInv` says that on PostgreSQL a return whose
transaction still may commit holds the `RecurseIndex` of the table, and that the numbers between the index of the cursor and that of the table are all in use,
so that a number still free at the INSERT is above both. Without `Postgres` `IndexInv` is false, and so is the second part.

`ReturnSessionProofs` proves, for any units, replies, sessions and numbers of failures:

| theorem | states |
|---|---|
| `TypeCorrect` | `Spec => []TypeOK` |
| `LedgerCorrect` | `Spec => LedgerKept`: `ReturnSession` implements `WorkLedger` |
| `FileCorrect` | `Spec => []NoStaleFile` |
| `OnceCorrect` | `Spec => []OneCountPerFailure` |

The refinement rests on `IInv`. `ClientInv` says where the client stands against the list it returns. `UnitInv` says of a unit that was handed out that it is
settled or on file, but while the file is being written, and settled or held: both are needed, because a crash makes the file what the client holds, and `Close` makes the list in memory the file.
A crash while the file is being written is the one step that settles units by losing them, and a COMMIT that fails unnoticed the one that settles a unit without counting it.
`NetInv` is about what is under way: an "Accepted" line is for a unit that was counted or waived, a returned unit was issued and has curves, and the unit of a helper
thread's `goodMessage` is acceptable and the one that is open. With this invariant every step has its place in the ledger: `GetWork` is `Issue`, `EndWork` is
`Count` or `Overlook`, a `Crash` before `WriteFile` is `LoseRecord`, and the steps that hand out and count nothing are `Settle`, which is just `UnitInv` after the step.
`BatchAssumption`, that no unit is handed out twice, in two replies or in one, is what makes `GetWork` issue new units.

`OneCountPerFailure` needs an account of the failures, which the state does not keep. `OnceInv` says that there is one (`Once`): a set `F` of sessions that had a failure, no larger
than `trouble`, and for each unit the set `C[u]` of sessions that counted it, with at most one of them outside `F`. `SessionsOf` ties it to each session: `SentOnce`, that in one session a
unit is under way, open, counted or still to be sent, and only one of these, so that no session counts it twice; `InStep`, that client and helper thread of a session without a failure
are in lock step, so that what was counted was also accepted; `Complete`, that such a session, once over, has left nothing it counted in memory or on file, so that no later session
can send it again. When a session fails it joins `F`, and a crash puts back only what the session that fails with it had counted. One step changes one session: `OneSession`
leaves the others alone, as long as the client's lists do not grow (`ClientOnce`, `ClientRests`). If a unit is refused the lock step is lost without a failure (section 2.2), hence the hypothesis of the property.

`MasterSlaveSyncProofs` proves, for any slaves, composites, returns and numbers of failures:

| theorem | states |
|---|---|
| `TypeCorrect` | `Spec => []TypeOK` |
| `AheadCorrect` | `Spec => []SlaveNeverAhead`, on both databases |
| `RecountCorrect` | `Spec => []OneRecountPerFailure`, on both databases |
| `UnreportedCorrect` | `Spec => Phase1KeepsUnreported`, on PostgreSQL |
| `MissedCorrect` | `Spec => []NoMissedUpdate`, on PostgreSQL with one slave |

None of these is inductive: what the slave commits was written by the master long before, in another transaction, and travelled as a line. The
inductive invariant `IInv` has two layers.

*The protocol*, `SessionInv(x, h, u, d)`, speaks of one session: its slave side `x`, its master side `h`, and the lines `u` and `d` under way between them.
`Joint` lists, for each position of the master, where the slave can be and which lines can be on the way; `UpInv` and `DownInv` say which lines still can
be when one side has already closed, after a composite was refused, skipped or timed out. The two lines that answer a refused composite are the reason why more
than one line can be under way; an "OK" nevertheless is always the only line, and its slave waits for just that composite. That is what a wrong order of lines would have to break.

*The curves*, `DataOf`, follow a return on its way: what the snapshot of the slave shows as unreported is unreported still (`SnapOf`); work under way is (`WorkOf`);
the master's uncommitted row is the committed one plus unreported returns of the slave (`PendOf`), since the row is locked for everybody else (`Exclusive`) and a snapshot
that was overtaken is marked as such (`SeenOf`); what the slave is about to commit the master has (`ReadyOf`); and on PostgreSQL the report is complete (`ReportOf`). For the
recounts, `ShownOf` says that a return that is still unreported was counted at most once per failure unless the "OK" is under way, and `OfferedOf` that the master counts a return
only in a session that will carry the "OK" to its slave, or after one failure more.

Each step changes one session and at most one row, so the proof has, for each step, a lemma on `SessionInv` (`Lines...`) and one on `DataOf` (`Data...`), both about
constants rather than about variables, and a lemma that puts them together (`...Step`); `Quiet`, `SlaveWrites`, `MasterWrites` say that the other sessions are not disturbed.
`UnreportedCorrect` is false without `Postgres` (section 2.3).

*The flags*, `FlagsOf`, are for `MissedCorrect`. That a clear flag means an up-to-date slave (`ClearOf`) is not inductive, because the flag is cleared at the end of an exchange that
started with a snapshot. `FlagInv` follows the flag through that exchange: the snapshot shows it as it is, or before a change set it, and the rows the snapshot lacks only this session adds (`SeenFlags`);
what is still to be sent is flagged or has no row yet (`TodoFlags`), and so is what the slave is about to replace or has just replaced (`LineFlags`), so that the slave may have
fewer curves meanwhile; and a slave that has confirmed a composite has what was sent (`TakenOf`). `SentUpdateToSlave` then clears the flag only if the row is still what the
snapshot showed: on PostgreSQL a row that was changed in between makes the transaction fail, and `Postgres` is needed for just that step. `OneSlave` is needed because a row that
another slave's session adds is unknown to the snapshot. Both hypotheses are necessary (section 2.3).

`ClientLoopProofs` proves, for any servers, shares, answers, units, signals and starts:

| theorem | states |
|---|---|
| `TypeCorrect` | `Spec => []TypeOK` |
| `CurvesCorrect` | `Spec => []CurvesKept` |
| `SharesCorrect` | `Spec => []SharesKept`, if the curves in an answer are bounded (`BoundedBatches`) |

`CurvesKept` counts the completed curves that are in no file (`Unsaved`); a file that is being written counts as what is being written into it (`Record`), and the units of one that is broken off are let go of in the step that breaks it off (`cut`). The count is inductive once it is known which steps take a curve out of that set or
put one in. `PlaceInv` says that the running curve belongs to a unit of the server at hand, and that this unit can do one, so `TypeOK` goes with it; and that no file is open when the next one is opened after a curve. `Tidy` says that no unit is in two
places of the lists, neither in memory nor on disk; `Behind`, that a file never has more curves of a unit than the memory has, and fewer of the one just done; `Remembered`, that what a file has of a
unit no server took is in memory too, so that neither `Save`, nor `DeleteWork`, nor a session that empties the list can remove it (`ReturnedData`, `WrittenData`).
`Behind` and `Remembered` do not hold while the program is not running; `Start` restores them, because `Load` reads what `Save` wrote (`LoadedList`, `SavedList`).
A curve of a unit that a server has taken meanwhile does not count, which is why the exact bound is `CountInv` with `Pending`.

`SharesKept` compares a server's curves with the sum over all servers, so its proof starts with what a sum over a finite set is. `AllSubsets`, an induction over the subsets of a finite set
stated for a family of sets (and proved from the least member of a set of naturals), shows that the recursive function in `MapThenSumSet` is there (`SumsExist`) and does not depend on
the set it is defined for (`SumsAgree`); then any member can be taken out of a sum (`SumRemove`), smaller values put one to one against larger ones have no larger sum (`SumInject`), and, if the
percentages add up to 100 and every server has its share at least, every server has exactly its share (`ExactShares`).
`ShareInv` adds four things. `Small`: no list, in memory or on file, has more curves left than the largest batch, which `Left` counts and no session or start increases.
`Ahead`: the server at hand stays within its bound even with all the curves its list has left, for it may run all of them before the shares are looked at again.
`Fresh`: while all servers serve, there are units in memory at the choice of a server only before the first curve has counted, because main returns everything (`ReturnAll`).
`Passed`: a server that `FindNextServerForWork` has passed has its share. So if the first attempt finds no server, all of them have exactly their share, and whichever server
a later attempt asks, which multiplies the share by 2 to 25 or does not look at it, starts at its share and gets one batch ahead at most. That is where the percentages have to add up to 100: `AllocateWorkClasses`
ends the program otherwise (`ecmclient.cpp:721`), and `ClientAssumption` says so. `BoundedBatches` says that `LargestBatch` is there at all.

Only model-checked: liveness (`ReturningEnds`, and the liveness of the other modules), because TLAPS has no backend for ENABLED and fairness. Every invariant and every
action property of the runs that pass is a theorem.

## 4. What the counterexamples show

Each run of this table checks one statement of the repository and is expected to fail; `PROJECT.json` quotes the statement.

| run | statement (property) | where it goes wrong |
|---|---|---|
| `wr_wedge` | `EventuallyCommitted` | protocol.txt:37-39 answers every "End Return Work" with "Accepted Work for %s"; Composite::Update writes FactorEventCount from memory, a return without a factor can put an older value back on InnoDB, and the next factor event then takes a number that exists: its INSERT fails every time it is sent again. |
| `sync_between` | `SlaveKeepsUnreported` | Phase 2 deletes and re-creates the work rows of every composite the master sends, which after phase 1 is every composite just reported; curves that clients returned at the slave between the two phases are deleted before they were ever reported. src/server/readme_tables.txt:57-58 says LocalCurves "is the number of curves done according to the master server plus the number of curves done by clients connected to this server". |
| `client_interrupt` | `NoCurveIsInterrupt` | Work::DoCurve stops its search at the unit that just did a curve instead of the one behind it, and if that unit has no curve left it does none, although another unit of the server has. DoWork takes this for the end: src/source/ecmclient.cpp:202 says "If no work was done, that means that the process was interrupted". The client shuts down with work in hand, without having been told to. |

## 5. What is not modelled, and the plan

Not modelled, with the reason:

* HTML pages, the log files, the import from version 2, expressions and primes: text, I/O or arithmetic, with no state that another component depends on.
* Expiring pending work: one DELETE by age, of rows that this version never writes (section 2.4).
* The 2.x protocols (`ProcessMessageOld` and the branches for old servers), and the strategies that order the rows of the cursor.
* Socket framing: lines arrive whole in all models, or not at all. The text of GMP-ECM and of the dialogue with the mail server is abstracted to its outcomes.
* The MinGW port of the GMP headers: build files and third-party code.

Done: `WorkReceiver`, `ReturnSession` refining `WorkLedger`, `MasterSlaveSync`, `WorkChoice`, `WorkSender`, `HelperThread` with `ServerLifecycle`, `ServerTimers`,
`ClientLoop`; proofs about all of them.

Left: the strategies and how they share the work sent; user statistics in the sync; the 2.x protocol of returns. Each needs a model before it needs a proof.
