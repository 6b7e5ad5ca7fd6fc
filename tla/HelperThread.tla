---------------------------- MODULE HelperThread ----------------------------
(***************************************************************************)
(* The helper thread that serves one connection (HelperThread.cpp), from   *)
(* its first line to the release of its resources, with the two requests   *)
(* of an administrator that write to the database, and the administrator's *)
(* own program (ecmadmin.cpp) at the other end.  How the threads come to   *)
(* be, and how the server ends, is module ServerLifecycle.                 *)
(*                                                                         *)
(* The lines on the way to a helper are those its peer has sent: a time-out*)
(* may strike before any of them.  Work, returns, synchronisation and HTML *)
(* pages are a single step here; their modules are WorkSender,             *)
(* WorkReceiver and MasterSlaveSync.  The database is PostgreSQL.          *)
(***************************************************************************)
EXTENDS Integers, Sequences, FiniteSets, Functions

CONSTANTS
  Conn,       \* connections
  Kinds,      \* [Conn -> what its peer may be]
  Line,       \* lines of the files of composites and of curves
  File,       \* names of files an administrator may enter
  Content,    \* [File -> its lines, or the name of another file as its one line]
  NameOf,     \* [Line -> composite name]
  ValueOf,    \* [Line -> composite value]
  Malformed,  \* lines AddCurves cannot parse
  Prime,      \* values that are not composite
  Stored,     \* <<name, value>> of the composites there are at the start
  None

Admin  == {"composites", "curves", "status"}
Worker == {"browser", "client", "stranger"}

ASSUME ConnAssumption == IsFiniteSet(Conn) /\ None \notin Conn

ASSUME KindAssumption == Kinds \in [Conn -> SUBSET (Admin \cup Worker)]

ASSUME LineAssumption ==
  /\ Line \cap File = {} /\ None \notin Line \cup File
  /\ (Line \cup File) \cap {"GET", "FROM", "request", "Connection", "junk", "No more"} = {}
  /\ Content \in [File -> Seq(Line) \cup {<<f>> : f \in File}]
  /\ \A f, g \in File : Content[f] = <<g>> => Content[g] \in Seq(Line)

VARIABLES
  clientCounter, \* p_ClientCounter
  composites,    \* Composite and MasterComposite: <<name, value>>
  credited,      \* the lines of curves that were counted: <<connection, line>>
  overlooked,    \* history: <<connection, line>> whose COMMIT failed unnoticed
  helper,        \* [Conn -> the helper thread's local variables]
  inbox,         \* [Conn -> lines on the way to the helper]
  reply,         \* [Conn -> the last line its peer waits for]
  answered,      \* [Conn -> lines of the file answered with a message]
  peer           \* [Conn -> the program at the other end]

database   == <<composites, credited, overlooked>>
network    == <<inbox, reply, answered>>
helperVars == <<clientCounter, database, helper, network, peer>>

Words  == {"GET", "FROM", "request", "Connection", "junk", "No more"}
Live   == {"first", "page", "connect", "request", "work", "status", "next", "lookup",
           "insert", "count", "spinning", "release"}   \* the thread is counted
RowOf(l) == <<NameOf[l], ValueOf[l]>>
Row    == Stored \cup {RowOf(l) : l \in Line}
View   == [composites : SUBSET Row, credited : SUBSET (Conn \X Line)]
Helper == [pc : Live \cup {"none", "closing", "ended"}, line : Line \cup {None},
           view : View \cup {None}]
Peer   == [pc : {"menu", "verify", "wait", "verified", "unverified", "crashed", "served"},
           kind : Admin \cup Worker \cup {None}, password : {"", "right", "wrong"},
           file : File \cup {None}]

HelperInit ==
  /\ clientCounter = 0
  /\ composites = Stored /\ credited = {} /\ overlooked = {}
  /\ helper = [c \in Conn |-> [pc |-> "none", line |-> None, view |-> None]]
  /\ inbox = [c \in Conn |-> <<>>]
  /\ reply = [c \in Conn |-> "none"]
  /\ answered = [c \in Conn |-> {}]
  /\ peer = [c \in Conn |-> [pc |-> "menu", kind |-> None, password |-> "", file |-> None]]

At(c, pc) == helper[c].pc = pc
Goto(c, pc) == helper' = [helper EXCEPT ![c].pc = pc]

(* Transactions are REPEATABLE READ: the first statement takes the snapshot *)
(* that the others see, until Commit or Rollback.                           *)
Now       == [composites |-> composites, credited |-> credited]
ViewOf(c) == IF helper[c].view = None THEN Now ELSE helper[c].view

NamesIn(rows)  == {r[1] : r \in rows}
ValuesIn(rows) == {r[2] : r \in rows}
CreditsOf(n, credits) == {x \in credits : NameOf[x[2]] = n}

-----------------------------------------------------------------------------
(* StartThread counts the thread before it runs.                            *)
StartThread(c) ==
  /\ At(c, "none")
  /\ clientCounter' = clientCounter + 1
  /\ Goto(c, "first")
  /\ UNCHANGED <<database, network, peer>>

(* Receive gives the next line, or nothing when it took too long.           *)
Take(c)     == inbox[c] # <<>> /\ inbox' = [inbox EXCEPT ![c] = Tail(@)]
TimesOut(c, pc) ==
  /\ At(c, pc) /\ Goto(c, "release")
  /\ UNCHANGED <<clientCounter, database, network, peer>>

ReceiveFirst(c) ==
  /\ At(c, "first")
  /\ Take(c)
  /\ Goto(c, CASE Head(inbox[c]) = "GET"  -> "page"
               [] Head(inbox[c]) = "FROM" -> "connect"
               [] OTHER -> "release")
  /\ UNCHANGED <<clientCounter, database, reply, answered, peer>>

(* Without a database the connection is dropped.                            *)
ConnectDatabase(c) ==
  /\ \/ At(c, "connect") /\ \E pc \in {"request", "release"} : Goto(c, pc)
     \/ At(c, "page") /\ \E pc \in {"work", "release"} : Goto(c, pc)
  /\ UNCHANGED <<clientCounter, database, network, peer>>

(* What an administrator's request is answered with.                        *)
Accepted(c, slave) == ~slave /\ peer[c].password = "right"

ReceiveRequest(c, slave) ==
  /\ At(c, "request")
  /\ Take(c)
  /\ IF peer[c].kind \in Admin
     THEN /\ Goto(c, IF ~Accepted(c, slave) THEN "release"
                     ELSE IF peer[c].kind = "status" THEN "status" ELSE "next")
          /\ reply' = [reply EXCEPT ![c] = IF Accepted(c, slave) THEN "ok" ELSE "no"]
     ELSE Goto(c, "work") /\ UNCHANGED reply
  /\ UNCHANGED <<clientCounter, database, answered, peer>>

(* The other requests; SendHTML first reads until a line Connection or the  *)
(* end.                                                                     *)
ServeRequest(c) ==
  /\ At(c, "work")
  /\ inbox' = [inbox EXCEPT ![c] = <<>>]
  /\ Goto(c, "release")
  /\ UNCHANGED <<clientCounter, database, reply, answered, peer>>

(* ChangeStatus binds the name to IsActive and the flag to                  *)
(* MasterCompositeName, which PostgreSQL rejects: no row is written.        *)
ChangeStatus(c) ==
  /\ At(c, "status")
  /\ Goto(c, "release")
  /\ UNCHANGED <<clientCounter, database, network, peer>>

-----------------------------------------------------------------------------
(* AddComposites and AddCurves: line by line, until "No more ..." or a      *)
(* time-out; then the number of lines and "Done".                           *)
Finish(c) ==
  /\ At(c, "next")
  /\ \/ Take(c) /\ Head(inbox[c]) = "No more"
     \/ UNCHANGED inbox
  /\ Goto(c, "release")
  /\ reply' = [reply EXCEPT ![c] = "done"]
  /\ UNCHANGED <<clientCounter, database, answered, peer>>

ReceiveLine(c) ==
  /\ At(c, "next")
  /\ Take(c)
  /\ Head(inbox[c]) \in Line
  /\ helper' = [helper EXCEPT ![c].pc = "lookup", ![c].line = Head(inbox[c])]
  /\ UNCHANGED <<clientCounter, database, reply, answered, peer>>

(* The name is not there, neither is the value under another name, and the  *)
(* PRP test finds it composite.                                             *)
Addable(l, rows) ==
  NameOf[l] \notin NamesIn(rows) /\ ValueOf[l] \notin ValuesIn(rows) /\ ValueOf[l] \notin Prime

(* Defect: a number that is prime is left out without a word.               *)
MessageForKnown(l) == IF ValueOf[l] \in Prime THEN {} ELSE {l}

(* Any other line is answered with the reason.                              *)
MessageFor(l) == {l}

(* The queries of a line, whose snapshot lasts until the next Commit.       *)
LookUpComposite(c) ==
  LET l == helper[c].line IN
  /\ At(c, "lookup") /\ peer[c].kind = "composites"
  /\ IF Addable(l, ViewOf(c).composites)
     THEN /\ helper' = [helper EXCEPT ![c].pc = "insert", ![c].view = ViewOf(c)]
          /\ UNCHANGED answered
     ELSE /\ helper' = [helper EXCEPT ![c].pc = "next", ![c].view = ViewOf(c)]
          /\ answered' = [answered EXCEPT ![c] = @ \cup MessageFor(l)]
  /\ UNCHANGED <<clientCounter, database, inbox, reply, peer>>

NextTransaction(c) == helper' = [helper EXCEPT ![c].pc = "next", ![c].view = None]

(* The rows of MasterComposite and Composite, and Commit; the name is the   *)
(* primary key of both.  DBInterface::Commit returns nothing: when the      *)
(* COMMIT fails it is logged, and the line counts as added all the same.    *)
InsertComposite(c) ==
  LET l == helper[c].line IN
  /\ At(c, "insert")
  /\ NameOf[l] \notin NamesIn(composites)
  /\ \/ composites' = composites \cup {RowOf(l)} /\ UNCHANGED overlooked
     \/ overlooked' = overlooked \cup {<<c, l>>} /\ UNCHANGED composites
  /\ NextTransaction(c)
  /\ UNCHANGED <<clientCounter, credited, network, peer>>

(* A statement fails, always if the name was inserted since the snapshot.   *)
InsertFails(c) ==
  /\ At(c, "insert")
  /\ NextTransaction(c)
  /\ answered' = [answered EXCEPT ![c] = @ \cup {helper[c].line}]
  /\ UNCHANGED <<clientCounter, database, inbox, reply, peer>>

(* A line that cannot be parsed is answered, and parsed again: for ever.    *)
RejectCurves(c) ==
  /\ At(c, "lookup") /\ peer[c].kind = "curves"
  /\ helper[c].line \in Malformed
  /\ Goto(c, "spinning")
  /\ UNCHANGED <<clientCounter, database, network, peer>>

LookUpCurves(c) ==
  LET l == helper[c].line IN
  /\ At(c, "lookup") /\ peer[c].kind = "curves"
  /\ l \notin Malformed
  /\ IF NameOf[l] \in NamesIn(ViewOf(c).composites)
     THEN /\ helper' = [helper EXCEPT ![c].pc = "count", ![c].view = ViewOf(c)]
          /\ UNCHANGED answered
     ELSE /\ helper' = [helper EXCEPT ![c].pc = "next", ![c].view = ViewOf(c)]
          /\ answered' = [answered EXCEPT ![c] = @ \cup {l}]
  /\ UNCHANGED <<clientCounter, database, inbox, reply, peer>>

(* AddWorkDone, SendUpdatesToAllSlaves and FinalizeChanges write the rows   *)
(* of the master composite, unless they were written since the snapshot.    *)
CountCurves(c) ==
  LET l == helper[c].line IN
  /\ At(c, "count")
  /\ CreditsOf(NameOf[l], credited) = CreditsOf(NameOf[l], helper[c].view.credited)
  /\ credited' = credited \cup {<<c, l>>}
  /\ NextTransaction(c)
  /\ UNCHANGED <<clientCounter, composites, overlooked, network, peer>>

(* A failure is rolled back without a message; a COMMIT that fails unnoticed*)
(* shows no difference.                                                     *)
CountFails(c) ==
  /\ At(c, "count")
  /\ NextTransaction(c)
  /\ UNCHANGED <<clientCounter, database, network, peer>>

(* Defect: a thread is counted off twice.                                   *)
CounterAfterTwice(c) == clientCounter - 2

(* Defect: a thread that got no line is not counted off.                    *)
CounterAfterLine(c) == IF helper[c].line = None THEN clientCounter ELSE clientCounter - 1

(* DecrementValue under the lock of the counter.                            *)
CounterAfter(c) == clientCounter - 1

(* ReleaseResources counts the thread off first ...                         *)
ReleaseResources(c) ==
  /\ At(c, "release")
  /\ clientCounter' = CounterAfter(c)
  /\ Goto(c, "closing")
  /\ UNCHANGED <<database, network, peer>>

(* ... and only then disconnects and deletes what it uses.                  *)
CloseConnection(c) ==
  /\ At(c, "closing")
  /\ helper' = [helper EXCEPT ![c] = [pc |-> "ended", line |-> None, view |-> None]]
  /\ UNCHANGED <<clientCounter, database, network, peer>>

Receive(c) == \E pc \in {"first", "request"} : TimesOut(c, pc)
Composites(c) == LookUpComposite(c) \/ InsertComposite(c) \/ InsertFails(c)
Curves(c) == RejectCurves(c) \/ LookUpCurves(c) \/ CountCurves(c) \/ CountFails(c)

HandleRequest(c, slave) ==
  \/ Receive(c) \/ ReceiveFirst(c) \/ ConnectDatabase(c) \/ ReceiveRequest(c, slave)
  \/ ServeRequest(c) \/ ChangeStatus(c)
  \/ ReceiveLine(c) \/ Finish(c) \/ Composites(c) \/ Curves(c)
  \/ ReleaseResources(c) \/ CloseConnection(c)

-----------------------------------------------------------------------------
(* The peer.  AdminMenu of ecmadmin: options 4 to 7 need a password, which  *)
(* a new server address or port (options 1 and 2) clears.                   *)
Prompting(c) == peer[c].pc = "menu" /\ Kinds[c] \cap Admin # {}

EnterServer(c) ==
  /\ Prompting(c) /\ peer[c].password # ""
  /\ peer' = [peer EXCEPT ![c].password = ""]
  /\ UNCHANGED <<clientCounter, database, helper, network>>

EnterPassword(c) ==
  /\ Prompting(c)
  /\ \E p \in {"right", "wrong"} :
       p # peer[c].password /\ peer' = [peer EXCEPT ![c].password = p]
  /\ UNCHANGED <<clientCounter, database, helper, network>>

(* PromptForValue opens the file to verify it, reads its first line over    *)
(* the name and returns that.                                               *)
PromptForValue(f) == Head(Content[f])

(* The command goes out with the first lines; an empty file ends in the     *)
(* menu again.                                                              *)
ChooseOption(c) ==
  /\ Prompting(c) /\ peer[c].password # ""
  /\ \E k \in Kinds[c] \cap Admin, f \in File :
       /\ Content[f] # <<>>
       /\ peer' = [peer EXCEPT ![c] = [@ EXCEPT !.pc = "verify", !.kind = k, !.file =
                     IF k # "status" /\ PromptForValue(f) \in File
                     THEN PromptForValue(f) ELSE None]]
  /\ inbox' = [inbox EXCEPT ![c] = <<"FROM", "request">>]
  /\ UNCHANGED <<clientCounter, database, helper, reply, answered>>

(* SendCompositeFile and SendCurvesFile: the whole file and its end, once   *)
(* the password is accepted.  Reading a file that could not be opened ends  *)
(* the program.                                                             *)
SendFile(c) ==
  /\ peer[c].pc = "verify" /\ peer[c].kind # "status" /\ reply[c] \in {"ok", "done"}
  /\ IF peer[c].file = None
     THEN /\ peer' = [peer EXCEPT ![c].pc = "crashed"]
          /\ UNCHANGED inbox
     ELSE /\ peer' = [peer EXCEPT ![c].pc = "wait"]
          /\ inbox' = [inbox EXCEPT ![c] = @ \o Content[peer[c].file] \o <<"No more">>]
  /\ UNCHANGED <<clientCounter, database, helper, reply, answered>>

ReadDone(c) ==
  /\ peer[c].pc = "wait" /\ reply[c] = "done"
  /\ peer' = [peer EXCEPT ![c].pc = "verified"]
  /\ UNCHANGED <<clientCounter, database, helper, network>>

(* A refusal, the one answer to a change of status, or no answer any more.  *)
(* To its helper a peer that gives up earlier is one whose lines are late.  *)
GiveUp(c) ==
  /\ peer[c].pc \in {"verify", "wait"}
  /\ reply[c] = "no" \/ helper[c].pc = "ended"
  /\ peer' = [peer EXCEPT ![c] = [pc |-> "unverified", kind |-> None, password |-> "", file |-> None]]
  /\ UNCHANGED <<clientCounter, database, helper, network>>

(* Any other peer sends what it has to say at once.                         *)
Connect(c) ==
  /\ peer[c].pc = "menu"
  /\ \E k \in Kinds[c] \cap Worker :
       /\ peer' = [peer EXCEPT ![c] = [@ EXCEPT !.pc = "served", !.kind = k]]
       /\ inbox' = [inbox EXCEPT ![c] = CASE k = "browser" -> <<"GET", "Connection">>
                                          [] k = "client"  -> <<"FROM", "request">>
                                          [] OTHER         -> <<"junk">>]
  /\ UNCHANGED <<clientCounter, database, helper, reply, answered>>

Talk(c) ==
  \/ EnterServer(c) \/ EnterPassword(c) \/ ChooseOption(c) \/ SendFile(c)
  \/ ReadDone(c) \/ GiveUp(c) \/ Connect(c)
=============================================================================
