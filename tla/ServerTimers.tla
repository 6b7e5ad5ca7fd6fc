---------------------------- MODULE ServerTimers ----------------------------
(***************************************************************************)
(* What the main thread of a server that is no slave does on its timers    *)
(* (ecmserver.cpp): every 256 seconds RecurseFactors makes a composite of  *)
(* its own of each composite factor, under the next free name <master>_R<n>*)
(* and every 1024 seconds SendEmail (Mail.cpp, MailSocket.cpp) tells the   *)
(* finder and the administrators of each new factor event.  Meanwhile      *)
(* helper threads commit returns (WorkReceiver), which write the same row  *)
(* of MasterComposite, and administrators add composites, whose names can  *)
(* look like recursed ones.                                                *)
(***************************************************************************)
EXTENDS Naturals, FiniteSets

CONSTANTS
  Event,      \* factor events
  Detail,     \* their factors
  Master,     \* master composites
  EventOf,    \* [Detail -> Event]
  MasterOf,   \* [Event -> Master]
  Composites, \* details whose factor is composite
  Number,     \* the n of names <master>_R<n>: 1, 2, ...
  Taken,      \* <<master, n>> an administrator may add
  Address,    \* e-mail addresses
  Finder,     \* [Event -> EmailID of the finder]
  FromID,     \* is_FromEmailID
  DestID,     \* is_DestID
  Refused,    \* addresses the mail server refuses
  Databases,  \* whether it is PostgreSQL, where UPDATE of a row written since
              \* the snapshot is an error, or InnoDB
  MaxTrouble, \* bound on failing statements, lost messages and crashes
  None

ASSUME EventAssumption ==
  /\ IsFiniteSet(Detail) /\ Composites \subseteq Detail
  /\ EventOf \in [Detail -> Event] /\ MasterOf \in [Event -> Master]
  /\ None \notin Event \cup Detail

ASSUME NameAssumption == Number \subseteq Nat \ {0} /\ Taken \subseteq Master \X Number

ASSUME MailAssumption ==
  Finder \in [Event -> Address] /\ FromID \in Address /\ DestID \cup Refused \subseteq Address

ASSUME BoundAssumption == Databases \subseteq BOOLEAN /\ MaxTrouble \in Nat

VARIABLES
  postgres, \* the database is PostgreSQL
  reported, \* events that were committed
  index,    \* [Master -> RecurseIndex]
  names,    \* Composite: <<master, n, the detail it was made of or None>>
  recursed, \* details with IsRecursed = 1
  sent,     \* events with SentEmail = 1
  returns,  \* [Event -> the transaction of the return that reports it]
  timer,    \* the main thread's local variables and transaction
  round,    \* counter / 256 mod 4
  mail,     \* ib_Enabled
  mailed,   \* [Event -> messages the mail server accepted]
  up,       \* the server runs
  trouble   \* failures so far, at most MaxTrouble

tables == <<postgres, reported, index, names, recursed, sent>>
post   == <<mail, mailed>>
life   == <<up, trouble>>
vars   == <<tables, returns, timer, round, post, life>>

Return == [open : BOOLEAN, index : Number \cup {0}, stale : BOOLEAN]
Timer  == [pc : {"sleep", "row", "update", "insert", "event", "send", "mark"},
           rows : SUBSET Detail, index : [Master -> Number \cup {0}],
           view : [names : SUBSET (Master \X Number)] \cup {None}, stale : SUBSET Master,
           detail : Detail \cup {None}, number : Number \cup {0},
           events : SUBSET Event, event : Event \cup {None}]

Idle    == [open |-> FALSE, index |-> 0, stale |-> FALSE]
Asleep  == [pc |-> "sleep", rows |-> {}, index |-> [m \in Master |-> 0], view |-> None,
            stale |-> {}, detail |-> None, number |-> 0, events |-> {}, event |-> None]

Init ==
  /\ postgres \in Databases
  /\ reported = {} /\ names = {} /\ recursed = {} /\ sent = {}
  /\ index = [m \in Master |-> 0]
  /\ returns = [e \in Event |-> Idle]
  /\ timer = Asleep
  /\ round = 1
  /\ mail \in BOOLEAN /\ mailed = [e \in Event |-> 0]
  /\ up = TRUE /\ trouble = 0

At(pc) == up /\ timer.pc = pc

MasterOfDetail(d) == MasterOf[EventOf[d]]

NamesUsed == {<<x[1], x[2]>> : x \in names}

(* Something goes wrong, a bounded number of times. *)
Trouble == trouble < MaxTrouble /\ trouble' = trouble + 1

(* The row of m is written: other transactions under way hold an old one.   *)
Outdated(rs, m) ==
  [e \in Event |-> IF MasterOf[e] = m /\ rs[e].open THEN [rs[e] EXCEPT !.stale = TRUE] ELSE rs[e]]

-----------------------------------------------------------------------------
(* RecurseFactors. *)
ViewNow == [names |-> NamesUsed]

(* The cursor: the composite factors to recurse, with RecurseIndex.         *)
StartRecursion ==
  /\ At("sleep")
  /\ timer' = [Asleep EXCEPT !.pc = "row", !.view = ViewNow, !.index = index,
                 !.rows = {d \in Composites \ recursed : EventOf[d] \in reported}]
  /\ UNCHANGED <<tables, returns, round, post, life>>

FreeNumbers(m, after, used) == {n \in Number : n > after /\ <<m, n>> \notin used}

(* The first free name after the index that the cursor has for the row, in  *)
(* the snapshot of the transaction; a new transaction sees the tables as    *)
(* they are.                                                                *)
NextName ==
  /\ At("row")
  /\ \E d \in timer.rows, v \in {IF timer.view = None THEN ViewNow ELSE timer.view} :
     \E n \in FreeNumbers(MasterOfDetail(d), timer.index[MasterOfDetail(d)], v.names) :
       /\ \A k \in FreeNumbers(MasterOfDetail(d), timer.index[MasterOfDetail(d)], v.names) : n <= k
       /\ timer' = [timer EXCEPT !.pc = "update", !.detail = d, !.number = n, !.view = v,
                                 !.rows = @ \ {d}]
  /\ UNCHANGED <<tables, returns, round, post, life>>

NextRow == [timer EXCEPT !.pc = "row", !.view = None, !.stale = {}, !.detail = None, !.number = 0]

(* UPDATE of RecurseIndex, which locks the row until the transaction ends.  *)
UpdateIndex ==
  /\ At("update")
  /\ ~(postgres /\ MasterOfDetail(timer.detail) \in timer.stale)
  /\ timer' = [timer EXCEPT !.pc = "insert"]
  /\ UNCHANGED <<tables, returns, round, post, life>>

(* Defect: the detail is not marked. *)
RecursedNever == recursed

Recursed == recursed \cup {timer.detail}

(* UPDATE of IsRecursed, INSERT of the composite and COMMIT: the name must  *)
(* still be free.                                                           *)
InsertComposite ==
  LET m == MasterOfDetail(timer.detail) IN
  /\ At("insert")
  /\ <<m, timer.number>> \notin NamesUsed
  /\ index' = [index EXCEPT ![m] = timer.number]
  /\ recursed' = Recursed
  /\ names' = names \cup {<<m, timer.number, timer.detail>>}
  /\ returns' = Outdated(returns, m)
  /\ timer' = NextRow
  /\ UNCHANGED <<postgres, reported, sent, round, post, life>>

(* A statement fails and the row is rolled back, to be found again in the   *)
(* next round.                                                              *)
RowFails ==
  /\ \/ /\ At("update") /\ postgres /\ MasterOfDetail(timer.detail) \in timer.stale
        /\ UNCHANGED trouble
     \/ /\ At("insert") /\ <<MasterOfDetail(timer.detail), timer.number>> \in NamesUsed
        /\ UNCHANGED trouble
     \/ (At("update") \/ At("insert")) /\ Trouble
  /\ timer' = NextRow
  /\ UNCHANGED <<tables, returns, round, post, up>>

(* Defect: the counter of rounds is not masked. *)
NextRoundUnmasked == round + 1

NextRound == (round + 1) % 4

(* Every fourth round the e-mails follow. *)
EndRecursion ==
  /\ At("row") /\ timer.rows = {}
  /\ round' = NextRound
  /\ timer' = IF round = 0 THEN [Asleep EXCEPT !.pc = "event", !.events = reported \ sent]
              ELSE Asleep
  /\ UNCHANGED <<tables, returns, post, life>>

-----------------------------------------------------------------------------
(* SendEmail, event by event. *)
Recipients(e) == {Finder[e], FromID} \cup DestID

(* NotifyUserAboutFactor starts a message with the first detail.            *)
HasDetails(e) == \E d \in Detail : EventOf[d] = e

(* PrepareMessage names every recipient, and gives up at the first one that *)
(* the mail server refuses.                                                 *)
Refuses(e) == Recipients(e) \cap Refused # {}

(* No connection, or no answer or another one than expected in two seconds. *)
OpenFails   == Trouble
AnswerFails == Trouble

NextEvent(e) == [timer EXCEPT !.pc = "event", !.event = None, !.events = @ \ {e}]

(* Defect: the first event that cannot be mailed ends the round. *)
AfterFailureStop(e) == Asleep

AfterFailure(e) == NextEvent(e)

NewMessageFails(e) ==
  /\ At("event") /\ e \in timer.events
  /\ HasDetails(e)
  /\ \/ (~mail \/ Refuses(e)) /\ UNCHANGED trouble
     \/ OpenFails \/ AnswerFails
  /\ timer' = AfterFailure(e)
  /\ UNCHANGED <<tables, returns, round, post, up>>

(* NewMessage with the first detail, and a text of all details; without a   *)
(* detail no message is begun.                                              *)
NotifyUserAboutFactor(e) ==
  /\ At("event") /\ e \in timer.events
  /\ HasDetails(e) => mail /\ ~Refuses(e)
  /\ timer' = [timer EXCEPT !.pc = "send", !.event = e]
  /\ UNCHANGED <<tables, returns, round, post, life>>

(* SendMessage ends the text.  Its result is not looked at: an event is     *)
(* marked although the mail server did not take the message.                *)
SendMessage ==
  /\ At("send")
  /\ timer' = [timer EXCEPT !.pc = "mark"]
  /\ IF HasDetails(timer.event)
     THEN \/ mailed' = [mailed EXCEPT ![timer.event] = @ + 1] /\ UNCHANGED trouble
          \/ AnswerFails /\ UNCHANGED mailed
     ELSE UNCHANGED <<mailed, trouble>>
  /\ UNCHANGED <<tables, returns, round, mail, up>>

(* Defect: the event is not marked. *)
MarkedNever == sent

Marked == sent \cup {timer.event}

MarkSent ==
  /\ At("mark")
  /\ sent' = Marked
  /\ timer' = NextEvent(timer.event)
  /\ UNCHANGED <<postgres, reported, index, names, recursed, returns, round, post, life>>

MarkFails ==
  /\ At("mark")
  /\ Trouble
  /\ timer' = NextEvent(timer.event)
  /\ UNCHANGED <<tables, returns, round, post, up>>

EndMail ==
  /\ At("event") /\ timer.events = {}
  /\ timer' = Asleep
  /\ UNCHANGED <<tables, returns, round, post, life>>

-----------------------------------------------------------------------------
(* The others.  A return reads the row of its master composite, and writes  *)
(* it with the event; UPDATE waits for the lock of RecurseFactors.          *)
ReturnBegins(e) ==
  /\ up /\ e \notin reported /\ ~returns[e].open
  /\ returns' = [returns EXCEPT ![e] = [open |-> TRUE, index |-> index[MasterOf[e]], stale |-> FALSE]]
  /\ UNCHANGED <<tables, timer, round, post, life>>

Locked(m) == timer.pc = "insert" /\ MasterOfDetail(timer.detail) = m

Writable(e) == ~(postgres /\ returns[e].stale)

ReturnCommits(e) ==
  LET m == MasterOf[e] IN
  /\ up /\ returns[e].open /\ ~Locked(m)
  /\ Writable(e)
  /\ index' = [index EXCEPT ![m] = returns[e].index]
  /\ reported' = reported \cup {e}
  /\ returns' = Outdated([returns EXCEPT ![e] = Idle], m)
  /\ timer' = IF timer.view = None THEN timer ELSE [timer EXCEPT !.stale = @ \cup {m}]
  /\ UNCHANGED <<postgres, names, recursed, sent, round, post, life>>

(* The client will return it again. *)
ReturnFails(e) ==
  /\ up /\ returns[e].open /\ ~Locked(MasterOf[e])
  /\ ~Writable(e)
  /\ returns' = [returns EXCEPT ![e] = Idle]
  /\ UNCHANGED <<tables, timer, round, post, life>>

AdminAdds ==
  /\ up
  /\ \E x \in Taken \ NamesUsed : names' = names \cup {<<x[1], x[2], None>>}
  /\ UNCHANGED <<postgres, reported, index, recursed, sent, returns, timer, round, post, life>>

Crash ==
  /\ up /\ Trouble
  /\ up' = FALSE
  /\ timer' = Asleep /\ returns' = [e \in Event |-> Idle]
  /\ UNCHANGED <<tables, round, post>>

(* The constructor of Mail disables it if the mail server does not answer.  *)
Restart ==
  /\ ~up
  /\ up' = TRUE
  /\ round' = 1
  /\ mail' \in BOOLEAN
  /\ UNCHANGED <<tables, returns, timer, mailed, trouble>>

-----------------------------------------------------------------------------
RecurseFactors == StartRecursion \/ NextName \/ UpdateIndex \/ InsertComposite \/ RowFails \/ EndRecursion
SendEmail == SendMessage \/ MarkSent \/ MarkFails \/ EndMail
             \/ \E e \in Event : NotifyUserAboutFactor(e) \/ NewMessageFails(e)
MainLoop == RecurseFactors \/ SendEmail
Returning(e) == ReturnBegins(e) \/ ReturnCommits(e) \/ ReturnFails(e)

Next == MainLoop \/ AdminAdds \/ Crash \/ Restart \/ \E e \in Event : Returning(e)

Spec == Init /\ [][Next]_vars

(* The main thread runs and a server that stopped is started again.         *)
FairSpec == Spec /\ WF_vars(MainLoop) /\ WF_vars(Restart)

-----------------------------------------------------------------------------
(* Every variable has its type. *)
TypeOK ==
  /\ postgres \in BOOLEAN
  /\ reported \subseteq Event /\ sent \subseteq Event /\ recursed \subseteq Detail
  /\ index \in [Master -> Number \cup {0}]
  /\ names \subseteq Master \X Number \X (Detail \cup {None})
  /\ returns \in [Event -> Return]
  /\ timer \in Timer
  /\ round \in 0..3
  /\ mail \in BOOLEAN /\ mailed \in [Event -> Nat]
  /\ up \in BOOLEAN /\ trouble \in 0..MaxTrouble

MadeOf(d) == {x \in names : x[3] = d}

(* A composite factor has exactly one composite of its own if it is marked, *)
(* and none otherwise, whatever fails and whoever writes meanwhile; and on  *)
(* PostgreSQL no return puts RecurseIndex back behind a name in use, as it  *)
(* does on InnoDB.                                                          *)
RecursedOnce ==
  /\ \A d \in Detail : Cardinality(MadeOf(d)) = IF d \in recursed THEN 1 ELSE 0
  /\ postgres => \A x \in names : x[3] # None => x[2] <= index[x[1]]

(* An event is mailed again only after something went wrong.                *)
OneMailPerFailure == \A e \in Event : mailed[e] <= 1 + trouble

(* Every composite factor is recursed in the end, although rounds fail.     *)
EventuallyRecursed == \A d \in Composites : (EventOf[d] \in reported) ~> (d \in recursed)

(* Every event is marked as mailed in the end, unless the mail server does  *)
(* not answer or refuses an address: also behind an event whose finder's    *)
(* address is refused.                                                      *)
EventuallyMailed == \A e \in Event : (e \in reported /\ ~Refuses(e)) ~> (e \in sent \/ ~mail)

(* The timers catch up with what was reported. *)
EventuallyDone == EventuallyRecursed /\ EventuallyMailed
=============================================================================
