------------------------- MODULE ServerTimersProofs -------------------------
(***************************************************************************)
(* Theorems about ServerTimers, for any events, details, names and number  *)
(* of failures.                                                            *)
(***************************************************************************)
EXTENDS ServerTimers, FiniteSetTheorems, TLAPS

-----------------------------------------------------------------------------
(* Types. *)

(* The row to write and the event to mail are there.                        *)
RowThere ==
  timer.pc \in {"update", "insert"} => timer.detail \in Detail /\ timer.number \in Number

EventThere == timer.pc \in {"send", "mark"} => timer.event \in timer.events

TypeInv == TypeOK /\ RowThere /\ EventThere

NumbersType == [Master -> Number \cup {0}]

LEMMA AsleepType == Asleep \in Timer
  BY DEF Asleep, Timer

(* What a return holds is still a return when its row is written.           *)
LEMMA OutdatedType ==
  ASSUME NEW rs \in [Event -> Return], NEW m
  PROVE  Outdated(rs, m) \in [Event -> Return]
<1>1. ASSUME NEW e \in Event PROVE [rs[e] EXCEPT !.stale = TRUE] \in Return
  BY DEF Return
<1> QED
  BY <1>1 DEF Outdated

LEMMA OutdatedStale ==
  ASSUME NEW rs \in [Event -> Return], NEW m, NEW e \in Event,
         Outdated(rs, m)[e].open, ~Outdated(rs, m)[e].stale
  PROVE  rs[e].open /\ ~rs[e].stale /\ MasterOf[e] # m /\ Outdated(rs, m)[e] = rs[e]
<1>1. rs[e] \in Return
  OBVIOUS
<1>2. Outdated(rs, m)[e] = IF MasterOf[e] = m /\ rs[e].open THEN [rs[e] EXCEPT !.stale = TRUE] ELSE rs[e]
  BY DEF Outdated
<1>3. CASE MasterOf[e] = m /\ rs[e].open
  BY <1>1, <1>2, <1>3 DEF Return
<1>4. CASE ~(MasterOf[e] = m /\ rs[e].open)
  BY <1>1, <1>2, <1>4
<1> QED
  BY <1>3, <1>4

LEMMA NextRowType == ASSUME TypeOK PROVE NextRow \in Timer
  BY DEF TypeOK, NextRow, Timer

LEMMA NextEventType == ASSUME TypeOK, NEW e PROVE NextEvent(e) \in Timer
  BY DEF TypeOK, NextEvent, Timer

LEMMA ViewNowType == ASSUME TypeOK PROVE ViewNow \in [names : SUBSET (Master \X Number)]
<1>1. \A x \in names : <<x[1], x[2]>> \in Master \X Number
  BY DEF TypeOK
<1> QED
  BY <1>1 DEF ViewNow, NamesUsed

(* The local variables of the main thread keep their types.                 *)
LEMMA TimerType ==
  ASSUME TypeOK, Next
  PROVE  timer' \in Timer
<1>0. timer \in Timer
  BY DEF TypeOK
<1>1. CASE StartRecursion
  <2>1. {d \in Composites \ recursed : EventOf[d] \in reported} \in SUBSET Detail
    BY EventAssumption
  <2>2. index \in NumbersType
    BY DEF TypeOK, NumbersType
  <2> QED
    BY <1>1, <2>1, <2>2, ViewNowType, AsleepType DEF StartRecursion, Timer, NumbersType
<1>2. CASE NextName
  <2>1. PICK d \in timer.rows, v \in {IF timer.view = None THEN ViewNow ELSE timer.view},
             n \in Number :
          timer' = [timer EXCEPT !.pc = "update", !.detail = d, !.number = n, !.view = v,
                                 !.rows = @ \ {d}]
    BY <1>2 DEF NextName, FreeNumbers
  <2>2. v \in [names : SUBSET (Master \X Number)] \cup {None}
    BY <1>0, ViewNowType DEF Timer
  <2>3. d \in Detail
    BY <1>0 DEF Timer
  <2> QED
    BY <1>0, <2>1, <2>2, <2>3 DEF Timer
<1>3. CASE UpdateIndex
  BY <1>0, <1>3 DEF UpdateIndex, Timer
<1>4. CASE InsertComposite \/ RowFails
  BY <1>4, NextRowType DEF InsertComposite, RowFails
<1>5. CASE EndRecursion
  <2>1. reported \ sent \in SUBSET Event
    BY DEF TypeOK
  <2> QED
    BY <1>5, <2>1, AsleepType DEF EndRecursion, Timer
<1>6. CASE SendMessage
  BY <1>0, <1>6 DEF SendMessage, Timer
<1>7. CASE MarkSent \/ MarkFails
  BY <1>7, NextEventType DEF MarkSent, MarkFails
<1>8. CASE EndMail
  BY <1>8, AsleepType DEF EndMail
<1>9. CASE \E e \in Event : NotifyUserAboutFactor(e) \/ NewMessageFails(e)
  <2> PICK e \in Event : NotifyUserAboutFactor(e) \/ NewMessageFails(e)
    BY <1>9
  <2>1. CASE NotifyUserAboutFactor(e)
    BY <1>0, <2>1 DEF NotifyUserAboutFactor, Timer
  <2>2. CASE NewMessageFails(e)
    BY <2>2, NextEventType DEF NewMessageFails, AfterFailure
  <2> QED
    BY <2>1, <2>2
<1>10. CASE \E e \in Event : Returning(e)
  <2> PICK e \in Event : Returning(e)
    BY <1>10
  <2>1. CASE ReturnBegins(e) \/ ReturnFails(e)
    BY <1>0, <2>1 DEF ReturnBegins, ReturnFails
  <2>2. CASE ReturnCommits(e)
    <3>1. MasterOf[e] \in Master
      BY EventAssumption
    <3>2. [timer EXCEPT !.stale = @ \cup {MasterOf[e]}] \in Timer
      BY <1>0, <3>1 DEF Timer
    <3> QED
      BY <1>0, <2>2, <3>2 DEF ReturnCommits
  <2> QED
    BY <2>1, <2>2 DEF Returning
<1>11. CASE AdminAdds \/ Restart
  BY <1>0, <1>11 DEF AdminAdds, Restart
<1>12. CASE Crash
  BY <1>12, AsleepType DEF Crash
<1> QED
  BY <1>1, <1>2, <1>3, <1>4, <1>5, <1>6, <1>7, <1>8, <1>9, <1>10, <1>11, <1>12
  DEF Next, MainLoop, RecurseFactors, SendEmail

LEMMA ReturnsType ==
  ASSUME TypeOK, Next
  PROVE  returns' \in [Event -> Return]
<1>0. returns \in [Event -> Return]
  BY DEF TypeOK
<1>1. Idle \in Return
  BY DEF Idle, Return
<1>2. CASE InsertComposite
  BY <1>0, <1>2, OutdatedType DEF InsertComposite
<1>3. CASE \E e \in Event : Returning(e)
  <2> PICK e \in Event : Returning(e)
    BY <1>3
  <2>1. CASE ReturnBegins(e)
    <3>1. index[MasterOf[e]] \in Number \cup {0}
      BY EventAssumption DEF TypeOK
    <3>2. [open |-> TRUE, index |-> index[MasterOf[e]], stale |-> FALSE] \in Return
      BY <3>1 DEF Return
    <3> QED
      BY <1>0, <2>1, <3>2 DEF ReturnBegins
  <2>2. CASE ReturnCommits(e)
    <3>1. [returns EXCEPT ![e] = Idle] \in [Event -> Return]
      BY <1>0, <1>1
    <3> QED
      BY <2>2, <3>1, OutdatedType DEF ReturnCommits
  <2>3. CASE ReturnFails(e)
    BY <1>0, <1>1, <2>3 DEF ReturnFails
  <2> QED
    BY <2>1, <2>2, <2>3 DEF Returning
<1>4. CASE Crash
  BY <1>1, <1>4 DEF Crash
<1> QED
  BY <1>0, <1>2, <1>3, <1>4 DEF Next, MainLoop, RecurseFactors, SendEmail, StartRecursion, NextName,
     UpdateIndex, RowFails, EndRecursion, SendMessage, MarkSent, MarkFails, EndMail,
     NotifyUserAboutFactor, NewMessageFails, AdminAdds, Restart, tables

LEMMA IndexType ==
  ASSUME TypeOK, Next
  PROVE  index' \in NumbersType
<1>0. index \in NumbersType
  BY DEF TypeOK, NumbersType
<1>1. CASE InsertComposite
  <2>1. timer.number \in Number \cup {0}
    BY DEF TypeOK, Timer
  <2> QED
    BY <1>0, <1>1, <2>1 DEF InsertComposite, NumbersType
<1>2. CASE \E e \in Event : Returning(e)
  <2> PICK e \in Event : Returning(e)
    BY <1>2
  <2>1. CASE ReturnCommits(e)
    <3>1. returns[e].index \in Number \cup {0}
      BY DEF TypeOK, Return
    <3> QED
      BY <1>0, <2>1, <3>1 DEF ReturnCommits, NumbersType
  <2>2. CASE ReturnBegins(e) \/ ReturnFails(e)
    BY <1>0, <2>2 DEF ReturnBegins, ReturnFails, tables
  <2> QED
    BY <2>1, <2>2 DEF Returning
<1> QED
  BY <1>0, <1>1, <1>2 DEF Next, MainLoop, RecurseFactors, SendEmail, StartRecursion, NextName,
     UpdateIndex, RowFails, EndRecursion, SendMessage, MarkSent, MarkFails, EndMail, Crash,
     NotifyUserAboutFactor, NewMessageFails, AdminAdds, Restart, tables

LEMMA SetsType ==
  ASSUME TypeInv, Next
  PROVE  /\ reported' \subseteq Event /\ sent' \subseteq Event /\ recursed' \subseteq Detail
         /\ names' \subseteq Master \X Number \X (Detail \cup {None})
<1>0. /\ reported \subseteq Event /\ sent \subseteq Event /\ recursed \subseteq Detail
      /\ names \subseteq Master \X Number \X (Detail \cup {None})
  BY DEF TypeInv, TypeOK
<1>1. CASE InsertComposite
  <2>1. timer.detail \in Detail /\ timer.number \in Number
    BY <1>1 DEF InsertComposite, At, TypeInv, RowThere
  <2>2. MasterOfDetail(timer.detail) \in Master
    BY <2>1, EventAssumption DEF MasterOfDetail
  <2> QED
    BY <1>0, <1>1, <2>1, <2>2 DEF InsertComposite, Recursed
<1>2. CASE MarkSent
  <2>1. timer.event \in Event
    BY <1>2 DEF MarkSent, At, TypeInv, EventThere, TypeOK, Timer
  <2> QED
    BY <1>0, <1>2, <2>1 DEF MarkSent, Marked
<1>3. CASE \E e \in Event : Returning(e)
  BY <1>0, <1>3 DEF Returning, ReturnBegins, ReturnCommits, ReturnFails, tables
<1>4. CASE AdminAdds
  <2>1. \A x \in Taken : <<x[1], x[2], None>> \in Master \X Number \X (Detail \cup {None})
    BY NameAssumption
  <2> QED
    BY <1>0, <1>4, <2>1 DEF AdminAdds
<1> QED
  BY <1>0, <1>1, <1>2, <1>3, <1>4 DEF Next, MainLoop, RecurseFactors, SendEmail, StartRecursion, NextName,
     UpdateIndex, RowFails, EndRecursion, SendMessage, MarkFails, EndMail, Crash,
     NotifyUserAboutFactor, NewMessageFails, Restart, tables

(* The variables that few actions change.                                   *)
LEMMA SwitchesType ==
  ASSUME TypeOK, Next
  PROVE  postgres' \in BOOLEAN /\ mail' \in BOOLEAN /\ up' \in BOOLEAN
<1>0. postgres \in BOOLEAN /\ mail \in BOOLEAN /\ up \in BOOLEAN
  BY DEF TypeOK
<1> QED
  BY <1>0 DEF Next, MainLoop, RecurseFactors, SendEmail, StartRecursion, NextName, InsertComposite,
     UpdateIndex, RowFails, EndRecursion, SendMessage, MarkSent, MarkFails, EndMail, Crash, Returning,
     ReturnBegins, ReturnCommits, ReturnFails, AdminAdds,
     NotifyUserAboutFactor, NewMessageFails, Restart, tables, life, post

LEMMA TroubleType ==
  ASSUME TypeOK, Next
  PROVE  trouble' \in 0..MaxTrouble /\ round' \in 0..3
<1>0. trouble \in 0..MaxTrouble /\ round \in 0..3 /\ MaxTrouble \in Nat
  BY BoundAssumption DEF TypeOK
<1>1. trouble' = trouble \/ Trouble
  BY DEF Next, MainLoop, RecurseFactors, SendEmail, StartRecursion, NextName, InsertComposite,
     UpdateIndex, RowFails, EndRecursion, SendMessage, MarkSent, MarkFails, EndMail, Crash, Returning,
     ReturnBegins, ReturnCommits, ReturnFails, AdminAdds, OpenFails, AnswerFails,
     NotifyUserAboutFactor, NewMessageFails, Restart, life
<1>2. round' = round \/ round' = NextRound \/ round' = 1
  BY DEF Next, MainLoop, RecurseFactors, SendEmail, StartRecursion, NextName, InsertComposite,
     UpdateIndex, RowFails, EndRecursion, SendMessage, MarkSent, MarkFails, EndMail, Crash, Returning,
     ReturnBegins, ReturnCommits, ReturnFails, AdminAdds,
     NotifyUserAboutFactor, NewMessageFails, Restart
<1>3. trouble' \in 0..MaxTrouble
  BY <1>0, <1>1 DEF Trouble
<1>4. round' \in 0..3
  BY <1>0, <1>2 DEF NextRound
<1> QED
  BY <1>3, <1>4

LEMMA MailedType ==
  ASSUME TypeInv, Next
  PROVE  mailed' \in [Event -> Nat]
<1>0. mailed \in [Event -> Nat]
  BY DEF TypeInv, TypeOK
<1>1. CASE SendMessage
  BY <1>0, <1>1 DEF SendMessage
<1> QED
  BY <1>0, <1>1 DEF Next, MainLoop, RecurseFactors, SendEmail, StartRecursion, NextName, InsertComposite,
     UpdateIndex, RowFails, EndRecursion, MarkSent, MarkFails, EndMail, Crash, Returning,
     ReturnBegins, ReturnCommits, ReturnFails, AdminAdds,
     NotifyUserAboutFactor, NewMessageFails, Restart, post

(* A row is looked up before it is written, and an event before it is mailed.*)
LEMMA ThereNext ==
  ASSUME TypeInv, Next
  PROVE  RowThere' /\ EventThere'
<1>0. timer \in Timer /\ RowThere /\ EventThere
  BY DEF TypeInv, TypeOK
<1>1. CASE StartRecursion \/ EndRecursion \/ EndMail \/ Crash
  <2>1. Asleep.pc = "sleep"
    BY DEF Asleep
  <2>2. CASE StartRecursion
    BY <2>2, AsleepType DEF StartRecursion, Timer, RowThere, EventThere
  <2>3. CASE EndRecursion
    <3>1. timer'.pc \in {"sleep", "event"}
      BY <2>1, <2>3, AsleepType DEF EndRecursion, Timer
    <3> QED
      BY <3>1 DEF RowThere, EventThere
  <2>4. CASE EndMail \/ Crash
    BY <2>1, <2>4 DEF EndMail, Crash, RowThere, EventThere
  <2> QED
    BY <1>1, <2>2, <2>3, <2>4
<1>2. CASE NextName
  <2>1. PICK d \in timer.rows, v \in {IF timer.view = None THEN ViewNow ELSE timer.view},
             n \in Number :
          timer' = [timer EXCEPT !.pc = "update", !.detail = d, !.number = n, !.view = v,
                                 !.rows = @ \ {d}]
    BY <1>2 DEF NextName, FreeNumbers
  <2>2. timer'.pc = "update" /\ timer'.detail = d /\ timer'.number = n
    BY <1>0, <2>1 DEF Timer
  <2>3. d \in Detail
    BY <1>0 DEF Timer
  <2> QED
    BY <2>2, <2>3 DEF RowThere, EventThere
<1>3. CASE UpdateIndex
  <2>1. /\ timer.pc = "update" /\ timer'.pc = "insert"
        /\ timer'.detail = timer.detail /\ timer'.number = timer.number
    BY <1>0, <1>3 DEF UpdateIndex, At, Timer
  <2> QED
    BY <1>0, <2>1 DEF RowThere, EventThere
<1>4. CASE InsertComposite \/ RowFails
  <2>1. timer'.pc = "row"
    BY <1>0, <1>4 DEF InsertComposite, RowFails, NextRow, Timer
  <2> QED
    BY <2>1 DEF RowThere, EventThere
<1>5. CASE SendMessage
  <2>1. /\ timer.pc = "send" /\ timer'.pc = "mark"
        /\ timer'.event = timer.event /\ timer'.events = timer.events
    BY <1>0, <1>5 DEF SendMessage, At, Timer
  <2> QED
    BY <1>0, <2>1 DEF RowThere, EventThere
<1>6. CASE MarkSent \/ MarkFails
  <2>1. timer'.pc = "event"
    BY <1>0, <1>6 DEF MarkSent, MarkFails, NextEvent, Timer
  <2> QED
    BY <2>1 DEF RowThere, EventThere
<1>7. CASE \E e \in Event : NotifyUserAboutFactor(e) \/ NewMessageFails(e)
  <2> PICK e \in Event : NotifyUserAboutFactor(e) \/ NewMessageFails(e)
    BY <1>7
  <2>1. CASE NotifyUserAboutFactor(e)
    <3>1. timer'.pc = "send" /\ timer'.event = e /\ e \in timer'.events
      BY <1>0, <2>1 DEF NotifyUserAboutFactor, Timer
    <3> QED
      BY <3>1 DEF RowThere, EventThere
  <2>2. CASE NewMessageFails(e)
    <3>1. timer'.pc = "event"
      BY <1>0, <2>2 DEF NewMessageFails, AfterFailure, NextEvent, Timer
    <3> QED
      BY <3>1 DEF RowThere, EventThere
  <2> QED
    BY <2>1, <2>2
<1>8. CASE \E e \in Event : Returning(e)
  <2> PICK e \in Event : Returning(e)
    BY <1>8
  <2>1. /\ timer'.pc = timer.pc /\ timer'.detail = timer.detail /\ timer'.number = timer.number
        /\ timer'.event = timer.event /\ timer'.events = timer.events
    BY <1>0 DEF Returning, ReturnBegins, ReturnCommits, ReturnFails, Timer
  <2> QED
    BY <1>0, <2>1 DEF RowThere, EventThere
<1>9. CASE AdminAdds \/ Restart
  BY <1>0, <1>9 DEF AdminAdds, Restart, RowThere, EventThere
<1> QED
  BY <1>1, <1>2, <1>3, <1>4, <1>5, <1>6, <1>7, <1>8, <1>9 DEF Next, MainLoop, RecurseFactors, SendEmail

LEMMA TypeInvInit == Init => TypeInv
<1> SUFFICES ASSUME Init PROVE TypeInv
  OBVIOUS
<1>1. /\ reported \subseteq Event /\ sent \subseteq Event /\ recursed \subseteq Detail
      /\ names \subseteq Master \X Number \X (Detail \cup {None})
      /\ index \in [Master -> Number \cup {0}]
  BY DEF Init
<1>2. postgres \in BOOLEAN /\ mail \in BOOLEAN /\ up \in BOOLEAN
  BY BoundAssumption DEF Init
<1>3. returns \in [Event -> Return]
  BY DEF Init, Return, Idle
<1>4. timer \in Timer
  BY AsleepType DEF Init
<1>5. round \in 0..3
  BY DEF Init
<1>6. trouble \in 0..MaxTrouble
  BY BoundAssumption DEF Init
<1>7. mailed \in [Event -> Nat]
  BY DEF Init
<1>8. RowThere /\ EventThere
  BY DEF Init, Asleep, RowThere, EventThere
<1> QED
  BY <1>1, <1>2, <1>3, <1>4, <1>5, <1>6, <1>7, <1>8 DEF TypeInv, TypeOK

LEMMA TypeInvNext == TypeInv /\ [Next]_vars => TypeInv'
<1> SUFFICES ASSUME TypeInv, [Next]_vars PROVE TypeInv'
  OBVIOUS
<1>0. TypeOK
  BY DEF TypeInv
<1>1. CASE Next
  <2>1. TypeOK'
    BY <1>0, <1>1, TimerType, ReturnsType, IndexType, SetsType, SwitchesType, TroubleType, MailedType
    DEF TypeOK, NumbersType
  <2> QED
    BY <1>1, <2>1, ThereNext DEF TypeInv
<1>2. CASE UNCHANGED vars
  BY <1>2 DEF vars, tables, post, life, TypeInv, TypeOK, RowThere, EventThere
<1> QED
  BY <1>1, <1>2

(* The timers' variables keep their types (RecurseFactors, SendEmail).      *)
THEOREM TypeCorrect == Spec => []TypeOK
<1>1. TypeInv => TypeOK
  BY DEF TypeInv
<1> QED
  BY <1>1, TypeInvInit, TypeInvNext, PTL DEF Spec

-----------------------------------------------------------------------------
(* E-mails. *)

(* The message about event e is out, and the event is marked or about to be.*)
Counted(e) == e \in sent \/ (timer.pc = "mark" /\ timer.event = e)

Bound(e) == trouble + IF Counted(e) THEN 1 ELSE 0

(* No event is mailed that was marked before, and each message beyond the   *)
(* first is one the server failed to mark.                                  *)
MailInv ==
  /\ timer.events \cap sent = {}
  /\ \A e \in Event : mailed[e] <= Bound(e)

LEMMA EventsStep ==
  ASSUME TypeInv, Next
  PROVE  /\ timer'.events \subseteq timer.events \cup (reported \ sent)
         /\ MarkSent => timer'.events = timer.events \ {timer.event}
<1>0. timer \in Timer
  BY DEF TypeInv, TypeOK
<1>1. Asleep.events = {}
  BY DEF Asleep
<1>2. ASSUME NEW e PROVE NextEvent(e).events = timer.events \ {e}
  BY <1>0 DEF NextEvent, Timer
<1>3. MarkSent => timer'.events = timer.events \ {timer.event}
  BY <1>2 DEF MarkSent
<1>4. CASE StartRecursion
  BY <1>1, <1>3, <1>4, AsleepType DEF StartRecursion, Timer
<1>5. CASE EndRecursion
  BY <1>1, <1>3, <1>5, AsleepType DEF EndRecursion, Timer
<1>6. CASE EndMail \/ Crash
  BY <1>1, <1>3, <1>6 DEF EndMail, Crash
<1>7. CASE NextName \/ UpdateIndex
  <2>1. timer'.events = timer.events
    BY <1>0, <1>7 DEF NextName, UpdateIndex, Timer
  <2> QED
    BY <1>3, <2>1
<1>8. CASE InsertComposite \/ RowFails
  BY <1>0, <1>3, <1>8 DEF InsertComposite, RowFails, NextRow, Timer
<1>9. CASE SendMessage
  BY <1>0, <1>3, <1>9 DEF SendMessage, Timer
<1>10. CASE MarkSent \/ MarkFails
  BY <1>2, <1>3, <1>10 DEF MarkFails
<1>11. CASE \E e \in Event : NotifyUserAboutFactor(e) \/ NewMessageFails(e)
  BY <1>0, <1>2, <1>3, <1>11 DEF NotifyUserAboutFactor, NewMessageFails, AfterFailure, Timer
<1>12. CASE \E e \in Event : Returning(e)
  BY <1>0, <1>3, <1>12 DEF Returning, ReturnBegins, ReturnCommits, ReturnFails, Timer
<1>13. CASE AdminAdds \/ Restart
  BY <1>3, <1>13 DEF AdminAdds, Restart
<1> QED
  BY <1>4, <1>5, <1>6, <1>7, <1>8, <1>9, <1>10, <1>11, <1>12, <1>13
  DEF Next, MainLoop, RecurseFactors, SendEmail

LEMMA SentStep ==
  ASSUME Next
  PROVE  sent' = sent \/ (MarkSent /\ sent' = sent \cup {timer.event})
  BY DEF Next, MainLoop, RecurseFactors, SendEmail, StartRecursion, NextName, InsertComposite,
     UpdateIndex, RowFails, EndRecursion, SendMessage, MarkSent, MarkFails, EndMail, Crash, Returning,
     ReturnBegins, ReturnCommits, ReturnFails, AdminAdds, Marked,
     NotifyUserAboutFactor, NewMessageFails, Restart, tables

LEMMA TroubleStep ==
  ASSUME Next
  PROVE  trouble' = trouble \/ trouble' = trouble + 1
  BY DEF Next, MainLoop, RecurseFactors, SendEmail, StartRecursion, NextName, InsertComposite,
     UpdateIndex, RowFails, EndRecursion, SendMessage, MarkSent, MarkFails, EndMail, Crash, Returning,
     ReturnBegins, ReturnCommits, ReturnFails, AdminAdds, OpenFails, AnswerFails, Trouble,
     NotifyUserAboutFactor, NewMessageFails, Restart, life

LEMMA MailedStep ==
  ASSUME Next
  PROVE  SendMessage \/ mailed' = mailed
  BY DEF Next, MainLoop, RecurseFactors, SendEmail, StartRecursion, NextName, InsertComposite,
     UpdateIndex, RowFails, EndRecursion, MarkSent, MarkFails, EndMail, Crash, Returning,
     ReturnBegins, ReturnCommits, ReturnFails, AdminAdds,
     NotifyUserAboutFactor, NewMessageFails, Restart, post

(* An event leaves the state "mark" unmarked only by a failure.             *)
LEMMA CountedStep ==
  ASSUME TypeInv, Next, NEW e \in Event, Counted(e)
  PROVE  Counted(e)' \/ trouble' = trouble + 1
<1>0. timer \in Timer
  BY DEF TypeInv, TypeOK
<1>1. CASE e \in sent
  BY <1>1, SentStep DEF Counted
<1>2. CASE timer.pc = "mark" /\ timer.event = e
  <2>1. CASE MarkSent
    BY <1>2, <2>1 DEF MarkSent, Marked, Counted
  <2>2. CASE MarkFails \/ Crash
    BY <2>2 DEF MarkFails, Crash, Trouble
  <2>3. CASE \E f \in Event : Returning(f)
    <3>1. timer'.pc = timer.pc /\ timer'.event = timer.event
      BY <1>0, <2>3 DEF Returning, ReturnBegins, ReturnCommits, ReturnFails, Timer
    <3> QED
      BY <1>2, <3>1 DEF Counted
  <2>4. CASE AdminAdds \/ Restart
    BY <1>2, <2>4 DEF AdminAdds, Restart, Counted
  <2>5. ~StartRecursion /\ ~NextName /\ ~UpdateIndex /\ ~InsertComposite /\ ~RowFails /\ ~EndRecursion
        /\ ~SendMessage /\ ~EndMail /\ \A f \in Event : ~NotifyUserAboutFactor(f) /\ ~NewMessageFails(f)
    BY <1>2 DEF StartRecursion, NextName, UpdateIndex, InsertComposite, RowFails, EndRecursion,
       SendMessage, EndMail, NotifyUserAboutFactor, NewMessageFails, At
  <2> QED
    BY <2>1, <2>2, <2>3, <2>4, <2>5 DEF Next, MainLoop, RecurseFactors, SendEmail
<1> QED
  BY <1>1, <1>2 DEF Counted

LEMMA MailInvNext ==
  ASSUME TypeInv, MailInv, Next
  PROVE  MailInv'
<1>0. timer \in Timer /\ mailed \in [Event -> Nat] /\ trouble \in Nat
  BY BoundAssumption DEF TypeInv, TypeOK
<1>1. timer'.events \cap sent' = {}
  BY EventsStep, SentStep DEF MailInv, MarkSent, Marked
<1>2. ASSUME NEW e \in Event, mailed'[e] = mailed[e] PROVE mailed'[e] <= Bound(e)'
  <2>1. mailed[e] \in Nat /\ mailed[e] <= Bound(e)
    BY <1>0 DEF MailInv
  <2>2. CASE ~Counted(e)
    BY <1>0, <1>2, <2>1, <2>2, TroubleStep DEF Bound
  <2>3. CASE Counted(e)
    BY <1>0, <1>2, <2>1, <2>3, CountedStep, TroubleStep DEF Bound
  <2> QED
    BY <2>2, <2>3
<1>3. ASSUME NEW e \in Event, SendMessage, e = timer.event PROVE mailed'[e] <= Bound(e)'
  <2>1. timer.pc = "send" /\ e \in timer.events
    BY <1>3 DEF SendMessage, At, TypeInv, EventThere
  <2>2. ~Counted(e)
    BY <2>1 DEF MailInv, Counted
  <2>3. mailed[e] \in Nat /\ mailed[e] <= trouble
    BY <1>0, <2>2 DEF MailInv, Bound
  <2>4. timer'.pc = "mark" /\ timer'.event = e
    BY <1>0, <1>3 DEF SendMessage, Timer
  <2>5. mailed'[e] = mailed[e] \/ mailed'[e] = mailed[e] + 1
    BY <1>0, <1>3 DEF SendMessage
  <2>6. Counted(e)'
    BY <2>4 DEF Counted
  <2>7. trouble' \in Nat /\ trouble <= trouble'
    BY <1>0, TroubleStep
  <2> QED
    BY <1>0, <2>3, <2>5, <2>6, <2>7 DEF Bound
<1>4. ASSUME NEW e \in Event, SendMessage, e # timer.event PROVE mailed'[e] = mailed[e]
  BY <1>0, <1>4 DEF SendMessage
<1>5. \A e \in Event : mailed'[e] <= Bound(e)'
  BY <1>2, <1>3, <1>4, MailedStep
<1> QED
  BY <1>1, <1>5 DEF MailInv

(* No event is mailed twice unless something failed (SendEmail).            *)
THEOREM MailCorrect == Spec => []OneMailPerFailure
<1>1. Init => MailInv
  BY DEF Init, MailInv, Asleep, Bound, Counted
<1>2. TypeInv /\ MailInv /\ [Next]_vars => MailInv'
  <2>1. ASSUME TypeInv, MailInv, UNCHANGED vars PROVE MailInv'
    BY <2>1 DEF vars, tables, post, life, MailInv, Bound, Counted
  <2> QED
    BY <2>1, MailInvNext
<1>3. TypeInv /\ MailInv => OneMailPerFailure
  <2> SUFFICES ASSUME TypeInv, MailInv, NEW e \in Event PROVE mailed[e] <= 1 + trouble
    BY DEF OneMailPerFailure
  <2>1. mailed[e] \in Nat /\ trouble \in Nat /\ mailed[e] <= Bound(e)
    BY BoundAssumption DEF TypeInv, TypeOK, MailInv
  <2> QED
    BY <2>1 DEF Bound
<1> QED
  BY <1>1, <1>2, <1>3, TypeInvInit, TypeInvNext, PTL DEF Spec

-----------------------------------------------------------------------------
(* Recursed composites. *)

(* The cursor's rows are not recursed, and neither is the one being written;*)
(* a detail that is recursed has one composite and any other has none.      *)
MadeInv ==
  /\ timer.rows \cap recursed = {}
  /\ timer.pc \in {"update", "insert"} => timer.detail \notin recursed \cup timer.rows
  /\ \A d \in Detail :
       /\ d \notin recursed => MadeOf(d) = {}
       /\ d \in recursed => \E x \in names : MadeOf(d) = {x}

InUse(m, low, high) == \A n \in Number : low < n /\ n < high => <<m, n>> \in NamesUsed

(* On PostgreSQL only RecurseFactors changes RecurseIndex.  The numbers     *)
(* between the index it started from and the one that is in the table, and  *)
(* those below the number it has chosen, are in use: so the number of a     *)
(* name that is still free is above the index.                              *)
IndexInv ==
  /\ timer.view # None => timer.view.names \subseteq NamesUsed
  /\ \A e \in Event : returns[e].open /\ ~returns[e].stale => returns[e].index = index[MasterOf[e]]
  /\ \A x \in names : x[3] # None => x[2] <= index[x[1]]
  /\ timer.pc \in {"row", "update", "insert"} =>
       \A m \in Master : InUse(m, timer.index[m], index[m] + 1)
  /\ timer.pc \in {"update", "insert"} =>
       /\ timer.index[MasterOfDetail(timer.detail)] < timer.number
       /\ InUse(MasterOfDetail(timer.detail), timer.index[MasterOfDetail(timer.detail)], timer.number)

RecurseInv == MadeInv /\ (postgres => IndexInv)

(* The steps that neither read the cursor nor change the composites.        *)
Other ==
  \/ UpdateIndex \/ RowFails \/ EndRecursion \/ SendEmail \/ Crash \/ Restart
  \/ \E e \in Event : Returning(e)

LEMMA OtherStep ==
  ASSUME TypeInv, Other
  PROVE  /\ names' = names /\ recursed' = recursed
         /\ timer'.rows \subseteq timer.rows
         /\ timer'.view = None \/ timer'.view = timer.view
         /\ timer'.pc \in {"update", "insert"} =>
              /\ timer.pc \in {"update", "insert"}
              /\ timer'.detail = timer.detail /\ timer'.number = timer.number
         /\ timer'.pc \in {"row", "update", "insert"} =>
              timer.pc \in {"row", "update", "insert"} /\ timer'.index = timer.index
<1>0. timer \in Timer
  BY DEF TypeInv, TypeOK
<1>1. Asleep.rows = {} /\ Asleep.view = None /\ Asleep.pc = "sleep"
  BY DEF Asleep
<1>2. CASE UpdateIndex
  BY <1>0, <1>2 DEF UpdateIndex, At, Timer, tables
<1>3. CASE RowFails
  BY <1>0, <1>3 DEF RowFails, NextRow, At, Timer, tables
<1>4. CASE EndRecursion
  BY <1>1, <1>4, AsleepType DEF EndRecursion, Timer, tables
<1>5. CASE EndMail \/ Crash
  BY <1>1, <1>5 DEF EndMail, Crash, tables
<1>6. CASE SendMessage
  BY <1>0, <1>6 DEF SendMessage, Timer, tables
<1>7. ASSUME NEW e
      PROVE  /\ NextEvent(e).rows = timer.rows /\ NextEvent(e).view = timer.view
             /\ NextEvent(e).pc = "event"
  BY <1>0 DEF NextEvent, Timer
<1>8. CASE MarkSent \/ MarkFails
  BY <1>7, <1>8 DEF MarkSent, MarkFails, tables
<1>9. CASE \E e \in Event : NotifyUserAboutFactor(e) \/ NewMessageFails(e)
  <2> PICK e \in Event : NotifyUserAboutFactor(e) \/ NewMessageFails(e)
    BY <1>9
  <2>1. CASE NotifyUserAboutFactor(e)
    BY <1>0, <2>1 DEF NotifyUserAboutFactor, Timer, tables
  <2>2. CASE NewMessageFails(e)
    BY <1>7, <2>2 DEF NewMessageFails, AfterFailure, tables
  <2> QED
    BY <2>1, <2>2
<1>10. CASE \E e \in Event : Returning(e)
  <2> PICK e \in Event : Returning(e)
    BY <1>10
  <2>1. timer' = timer \/ \E S : timer' = [timer EXCEPT !.stale = S]
    BY DEF Returning, ReturnBegins, ReturnCommits, ReturnFails
  <2>2. names' = names /\ recursed' = recursed
    BY DEF Returning, ReturnBegins, ReturnCommits, ReturnFails, tables
  <2> QED
    BY <1>0, <2>1, <2>2 DEF Timer
<1>11. CASE Restart
  BY <1>11 DEF Restart, tables
<1> QED
  BY <1>2, <1>3, <1>4, <1>5, <1>6, <1>8, <1>9, <1>10, <1>11 DEF Other, SendEmail

(* What the cursor's next row becomes.                                      *)
LEMMA NextNameStep ==
  ASSUME TypeInv, NextName
  PROVE  /\ UNCHANGED <<names, recursed, index, returns, postgres>>
         /\ timer.pc = "row" /\ timer'.pc = "update" /\ timer'.index = timer.index
         /\ timer'.detail \in timer.rows /\ timer'.rows = timer.rows \ {timer'.detail}
         /\ timer'.view = IF timer.view = None THEN ViewNow ELSE timer.view
         /\ LET m == MasterOfDetail(timer'.detail)
                used == timer'.view.names
            IN  /\ timer'.number \in FreeNumbers(m, timer.index[m], used)
                /\ \A k \in FreeNumbers(m, timer.index[m], used) : timer'.number <= k
<1>0. timer \in Timer
  BY DEF TypeInv, TypeOK
<1>1. PICK d \in timer.rows, v \in {IF timer.view = None THEN ViewNow ELSE timer.view} :
      \E n \in FreeNumbers(MasterOfDetail(d), timer.index[MasterOfDetail(d)], v.names) :
        /\ \A k \in FreeNumbers(MasterOfDetail(d), timer.index[MasterOfDetail(d)], v.names) : n <= k
        /\ timer' = [timer EXCEPT !.pc = "update", !.detail = d, !.number = n, !.view = v,
                                 !.rows = @ \ {d}]
  BY DEF NextName
<1>2. PICK n \in FreeNumbers(MasterOfDetail(d), timer.index[MasterOfDetail(d)], v.names) :
        /\ \A k \in FreeNumbers(MasterOfDetail(d), timer.index[MasterOfDetail(d)], v.names) : n <= k
        /\ timer' = [timer EXCEPT !.pc = "update", !.detail = d, !.number = n, !.view = v,
                                 !.rows = @ \ {d}]
  BY <1>1
<1>3. /\ timer'.pc = "update" /\ timer'.index = timer.index /\ timer'.detail = d
      /\ timer'.rows = timer.rows \ {d} /\ timer'.view = v /\ timer'.number = n
  BY <1>0, <1>2 DEF Timer
<1>4. timer.pc = "row" /\ UNCHANGED <<names, recursed, index, returns, postgres>>
  BY DEF NextName, At, tables
<1> QED
  BY <1>2, <1>3, <1>4

LEMMA StartStep ==
  ASSUME StartRecursion
  PROVE  /\ UNCHANGED <<names, recursed, index, returns, postgres>>
         /\ timer'.pc = "row" /\ timer'.index = index /\ timer'.view = ViewNow
         /\ timer'.rows \cap recursed = {}
  BY AsleepType DEF StartRecursion, Timer, tables

LEMMA InsertStep ==
  ASSUME TypeInv, InsertComposite
  PROVE  LET m == MasterOfDetail(timer.detail) IN
         /\ timer.pc = "insert" /\ timer'.pc = "row" /\ timer'.rows = timer.rows
         /\ timer'.index = timer.index /\ timer'.view = None
         /\ recursed' = recursed \cup {timer.detail}
         /\ names' = names \cup {<<m, timer.number, timer.detail>>}
         /\ <<m, timer.number>> \notin NamesUsed
         /\ index' = [index EXCEPT ![m] = timer.number]
         /\ returns' = Outdated(returns, m)
         /\ m \in Master /\ timer.detail \in Detail /\ timer.number \in Number
         /\ postgres' = postgres
<1>0. timer \in Timer
  BY DEF TypeInv, TypeOK
<1>1. NextRow.pc = "row" /\ NextRow.rows = timer.rows /\ NextRow.index = timer.index /\ NextRow.view = None
  BY <1>0 DEF NextRow, Timer
<1>2. timer.pc = "insert" /\ timer.detail \in Detail /\ timer.number \in Number
  BY DEF InsertComposite, At, TypeInv, RowThere
<1>3. MasterOfDetail(timer.detail) \in Master
  BY <1>2, EventAssumption DEF MasterOfDetail
<1> QED
  BY <1>1, <1>2, <1>3 DEF InsertComposite, Recursed

LEMMA MadeInvNext ==
  ASSUME TypeInv, MadeInv, Next
  PROVE  MadeInv'
<1>0. timer \in Timer
  BY DEF TypeInv, TypeOK
<1>1. CASE Other
  BY <1>0, <1>1, OtherStep DEF MadeInv, MadeOf, TypeInv, RowThere, Timer
<1>2. CASE NextName
  BY <1>2, NextNameStep DEF MadeInv, MadeOf
<1>3. CASE StartRecursion
  BY <1>3, StartStep DEF MadeInv, MadeOf
<1>4. CASE InsertComposite
  <2>0. PICK d \in Detail, m \in Master, n \in Number :
          d = timer.detail /\ m = MasterOfDetail(timer.detail) /\ n = timer.number
    BY <1>4, InsertStep
  <2> DEFINE x == <<m, n, d>>
  <2>1. /\ recursed' = recursed \cup {d} /\ names' = names \cup {x}
        /\ timer'.rows = timer.rows /\ timer'.pc = "row" /\ d \notin recursed \cup timer.rows
    BY <1>4, <2>0, InsertStep DEF MadeInv
  <2>2. MadeOf(d) = {}
    BY <2>1 DEF MadeInv
  <2>3. MadeOf(d)' = {x}
    BY <2>1, <2>2 DEF MadeOf
  <2>4. ASSUME NEW f \in Detail, f # d PROVE MadeOf(f)' = MadeOf(f)
    BY <2>1, <2>4 DEF MadeOf
  <2>5. ASSUME NEW f \in Detail
        PROVE  /\ f \notin recursed' => MadeOf(f)' = {}
               /\ f \in recursed' => \E y \in names' : MadeOf(f)' = {y}
    <3>1. CASE f = d
      <4>1. x \in names' /\ d \in recursed'
        BY <2>1
      <4> QED
        BY <3>1, <4>1, <2>3
    <3>2. CASE f # d
      BY <2>1, <2>4, <3>2 DEF MadeInv
    <3> QED
      BY <3>1, <3>2
  <2> QED
    BY <2>1, <2>5 DEF MadeInv
<1>5. CASE AdminAdds
  <2>1. PICK y \in Taken : names' = names \cup {<<y[1], y[2], None>>}
    BY <1>5 DEF AdminAdds
  <2>2. timer' = timer /\ recursed' = recursed
    BY <1>5 DEF AdminAdds
  <2>3. ASSUME NEW f \in Detail PROVE MadeOf(f)' = MadeOf(f)
    <3>1. f # None
      BY EventAssumption
    <3> QED
      BY <2>1, <3>1 DEF MadeOf
  <2> QED
    BY <2>1, <2>2, <2>3 DEF MadeInv
<1> QED
  BY <1>1, <1>2, <1>3, <1>4, <1>5 DEF Next, MainLoop, RecurseFactors, Other

-----------------------------------------------------------------------------
(* RecurseIndex on PostgreSQL. *)

LEMMA NamesStep ==
  ASSUME Next
  PROVE  names \subseteq names' /\ NamesUsed \subseteq NamesUsed' /\ postgres' = postgres
<1>1. names \subseteq names'
  BY DEF Next, MainLoop, RecurseFactors, SendEmail, StartRecursion, NextName, InsertComposite,
     UpdateIndex, RowFails, EndRecursion, SendMessage, MarkSent, MarkFails, EndMail, Crash, Returning,
     ReturnBegins, ReturnCommits, ReturnFails, AdminAdds,
     NotifyUserAboutFactor, NewMessageFails, Restart, tables
<1>2. postgres' = postgres
  BY DEF Next, MainLoop, RecurseFactors, SendEmail, StartRecursion, NextName, InsertComposite,
     UpdateIndex, RowFails, EndRecursion, SendMessage, MarkSent, MarkFails, EndMail, Crash, Returning,
     ReturnBegins, ReturnCommits, ReturnFails, AdminAdds,
     NotifyUserAboutFactor, NewMessageFails, Restart, tables
<1> QED
  BY <1>1, <1>2 DEF NamesUsed

Fresh(e) == returns[e].open /\ ~returns[e].stale

(* On PostgreSQL a return that commits puts back the index it read.         *)
LEMMA CommitKeepsIndex ==
  ASSUME TypeInv, IndexInv, postgres, NEW e \in Event, ReturnCommits(e)
  PROVE  index' = index
<1>1. returns[e].index = index[MasterOf[e]]
  BY DEF ReturnCommits, Writable, IndexInv
<1>2. index \in [Master -> Number \cup {0}] /\ MasterOf[e] \in Master
  BY EventAssumption DEF TypeInv, TypeOK
<1>3. index' = [index EXCEPT ![MasterOf[e]] = returns[e].index]
  BY DEF ReturnCommits
<1> QED
  BY <1>1, <1>2, <1>3

LEMMA ReturningKeepsIndex ==
  ASSUME TypeInv, IndexInv, postgres, NEW e \in Event, Returning(e)
  PROVE  index' = index /\ \A f \in Event : Fresh(f)' => returns'[f].index = index[MasterOf[f]]
<1>0. returns \in [Event -> Return]
  BY DEF TypeInv, TypeOK
<1>1. \A f \in Event : Fresh(f) => returns[f].index = index[MasterOf[f]]
  BY DEF IndexInv, Fresh
<1>2. ~Idle.open
  BY DEF Idle
<1>3. CASE ReturnBegins(e)
  <2>1. index' = index
    BY <1>3 DEF ReturnBegins, tables
  <2>2. returns'[e].index = index[MasterOf[e]]
    BY <1>0, <1>3 DEF ReturnBegins
  <2>3. \A f \in Event : f # e => returns'[f] = returns[f]
    BY <1>0, <1>3 DEF ReturnBegins
  <2> QED
    BY <1>1, <2>1, <2>2, <2>3 DEF Fresh
<1>4. CASE ReturnCommits(e)
  <2>1. index' = index
    BY <1>4, CommitKeepsIndex
  <2> DEFINE rs == [returns EXCEPT ![e] = Idle]
  <2>2. returns' = Outdated(rs, MasterOf[e])
    BY <1>4 DEF ReturnCommits
  <2>3. rs \in [Event -> Return]
    BY <1>0 DEF Idle, Return
  <2>4. ASSUME NEW f \in Event, Fresh(f)' PROVE returns'[f].index = index[MasterOf[f]]
    <3>1. rs[f].open /\ ~rs[f].stale /\ returns'[f] = rs[f]
      BY <2>2, <2>3, <2>4, OutdatedStale DEF Fresh
    <3>2. f # e
      BY <1>0, <1>2, <3>1
    <3>3. rs[f] = returns[f]
      BY <1>0, <3>2
    <3> QED
      BY <1>1, <3>1, <3>3 DEF Fresh
  <2> QED
    BY <2>1, <2>4
<1>5. CASE ReturnFails(e)
  <2>1. index' = index
    BY <1>5 DEF ReturnFails, tables
  <2>2. ~returns'[e].open /\ \A f \in Event : f # e => returns'[f] = returns[f]
    BY <1>0, <1>2, <1>5 DEF ReturnFails
  <2> QED
    BY <1>1, <2>1, <2>2 DEF Fresh
<1> QED
  BY <1>3, <1>4, <1>5 DEF Returning

LEMMA IndexKept ==
  ASSUME TypeInv, IndexInv, postgres, Other \/ AdminAdds
  PROVE  index' = index /\ \A f \in Event : Fresh(f)' => returns'[f].index = index[MasterOf[f]]
<1>1. \A f \in Event : Fresh(f) => returns[f].index = index[MasterOf[f]]
  BY DEF IndexInv, Fresh
<1>2. CASE \E e \in Event : Returning(e)
  BY <1>2, ReturningKeepsIndex
<1>3. CASE Crash
  <2>1. ~Idle.open
    BY DEF Idle
  <2> QED
    BY <1>3, <2>1 DEF Crash, tables, Fresh
<1>4. CASE ~Crash /\ ~\E e \in Event : Returning(e)
  <2>1. index' = index /\ returns' = returns
    BY <1>4 DEF Other, SendEmail, UpdateIndex, RowFails, EndRecursion, SendMessage, MarkSent, MarkFails,
       EndMail, NotifyUserAboutFactor, NewMessageFails, Restart, AdminAdds, tables
  <2> QED
    BY <1>1, <2>1 DEF Fresh
<1> QED
  BY <1>2, <1>3, <1>4

LEMMA IndexInvNext ==
  ASSUME TypeInv, IndexInv, postgres, Next
  PROVE  IndexInv'
<1>0. timer \in Timer /\ index \in [Master -> Number \cup {0}] /\ Number \subseteq Nat
  BY NameAssumption DEF TypeInv, TypeOK
<1>n. \A k \in Master : index[k] \in Nat /\ timer.index[k] \in Nat
  <2>1. timer.index \in [Master -> Number \cup {0}]
    BY <1>0 DEF Timer
  <2>2. \A i \in Number \cup {0} : i \in Nat
    BY <1>0
  <2> QED
    BY <1>0, <2>1, <2>2
<1>1. CASE Other
  <2>1. /\ timer'.view # None => timer'.view.names \subseteq NamesUsed'
        /\ NamesUsed' = NamesUsed
    BY <1>1, OtherStep DEF IndexInv, NamesUsed
  <2> QED
    BY <1>1, <2>1, OtherStep, IndexKept DEF IndexInv, InUse, Fresh
<1>2. CASE AdminAdds
  <2>1. timer' = timer /\ \E y : names' = names \cup {<<y[1], y[2], None>>}
    BY <1>2 DEF AdminAdds
  <2>2. \A x \in names' : x[3] # None => x[2] <= index[x[1]]
    BY <2>1 DEF IndexInv
  <2>3. timer'.view # None => timer'.view.names \subseteq NamesUsed'
    BY <2>1, NamesStep DEF IndexInv
  <2> QED
    BY <1>2, <2>1, <2>2, <2>3, IndexKept, NamesStep DEF IndexInv, InUse, Fresh
<1>3. CASE StartRecursion
  <2>1. NamesUsed' = NamesUsed /\ timer'.view.names = NamesUsed
    BY <1>3, StartStep DEF NamesUsed, ViewNow
  <2>2. \A m \in Master : InUse(m, index[m], index[m] + 1)
    <3>1. ASSUME NEW m \in Master, NEW n \in Number PROVE ~(index[m] < n /\ n < index[m] + 1)
      <4>1. index[m] \in Nat /\ n \in Nat
        BY <1>0, <1>n
      <4> QED
        BY <4>1
    <3> QED
      BY <3>1 DEF InUse
  <2> QED
    BY <1>3, <2>1, <2>2, StartStep DEF IndexInv, InUse
<1>4. CASE NextName
  <2>1. PICK d \in Detail, m \in Master :
          d = timer'.detail /\ m = MasterOfDetail(d)
    BY <1>0, <1>4, NextNameStep, EventAssumption DEF MasterOfDetail, Timer
  <2>2. NamesUsed' = NamesUsed /\ timer'.view.names \subseteq NamesUsed
    BY <1>4, NextNameStep DEF IndexInv, NamesUsed, ViewNow
  <2>3. /\ timer'.number \in Number /\ timer.index[m] < timer'.number
        /\ \A k \in Number : timer.index[m] < k /\ <<m, k>> \notin timer'.view.names => timer'.number <= k
    BY <1>4, <2>1, NextNameStep DEF FreeNumbers
  <2>4. ASSUME NEW k \in Number, timer.index[m] < k, k < timer'.number PROVE <<m, k>> \in NamesUsed
    <3>1. k \in Nat /\ timer'.number \in Nat
      BY <1>0, <2>3
    <3>2. ~(timer'.number <= k)
      BY <2>4, <3>1
    <3> QED
      BY <2>2, <2>3, <2>4, <3>2
  <2>5. /\ MasterOfDetail(timer'.detail) = m /\ timer'.index = timer.index
        /\ index' = index /\ timer.pc = "row" /\ names' = names /\ returns' = returns
    BY <1>4, <2>1, NextNameStep
  <2>6. InUse(MasterOfDetail(timer.detail), timer.index[MasterOfDetail(timer.detail)], timer.number)'
    BY <2>2, <2>4, <2>5 DEF InUse, MasterOfDetail
  <2>7. (\A n \in Master : InUse(n, timer.index[n], index[n] + 1))'
    BY <2>2, <2>5 DEF IndexInv, InUse
  <2> QED
    BY <2>2, <2>3, <2>5, <2>6, <2>7 DEF IndexInv, MasterOfDetail
<1>5. CASE InsertComposite
  <2>0. PICK d \in Detail, m \in Master, n \in Number :
          d = timer.detail /\ m = MasterOfDetail(timer.detail) /\ n = timer.number
    BY <1>5, InsertStep
  <2>1. /\ timer.index[m] < n /\ InUse(m, timer.index[m], n)
        /\ \A k \in Master : InUse(k, timer.index[k], index[k] + 1)
        /\ <<m, n>> \notin NamesUsed
    BY <1>5, <2>0, InsertStep DEF IndexInv
  <2>2. index[m] < n
    <3>1. index[m] \in Nat /\ n \in Nat /\ ~(n < index[m] + 1)
      BY <1>0, <1>n, <2>1 DEF InUse
    <3> QED
      BY <3>1
  <2>3. /\ index'[m] = n /\ \A k \in Master : k # m => index'[k] = index[k]
        /\ names' = names \cup {<<m, n, d>>} /\ timer'.index = timer.index
        /\ timer'.pc = "row" /\ timer'.view = None /\ returns' = Outdated(returns, m)
    BY <1>0, <1>5, <2>0, InsertStep
  <2>4. ASSUME NEW e \in Event, Fresh(e)' PROVE returns'[e].index = index'[MasterOf[e]]
    <3>1. Fresh(e) /\ MasterOf[e] # m /\ returns'[e] = returns[e]
      BY <2>3, <2>4, OutdatedStale DEF TypeInv, TypeOK, Fresh
    <3> QED
      BY <2>3, <3>1, EventAssumption DEF IndexInv, Fresh
  <2>5. ASSUME NEW x \in names', x[3] # None PROVE x[2] <= index'[x[1]]
    <3>1. CASE x = <<m, n, d>>
      BY <1>0, <2>3, <3>1
    <3>2. CASE x \in names
      <4>1. x[1] \in Master /\ x[2] \in Number /\ x[2] <= index[x[1]]
        BY <2>5, <3>2 DEF IndexInv, TypeInv, TypeOK
      <4> QED
        <5>1. x[2] \in Nat /\ index[x[1]] \in Nat /\ n \in Nat
          BY <1>0, <1>n, <4>1
        <5>2. CASE x[1] = m
          BY <2>2, <2>3, <4>1, <5>1, <5>2
        <5>3. CASE x[1] # m
          BY <2>3, <4>1, <5>3
        <5> QED
          BY <5>2, <5>3
    <3> QED
      BY <2>3, <3>1, <3>2
  <2>6. <<m, n>> \in NamesUsed' /\ NamesUsed \subseteq NamesUsed'
    <3>1. <<m, n, d>> \in names' /\ <<m, n, d>>[1] = m /\ <<m, n, d>>[2] = n
      BY <2>3
    <3> QED
      BY <3>1, NamesStep DEF NamesUsed
  <2>7. ASSUME NEW k \in Master, NEW i \in Number, timer.index[k] < i, i < index'[k] + 1
        PROVE  <<k, i>> \in NamesUsed'
    BY <1>0, <2>1, <2>3, <2>6, <2>7 DEF InUse
  <2> QED
    BY <2>3, <2>4, <2>5, <2>7 DEF IndexInv, InUse, Fresh
<1> QED
  BY <1>1, <1>2, <1>3, <1>4, <1>5 DEF Next, MainLoop, RecurseFactors, Other

(* A composite factor has one composite of its own exactly if it is marked, *)
(* and on PostgreSQL RecurseIndex covers the names (RecurseFactors).        *)
THEOREM RecursedCorrect == Spec => []RecursedOnce
<1>1. Init => RecurseInv
  BY DEF Init, RecurseInv, MadeInv, MadeOf, IndexInv, Asleep, Idle
<1>2. TypeInv /\ RecurseInv /\ [Next]_vars => RecurseInv'
  <2> SUFFICES ASSUME TypeInv, RecurseInv, [Next]_vars PROVE RecurseInv'
    OBVIOUS
  <2>1. CASE Next
    BY <2>1, MadeInvNext, IndexInvNext, NamesStep DEF RecurseInv
  <2>2. CASE UNCHANGED vars
    <3>1. UNCHANGED <<timer, recursed, names, index, returns, postgres>>
      BY <2>2 DEF vars, tables
    <3>2. NamesUsed' = NamesUsed
      BY <3>1 DEF NamesUsed
    <3> QED
      BY <3>1, <3>2 DEF RecurseInv, MadeInv, MadeOf, IndexInv, InUse
  <2> QED
    BY <2>1, <2>2
<1>3. TypeInv /\ RecurseInv => RecursedOnce
  <2> SUFFICES ASSUME RecurseInv PROVE RecursedOnce
    OBVIOUS
  <2>1. ASSUME NEW d \in Detail PROVE Cardinality(MadeOf(d)) = IF d \in recursed THEN 1 ELSE 0
    <3>1. CASE d \in recursed
      <4>1. PICK x : MadeOf(d) = {x}
        BY <3>1 DEF RecurseInv, MadeInv
      <4> QED
        BY <3>1, <4>1, FS_Singleton
    <3>2. CASE d \notin recursed
      BY <3>2, FS_EmptySet DEF RecurseInv, MadeInv
    <3> QED
      BY <3>1, <3>2
  <2> QED
    BY <2>1 DEF RecurseInv, IndexInv, RecursedOnce
<1> QED
  BY <1>1, <1>2, <1>3, TypeInvInit, TypeInvNext, PTL DEF Spec
=============================================================================
