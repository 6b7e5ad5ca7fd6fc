---------------------------- MODULE ReturnSession ----------------------------
(***************************************************************************)
(* Returning work units: the client's side (Work::ReturnWork,              *)
(* WorkUnit::ReturnWorkUnit, the save file) and the protocol side of the   *)
(* server (WorkReceiver::ProcessMessage; its database is module            *)
(* WorkReceiver), over one connection per session.                         *)
(*                                                                         *)
(* The client sends all the lines of a unit, then reads ONE line as the    *)
(* answer, waiting ten seconds at most.  The server sends "Accepted Work"  *)
(* when a unit is committed, one or more lines "ERROR" for a unit it       *)
(* refuses, and nothing for a unit whose transaction fails; it gives up    *)
(* after two seconds without a line.  A session of the server may outlive  *)
(* the client's: the client then returns the units again in a new one.     *)
(* COMMIT has no result: a unit is accepted also when it failed.           *)
(*                                                                         *)
(* The units of one client are for different composites, so that the name  *)
(* in a line identifies the unit.                                          *)
(***************************************************************************)
EXTENDS Naturals, Sequences

CONSTANTS
  Unit,         \* work units
  Batches,      \* the runs of GETWORK replies: sequences of sequences of units
  Refused,      \* SUBSET Unit: not found on the server, or with another value
  Factored,     \* SUBSET Unit: with a factor, sent as an event and two details
  Untouched,    \* SUBSET Unit: without a curve done, to be abandoned
  MaxSession,   \* bound on the sessions the client opens
  MaxTrouble    \* bound on crashes, lost connections, time-outs and failures

Session == 1..MaxSession

ASSUME SessionAssumption ==
  /\ Batches \subseteq Seq(Seq(Unit) \ {<<>>})
  /\ Refused \subseteq Unit
  /\ Factored \subseteq Unit
  /\ Untouched \subseteq Unit
  /\ MaxSession \in Nat
  /\ MaxTrouble \in Nat

None == "none"  \* no unit

ASSUME NoneAssumption == None \notin Unit

(* No unit is handed out twice, in two replies or in one.                   *)
ASSUME BatchAssumption ==
  /\ Batches # {}
  /\ \A run \in Batches : \A i, j \in DOMAIN run :
       \A k \in DOMAIN run[i], l \in DOMAIN run[j] : run[i][k] = run[j][l] => i = j /\ k = l

VARIABLES
  cpc,      \* where the client stands
  mem,      \* im_FirstWorkUnit: the units to keep
  todo,     \* in ReturnWork: the unit being returned and those after it
  file,     \* the units in the save file, empty as well if there is none
  fetched,  \* the batches received so far, the start of one of Batches
  session,  \* number of the client's latest session
  c2s,      \* [Session -> lines on their way to the server]
  s2c,      \* [Session -> lines on their way to the client]
  srv,      \* [Session -> the helper thread's state]
  link,     \* [Session -> the connection stands]
  counted,  \* [Unit -> Nat], the transactions committed for the unit
  waived,   \* units a failure took: accepted without a COMMIT, or cut from the file (history)
  trouble   \* failures so far, at most MaxTrouble

clientVars == <<cpc, mem, todo, file, fetched, session>>
vars == <<cpc, mem, todo, file, fetched, session, c2s, s2c, srv, link, counted, waived, trouble>>

Line   == [type : {"Return", "Factor", "End", "Abandon"}, unit : Unit]
          \cup [type : {"EndOfReturn"}]
Answer == [type : {"Accepted"}, unit : Unit] \cup [type : {"ERROR", "INFO", "EndOfMessage"}]

(* A helper thread in ProcessMessage: the unit of the open transaction      *)
(* (ip_MasterComposite is set), "success", and the unit goodMessage names.  *)
Helper == [pc : {"none", "reading", "closed"}, open : Unit \cup {None},
           success : BOOLEAN, good : Unit \cup {None}]

FreshHelper == [pc |-> "reading", open |-> None, success |-> TRUE, good |-> None]

UnitsOf(q) == {q[i] : i \in DOMAIN q}

Init ==
  /\ cpc = "idle"
  /\ mem = <<>> /\ todo = <<>> /\ file = <<>>
  /\ fetched = <<>>
  /\ session = 0
  /\ c2s = [n \in Session |-> <<>>]
  /\ s2c = [n \in Session |-> <<>>]
  /\ srv = [n \in Session |-> [FreshHelper EXCEPT !.pc = "none"]]
  /\ link = [n \in Session |-> FALSE]
  /\ counted = [u \in Unit |-> 0]
  /\ waived = {}
  /\ trouble = 0

Trouble == trouble < MaxTrouble /\ trouble' = trouble + 1

-----------------------------------------------------------------------------
(***************************************************************************)
(* The client.                                                             *)
(***************************************************************************)
(* What the client sends arrives if the connection stands and the thread is *)
(* there to read it.                                                        *)
ToServer(lines) ==
  c2s' = IF link[session] /\ srv[session].pc = "reading"
         THEN [c2s EXCEPT ![session] = @ \o lines] ELSE c2s

LinesOf(u) ==
  <<[type |-> "Return", unit |-> u]>>
  \o (IF u \in Factored THEN [i \in 1..3 |-> [type |-> "Factor", unit |-> u]] ELSE <<>>)
  \o <<[type |-> "End", unit |-> u]>>

(* All that will ever come has come. *)
Over(n) == ~link[n] \/ srv[n].pc = "closed"

(* Nothing came in time, though the server still has lines to work on. *)
TooLate(n) == s2c[n] = <<>> /\ c2s[n] # <<>> /\ srv[n].pc = "reading"

(* What the server may hand out next. *)
Delivered ==
  {run[Len(fetched) + 1] :
     run \in {b \in Batches : Len(b) > Len(fetched) /\ SubSeq(b, 1, Len(fetched)) = fetched}}

Prefixes(q) == {SubSeq(q, 1, i) : i \in 0..Len(q)}

(* Work::GetWork: only when no unit is left, and the units are saved. *)
GetWork ==
  /\ cpc = "idle" /\ mem = <<>>
  /\ \E units \in Delivered : fetched' = Append(fetched, units) /\ mem' = units
  /\ cpc' = "saving"
  /\ file' = <<>>
  /\ UNCHANGED <<todo, session, c2s, s2c, srv, link, counted, waived, trouble>>

(* Work::Save, after another curve or when the client stops: nothing is     *)
(* written when there is no unit.  Opening the file empties it.             *)
Save ==
  /\ cpc = "idle" /\ mem # <<>>
  /\ cpc' = "saving"
  /\ file' = <<>>
  /\ UNCHANGED <<mem, todo, fetched, session, c2s, s2c, srv, link, counted, waived, trouble>>

(* Its lines are written, and are there for certain once it is closed. *)
WriteFile ==
  /\ cpc = "saving"
  /\ file' = mem
  /\ cpc' = "idle"
  /\ UNCHANGED <<mem, todo, fetched, session, c2s, s2c, srv, link, counted, waived, trouble>>

(* Work::ReturnWork: connect, "Start Return", and detach the list of units. *)
ReturnWork ==
  /\ cpc = "idle" /\ mem # <<>>
  /\ session < MaxSession
  /\ session' = session + 1
  /\ cpc' = "returning"
  /\ todo' = mem
  /\ mem' = <<>>
  /\ srv' = [srv EXCEPT ![session'] = FreshHelper]
  /\ link' = [link EXCEPT ![session'] = TRUE]
  /\ UNCHANGED <<file, fetched, c2s, s2c, counted, waived, trouble>>

(* A unit without a curve is abandoned and forgotten. *)
SendAbandon ==
  /\ cpc = "returning" /\ todo # <<>>
  /\ Head(todo) \in Untouched
  /\ ToServer(<<[type |-> "Abandon", unit |-> Head(todo)]>>)
  /\ todo' = Tail(todo)
  /\ UNCHANGED <<cpc, mem, file, fetched, session, s2c, srv, link, counted, waived, trouble>>

SendUnit ==
  /\ cpc = "returning" /\ todo # <<>>
  /\ Head(todo) \notin Untouched
  /\ ToServer(LinesOf(Head(todo)))
  /\ cpc' = "waiting"
  /\ UNCHANGED <<mem, todo, file, fetched, session, s2c, srv, link, counted, waived, trouble>>

(* Defect: the unit is freed and queued. *)
ReadAnswerDeleted ==
  /\ cpc = "waiting" /\ s2c[session] # <<>>
  /\ mem' = IF Head(s2c[session]) = [type |-> "Accepted", unit |-> Head(todo)]
            THEN mem ELSE Append(mem, None)
  /\ todo' = Tail(todo)
  /\ s2c' = [s2c EXCEPT ![session] = Tail(@)]
  /\ cpc' = "returning"
  /\ UNCHANGED <<file, fetched, session, c2s, srv, link, counted, waived, trouble>>

(* Defect: the answer is not looked at. *)
ReadAnswerNever ==
  /\ cpc = "waiting" /\ s2c[session] # <<>>
  /\ mem' = Append(mem, Head(todo))
  /\ todo' = Tail(todo)
  /\ s2c' = [s2c EXCEPT ![session] = Tail(@)]
  /\ cpc' = "returning"
  /\ UNCHANGED <<file, fetched, session, c2s, srv, link, counted, waived, trouble>>

(* Defect: whose unit is accepted is not looked at. *)
ReadAnswerOfAny ==
  /\ cpc = "waiting" /\ s2c[session] # <<>>
  /\ mem' = IF Head(s2c[session]).type = "Accepted" THEN mem ELSE Append(mem, Head(todo))
  /\ todo' = Tail(todo)
  /\ s2c' = [s2c EXCEPT ![session] = Tail(@)]
  /\ cpc' = "returning"
  /\ UNCHANGED <<file, fetched, session, c2s, srv, link, counted, waived, trouble>>

(* The next line is the answer: the unit is deleted when it is exactly      *)
(* "Accepted Work for" this unit and queued again otherwise.                *)
ReadAnswer ==
  /\ cpc = "waiting" /\ s2c[session] # <<>>
  /\ mem' = IF Head(s2c[session]) = [type |-> "Accepted", unit |-> Head(todo)]
            THEN mem ELSE Append(mem, Head(todo))
  /\ todo' = Tail(todo)
  /\ s2c' = [s2c EXCEPT ![session] = Tail(@)]
  /\ cpc' = "returning"
  /\ UNCHANGED <<file, fetched, session, c2s, srv, link, counted, waived, trouble>>

(* Defect: the unit is not queued again. *)
NoAnswerDropped ==
  /\ cpc = "waiting"
  /\ \/ s2c[session] = <<>> /\ Over(session) /\ UNCHANGED trouble
     \/ TooLate(session) /\ Trouble
  /\ mem' = mem
  /\ todo' = Tail(todo)
  /\ cpc' = "returning"
  /\ UNCHANGED <<file, fetched, session, c2s, s2c, srv, link, counted, waived>>

(* Receive returns NULL: the unit is queued again. *)
NoAnswer ==
  /\ cpc = "waiting"
  /\ \/ s2c[session] = <<>> /\ Over(session) /\ UNCHANGED trouble
     \/ TooLate(session) /\ Trouble
  /\ mem' = Append(mem, Head(todo))
  /\ todo' = Tail(todo)
  /\ cpc' = "returning"
  /\ UNCHANGED <<file, fetched, session, c2s, s2c, srv, link, counted, waived>>

EndOfReturn ==
  /\ cpc = "returning" /\ todo = <<>>
  /\ ToServer(<<[type |-> "EndOfReturn"]>>)
  /\ cpc' = "draining"
  /\ UNCHANGED <<mem, todo, file, fetched, session, s2c, srv, link, counted, waived, trouble>>

(* Defect: the save file never goes. *)
CloseKeepingFile ==
  /\ cpc = "draining"
  /\ \/ Over(session) /\ UNCHANGED trouble
     \/ TooLate(session) /\ Trouble
  /\ s2c' = [s2c EXCEPT ![session] = <<>>]
  /\ link' = [link EXCEPT ![session] = FALSE]
  /\ file' = file
  /\ cpc' = "idle"
  /\ UNCHANGED <<mem, todo, fetched, session, c2s, srv, counted, waived>>

(* The remaining lines are logged up to "End of Message", the last line of  *)
(* the session; the save file goes when no unit is left.                    *)
Close ==
  /\ cpc = "draining"
  /\ \/ Over(session) /\ UNCHANGED trouble
     \/ TooLate(session) /\ Trouble
  /\ s2c' = [s2c EXCEPT ![session] = <<>>]
  /\ link' = [link EXCEPT ![session] = FALSE]
  /\ file' = IF mem = <<>> THEN <<>> ELSE file
  /\ cpc' = "idle"
  /\ UNCHANGED <<mem, todo, fetched, session, c2s, srv, counted, waived>>

(* The client dies; what it sent is still delivered.  While it writes its   *)
(* file only the units written so far are there.                            *)
Crash ==
  /\ cpc # "down" /\ Trouble
  /\ cpc' = "down"
  /\ mem' = <<>> /\ todo' = <<>>
  /\ link' = IF session = 0 THEN link ELSE [link EXCEPT ![session] = FALSE]
  /\ s2c' = IF session = 0 THEN s2c ELSE [s2c EXCEPT ![session] = <<>>]
  /\ \/ /\ cpc = "saving"
        /\ file' \in Prefixes(mem)
        /\ waived' = waived \cup (UnitsOf(mem) \ UnitsOf(file'))
     \/ cpc # "saving" /\ UNCHANGED <<file, waived>>
  /\ UNCHANGED <<fetched, session, c2s, srv, counted>>

(* Work::Load. *)
Restart ==
  /\ cpc = "down"
  /\ mem' = file
  /\ cpc' = "idle"
  /\ UNCHANGED <<todo, file, fetched, session, c2s, s2c, srv, link, counted, waived, trouble>>

-----------------------------------------------------------------------------
(***************************************************************************)
(* The network and the server.                                             *)
(***************************************************************************)
(* The connection breaks: what is under way may be cut off anywhere. *)
LoseConnection(n) ==
  /\ link[n] /\ Trouble
  /\ link' = [link EXCEPT ![n] = FALSE]
  /\ \E up \in Prefixes(c2s[n]), down \in Prefixes(s2c[n]) :
       c2s' = [c2s EXCEPT ![n] = up] /\ s2c' = [s2c EXCEPT ![n] = down]
  /\ UNCHANGED <<clientVars, srv, counted, waived>>

Reading(n, type) ==
  srv[n].pc = "reading" /\ c2s[n] # <<>> /\ Head(c2s[n]).type = type

Consume(n) == c2s' = [c2s EXCEPT ![n] = Tail(@)]

ToClient(n, lines) ==
  s2c' = IF link[n] THEN [s2c EXCEPT ![n] = @ \o lines] ELSE s2c

(* "Return Work for": an open transaction is rolled back.  ProcessWork      *)
(* refuses the unit, fails without a line, or succeeds.                     *)
ReceiveReturn(n) ==
  LET u == Head(c2s[n]).unit
      Begun(ok) == srv' = [srv EXCEPT ![n] =
                     [pc |-> "reading", open |-> u, success |-> ok,
                      good |-> IF ok THEN u ELSE None]]
  IN
  /\ Reading(n, "Return")
  /\ Consume(n)
  /\ \/ /\ u \in Refused
        /\ Begun(FALSE)
        /\ ToClient(n, <<[type |-> "ERROR"]>>)
        /\ UNCHANGED trouble
     \/ u \notin Refused /\ Begun(TRUE) /\ UNCHANGED <<s2c, trouble>>
     \/ u \notin Refused /\ Begun(FALSE) /\ Trouble /\ UNCHANGED s2c
  /\ UNCHANGED <<clientVars, link, counted, waived>>

(* "Return Factor Event" and "... Detail", while all went well so far. *)
ReceiveFactor(n) ==
  /\ Reading(n, "Factor") /\ srv[n].success
  /\ Consume(n)
  /\ UNCHANGED <<clientVars, s2c, srv, link, counted, waived, trouble>>

(* EndWork: commit and accept, or roll back in silence when a statement     *)
(* fails, or accept what a failed COMMIT did not keep.                      *)
EndWork(n) ==
  LET u == srv[n].open
      Accept == ToClient(n, <<[type |-> "Accepted", unit |-> u]>>)
  IN
  /\ Reading(n, "End") /\ Head(c2s[n]).unit = srv[n].good
  /\ Consume(n)
  /\ srv' = [srv EXCEPT ![n].open = None]
  /\ u # None
  /\ \/ counted' = [counted EXCEPT ![u] = @ + 1] /\ Accept /\ UNCHANGED <<waived, trouble>>
     \/ Trouble /\ UNCHANGED <<s2c, counted, waived>>
     \/ Trouble /\ Accept /\ waived' = waived \cup {u} /\ UNCHANGED counted
  /\ UNCHANGED <<clientVars, link>>

(* "Abandon Work for": never inside a unit; nothing is answered. *)
ReceiveAbandon(n) ==
  /\ Reading(n, "Abandon")
  /\ Consume(n)
  /\ UNCHANGED <<clientVars, s2c, srv, link, counted, waived, trouble>>

(* Every other line: a factor or an end of a unit that failed before. *)
NotUnderstood(n) ==
  /\ \/ Reading(n, "Factor") /\ ~srv[n].success
     \/ Reading(n, "End") /\ Head(c2s[n]).unit # srv[n].good
  /\ Consume(n)
  /\ srv' = [srv EXCEPT ![n].success = FALSE]
  /\ ToClient(n, <<[type |-> "ERROR"]>>)
  /\ UNCHANGED <<clientVars, link, counted, waived, trouble>>

(* The client will not send another line: it is gone, or waits for an       *)
(* answer that is not there.                                                *)
Idle(n) == ~link[n] \/ (cpc = "waiting" /\ s2c[n] = <<>>)

(* "End of Return Work", or nothing for two seconds: because the client     *)
(* will not send anything, or because it is slow.                           *)
Finish(n) ==
  /\ \/ Reading(n, "EndOfReturn") /\ UNCHANGED trouble
     \/ /\ srv[n].pc = "reading" /\ c2s[n] = <<>>
        /\ \/ Idle(n) /\ UNCHANGED trouble
           \/ ~Idle(n) /\ Trouble
  /\ c2s' = [c2s EXCEPT ![n] = <<>>]
  /\ srv' = [srv EXCEPT ![n] = [FreshHelper EXCEPT !.pc = "closed"]]
  /\ ToClient(n, <<[type |-> "INFO"], [type |-> "EndOfMessage"]>>)
  /\ UNCHANGED <<clientVars, link, counted, waived>>

(* The server exits: every helper thread is gone, every transaction undone. *)
ServerExit ==
  /\ \E n \in Session : srv[n].pc = "reading"
  /\ Trouble
  /\ srv' = [n \in Session |-> IF srv[n].pc = "reading"
                               THEN [FreshHelper EXCEPT !.pc = "closed"] ELSE srv[n]]
  /\ c2s' = [n \in Session |-> <<>>]
  /\ link' = [n \in Session |-> FALSE]
  /\ UNCHANGED <<clientVars, s2c, counted, waived>>

-----------------------------------------------------------------------------
Client == GetWork \/ Save \/ WriteFile \/ ReturnWork \/ SendAbandon \/ SendUnit
          \/ ReadAnswer \/ NoAnswer \/ EndOfReturn \/ Close

Server(n) == ReceiveReturn(n) \/ ReceiveFactor(n) \/ EndWork(n) \/ ReceiveAbandon(n)
             \/ NotUnderstood(n) \/ Finish(n)

Next == \/ Client \/ Crash \/ Restart \/ ServerExit
        \/ \E n \in Session : Server(n) \/ LoseConnection(n)

Spec == Init /\ [][Next]_vars

(* The main loop returns work and asks for more, though it may save the     *)
(* units any number of times in between: once for each curve, and the       *)
(* curves end.  The user starts a client that died again; threads run.      *)
ClientProgress == GetWork \/ ReturnWork \/ SendAbandon \/ SendUnit \/ ReadAnswer
                  \/ NoAnswer \/ EndOfReturn \/ Close \/ Restart

FairSpec == /\ Spec
            /\ SF_vars(ClientProgress)
            /\ WF_vars(WriteFile)
            /\ \A n \in Session : WF_vars(Server(n))

-----------------------------------------------------------------------------
TypeOK ==
  /\ cpc \in {"idle", "saving", "returning", "waiting", "draining", "down"}
  /\ mem \in Seq(Unit) /\ todo \in Seq(Unit) /\ file \in Seq(Unit)
  /\ fetched \in Seq(Seq(Unit))
  /\ \E b \in Batches : Len(fetched) <= Len(b) /\ fetched = SubSeq(b, 1, Len(fetched))
  /\ session \in 0..MaxSession
  /\ c2s \in [Session -> Seq(Line)]
  /\ s2c \in [Session -> Seq(Answer)]
  /\ srv \in [Session -> Helper]
  /\ link \in [Session -> BOOLEAN]
  /\ counted \in [Unit -> Nat]
  /\ waived \subseteq Unit
  /\ trouble \in 0..MaxTrouble

Issued == UNION {UnitsOf(fetched[i]) : i \in DOMAIN fetched}

Held == IF cpc = "down" THEN UnitsOf(file) ELSE UnitsOf(mem) \cup UnitsOf(todo)

Owed == {u \in Issued \ Untouched : counted[u] = 0}

(* A unit is counted once, and once more at most for each failure: one lost *)
(* connection, time-out or crash cannot make the client return a unit for   *)
(* ever (Work::ReturnWork removes what was accepted), as long as none of    *)
(* its units is refused.                                                    *)
OneCountPerFailure ==
  Issued \cap Refused = {} => \A u \in Unit : counted[u] <= 1 + trouble

(* A unit is counted at most once: LocalCurves "is the number of curves     *)
(* done".  The code keeps no record of the units it has counted.            *)
CountedAtMostOnce == \A u \in Unit : counted[u] <= 1

(* A save file is left behind only by a client that still owes its units or *)
(* could not learn that they were counted: after a session without any      *)
(* failure and refusal, nothing is sent again at the next start             *)
(* (the unlink of Work::ReturnWork).                                        *)
NoStaleFile == cpc = "idle" /\ mem = <<>> => file = <<>>

(* The session protocol keeps the promise of the ledger, and of its         *)
(* liveness: every unit that can be accepted is counted in the end, unless  *)
(* a COMMIT that failed or a client that died while it wrote its file took  *)
(* just that unit.                                                          *)
Ledger == INSTANCE WorkLedger
            WITH issued <- Issued, held <- Held, writing <- cpc = "saving", failures <- trouble
LedgerKept == Ledger!LedgerSpec
EveryUnitCounted == Ledger!EveryUnitCounted

(* A client whose units are all acceptable gets rid of them all, and of its *)
(* save file.                                                               *)
ClientEndsEmpty ==
  <>[](\/ Issued \cap Refused # {}
       \/ cpc = "idle" /\ mem = <<>> /\ file = <<>> /\ fetched \in Batches)

(* Returning ends: every unit the server can accept is counted or was taken *)
(* by a failure, and no failure leaves a client without refused units       *)
(* returning for ever.                                                      *)
ReturningEnds == EveryUnitCounted /\ ClientEndsEmpty
=============================================================================
