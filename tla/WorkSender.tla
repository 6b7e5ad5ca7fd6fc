----------------------------- MODULE WorkSender -----------------------------
(***************************************************************************)
(* Handing out work: one helper thread per client runs WorkSender, which   *)
(* looks for a composite in a loop over a cursor (SendUsingStrategy),      *)
(* sends it and records it (SendWorkUnit), while a keep-alive thread of    *)
(* its own shares its socket; and WorkUnit::GetWorkUnitFromServer, the     *)
(* client that reads the lines.                                            *)
(*                                                                         *)
(* Which B1 and how many curves a composite gets is module WorkChoice.  The*)
(* strategies only order the rows, and so say which are the first hundred: *)
(* any order is allowed here, another one at every selection too.          *)
(***************************************************************************)
EXTENDS Integers, Sequences, FiniteSets

CONSTANTS
  Thread,         \* helper threads, each with its client
  Candidate,      \* the composites
  Returned,       \* SUBSET Candidate: other clients return work of these
  InsertOutcomes, \* whether the INSERT into PendingWork can succeed, or fail
  Postgres,       \* UPDATE of a row that was changed meanwhile is an error
  CursorLimit,    \* "limit 100" of the SELECT
  SureAfter,      \* passes over the cursor until every row is selected
  MaxKeepAlive,   \* [Thread -> bound on the keep-alive lines of its session]
  Impatient,      \* threads whose client may stop waiting
  None

ASSUME OutcomeAssumption ==
  /\ InsertOutcomes \subseteq BOOLEAN /\ InsertOutcomes # {}
  /\ Postgres \in BOOLEAN

ASSUME BoundAssumption ==
  /\ CursorLimit \in Nat \ {0} /\ SureAfter \in Nat
  /\ MaxKeepAlive \in [Thread -> Nat] /\ Impatient \subseteq Thread

ASSUME NameAssumption ==
  /\ None \notin Candidate \cup Thread
  /\ Returned \subseteq Candidate
  /\ Candidate \cap {"", "keepalive", "torn", "INFO", "End of Message"} = {}

VARIABLES
  rows,      \* active composites without a factor
  finished,  \* composites with no ECM work left in the range of B1
  pending,   \* PendingWork: <<client, composite>>
  overlooked, \* history: the <<client, composite>> whose COMMIT failed unnoticed
  up,        \* the server runs
  locker,    \* the thread that holds the lock of ip_TotalWorkSent
  sender,    \* [Thread -> its local variables and transaction]
  waiter,    \* [Thread -> the value the two threads share]
  keeper,    \* [Thread -> where the keep-alive thread is]
  kept,      \* [Thread -> keep-alive lines it sent], at most MaxKeepAlive[t]
  buffer,    \* [Thread -> is_TempSendBuffer of the socket]
  wire,      \* [Thread -> lines on the way to the client]
  client,    \* [Thread -> what its client does]
  held       \* [Thread -> the composite its client works on]

tables == <<rows, finished, pending, overlooked>>
shared == <<up, locker>>
alive  == <<waiter, keeper, kept>>
line   == <<buffer, wire>>
far    == <<client, held>>
vars   == <<tables, shared, sender, alive, line, far>>

NoText == ""
Text   == Candidate \cup {"keepalive", "torn", "INFO", "End of Message"}

(* A transaction sees the tables as they were when it began; stale are the  *)
(* composites whose row somebody committed a change to since.               *)
View   == [rows : SUBSET Candidate, finished : SUBSET Candidate]
Sender == [pc : {"asked", "select", "fetch", "put", "record", "stop", "answer", "done"},
           view : View \cup {None}, stale : SUBSET Candidate,
           cursor : SUBSET Candidate, noWork : SUBSET Candidate,
           pass : 0..SureAfter, unit : Candidate \cup {None}]

Init ==
  /\ rows = Candidate /\ finished = {} /\ pending = {} /\ overlooked = {}
  /\ up = TRUE /\ locker = None
  /\ sender = [t \in Thread |-> [pc |-> "asked", view |-> None, stale |-> {}, cursor |-> {},
                                 noWork |-> {}, pass |-> 0, unit |-> None]]
  /\ waiter = [t \in Thread |-> "none"]
  /\ keeper = [t \in Thread |-> "none"]
  /\ kept = [t \in Thread |-> 0]
  /\ buffer = [t \in Thread |-> NoText]
  /\ wire = [t \in Thread |-> <<>>]
  /\ client = [t \in Thread |-> "asking"]
  /\ held = [t \in Thread |-> None]

At(t, pc)  == up /\ sender[t].pc = pc
Now        == [rows |-> rows, finished |-> finished]
ViewOf(t)  == IF sender[t].view = None THEN Now ELSE sender[t].view

(* Every transaction under way learns that the row of c has changed.        *)
Touch(f, c) == [t \in Thread |-> IF f[t].view = None THEN f[t]
                                 ELSE [f[t] EXCEPT !.stale = @ \cup {c}]]

-----------------------------------------------------------------------------
(* Socket::Send formats into the one buffer of the socket, without a lock,  *)
(* and then sends what it finds there: into a buffer that the other thread  *)
(* is using, the two lines can also come out mixed.                         *)
Formatted(t, text) ==
  \E b \in IF buffer[t] = NoText THEN {text} ELSE {text, "torn"} :
    buffer' = [buffer EXCEPT ![t] = b]

(* SendBuffer sends nothing from an empty buffer, or to a client that went  *)
(* away; it leaves the buffer empty.                                        *)
PutBuffer(t) ==
  /\ wire' = IF buffer[t] = NoText \/ client[t] = "gone" THEN wire
             ELSE [wire EXCEPT ![t] = Append(@, buffer[t])]
  /\ buffer' = [buffer EXCEPT ![t] = NoText]

-----------------------------------------------------------------------------
(* The sender. *)
StartKeepAlive(t) ==
  /\ At(t, "asked")
  /\ waiter' = [waiter EXCEPT ![t] = "waiting"]
  /\ keeper' = [keeper EXCEPT ![t] = "sleeping"]
  /\ sender' = [sender EXCEPT ![t].pc = "select"]
  /\ UNCHANGED <<tables, shared, kept, line, far>>

(* What may stand at the front of the ordered composites S.                 *)
Front(S) == IF Cardinality(S) <= CursorLimit THEN {S}
            ELSE {F \in SUBSET S : Cardinality(F) = CursorLimit}

(* The first FetchRow executes the SELECT; without rows the loop ends.      *)
OpenCursor(t) ==
  LET v == ViewOf(t) IN
  /\ At(t, "select")
  /\ \E F \in Front(v.rows) : sender' = [sender EXCEPT ![t] =
       [sender[t] EXCEPT !.pc = IF F = {} THEN "stop" ELSE "fetch",
                 !.view = v, !.cursor = F, !.noWork = v.finished]]
  /\ UNCHANGED <<tables, shared, alive, line, far>>

(* Chance passes a row over; with every pass it is 10% less likely to.      *)
SkipRow(t) ==
  /\ At(t, "fetch")
  /\ sender[t].pass < SureAfter
  /\ \E c \in sender[t].cursor : sender' = [sender EXCEPT ![t].cursor = @ \ {c}]
  /\ UNCHANGED <<tables, shared, alive, line, far>>

(* SendWork finds all ECM work done and the transaction is rolled back.     *)
NoWorkForRow(t) ==
  /\ At(t, "fetch")
  /\ locker = None
  /\ \E c \in sender[t].cursor \cap sender[t].noWork :
       sender' = [sender EXCEPT ![t] = [sender[t] EXCEPT !.cursor = @ \ {c}, !.view = None, !.stale = {}]]
  /\ UNCHANGED <<tables, shared, alive, line, far>>

(* SendWork under the lock of ip_TotalWorkSent: formats the line.           *)
PickRow(t) ==
  /\ At(t, "fetch")
  /\ locker = None
  /\ \E c \in sender[t].cursor \ sender[t].noWork :
       /\ sender' = [sender EXCEPT ![t] = [sender[t] EXCEPT !.pc = "put", !.unit = c, !.view = ViewOf(t),
                                               !.cursor = {}, !.noWork = {}]]
       /\ Formatted(t, c)
  /\ locker' = t
  /\ UNCHANGED <<tables, up, alive, wire, far>>

(* Defect: a pass counts twice. *)
MoreLikelyTwice(pass) == IF pass < SureAfter THEN pass + 2 ELSE pass

(* Defect: the chance stays as it is. *)
AsLikely(pass) == pass

MoreLikely(pass) == IF pass < SureAfter THEN pass + 1 ELSE pass

(* The cursor is at its end: once more, with a higher chance.               *)
NextPass(t) ==
  /\ At(t, "fetch")
  /\ sender[t].cursor = {}
  /\ sender' = [sender EXCEPT ![t] = [sender[t] EXCEPT !.pc = "select", !.pass = MoreLikely(@)]]
  /\ UNCHANGED <<tables, shared, alive, line, far>>

PutWork(t) ==
  /\ At(t, "put")
  /\ PutBuffer(t)
  /\ sender' = [sender EXCEPT ![t].pc = "record"]
  /\ UNCHANGED <<tables, shared, alive, far>>

(* Defect: nothing is committed. *)
RecordedNever(t) == pending

Recorded(t) == pending \cup {<<t, sender[t].unit>>}

(* INSERT into PendingWork, UPDATE of LastSendTime, COMMIT.  A COMMIT that  *)
(* fails is only logged: the sender goes on, with nothing recorded.         *)
RecordWork(t) ==
  LET sent == [sender[t] EXCEPT !.pc = "stop", !.view = None, !.stale = {}] IN
  /\ At(t, "record")
  /\ TRUE \in InsertOutcomes
  /\ ~(Postgres /\ sender[t].unit \in sender[t].stale)
  /\ \/ /\ pending' = Recorded(t)
        /\ sender' = [Touch(sender, sender[t].unit) EXCEPT ![t] = sent]
        /\ UNCHANGED overlooked
     \/ /\ overlooked' = overlooked \cup {<<t, sender[t].unit>>}
        /\ sender' = [sender EXCEPT ![t] = sent]
        /\ UNCHANGED pending
  /\ locker' = None
  /\ UNCHANGED <<rows, finished, up, alive, line, far>>

(* If either statement fails the server exits.                              *)
RecordFails(t) ==
  /\ At(t, "record")
  /\ \/ FALSE \in InsertOutcomes
     \/ Postgres /\ sender[t].unit \in sender[t].stale
  /\ up' = FALSE
  /\ UNCHANGED <<tables, locker, sender, alive, line, far>>

(* Defect: the sender does not wait for the answer. *)
SeesTerminate(t) == waiter[t] # "waiting"

SeesTerminated(t) == waiter[t] = "terminated"

(* One round of the loop that ends the keep-alive thread, under its lock.   *)
StopKeepAlive(t) ==
  /\ At(t, "stop")
  /\ keeper[t] # "sending"
  /\ IF SeesTerminated(t)
     THEN sender' = [sender EXCEPT ![t].pc = "answer"] /\ UNCHANGED waiter
     ELSE waiter' = [waiter EXCEPT ![t] = "terminate"] /\ UNCHANGED sender
  /\ UNCHANGED <<tables, shared, keeper, kept, line, far>>

(* INFO if nothing was sent, and End of Message.                            *)
Answer(t) ==
  /\ At(t, "answer")
  /\ wire' = IF client[t] = "gone" THEN wire
             ELSE [wire EXCEPT ![t] = @ \o (IF sender[t].unit = None THEN <<"INFO">> ELSE <<>>)
                                        \o <<"End of Message">>]
  /\ sender' = [sender EXCEPT ![t].pc = "done"]
  /\ UNCHANGED <<tables, shared, alive, buffer, far>>

-----------------------------------------------------------------------------
(* The keep-alive thread wakes every second and takes the lock; every       *)
(* fourth time it sends a line, unless it is told to end.                   *)
KeepAliveWakes(t) ==
  /\ up
  /\ keeper[t] = "sleeping"
  /\ IF waiter[t] = "waiting"
     THEN /\ kept[t] < MaxKeepAlive[t]
          /\ Formatted(t, "keepalive")
          /\ keeper' = [keeper EXCEPT ![t] = "sending"]
          /\ kept' = [kept EXCEPT ![t] = @ + 1]
     ELSE keeper' = [keeper EXCEPT ![t] = "leaving"] /\ UNCHANGED <<kept, buffer>>
  /\ UNCHANGED <<tables, shared, sender, waiter, wire, far>>

PutKeepAlive(t) ==
  /\ up
  /\ keeper[t] = "sending"
  /\ PutBuffer(t)
  /\ keeper' = [keeper EXCEPT ![t] = "sleeping"]
  /\ UNCHANGED <<tables, shared, sender, waiter, kept, far>>

KeepAliveEnds(t) ==
  /\ up
  /\ keeper[t] = "leaving"
  /\ keeper' = [keeper EXCEPT ![t] = "ended"]
  /\ waiter' = [waiter EXCEPT ![t] = "terminated"]
  /\ UNCHANGED <<tables, shared, sender, kept, line, far>>

-----------------------------------------------------------------------------
(* The client takes work lines; any other line, one it cannot parse too,    *)
(* ends its request, and what follows is printed as the greeting.           *)
ReadLine(t) ==
  LET text == Head(wire[t]) IN
  /\ client[t] = "asking"
  /\ wire[t] # <<>>
  /\ IF text \in Candidate
     THEN /\ held' = [held EXCEPT ![t] = text]
          /\ wire' = [wire EXCEPT ![t] = Tail(@)]
          /\ UNCHANGED client
     ELSE /\ client' = [client EXCEPT ![t] = "gone"]
          /\ wire' = [wire EXCEPT ![t] = <<>>]
          /\ UNCHANGED held
  /\ UNCHANGED <<tables, shared, sender, alive, buffer>>

ClientTimesOut(t) ==
  /\ t \in Impatient
  /\ client[t] = "asking"
  /\ wire[t] = <<>>
  /\ client' = [client EXCEPT ![t] = "gone"]
  /\ UNCHANGED <<tables, shared, sender, alive, line, held>>

(* Returns of other clients complete the ECM work of a composite, or report *)
(* a factor of it; their transactions write its row.                        *)
OthersReturn(c) ==
  /\ up
  /\ c \in rows
  /\ \/ c \notin finished /\ finished' = finished \cup {c} /\ UNCHANGED rows
     \/ rows' = rows \ {c} /\ UNCHANGED finished
  /\ sender' = Touch(sender, c)
  /\ UNCHANGED <<pending, overlooked, shared, alive, line, far>>

Select(t) == OpenCursor(t) \/ SkipRow(t) \/ NoWorkForRow(t) \/ PickRow(t) \/ NextPass(t)
Finish(t) == PutWork(t) \/ RecordWork(t) \/ RecordFails(t) \/ StopKeepAlive(t) \/ Answer(t)
Send(t)   == StartKeepAlive(t) \/ Select(t) \/ Finish(t)
Keep(t)   == KeepAliveWakes(t) \/ PutKeepAlive(t) \/ KeepAliveEnds(t)

Next ==
  \/ \E t \in Thread : Send(t) \/ Keep(t) \/ ReadLine(t) \/ ClientTimesOut(t)
  \/ \E c \in Returned : OthersReturn(c)

Spec == Init /\ [][Next]_vars

(* The operating system runs both threads; the keep-alive thread sleeps     *)
(* without the lock, so the sender gets it.                                 *)
FairSpec == Spec /\ \A t \in Thread : WF_vars(Send(t)) /\ WF_vars(Keep(t))

-----------------------------------------------------------------------------
(* Every variable has its type. *)
TypeOK ==
  /\ rows \subseteq Candidate /\ finished \subseteq Candidate
  /\ pending \subseteq Thread \X Candidate /\ overlooked \subseteq Thread \X Candidate
  /\ up \in BOOLEAN /\ locker \in Thread \cup {None}
  /\ sender \in [Thread -> Sender]
  /\ waiter \in [Thread -> {"none", "waiting", "terminate", "terminated"}]
  /\ keeper \in [Thread -> {"none", "sleeping", "sending", "leaving", "ended"}]
  /\ kept \in [Thread -> Nat] /\ \A t \in Thread : kept[t] <= MaxKeepAlive[t]
  /\ buffer \in [Thread -> Text \cup {NoText}]
  /\ wire \in [Thread -> Seq(Text)]
  /\ client \in [Thread -> {"asking", "gone"}]
  /\ held \in [Thread -> Candidate \cup {None}]

(* "When we know that the keepalive thread has terminated, we can then exit *)
(* this loop and delete the memory": after the loop that thread uses        *)
(* neither the socket nor the value any more.                               *)
KeepAliveStopped ==
  \A t \in Thread : sender[t].pc \in {"answer", "done"} => keeper[t] = "ended"

(* Thread t is sending a unit.  Its keep-alive thread can be the one that   *)
(* sends the line it has formatted.                                         *)
Sending(t) == sender[t].pc \in {"put", "record"}

(* "insert a record into PendingWork so that we can track who has an active *)
(* factoring assignment": a unit a client holds has its record as soon as   *)
(* the sending of it is over, on a server that still runs.  Only a COMMIT   *)
(* for this very unit that failed unnoticed leaves it untracked, not one    *)
(* for another client or another composite.                                 *)
HeldIsTracked ==
  \A t \in Thread : held[t] # None /\ up /\ ~Sending(t) =>
    <<t, held[t]>> \in pending \cup overlooked

(* There are enough composites without ECM work left to fill a selection:   *)
(* the SELECT looks at factors, not at the work that is left.               *)
NothingToDo == \E F \in Front(rows) : F # {} /\ F \subseteq finished

(* A request is answered whatever other clients return, however chance      *)
(* chooses and whatever the keep-alive thread does, unless the server exits *)
(* or finished composites alone can be what is selected, for ever.  So one  *)
(* composite with work is found as long as fewer than CursorLimit finished  *)
(* ones stand in front of it.                                               *)
EventuallyAnswered ==
  \A t \in Thread : <>(sender[t].pc = "done" \/ ~up) \/ <>[]NothingToDo
=============================================================================
