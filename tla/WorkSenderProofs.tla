-------------------------- MODULE WorkSenderProofs --------------------------
(***************************************************************************)
(* Theorems of WorkSender, for any threads, composites and outcomes of the *)
(* statements.                                                             *)
(***************************************************************************)
EXTENDS WorkSender, TLAPS

USE DEF NoText

LEMMA ViewType ==
  ASSUME TypeOK, NEW t \in Thread
  PROVE  ViewOf(t) \in View
  BY DEF TypeOK, ViewOf, Now, View, Sender

LEMMA TouchType ==
  ASSUME NEW f \in [Thread -> Sender], NEW c \in Candidate
  PROVE  /\ Touch(f, c) \in [Thread -> Sender]
         /\ \A t \in Thread : /\ Touch(f, c)[t].pc = f[t].pc
                              /\ Touch(f, c)[t].unit = f[t].unit
<1>1. ASSUME NEW t \in Thread
      PROVE  /\ Touch(f, c)[t] \in Sender
             /\ Touch(f, c)[t].pc = f[t].pc /\ Touch(f, c)[t].unit = f[t].unit
  BY DEF Touch, Sender
<1> QED
  BY <1>1 DEF Touch

LEMMA FormattedType ==
  ASSUME TypeOK, NEW t \in Thread, NEW text \in Text, Formatted(t, text)
  PROVE  /\ buffer' \in [Thread -> Text \cup {NoText}]
         /\ buffer'[t] \in {text, "torn"}
         /\ \A u \in Thread \ {t} : buffer'[u] = buffer[u]
<1>1. buffer \in [Thread -> Text \cup {NoText}]
  BY DEF TypeOK
<1>2. PICK b \in {text, "torn"} : buffer' = [buffer EXCEPT ![t] = b]
  BY DEF Formatted
<1>3. b \in Text
  BY DEF Text
<1> QED
  BY <1>1, <1>2, <1>3

LEMMA PutBufferType ==
  ASSUME TypeOK, NEW t \in Thread, PutBuffer(t)
  PROVE  /\ buffer' \in [Thread -> Text \cup {NoText}]
         /\ wire' \in [Thread -> Seq(Text)]
<1>1. buffer \in [Thread -> Text \cup {NoText}] /\ wire \in [Thread -> Seq(Text)]
  BY DEF TypeOK
<1>2. buffer' \in [Thread -> Text \cup {NoText}]
  BY <1>1 DEF PutBuffer
<1>3. CASE buffer[t] = NoText \/ client[t] = "gone"
  BY <1>1, <1>2, <1>3 DEF PutBuffer
<1>4. CASE ~(buffer[t] = NoText \/ client[t] = "gone")
  <2>1. wire[t] \in Seq(Text) /\ buffer[t] \in Text
    BY <1>1, <1>4
  <2>2. Append(wire[t], buffer[t]) \in Seq(Text)
    BY <2>1
  <2>3. wire' = [wire EXCEPT ![t] = Append(wire[t], buffer[t])]
    BY <1>4 DEF PutBuffer
  <2> QED
    BY <1>1, <1>2, <2>2, <2>3
<1> QED
  BY <1>3, <1>4

LEMMA OneLine ==
  ASSUME NEW S, NEW x \in S
  PROVE  <<x>> \in Seq(S)
  OBVIOUS

LEMMA NoLine ==
  ASSUME NEW S
  PROVE  <<>> \in Seq(S)
  OBVIOUS

(* The local variables of a sender keep their types in each kind of step.   *)
LEMMA SenderSteps ==
  ASSUME NEW s \in Sender,
         NEW pc \in {"asked", "select", "fetch", "put", "record", "stop", "answer", "done"}
  PROVE  /\ [s EXCEPT !.pc = pc] \in Sender
         /\ [s EXCEPT !.pc = pc].pc = pc
         /\ [s EXCEPT !.pc = pc].unit = s.unit
  BY DEF Sender

LEMMA CursorSteps ==
  ASSUME NEW s \in Sender, NEW c
  PROVE  /\ [s EXCEPT !.cursor = @ \ {c}] \in Sender
         /\ [s EXCEPT !.cursor = @ \ {c}].pc = s.pc
         /\ [s EXCEPT !.cursor = @ \ {c}].unit = s.unit
         /\ [s EXCEPT !.cursor = @ \ {c}, !.view = None, !.stale = {}] \in Sender
         /\ [s EXCEPT !.cursor = @ \ {c}, !.view = None, !.stale = {}].pc = s.pc
         /\ [s EXCEPT !.cursor = @ \ {c}, !.view = None, !.stale = {}].unit = s.unit
  BY DEF Sender

LEMMA PassSteps ==
  ASSUME NEW s \in Sender, NEW p \in 0..SureAfter
  PROVE  LET r == [s EXCEPT !.pc = "select", !.pass = p]
         IN  r \in Sender /\ r.pc = "select" /\ r.unit = s.unit
  BY DEF Sender

LEMMA CommitSteps ==
  ASSUME NEW s \in Sender
  PROVE  LET r == [s EXCEPT !.pc = "stop", !.view = None, !.stale = {}]
         IN  r \in Sender /\ r.pc = "stop" /\ r.unit = s.unit
  BY DEF Sender

-----------------------------------------------------------------------------
(***************************************************************************)
(* Type correctness.                                                       *)
(***************************************************************************)
(* A thread that sends a unit has one. *)
UnitSet(t) == Sending(t) => sender[t].unit # None

TypeInv == TypeOK /\ \A t \in Thread : UnitSet(t)

LEMMA TypeInit == Init => TypeInv
<1> SUFFICES ASSUME Init
             PROVE  TypeInv
  OBVIOUS
<1> DEFINE first == [pc |-> "asked", view |-> None, stale |-> {}, cursor |-> {},
                     noWork |-> {}, pass |-> 0, unit |-> None]
<1>1. first \in Sender
  BY BoundAssumption DEF Sender
<1>2. first.pc = "asked"
  OBVIOUS
<1>3. sender = [t \in Thread |-> first]
  BY DEF Init
<1> HIDE DEF first
<1>4. sender \in [Thread -> Sender] /\ \A t \in Thread : UnitSet(t)
  BY <1>1, <1>2, <1>3 DEF UnitSet, Sending
<1>5. wire \in [Thread -> Seq(Text)]
  <2>1. <<>> \in Seq(Text)
    OBVIOUS
  <2> QED
    BY <2>1 DEF Init
<1>6. buffer \in [Thread -> Text \cup {NoText}] /\ held \in [Thread -> Candidate \cup {None}]
  BY DEF Init
<1>7. kept \in [Thread -> Nat] /\ \A t \in Thread : kept[t] <= MaxKeepAlive[t]
  <2>1. kept = [t \in Thread |-> 0]
    BY DEF Init
  <2>2. \A t \in Thread : MaxKeepAlive[t] \in Nat
    BY BoundAssumption
  <2> QED
    BY <2>1, <2>2
<1> QED
  BY <1>4, <1>5, <1>6, <1>7 DEF Init, TypeInv, TypeOK

(* A step of thread t that changes the local variables of t alone. *)
LEMMA OneSender ==
  ASSUME TypeInv, NEW t \in Thread, NEW r \in Sender, sender' = [sender EXCEPT ![t] = r],
         r.pc \in {"put", "record"} => r.unit # None
  PROVE  /\ sender' \in [Thread -> Sender]
         /\ \A u \in Thread : UnitSet(u)'
<1>1. sender \in [Thread -> Sender]
  BY DEF TypeInv, TypeOK
<1>2. sender'[t] = r /\ \A u \in Thread \ {t} : sender'[u] = sender[u]
  BY <1>1
<1> QED
  BY <1>1, <1>2 DEF TypeInv, UnitSet, Sending

LEMMA TypeNext == TypeInv /\ [Next]_vars => TypeInv'
<1> SUFFICES ASSUME TypeInv, [Next]_vars
             PROVE  TypeInv'
  OBVIOUS
<1> USE DEF tables, shared, alive, line, far
<1>0. /\ TypeOK
      /\ sender \in [Thread -> Sender]
      /\ \A t \in Thread : UnitSet(t)
  BY DEF TypeInv, TypeOK
<1>1. ASSUME NEW t \in Thread, StartKeepAlive(t) PROVE TypeInv'
  <2>1. sender' = [sender EXCEPT ![t] = [sender[t] EXCEPT !.pc = "select"]]
    BY <1>1 DEF StartKeepAlive
  <2>2. sender' \in [Thread -> Sender] /\ \A u \in Thread : UnitSet(u)'
    BY <1>0, <2>1, OneSender, SenderSteps
  <2> QED
    BY <1>0, <1>1, <2>2 DEF TypeInv, TypeOK, StartKeepAlive
<1>2. ASSUME NEW t \in Thread, OpenCursor(t) PROVE TypeInv'
  <2> DEFINE v == ViewOf(t)
  <2>1. v \in View
    BY <1>0, ViewType
  <2>2. PICK F \in Front(v.rows) : sender' = [sender EXCEPT ![t] = [sender[t] EXCEPT
          !.pc = IF F = {} THEN "stop" ELSE "fetch", !.view = v, !.cursor = F, !.noWork = v.finished]]
    BY <1>2 DEF OpenCursor
  <2> DEFINE pc == IF F = {} THEN "stop" ELSE "fetch"
  <2>3. pc \in {"stop", "fetch"} /\ F \in SUBSET Candidate
    BY <2>1 DEF Front, View
  <2>r. sender' = [sender EXCEPT ![t] =
          [sender[t] EXCEPT !.pc = pc, !.view = v, !.cursor = F, !.noWork = v.finished]]
    BY <2>2
  <2> HIDE DEF v, pc
  <2>4. sender' \in [Thread -> Sender] /\ \A u \in Thread : UnitSet(u)'
    <3> DEFINE r == [sender[t] EXCEPT !.pc = pc, !.view = v, !.cursor = F, !.noWork = v.finished]
    <3>1. r \in Sender /\ r.pc = pc
      <4>1. sender[t] \in Sender
        BY <1>0
      <4> QED
        BY <4>1, <2>1, <2>3 DEF Sender, View
    <3>2. sender' = [sender EXCEPT ![t] = r]
      BY <2>r
    <3> HIDE DEF r
    <3> QED
      BY <2>3, <3>1, <3>2, OneSender
  <2> QED
    BY <1>0, <1>2, <2>4 DEF TypeInv, TypeOK, OpenCursor
<1>3. ASSUME NEW t \in Thread, SkipRow(t) PROVE TypeInv'
  <2>1. PICK c : sender' = [sender EXCEPT ![t] = [sender[t] EXCEPT !.cursor = @ \ {c}]]
    BY <1>3 DEF SkipRow
  <2>2. sender[t].pc = "fetch"
    BY <1>3 DEF SkipRow, At
  <2>3. sender' \in [Thread -> Sender] /\ \A u \in Thread : UnitSet(u)'
    BY <1>0, <2>1, <2>2, OneSender, CursorSteps
  <2> QED
    BY <1>0, <1>3, <2>3 DEF TypeInv, TypeOK, SkipRow
<1>4. ASSUME NEW t \in Thread, NoWorkForRow(t) PROVE TypeInv'
  <2>1. PICK c : sender' = [sender EXCEPT ![t] =
                              [sender[t] EXCEPT !.cursor = @ \ {c}, !.view = None, !.stale = {}]]
    BY <1>4 DEF NoWorkForRow
  <2>2. sender[t].pc = "fetch"
    BY <1>4 DEF NoWorkForRow, At
  <2>3. sender' \in [Thread -> Sender] /\ \A u \in Thread : UnitSet(u)'
    BY <1>0, <2>1, <2>2, OneSender, CursorSteps
  <2> QED
    BY <1>0, <1>4, <2>3 DEF TypeInv, TypeOK, NoWorkForRow
<1>5. ASSUME NEW t \in Thread, PickRow(t) PROVE TypeInv'
  <2> DEFINE v == ViewOf(t)
  <2>1. PICK c \in sender[t].cursor \ sender[t].noWork :
          /\ sender' = [sender EXCEPT ![t] = [sender[t] EXCEPT
                !.pc = "put", !.unit = c, !.view = v, !.cursor = {}, !.noWork = {}]]
          /\ Formatted(t, c)
    BY <1>5 DEF PickRow
  <2>2. sender[t].cursor \subseteq Candidate
    BY <1>0 DEF Sender
  <2>3. c \in Candidate /\ c \in Text /\ c # None
    BY <2>1, <2>2, NameAssumption DEF Text
  <2>4. v \in View
    BY <1>0, ViewType
  <2> HIDE DEF v
  <2>5. sender' \in [Thread -> Sender] /\ \A u \in Thread : UnitSet(u)'
    <3> DEFINE r == [sender[t] EXCEPT !.pc = "put", !.unit = c, !.view = v, !.cursor = {}, !.noWork = {}]
    <3>1. r \in Sender /\ r.unit # None
      <4>1. sender[t] \in Sender
        BY <1>0
      <4> QED
        BY <4>1, <2>3, <2>4 DEF Sender
    <3>2. sender' = [sender EXCEPT ![t] = r]
      BY <2>1
    <3> HIDE DEF r
    <3> QED
      BY <3>1, <3>2, OneSender
  <2>6. buffer' \in [Thread -> Text \cup {NoText}]
    BY <1>0, <2>1, <2>3, FormattedType
  <2>7. locker' = t /\ UNCHANGED <<tables, up, alive, wire, far>>
    BY <1>5 DEF PickRow
  <2> QED
    BY <1>0, <2>5, <2>6, <2>7 DEF TypeInv, TypeOK
<1>6. ASSUME NEW t \in Thread, NextPass(t) PROVE TypeInv'
  <2> DEFINE p == MoreLikely(sender[t].pass)
  <2>1. sender' = [sender EXCEPT ![t] = [sender[t] EXCEPT !.pc = "select", !.pass = p]]
    BY <1>6 DEF NextPass
  <2>2. sender[t].pass \in 0..SureAfter
    BY <1>0 DEF Sender
  <2>3. p \in 0..SureAfter
    <3> DEFINE q == sender[t].pass
    <3>1. q \in 0..SureAfter
      BY <2>2
    <3> HIDE DEF q
    <3>2. MoreLikely(q) \in 0..SureAfter
      BY <3>1, BoundAssumption DEF MoreLikely
    <3> QED
      BY <3>2 DEF q
  <2> HIDE DEF p
  <2>4. sender' \in [Thread -> Sender] /\ \A u \in Thread : UnitSet(u)'
    BY <1>0, <2>1, <2>3, OneSender, PassSteps
  <2> QED
    BY <1>0, <1>6, <2>4 DEF TypeInv, TypeOK, NextPass
<1>7. ASSUME NEW t \in Thread, PutWork(t) PROVE TypeInv'
  <2>1. sender' = [sender EXCEPT ![t] = [sender[t] EXCEPT !.pc = "record"]]
    BY <1>7 DEF PutWork
  <2>2. sender[t].unit # None
    BY <1>0, <1>7 DEF PutWork, At, UnitSet, Sending
  <2>3. sender' \in [Thread -> Sender] /\ \A u \in Thread : UnitSet(u)'
    <3> DEFINE r == [sender[t] EXCEPT !.pc = "record"]
    <3>1. r \in Sender /\ r.unit # None /\ sender' = [sender EXCEPT ![t] = r]
      BY <1>0, <2>1, <2>2, SenderSteps
    <3> HIDE DEF r
    <3> QED
      BY <3>1, OneSender
  <2>4. PutBuffer(t) /\ UNCHANGED <<tables, shared, alive, far>>
    BY <1>7 DEF PutWork
  <2> QED
    BY <1>0, <2>3, <2>4, PutBufferType DEF TypeInv, TypeOK
<1>8. ASSUME NEW t \in Thread, RecordWork(t) PROVE TypeInv'
  <2> DEFINE c == sender[t].unit
             r == [sender[t] EXCEPT !.pc = "stop", !.view = None, !.stale = {}]
  <2>1. c # None
    BY <1>0, <1>8 DEF RecordWork, At, UnitSet, Sending
  <2>2. c \in Candidate
    BY <1>0, <2>1 DEF Sender
  <2>3. \/ /\ sender' = [Touch(sender, c) EXCEPT ![t] = r]
           /\ pending' = pending \cup {<<t, c>>} /\ overlooked' = overlooked
        \/ /\ sender' = [sender EXCEPT ![t] = r]
           /\ pending' = pending /\ overlooked' = overlooked \cup {<<t, c>>}
    BY <1>8 DEF RecordWork, Recorded
  <2>4. r \in Sender /\ r.pc = "stop"
    BY <1>0, CommitSteps
  <2>5. /\ Touch(sender, c) \in [Thread -> Sender]
        /\ \A u \in Thread : /\ Touch(sender, c)[u].pc = sender[u].pc
                             /\ Touch(sender, c)[u].unit = sender[u].unit
    BY <1>0, <2>2, TouchType
  <2> HIDE DEF r
  <2>6. /\ sender' \in [Thread -> Sender] /\ sender'[t].pc = "stop"
        /\ \A u \in Thread \ {t} : sender'[u].pc = sender[u].pc /\ sender'[u].unit = sender[u].unit
    BY <1>0, <2>3, <2>4, <2>5
  <2>7. \A u \in Thread : UnitSet(u)'
    BY <1>0, <2>6 DEF UnitSet, Sending
  <2>8. pending' \subseteq Thread \X Candidate /\ overlooked' \subseteq Thread \X Candidate
    <3>1. pending \subseteq Thread \X Candidate /\ overlooked \subseteq Thread \X Candidate
      BY <1>0 DEF TypeOK
    <3> QED
      BY <2>2, <2>3, <3>1
  <2>9. locker' = None /\ UNCHANGED <<rows, finished, up, alive, line, far>>
    BY <1>8 DEF RecordWork
  <2> QED
    BY <1>0, <2>6, <2>7, <2>8, <2>9 DEF TypeInv, TypeOK
<1>9. ASSUME NEW t \in Thread, RecordFails(t) PROVE TypeInv'
  BY <1>0, <1>9 DEF TypeInv, TypeOK, RecordFails, UnitSet, Sending
<1>10. ASSUME NEW t \in Thread, StopKeepAlive(t) PROVE TypeInv'
  <2>1. CASE SeesTerminated(t)
    <3>1. sender' = [sender EXCEPT ![t] = [sender[t] EXCEPT !.pc = "answer"]]
      BY <1>10, <2>1 DEF StopKeepAlive
    <3>2. sender' \in [Thread -> Sender] /\ \A u \in Thread : UnitSet(u)'
      BY <1>0, <3>1, OneSender, SenderSteps
    <3> QED
      BY <1>0, <1>10, <2>1, <3>2 DEF TypeInv, TypeOK, StopKeepAlive
  <2>2. CASE ~SeesTerminated(t)
    BY <1>0, <1>10, <2>2 DEF TypeInv, TypeOK, StopKeepAlive, UnitSet, Sending
  <2> QED
    BY <2>1, <2>2
<1>11. ASSUME NEW t \in Thread, Answer(t) PROVE TypeInv'
  <2>1. sender' = [sender EXCEPT ![t] = [sender[t] EXCEPT !.pc = "done"]]
    BY <1>11 DEF Answer
  <2>2. sender' \in [Thread -> Sender] /\ \A u \in Thread : UnitSet(u)'
    BY <1>0, <2>1, OneSender, SenderSteps
  <2>3. wire' \in [Thread -> Seq(Text)]
    <3>1. wire \in [Thread -> Seq(Text)]
      BY <1>0 DEF TypeOK
    <3>2. "INFO" \in Text /\ "End of Message" \in Text
      BY DEF Text
    <3>3. <<"INFO">> \in Seq(Text) /\ <<"End of Message">> \in Seq(Text)
      BY <3>2, OneLine
    <3> DEFINE info == IF sender[t].unit = None THEN <<"INFO">> ELSE <<>>
               end == <<"End of Message">>
    <3>4. info \in Seq(Text) /\ end \in Seq(Text)
      BY <3>3, NoLine
    <3> HIDE DEF info, end
    <3>5. wire[t] \o info \o end \in Seq(Text)
      BY <3>1, <3>4
    <3>6. wire' \in {wire, [wire EXCEPT ![t] = wire[t] \o info \o end]}
      BY <1>11 DEF Answer, info, end
    <3> QED
      BY <3>1, <3>5, <3>6
  <2> QED
    BY <1>0, <1>11, <2>2, <2>3 DEF TypeInv, TypeOK, Answer
<1>12. ASSUME NEW t \in Thread, KeepAliveWakes(t) PROVE TypeInv'
  <2>1. buffer' \in [Thread -> Text \cup {NoText}]
    <3>1. "keepalive" \in Text /\ buffer \in [Thread -> Text \cup {NoText}]
      BY <1>0 DEF Text, TypeOK
    <3>2. Formatted(t, "keepalive") \/ buffer' = buffer
      BY <1>12 DEF KeepAliveWakes
    <3> QED
      BY <1>0, <3>1, <3>2, FormattedType
  <2>2. kept' \in [Thread -> Nat] /\ \A u \in Thread : kept'[u] <= MaxKeepAlive[u]
    <3>1. /\ kept \in [Thread -> Nat] /\ MaxKeepAlive \in [Thread -> Nat]
          /\ \A u \in Thread : kept[u] <= MaxKeepAlive[u]
      BY <1>0, BoundAssumption DEF TypeOK
    <3>2. \/ kept[t] < MaxKeepAlive[t] /\ kept' = [kept EXCEPT ![t] = kept[t] + 1]
          \/ kept' = kept
      BY <1>12 DEF KeepAliveWakes
    <3>3. kept[t] < MaxKeepAlive[t] => kept[t] + 1 \in Nat /\ kept[t] + 1 <= MaxKeepAlive[t]
      BY <3>1
    <3> QED
      BY <3>1, <3>2, <3>3
  <2>3. keeper' \in [Thread -> {"none", "sleeping", "sending", "leaving", "ended"}]
    <3>1. keeper' = [keeper EXCEPT ![t] = "sending"] \/ keeper' = [keeper EXCEPT ![t] = "leaving"]
      BY <1>12 DEF KeepAliveWakes
    <3> QED
      BY <1>0, <3>1 DEF TypeOK
  <2>4. UNCHANGED <<tables, shared, sender, waiter, wire, far>>
    BY <1>12 DEF KeepAliveWakes
  <2> QED
    BY <1>0, <2>1, <2>2, <2>3, <2>4 DEF TypeInv, TypeOK, UnitSet, Sending
<1>13. ASSUME NEW t \in Thread, PutKeepAlive(t) PROVE TypeInv'
  <2>1. /\ buffer' \in [Thread -> Text \cup {NoText}] /\ wire' \in [Thread -> Seq(Text)]
        /\ keeper' = [keeper EXCEPT ![t] = "sleeping"]
        /\ UNCHANGED <<tables, shared, sender, waiter, kept, far>>
    BY <1>0, <1>13, PutBufferType DEF PutKeepAlive
  <2> QED
    BY <1>0, <2>1 DEF TypeInv, TypeOK, UnitSet, Sending
<1>14. ASSUME NEW t \in Thread, KeepAliveEnds(t) PROVE TypeInv'
  BY <1>0, <1>14 DEF TypeInv, TypeOK, KeepAliveEnds, UnitSet, Sending
<1>15. ASSUME NEW t \in Thread, ReadLine(t) PROVE TypeInv'
  <2>1. wire \in [Thread -> Seq(Text)] /\ held \in [Thread -> Candidate \cup {None}]
    BY <1>0 DEF TypeOK
  <2>2. CASE Head(wire[t]) \in Candidate
    <3>1. /\ held' = [held EXCEPT ![t] = Head(wire[t])] /\ wire' = [wire EXCEPT ![t] = Tail(wire[t])]
          /\ UNCHANGED <<tables, shared, sender, alive, buffer, client>> /\ wire[t] # <<>>
      BY <1>15, <2>2 DEF ReadLine
    <3>2. Tail(wire[t]) \in Seq(Text)
      BY <2>1, <3>1
    <3>3. wire' \in [Thread -> Seq(Text)] /\ held' \in [Thread -> Candidate \cup {None}]
      BY <2>1, <2>2, <3>1, <3>2
    <3> QED
      BY <1>0, <3>1, <3>3 DEF TypeInv, TypeOK, UnitSet, Sending
  <2>3. CASE Head(wire[t]) \notin Candidate
    <3>1. /\ client' = [client EXCEPT ![t] = "gone"] /\ wire' = [wire EXCEPT ![t] = <<>>]
          /\ UNCHANGED <<tables, shared, sender, alive, buffer, held>>
      BY <1>15, <2>3 DEF ReadLine
    <3>2. <<>> \in Seq(Text)
      OBVIOUS
    <3>3. wire' \in [Thread -> Seq(Text)]
      BY <2>1, <3>1, <3>2
    <3>4. client' \in [Thread -> {"asking", "gone"}]
      BY <1>0, <3>1 DEF TypeOK
    <3> QED
      BY <1>0, <3>1, <3>3, <3>4 DEF TypeInv, TypeOK, UnitSet, Sending
  <2> QED
    BY <2>2, <2>3
<1>16. ASSUME NEW t \in Thread, ClientTimesOut(t) PROVE TypeInv'
  BY <1>0, <1>16 DEF TypeInv, TypeOK, ClientTimesOut, UnitSet, Sending
<1>17. ASSUME NEW c \in Returned, OthersReturn(c) PROVE TypeInv'
  <2>0. c \in Candidate /\ sender' = Touch(sender, c)
    BY <1>17, NameAssumption DEF OthersReturn
  <2>1. /\ sender' \in [Thread -> Sender]
        /\ \A u \in Thread : sender'[u].pc = sender[u].pc /\ sender'[u].unit = sender[u].unit
    BY <1>0, <2>0, TouchType
  <2>2. \A u \in Thread : UnitSet(u)'
    BY <1>0, <2>1 DEF UnitSet, Sending
  <2> QED
    BY <1>0, <1>17, <2>1, <2>2 DEF TypeInv, TypeOK, OthersReturn
<1>18. ASSUME UNCHANGED vars PROVE TypeInv'
  BY <1>0, <1>18 DEF TypeInv, TypeOK, vars, UnitSet, Sending
<1> QED
  BY <1>1, <1>2, <1>3, <1>4, <1>5, <1>6, <1>7, <1>8, <1>9, <1>10, <1>11, <1>12, <1>13, <1>14, <1>15,
     <1>16, <1>17, <1>18 DEF Next, Send, Select, Finish, Keep

(* The variables keep their types: the tables, the local variables of the   *)
(* senders and what is under way to the clients.                            *)
THEOREM TypeCorrect == Spec => []TypeOK
<1>1. TypeInv => TypeOK
  BY DEF TypeInv
<1> QED
  BY TypeInit, TypeNext, <1>1, PTL DEF Spec

-----------------------------------------------------------------------------
(***************************************************************************)
(* What each step does to the local variables of the senders.              *)
(***************************************************************************)
LEMMA OthersUntouched ==
  ASSUME NEW f \in [Thread -> Sender], NEW t \in Thread, NEW r
  PROVE  /\ [f EXCEPT ![t] = r][t] = r
         /\ \A u \in Thread \ {t} : [f EXCEPT ![t] = r][u] = f[u]
  OBVIOUS

LEMMA SelectSender ==
  ASSUME TypeInv, NEW t \in Thread, OpenCursor(t) \/ SkipRow(t) \/ NoWorkForRow(t) \/ NextPass(t)
  PROVE  /\ \A u \in Thread \ {t} : sender'[u] = sender[u]
         /\ sender[t].pc \in {"select", "fetch"}
         /\ sender'[t].pc \in {"select", "fetch", "stop"}
         /\ sender'[t].unit = sender[t].unit
<1>0. sender \in [Thread -> Sender] /\ sender[t] \in Sender
  BY DEF TypeInv, TypeOK
<1>1. ASSUME NEW r, sender' = [sender EXCEPT ![t] = r]
      PROVE  sender'[t] = r /\ \A u \in Thread \ {t} : sender'[u] = sender[u]
  BY <1>0, <1>1, OthersUntouched
<1>2. CASE OpenCursor(t)
  <2> DEFINE v == ViewOf(t)
  <2>f. PICK F : sender' = [sender EXCEPT ![t] = [sender[t] EXCEPT
          !.pc = IF F = {} THEN "stop" ELSE "fetch", !.view = v, !.cursor = F, !.noWork = v.finished]]
    BY <1>2 DEF OpenCursor
  <2> DEFINE pc == IF F = {} THEN "stop" ELSE "fetch"
             r == [sender[t] EXCEPT !.pc = pc, !.view = v, !.cursor = F, !.noWork = v.finished]
  <2>1. sender' = [sender EXCEPT ![t] = r] /\ sender[t].pc = "select"
    BY <1>2, <2>f DEF OpenCursor, At
  <2>2. v \in View
    BY ViewType DEF TypeInv
  <2>3. pc \in {"stop", "fetch"}
    OBVIOUS
  <2> HIDE DEF v, pc
  <2>4. r.pc = pc /\ r.unit = sender[t].unit
    BY <1>0 DEF Sender
  <2> QED
    BY <1>1, <2>1, <2>3, <2>4
<1>3. CASE SkipRow(t)
  <2>1. PICK c : sender' = [sender EXCEPT ![t] = [sender[t] EXCEPT !.cursor = @ \ {c}]]
    BY <1>3 DEF SkipRow
  <2>2. sender[t].pc = "fetch"
    BY <1>3 DEF SkipRow, At
  <2> QED
    BY <1>0, <1>1, <2>1, <2>2, CursorSteps
<1>4. CASE NoWorkForRow(t)
  <2>1. PICK c : sender' = [sender EXCEPT ![t] =
                              [sender[t] EXCEPT !.cursor = @ \ {c}, !.view = None, !.stale = {}]]
    BY <1>4 DEF NoWorkForRow
  <2>2. sender[t].pc = "fetch"
    BY <1>4 DEF NoWorkForRow, At
  <2> QED
    BY <1>0, <1>1, <2>1, <2>2, CursorSteps
<1>5. CASE NextPass(t)
  <2> DEFINE p == MoreLikely(sender[t].pass)
             r == [sender[t] EXCEPT !.pc = "select", !.pass = p]
  <2>1. sender' = [sender EXCEPT ![t] = r] /\ sender[t].pc = "fetch"
    BY <1>5 DEF NextPass, At
  <2>2. r.pc = "select" /\ r.unit = sender[t].unit
    BY <1>0 DEF Sender
  <2> QED
    BY <1>1, <2>1, <2>2
<1> QED
  BY <1>2, <1>3, <1>4, <1>5

LEMMA PickSender ==
  ASSUME TypeInv, NEW t \in Thread, PickRow(t)
  PROVE  /\ \A u \in Thread \ {t} : sender'[u] = sender[u]
         /\ sender[t].pc = "fetch" /\ sender'[t].pc = "put"
         /\ sender'[t].unit \in Candidate
         /\ Formatted(t, sender'[t].unit)
         /\ UNCHANGED <<tables, up, alive, wire, far>>
<1>0. sender \in [Thread -> Sender] /\ sender[t] \in Sender
  BY DEF TypeInv, TypeOK
<1> DEFINE v == ViewOf(t)
<1>1. PICK c \in sender[t].cursor \ sender[t].noWork :
        /\ sender' = [sender EXCEPT ![t] = [sender[t] EXCEPT
              !.pc = "put", !.unit = c, !.view = v, !.cursor = {}, !.noWork = {}]]
        /\ Formatted(t, c)
  BY DEF PickRow
<1>2. c \in Candidate
  BY <1>0, <1>1 DEF Sender
<1> DEFINE r == [sender[t] EXCEPT !.pc = "put", !.unit = c, !.view = v, !.cursor = {}, !.noWork = {}]
<1>3. sender' = [sender EXCEPT ![t] = r]
  BY <1>1
<1>4. r.pc = "put" /\ r.unit = c
  <2> HIDE DEF v
  <2> QED
    BY <1>0 DEF Sender
<1> HIDE DEF r
<1>5. sender'[t] = r /\ \A u \in Thread \ {t} : sender'[u] = sender[u]
  BY <1>0, <1>3, OthersUntouched
<1> QED
  BY <1>1, <1>2, <1>4, <1>5 DEF PickRow, At

(* A step after which thread t is at pc and nothing else of the senders is  *)
(* another.                                                                 *)
LEMMA MoveSender ==
  ASSUME TypeInv, NEW t \in Thread,
         NEW pc \in {"asked", "select", "fetch", "put", "record", "stop", "answer", "done"},
         sender' = [sender EXCEPT ![t] = [sender[t] EXCEPT !.pc = pc]]
  PROVE  /\ \A u \in Thread \ {t} : sender'[u] = sender[u]
         /\ sender'[t].pc = pc /\ sender'[t].unit = sender[t].unit
<1>0. sender \in [Thread -> Sender] /\ sender[t] \in Sender
  BY DEF TypeInv, TypeOK
<1> QED
  BY <1>0, OthersUntouched, SenderSteps

(* The units with a record, or whose COMMIT failed unnoticed. *)
Known == pending \cup overlooked

LEMMA RecordSender ==
  ASSUME TypeInv, NEW t \in Thread, RecordWork(t)
  PROVE  /\ \A u \in Thread \ {t} : sender'[u].pc = sender[u].pc /\ sender'[u].unit = sender[u].unit
         /\ sender[t].pc = "record" /\ sender'[t].pc = "stop"
         /\ sender'[t].unit = sender[t].unit
         /\ Known' = Known \cup {<<t, sender[t].unit>>}
<1>0. sender \in [Thread -> Sender] /\ sender[t] \in Sender
  BY DEF TypeInv, TypeOK
<1> DEFINE c == sender[t].unit
           r == [sender[t] EXCEPT !.pc = "stop", !.view = None, !.stale = {}]
<1>1. sender[t].pc = "record"
  BY DEF RecordWork, At
<1>2. c \in Candidate
  BY <1>0, <1>1 DEF TypeInv, UnitSet, Sending, Sender
<1>3. /\ sender' = [Touch(sender, c) EXCEPT ![t] = r] \/ sender' = [sender EXCEPT ![t] = r]
      /\ Known' = Known \cup {<<t, c>>}
  BY DEF RecordWork, Recorded, Known
<1>4. r.pc = "stop" /\ r.unit = sender[t].unit
  BY <1>0, CommitSteps
<1>5. /\ Touch(sender, c) \in [Thread -> Sender]
      /\ \A u \in Thread : /\ Touch(sender, c)[u].pc = sender[u].pc
                           /\ Touch(sender, c)[u].unit = sender[u].unit
  BY <1>0, <1>2, TouchType
<1> HIDE DEF r
<1>6. /\ sender'[t] = r
      /\ \A u \in Thread \ {t} : sender'[u] = Touch(sender, c)[u] \/ sender'[u] = sender[u]
  BY <1>0, <1>3, <1>5, OthersUntouched
<1> QED
  BY <1>1, <1>3, <1>4, <1>5, <1>6

LEMMA ReturnSender ==
  ASSUME TypeInv, NEW c \in Returned, OthersReturn(c)
  PROVE  \A u \in Thread : sender'[u].pc = sender[u].pc /\ sender'[u].unit = sender[u].unit
<1>0. sender \in [Thread -> Sender]
  BY DEF TypeInv, TypeOK
<1>1. c \in Candidate /\ sender' = Touch(sender, c)
  BY NameAssumption DEF OthersReturn
<1> QED
  BY <1>0, <1>1, TouchType

-----------------------------------------------------------------------------
(***************************************************************************)
(* The sender goes on only after its keep-alive thread has ended.          *)
(***************************************************************************)
(* The value TERMINATED is written by that thread when it ends, and nobody  *)
(* starts it again.                                                         *)
Handshake(t) ==
  /\ waiter[t] = "terminated" => keeper[t] = "ended"
  /\ sender[t].pc \in {"answer", "done"} => keeper[t] = "ended"

HandshakeInv == \A t \in Thread : Handshake(t)

LEMMA HandshakeInit == Init => HandshakeInv
<1> SUFFICES ASSUME Init, NEW t \in Thread
             PROVE  Handshake(t)
  BY DEF HandshakeInv
<1>1. waiter[t] = "none" /\ sender[t].pc = "asked"
  BY DEF Init
<1> QED
  BY <1>1 DEF Handshake

LEMMA HandshakeNext == TypeInv /\ HandshakeInv /\ [Next]_vars => HandshakeInv'
<1> SUFFICES ASSUME TypeInv, HandshakeInv, [Next]_vars
             PROVE  HandshakeInv'
  OBVIOUS
<1> USE DEF alive
<1>0. /\ waiter \in [Thread -> {"none", "waiting", "terminate", "terminated"}]
      /\ keeper \in [Thread -> {"none", "sleeping", "sending", "leaving", "ended"}]
      /\ \A t \in Thread : Handshake(t)
  BY DEF TypeInv, TypeOK, HandshakeInv
<1>1. ASSUME NEW t \in Thread, StartKeepAlive(t) PROVE HandshakeInv'
  <2>1. /\ waiter' = [waiter EXCEPT ![t] = "waiting"] /\ keeper' = [keeper EXCEPT ![t] = "sleeping"]
        /\ sender' = [sender EXCEPT ![t] = [sender[t] EXCEPT !.pc = "select"]]
    BY <1>1 DEF StartKeepAlive
  <2>2. sender'[t].pc = "select" /\ \A u \in Thread \ {t} : sender'[u] = sender[u]
    BY <2>1, MoveSender
  <2> QED
    BY <1>0, <2>1, <2>2 DEF HandshakeInv, Handshake
<1>2. ASSUME NEW t \in Thread, OpenCursor(t) \/ SkipRow(t) \/ NoWorkForRow(t) \/ NextPass(t)
      PROVE HandshakeInv'
  <2>1. UNCHANGED alive
    BY <1>2 DEF OpenCursor, SkipRow, NoWorkForRow, NextPass
  <2>2. sender'[t].pc \in {"select", "fetch", "stop"} /\ \A u \in Thread \ {t} : sender'[u] = sender[u]
    BY <1>2, SelectSender
  <2> QED
    BY <1>0, <2>1, <2>2 DEF HandshakeInv, Handshake
<1>3. ASSUME NEW t \in Thread, PickRow(t) PROVE HandshakeInv'
  BY <1>0, <1>3, PickSender DEF HandshakeInv, Handshake
<1>4. ASSUME NEW t \in Thread, PutWork(t) PROVE HandshakeInv'
  <2>1. sender' = [sender EXCEPT ![t] = [sender[t] EXCEPT !.pc = "record"]] /\ UNCHANGED alive
    BY <1>4 DEF PutWork
  <2>2. sender'[t].pc = "record" /\ \A u \in Thread \ {t} : sender'[u] = sender[u]
    BY <2>1, MoveSender
  <2> QED
    BY <1>0, <2>1, <2>2 DEF HandshakeInv, Handshake
<1>5. ASSUME NEW t \in Thread, RecordWork(t) PROVE HandshakeInv'
  <2>1. UNCHANGED alive
    BY <1>5 DEF RecordWork
  <2> QED
    BY <1>0, <1>5, <2>1, RecordSender DEF HandshakeInv, Handshake
<1>6. ASSUME NEW t \in Thread, RecordFails(t) PROVE HandshakeInv'
  BY <1>0, <1>6 DEF RecordFails, HandshakeInv, Handshake
<1>7. ASSUME NEW t \in Thread, StopKeepAlive(t) PROVE HandshakeInv'
  <2>1. CASE SeesTerminated(t)
    <3>1. sender' = [sender EXCEPT ![t] = [sender[t] EXCEPT !.pc = "answer"]] /\ UNCHANGED alive
      BY <1>7, <2>1 DEF StopKeepAlive
    <3>2. sender'[t].pc = "answer" /\ \A u \in Thread \ {t} : sender'[u] = sender[u]
      BY <3>1, MoveSender
    <3>3. keeper[t] = "ended"
      BY <1>0, <2>1 DEF SeesTerminated, Handshake
    <3> QED
      BY <1>0, <3>1, <3>2, <3>3 DEF HandshakeInv, Handshake
  <2>2. CASE ~SeesTerminated(t)
    BY <1>0, <1>7, <2>2 DEF StopKeepAlive, HandshakeInv, Handshake
  <2> QED
    BY <2>1, <2>2
<1>8. ASSUME NEW t \in Thread, Answer(t) PROVE HandshakeInv'
  <2>1. sender' = [sender EXCEPT ![t] = [sender[t] EXCEPT !.pc = "done"]] /\ UNCHANGED alive
    BY <1>8 DEF Answer
  <2>2. sender[t].pc = "answer"
    BY <1>8 DEF Answer, At
  <2>3. sender'[t].pc = "done" /\ \A u \in Thread \ {t} : sender'[u] = sender[u]
    BY <2>1, MoveSender
  <2> QED
    BY <1>0, <2>1, <2>2, <2>3 DEF HandshakeInv, Handshake
<1>9. ASSUME NEW t \in Thread, KeepAliveWakes(t) PROVE HandshakeInv'
  <2>1. /\ keeper[t] = "sleeping" /\ sender' = sender /\ waiter' = waiter
        /\ \E k \in {"sending", "leaving"} : keeper' = [keeper EXCEPT ![t] = k]
    BY <1>9 DEF KeepAliveWakes
  <2> QED
    BY <1>0, <2>1 DEF HandshakeInv, Handshake
<1>10. ASSUME NEW t \in Thread, PutKeepAlive(t) PROVE HandshakeInv'
  BY <1>0, <1>10 DEF PutKeepAlive, HandshakeInv, Handshake
<1>11. ASSUME NEW t \in Thread, KeepAliveEnds(t) PROVE HandshakeInv'
  BY <1>0, <1>11 DEF KeepAliveEnds, HandshakeInv, Handshake
<1>12. ASSUME NEW t \in Thread, ReadLine(t) \/ ClientTimesOut(t) PROVE HandshakeInv'
  BY <1>0, <1>12 DEF ReadLine, ClientTimesOut, HandshakeInv, Handshake
<1>13. ASSUME NEW c \in Returned, OthersReturn(c) PROVE HandshakeInv'
  <2>1. UNCHANGED alive
    BY <1>13 DEF OthersReturn
  <2> QED
    BY <1>0, <1>13, <2>1, ReturnSender DEF HandshakeInv, Handshake
<1>14. ASSUME UNCHANGED vars PROVE HandshakeInv'
  BY <1>0, <1>14 DEF vars, HandshakeInv, Handshake
<1> QED
  BY <1>1, <1>2, <1>3, <1>4, <1>5, <1>6, <1>7, <1>8, <1>9, <1>10, <1>11, <1>12, <1>13, <1>14
     DEF Next, Send, Select, Finish, Keep

(* Whatever the order of the two threads, the sender writes its answer and  *)
(* frees the shared value only when the keep-alive thread is over.          *)
THEOREM KeeperStopped == Spec => []KeepAliveStopped
<1>1. HandshakeInv => KeepAliveStopped
  BY DEF HandshakeInv, Handshake, KeepAliveStopped
<1> QED
  BY TypeInit, TypeNext, HandshakeInit, HandshakeNext, <1>1, PTL DEF Spec

-----------------------------------------------------------------------------
(***************************************************************************)
(* A unit a client holds is recorded.                                      *)
(***************************************************************************)
(* Of all composites, only x is among the lines q. *)
OnlyUnit(q, x) == \A i \in 1..Len(q) : q[i] \in Candidate => q[i] = x

LEMMA OnlyUnitAppend ==
  ASSUME NEW q \in Seq(Text), NEW x, OnlyUnit(q, x), NEW l \in Text, l \in Candidate => l = x
  PROVE  OnlyUnit(Append(q, l), x)
  BY DEF OnlyUnit

LEMMA OnlyUnitTail ==
  ASSUME NEW q \in Seq(Text), NEW x, OnlyUnit(q, x), q # <<>>
  PROVE  /\ OnlyUnit(Tail(q), x)
         /\ Head(q) \in Candidate => Head(q) = x
  BY DEF OnlyUnit

LEMMA OnlyUnitJoin ==
  ASSUME NEW q \in Seq(Text), NEW x, OnlyUnit(q, x), NEW r \in Seq(Text), OnlyUnit(r, x)
  PROVE  OnlyUnit(q \o r, x)
  BY DEF OnlyUnit

LEMMA OnlyUnitNone ==
  ASSUME NEW x
  PROVE  OnlyUnit(<<>>, x)
  BY DEF OnlyUnit

LEMMA OnlyUnitOne ==
  ASSUME NEW x, NEW l, l \notin Candidate
  PROVE  OnlyUnit(<<l>>, x)
  BY DEF OnlyUnit

(* What thread t knows of its unit: before it has picked one no composite   *)
(* is on its way to the client, afterwards no other one is, and once it is  *)
(* through with the unit it has recorded it, or the COMMIT failed.          *)
Track(t) ==
  /\ sender[t].pc \in {"asked", "select", "fetch"} => sender[t].unit = None
  /\ sender[t].unit # None /\ ~Sending(t) => <<t, sender[t].unit>> \in Known
  /\ buffer[t] \in Candidate => buffer[t] = sender[t].unit
  /\ OnlyUnit(wire[t], sender[t].unit)
  /\ held[t] # None => held[t] = sender[t].unit

TrackInv == \A t \in Thread : Track(t)

LEMMA TrackInit == Init => TrackInv
<1> SUFFICES ASSUME Init, NEW t \in Thread
             PROVE  Track(t)
  BY DEF TrackInv
<1>1. sender[t].pc = "asked" /\ sender[t].unit = None
  BY DEF Init
<1>2. buffer[t] = "" /\ wire[t] = <<>> /\ held[t] = None
  BY DEF Init
<1>3. OnlyUnit(wire[t], sender[t].unit)
  BY <1>2, OnlyUnitNone
<1>4. buffer[t] \notin Candidate
  BY <1>2, NameAssumption
<1> QED
  BY <1>1, <1>2, <1>3, <1>4 DEF Track

(* Nothing that Track speaks of changes, apart from new records. *)
LEMMA TrackFrame ==
  ASSUME NEW t \in Thread, Track(t),
         sender'[t].pc = sender[t].pc, sender'[t].unit = sender[t].unit,
         buffer'[t] = buffer[t], wire'[t] = wire[t], held'[t] = held[t],
         Known \subseteq Known'
  PROVE  Track(t)'
  BY DEF Track, Sending

(* No composite is on its way while there is no unit. *)
LEMMA NothingSent ==
  ASSUME TypeInv, NEW t \in Thread, Track(t), sender[t].unit = None
  PROVE  /\ held[t] = None /\ \A x : OnlyUnit(wire[t], x)
<1>1. None \notin Candidate
  BY NameAssumption
<1> QED
  BY <1>1 DEF Track, OnlyUnit

LEMMA PutBufferTrack ==
  ASSUME TypeInv, NEW t \in Thread, Track(t), PutBuffer(t)
  PROVE  /\ buffer'[t] \notin Candidate
         /\ OnlyUnit(wire'[t], sender[t].unit)
         /\ \A u \in Thread \ {t} : buffer'[u] = buffer[u] /\ wire'[u] = wire[u]
<1>1. buffer \in [Thread -> Text \cup {NoText}] /\ wire \in [Thread -> Seq(Text)]
  BY DEF TypeInv, TypeOK
<1>2. buffer'[t] = "" /\ \A u \in Thread \ {t} : buffer'[u] = buffer[u]
  BY <1>1 DEF PutBuffer
<1>3. \A u \in Thread \ {t} : wire'[u] = wire[u]
  BY <1>1 DEF PutBuffer
<1>4. CASE wire' = wire
  BY <1>2, <1>3, <1>4, NameAssumption DEF Track
<1>5. CASE wire' # wire
  <2>1. buffer[t] \in Text /\ wire[t] \in Seq(Text)
    BY <1>1, <1>5 DEF PutBuffer
  <2>2. wire'[t] = Append(wire[t], buffer[t])
    BY <1>1, <1>5 DEF PutBuffer
  <2>3. OnlyUnit(Append(wire[t], buffer[t]), sender[t].unit)
    BY <2>1, OnlyUnitAppend DEF Track
  <2> QED
    BY <1>2, <1>3, <2>2, <2>3, NameAssumption
<1> QED
  BY <1>4, <1>5

LEMMA TrackNext == TypeInv /\ TrackInv /\ [Next]_vars => TrackInv'
<1> SUFFICES ASSUME TypeInv, TrackInv, [Next]_vars
             PROVE  TrackInv'
  OBVIOUS
<1>0. /\ \A t \in Thread : Track(t)
      /\ buffer \in [Thread -> Text \cup {NoText}]
      /\ wire \in [Thread -> Seq(Text)]
      /\ held \in [Thread -> Candidate \cup {None}]
  BY DEF TypeInv, TypeOK, TrackInv
<1>1. ASSUME NEW t \in Thread, Track(t)',
             \A u \in Thread \ {t} : /\ sender'[u].pc = sender[u].pc /\ sender'[u].unit = sender[u].unit
                                     /\ buffer'[u] = buffer[u] /\ wire'[u] = wire[u]
                                     /\ held'[u] = held[u],
             Known \subseteq Known'
      PROVE  TrackInv'
  BY <1>0, <1>1, TrackFrame DEF TrackInv
<1>2. ASSUME UNCHANGED <<Known, buffer, wire, held>>,
             \A u \in Thread : sender'[u].pc = sender[u].pc /\ sender'[u].unit = sender[u].unit
      PROVE  TrackInv'
  BY <1>0, <1>2, TrackFrame DEF TrackInv
<1>3. ASSUME NEW t \in Thread, StartKeepAlive(t) PROVE TrackInv'
  <2>1. /\ sender' = [sender EXCEPT ![t] = [sender[t] EXCEPT !.pc = "select"]]
        /\ sender[t].pc = "asked" /\ UNCHANGED <<Known, buffer, wire, held>>
    BY <1>3 DEF StartKeepAlive, At, tables, Known, line, far
  <2>2. /\ sender'[t].pc = "select" /\ sender'[t].unit = sender[t].unit
        /\ \A u \in Thread \ {t} : sender'[u] = sender[u]
    BY <2>1, MoveSender
  <2>3. Track(t)'
    BY <1>0, <2>1, <2>2 DEF Track, Sending
  <2> QED
    BY <1>1, <2>1, <2>2, <2>3
<1>4. ASSUME NEW t \in Thread, OpenCursor(t) \/ SkipRow(t) \/ NoWorkForRow(t) \/ NextPass(t)
      PROVE TrackInv'
  <2>1. UNCHANGED <<Known, buffer, wire, held>>
    BY <1>4 DEF OpenCursor, SkipRow, NoWorkForRow, NextPass, tables, Known, line, far
  <2>2. /\ \A u \in Thread \ {t} : sender'[u] = sender[u]
        /\ sender[t].pc \in {"select", "fetch"}
        /\ sender'[t].unit = sender[t].unit
    BY <1>4, SelectSender
  <2>3. Track(t)'
    BY <1>0, <2>1, <2>2 DEF Track, Sending
  <2> QED
    BY <1>1, <2>1, <2>2, <2>3
<1>5. ASSUME NEW t \in Thread, PickRow(t) PROVE TrackInv'
  <2>1. /\ \A u \in Thread \ {t} : sender'[u] = sender[u]
        /\ sender[t].pc = "fetch" /\ sender'[t].pc = "put"
        /\ sender'[t].unit \in Candidate
        /\ Formatted(t, sender'[t].unit)
        /\ UNCHANGED <<Known, wire, held>>
    BY <1>5, PickSender DEF tables, Known, far
  <2>2. held[t] = None /\ OnlyUnit(wire[t], sender'[t].unit)
    BY <1>0, <2>1, NothingSent DEF Track
  <2>3. sender'[t].unit \in Text
    BY <2>1 DEF Text
  <2>4. /\ buffer'[t] \in {sender'[t].unit, "torn"}
        /\ \A u \in Thread \ {t} : buffer'[u] = buffer[u]
    <3> DEFINE c == sender'[t].unit
    <3>1. c \in Text /\ Formatted(t, c)
      BY <2>1, <2>3
    <3> HIDE DEF c
    <3>2. buffer'[t] \in {c, "torn"} /\ \A u \in Thread \ {t} : buffer'[u] = buffer[u]
      BY <3>1, FormattedType DEF TypeInv
    <3> QED
      BY <3>2 DEF c
  <2>5. Track(t)'
    BY <2>1, <2>2, <2>4, NameAssumption DEF Track, Sending
  <2> QED
    BY <1>1, <2>1, <2>4, <2>5
<1>6. ASSUME NEW t \in Thread, PutWork(t) PROVE TrackInv'
  <2>1. /\ sender' = [sender EXCEPT ![t] = [sender[t] EXCEPT !.pc = "record"]]
        /\ PutBuffer(t) /\ UNCHANGED <<Known, held>>
    BY <1>6 DEF PutWork, tables, Known, far
  <2>2. /\ sender'[t].pc = "record" /\ sender'[t].unit = sender[t].unit
        /\ \A u \in Thread \ {t} : sender'[u] = sender[u]
    BY <2>1, MoveSender
  <2>3. /\ buffer'[t] \notin Candidate /\ OnlyUnit(wire'[t], sender[t].unit)
        /\ \A u \in Thread \ {t} : buffer'[u] = buffer[u] /\ wire'[u] = wire[u]
    BY <1>0, <2>1, PutBufferTrack
  <2>4. Track(t)'
    BY <1>0, <2>1, <2>2, <2>3 DEF Track, Sending
  <2> QED
    BY <1>1, <2>1, <2>2, <2>3, <2>4
<1>7. ASSUME NEW t \in Thread, RecordWork(t) PROVE TrackInv'
  <2>1. UNCHANGED <<buffer, wire, held>>
    BY <1>7 DEF RecordWork, line, far
  <2>2. /\ \A u \in Thread \ {t} : sender'[u].pc = sender[u].pc /\ sender'[u].unit = sender[u].unit
        /\ sender'[t].pc = "stop" /\ sender'[t].unit = sender[t].unit
        /\ Known' = Known \cup {<<t, sender[t].unit>>}
    BY <1>7, RecordSender
  <2>3. Track(t)'
    BY <1>0, <2>1, <2>2 DEF Track, Sending
  <2> QED
    BY <1>1, <2>1, <2>2, <2>3
<1>8. ASSUME NEW t \in Thread, RecordFails(t) PROVE TrackInv'
  BY <1>2, <1>8 DEF RecordFails, tables, Known, line, far
<1>9. ASSUME NEW t \in Thread, StopKeepAlive(t) PROVE TrackInv'
  <2>1. UNCHANGED <<Known, buffer, wire, held>> /\ sender[t].pc = "stop"
    BY <1>9 DEF StopKeepAlive, At, tables, Known, line, far
  <2>2. CASE SeesTerminated(t)
    <3>1. sender' = [sender EXCEPT ![t] = [sender[t] EXCEPT !.pc = "answer"]]
      BY <1>9, <2>2 DEF StopKeepAlive
    <3>2. /\ sender'[t].pc = "answer" /\ sender'[t].unit = sender[t].unit
          /\ \A u \in Thread \ {t} : sender'[u] = sender[u]
      BY <3>1, MoveSender
    <3>3. Track(t)'
      BY <1>0, <2>1, <3>2 DEF Track, Sending
    <3> QED
      BY <1>1, <2>1, <3>2, <3>3
  <2>3. CASE ~SeesTerminated(t)
    BY <1>2, <1>9, <2>1, <2>3 DEF StopKeepAlive
  <2> QED
    BY <2>2, <2>3
<1>10. ASSUME NEW t \in Thread, Answer(t) PROVE TrackInv'
  <2>1. /\ sender' = [sender EXCEPT ![t] = [sender[t] EXCEPT !.pc = "done"]]
        /\ sender[t].pc = "answer" /\ UNCHANGED <<Known, buffer, held>>
    BY <1>10 DEF Answer, At, tables, Known, far
  <2>2. /\ sender'[t].pc = "done" /\ sender'[t].unit = sender[t].unit
        /\ \A u \in Thread \ {t} : sender'[u] = sender[u]
    BY <2>1, MoveSender
  <2> DEFINE x == sender[t].unit
             info == IF x = None THEN <<"INFO">> ELSE <<>>
             last == <<"End of Message">>
  <2>3. \A u \in Thread \ {t} : wire'[u] = wire[u]
    BY <1>0, <1>10 DEF Answer
  <2>4. wire'[t] \in {wire[t], wire[t] \o info \o last}
    BY <1>0, <1>10 DEF Answer
  <2>5. /\ info \in Seq(Text) /\ OnlyUnit(info, x)
        /\ last \in Seq(Text) /\ OnlyUnit(last, x)
    <3>1. "INFO" \in Text \ Candidate /\ "End of Message" \in Text \ Candidate
      BY NameAssumption DEF Text
    <3>2. /\ <<"INFO">> \in Seq(Text) /\ OnlyUnit(<<"INFO">>, x)
          /\ last \in Seq(Text) /\ OnlyUnit(last, x)
          /\ <<>> \in Seq(Text) /\ OnlyUnit(<<>>, x)
      BY <3>1, OneLine, NoLine, OnlyUnitOne, OnlyUnitNone
    <3> QED
      BY <3>2
  <2> HIDE DEF info, last
  <2>6. OnlyUnit(wire[t] \o info \o last, x)
    <3>1. wire[t] \in Seq(Text) /\ OnlyUnit(wire[t], x)
      BY <1>0 DEF Track
    <3>2. wire[t] \o info \in Seq(Text) /\ OnlyUnit(wire[t] \o info, x)
      BY <2>5, <3>1, OnlyUnitJoin
    <3> QED
      BY <2>5, <3>2, OnlyUnitJoin
  <2>7. OnlyUnit(wire'[t], x)
    BY <1>0, <2>4, <2>6 DEF Track
  <2>8. Track(t)'
    <3>1. OnlyUnit(wire'[t], sender'[t].unit)
      BY <2>2, <2>7
    <3>2. Track(t) /\ buffer'[t] = buffer[t] /\ held'[t] = held[t] /\ Known' = Known
      BY <1>0, <2>1
    <3> QED
      BY <2>1, <2>2, <3>1, <3>2 DEF Track, Sending
  <2> QED
    BY <1>1, <2>1, <2>2, <2>3, <2>8
<1>11. ASSUME NEW t \in Thread, KeepAliveWakes(t) PROVE TrackInv'
  <2>1. UNCHANGED <<Known, sender, wire, held>>
    BY <1>11 DEF KeepAliveWakes, tables, Known, far
  <2>2. Formatted(t, "keepalive") \/ buffer' = buffer
    BY <1>11 DEF KeepAliveWakes
  <2>3. CASE buffer' = buffer
    BY <1>2, <2>1, <2>3
  <2>4. CASE Formatted(t, "keepalive")
    <3>1. "keepalive" \in Text
      BY DEF Text
    <3>2. /\ buffer'[t] \in {"keepalive", "torn"}
          /\ \A u \in Thread \ {t} : buffer'[u] = buffer[u]
      BY <2>4, <3>1, FormattedType DEF TypeInv
    <3>3. Track(t)'
      BY <1>0, <2>1, <3>2, NameAssumption DEF Track, Sending
    <3> QED
      BY <1>1, <2>1, <3>2, <3>3
  <2> QED
    BY <2>2, <2>3, <2>4
<1>12. ASSUME NEW t \in Thread, PutKeepAlive(t) PROVE TrackInv'
  <2>1. PutBuffer(t) /\ UNCHANGED <<Known, sender, held>>
    BY <1>12 DEF PutKeepAlive, tables, Known, far
  <2>2. /\ buffer'[t] \notin Candidate /\ OnlyUnit(wire'[t], sender[t].unit)
        /\ \A u \in Thread \ {t} : buffer'[u] = buffer[u] /\ wire'[u] = wire[u]
    BY <1>0, <2>1, PutBufferTrack
  <2>3. Track(t)'
    BY <1>0, <2>1, <2>2 DEF Track, Sending
  <2> QED
    BY <1>1, <2>1, <2>2, <2>3
<1>13. ASSUME NEW t \in Thread, KeepAliveEnds(t) PROVE TrackInv'
  BY <1>2, <1>13 DEF KeepAliveEnds, tables, Known, line, far
<1>14. ASSUME NEW t \in Thread, ReadLine(t) PROVE TrackInv'
  <2>1. wire[t] # <<>> /\ UNCHANGED <<Known, sender, buffer>>
    BY <1>14 DEF ReadLine, tables, Known
  <2>2. /\ OnlyUnit(Tail(wire[t]), sender[t].unit)
        /\ Head(wire[t]) \in Candidate => Head(wire[t]) = sender[t].unit
    BY <1>0, <2>1, OnlyUnitTail DEF Track
  <2>3. CASE Head(wire[t]) \in Candidate
    <3>1. held' = [held EXCEPT ![t] = Head(wire[t])] /\ wire' = [wire EXCEPT ![t] = Tail(wire[t])]
      BY <1>14, <2>3 DEF ReadLine
    <3>2. /\ held'[t] = sender[t].unit /\ wire'[t] = Tail(wire[t])
          /\ \A u \in Thread \ {t} : held'[u] = held[u] /\ wire'[u] = wire[u]
      BY <1>0, <2>2, <2>3, <3>1
    <3>3. Track(t)'
      BY <1>0, <2>1, <2>2, <3>2 DEF Track, Sending
    <3> QED
      BY <1>1, <2>1, <3>2, <3>3
  <2>4. CASE Head(wire[t]) \notin Candidate
    <3>1. wire' = [wire EXCEPT ![t] = <<>>] /\ held' = held
      BY <1>14, <2>4 DEF ReadLine
    <3>2. wire'[t] = <<>> /\ \A u \in Thread \ {t} : wire'[u] = wire[u]
      BY <1>0, <3>1
    <3>3. OnlyUnit(wire'[t], sender[t].unit)
      BY <3>2, OnlyUnitNone
    <3>4. Track(t)'
      BY <1>0, <2>1, <3>1, <3>3 DEF Track, Sending
    <3> QED
      BY <1>1, <2>1, <3>1, <3>2, <3>4
  <2> QED
    BY <2>3, <2>4
<1>15. ASSUME NEW t \in Thread, ClientTimesOut(t) PROVE TrackInv'
  BY <1>2, <1>15 DEF ClientTimesOut, tables, Known, line
<1>16. ASSUME NEW c \in Returned, OthersReturn(c) PROVE TrackInv'
  <2>1. UNCHANGED <<Known, buffer, wire, held>>
    BY <1>16 DEF OthersReturn, line, far, Known
  <2> QED
    BY <1>2, <1>16, <2>1, ReturnSender
<1>17. ASSUME UNCHANGED vars PROVE TrackInv'
  BY <1>2, <1>17 DEF vars, tables, Known, line, far
<1> QED
  BY <1>3, <1>4, <1>5, <1>6, <1>7, <1>8, <1>9, <1>10, <1>11, <1>12, <1>13, <1>14, <1>15, <1>16, <1>17
     DEF Next, Send, Select, Finish, Keep

(* Whatever the keep-alive thread makes of the shared buffer and whatever   *)
(* other clients return: a client of a running server holds no unit without *)
(* a record in PendingWork, except while its thread is still sending, or    *)
(* when the COMMIT of that very record failed and was only logged.          *)
THEOREM HeldTracked == Spec => []HeldIsTracked
<1>1. TrackInv => HeldIsTracked
  BY DEF TrackInv, Track, HeldIsTracked, Known
<1> QED
  BY TypeInit, TypeNext, TrackInit, TrackNext, <1>1, PTL DEF Spec
=============================================================================
