----------------------- MODULE ServerLifecycleProofs -----------------------
(***************************************************************************)
(* Theorems of ServerLifecycle, for any connections, peers, files and      *)
(* servers.  The count of the helper threads is the size of a set, which   *)
(* changes by one connection at a time.                                    *)
(***************************************************************************)
EXTENDS ServerLifecycle, FiniteSetTheorems, SequenceTheorems, TLAPS

(* What a helper thread and its peer refer to is there.                     *)
LineThere(c) == helper[c].pc \in {"lookup", "insert", "count"} => helper[c].line \in Line
FileThere(c) == peer[c].file # None => Content[peer[c].file] \in Seq(Line)

TypeInv == TypeOK /\ \A c \in Conn : LineThere(c) /\ FileThere(c)

Handling == {"quitting", "counter", "decide"}

(* The counter against the threads, and what the server thread has read of  *)
(* both shared values against what they are now.                            *)
CountInv ==
  /\ clientCounter = Cardinality(Running)
  /\ clientCounter <= config.maxClients
  /\ acceptor.pc \in Handling => acceptor.conn \in Conn
  /\ acceptor.pc = "decide" =>
       clientCounter <= acceptor.clientsConnected /\ acceptor.quitting = 0
  /\ main # "loop" =>
       /\ quitting = 1
       /\ Cardinality(Running) <= 1
       /\ acceptor.pc \in {"counter", "decide"} /\ acceptor.quitting = 0 => Running = {}

IInv == TypeInv /\ CountInv

-----------------------------------------------------------------------------
(* Steps of one helper thread. *)

(* Thread c goes to pc with line l and view v; the others stay.             *)
Moves(c, pc) ==
  /\ helper' \in [Conn -> Helper]
  /\ helper'[c].pc = pc
  /\ \A d \in Conn \ {c} : helper'[d] = helper[d]

LEMMA GotoMoves ==
  ASSUME NEW c \in Conn, NEW pc \in Live \cup {"closing"},
         helper \in [Conn -> Helper], Goto(c, pc)
  PROVE  Moves(c, pc) /\ helper'[c].line = helper[c].line
<1>1. [helper[c] EXCEPT !.pc = pc] \in Helper
  BY DEF Helper, Live
<1>2. helper' = [helper EXCEPT ![c] = [helper[c] EXCEPT !.pc = pc]]
  BY DEF Goto
<1>3. [helper[c] EXCEPT !.pc = pc].pc = pc /\ [helper[c] EXCEPT !.pc = pc].line = helper[c].line
  BY DEF Helper
<1> QED
  BY <1>1, <1>2, <1>3 DEF Moves

LEMMA TransactionMoves ==
  ASSUME NEW c \in Conn, helper \in [Conn -> Helper], NextTransaction(c)
  PROVE  Moves(c, "next")
<1> DEFINE h == [helper[c] EXCEPT !.pc = "next", !.view = None]
<1>1. h \in Helper /\ h.pc = "next"
  BY DEF Helper, Live
<1>2. helper' = [helper EXCEPT ![c] = h]
  BY DEF NextTransaction
<1> QED
  BY <1>1, <1>2 DEF Moves

LEMMA ViewMoves ==
  ASSUME NEW c \in Conn, NEW pc \in {"insert", "next", "count"}, TypeOK,
         helper' = [helper EXCEPT ![c].pc = pc, ![c].view = ViewOf(c)]
  PROVE  Moves(c, pc) /\ helper'[c].line = helper[c].line
<1> DEFINE h == [helper[c] EXCEPT !.pc = pc, !.view = ViewOf(c)]
<1>1. helper \in [Conn -> Helper] /\ helper[c] \in Helper
  BY DEF TypeOK
<1>2. Now \in View
  BY DEF TypeOK, Now, View
<1>3. ViewOf(c) \in View
  BY <1>1, <1>2 DEF ViewOf, Helper
<1>4. h \in Helper /\ h.pc = pc /\ h.line = helper[c].line
  BY <1>1, <1>3 DEF Helper, Live
<1>5. helper' = [helper EXCEPT ![c] = h]
  OBVIOUS
<1> QED
  BY <1>1, <1>4, <1>5 DEF Moves

LEMMA TakeType ==
  ASSUME NEW c \in Conn, TypeOK, Take(c)
  PROVE  /\ inbox' \in [Conn -> Seq(Words \cup Line)]
         /\ Head(inbox[c]) \in Words \cup Line
<1>1. inbox \in [Conn -> Seq(Words \cup Line)] /\ inbox[c] # <<>>
  BY DEF TypeOK, Take
<1>2. Tail(inbox[c]) \in Seq(Words \cup Line) /\ Head(inbox[c]) \in Words \cup Line
  BY <1>1
<1>3. inbox' = [inbox EXCEPT ![c] = Tail(inbox[c])]
  BY DEF Take
<1> QED
  BY <1>1, <1>2, <1>3

LEMMA AnsweredType ==
  ASSUME NEW c \in Conn, TypeOK, NEW S \in SUBSET Line,
         answered' = [answered EXCEPT ![c] = @ \cup S]
  PROVE  answered' \in [Conn -> SUBSET Line]
  BY DEF TypeOK

(* What every step of a helper thread keeps. *)
HelperTypes ==
  /\ composites' \subseteq Row /\ credited' \subseteq Conn \X Line
  /\ overlooked' \subseteq Conn \X Line
  /\ inbox' \in [Conn -> Seq(Words \cup Line)]
  /\ reply' \in [Conn -> {"none", "ok", "no", "done"}]
  /\ answered' \in [Conn -> SUBSET Line]
  /\ peer' = peer

(* Thread c does something, is counted off, or is gone.                     *)
Works(c) ==
  \E pc \in Live :
    /\ helper[c].pc \in Live /\ clientCounter' = clientCounter
    /\ Moves(c, pc) /\ LineThere(c)'

Leaves(c) ==
  /\ helper[c].pc = "release" /\ clientCounter' = clientCounter - 1
  /\ Moves(c, "closing")

Ends(c) ==
  /\ helper[c].pc = "closing" /\ clientCounter' = clientCounter
  /\ Moves(c, "ended")

LEMMA GotoWorks ==
  ASSUME NEW c \in Conn, NEW pc \in Live \ {"lookup", "insert", "count"}, TypeOK,
         Goto(c, pc), helper[c].pc \in Live, clientCounter' = clientCounter
  PROVE  Works(c)
<1>1. Moves(c, pc)
  BY GotoMoves DEF TypeOK
<1>2. LineThere(c)'
  BY <1>1 DEF Moves, LineThere
<1> QED
  BY <1>1, <1>2 DEF Works

LEMMA SameTypes ==
  ASSUME TypeOK, UNCHANGED <<database, network, peer>>
  PROVE  HelperTypes
  BY DEF TypeOK, HelperTypes, database, network

(* The requests. *)
LEMMA RequestStep ==
  ASSUME TypeInv, NEW c \in Conn,
         \/ Receive(c) \/ ReceiveFirst(c) \/ ConnectDatabase(c) \/ ReceiveRequest(c, config.slave)
         \/ ServeRequest(c) \/ ChangeStatus(c)
  PROVE  HelperTypes /\ Works(c)
<1>0. TypeOK
  BY DEF TypeInv
<1>1. ASSUME NEW pc \in {"first", "request"}, TimesOut(c, pc) PROVE HelperTypes /\ Works(c)
  <2>1. helper[c].pc \in Live /\ Goto(c, "release") /\ clientCounter' = clientCounter
    BY <1>1 DEF TimesOut, At, Live
  <2>2. "release" \in Live \ {"lookup", "insert", "count"}
    BY DEF Live
  <2>3. UNCHANGED <<database, network, peer>>
    BY <1>1 DEF TimesOut
  <2> QED
    BY <1>0, <2>1, <2>2, <2>3, GotoWorks, SameTypes
<1>2. ASSUME ReceiveFirst(c) PROVE HelperTypes /\ Works(c)
  <2>1. PICK pc \in {"page", "connect", "release"} : Goto(c, pc)
    <3>1. CASE Head(inbox[c]) = "GET"
      BY <1>2, <3>1 DEF ReceiveFirst
    <3>2. CASE Head(inbox[c]) = "FROM"
      BY <1>2, <3>2 DEF ReceiveFirst
    <3>3. CASE Head(inbox[c]) \notin {"GET", "FROM"}
      BY <1>2, <3>3 DEF ReceiveFirst
    <3> QED
      BY <3>1, <3>2, <3>3
  <2>2. helper[c].pc \in Live /\ pc \in Live \ {"lookup", "insert", "count"} /\ clientCounter' = clientCounter
    BY <1>2 DEF ReceiveFirst, At, Live
  <2>3. HelperTypes
    BY <1>0, <1>2, TakeType DEF ReceiveFirst, HelperTypes, TypeOK, database
  <2> QED
    BY <1>0, <2>1, <2>2, <2>3, GotoWorks
<1>3. ASSUME ConnectDatabase(c) PROVE HelperTypes /\ Works(c)
  <2>1. PICK pc \in {"request", "work", "release"} : Goto(c, pc)
    BY <1>3 DEF ConnectDatabase
  <2>2. helper[c].pc \in Live /\ pc \in Live \ {"lookup", "insert", "count"} /\ clientCounter' = clientCounter
    BY <1>3 DEF ConnectDatabase, At, Live
  <2>3. HelperTypes
    BY <1>0, <1>3, SameTypes DEF ConnectDatabase
  <2> QED
    BY <1>0, <2>1, <2>2, <2>3, GotoWorks
<1>4. ASSUME ReceiveRequest(c, config.slave) PROVE HelperTypes /\ Works(c)
  <2>1. PICK pc \in {"release", "status", "next", "work"} : Goto(c, pc)
    <3>1. CASE peer[c].kind \in Admin /\ Accepted(c, config.slave)
      BY <1>4, <3>1 DEF ReceiveRequest
    <3>2. CASE peer[c].kind \in Admin /\ ~Accepted(c, config.slave)
      BY <1>4, <3>2 DEF ReceiveRequest
    <3>3. CASE peer[c].kind \notin Admin
      BY <1>4, <3>3 DEF ReceiveRequest
    <3> QED
      BY <3>1, <3>2, <3>3
  <2>2. helper[c].pc \in Live /\ pc \in Live \ {"lookup", "insert", "count"} /\ clientCounter' = clientCounter
    BY <1>4 DEF ReceiveRequest, At, Live
  <2>3. reply' \in [Conn -> {"none", "ok", "no", "done"}]
    BY <1>0, <1>4 DEF ReceiveRequest, TypeOK
  <2>4. HelperTypes
    BY <1>0, <1>4, <2>3, TakeType DEF ReceiveRequest, HelperTypes, TypeOK, database
  <2> QED
    BY <1>0, <2>1, <2>2, <2>4, GotoWorks
<1>5. ASSUME ServeRequest(c) PROVE HelperTypes /\ Works(c)
  <2>1. helper[c].pc \in Live /\ Goto(c, "release") /\ clientCounter' = clientCounter
    BY <1>5 DEF ServeRequest, At, Live
  <2>2. "release" \in Live \ {"lookup", "insert", "count"}
    BY DEF Live
  <2>3. <<>> \in Seq(Words \cup Line)
    OBVIOUS
  <2>4. inbox' \in [Conn -> Seq(Words \cup Line)]
    BY <1>0, <1>5, <2>3 DEF ServeRequest, TypeOK
  <2>5. HelperTypes
    BY <1>0, <1>5, <2>4 DEF ServeRequest, HelperTypes, TypeOK, database
  <2> QED
    BY <1>0, <2>1, <2>2, <2>5, GotoWorks
<1>6. ASSUME ChangeStatus(c) PROVE HelperTypes /\ Works(c)
  <2>1. helper[c].pc \in Live /\ Goto(c, "release") /\ clientCounter' = clientCounter
    BY <1>6 DEF ChangeStatus, At, Live
  <2>2. "release" \in Live \ {"lookup", "insert", "count"}
    BY DEF Live
  <2>3. HelperTypes
    BY <1>0, <1>6, SameTypes DEF ChangeStatus
  <2> QED
    BY <1>0, <2>1, <2>2, <2>3, GotoWorks
<1> QED
  BY <1>1, <1>2, <1>3, <1>4, <1>5, <1>6 DEF Receive

(* The lines of a file. *)
LEMMA LineStep ==
  ASSUME TypeInv, NEW c \in Conn, Finish(c) \/ ReceiveLine(c)
  PROVE  HelperTypes /\ Works(c)
<1>0. TypeOK
  BY DEF TypeInv
<1>1. ASSUME Finish(c) PROVE HelperTypes /\ Works(c)
  <2>1. helper[c].pc \in Live /\ Goto(c, "release") /\ clientCounter' = clientCounter
    BY <1>1 DEF Finish, At, Live
  <2>2. "release" \in Live \ {"lookup", "insert", "count"}
    BY DEF Live
  <2>3. inbox' \in [Conn -> Seq(Words \cup Line)]
    BY <1>0, <1>1, TakeType DEF Finish, TypeOK
  <2>4. reply' \in [Conn -> {"none", "ok", "no", "done"}]
    BY <1>0, <1>1 DEF Finish, TypeOK
  <2>5. HelperTypes
    BY <1>0, <1>1, <2>3, <2>4 DEF Finish, HelperTypes, TypeOK, database
  <2> QED
    BY <1>0, <2>1, <2>2, <2>5, GotoWorks
<1>2. ASSUME ReceiveLine(c) PROVE HelperTypes /\ Works(c)
  <2> DEFINE l == Head(inbox[c])
             h == [helper[c] EXCEPT !.pc = "lookup", !.line = l]
  <2>1. /\ l \in Line /\ helper[c].pc = "next" /\ clientCounter' = clientCounter
        /\ helper' = [helper EXCEPT ![c] = h]
    BY <1>2 DEF ReceiveLine, At
  <2>2. helper \in [Conn -> Helper]
    BY <1>0 DEF TypeOK
  <2>3. h \in Helper /\ h.pc = "lookup" /\ h.line = l
    BY <2>1, <2>2 DEF Helper, Live
  <2>4. Moves(c, "lookup") /\ helper'[c].line \in Line
    BY <2>1, <2>2, <2>3 DEF Moves
  <2>5. HelperTypes
    BY <1>0, <1>2, TakeType DEF ReceiveLine, HelperTypes, TypeOK, database
  <2>6. "lookup" \in Live /\ "next" \in Live
    BY DEF Live
  <2> QED
    BY <2>1, <2>4, <2>5, <2>6 DEF Works, LineThere
<1> QED
  BY <1>1, <1>2

LEMMA CompositesStep ==
  ASSUME TypeInv, NEW c \in Conn, Composites(c)
  PROVE  HelperTypes /\ Works(c)
<1>0. TypeOK
  BY DEF TypeInv
<1>1. "next" \in Live /\ "insert" \in Live /\ "lookup" \in Live
  BY DEF Live
<1>2. ASSUME LookUpComposite(c) PROVE HelperTypes /\ Works(c)
  <2>1. helper[c].pc = "lookup" /\ clientCounter' = clientCounter /\ helper[c].line \in Line
    BY <1>2 DEF LookUpComposite, At, TypeInv, LineThere
  <2>2. \E pc \in {"insert", "next"} :
          helper' = [helper EXCEPT ![c].pc = pc, ![c].view = ViewOf(c)]
    BY <1>2 DEF LookUpComposite
  <2>3. PICK pc \in {"insert", "next"} : Moves(c, pc) /\ helper'[c].line = helper[c].line
    BY <1>0, <2>2, ViewMoves
  <2>4. MessageFor(helper[c].line) \in SUBSET Line
    BY <2>1 DEF MessageFor
  <2>5. answered' \in [Conn -> SUBSET Line]
    BY <1>0, <1>2, <2>4, AnsweredType DEF LookUpComposite, TypeOK
  <2>6. HelperTypes
    BY <1>0, <1>2, <2>5 DEF LookUpComposite, HelperTypes, TypeOK, database
  <2> QED
    BY <1>1, <2>1, <2>3, <2>6 DEF Works, LineThere
<1>3. ASSUME InsertComposite(c) PROVE HelperTypes /\ Works(c)
  <2>1. helper[c].pc = "insert" /\ clientCounter' = clientCounter /\ helper[c].line \in Line
    BY <1>3 DEF InsertComposite, At, TypeInv, LineThere
  <2>2. Moves(c, "next")
    BY <1>0, <1>3, TransactionMoves DEF InsertComposite, TypeOK
  <2>3. composites' \subseteq Row /\ overlooked' \subseteq Conn \X Line
    BY <1>0, <1>3, <2>1 DEF InsertComposite, TypeOK, Row
  <2>4. HelperTypes
    BY <1>0, <1>3, <2>3 DEF InsertComposite, HelperTypes, TypeOK, network
  <2> QED
    BY <1>1, <2>1, <2>2, <2>4 DEF Works, LineThere, Moves
<1>4. ASSUME InsertFails(c) PROVE HelperTypes /\ Works(c)
  <2>1. helper[c].pc = "insert" /\ clientCounter' = clientCounter /\ helper[c].line \in Line
    BY <1>4 DEF InsertFails, At, TypeInv, LineThere
  <2>2. Moves(c, "next")
    BY <1>0, <1>4, TransactionMoves DEF InsertFails, TypeOK
  <2>3. {helper[c].line} \in SUBSET Line
    BY <2>1
  <2>4. answered' \in [Conn -> SUBSET Line]
    BY <1>0, <1>4, <2>3, AnsweredType DEF InsertFails
  <2>5. HelperTypes
    BY <1>0, <1>4, <2>4 DEF InsertFails, HelperTypes, TypeOK, database
  <2> QED
    BY <1>1, <2>1, <2>2, <2>5 DEF Works, LineThere, Moves
<1> QED
  BY <1>2, <1>3, <1>4 DEF Composites

LEMMA CurvesStep ==
  ASSUME TypeInv, NEW c \in Conn, Curves(c)
  PROVE  HelperTypes /\ Works(c)
<1>0. TypeOK
  BY DEF TypeInv
<1>1. {"next", "count", "lookup", "spinning"} \subseteq Live
  BY DEF Live
<1>2. ASSUME RejectCurves(c) PROVE HelperTypes /\ Works(c)
  <2>1. helper[c].pc \in Live /\ Goto(c, "spinning") /\ clientCounter' = clientCounter
    BY <1>2 DEF RejectCurves, At, Live
  <2>2. "spinning" \in Live \ {"lookup", "insert", "count"}
    BY DEF Live
  <2>3. HelperTypes
    BY <1>0, <1>2, SameTypes DEF RejectCurves
  <2> QED
    BY <1>0, <2>1, <2>2, <2>3, GotoWorks
<1>3. ASSUME LookUpCurves(c) PROVE HelperTypes /\ Works(c)
  <2>1. helper[c].pc = "lookup" /\ clientCounter' = clientCounter /\ helper[c].line \in Line
    BY <1>3 DEF LookUpCurves, At, TypeInv, LineThere
  <2>2. \E pc \in {"count", "next"} :
          helper' = [helper EXCEPT ![c].pc = pc, ![c].view = ViewOf(c)]
    BY <1>3 DEF LookUpCurves
  <2>3. PICK pc \in {"count", "next"} : Moves(c, pc) /\ helper'[c].line = helper[c].line
    BY <1>0, <2>2, ViewMoves
  <2>4. {helper[c].line} \in SUBSET Line
    BY <2>1
  <2>5. answered' \in [Conn -> SUBSET Line]
    BY <1>0, <1>3, <2>4, AnsweredType DEF LookUpCurves, TypeOK
  <2>6. HelperTypes
    BY <1>0, <1>3, <2>5 DEF LookUpCurves, HelperTypes, TypeOK, database
  <2> QED
    BY <1>1, <2>1, <2>3, <2>6 DEF Works, LineThere
<1>4. ASSUME CountCurves(c) PROVE HelperTypes /\ Works(c)
  <2>1. helper[c].pc = "count" /\ clientCounter' = clientCounter /\ helper[c].line \in Line
    BY <1>4 DEF CountCurves, At, TypeInv, LineThere
  <2>2. Moves(c, "next")
    BY <1>0, <1>4, TransactionMoves DEF CountCurves, TypeOK
  <2>3. credited' \subseteq Conn \X Line
    BY <1>0, <1>4, <2>1 DEF CountCurves, TypeOK
  <2>4. HelperTypes
    BY <1>0, <1>4, <2>3 DEF CountCurves, HelperTypes, TypeOK, network
  <2> QED
    BY <1>1, <2>1, <2>2, <2>4 DEF Works, LineThere, Moves
<1>5. ASSUME CountFails(c) PROVE HelperTypes /\ Works(c)
  <2>1. helper[c].pc = "count" /\ clientCounter' = clientCounter
    BY <1>5 DEF CountFails, At
  <2>2. Moves(c, "next")
    BY <1>0, <1>5, TransactionMoves DEF CountFails, TypeOK
  <2>3. HelperTypes
    BY <1>0, <1>5, SameTypes DEF CountFails
  <2> QED
    BY <1>1, <2>1, <2>2, <2>3 DEF Works, LineThere, Moves
<1> QED
  BY <1>2, <1>3, <1>4, <1>5 DEF Curves

LEMMA EndStep ==
  ASSUME TypeInv, NEW c \in Conn, ReleaseResources(c) \/ CloseConnection(c)
  PROVE  HelperTypes /\ (Leaves(c) \/ Ends(c))
<1>0. TypeOK
  BY DEF TypeInv
<1>1. ASSUME ReleaseResources(c) PROVE HelperTypes /\ Leaves(c)
  <2>1. Moves(c, "closing")
    BY <1>0, <1>1, GotoMoves DEF ReleaseResources, TypeOK
  <2> QED
    BY <1>0, <1>1, <2>1, SameTypes DEF ReleaseResources, Leaves, At, CounterAfter
<1>2. ASSUME CloseConnection(c) PROVE HelperTypes /\ Ends(c)
  <2> DEFINE h == [pc |-> "ended", line |-> None, view |-> None]
  <2>1. h \in Helper /\ h.pc = "ended"
    BY DEF Helper
  <2>2. helper' = [helper EXCEPT ![c] = h] /\ helper \in [Conn -> Helper]
    BY <1>0, <1>2 DEF CloseConnection, TypeOK
  <2>3. Moves(c, "ended")
    BY <2>1, <2>2 DEF Moves
  <2> QED
    BY <1>0, <1>2, <2>3, SameTypes DEF CloseConnection, Ends, At
<1> QED
  BY <1>1, <1>2

LEMMA HelpStep ==
  ASSUME TypeInv, NEW c \in Conn, Help(c)
  PROVE  HelperTypes /\ (Works(c) \/ Leaves(c) \/ Ends(c))
  BY RequestStep, LineStep, CompositesStep, CurvesStep, EndStep DEF Help, HandleRequest

-----------------------------------------------------------------------------
(* Steps of a peer. *)

(* A file whose first line names another file is opened under that name.    *)
LEMMA FileOfPrompt ==
  ASSUME NEW f \in File, Content[f] # <<>>, PromptForValue(f) \in File
  PROVE  Content[PromptForValue(f)] \in Seq(Line)
<1>1. Content[f] \in Seq(Line) \cup {<<g>> : g \in File}
  BY LineAssumption
<1>2. ASSUME Content[f] \in Seq(Line) PROVE FALSE
  <2>1. Head(Content[f]) \in Line
    BY <1>2
  <2> QED
    BY <2>1, LineAssumption DEF PromptForValue
<1>3. PICK g \in File : Content[f] = <<g>>
  BY <1>1, <1>2
<1>4. PromptForValue(f) = g
  BY <1>3 DEF PromptForValue
<1> QED
  BY <1>3, <1>4, LineAssumption

LEMMA Joined ==
  ASSUME NEW S, NEW T, S \subseteq T, NEW a \in Seq(T), NEW b \in Seq(S), NEW x \in T
  PROVE  a \o b \o <<x>> \in Seq(T)
<1>1. b \in Seq(T)
  BY SeqDef
<1>2. a \o b \in Seq(T)
  BY <1>1
<1>3. Append(a \o b, x) \in Seq(T)
  BY <1>2
<1>4. a \o b \o <<x>> = Append(a \o b, x)
  BY <1>2
<1> QED
  BY <1>3, <1>4

LEMMA TalkStep ==
  ASSUME TypeInv, NEW c \in Conn, Talk(c)
  PROVE  /\ UNCHANGED <<clientCounter, helper, database, reply, answered>>
         /\ inbox' \in [Conn -> Seq(Words \cup Line)]
         /\ peer' \in [Conn -> Peer]
         /\ \A d \in Conn : FileThere(d)'
<1> USE DEF Words
<1>0. TypeOK /\ \A d \in Conn : FileThere(d)
  BY DEF TypeInv
<1>p. peer \in [Conn -> Peer] /\ inbox \in [Conn -> Seq(Words \cup Line)]
  BY <1>0 DEF TypeOK
<1> DEFINE Good == /\ UNCHANGED <<clientCounter, helper, database, reply, answered>>
                   /\ inbox' \in [Conn -> Seq(Words \cup Line)]
                   /\ peer' \in [Conn -> Peer]
                   /\ \A d \in Conn : FileThere(d)'
(* The peer record changes and the file it reads, if any, is a list.        *)
<1>q. ASSUME NEW r \in Peer, peer' = [peer EXCEPT ![c] = r],
             r.file # None => Content[r.file] \in Seq(Line)
      PROVE  peer' \in [Conn -> Peer] /\ \A d \in Conn : FileThere(d)'
  <2>1. peer'[c] = r /\ \A d \in Conn \ {c} : peer'[d] = peer[d]
    BY <1>p, <1>q
  <2> QED
    BY <1>p, <1>0, <1>q, <2>1 DEF FileThere
<1>1. ASSUME EnterServer(c) \/ EnterPassword(c) PROVE Good
  <2>1. PICK p \in {"", "right", "wrong"} : peer' = [peer EXCEPT ![c] = [peer[c] EXCEPT !.password = p]]
    BY <1>1 DEF EnterServer, EnterPassword
  <2>2. /\ [peer[c] EXCEPT !.password = p] \in Peer
        /\ [peer[c] EXCEPT !.password = p].file = peer[c].file
    BY <1>p DEF Peer
  <2>3. UNCHANGED <<clientCounter, helper, database, network>>
    BY <1>1 DEF EnterServer, EnterPassword
  <2> QED
    BY <1>p, <1>q, <1>0, <2>1, <2>2, <2>3 DEF FileThere, network
<1>2. ASSUME ChooseOption(c) PROVE Good
  <2>1. PICK k \in Kinds[c] \cap Admin, f \in File :
          /\ Content[f] # <<>>
          /\ peer' = [peer EXCEPT ![c] = [peer[c] EXCEPT !.pc = "verify", !.kind = k, !.file =
               IF k # "status" /\ PromptForValue(f) \in File THEN PromptForValue(f) ELSE None]]
    BY <1>2 DEF ChooseOption
  <2> DEFINE g == IF k # "status" /\ PromptForValue(f) \in File THEN PromptForValue(f) ELSE None
             r == [peer[c] EXCEPT !.pc = "verify", !.kind = k, !.file = g]
  <2>2. g \in File \cup {None} /\ (g # None => Content[g] \in Seq(Line))
    BY <2>1, FileOfPrompt
  <2>3. k \in Admin \cup Worker \cup {None}
    OBVIOUS
  <2> HIDE DEF g
  <2>4. r \in Peer /\ r.file = g
    BY <1>p, <2>2, <2>3 DEF Peer
  <2>5. peer' = [peer EXCEPT ![c] = r]
    BY <2>1 DEF g
  <2>6. <<"FROM", "request">> \in Seq(Words \cup Line)
    OBVIOUS
  <2>7. inbox' \in [Conn -> Seq(Words \cup Line)]
    BY <1>p, <1>2, <2>6 DEF ChooseOption
  <2> HIDE DEF r
  <2> QED
    BY <1>2, <1>q, <2>2, <2>4, <2>5, <2>7 DEF ChooseOption
<1>3. ASSUME SendFile(c) PROVE Good
  <2>1. CASE peer[c].file = None
    <3>1. /\ [peer[c] EXCEPT !.pc = "crashed"] \in Peer
          /\ [peer[c] EXCEPT !.pc = "crashed"].file = peer[c].file
      BY <1>p DEF Peer
    <3>2. peer' = [peer EXCEPT ![c] = [peer[c] EXCEPT !.pc = "crashed"]] /\ UNCHANGED inbox
      BY <1>3, <2>1 DEF SendFile
    <3> QED
      BY <1>p, <1>q, <1>3, <2>1, <3>1, <3>2 DEF SendFile
  <2>2. CASE peer[c].file # None
    <3>1. /\ [peer[c] EXCEPT !.pc = "wait"] \in Peer
          /\ [peer[c] EXCEPT !.pc = "wait"].file = peer[c].file
      BY <1>p DEF Peer
    <3>2. peer' = [peer EXCEPT ![c] = [peer[c] EXCEPT !.pc = "wait"]]
      BY <1>3, <2>2 DEF SendFile
    <3>3. Content[peer[c].file] \in Seq(Line)
      BY <1>0, <2>2 DEF FileThere
    <3>4. inbox[c] \o Content[peer[c].file] \o <<"No more">> \in Seq(Words \cup Line)
      <4>1. inbox[c] \in Seq(Words \cup Line) /\ "No more" \in Words \cup Line
        BY <1>p
      <4> QED
        BY <3>3, <4>1, Joined
    <3>5. inbox' = [inbox EXCEPT ![c] = inbox[c] \o Content[peer[c].file] \o <<"No more">>]
      BY <1>3, <2>2 DEF SendFile
    <3>6. inbox' \in [Conn -> Seq(Words \cup Line)]
      BY <1>p, <3>4, <3>5
    <3> QED
      BY <1>q, <1>3, <3>1, <3>2, <3>3, <3>6 DEF SendFile
  <2> QED
    BY <2>1, <2>2
<1>4. ASSUME ReadDone(c) PROVE Good
  <2>1. /\ [peer[c] EXCEPT !.pc = "verified"] \in Peer
        /\ [peer[c] EXCEPT !.pc = "verified"].file = peer[c].file
    BY <1>p DEF Peer
  <2>2. peer' = [peer EXCEPT ![c] = [peer[c] EXCEPT !.pc = "verified"]]
    BY <1>4 DEF ReadDone
  <2> QED
    BY <1>p, <1>q, <1>0, <1>4, <2>1, <2>2 DEF FileThere, network, ReadDone
<1>5. ASSUME GiveUp(c) PROVE Good
  <2> DEFINE r == [pc |-> "unverified", kind |-> None, password |-> "", file |-> None]
  <2>1. r \in Peer /\ r.file = None
    BY DEF Peer
  <2> QED
    BY <1>p, <1>q, <1>5, <2>1 DEF GiveUp, network
<1>6. ASSUME Connect(c) PROVE Good
  <2>1. PICK k \in Kinds[c] \cap Worker :
          /\ peer' = [peer EXCEPT ![c] = [peer[c] EXCEPT !.pc = "served", !.kind = k]]
          /\ inbox' = [inbox EXCEPT ![c] = CASE k = "browser" -> <<"GET", "Connection">>
                                             [] k = "client"  -> <<"FROM", "request">>
                                             [] OTHER         -> <<"junk">>]
    BY <1>6 DEF Connect
  <2> DEFINE r == [peer[c] EXCEPT !.pc = "served", !.kind = k]
  <2>2. r \in Peer /\ r.file = peer[c].file
    BY <1>p DEF Peer
  <2>3. /\ <<"GET", "Connection">> \in Seq(Words \cup Line)
        /\ <<"FROM", "request">> \in Seq(Words \cup Line)
        /\ <<"junk">> \in Seq(Words \cup Line)
    OBVIOUS
  <2>4. \E s \in Seq(Words \cup Line) : inbox' = [inbox EXCEPT ![c] = s]
    BY <2>1, <2>3
  <2>5. inbox' \in [Conn -> Seq(Words \cup Line)]
    BY <1>p, <2>4
  <2>6. peer' = [peer EXCEPT ![c] = r]
    BY <2>1
  <2> HIDE DEF r
  <2> QED
    BY <1>q, <1>0, <1>6, <2>2, <2>5, <2>6 DEF Connect, FileThere
<1> QED
  BY <1>1, <1>2, <1>3, <1>4, <1>5, <1>6 DEF Talk

-----------------------------------------------------------------------------
(***************************************************************************)
(* Type correctness, but for the counter.                                  *)
(***************************************************************************)
TypesButCounter ==
  /\ composites \subseteq Row /\ credited \subseteq Conn \X Line
  /\ overlooked \subseteq Conn \X Line
  /\ helper \in [Conn -> Helper]
  /\ inbox \in [Conn -> Seq(Words \cup Line)]
  /\ reply \in [Conn -> {"none", "ok", "no", "done"}]
  /\ answered \in [Conn -> SUBSET Line]
  /\ peer \in [Conn -> Peer]
  /\ config \in Configs /\ up \in BOOLEAN /\ quitting \in 0..1
  /\ main \in {"loop", "free", "return"}
  /\ acceptor \in Acceptor
  /\ \A c \in Conn : LineThere(c) /\ FileThere(c)

LEMMA AcceptingType == Accepting \in Acceptor
  BY DEF Accepting, Acceptor

(* The helper threads and their peers stay as they are. *)
LEMMA SameHelpers ==
  ASSUME TypeInv, UNCHANGED helperVars
  PROVE  /\ composites' \subseteq Row /\ credited' \subseteq Conn \X Line
         /\ overlooked' \subseteq Conn \X Line
         /\ helper' \in [Conn -> Helper]
         /\ inbox' \in [Conn -> Seq(Words \cup Line)]
         /\ reply' \in [Conn -> {"none", "ok", "no", "done"}]
         /\ answered' \in [Conn -> SUBSET Line]
         /\ peer' \in [Conn -> Peer]
         /\ \A c \in Conn : LineThere(c)' /\ FileThere(c)'
  BY DEF TypeInv, TypeOK, helperVars, database, network, LineThere, FileThere

LEMMA StartMoves ==
  ASSUME TypeInv, NEW c \in Conn, StartThread(c)
  PROVE  /\ helper[c].pc = "none" /\ clientCounter' = clientCounter + 1
         /\ Moves(c, "first") /\ HelperTypes
         /\ \A d \in Conn : LineThere(d)' /\ FileThere(d)'
<1>1. helper \in [Conn -> Helper] /\ TypeOK
  BY DEF TypeInv, TypeOK
<1>2. "first" \in Live \cup {"closing"}
  BY DEF Live
<1>3. Moves(c, "first")
  BY <1>1, <1>2, GotoMoves DEF StartThread
<1>4. HelperTypes
  BY <1>1, SameTypes DEF StartThread
<1>5. \A d \in Conn : LineThere(d)' /\ FileThere(d)'
  BY <1>3 DEF Moves, LineThere, FileThere, StartThread, TypeInv
<1> QED
  BY <1>3, <1>4, <1>5 DEF StartThread, At

LEMMA AcceptTypes ==
  ASSUME IInv, Accept \/ \E c \in Conn : AcceptMessage(c)
  PROVE  TypesButCounter'
<1>0. TypeInv /\ TypeOK /\ CountInv
  BY DEF IInv, TypeInv
<1>1. ASSUME NEW c \in Conn, AcceptMessage(c) PROVE TypesButCounter'
  <2>1. acceptor' \in Acceptor
    BY <1>0, <1>1 DEF AcceptMessage, TypeOK, Acceptor
  <2> QED
    BY <1>0, <1>1, <2>1, SameHelpers DEF TypesButCounter, AcceptMessage, TypeOK
<1>2. ASSUME ReadQuitting PROVE TypesButCounter'
  <2>1. acceptor' \in Acceptor
    BY <1>0, <1>2 DEF ReadQuitting, TypeOK, Acceptor
  <2> QED
    BY <1>0, <1>2, <2>1, SameHelpers DEF TypesButCounter, ReadQuitting, TypeOK
<1>3. ASSUME ReadCounter PROVE TypesButCounter'
  <2>1. acceptor' \in Acceptor
    BY <1>0, <1>3 DEF ReadCounter, TypeOK, Acceptor
  <2> QED
    BY <1>0, <1>3, <2>1, SameHelpers DEF TypesButCounter, ReadCounter, TypeOK
<1>4. ASSUME RejectConnection PROVE TypesButCounter'
  <2>1. reply' \in [Conn -> {"none", "ok", "no", "done"}]
    BY <1>0, <1>4 DEF RejectConnection, TypeOK
  <2>2. \A c \in Conn : LineThere(c)' /\ FileThere(c)'
    BY <1>0, <1>4 DEF RejectConnection, TypeInv, LineThere, FileThere
  <2> QED
    BY <1>0, <1>4, <2>1, <2>2, AcceptingType DEF TypesButCounter, RejectConnection, TypeOK, database
<1>5. ASSUME StartHelper PROVE TypesButCounter'
  <2>1. acceptor.conn \in Conn
    BY <1>0, <1>5 DEF CountInv, Handling, StartHelper
  <2>2. StartThread(acceptor.conn)
    BY <1>5 DEF StartHelper
  <2>3. /\ Moves(acceptor.conn, "first") /\ HelperTypes
        /\ \A d \in Conn : LineThere(d)' /\ FileThere(d)'
    BY <1>0, <2>1, <2>2, StartMoves
  <2> QED
    BY <1>0, <1>5, <2>3, AcceptingType DEF TypesButCounter, StartHelper, TypeOK, HelperTypes, Moves
<1> QED
  BY <1>1, <1>2, <1>3, <1>4, <1>5 DEF Accept

LEMMA MainTypes ==
  ASSUME TypeInv, MainLoop \/ HandlerRoutine \/ SetQuitting
  PROVE  TypesButCounter'
<1>0. TypeOK
  BY DEF TypeInv
<1>1. /\ UNCHANGED <<helperVars, config, acceptor>>
      /\ up' \in BOOLEAN /\ quitting' \in 0..1 /\ main' \in {"loop", "free", "return"}
  <2> USE <1>0 DEF TypeOK
  <2>1. CASE LeaveLoop
    BY <2>1 DEF LeaveLoop
  <2>2. CASE FreeObjects
    BY <2>2 DEF FreeObjects
  <2>3. CASE Return
    BY <2>3 DEF Return
  <2>4. CASE HandlerRoutine
    BY <2>4 DEF HandlerRoutine
  <2>5. CASE SetQuitting
    <3>1. UNCHANGED <<helperVars, config, acceptor, main>> /\ up' \in BOOLEAN /\ quitting' = 1
      BY <2>5 DEF SetQuitting
    <3> QED
      BY <3>1
  <2> QED
    BY <2>1, <2>2, <2>3, <2>4, <2>5 DEF MainLoop
<1> QED
  BY <1>0, <1>1, SameHelpers DEF TypesButCounter, TypeOK

LEMMA HelpTypes ==
  ASSUME TypeInv, NEW c \in Conn, Help(c)
  PROVE  TypesButCounter'
<1>1. HelperTypes /\ (Works(c) \/ Leaves(c) \/ Ends(c))
  BY HelpStep
<1>2. helper' \in [Conn -> Helper] /\ \A d \in Conn : LineThere(d)'
  <2>1. CASE Works(c)
    BY <2>1 DEF Works, Moves, LineThere, TypeInv
  <2>2. CASE Leaves(c) \/ Ends(c)
    BY <2>2 DEF Leaves, Ends, Moves, LineThere, TypeInv
  <2> QED
    BY <1>1, <2>1, <2>2
<1>3. UNCHANGED <<peer, config, up, quitting, main, acceptor>>
  BY <1>1 DEF HelperTypes, Help, lifeVars
<1>4. \A d \in Conn : FileThere(d)'
  BY <1>3 DEF FileThere, TypeInv
<1> QED
  BY <1>1, <1>2, <1>3, <1>4 DEF TypesButCounter, HelperTypes, TypeInv, TypeOK

LEMMA TalkTypes ==
  ASSUME TypeInv, NEW c \in Conn, Talk(c), UNCHANGED lifeVars
  PROVE  TypesButCounter'
<1>1. /\ UNCHANGED <<clientCounter, helper, database, reply, answered>>
      /\ inbox' \in [Conn -> Seq(Words \cup Line)]
      /\ peer' \in [Conn -> Peer]
      /\ \A d \in Conn : FileThere(d)'
  BY TalkStep
<1>2. \A d \in Conn : LineThere(d)'
  BY <1>1 DEF LineThere, TypeInv
<1> QED
  BY <1>1, <1>2 DEF TypesButCounter, TypeInv, TypeOK, lifeVars, database

-----------------------------------------------------------------------------
(***************************************************************************)
(* The count.                                                              *)
(***************************************************************************)
LEMMA RunningFinite == IsFiniteSet(Running) /\ Cardinality(Running) \in Nat
<1>1. Running \subseteq Conn
  BY DEF Running
<1> QED
  BY <1>1, ConnAssumption, FS_Subset, FS_CardinalityType

LEMMA RunningStart ==
  ASSUME TypeInv, NEW c \in Conn, StartThread(c)
  PROVE  /\ Running' = Running \cup {c}
         /\ Cardinality(Running') = Cardinality(Running) + 1
<1>1. helper[c].pc = "none" /\ Moves(c, "first")
  BY StartMoves
<1>2. c \notin Running
  BY <1>1 DEF Running, Live
<1>3. Running' = Running \cup {c}
  BY <1>1 DEF Running, Moves, Live
<1> QED
  BY <1>2, <1>3, RunningFinite, FS_AddElement

LEMMA RunningLeaves ==
  ASSUME TypeInv, NEW c \in Conn, Leaves(c)
  PROVE  /\ Running' = Running \ {c}
         /\ Cardinality(Running') = Cardinality(Running) - 1
<1>1. c \in Running
  BY DEF Running, Leaves, Live
<1>2. Running' = Running \ {c}
  BY DEF Running, Leaves, Moves, Live
<1> QED
  BY <1>1, <1>2, RunningFinite, FS_RemoveElement

LEMMA RunningSame ==
  ASSUME TypeInv, NEW c \in Conn, Works(c) \/ Ends(c)
  PROVE  Running' = Running
<1>1. CASE Works(c)
  BY <1>1 DEF Running, Works, Moves
<1>2. CASE Ends(c)
  BY <1>2 DEF Running, Ends, Moves, Live
<1> QED
  BY <1>1, <1>2

LEMMA HelpCounts ==
  ASSUME IInv, NEW c \in Conn, Help(c)
  PROVE  CountInv'
<1>0. TypeInv /\ CountInv /\ UNCHANGED <<config, up, quitting, main, acceptor>>
  BY DEF IInv, Help, lifeVars
<1>1. Works(c) \/ Leaves(c) \/ Ends(c)
  BY <1>0, HelpStep
<1>2. CASE Works(c) \/ Ends(c)
  <2>1. Running' = Running /\ clientCounter' = clientCounter
    BY <1>0, <1>2, RunningSame DEF Works, Ends
  <2> QED
    BY <1>0, <2>1 DEF CountInv
<1>3. CASE Leaves(c)
  <2>1. /\ Running' = Running \ {c} /\ Cardinality(Running') = Cardinality(Running) - 1
        /\ clientCounter' = clientCounter - 1
    BY <1>0, <1>3, RunningLeaves DEF Leaves
  <2>2. Running = {} => Running' = {}
    BY <2>1
  <2>3. Cardinality(Running) \in Nat /\ config.maxClients \in Nat /\ acceptor.clientsConnected \in Nat
    BY <1>0, RunningFinite, ConfigAssumption DEF TypeInv, TypeOK, Acceptor
  <2> QED
    BY <1>0, <2>1, <2>2, <2>3 DEF CountInv
<1> QED
  BY <1>1, <1>2, <1>3

LEMMA AcceptCounts ==
  ASSUME IInv, Accept \/ \E c \in Conn : AcceptMessage(c)
  PROVE  CountInv'
<1>0. TypeInv /\ TypeOK /\ CountInv /\ acceptor \in Acceptor
  BY DEF IInv, TypeInv, TypeOK
<1>n. /\ Cardinality(Running) \in Nat /\ config.maxClients \in Nat
      /\ acceptor.clientsConnected \in Nat /\ quitting \in 0..1
  BY <1>0, RunningFinite, ConfigAssumption DEF TypeOK, Acceptor
<1>1. ASSUME NEW c \in Conn, AcceptMessage(c) PROVE CountInv'
  <2>1. UNCHANGED <<helper, clientCounter, config, quitting, main>>
    BY <1>1 DEF AcceptMessage, helperVars
  <2>2. acceptor'.pc = "quitting" /\ acceptor'.conn = c
    BY <1>0, <1>1 DEF AcceptMessage, Acceptor
  <2> QED
    BY <1>0, <1>1, <2>1, <2>2 DEF CountInv, Running, Handling
<1>2. ASSUME ReadQuitting PROVE CountInv'
  <2>1. UNCHANGED <<helper, clientCounter, config, quitting, main>>
    BY <1>2 DEF ReadQuitting, helperVars
  <2>2. /\ acceptor'.pc = "counter" /\ acceptor'.conn = acceptor.conn
        /\ acceptor'.quitting = quitting /\ acceptor.pc = "quitting"
    BY <1>0, <1>2 DEF ReadQuitting, Acceptor
  <2> QED
    BY <1>0, <2>1, <2>2 DEF CountInv, Running, Handling
<1>3. ASSUME ReadCounter PROVE CountInv'
  <2>1. UNCHANGED <<helper, clientCounter, config, quitting, main>>
    BY <1>3 DEF ReadCounter, helperVars
  <2>2. /\ acceptor'.pc = IF acceptor.quitting > 0 THEN "left" ELSE "decide"
        /\ acceptor'.conn = acceptor.conn /\ acceptor.pc = "counter"
        /\ acceptor'.clientsConnected = clientCounter
        /\ acceptor'.quitting = acceptor.quitting /\ acceptor.quitting \in 0..1
    BY <1>0, <1>3 DEF ReadCounter, Acceptor
  <2> QED
    BY <1>0, <1>n, <2>1, <2>2 DEF CountInv, Running, Handling
<1>4. ASSUME RejectConnection PROVE CountInv'
  <2>1. UNCHANGED <<helper, clientCounter, config, quitting, main>>
    BY <1>4 DEF RejectConnection
  <2>2. acceptor'.pc = "accept"
    BY <1>4 DEF RejectConnection, Accepting
  <2> QED
    BY <1>0, <2>1, <2>2 DEF CountInv, Running, Handling
<1>5. ASSUME StartHelper PROVE CountInv'
  <2> DEFINE c == acceptor.conn
  <2>1. /\ acceptor.pc = "decide" /\ ~ServerFull(acceptor.clientsConnected) /\ StartThread(c)
        /\ acceptor'.pc = "accept" /\ UNCHANGED <<config, quitting, main>>
    BY <1>5 DEF StartHelper, Accepting
  <2>2. c \in Conn
    BY <1>0, <2>1 DEF CountInv, Handling
  <2>3. /\ Running' = Running \cup {c} /\ Cardinality(Running') = Cardinality(Running) + 1
        /\ clientCounter' = clientCounter + 1
    BY <1>0, <2>1, <2>2, RunningStart DEF StartThread
  <2>4. clientCounter' <= config.maxClients
    BY <1>0, <1>n, <2>1, <2>3 DEF CountInv, ServerFull
  <2>5. main # "loop" => Cardinality(Running') <= 1
    <3>1. Cardinality({}) = 0
      BY FS_EmptySet
    <3>2. main # "loop" => Running = {}
      BY <1>0, <2>1 DEF CountInv
    <3>3. main # "loop" => Cardinality(Running) = 0
      BY <3>1, <3>2
    <3> QED
      BY <2>3, <3>3
  <2> QED
    BY <1>0, <2>1, <2>3, <2>4, <2>5 DEF CountInv, Handling
<1> QED
  BY <1>1, <1>2, <1>3, <1>4, <1>5 DEF Accept

LEMMA MainCounts ==
  ASSUME IInv, MainLoop \/ HandlerRoutine \/ SetQuitting
  PROVE  CountInv'
<1>0. TypeOK /\ CountInv
  BY DEF IInv, TypeInv
<1>1. UNCHANGED <<helper, clientCounter, config, acceptor>>
  BY DEF MainLoop, LeaveLoop, FreeObjects, Return, HandlerRoutine, SetQuitting, helperVars
<1>2. CASE LeaveLoop
  <2>1. Cardinality(Running) = 0
    BY <1>0, <1>2 DEF LeaveLoop, MayLeave, CountInv
  <2>2. Running = {}
    BY <2>1, RunningFinite, FS_EmptySet
  <2>3. quitting' = 1
    BY <1>0, <1>2 DEF LeaveLoop, TypeOK
  <2>4. Cardinality(Running') <= 1 /\ Running' = {}
    BY <1>1, <2>1, <2>2 DEF Running
  <2> QED
    BY <1>0, <1>1, <2>3, <2>4 DEF CountInv, Running, Handling
<1>3. CASE ~LeaveLoop
  <2>1. main' # "loop" => main # "loop"
    BY <1>3 DEF MainLoop, FreeObjects, Return, HandlerRoutine, SetQuitting
  <2>2. quitting' = quitting \/ quitting' = 1
    BY <1>3 DEF MainLoop, FreeObjects, Return, HandlerRoutine, SetQuitting
  <2> QED
    BY <1>0, <1>1, <2>1, <2>2 DEF CountInv, Running
<1> QED
  BY <1>2, <1>3

LEMMA TalkCounts ==
  ASSUME IInv, NEW c \in Conn, Talk(c), UNCHANGED lifeVars
  PROVE  CountInv'
<1>1. UNCHANGED <<clientCounter, helper>>
  BY TalkStep DEF IInv
<1> QED
  BY <1>1 DEF IInv, CountInv, Running, lifeVars

-----------------------------------------------------------------------------
LEMMA InvInit == Init => IInv
<1> SUFFICES ASSUME Init PROVE IInv
  OBVIOUS
<1>1. \A c \in Conn : helper[c] \in Helper /\ helper[c].pc = "none"
  BY DEF Init, HelperInit, Helper
<1>2. \A c \in Conn : peer[c] \in Peer /\ peer[c].file = None
  BY DEF Init, HelperInit, Peer
<1>3. Running = {} /\ Cardinality(Running) = 0
  BY <1>1, FS_EmptySet DEF Running, Live
<1>4. config.maxClients \in Nat
  BY ConfigAssumption DEF Init
<1>5. \A c \in Conn : inbox[c] \in Seq(Words \cup Line)
  <2>1. <<>> \in Seq(Words \cup Line)
    OBVIOUS
  <2> QED
    BY <2>1 DEF Init, HelperInit
<1>6. acceptor \in Acceptor /\ acceptor.pc = "accept"
  BY AcceptingType DEF Init, Accepting
<1>7. TypeOK
  <2>1. /\ helper \in [Conn -> Helper] /\ peer \in [Conn -> Peer]
        /\ inbox \in [Conn -> Seq(Words \cup Line)]
    BY <1>1, <1>2, <1>5 DEF Init, HelperInit
  <2>2. /\ reply \in [Conn -> {"none", "ok", "no", "done"}]
        /\ answered \in [Conn -> SUBSET Line]
    BY DEF Init, HelperInit
  <2>3. /\ clientCounter = 0 /\ composites \subseteq Row /\ credited = {} /\ overlooked = {}
        /\ config \in Configs /\ up \in BOOLEAN /\ quitting = 0 /\ main = "loop"
    BY DEF Init, HelperInit, Row
  <2> QED
    BY <1>6, <2>1, <2>2, <2>3 DEF TypeOK
<1>8. \A c \in Conn : LineThere(c) /\ FileThere(c)
  BY <1>1, <1>2 DEF LineThere, FileThere
<1>9. CountInv
  <2>1. clientCounter = 0 /\ main = "loop"
    BY DEF Init, HelperInit
  <2> QED
    BY <1>3, <1>4, <1>6, <2>1 DEF CountInv, Handling
<1> QED
  BY <1>7, <1>8, <1>9 DEF IInv, TypeInv

LEMMA InvNext == IInv /\ [Next]_vars => IInv'
<1> SUFFICES ASSUME IInv, [Next]_vars PROVE IInv'
  OBVIOUS
<1>0. TypeInv /\ CountInv
  BY DEF IInv
<1>1. TypesButCounter' /\ CountInv'
  <2>1. CASE Accept \/ \E c \in Conn : AcceptMessage(c)
    BY <2>1, AcceptTypes, AcceptCounts
  <2>2. CASE MainLoop \/ HandlerRoutine \/ SetQuitting
    BY <1>0, <2>2, MainTypes, MainCounts
  <2>3. CASE \E c \in Conn : Help(c)
    BY <1>0, <2>3, HelpTypes, HelpCounts
  <2>4. CASE \E c \in Conn : Talk(c) /\ UNCHANGED lifeVars
    BY <1>0, <2>4, TalkTypes, TalkCounts
  <2>5. CASE UNCHANGED vars
    <3>1. UNCHANGED <<helperVars, config, up, quitting, main, acceptor>>
      BY <2>5 DEF vars, lifeVars
    <3>2. TypesButCounter'
      BY <1>0, <3>1, SameHelpers DEF TypesButCounter, TypeInv, TypeOK
    <3> QED
      BY <1>0, <3>1, <3>2 DEF CountInv, Running, helperVars
  <2> QED
    BY <2>1, <2>2, <2>3, <2>4, <2>5 DEF Next
<1>2. Cardinality(Running') \in Nat
  <2>1. Running' \subseteq Conn
    BY DEF Running
  <2> QED
    BY <2>1, ConnAssumption, FS_Subset, FS_CardinalityType
<1>3. clientCounter' \in Nat
  BY <1>1, <1>2 DEF CountInv
<1> QED
  BY <1>1, <1>3 DEF IInv, TypeInv, TypeOK, TypesButCounter

LEMMA InvAlways == Spec => []IInv
  BY InvInit, InvNext, PTL DEF Spec

(* The threads, the lines on the way and what the administrators hold keep  *)
(* their types, and the counter of clients never drops below zero.          *)
THEOREM TypeCorrect == Spec => []TypeOK
<1>1. IInv => TypeOK
  BY DEF IInv, TypeInv
<1> QED
  BY <1>1, InvAlways, PTL

(* The counter is the number of helper threads and within the limit,        *)
(* whatever the threads interleave: it only falls while it is compared.     *)
THEOREM CounterCorrect == Spec => []ClientsBounded
<1>1. IInv => ClientsBounded
  BY DEF IInv, CountInv, ClientsBounded
<1> QED
  BY <1>1, InvAlways, PTL

(* Once the main thread leaves its loop at most one thread is at work.      *)
THEOREM StragglerCorrect == Spec => []AtMostOneStraggler
<1>1. IInv => AtMostOneStraggler
  BY DEF IInv, CountInv, AtMostOneStraggler
<1> QED
  BY <1>1, InvAlways, PTL

-----------------------------------------------------------------------------
(***************************************************************************)
(* What an administrator's program reports as verified was handled: the    *)
(* invariant follows each line of a file from the program to the helper    *)
(* thread, and from there to the table or to an answer.                    *)
(***************************************************************************)

(* Where a thread is that has accepted the request of an administrator, and *)
(* where it is once it has answered that all is done.                       *)
Late == {"release", "closing", "ended"}
Past == Late \cup {"status", "next", "lookup", "insert", "count", "spinning"}

(* Where line l of connection c is. *)
Handled(c, l) ==
  \/ RowOf(l) \in composites
  \/ l \in answered[c] \cup Range(inbox[c])
  \/ <<c, l>> \in overlooked
  \/ helper[c].pc \in {"lookup", "insert"} /\ helper[c].line = l

VerifyInv(c) ==
  /\ reply[c] \in {"ok", "done"} \/ peer[c].pc \in {"wait", "verified"} => helper[c].pc \in Past
  /\ reply[c] = "done" \/ peer[c].pc = "verified" => helper[c].pc \in Late
  /\ peer[c].pc \in {"wait", "verified"} /\ peer[c].kind = "composites" =>
       /\ peer[c].file # None
       /\ \A l \in Range(Content[peer[c].file]) : Handled(c, l)

-----------------------------------------------------------------------------
(* Sequences. *)

LEMMA HeadOrTail ==
  ASSUME NEW S, NEW s \in Seq(S), s # <<>>, NEW x \in Range(s)
  PROVE  x = Head(s) \/ x \in Range(Tail(s))
<1>1. PICK i \in 1..Len(s) : x = s[i]
  BY DEF Range
<1>2. CASE i = 1
  BY <1>1, <1>2
<1>3. CASE i # 1
  <2>1. Tail(s) \in Seq(S) /\ Len(Tail(s)) = Len(s) - 1
    OBVIOUS
  <2>2. i - 1 \in 1..Len(Tail(s)) /\ Tail(s)[i - 1] = x
    BY <1>1, <1>3
  <2>3. i - 1 \in DOMAIN Tail(s)
    BY <2>1, <2>2
  <2> QED
    BY <2>2, <2>3 DEF Range
<1> QED
  BY <1>2, <1>3

LEMMA InMiddle ==
  ASSUME NEW T, NEW a \in Seq(T), NEW b \in Seq(T), NEW w \in T, NEW x \in Range(b)
  PROVE  x \in Range(a \o b \o <<w>>)
<1>1. PICK i \in 1..Len(b) : x = b[i]
  BY DEF Range
<1> DEFINE s == a \o b \o <<w>>
<1>2. /\ a \o b \in Seq(T) /\ Len(a \o b) = Len(a) + Len(b) /\ (a \o b)[Len(a) + i] = b[i]
      /\ Len(a) \in Nat /\ Len(b) \in Nat
  OBVIOUS
<1>3. s = Append(a \o b, w)
  BY <1>2
<1>4. s \in Seq(T) /\ Len(s) = Len(a) + Len(b) + 1 /\ Len(a) + i \in 1..(Len(a) + Len(b))
  BY <1>2, <1>3
<1>5. Len(a) + i \in 1..Len(s) /\ s[Len(a) + i] = b[i]
  BY <1>2, <1>3, <1>4
<1> QED
  BY <1>1, <1>4, <1>5 DEF Range

-----------------------------------------------------------------------------
(* Steps of the helper thread of c leave the other connections alone.       *)
OthersSame(c) ==
  /\ \A d \in Conn \ {c} :
       /\ helper'[d] = helper[d] /\ inbox'[d] = inbox[d] /\ reply'[d] = reply[d]
       /\ answered'[d] = answered[d] /\ peer'[d] = peer[d]
  /\ composites \subseteq composites' /\ overlooked \subseteq overlooked'

LEMMA OthersKeep ==
  ASSUME NEW c, OthersSame(c), NEW d \in Conn \ {c}, VerifyInv(d)
  PROVE  VerifyInv(d)'
  BY DEF OthersSame, VerifyInv, Handled

LEMMA HelpOthers ==
  ASSUME TypeInv, NEW c \in Conn, Help(c)
  PROVE  OthersSame(c) /\ peer' = peer
<1>0. /\ TypeOK /\ HelperTypes
      /\ \A d \in Conn \ {c} : helper'[d] = helper[d]
  BY HelpStep DEF TypeInv, Works, Leaves, Ends, Moves
<1>1. composites \subseteq composites' /\ overlooked \subseteq overlooked'
  BY DEF Help, HandleRequest, Receive, TimesOut, ReceiveFirst, ConnectDatabase, ReceiveRequest,
     ServeRequest, ChangeStatus, ReceiveLine, Finish, Composites, LookUpComposite, InsertComposite,
     InsertFails, Curves, RejectCurves, LookUpCurves, CountCurves, CountFails, ReleaseResources,
     CloseConnection, database
<1>2. inbox' = inbox \/ \E s : inbox' = [inbox EXCEPT ![c] = s]
  BY DEF Help, HandleRequest, Receive, TimesOut, ReceiveFirst, ConnectDatabase, ReceiveRequest,
     ServeRequest, ChangeStatus, ReceiveLine, Finish, Composites, LookUpComposite, InsertComposite,
     InsertFails, Curves, RejectCurves, LookUpCurves, CountCurves, CountFails, ReleaseResources,
     CloseConnection, network, Take
<1>3. reply' = reply \/ \E s : reply' = [reply EXCEPT ![c] = s]
  BY DEF Help, HandleRequest, Receive, TimesOut, ReceiveFirst, ConnectDatabase, ReceiveRequest,
     ServeRequest, ChangeStatus, ReceiveLine, Finish, Composites, LookUpComposite, InsertComposite,
     InsertFails, Curves, RejectCurves, LookUpCurves, CountCurves, CountFails, ReleaseResources,
     CloseConnection, network
<1>4. answered' = answered \/ \E s : answered' = [answered EXCEPT ![c] = s]
  BY DEF Help, HandleRequest, Receive, TimesOut, ReceiveFirst, ConnectDatabase, ReceiveRequest,
     ServeRequest, ChangeStatus, ReceiveLine, Finish, Composites, LookUpComposite, InsertComposite,
     InsertFails, Curves, RejectCurves, LookUpCurves, CountCurves, CountFails, ReleaseResources,
     CloseConnection, network
<1>5. ASSUME NEW d \in Conn \ {c}
      PROVE  inbox'[d] = inbox[d] /\ reply'[d] = reply[d] /\ answered'[d] = answered[d]
  BY <1>0, <1>2, <1>3, <1>4 DEF TypeOK
<1>6. peer' = peer
  BY <1>0 DEF HelperTypes
<1> QED
  BY <1>0, <1>1, <1>5, <1>6 DEF OthersSame

(* Before the request is accepted there is nothing to keep.                 *)
LEMMA EarlyKeeps ==
  ASSUME NEW c \in Conn, VerifyInv(c), helper[c].pc \notin Past, peer' = peer,
         reply'[c] = reply[c] \/ reply'[c] = "no"
         \/ (reply'[c] = "ok" /\ helper'[c].pc \in {"status", "next"})
  PROVE  VerifyInv(c)'
  BY DEF VerifyInv, Past, Late

(* Afterwards a step that leaves the lines alone keeps them handled.        *)
LEMMA QuietKeeps ==
  ASSUME NEW c \in Conn, VerifyInv(c), helper[c].pc \notin {"lookup", "insert"},
         peer' = peer, helper'[c].pc \in Past, helper[c].pc \in Late => helper'[c].pc \in Late,
         reply' = reply, inbox' = inbox, answered' = answered, composites \subseteq composites',
         overlooked \subseteq overlooked'
  PROVE  VerifyInv(c)'
  BY DEF VerifyInv, Handled

(* And so does one that moves a line on. *)
LEMMA LineKeeps ==
  ASSUME NEW c \in Conn, VerifyInv(c), peer' = peer, helper[c].pc \notin Late, helper'[c].pc \in Past,
         reply'[c] = "done" => helper'[c].pc \in Late,
         peer[c].kind = "composites" /\ peer[c].pc = "wait" =>
           \A l \in Range(Content[peer[c].file]) : Handled(c, l) => Handled(c, l)'
  PROVE  VerifyInv(c)'
<1>1. peer[c].pc # "verified" /\ peer'[c] = peer[c]
  BY DEF VerifyInv
<1>2. peer[c].pc = "wait" /\ peer[c].kind = "composites" =>
        /\ peer[c].file # None
        /\ \A l \in Range(Content[peer[c].file]) : Handled(c, l)'
  BY DEF VerifyInv
<1> QED
  BY <1>1, <1>2 DEF VerifyInv

LEMMA HelpVerify ==
  ASSUME TypeInv, NEW c \in Conn, Help(c), VerifyInv(c)
  PROVE  VerifyInv(c)'
<1>0. /\ TypeOK /\ helper \in [Conn -> Helper] /\ reply \in [Conn -> {"none", "ok", "no", "done"}]
      /\ inbox \in [Conn -> Seq(Words \cup Line)] /\ answered \in [Conn -> SUBSET Line]
  BY DEF TypeInv, TypeOK
<1>p. peer' = peer /\ composites \subseteq composites' /\ overlooked \subseteq overlooked'
  BY HelpOthers DEF OthersSame
<1>g. ASSUME NEW pc \in Live \cup {"closing"}, Goto(c, pc) PROVE helper'[c].pc = pc
  BY <1>0, <1>g, GotoMoves DEF Moves
(* A line of a file that is waited for is none of the words.                *)
<1>l. ASSUME NEW l, peer[c].pc = "wait", peer[c].kind = "composites", l \in Range(Content[peer[c].file])
      PROVE  l \in Line
  <2>1. Content[peer[c].file] \in Seq(Line)
    BY <1>l DEF VerifyInv, TypeInv, FileThere
  <2> QED
    BY <1>l, <2>1 DEF Range
<1>1. CASE Receive(c) \/ ReceiveFirst(c) \/ ConnectDatabase(c) \/ ServeRequest(c)
  <2>1. helper[c].pc \notin Past
    BY <1>1 DEF Receive, TimesOut, ReceiveFirst, ConnectDatabase, ServeRequest, At, Past, Late
  <2>2. reply' = reply
    BY <1>1 DEF Receive, TimesOut, ReceiveFirst, ConnectDatabase, ServeRequest, network
  <2> QED
    BY <1>p, <2>1, <2>2, EarlyKeeps
<1>2. CASE ReceiveRequest(c, config.slave)
  <2>1. helper[c].pc \notin Past
    BY <1>2 DEF ReceiveRequest, At, Past, Late
  <2>2. CASE reply' = reply
    BY <1>p, <2>1, <2>2, EarlyKeeps
  <2>3. CASE reply' # reply
    <3>1. /\ reply' = [reply EXCEPT ![c] = IF Accepted(c, config.slave) THEN "ok" ELSE "no"]
          /\ Goto(c, IF ~Accepted(c, config.slave) THEN "release"
                     ELSE IF peer[c].kind = "status" THEN "status" ELSE "next")
      BY <1>2, <2>3 DEF ReceiveRequest
    <3>2. CASE Accepted(c, config.slave)
      <4>1. \E pc \in {"status", "next"} : Goto(c, pc)
        BY <3>1, <3>2
      <4>2. helper'[c].pc \in {"status", "next"}
        BY <1>g, <4>1 DEF Live
      <4> QED
        BY <1>0, <1>p, <2>1, <3>1, <3>2, <4>2, EarlyKeeps
    <3>3. CASE ~Accepted(c, config.slave)
      BY <1>0, <1>p, <2>1, <3>1, <3>3, EarlyKeeps
    <3> QED
      BY <3>2, <3>3
  <2> QED
    BY <2>2, <2>3
<1>3. CASE ChangeStatus(c) \/ ReleaseResources(c)
  <2>1. /\ helper[c].pc \in {"status", "release"} /\ reply' = reply /\ inbox' = inbox /\ answered' = answered
        /\ Goto(c, "release") \/ Goto(c, "closing")
    BY <1>3 DEF ChangeStatus, ReleaseResources, At, network
  <2>2. helper'[c].pc \in Late
    BY <1>g, <2>1 DEF Live, Late
  <2> QED
    BY <1>p, <2>1, <2>2, QuietKeeps DEF Past, Late
<1>4. CASE CloseConnection(c)
  <2>1. helper'[c].pc = "ended" /\ helper[c].pc = "closing"
    BY <1>0, <1>4 DEF CloseConnection, At
  <2>2. reply' = reply /\ inbox' = inbox /\ answered' = answered
    BY <1>4 DEF CloseConnection, network
  <2> QED
    BY <1>p, <2>1, <2>2, QuietKeeps DEF Past, Late
<1>5. CASE CountCurves(c) \/ CountFails(c)
  <2>1. helper'[c].pc = "next" /\ helper[c].pc = "count"
    BY <1>0, <1>5, TransactionMoves DEF CountCurves, CountFails, At, Moves
  <2>2. reply' = reply /\ inbox' = inbox /\ answered' = answered
    BY <1>5 DEF CountCurves, CountFails, network
  <2> QED
    BY <1>p, <2>1, <2>2, QuietKeeps DEF Past, Late
<1>6. CASE RejectCurves(c) \/ LookUpCurves(c)
  <2>1. peer[c].kind # "composites" /\ helper[c].pc \notin Late /\ reply' = reply
    BY <1>6 DEF RejectCurves, LookUpCurves, At, Late, network
  <2>2. CASE RejectCurves(c)
    <3>1. helper'[c].pc = "spinning"
      BY <1>g, <2>2 DEF RejectCurves, Live
    <3>2. reply'[c] # "done"
      BY <2>1 DEF VerifyInv
    <3> QED
      BY <1>p, <2>1, <3>1, <3>2, LineKeeps DEF Past
  <2>3. CASE LookUpCurves(c)
    <3>1. \E pc \in {"count", "next"} :
            helper' = [helper EXCEPT ![c].pc = pc, ![c].view = ViewOf(c)]
      BY <2>3 DEF LookUpCurves
    <3>2. helper'[c].pc \in {"count", "next"}
      BY <1>0, <3>1, ViewMoves DEF Moves
    <3>3. reply'[c] # "done"
      BY <2>1 DEF VerifyInv
    <3> QED
      BY <1>p, <2>1, <3>2, <3>3, LineKeeps DEF Past
  <2> QED
    BY <1>6, <2>2, <2>3
<1>7. CASE ReceiveLine(c)
  <2> DEFINE l == Head(inbox[c])
  <2>1. /\ helper[c].pc = "next" /\ inbox[c] # <<>> /\ inbox'[c] = Tail(inbox[c])
        /\ reply' = reply /\ answered' = answered
        /\ helper' = [helper EXCEPT ![c].pc = "lookup", ![c].line = l]
    BY <1>0, <1>7 DEF ReceiveLine, At, Take
  <2>2. helper'[c].pc = "lookup" /\ helper'[c].line = l
    BY <1>0, <2>1 DEF Helper
  <2>3. ASSUME NEW k, Handled(c, k) PROVE Handled(c, k)'
    <3>1. CASE k \in Range(inbox[c])
      <4>1. k = l \/ k \in Range(inbox'[c])
        BY <1>0, <2>1, <3>1, HeadOrTail
      <4> QED
        BY <2>2, <4>1 DEF Handled
    <3>2. CASE k \notin Range(inbox[c])
      BY <1>p, <2>1, <2>3, <3>2 DEF Handled
    <3> QED
      BY <3>1, <3>2
  <2>4. helper[c].pc \notin Late /\ reply'[c] # "done"
    BY <2>1 DEF VerifyInv, Late
  <2> QED
    BY <1>p, <2>2, <2>3, <2>4, LineKeeps DEF Past
<1>8. CASE Finish(c)
  <2>1. /\ helper[c].pc = "next" /\ answered' = answered
        /\ inbox' = inbox \/ (inbox[c] # <<>> /\ inbox'[c] = Tail(inbox[c]) /\ Head(inbox[c]) = "No more")
    BY <1>0, <1>8 DEF Finish, At, Take
  <2>2. helper'[c].pc = "release"
    BY <1>g, <1>8 DEF Finish, Live
  <2>3. ASSUME NEW k \in Line, Handled(c, k) PROVE Handled(c, k)'
    <3>1. k # "No more"
      BY LineAssumption
    <3>2. k \in Range(inbox[c]) => k \in Range(inbox'[c])
      BY <1>0, <2>1, <3>1, HeadOrTail
    <3> QED
      BY <1>p, <2>1, <2>3, <3>2 DEF Handled
  <2>4. helper[c].pc \notin Late
    BY <2>1 DEF Late
  <2> QED
    BY <1>l, <1>p, <2>2, <2>3, <2>4, LineKeeps DEF Past, Late
<1>9. CASE Composites(c)
  <2>0. PICK l : l = helper[c].line
    OBVIOUS
  <2>1. helper[c].pc \in {"lookup", "insert"} /\ inbox' = inbox /\ reply' = reply
    BY <1>9 DEF Composites, LookUpComposite, InsertComposite, InsertFails, At, network
  <2>2. helper[c].pc \notin Late /\ reply'[c] # "done"
    BY <2>1 DEF VerifyInv, Late
  <2>l. l \in Line
    BY <2>0, <2>1 DEF TypeInv, LineThere
  <2>3. /\ helper'[c].pc \in Past
        /\ answered[c] \subseteq answered'[c]
        /\ Handled(c, l)'
    <3>1. CASE LookUpComposite(c)
      <4>1. PICK pc \in {"insert", "next"} :
              helper' = [helper EXCEPT ![c].pc = pc, ![c].view = ViewOf(c)]
        BY <3>1 DEF LookUpComposite
      <4>2. helper'[c].pc = pc /\ helper'[c].line = l
        BY <1>0, <2>0, <4>1, ViewMoves DEF Moves
      <4>3. CASE Addable(l, ViewOf(c).composites)
        <5>1. answered' = answered /\ helper' = [helper EXCEPT ![c].pc = "insert", ![c].view = ViewOf(c)]
          BY <2>0, <3>1, <4>3 DEF LookUpComposite
        <5>2. helper'[c].pc = "insert"
          BY <1>0, <5>1, ViewMoves DEF Moves
        <5> QED
          BY <4>2, <5>1, <5>2 DEF Handled, Past
      <4>4. CASE ~Addable(l, ViewOf(c).composites)
        <5>1. answered' = [answered EXCEPT ![c] = @ \cup {l}]
          BY <2>0, <3>1, <4>4 DEF LookUpComposite, MessageFor
        <5>2. answered'[c] = answered[c] \cup {l}
          BY <1>0, <5>1
        <5> QED
          BY <4>2, <5>2 DEF Handled, Past
      <4> QED
        BY <4>3, <4>4
    <3>2. CASE InsertComposite(c)
      <4>1. /\ RowOf(l) \in composites' \/ <<c, l>> \in overlooked'
            /\ answered' = answered /\ NextTransaction(c)
        BY <2>0, <3>2 DEF InsertComposite, network
      <4>2. helper'[c].pc = "next"
        BY <1>0, <4>1, TransactionMoves DEF Moves
      <4> QED
        BY <4>1, <4>2 DEF Handled, Past
    <3>3. CASE InsertFails(c)
      <4>1. answered' = [answered EXCEPT ![c] = @ \cup {l}] /\ NextTransaction(c)
        BY <2>0, <3>3 DEF InsertFails
      <4>2. helper'[c].pc = "next" /\ answered'[c] = answered[c] \cup {l}
        BY <1>0, <4>1, TransactionMoves DEF Moves
      <4> QED
        BY <4>2 DEF Handled, Past
    <3> QED
      BY <1>9, <3>1, <3>2, <3>3 DEF Composites
  <2>4. ASSUME NEW k, Handled(c, k) PROVE Handled(c, k)'
    <3>1. CASE k = l
      BY <2>3, <3>1
    <3>2. CASE k # l
      BY <1>p, <2>0, <2>1, <2>3, <2>4, <3>2 DEF Handled
    <3> QED
      BY <3>1, <3>2
  <2> QED
    BY <1>p, <2>2, <2>3, <2>4, LineKeeps
<1> QED
  BY <1>1, <1>2, <1>3, <1>4, <1>5, <1>6, <1>7, <1>8, <1>9 DEF Help, HandleRequest, Curves

-----------------------------------------------------------------------------
(* Steps of the peers: only SendFile starts to wait, for the lines it has   *)
(* just put on the way.                                                     *)
LEMMA TalkOthers ==
  ASSUME TypeInv, NEW c \in Conn, Talk(c)
  PROVE  OthersSame(c) /\ helper' = helper /\ reply' = reply /\ answered' = answered
                       /\ composites' = composites /\ overlooked' = overlooked
<1>0. TypeOK /\ UNCHANGED <<helper, database, reply, answered>>
  BY TalkStep DEF TypeInv
<1>1. inbox' = inbox \/ \E s : inbox' = [inbox EXCEPT ![c] = s]
  BY DEF Talk, EnterServer, EnterPassword, ChooseOption, SendFile, ReadDone, GiveUp, Connect, network
<1>2. \E p : peer' = [peer EXCEPT ![c] = p]
  <2>1. CASE EnterServer(c)
    BY <2>1 DEF EnterServer
  <2>2. CASE EnterPassword(c)
    BY <2>2 DEF EnterPassword
  <2>3. CASE ChooseOption(c)
    BY <2>3 DEF ChooseOption
  <2>4. CASE SendFile(c)
    BY <2>4 DEF SendFile
  <2>5. CASE ReadDone(c)
    BY <2>5 DEF ReadDone
  <2>6. CASE GiveUp(c)
    BY <2>6 DEF GiveUp
  <2>7. CASE Connect(c)
    BY <2>7 DEF Connect
  <2> QED
    BY <2>1, <2>2, <2>3, <2>4, <2>5, <2>6, <2>7 DEF Talk
<1>3. ASSUME NEW d \in Conn \ {c} PROVE inbox'[d] = inbox[d] /\ peer'[d] = peer[d]
  BY <1>0, <1>1, <1>2 DEF TypeOK
<1> QED
  BY <1>0, <1>3 DEF OthersSame, database

LEMMA TalkVerify ==
  ASSUME TypeInv, NEW c \in Conn, Talk(c), VerifyInv(c)
  PROVE  VerifyInv(c)'
<1>0. /\ peer \in [Conn -> Peer] /\ inbox \in [Conn -> Seq(Words \cup Line)]
      /\ helper' = helper /\ reply' = reply /\ answered' = answered
      /\ composites' = composites /\ overlooked' = overlooked
  BY TalkOthers DEF TypeInv, TypeOK
<1>1. CASE EnterServer(c) \/ EnterPassword(c) \/ ChooseOption(c) \/ GiveUp(c) \/ Connect(c)
  <2>1. peer'[c].pc \notin {"wait", "verified"}
    <3>1. CASE EnterServer(c)
      BY <1>0, <3>1 DEF EnterServer, Prompting, Peer
    <3>2. CASE EnterPassword(c)
      BY <1>0, <3>2 DEF EnterPassword, Prompting, Peer
    <3>3. CASE ChooseOption(c)
      <4>1. PICK k, f : peer' = [peer EXCEPT ![c] = [peer[c] EXCEPT !.pc = "verify", !.kind = k, !.file = f]]
        BY <3>3 DEF ChooseOption
      <4> QED
        BY <1>0, <4>1 DEF Peer
    <3>4. CASE GiveUp(c)
      BY <1>0, <3>4 DEF GiveUp
    <3>5. CASE Connect(c)
      <4>1. PICK k : peer' = [peer EXCEPT ![c] = [peer[c] EXCEPT !.pc = "served", !.kind = k]]
        BY <3>5 DEF Connect
      <4> QED
        BY <1>0, <4>1 DEF Peer
    <3> QED
      BY <1>1, <3>1, <3>2, <3>3, <3>4, <3>5
  <2> QED
    BY <1>0, <2>1 DEF VerifyInv
<1>2. CASE ReadDone(c)
  <2>1. /\ peer[c].pc = "wait" /\ reply[c] = "done" /\ inbox' = inbox
        /\ peer'[c].pc = "verified" /\ peer'[c].kind = peer[c].kind /\ peer'[c].file = peer[c].file
    BY <1>0, <1>2 DEF ReadDone, network, Peer
  <2> QED
    BY <1>0, <2>1 DEF VerifyInv, Handled
<1>3. CASE SendFile(c)
  <2>1. helper[c].pc \in Past
    BY <1>3 DEF SendFile, VerifyInv
  <2>2. CASE peer[c].file = None
    <3>1. peer'[c].pc = "crashed"
      BY <1>0, <1>3, <2>2 DEF SendFile, Peer
    <3> QED
      BY <1>0, <3>1 DEF VerifyInv
  <2>3. CASE peer[c].file # None
    <3>0. PICK s : s = Content[peer[c].file]
      OBVIOUS
    <3>1. s \in Seq(Line)
      BY <2>3, <3>0 DEF TypeInv, FileThere
    <3>2. s \in Seq(Words \cup Line)
      BY <3>1
    <3>3. /\ peer' = [peer EXCEPT ![c].pc = "wait"]
          /\ inbox' = [inbox EXCEPT ![c] = inbox[c] \o s \o <<"No more">>]
      BY <1>3, <2>3, <3>0 DEF SendFile
    <3>4. peer'[c].pc = "wait" /\ peer'[c].kind = peer[c].kind /\ peer'[c].file = peer[c].file
      BY <1>0, <3>3 DEF Peer
    <3>5. inbox'[c] = inbox[c] \o s \o <<"No more">>
      BY <1>0, <3>3
    <3>6. ASSUME NEW l \in Range(s) PROVE l \in Range(inbox'[c])
      <4>1. "No more" \in Words \cup Line
        BY DEF Words
      <4> QED
        BY <1>0, <3>2, <3>5, <4>1, InMiddle
    <3> QED
      BY <1>0, <2>1, <2>3, <3>0, <3>4, <3>6 DEF VerifyInv, Handled
  <2> QED
    BY <2>2, <2>3
<1> QED
  BY <1>1, <1>2, <1>3 DEF Talk

-----------------------------------------------------------------------------
LEMMA VerifyInit == Init => \A c \in Conn : VerifyInv(c)
<1> SUFFICES ASSUME Init, NEW c \in Conn PROVE VerifyInv(c)
  OBVIOUS
<1>1. reply[c] = "none" /\ peer[c].pc = "menu"
  BY DEF Init, HelperInit
<1> QED
  BY <1>1 DEF VerifyInv

LEMMA AcceptVerify ==
  ASSUME IInv, Accept \/ \E c \in Conn : AcceptMessage(c), NEW d \in Conn, VerifyInv(d)
  PROVE  VerifyInv(d)'
<1>0. TypeInv /\ TypeOK /\ CountInv
  BY DEF IInv, TypeInv
<1>1. CASE ReadQuitting \/ ReadCounter \/ \E c \in Conn : AcceptMessage(c)
  <2>1. UNCHANGED helperVars
    BY <1>1 DEF ReadQuitting, ReadCounter, AcceptMessage
  <2> QED
    BY <2>1 DEF VerifyInv, Handled, helperVars, database, network
<1>2. CASE RejectConnection
  <2>1. /\ UNCHANGED <<database, helper, inbox, answered, peer>>
        /\ reply' = [reply EXCEPT ![acceptor.conn] = "no"]
    BY <1>2 DEF RejectConnection
  <2>2. reply'[d] = reply[d] \/ reply'[d] = "no"
    BY <1>0, <2>1 DEF TypeOK
  <2> QED
    BY <2>1, <2>2 DEF VerifyInv, Handled, database
<1>3. CASE StartHelper
  <2>0. PICK c : c = acceptor.conn
    OBVIOUS
  <2>1. c \in Conn /\ StartThread(c)
    BY <1>0, <1>3, <2>0 DEF StartHelper, CountInv, Handling
  <2>2. helper[c].pc = "none" /\ Moves(c, "first")
    BY <1>0, <2>1, StartMoves
  <2>3. UNCHANGED <<composites, overlooked, inbox, reply, answered, peer>>
    BY <2>1 DEF StartThread, database, network
  <2>4. CASE d = c
    BY <2>2, <2>3, <2>4 DEF VerifyInv, Handled, Past, Late
  <2>5. CASE d # c
    BY <2>2, <2>3, <2>5 DEF VerifyInv, Handled, Moves
  <2> QED
    BY <2>4, <2>5
<1> QED
  BY <1>1, <1>2, <1>3 DEF Accept

LEMMA VerifyNext ==
  ASSUME IInv, [Next]_vars, \A c \in Conn : VerifyInv(c)
  PROVE  \A c \in Conn : VerifyInv(c)'
<1> SUFFICES ASSUME NEW d \in Conn PROVE VerifyInv(d)'
  OBVIOUS
<1>0. TypeInv
  BY DEF IInv
<1>1. CASE Accept \/ \E c \in Conn : AcceptMessage(c)
  BY <1>1, AcceptVerify
<1>2. CASE MainLoop \/ HandlerRoutine \/ SetQuitting \/ UNCHANGED vars
  <2>1. UNCHANGED helperVars
    BY <1>2 DEF MainLoop, LeaveLoop, FreeObjects, Return, HandlerRoutine, SetQuitting, vars
  <2> QED
    BY <2>1 DEF VerifyInv, Handled, helperVars, database, network
<1>3. CASE \E c \in Conn : Help(c)
  <2>1. PICK c \in Conn : Help(c)
    BY <1>3
  <2>2. CASE d = c
    BY <1>0, <2>1, <2>2, HelpVerify
  <2>3. CASE d # c
    BY <1>0, <2>1, <2>3, HelpOthers, OthersKeep
  <2> QED
    BY <2>2, <2>3
<1>4. CASE \E c \in Conn : Talk(c) /\ UNCHANGED lifeVars
  <2>1. PICK c \in Conn : Talk(c)
    BY <1>4
  <2>2. CASE d = c
    BY <1>0, <2>1, <2>2, TalkVerify
  <2>3. CASE d # c
    BY <1>0, <2>1, <2>3, TalkOthers, OthersKeep
  <2> QED
    BY <2>2, <2>3
<1> QED
  BY <1>1, <1>2, <1>3, <1>4 DEF Next

(* "All composites sent, but server has not verified" (ecmadmin): when it   *)
(* has, every composite of the file is in the database, was answered with   *)
(* the reason, is a line the helper thread no longer waited for, or one     *)
(* whose own COMMIT failed and was only logged (DBInterface::Commit),       *)
(* however many other administrators, failures and refusals come between.   *)
THEOREM VerifiedCorrect == Spec => []VerifiedIsHandled
<1> DEFINE Inv == IInv /\ \A c \in Conn : VerifyInv(c)
<1>1. Init => Inv
  BY InvInit, VerifyInit
<1>2. Inv /\ [Next]_vars => Inv'
  BY InvNext, VerifyNext
<1>3. Inv => VerifiedIsHandled
  <2> SUFFICES ASSUME Inv, NEW c \in Conn, peer[c].pc = "verified", peer[c].kind = "composites",
                      NEW l \in Range(Content[peer[c].file])
               PROVE  \/ RowOf(l) \in composites \/ l \in answered[c]
                      \/ l \in Range(inbox[c]) \/ <<c, l>> \in overlooked
    BY DEF VerifiedIsHandled
  <2>1. helper[c].pc \in Late /\ Handled(c, l)
    BY DEF VerifyInv
  <2> QED
    BY <2>1 DEF Handled, Late
<1> QED
  BY <1>1, <1>2, <1>3, PTL DEF Spec
=============================================================================
