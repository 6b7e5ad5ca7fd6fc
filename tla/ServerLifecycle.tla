-------------------------- MODULE ServerLifecycle --------------------------
(***************************************************************************)
(* The life of the server (ecmserver.cpp main, ServerThread.cpp): the main *)
(* thread with its loop of timers, the thread that accepts connections and *)
(* starts a helper thread for each (HelperThread), the flag that tells the *)
(* server to quit and the end of the process.  The three kinds of threads  *)
(* share the two values quit and client_counter, each under a lock of its  *)
(* own (SharedMemoryItem), so a read or a write of one is a single step.   *)
(*                                                                         *)
(* What the timers do is modules ServerTimers and MasterSlaveSync.         *)
(***************************************************************************)
EXTENDS HelperThread

CONSTANT Configs  \* b_IAmASlave, WIN32 and i_MaxClients of the servers looked at

ASSUME ConfigAssumption ==
  Configs \subseteq [slave : BOOLEAN, windows : BOOLEAN, maxClients : Nat]

VARIABLES
  config,    \* the server that runs
  up,        \* its process exists
  quitting,  \* p_Quitting, not above 1
  main,      \* where the main thread is
  acceptor   \* [pc, conn, quitting, clientsConnected] of the server thread

lifeVars == <<config, up, quitting, main, acceptor>>
vars     == <<helperVars, lifeVars>>

Acceptor == [pc : {"accept", "quitting", "counter", "decide", "left"}, conn : Conn \cup {None},
             quitting : 0..1, clientsConnected : Nat]

Accepting == [pc |-> "accept", conn |-> None, quitting |-> 0, clientsConnected |-> 0]

Init ==
  /\ HelperInit
  /\ config \in Configs
  /\ up = TRUE /\ quitting = 0
  /\ main = "loop"
  /\ acceptor = Accepting

-----------------------------------------------------------------------------
(* The server thread.  A connection is there once its peer has called.      *)
Waiting(c) == peer[c].pc # "menu" /\ helper[c].pc = "none" /\ reply[c] = "none"

AcceptMessage(c) ==
  /\ acceptor.pc = "accept"
  /\ Waiting(c)
  /\ acceptor' = [acceptor EXCEPT !.pc = "quitting", !.conn = c]
  /\ UNCHANGED <<helperVars, config, up, quitting, main>>

ReadQuitting ==
  /\ acceptor.pc = "quitting"
  /\ acceptor' = [acceptor EXCEPT !.pc = "counter", !.quitting = quitting]
  /\ UNCHANGED <<helperVars, config, up, quitting, main>>

ReadCounter ==
  /\ acceptor.pc = "counter"
  /\ acceptor' = [acceptor EXCEPT !.pc = IF acceptor.quitting > 0 THEN "left" ELSE "decide",
                                  !.clientsConnected = clientCounter]
  /\ UNCHANGED <<helperVars, config, up, quitting, main>>

(* Defect: one connection too many. *)
ServerFullAbove(clients) == clients > config.maxClients

ServerFull(clients) == clients >= config.maxClients

(* "ERROR: Server cannot handle more connections".                          *)
RejectConnection ==
  /\ acceptor.pc = "decide"
  /\ ServerFull(acceptor.clientsConnected)
  /\ reply' = [reply EXCEPT ![acceptor.conn] = "no"]
  /\ acceptor' = Accepting
  /\ UNCHANGED <<clientCounter, database, helper, inbox, answered, peer,
                 config, up, quitting, main>>

StartHelper ==
  /\ acceptor.pc = "decide"
  /\ ~ServerFull(acceptor.clientsConnected)
  /\ StartThread(acceptor.conn)
  /\ acceptor' = Accepting
  /\ UNCHANGED <<config, up, quitting, main>>

-----------------------------------------------------------------------------
(* The console handler on Windows.                                          *)
HandlerRoutine ==
  /\ config.windows
  /\ quitting' = 1
  /\ UNCHANGED <<helperVars, config, up, main, acceptor>>

(* On UNIX SetQuitting counts and raises the signal again, with its default *)
(* action: the process ends at once.                                        *)
SetQuitting ==
  /\ ~config.windows
  /\ quitting' = 1
  /\ up' = FALSE
  /\ UNCHANGED <<helperVars, config, main, acceptor>>

(* Defect: the clients are not waited for. *)
MayLeaveAnyway(clients) == TRUE

MayLeave(clients) == clients = 0

(* The end of a round of the loop: the flag, which is never taken back, and *)
(* then the counter.                                                        *)
LeaveLoop ==
  /\ main = "loop"
  /\ quitting # 0
  /\ MayLeave(clientCounter)
  /\ main' = "free"
  /\ UNCHANGED <<helperVars, config, up, quitting, acceptor>>

(* The shared values and the log are deleted; the other threads go on.     *)
FreeObjects ==
  /\ main = "free"
  /\ main' = "return"
  /\ UNCHANGED <<helperVars, config, up, quitting, acceptor>>

Return ==
  /\ main = "return"
  /\ up' = FALSE
  /\ UNCHANGED <<helperVars, config, quitting, main, acceptor>>

-----------------------------------------------------------------------------
Accept   == ReadQuitting \/ ReadCounter \/ RejectConnection \/ StartHelper
MainLoop == LeaveLoop \/ FreeObjects \/ Return
Help(c)  == HandleRequest(c, config.slave) /\ UNCHANGED lifeVars

(* What the peers do once the server is gone is left out.                   *)
Next ==
  \/ up /\ (Accept \/ MainLoop \/ HandlerRoutine \/ SetQuitting)
  \/ up /\ \E c \in Conn : AcceptMessage(c) \/ Help(c)
  \/ up /\ \E c \in Conn : Talk(c) /\ UNCHANGED lifeVars

Spec == Init /\ [][Next]_vars

(* The threads run; peers and administrators need not do anything.          *)
FairSpec ==
  /\ Spec
  /\ WF_vars(up /\ Accept) /\ WF_vars(up /\ MainLoop)
  /\ \A c \in Conn : WF_vars(up /\ Help(c))

-----------------------------------------------------------------------------
(* Every variable has its type. *)
TypeOK ==
  /\ clientCounter \in Nat
  /\ composites \subseteq Row /\ credited \subseteq Conn \X Line
  /\ overlooked \subseteq Conn \X Line
  /\ helper \in [Conn -> Helper]
  /\ inbox \in [Conn -> Seq(Words \cup Line)]
  /\ reply \in [Conn -> {"none", "ok", "no", "done"}]
  /\ answered \in [Conn -> SUBSET Line]
  /\ peer \in [Conn -> Peer]
  /\ config \in Configs /\ up \in BOOLEAN /\ quitting \in 0..1
  /\ main \in {"loop", "free", "return"}
  /\ acceptor \in Acceptor

Running == {c \in Conn : helper[c].pc \in Live}

(* i_MaxClients bounds the threads at work: the counter that is compared    *)
(* with it is their number, although it is read, changed and compared by    *)
(* different threads in separate steps.                                     *)
ClientsBounded == clientCounter = Cardinality(Running) /\ clientCounter <= config.maxClients

(* "wait until all clients have completed what they are doing before        *)
(* shutting down the server": once main has decided to leave, at most one   *)
(* thread can still start to work, the one for which the server thread had  *)
(* read the flag before it was set.                                         *)
AtMostOneStraggler == main # "loop" => Cardinality(Running) <= 1

(* "All composites sent, but server has not verified": when the server has, *)
(* every line of the file it read is in the database or was answered with   *)
(* the reason, also with several administrators at once.  Two kinds of      *)
(* lines are lost without a word, and no others: those the helper no longer *)
(* waited for, and those whose own COMMIT failed.                           *)
VerifiedIsHandled ==
  \A c \in Conn : peer[c].pc = "verified" /\ peer[c].kind = "composites" =>
    \A l \in Range(Content[peer[c].file]) :
      \/ RowOf(l) \in composites \/ l \in answered[c]
      \/ l \in Range(inbox[c]) \/ <<c, l>> \in overlooked

(* A server that is told to quit ends, unless a helper thread answers a     *)
(* malformed line of curves for ever.                                       *)
ShutdownEnds ==
  (quitting = 1) ~> (~up \/ \E c \in Conn : helper[c].pc = "spinning")
=============================================================================
