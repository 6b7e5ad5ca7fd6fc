------------------------ MODULE MasterSlaveSyncProofs ------------------------
(***************************************************************************)
(* The exchange between slaves and their master, for any slaves,           *)
(* composites, returns and numbers of failures.                            *)
(*                                                                         *)
(* A session is seen as x (the slave's side), h (the master's side), u and *)
(* d (the lines under way to the master and to the slave).  The lemmas on  *)
(* the protocol are about such values, before and after a step.            *)
(***************************************************************************)
EXTENDS MasterSlaveSync, SequenceTheorems, WellFoundedInduction, TLAPS

Phase2 == {"next2", "found2", "answer2"}

(* At most one line, of one of these types.                                 *)
AtMost(q, types) == \A i \in DOMAIN q : i = 1 /\ q[i].type \in types

(* What the master's side waits for from the slave.                         *)
Wanted(h, m) ==
  /\ \/ h.pc = "work" /\ m.type = "Work"
     \/ h.pc \in {"found", "found2"} /\ m.type = "Found"
     \/ h.pc \in {"answer", "answer2"} /\ m.type = "OK"
  /\ m.comp = h.comp

(* The row the master sends.                                                *)
RowOf(h) == IF h.pend # None THEN h.pend ELSE h.snap.rows[h.comp]

(* Each side has what its place in the protocol needs.                      *)
EndsInv(x, h, u, d) ==
  /\ x.pc = "idle" <=> h.pc = "idle"
  /\ x.pc = "idle" => u = <<>> /\ d = <<>>
  /\ x.pc \in {"found", "answer", "content", "content2"} => x.comp # None
  /\ x.pc \in {"answer", "content", "content2"} => x.snap # None
  /\ x.pc \in {"content", "content2"} => x.pend # None
  /\ x.pend # None => x.pend.since = {} /\ x.pc \in {"answer", "content", "content2"}
  /\ h.pc \in {"work", "found", "answer", "found2", "answer2"} => h.comp # None /\ h.snap # None
  /\ h.pend # None => h.pc \in {"found", "answer"}

(* Lines under way to a master that still listens: an answer is the one it  *)
(* waits for and comes first, "no more" comes last, and a composite that is *)
(* announced is not announced again.                                        *)
UpInv(x, h, u) ==
  h.pc # "closed" =>
    \A i \in DOMAIN u :
      /\ u[i].type \in {"Work", "Found", "OK"} => i = 1 /\ Wanted(h, u[i])
      /\ u[i].type = "NoMore" /\ h.pc \notin Phase2 => i = Len(u) /\ x.pc \in {"start2", "closed"}
      /\ u[i].type = "Begin" => /\ u[i].comp \notin x.todo
                                /\ x.pc = "found" /\ x.comp = u[i].comp => i = Len(u)

(* Lines under way to the slave.                                            *)
DownInv(x, h, d) ==
  \A i \in DOMAIN d :
    /\ d[i].type = "OK" => i = 1 /\ x.pc = "answer" /\ d[i].comp = x.comp /\ x.pend # None
    /\ x.pc # "closed" =>
       /\ d[i].type = "Content" => i = 1 /\ x.pc \in {"content", "content2"} /\ d[i].comp = x.comp
       /\ d[i].type = "Begin" => \/ i = 1 /\ x.pc = "answer" /\ d[i].comp = x.comp
                                 \/ x.pc \in {"start2", "receive2"} /\ h.pc \in {"found2", "closed"}
       /\ d[i].type = "Found" => h.pc = "closed" \/ (h.pc = "work" /\ h.comp = d[i].comp)
       /\ d[i].type = "Start" => x.pc = "start2" /\ h.pc \in Phase2 \cup {"closed"}
       /\ \A j \in DOMAIN d : d[i].type \in {"Begin", "Start"} /\ d[j].type = d[i].type => i = j

(* Where the slave can be, and what can be under way, by what the master    *)
(* is at.                                                                   *)
Joint(x, h, u, d) ==
  /\ h.pc = "start" => x.pc \in {"next", "found", "start2"} /\ d = <<>>
  /\ h.pc = "receive" =>
       \/ x.pc \in {"next", "found", "start2"}
       \/ x.pc = "answer" /\ x.comp = h.comp /\ u = <<>> /\ AtMost(d, {"OK", "Error"})
  /\ h.pc = "work" =>
       /\ h.comp \notin x.todo
       /\ \/ x.pc \in {"next", "start2"} /\ \A i \in DOMAIN u : u[i].type # "Work"
          \/ /\ x.pc = "found" /\ \A i \in DOMAIN u : u[i].type # "Work"
             /\ x.comp = h.comp => u = <<>> /\ \A i \in DOMAIN d : d[i].type = "Found" => i = Len(d)
          \/ x.pc = "answer" /\ x.comp = h.comp /\ d = <<>> /\ AtMost(u, {"Work"})
  /\ h.pc = "found" =>
       \/ x.pc = "answer" /\ x.comp = h.comp /\ u = <<>> /\ AtMost(d, {"Begin"})
       \/ x.pc = "content" /\ x.comp = h.comp /\ d = <<>> /\ AtMost(u, {"Found"})
  /\ h.pc = "answer" =>
       \/ /\ x.pc = "content" /\ x.comp = h.comp /\ u = <<>> /\ AtMost(d, {"Content"})
          /\ \A i \in DOMAIN d : d[i].local = RowOf(h).local
       \/ /\ x.pc = "answer" /\ x.comp = h.comp /\ d = <<>> /\ AtMost(u, {"OK"})
          /\ x.pend # None
          /\ u # <<>> => x.pend.local = RowOf(h).local
  /\ h.pc = "next2" =>
       /\ u = <<>>
       /\ \/ x.pc = "start2" /\ \A i \in DOMAIN d : d[i].type = "Start" => i = Len(d)
          \/ x.pc = "receive2" /\ d = <<>>
  /\ h.pc = "found2" =>
       \/ /\ x.pc = "start2" /\ u = <<>>
          /\ \A i, j \in DOMAIN d : d[i].type = "Start" /\ j > i => j = Len(d) /\ d[j].type = "Begin"
          /\ \A i \in DOMAIN d : d[i].type = "Begin" => i = Len(d) /\ d[i].comp = h.comp
       \/ /\ x.pc = "receive2" /\ AtMost(d, {"Begin"}) /\ (d = <<>> \/ u = <<>>)
          /\ \A i \in DOMAIN u : u[i].type \in {"SyncError", "Error"}
          /\ \A i \in DOMAIN d : d[i].comp = h.comp
       \/ x.pc = "content2" /\ x.comp = h.comp /\ d = <<>> /\ AtMost(u, {"Found"})
  /\ h.pc = "answer2" =>
       \/ /\ x.pc = "content2" /\ x.comp = h.comp /\ u = <<>> /\ AtMost(d, {"Content"})
          /\ \A i \in DOMAIN d : d[i].local = RowOf(h).local
       \/ x.pc = "receive2" /\ d = <<>> /\ AtMost(u, {"OK"})

SessionInv(x, h, u, d) ==
  /\ EndsInv(x, h, u, d)
  /\ UpInv(x, h, u)
  /\ DownInv(x, h, d)
  /\ x.pc \notin {"idle", "closed"} => Joint(x, h, u, d)

ProtocolInv == \A s \in Slave : SessionInv(ses[s], hlp[s], up[s], down[s])

(* The slave gives the composite up.                                        *)
Refuses(x, m) ==
  \/ x.pc = "found" /\ m # About("Found", x.comp)
  \/ x.pc = "answer" /\ m = About("Error", x.comp)

(* The slave answers the line with an error.                                *)
Unexpected(x, m) ==
  \/ x.pc \in {"content", "content2"} /\ m.type # "Content"
  \/ x.pc = "receive2" /\ m.type \notin {"Begin", "NoMore"}

(* The master gives the composite up.                                       *)
GivesUp(h, m) ==
  \/ h.pc \in {"work", "answer"} /\ m.type \in {"Work", "OK"}
  \/ h.pc = "found" /\ m # About("Found", h.comp)

(* The master has sent its row.                                             *)
Answers(h, g) ==
  \/ h.pc = "found" /\ g.pc = "answer"
  \/ h.pc = "found2" /\ g.pc = "answer2"

(* The master adds the work of the slave to its row.                        *)
Writes(h, g, m, mine) ==
  /\ m.curves = {} => g.pend = None
  /\ m.curves # {} =>
       /\ g.pend # None
       /\ \A k \in Curve : g.pend.local[k] = mine[h.comp].local[k] + (IF k \in m.curves THEN 1 ELSE 0)

(* The master does not expect the line.                                     *)
Ignores(h, m) ==
  \/ h.pc = "receive" /\ m.type \notin {"Begin", "NoMore"}
  \/ h.pc = "work" /\ m.type # "Work"
  \/ h.pc \in {"answer", "answer2"} /\ m # About("OK", h.comp)

-----------------------------------------------------------------------------
(***************************************************************************)
(* The curves of a session: r are the slave's composites, m the master's,  *)
(* n the failures so far, l says whether the connection stands.            *)
(***************************************************************************)
(* What the slave has still to report is what its snapshot shows, or more.  *)
SnapOf(x, r) ==
  x.snap # None => \A c \in Composite :
    c \in x.todo \/ (c = x.comp /\ x.pc = "found") => x.snap[c].since \subseteq r[c].since

(* The master's snapshot is behind only where it is known to be stale.      *)
SeenOf(h, m) ==
  h.snap # None => \A c \in Composite, k \in Curve :
    /\ h.snap.rows[c].local[k] <= m[c].local[k]
    /\ c \notin h.stale => h.snap.rows[c].local[k] = m[c].local[k]

(* Work under way is still to be reported.                                  *)
WorkOf(h, u, r) ==
  h.pc # "closed" => \A i \in DOMAIN u :
    u[i].type = "Work" => u[i].curves \subseteq r[u[i].comp].since

(* The row the master has written: nobody else has changed it.              *)
PendOf(h, r, m) ==
  h.pend # None => \A k \in Curve :
    \/ h.pend.local[k] = m[h.comp].local[k]
    \/ h.pend.local[k] = m[h.comp].local[k] + 1 /\ k \in r[h.comp].since

(* Curves that the master may still count in this session.                  *)
Offers(h, u, m, k) ==
  \/ h.pc # "closed" /\ \E i \in DOMAIN u : u[i].type = "Work" /\ k \in u[i].curves
  \/ h.pend # None /\ CompositeOf[k] = h.comp /\ h.pend.local[k] # m[h.comp].local[k]

Counts(m, k) == m[CompositeOf[k]].local[k]

(* Curves still to be reported were counted in vain, once for each failure, *)
(* or the confirmation is under way.                                        *)
ShownOf(d, r, m, n) ==
  \A k \in Curve : k \in r[CompositeOf[k]].since =>
    \/ Counts(m, k) <= n
    \/ \E i \in DOMAIN d : d[i].type = "OK" /\ d[i].comp = CompositeOf[k]

(* Curves the master may count now: it will be able to tell the slave, or   *)
(* there was one failure more.                                              *)
OfferedOf(x, h, u, m, n, l) ==
  \A k \in Curve : Offers(h, u, m, k) =>
    /\ Counts(m, k) <= n
    /\ \/ Counts(m, k) < n
       \/ l /\ x.pc \notin {"idle", "closed"}
       \/ x.pc \in {"idle", "closed"} /\ \A i \in DOMAIN u : u[i].type # "OK"

(* A session of the slave ends after a failure, or with nothing to be told. *)
Excused(x, h, u, n, n2, l) ==
  \/ n < n2
  \/ n2 = n /\ (x.pc \notin {"answer", "content"} \/ ~l \/ h.pc = "closed" \/ u = <<>>)

(* What the slave is about to commit the master has.                        *)
ReadyOf(x, d, r, m) ==
  \A i \in DOMAIN d :
    /\ d[i].type = "OK" => \A k \in Curve :
         /\ x.pend.local[k] <= m[d[i].comp].local[k]
         /\ Postgres /\ k \in r[d[i].comp].since => m[d[i].comp].local[k] > 0
    /\ d[i].type = "Content" /\ x.pc = "content2" =>
         \A k \in Curve : d[i].local[k] <= m[d[i].comp].local[k]

(* On PostgreSQL the master is told of all that the slave forgets.          *)
ReportOf(x, h, u, r) ==
  Postgres /\ x.pc \notin {"idle", "closed"} /\ x.comp = h.comp =>
    /\ h.pc \in {"work", "found"} /\ x.pc = "answer" /\ x.pend = None =>
         x.snap[x.comp].since = {}
    /\ h.pc = "work" /\ x.pend # None => \A i \in DOMAIN u :
         u[i].type = "Work" => r[x.comp].since \subseteq u[i].curves
    /\ h.pc \in {"found", "answer"} /\ x.pend # None => \A k \in r[x.comp].since :
         h.pend # None /\ h.pend.local[k] > 0

DataOf(x, h, u, d, r, m, n, l) ==
  /\ SnapOf(x, r)
  /\ SeenOf(h, m)
  /\ WorkOf(h, u, r)
  /\ PendOf(h, r, m)
  /\ ShownOf(d, r, m, n)
  /\ OfferedOf(x, h, u, m, n, l)
  /\ ReadyOf(x, d, r, m)
  /\ ReportOf(x, h, u, r)

(* Curves to be reported were returned here.                                *)
SinceOf(s, r, D) ==
  \A c \in Composite : \A k \in r[c].since : CompositeOf[k] = c /\ ServerOf[k] = s /\ k \in D

(* A row written by one session is locked for the others.                   *)
Exclusive ==
  \A s, t \in Slave : s # t /\ hlp[s].pend # None /\ hlp[t].pend # None => hlp[s].comp # hlp[t].comp

(* Curves not returned yet are counted nowhere.                             *)
NotBefore == \A k \in Curve : k \notin done => Counts(mrow, k) = 0

DataInv ==
  /\ \A s \in Slave : /\ DataOf(ses[s], hlp[s], up[s], down[s], srow[s], mrow, trouble, link[s])
                      /\ SinceOf(s, srow[s], done)
  /\ Exclusive
  /\ NotBefore
  /\ SlaveNeverAhead
  /\ OneRecountPerFailure

IInv == TypeOK /\ ProtocolInv /\ DataInv

-----------------------------------------------------------------------------
(* Reading the first line of a channel, and adding lines to it.             *)
Took(q, m, r) ==
  /\ q # <<>> /\ 1 \in DOMAIN q /\ q[1] = m
  /\ \A i \in DOMAIN r : i # 0 /\ i + 1 \in DOMAIN q /\ r[i] = q[i + 1]
  /\ Len(r) = Len(q) - 1
  /\ Len(q) = 1 => r = <<>>

Put(q, m, r) ==
  /\ \A i \in DOMAIN r : (i \in DOMAIN q /\ r[i] = q[i]) \/ (i = Len(q) + 1 /\ r[i] = m)
  /\ Len(r) = Len(q) + 1

Keeps(q, r) == \A i \in DOMAIN q : i \in DOMAIN r /\ r[i] = q[i]

PutTwo(q, m, l, r) ==
  \A i \in DOMAIN r : \/ i \in DOMAIN q /\ r[i] = q[i] /\ i # Len(r)
                      \/ i = Len(r) /\ r[i] = l
                      \/ r[i] = m

(* The places of a channel, and what stands there. *)
LEMMA Indices ==
  ASSUME NEW q \in Seq(Message)
  PROVE  /\ DOMAIN q = 1..Len(q) /\ Len(q) \in Nat
         /\ \A i \in DOMAIN q : i \in Nat \ {0} /\ q[i] \in Message
         /\ q = <<>> <=> DOMAIN q = {}
         /\ Len(q) = 0 <=> q = <<>>
  OBVIOUS

(* Reading takes the first line. *)
LEMMA Takes ==
  ASSUME NEW q \in Seq(Message), q # <<>>
  PROVE  Took(q, Head(q), Tail(q)) /\ Tail(q) \in Seq(Message) /\ Head(q) \in Message
<1>1. Tail(q) \in Seq(Message) /\ Len(Tail(q)) = Len(q) - 1 /\ Head(q) = q[1] /\ Len(q) >= 1
  OBVIOUS
<1>2. \A i \in 1..Len(Tail(q)) : Tail(q)[i] = q[i + 1]
  OBVIOUS
<1> QED
  BY <1>1, <1>2, Indices DEF Took

(* A line that is sent comes last. *)
LEMMA Puts ==
  ASSUME NEW q \in Seq(Message), NEW m \in Message
  PROVE  /\ Put(q, m, q \o <<m>>) /\ Keeps(q, q \o <<m>>)
         /\ q \o <<m>> \in Seq(Message)
<1>1. q \o <<m>> = Append(q, m)
  OBVIOUS
<1>2. Append(q, m) \in Seq(Message) /\ Len(Append(q, m)) = Len(q) + 1
  OBVIOUS
<1>3. \A i \in 1..(Len(q) + 1) : Append(q, m)[i] = IF i = Len(q) + 1 THEN m ELSE q[i]
  OBVIOUS
<1> QED
  BY <1>1, <1>2, <1>3, Indices DEF Put, Keeps

(* Two lines that are sent come last, in this order. *)
LEMMA PutsTwo ==
  ASSUME NEW q \in Seq(Message), NEW m \in Message, NEW l \in Message
  PROVE  /\ q \o <<m, l>> \in Seq(Message)
         /\ PutTwo(q, m, l, q \o <<m, l>>) /\ Keeps(q, q \o <<m, l>>)
<1> DEFINE t == q \o <<m, l>>
<1>1. t \in Seq(Message) /\ Len(t) = Len(q) + 2
  BY ConcatProperties, <<m, l>> \in Seq(Message)
<1>2. t[Len(q) + 1] = m /\ t[Len(q) + 2] = l /\ \A i \in 1..Len(q) : t[i] = q[i]
  BY ConcatProperties, <<m, l>> \in Seq(Message)
<1> QED
  BY <1>1, <1>2, Indices DEF PutTwo, Keeps

(* A lost connection leaves the first lines, or none. *)
LEMMA Cuts ==
  ASSUME NEW q \in Seq(Message), NEW i \in 0..Len(q)
  PROVE  /\ SubSeq(q, 1, i) \in Seq(Message) /\ Len(SubSeq(q, 1, i)) = i
         /\ \A j \in DOMAIN SubSeq(q, 1, i) : j \in DOMAIN q /\ SubSeq(q, 1, i)[j] = q[j]
<1>1. /\ SubSeq(q, 1, i) \in Seq(Message) /\ Len(SubSeq(q, 1, i)) = i
      /\ \A j \in 1..i : SubSeq(q, 1, i)[j] = q[j]
  BY SubSeqProperties
<1> QED
  BY <1>1, Indices

(* A channel of at most one line is empty once it is read. *)
LEMMA AtMostTook ==
  ASSUME NEW q \in Seq(Message), NEW r \in Seq(Message), NEW m, NEW T, AtMost(q, T), Took(q, m, r)
  PROVE  r = <<>> /\ m.type \in T
<1>1. Len(q) = 1
  <2>1. CASE Len(q) > 1
    BY <2>1, 2 \in DOMAIN q, Indices DEF AtMost
  <2> QED
    BY <2>1, Indices DEF Took
<1> QED
  BY <1>1 DEF Took, AtMost

(* The fields of a line, by its type. *)
LEMMA MessageFields ==
  ASSUME NEW m \in Message
  PROVE  /\ m.type \in {"Found", "Begin", "OK", "Error", "Work", "Content"} => m.comp \in Composite
         /\ m.type = "Work" => m.curves \in SUBSET Curve
         /\ m.type = "Content" => m.local \in Tally
         /\ m.type \in {"Found", "Begin", "OK", "Error"} => m = About(m.type, m.comp)
  BY DEF Message, About

(* What the two sides send are lines. *)
LEMMA Lines ==
  /\ Start \in Message /\ NoMore \in Message /\ SyncError \in Message
  /\ \A c \in Composite : \A t \in {"Found", "Begin", "OK", "Error"} : About(t, c) \in Message
  /\ \A c \in Composite, k \in SUBSET Curve : [type |-> "Work", comp |-> c, curves |-> k] \in Message
  /\ \A c \in Composite, l \in Tally : [type |-> "Content", comp |-> c, local |-> l] \in Message
  BY DEF Message, Start, NoMore, SyncError, About

-----------------------------------------------------------------------------
(***************************************************************************)
(* The protocol of a session, step by step.  Lemma LinesX: what a step of  *)
(* one side makes of its place (y or g) and of the channels (v to the      *)
(* master, e to the slave) keeps SessionInv.                               *)
(***************************************************************************)
(* A composite is announced. *)
LEMMA LinesBegin ==
  ASSUME NEW x \in Session, NEW h \in Helper, NEW u \in Seq(Message), NEW d \in Seq(Message),
         SessionInv(x, h, u, d),
         NEW y \in Session,
         x.pc = "next",
         NEW c \in Composite,
         c \in x.todo,
         NEW v \in Seq(Message),
         v = u \/ Put(u, About("Begin", c), v),
         y.pc = "found",
         y.comp = c,
         y.todo = x.todo \ {c},
         y.snap = x.snap,
         y.pend = x.pend
  PROVE  SessionInv(y, h, v, d)
<1>1. EndsInv(y, h, v, d)
  BY Indices, MessageFields, NoneAssumption DEF SessionInv, EndsInv, Joint, Put, PutTwo, Took, AtMost
<1>2. UpInv(y, h, v)
  BY Indices, MessageFields, NoneAssumption DEF SessionInv, EndsInv, UpInv, Joint, Wanted, Put, PutTwo, Took, AtMost, Phase2, About, Start, NoMore, SyncError
<1>3. DownInv(y, h, d)
  BY Indices, MessageFields, NoneAssumption DEF SessionInv, EndsInv, DownInv, Joint, Put, PutTwo, Took, AtMost, Phase2, About, Start, NoMore, SyncError
<1>4. y.pc \notin {"idle", "closed"} => Joint(y, h, v, d)
  BY Indices, MessageFields, NoneAssumption DEF SessionInv, EndsInv, UpInv, DownInv, Joint, RowOf, Put, PutTwo, Took, AtMost, Phase2, About, Start, NoMore, SyncError, Wanted
<1> QED
  BY <1>1, <1>2, <1>3, <1>4 DEF SessionInv

(* The slave has announced all of them. *)
LEMMA LinesEnd1 ==
  ASSUME NEW x \in Session, NEW h \in Helper, NEW u \in Seq(Message), NEW d \in Seq(Message),
         SessionInv(x, h, u, d),
         NEW y \in Session,
         x.pc = "next",
         NEW v \in Seq(Message),
         v = u \/ Put(u, NoMore, v),
         y.pc = "start2",
         y.comp = None,
         y.todo = x.todo,
         y.snap = None,
         y.pend = None
  PROVE  SessionInv(y, h, v, d)
<1>1. EndsInv(y, h, v, d)
  BY Indices, MessageFields, NoneAssumption DEF SessionInv, EndsInv, Joint, Put, PutTwo, Took, AtMost
<1>2. UpInv(y, h, v)
  BY Indices, MessageFields, NoneAssumption DEF SessionInv, EndsInv, UpInv, Joint, Wanted, Put, PutTwo, Took, AtMost, Phase2, About, Start, NoMore, SyncError
<1>3. DownInv(y, h, d)
  BY Indices, MessageFields, NoneAssumption DEF SessionInv, EndsInv, DownInv, Joint, Put, PutTwo, Took, AtMost, Phase2, About, Start, NoMore, SyncError
<1>4. y.pc \notin {"idle", "closed"} => Joint(y, h, v, d)
  BY Indices, MessageFields, NoneAssumption DEF SessionInv, EndsInv, UpInv, DownInv, Joint, RowOf, Put, PutTwo, Took, AtMost, Phase2, About, Start, NoMore, SyncError, Wanted
<1> QED
  BY <1>1, <1>2, <1>3, <1>4 DEF SessionInv

(* The slave sends its curves. *)
LEMMA LinesWork ==
  ASSUME NEW x \in Session, NEW h \in Helper, NEW u \in Seq(Message), NEW d \in Seq(Message),
         SessionInv(x, h, u, d),
         NEW y \in Session,
         x.pc = "found",
         NEW e \in Seq(Message),
         Took(d, About("Found", x.comp), e),
         NEW v \in Seq(Message),
         NEW m \in Message,
         m.type = "Work",
         m.comp = x.comp,
         v = u \/ Put(u, m, v),
         y.pc = "answer",
         y.comp = x.comp,
         y.todo = x.todo,
         y.snap # None,
         y.pend # None => y.pend.since = {}
  PROVE  SessionInv(y, h, v, e)
<1>0. h.pc # "closed" => h.pc = "work" /\ h.comp = x.comp /\ u = <<>> /\ e = <<>>
  <2> SUFFICES ASSUME h.pc # "closed" PROVE h.pc = "work" /\ h.comp = x.comp /\ u = <<>> /\ e = <<>>
    OBVIOUS
  <2>1. d[1].type = "Found" /\ d[1].comp = x.comp /\ 1 \in DOMAIN d
    BY DEF Took, About
  <2>2. h.pc = "work" /\ h.comp = x.comp
    BY <2>1 DEF SessionInv, DownInv
  <2>3. u = <<>> /\ (\A i \in DOMAIN d : d[i].type = "Found" => i = Len(d))
    BY <2>2 DEF SessionInv, Joint
  <2> QED
    BY <2>1, <2>2, <2>3 DEF Took
<1>1. EndsInv(y, h, v, e)
  BY <1>0, Indices, MessageFields DEF SessionInv, EndsInv, Joint, Put, PutTwo, Took, AtMost
<1>2. UpInv(y, h, v)
  BY <1>0, Indices, MessageFields DEF SessionInv, EndsInv, UpInv, Joint, Wanted, Put, PutTwo, Took, AtMost, Phase2, About, Start, NoMore, SyncError
<1>3. DownInv(y, h, e)
  BY <1>0, Indices, MessageFields DEF SessionInv, EndsInv, DownInv, Joint, Put, PutTwo, Took, AtMost, Phase2, About, Start, NoMore, SyncError
<1>4. y.pc \notin {"idle", "closed"} => Joint(y, h, v, e)
  BY <1>0, Indices, MessageFields DEF SessionInv, EndsInv, UpInv, DownInv, Joint, RowOf, Put, PutTwo, Took, AtMost, Phase2, About, Start, NoMore, SyncError, Wanted
<1> QED
  BY <1>1, <1>2, <1>3, <1>4 DEF SessionInv

(* The slave leaves the session without a word. *)
LEMMA LinesLeave ==
  ASSUME NEW x \in Session, NEW h \in Helper, NEW u \in Seq(Message), NEW d \in Seq(Message),
         SessionInv(x, h, u, d),
         NEW y \in Session,
         x.pc \notin {"idle", "closed"},
         NEW e \in Seq(Message),
         (e = d /\ d = <<>>) \/ \E m \in Message : Took(d, m, e) /\ x.pc # "answer",
         y.pc = "closed",
         y.comp = None,
         y.todo = {},
         y.snap = None,
         y.pend = None
  PROVE  SessionInv(y, h, u, e)
<1>1. EndsInv(y, h, u, e)
  BY Indices, MessageFields, NoneAssumption DEF SessionInv, EndsInv, Joint, Put, PutTwo, Took, AtMost
<1>2. UpInv(y, h, u)
  BY Indices, MessageFields, NoneAssumption DEF SessionInv, EndsInv, UpInv, Joint, Wanted, Put, PutTwo, Took, AtMost, Phase2, About, Start, NoMore, SyncError
<1>3. DownInv(y, h, e)
  BY Indices, MessageFields, NoneAssumption DEF SessionInv, EndsInv, DownInv, Joint, Put, PutTwo, Took, AtMost, Phase2, About, Start, NoMore, SyncError
<1>4. y.pc \notin {"idle", "closed"} => Joint(y, h, u, e)
  BY Indices, MessageFields, NoneAssumption DEF SessionInv, EndsInv, UpInv, DownInv, Joint, RowOf, Put, PutTwo, Took, AtMost, Phase2, About, Start, NoMore, SyncError, Wanted
<1> QED
  BY <1>1, <1>2, <1>3, <1>4 DEF SessionInv

(* The slave leaves the session and says so. *)
LEMMA LinesClose ==
  ASSUME NEW x \in Session, NEW h \in Helper, NEW u \in Seq(Message), NEW d \in Seq(Message),
         SessionInv(x, h, u, d),
         NEW y \in Session,
         x.pc \notin {"idle", "closed", "start2"},
         NEW e \in Seq(Message),
         (e = d /\ d = <<>>) \/ \E m \in Message : Took(d, m, e) /\ x.pc # "answer",
         NEW v \in Seq(Message),
         PutTwo(u, SyncError, NoMore, v),
         y.pc = "closed",
         y.comp = None,
         y.todo = {},
         y.snap = None,
         y.pend = None
  PROVE  SessionInv(y, h, v, e)
<1>1. EndsInv(y, h, v, e)
  BY Indices, MessageFields, NoneAssumption DEF SessionInv, EndsInv, Joint, Put, PutTwo, Took, AtMost
<1>2. UpInv(y, h, v)
  BY Indices, MessageFields, NoneAssumption DEF SessionInv, EndsInv, UpInv, Joint, Wanted, Put, PutTwo, Took, AtMost, Phase2, About, Start, NoMore, SyncError
<1>3. DownInv(y, h, e)
  BY Indices, MessageFields, NoneAssumption DEF SessionInv, EndsInv, DownInv, Joint, Put, PutTwo, Took, AtMost, Phase2, About, Start, NoMore, SyncError
<1>4. y.pc \notin {"idle", "closed"} => Joint(y, h, v, e)
  BY Indices, MessageFields, NoneAssumption DEF SessionInv, EndsInv, UpInv, DownInv, Joint, RowOf, Put, PutTwo, Took, AtMost, Phase2, About, Start, NoMore, SyncError, Wanted
<1> QED
  BY <1>1, <1>2, <1>3, <1>4 DEF SessionInv

(* The composite is given up. *)
LEMMA LinesRefused ==
  ASSUME NEW x \in Session, NEW h \in Helper, NEW u \in Seq(Message), NEW d \in Seq(Message),
         SessionInv(x, h, u, d),
         NEW y \in Session,
         NEW e \in Seq(Message),
         NEW m \in Message,
         Took(d, m, e),
         Refuses(x, m),
         y.pc = "next",
         y.comp = x.comp,
         y.todo = x.todo,
         y.snap = None,
         y.pend = None
  PROVE  SessionInv(y, h, u, e)
<1> USE DEF Refuses
<1>1. EndsInv(y, h, u, e)
  BY Indices, MessageFields, NoneAssumption DEF SessionInv, EndsInv, Joint, Put, PutTwo, Took, AtMost
<1>2. UpInv(y, h, u)
  BY Indices, MessageFields, NoneAssumption DEF SessionInv, EndsInv, UpInv, Joint, Wanted, Put, PutTwo, Took, AtMost, Phase2, About, Start, NoMore, SyncError
<1>3. DownInv(y, h, e)
  BY Indices, MessageFields, NoneAssumption DEF SessionInv, EndsInv, DownInv, Joint, Put, PutTwo, Took, AtMost, Phase2, About, Start, NoMore, SyncError
<1>4. y.pc \notin {"idle", "closed"} => Joint(y, h, u, e)
  BY Indices, MessageFields, NoneAssumption DEF SessionInv, EndsInv, UpInv, DownInv, Joint, RowOf, Put, PutTwo, Took, AtMost, Phase2, About, Start, NoMore, SyncError, Wanted
<1> QED
  BY <1>1, <1>2, <1>3, <1>4 DEF SessionInv

(* The slave has deleted its details. *)
LEMMA LinesDeleted ==
  ASSUME NEW x \in Session, NEW h \in Helper, NEW u \in Seq(Message), NEW d \in Seq(Message),
         SessionInv(x, h, u, d),
         NEW y \in Session,
         x.pc = "answer",
         NEW e \in Seq(Message),
         Took(d, About("Begin", x.comp), e),
         NEW v \in Seq(Message),
         v = u \/ Put(u, About("Found", x.comp), v),
         y.pc = "content",
         y.comp = x.comp,
         y.todo = x.todo,
         y.snap = x.snap,
         y.pend # None,
         y.pend.since = {}
  PROVE  SessionInv(y, h, v, e)
<1>0. h.pc # "closed" => h.pc = "found" /\ h.comp = x.comp /\ u = <<>> /\ e = <<>>
  <2> SUFFICES ASSUME h.pc # "closed" PROVE h.pc = "found" /\ h.comp = x.comp /\ u = <<>> /\ e = <<>>
    OBVIOUS
  <2>1. 1 \in DOMAIN d /\ d[1].type = "Begin" /\ d # <<>>
    BY DEF Took, About
  <2>2. h.pc = "found" /\ h.comp = x.comp /\ u = <<>> /\ AtMost(d, {"Begin"})
    BY <2>1 DEF SessionInv, EndsInv, Joint, AtMost, Helper, MasterWaits
  <2>3. e = <<>>
    BY <2>2, AtMostTook
  <2> QED
    BY <2>2, <2>3
<1>1. EndsInv(y, h, v, e)
  BY <1>0, Indices, MessageFields, NoneAssumption DEF SessionInv, EndsInv, Joint, Put, PutTwo, Took, AtMost
<1>2. UpInv(y, h, v)
  BY <1>0, Indices, MessageFields, NoneAssumption DEF SessionInv, EndsInv, UpInv, Joint, Wanted, Put, PutTwo, Took, AtMost, Phase2, About, Start, NoMore, SyncError
<1>3. DownInv(y, h, e)
  BY <1>0, Indices, MessageFields, NoneAssumption DEF SessionInv, EndsInv, DownInv, Joint, Put, PutTwo, Took, AtMost, Phase2, About, Start, NoMore, SyncError
<1>4. y.pc \notin {"idle", "closed"} => Joint(y, h, v, e)
  BY <1>0, Indices, MessageFields, NoneAssumption DEF SessionInv, EndsInv, UpInv, DownInv, Joint, RowOf, Put, PutTwo, Took, AtMost, Phase2, About, Start, NoMore, SyncError, Wanted
<1> QED
  BY <1>1, <1>2, <1>3, <1>4 DEF SessionInv

(* A line is read, and nothing follows. *)
LEMMA LinesDropped ==
  ASSUME NEW x \in Session, NEW h \in Helper, NEW u \in Seq(Message), NEW d \in Seq(Message),
         SessionInv(x, h, u, d),
         x.pc = "answer",
         NEW e \in Seq(Message),
         NEW m \in Message,
         Took(d, m, e),
         m # About("OK", x.comp),
         m # About("Error", x.comp)
  PROVE  SessionInv(x, h, u, e)
<1>1. EndsInv(x, h, u, e)
  BY Indices, MessageFields, NoneAssumption DEF SessionInv, EndsInv, Joint, Put, PutTwo, Took, AtMost
<1>2. UpInv(x, h, u)
  BY Indices, MessageFields, NoneAssumption DEF SessionInv, EndsInv, UpInv, Joint, Wanted, Put, PutTwo, Took, AtMost, Phase2, About, Start, NoMore, SyncError
<1>3. DownInv(x, h, e)
  BY Indices, MessageFields, NoneAssumption DEF SessionInv, EndsInv, DownInv, Joint, Put, PutTwo, Took, AtMost, Phase2, About, Start, NoMore, SyncError
<1>4. x.pc \notin {"idle", "closed"} => Joint(x, h, u, e)
  BY Indices, MessageFields, NoneAssumption DEF SessionInv, EndsInv, UpInv, DownInv, Joint, RowOf, Put, PutTwo, Took, AtMost, Phase2, About, Start, NoMore, SyncError, Wanted
<1> QED
  BY <1>1, <1>2, <1>3, <1>4 DEF SessionInv

(* The slave has inserted the details. *)
LEMMA LinesInserted ==
  ASSUME NEW x \in Session, NEW h \in Helper, NEW u \in Seq(Message), NEW d \in Seq(Message),
         SessionInv(x, h, u, d),
         NEW y \in Session,
         x.pc = "content",
         NEW e \in Seq(Message),
         NEW m \in Message,
         m.type = "Content",
         Took(d, m, e),
         NEW v \in Seq(Message),
         v = u \/ Put(u, About("OK", x.comp), v),
         y.pc = "answer",
         y.comp = x.comp,
         y.todo = x.todo,
         y.snap = x.snap,
         y.pend # None,
         y.pend.since = x.pend.since,
         y.pend.local = m.local
  PROVE  SessionInv(y, h, v, e)
<1>0. h.pc # "closed" => h.pc = "answer" /\ h.comp = x.comp /\ u = <<>> /\ e = <<>> /\ m.local = RowOf(h).local
  <2> SUFFICES ASSUME h.pc # "closed" PROVE h.pc = "answer" /\ h.comp = x.comp /\ u = <<>> /\ e = <<>> /\ m.local = RowOf(h).local
    OBVIOUS
  <2>1. 1 \in DOMAIN d /\ d[1] = m /\ d # <<>>
    BY DEF Took, About
  <2>2. h.pc = "answer" /\ h.comp = x.comp /\ u = <<>> /\ AtMost(d, {"Content"}) /\ m.local = RowOf(h).local
    BY <2>1 DEF SessionInv, EndsInv, Joint, Helper, MasterWaits, AtMost
  <2>3. e = <<>>
    BY <2>2, AtMostTook
  <2> QED
    BY <2>2, <2>3
<1>1. EndsInv(y, h, v, e)
  BY <1>0, Indices, MessageFields, NoneAssumption DEF SessionInv, EndsInv, Joint, Put, PutTwo, Took, AtMost
<1>2. UpInv(y, h, v)
  BY <1>0, Indices, MessageFields, NoneAssumption DEF SessionInv, EndsInv, UpInv, Joint, Wanted, Put, PutTwo, Took, AtMost, Phase2, About, Start, NoMore, SyncError
<1>3. DownInv(y, h, e)
  BY <1>0, Indices, MessageFields, NoneAssumption DEF SessionInv, EndsInv, DownInv, Joint, Put, PutTwo, Took, AtMost, Phase2, About, Start, NoMore, SyncError
<1>4. y.pc \notin {"idle", "closed"} => Joint(y, h, v, e)
  BY <1>0, Indices, MessageFields, NoneAssumption DEF SessionInv, EndsInv, UpInv, DownInv, Joint, RowOf, Put, PutTwo, Took, AtMost, Phase2, About, Start, NoMore, SyncError, Wanted
<1> QED
  BY <1>1, <1>2, <1>3, <1>4 DEF SessionInv

(* The slave commits. *)
LEMMA LinesCommitted ==
  ASSUME NEW x \in Session, NEW h \in Helper, NEW u \in Seq(Message), NEW d \in Seq(Message),
         SessionInv(x, h, u, d),
         NEW y \in Session,
         x.pc = "answer",
         NEW e \in Seq(Message),
         Took(d, About("OK", x.comp), e),
         y.pc = "next",
         y.comp = x.comp,
         y.todo = x.todo,
         y.snap = None,
         y.pend = None
  PROVE  SessionInv(y, h, u, e)
<1>1. EndsInv(y, h, u, e)
  BY Indices, MessageFields, NoneAssumption DEF SessionInv, EndsInv, Joint, Put, PutTwo, Took, AtMost
<1>2. UpInv(y, h, u)
  BY Indices, MessageFields, NoneAssumption DEF SessionInv, EndsInv, UpInv, Joint, Wanted, Put, PutTwo, Took, AtMost, Phase2, About, Start, NoMore, SyncError
<1>3. DownInv(y, h, e)
  BY Indices, MessageFields, NoneAssumption DEF SessionInv, EndsInv, DownInv, Joint, Put, PutTwo, Took, AtMost, Phase2, About, Start, NoMore, SyncError
<1>4. y.pc \notin {"idle", "closed"} => Joint(y, h, u, e)
  BY Indices, MessageFields, NoneAssumption DEF SessionInv, EndsInv, UpInv, DownInv, Joint, RowOf, Put, PutTwo, Took, AtMost, Phase2, About, Start, NoMore, SyncError, Wanted
<1> QED
  BY <1>1, <1>2, <1>3, <1>4 DEF SessionInv

(* Phase 2 begins at the slave. *)
LEMMA LinesStart2 ==
  ASSUME NEW x \in Session, NEW h \in Helper, NEW u \in Seq(Message), NEW d \in Seq(Message),
         SessionInv(x, h, u, d),
         NEW y \in Session,
         x.pc = "start2",
         NEW e \in Seq(Message),
         Took(d, Start, e),
         y.pc = "receive2",
         y.comp = x.comp,
         y.todo = x.todo,
         y.snap = x.snap,
         y.pend = x.pend
  PROVE  SessionInv(y, h, u, e)
<1>0. h.pc \in Phase2 \cup {"closed"}
  BY DEF SessionInv, DownInv, Took, Start
<1>5. \A i \in DOMAIN e : e[i].type # "Start"
  <2> SUFFICES ASSUME NEW i \in DOMAIN e, e[i].type = "Start" PROVE FALSE
    OBVIOUS
  <2>1. 1 \in DOMAIN d /\ d[1].type = "Start"
    BY DEF Took, Start
  <2>2. i \in Nat \ {0} /\ i + 1 \in DOMAIN d /\ d[i + 1].type = "Start"
    BY Indices DEF Took
  <2>3. i + 1 = 1
    BY <2>1, <2>2 DEF SessionInv, DownInv
  <2> QED
    BY <2>2, <2>3
<1>1. EndsInv(y, h, u, e)
  BY <1>0, <1>5, Indices, MessageFields, NoneAssumption DEF SessionInv, EndsInv, Joint, Put, PutTwo, Took, AtMost
<1>2. UpInv(y, h, u)
  BY <1>0, <1>5, Indices, MessageFields, NoneAssumption DEF SessionInv, EndsInv, UpInv, Joint, Wanted, Put, PutTwo, Took, AtMost, Phase2, About, Start, NoMore, SyncError
<1>3. DownInv(y, h, e)
  BY <1>0, <1>5, Indices, MessageFields, NoneAssumption DEF SessionInv, EndsInv, DownInv, Joint, Put, PutTwo, Took, AtMost, Phase2, About, Start, NoMore, SyncError
<1>4. y.pc \notin {"idle", "closed"} => Joint(y, h, u, e)
  <2>1. 1 \in DOMAIN d /\ d[1].type = "Start"
    BY DEF Took, Start
  <2>2. CASE h.pc = "next2"
    <3>1. u = <<>> /\ 1 = Len(d)
      BY <2>1, <2>2 DEF SessionInv, Joint
    <3>2. e = <<>>
      BY <3>1 DEF Took
    <3> QED
      BY <3>1, <3>2, <2>2 DEF Joint
  <2>3. CASE h.pc = "found2"
    <3>1. /\ u = <<>>
          /\ \A i, j \in DOMAIN d : d[i].type = "Start" /\ j > i => j = Len(d) /\ d[j].type = "Begin"
          /\ \A i \in DOMAIN d : d[i].type = "Begin" => i = Len(d) /\ d[i].comp = h.comp
      BY <2>3 DEF SessionInv, Joint
    <3>2. ASSUME NEW i \in DOMAIN e
          PROVE  i = 1 /\ e[i].type = "Begin" /\ e[i].comp = h.comp
      <4>1. i \in Nat \ {0} /\ i + 1 \in DOMAIN d /\ e[i] = d[i + 1] /\ 2 \in DOMAIN d
        BY Indices DEF Took
      <4>2. i + 1 > 1 /\ 2 > 1
        BY <4>1
      <4>3. i + 1 = Len(d) /\ d[i + 1].type = "Begin"
        BY <2>1, <3>1, <4>1, <4>2
      <4>4. 2 = Len(d)
        BY <2>1, <3>1, <4>1, <4>2
      <4>5. i + 1 = 2 /\ e[i].comp = h.comp /\ e[i].type = "Begin"
        BY <3>1, <4>1, <4>3, <4>4
      <4> QED
        BY <4>1, <4>5
    <3> QED
      BY <2>3, <3>1, <3>2, Indices DEF Joint, AtMost
  <2>4. CASE h.pc \in {"answer2", "closed"}
    BY <2>4 DEF SessionInv, Joint
  <2> QED
    BY <1>0, <2>2, <2>3, <2>4 DEF Phase2
<1> QED
  BY <1>1, <1>2, <1>3, <1>4 DEF SessionInv

(* The slave refuses a composite. *)
LEMMA LinesRefuse2 ==
  ASSUME NEW x \in Session, NEW h \in Helper, NEW u \in Seq(Message), NEW d \in Seq(Message),
         SessionInv(x, h, u, d),
         x.pc = "receive2",
         NEW e \in Seq(Message),
         NEW m \in Message,
         m.type = "Begin",
         Took(d, m, e),
         NEW v \in Seq(Message),
         v = u \/ PutTwo(u, SyncError, About("Error", m.comp), v)
  PROVE  SessionInv(x, h, v, e)
<1>0. h.pc # "closed" => h.pc = "found2" /\ e = <<>>
  <2> SUFFICES ASSUME h.pc # "closed" PROVE h.pc = "found2" /\ e = <<>>
    OBVIOUS
  <2>1. h.pc = "found2"
    BY DEF SessionInv, DownInv, Took
  <2>2. AtMost(d, {"Begin"})
    BY <2>1 DEF SessionInv, Joint
  <2> QED
    BY <2>1, <2>2, AtMostTook
<1>5. \A i \in DOMAIN e : e[i].type # "Begin"
  <2> SUFFICES ASSUME NEW i \in DOMAIN e, e[i].type = "Begin" PROVE FALSE
    OBVIOUS
  <2>1. 1 \in DOMAIN d /\ d[1].type = "Begin"
    BY DEF Took, Start
  <2>2. i \in Nat \ {0} /\ i + 1 \in DOMAIN d /\ d[i + 1].type = "Begin"
    BY Indices DEF Took
  <2>3. i + 1 = 1
    BY <2>1, <2>2 DEF SessionInv, DownInv
  <2> QED
    BY <2>2, <2>3
<1>1. EndsInv(x, h, v, e)
  BY <1>0, <1>5, Indices, MessageFields, NoneAssumption DEF SessionInv, EndsInv, Joint, Put, PutTwo, Took, AtMost
<1>2. UpInv(x, h, v)
  BY <1>0, <1>5, Indices, MessageFields, NoneAssumption DEF SessionInv, EndsInv, UpInv, Joint, Wanted, Put, PutTwo, Took, AtMost, Phase2, About, Start, NoMore, SyncError
<1>3. DownInv(x, h, e)
  <2>1. CASE h.pc # "closed"
    BY <1>0, <2>1, Indices DEF DownInv
  <2>2. CASE h.pc = "closed"
    BY <1>5, <2>2, Indices DEF SessionInv, DownInv, Took
  <2> QED
    BY <2>1, <2>2
<1>4. x.pc \notin {"idle", "closed"} => Joint(x, h, v, e)
  BY <1>0, <1>5, Indices, MessageFields, NoneAssumption DEF SessionInv, EndsInv, UpInv, DownInv, Joint, RowOf, Put, PutTwo, Took, AtMost, Phase2, About, Start, NoMore, SyncError, Wanted
<1> QED
  BY <1>1, <1>2, <1>3, <1>4 DEF SessionInv

(* The slave has deleted the details it is going to replace. *)
LEMMA LinesDeleted2 ==
  ASSUME NEW x \in Session, NEW h \in Helper, NEW u \in Seq(Message), NEW d \in Seq(Message),
         SessionInv(x, h, u, d),
         NEW y \in Session,
         x.pc = "receive2",
         NEW e \in Seq(Message),
         NEW m \in Message,
         m.type = "Begin",
         Took(d, m, e),
         NEW v \in Seq(Message),
         v = u \/ Put(u, About("Found", m.comp), v),
         y.pc = "content2",
         y.comp = m.comp,
         y.todo = x.todo,
         y.snap # None,
         y.pend # None,
         y.pend.since = {}
  PROVE  SessionInv(y, h, v, e)
<1>0. h.pc # "closed" => h.pc = "found2" /\ h.comp = m.comp /\ u = <<>> /\ e = <<>>
  <2> SUFFICES ASSUME h.pc # "closed" PROVE h.pc = "found2" /\ h.comp = m.comp /\ u = <<>> /\ e = <<>>
    OBVIOUS
  <2>1. 1 \in DOMAIN d /\ d[1] = m /\ d # <<>>
    BY DEF Took, About
  <2>2. h.pc = "found2"
    BY <2>1 DEF SessionInv, DownInv
  <2>4. h.comp = m.comp /\ u = <<>> /\ AtMost(d, {"Begin"})
    BY <2>1, <2>2 DEF SessionInv, Joint
  <2>3. e = <<>>
    BY <2>4, AtMostTook
  <2> QED
    BY <2>2, <2>3, <2>4
<1>5. \A i \in DOMAIN e : e[i].type # "Begin"
  <2> SUFFICES ASSUME NEW i \in DOMAIN e, e[i].type = "Begin" PROVE FALSE
    OBVIOUS
  <2>1. 1 \in DOMAIN d /\ d[1].type = "Begin"
    BY DEF Took, Start
  <2>2. i \in Nat \ {0} /\ i + 1 \in DOMAIN d /\ d[i + 1].type = "Begin"
    BY Indices DEF Took
  <2>3. i + 1 = 1
    BY <2>1, <2>2 DEF SessionInv, DownInv
  <2> QED
    BY <2>2, <2>3
<1>1. EndsInv(y, h, v, e)
  BY <1>0, <1>5, Indices, MessageFields, NoneAssumption DEF SessionInv, EndsInv, Joint, Put, PutTwo, Took, AtMost
<1>2. UpInv(y, h, v)
  BY <1>0, <1>5, Indices, MessageFields, NoneAssumption DEF SessionInv, EndsInv, UpInv, Joint, Wanted, Put, PutTwo, Took, AtMost, Phase2, About, Start, NoMore, SyncError
<1>3. DownInv(y, h, e)
  <2>1. CASE h.pc # "closed"
    BY <1>0, <2>1, Indices DEF DownInv
  <2>2. CASE h.pc = "closed"
    BY <1>5, <2>2, Indices DEF SessionInv, DownInv, Took
  <2> QED
    BY <2>1, <2>2
<1>4. y.pc \notin {"idle", "closed"} => Joint(y, h, v, e)
  BY <1>0, <1>5, Indices, MessageFields, NoneAssumption DEF SessionInv, EndsInv, UpInv, DownInv, Joint, RowOf, Put, PutTwo, Took, AtMost, Phase2, About, Start, NoMore, SyncError, Wanted
<1> QED
  BY <1>1, <1>2, <1>3, <1>4 DEF SessionInv

(* The slave has replaced a composite. *)
LEMMA LinesReplaced ==
  ASSUME NEW x \in Session, NEW h \in Helper, NEW u \in Seq(Message), NEW d \in Seq(Message),
         SessionInv(x, h, u, d),
         NEW y \in Session,
         x.pc = "content2",
         NEW e \in Seq(Message),
         NEW m \in Message,
         m.type = "Content",
         Took(d, m, e),
         NEW v \in Seq(Message),
         v = u \/ Put(u, About("OK", x.comp), v),
         y.pc = "receive2",
         y.comp = None,
         y.todo = x.todo,
         y.snap = None,
         y.pend = None
  PROVE  SessionInv(y, h, v, e)
<1>0. h.pc # "closed" => h.pc = "answer2" /\ h.comp = x.comp /\ u = <<>> /\ e = <<>>
  <2> SUFFICES ASSUME h.pc # "closed" PROVE h.pc = "answer2" /\ h.comp = x.comp /\ u = <<>> /\ e = <<>>
    OBVIOUS
  <2>1. 1 \in DOMAIN d /\ d[1] = m /\ d # <<>>
    BY DEF Took, About
  <2>2. h.pc = "answer2" /\ h.comp = x.comp /\ u = <<>> /\ AtMost(d, {"Content"})
    BY <2>1 DEF SessionInv, EndsInv, Joint, Helper, MasterWaits, AtMost
  <2>3. e = <<>>
    BY <2>2, AtMostTook
  <2> QED
    BY <2>2, <2>3
<1>1. EndsInv(y, h, v, e)
  BY <1>0, Indices, MessageFields, NoneAssumption DEF SessionInv, EndsInv, Joint, Put, PutTwo, Took, AtMost
<1>2. UpInv(y, h, v)
  BY <1>0, Indices, MessageFields, NoneAssumption DEF SessionInv, EndsInv, UpInv, Joint, Wanted, Put, PutTwo, Took, AtMost, Phase2, About, Start, NoMore, SyncError
<1>3. DownInv(y, h, e)
  BY <1>0, Indices, MessageFields, NoneAssumption DEF SessionInv, EndsInv, DownInv, Joint, Put, PutTwo, Took, AtMost, Phase2, About, Start, NoMore, SyncError
<1>4. y.pc \notin {"idle", "closed"} => Joint(y, h, v, e)
  BY <1>0, Indices, MessageFields, NoneAssumption DEF SessionInv, EndsInv, UpInv, DownInv, Joint, RowOf, Put, PutTwo, Took, AtMost, Phase2, About, Start, NoMore, SyncError, Wanted
<1> QED
  BY <1>1, <1>2, <1>3, <1>4 DEF SessionInv

(* The slave answers a line with an error. *)
LEMMA LinesComplained ==
  ASSUME NEW x \in Session, NEW h \in Helper, NEW u \in Seq(Message), NEW d \in Seq(Message),
         SessionInv(x, h, u, d),
         NEW e \in Seq(Message),
         NEW m \in Message,
         Took(d, m, e),
         Unexpected(x, m),
         NEW v \in Seq(Message),
         v = u \/ Put(u, SyncError, v)
  PROVE  SessionInv(x, h, v, e)
<1> USE DEF Unexpected
<1>1. EndsInv(x, h, v, e)
  BY Indices, MessageFields, NoneAssumption DEF SessionInv, EndsInv, Joint, Put, PutTwo, Took, AtMost
<1>2. UpInv(x, h, v)
  BY Indices, MessageFields, NoneAssumption DEF SessionInv, EndsInv, UpInv, Joint, Wanted, Put, PutTwo, Took, AtMost, Phase2, About, Start, NoMore, SyncError
<1>3. DownInv(x, h, e)
  BY Indices, MessageFields, NoneAssumption DEF SessionInv, EndsInv, DownInv, Joint, Put, PutTwo, Took, AtMost, Phase2, About, Start, NoMore, SyncError
<1>4. x.pc \notin {"idle", "closed"} => Joint(x, h, v, e)
  BY Indices, MessageFields, NoneAssumption DEF SessionInv, EndsInv, UpInv, DownInv, Joint, RowOf, Put, PutTwo, Took, AtMost, Phase2, About, Start, NoMore, SyncError, Wanted
<1> QED
  BY <1>1, <1>2, <1>3, <1>4 DEF SessionInv

(* The master's side begins. *)
LEMMA LinesPopulate ==
  ASSUME NEW x \in Session, NEW h \in Helper, NEW u \in Seq(Message), NEW d \in Seq(Message),
         SessionInv(x, h, u, d),
         NEW g \in Helper,
         h.pc = "start",
         g.pc = "receive",
         g.pend = None
  PROVE  SessionInv(x, g, u, d)
<1>1. EndsInv(x, g, u, d)
  BY Indices, MessageFields, NoneAssumption DEF SessionInv, EndsInv, Joint, Put, PutTwo, Took, AtMost
<1>2. UpInv(x, g, u)
  BY Indices, MessageFields, NoneAssumption DEF SessionInv, EndsInv, UpInv, Joint, Wanted, Put, PutTwo, Took, AtMost, Phase2, About, Start, NoMore, SyncError
<1>3. DownInv(x, g, d)
  BY Indices, MessageFields, NoneAssumption DEF SessionInv, EndsInv, DownInv, Joint, Put, PutTwo, Took, AtMost, Phase2, About, Start, NoMore, SyncError
<1>4. x.pc \notin {"idle", "closed"} => Joint(x, g, u, d)
  BY Indices, MessageFields, NoneAssumption DEF SessionInv, EndsInv, UpInv, DownInv, Joint, RowOf, Put, PutTwo, Took, AtMost, Phase2, About, Start, NoMore, SyncError, Wanted
<1> QED
  BY <1>1, <1>2, <1>3, <1>4 DEF SessionInv

(* The master refuses a composite. *)
LEMMA LinesRefuseBegin ==
  ASSUME NEW x \in Session, NEW h \in Helper, NEW u \in Seq(Message), NEW d \in Seq(Message),
         SessionInv(x, h, u, d),
         NEW g \in Helper,
         h.pc = "receive",
         NEW v \in Seq(Message),
         NEW m \in Message,
         m.type = "Begin",
         Took(u, m, v),
         g.pc = "receive",
         g.comp = h.comp,
         g.pend = None,
         NEW e \in Seq(Message),
         e = d \/ PutTwo(d, SyncError, About("Error", m.comp), e)
  PROVE  SessionInv(x, g, v, e)
<1>1. EndsInv(x, g, v, e)
  BY Indices, MessageFields, NoneAssumption DEF SessionInv, EndsInv, Joint, Put, PutTwo, Took, AtMost
<1>2. UpInv(x, g, v)
  BY Indices, MessageFields, NoneAssumption DEF SessionInv, EndsInv, UpInv, Joint, Wanted, Put, PutTwo, Took, AtMost, Phase2, About, Start, NoMore, SyncError
<1>3. DownInv(x, g, e)
  BY Indices, MessageFields, NoneAssumption DEF SessionInv, EndsInv, DownInv, Joint, Put, PutTwo, Took, AtMost, Phase2, About, Start, NoMore, SyncError
<1>4. x.pc \notin {"idle", "closed"} => Joint(x, g, v, e)
  BY Indices, MessageFields, NoneAssumption DEF SessionInv, EndsInv, UpInv, DownInv, Joint, RowOf, Put, PutTwo, Took, AtMost, Phase2, About, Start, NoMore, SyncError, Wanted
<1> QED
  BY <1>1, <1>2, <1>3, <1>4 DEF SessionInv

(* The master accepts a composite. *)
LEMMA LinesAccept ==
  ASSUME NEW x \in Session, NEW h \in Helper, NEW u \in Seq(Message), NEW d \in Seq(Message),
         SessionInv(x, h, u, d),
         NEW g \in Helper,
         h.pc = "receive",
         NEW v \in Seq(Message),
         NEW m \in Message,
         m.type = "Begin",
         Took(u, m, v),
         g.pc = "work",
         g.comp = m.comp,
         g.snap # None,
         g.pend = None,
         NEW e \in Seq(Message),
         e = d \/ Put(d, About("Found", m.comp), e)
  PROVE  SessionInv(x, g, v, e)
<1>0. x.pc # "closed" => /\ \A i \in DOMAIN d : d[i].type # "Found"
                         /\ x.pc \in {"next", "found", "start2"} /\ m.comp \notin x.todo
                         /\ x.pc = "found" /\ x.comp = m.comp => v = <<>>
                         /\ \A i \in DOMAIN v : v[i].type # "Work"
  BY Indices DEF SessionInv, EndsInv, DownInv, Joint, UpInv, Took, Wanted
<1>1. EndsInv(x, g, v, e)
  BY <1>0, Indices, MessageFields, NoneAssumption DEF SessionInv, EndsInv, Joint, Put, PutTwo, Took, AtMost
<1>2. UpInv(x, g, v)
  BY <1>0, Indices, MessageFields, NoneAssumption DEF SessionInv, EndsInv, UpInv, Joint, Wanted, Put, PutTwo, Took, AtMost, Phase2, About, Start, NoMore, SyncError
<1>3. DownInv(x, g, e)
  BY <1>0, Indices, MessageFields, NoneAssumption DEF SessionInv, EndsInv, DownInv, Joint, Put, PutTwo, Took, AtMost, Phase2, About, Start, NoMore, SyncError
<1>4. x.pc \notin {"idle", "closed"} => Joint(x, g, v, e)
  BY <1>0, Indices, MessageFields, NoneAssumption DEF SessionInv, EndsInv, UpInv, DownInv, Joint, RowOf, Put, PutTwo, Took, AtMost, Phase2, About, Start, NoMore, SyncError, Wanted
<1> QED
  BY <1>1, <1>2, <1>3, <1>4 DEF SessionInv

(* The master gives a composite up. *)
LEMMA LinesFail ==
  ASSUME NEW x \in Session, NEW h \in Helper, NEW u \in Seq(Message), NEW d \in Seq(Message),
         SessionInv(x, h, u, d),
         NEW g \in Helper,
         NEW v \in Seq(Message),
         NEW m \in Message,
         Took(u, m, v),
         GivesUp(h, m),
         g.pc = "receive",
         g.comp = h.comp,
         g.pend = None,
         NEW e \in Seq(Message),
         e = d \/ Put(d, About("Error", h.comp), e)
  PROVE  SessionInv(x, g, v, e)
<1> USE DEF GivesUp
<1>0. x.pc # "closed" => d = <<>> /\ x.pc = "answer" /\ x.comp = h.comp /\ h.pc # "found"
  BY Indices, MessageFields DEF SessionInv, EndsInv, Joint, AtMost, Took, UpInv, Wanted
<1>1. EndsInv(x, g, v, e)
  BY <1>0, Indices, MessageFields, NoneAssumption DEF SessionInv, EndsInv, Joint, Put, PutTwo, Took, AtMost
<1>2. UpInv(x, g, v)
  BY <1>0, Indices, MessageFields, NoneAssumption DEF SessionInv, EndsInv, UpInv, Joint, Wanted, Put, PutTwo, Took, AtMost, Phase2, About, Start, NoMore, SyncError
<1>3. DownInv(x, g, e)
  BY <1>0, Indices, MessageFields, NoneAssumption DEF SessionInv, EndsInv, DownInv, Joint, Put, PutTwo, Took, AtMost, Phase2, About, Start, NoMore, SyncError
<1>4. x.pc \notin {"idle", "closed"} => Joint(x, g, v, e)
  BY <1>0, Indices, MessageFields, NoneAssumption DEF SessionInv, EndsInv, UpInv, DownInv, Joint, RowOf, Put, PutTwo, Took, AtMost, Phase2, About, Start, NoMore, SyncError, Wanted
<1> QED
  BY <1>1, <1>2, <1>3, <1>4 DEF SessionInv

(* The master has added the work. *)
LEMMA LinesAddWork ==
  ASSUME NEW x \in Session, NEW h \in Helper, NEW u \in Seq(Message), NEW d \in Seq(Message),
         SessionInv(x, h, u, d),
         NEW g \in Helper,
         h.pc = "work",
         NEW v \in Seq(Message),
         NEW m \in Message,
         m.type = "Work",
         Took(u, m, v),
         g.pc = "found",
         g.comp = h.comp,
         g.snap = h.snap,
         NEW e \in Seq(Message),
         e = d \/ Put(d, About("Begin", h.comp), e)
  PROVE  SessionInv(x, g, v, e)
<1>1. EndsInv(x, g, v, e)
  BY Indices, MessageFields, NoneAssumption DEF SessionInv, EndsInv, Joint, Put, PutTwo, Took, AtMost
<1>2. UpInv(x, g, v)
  BY Indices, MessageFields, NoneAssumption DEF SessionInv, EndsInv, UpInv, Joint, Wanted, Put, PutTwo, Took, AtMost, Phase2, About, Start, NoMore, SyncError
<1>3. DownInv(x, g, e)
  BY Indices, MessageFields, NoneAssumption DEF SessionInv, EndsInv, DownInv, Joint, Put, PutTwo, Took, AtMost, Phase2, About, Start, NoMore, SyncError
<1>4. x.pc \notin {"idle", "closed"} => Joint(x, g, v, e)
  BY Indices, MessageFields, NoneAssumption, SMTT(60) DEF SessionInv, EndsInv, UpInv, DownInv, Joint, RowOf, Put, PutTwo, Took, AtMost, Phase2, About, Start, NoMore, SyncError, Wanted
<1> QED
  BY <1>1, <1>2, <1>3, <1>4 DEF SessionInv

(* The master sends what the slave is to have. *)
LEMMA LinesContent ==
  ASSUME NEW x \in Session, NEW h \in Helper, NEW u \in Seq(Message), NEW d \in Seq(Message),
         SessionInv(x, h, u, d),
         NEW g \in Helper,
         Answers(h, g),
         NEW v \in Seq(Message),
         Took(u, About("Found", h.comp), v),
         g.comp = h.comp,
         g.snap = h.snap,
         g.pend = h.pend,
         NEW e \in Seq(Message),
         NEW m \in Message,
         m.type = "Content",
         m.comp = h.comp,
         m.local = RowOf(h).local,
         e = d \/ Put(d, m, e)
  PROVE  SessionInv(x, g, v, e)
<1> USE DEF Answers
<1>0. x.pc # "closed" => d = <<>> /\ v = <<>> /\ x.comp = h.comp /\ x.pc = (IF h.pc = "found" THEN "content" ELSE "content2")
  <2> SUFFICES ASSUME x.pc # "closed"
               PROVE  d = <<>> /\ v = <<>> /\ x.comp = h.comp /\ x.pc = (IF h.pc = "found" THEN "content" ELSE "content2")
    OBVIOUS
  <2>1. 1 \in DOMAIN u /\ u[1].type = "Found" /\ u # <<>>
    BY DEF Took, About
  <2>2. d = <<>> /\ AtMost(u, {"Found"}) /\ x.comp = h.comp /\ x.pc = (IF h.pc = "found" THEN "content" ELSE "content2")
    BY <2>1 DEF SessionInv, EndsInv, Joint, Helper, MasterWaits, AtMost
  <2> QED
    BY <2>2, AtMostTook
<1>1. EndsInv(x, g, v, e)
  BY <1>0, Indices, MessageFields, NoneAssumption DEF SessionInv, EndsInv, Joint, Put, PutTwo, Took, AtMost
<1>2. UpInv(x, g, v)
  BY <1>0, Indices, MessageFields, NoneAssumption DEF SessionInv, EndsInv, UpInv, Joint, Wanted, Put, PutTwo, Took, AtMost, Phase2, About, Start, NoMore, SyncError
<1>3. DownInv(x, g, e)
  BY <1>0, Indices, MessageFields, NoneAssumption DEF SessionInv, EndsInv, DownInv, Joint, Put, PutTwo, Took, AtMost, Phase2, About, Start, NoMore, SyncError
<1>4. x.pc \notin {"idle", "closed"} => Joint(x, g, v, e)
  BY <1>0, Indices DEF Joint, RowOf, Put, AtMost, Phase2
<1> QED
  BY <1>1, <1>2, <1>3, <1>4 DEF SessionInv

(* The master has committed. *)
LEMMA LinesMasterCommits ==
  ASSUME NEW x \in Session, NEW h \in Helper, NEW u \in Seq(Message), NEW d \in Seq(Message),
         SessionInv(x, h, u, d),
         NEW g \in Helper,
         h.pc = "answer",
         NEW v \in Seq(Message),
         Took(u, About("OK", h.comp), v),
         g.pc = "receive",
         g.comp = h.comp,
         g.pend = None,
         NEW e \in Seq(Message),
         e = d \/ (x.pc # "closed" /\ Put(d, About("OK", h.comp), e))
  PROVE  SessionInv(x, g, v, e)
<1>0. x.pc # "closed" => d = <<>> /\ v = <<>> /\ x.comp = h.comp /\ x.pc = "answer" /\ x.pend # None
  <2> SUFFICES ASSUME x.pc # "closed"
               PROVE  d = <<>> /\ v = <<>> /\ x.comp = h.comp /\ x.pc = "answer" /\ x.pend # None
    OBVIOUS
  <2>1. 1 \in DOMAIN u /\ u[1].type = "OK" /\ u # <<>>
    BY DEF Took, About
  <2>2. d = <<>> /\ AtMost(u, {"OK"}) /\ x.comp = h.comp /\ x.pc = "answer" /\ x.pend # None
    BY <2>1 DEF SessionInv, EndsInv, Joint, Helper, MasterWaits, AtMost
  <2> QED
    BY <2>2, AtMostTook
<1>1. EndsInv(x, g, v, e)
  BY <1>0, Indices, MessageFields, NoneAssumption DEF SessionInv, EndsInv, Joint, Put, PutTwo, Took, AtMost
<1>2. UpInv(x, g, v)
  BY <1>0, Indices, MessageFields, NoneAssumption DEF SessionInv, EndsInv, UpInv, Joint, Wanted, Put, PutTwo, Took, AtMost, Phase2, About, Start, NoMore, SyncError
<1>3. DownInv(x, g, e)
  BY <1>0, Indices, MessageFields, NoneAssumption DEF SessionInv, EndsInv, DownInv, Joint, Put, PutTwo, Took, AtMost, Phase2, About, Start, NoMore, SyncError
<1>4. x.pc \notin {"idle", "closed"} => Joint(x, g, v, e)
  BY <1>0, Indices, MessageFields, NoneAssumption DEF SessionInv, EndsInv, UpInv, DownInv, Joint, RowOf, Put, PutTwo, Took, AtMost, Phase2, About, Start, NoMore, SyncError, Wanted
<1> QED
  BY <1>1, <1>2, <1>3, <1>4 DEF SessionInv

(* Phase 2 begins at the master. *)
LEMMA LinesStartSending ==
  ASSUME NEW x \in Session, NEW h \in Helper, NEW u \in Seq(Message), NEW d \in Seq(Message),
         SessionInv(x, h, u, d),
         NEW g \in Helper,
         h.pc = "receive",
         NEW v \in Seq(Message),
         Took(u, NoMore, v),
         g.pc = "next2",
         g.pend = None,
         NEW e \in Seq(Message),
         e = d \/ Put(d, Start, e)
  PROVE  SessionInv(x, g, v, e)
<1>0. x.pc # "closed" => x.pc = "start2" /\ v = <<>> /\ \A i \in DOMAIN d : d[i].type # "Start"
  BY Indices DEF SessionInv, UpInv, DownInv, Joint, Took, NoMore, Phase2
<1>1. EndsInv(x, g, v, e)
  BY <1>0, Indices, MessageFields, NoneAssumption DEF SessionInv, EndsInv, Joint, Put, PutTwo, Took, AtMost
<1>2. UpInv(x, g, v)
  BY <1>0, Indices, MessageFields, NoneAssumption DEF SessionInv, EndsInv, UpInv, Joint, Wanted, Put, PutTwo, Took, AtMost, Phase2, About, Start, NoMore, SyncError
<1>3. DownInv(x, g, e)
  BY <1>0, Indices, MessageFields, NoneAssumption DEF SessionInv, EndsInv, DownInv, Joint, Put, PutTwo, Took, AtMost, Phase2, About, Start, NoMore, SyncError
<1>4. x.pc \notin {"idle", "closed"} => Joint(x, g, v, e)
  BY <1>0, Indices, MessageFields, NoneAssumption DEF SessionInv, EndsInv, UpInv, DownInv, Joint, RowOf, Put, PutTwo, Took, AtMost, Phase2, About, Start, NoMore, SyncError, Wanted
<1> QED
  BY <1>1, <1>2, <1>3, <1>4 DEF SessionInv

(* The master sends a composite. *)
LEMMA LinesSend ==
  ASSUME NEW x \in Session, NEW h \in Helper, NEW u \in Seq(Message), NEW d \in Seq(Message),
         SessionInv(x, h, u, d),
         NEW g \in Helper,
         h.pc = "next2",
         NEW c \in Composite,
         g.pc = "found2",
         g.comp = c,
         g.snap # None,
         g.pend = h.pend,
         NEW e \in Seq(Message),
         e = d \/ Put(d, About("Begin", c), e)
  PROVE  SessionInv(x, g, u, e)
<1>1. EndsInv(x, g, u, e)
  BY Indices, MessageFields, NoneAssumption DEF SessionInv, EndsInv, Joint, Put, PutTwo, Took, AtMost
<1>2. UpInv(x, g, u)
  BY Indices, MessageFields, NoneAssumption DEF SessionInv, EndsInv, UpInv, Joint, Wanted, Put, PutTwo, Took, AtMost, Phase2, About, Start, NoMore, SyncError
<1>3. DownInv(x, g, e)
  BY Indices, MessageFields, NoneAssumption DEF SessionInv, EndsInv, DownInv, Joint, Put, PutTwo, Took, AtMost, Phase2, About, Start, NoMore, SyncError
<1>4. x.pc \notin {"idle", "closed"} => Joint(x, g, u, e)
  BY Indices, MessageFields, NoneAssumption DEF SessionInv, EndsInv, UpInv, DownInv, Joint, RowOf, Put, PutTwo, Took, AtMost, Phase2, About, Start, NoMore, SyncError, Wanted
<1> QED
  BY <1>1, <1>2, <1>3, <1>4 DEF SessionInv

(* The master leaves the session. *)
LEMMA LinesMasterCloses ==
  ASSUME NEW x \in Session, NEW h \in Helper, NEW u \in Seq(Message), NEW d \in Seq(Message),
         SessionInv(x, h, u, d),
         NEW g \in Helper,
         h.pc # "idle",
         NEW v \in Seq(Message),
         v = u \/ \E m \in Message : Took(u, m, v),
         g.pc = "closed",
         g.pend = None,
         NEW l \in {NoMore, SyncError},
         NEW e \in Seq(Message),
         e = d \/ Put(d, l, e)
  PROVE  SessionInv(x, g, v, e)
<1>0. l.type \in {"NoMore", "SyncError"}
  BY DEF NoMore, SyncError
<1>5. \A i \in DOMAIN e : (i \in DOMAIN d /\ e[i] = d[i]) \/ e[i].type \in {"NoMore", "SyncError"}
  BY <1>0, Indices DEF Put
<1>6. g.pc = "closed" /\ h.pc # "idle"
  OBVIOUS
<1>1. EndsInv(x, g, v, e)
  BY Indices, MessageFields, NoneAssumption DEF SessionInv, EndsInv, Joint, Put, PutTwo, Took, AtMost
<1>2. UpInv(x, g, v)
  BY Indices, MessageFields, NoneAssumption DEF SessionInv, EndsInv, UpInv, Joint, Wanted, Put, PutTwo, Took, AtMost, Phase2, About, Start, NoMore, SyncError
<1>3. DownInv(x, g, e)
  BY <1>5, <1>6, Indices DEF SessionInv, DownInv, Phase2
<1>4. x.pc \notin {"idle", "closed"} => Joint(x, g, v, e)
  BY Indices, MessageFields, NoneAssumption DEF SessionInv, EndsInv, UpInv, DownInv, Joint, RowOf, Put, PutTwo, Took, AtMost, Phase2, About, Start, NoMore, SyncError, Wanted
<1> QED
  BY <1>1, <1>2, <1>3, <1>4 DEF SessionInv

(* The slave has confirmed a composite of phase 2. *)
LEMMA LinesSent ==
  ASSUME NEW x \in Session, NEW h \in Helper, NEW u \in Seq(Message), NEW d \in Seq(Message),
         SessionInv(x, h, u, d),
         NEW g \in Helper,
         h.pc = "answer2",
         NEW v \in Seq(Message),
         Took(u, About("OK", h.comp), v),
         g.pc = "next2",
         g.pend = None
  PROVE  SessionInv(x, g, v, d)
<1>1. EndsInv(x, g, v, d)
  BY Indices, MessageFields, NoneAssumption DEF SessionInv, EndsInv, Joint, Put, PutTwo, Took, AtMost
<1>2. UpInv(x, g, v)
  BY Indices, MessageFields, NoneAssumption DEF SessionInv, EndsInv, UpInv, Joint, Wanted, Put, PutTwo, Took, AtMost, Phase2, About, Start, NoMore, SyncError
<1>3. DownInv(x, g, d)
  BY Indices, MessageFields, NoneAssumption DEF SessionInv, EndsInv, DownInv, Joint, Put, PutTwo, Took, AtMost, Phase2, About, Start, NoMore, SyncError
<1>4. x.pc \notin {"idle", "closed"} => Joint(x, g, v, d)
  BY Indices, MessageFields, NoneAssumption DEF SessionInv, EndsInv, UpInv, DownInv, Joint, RowOf, Put, PutTwo, Took, AtMost, Phase2, About, Start, NoMore, SyncError, Wanted
<1> QED
  BY <1>1, <1>2, <1>3, <1>4 DEF SessionInv

(* The master reads a line that it does not expect. *)
LEMMA LinesMasterSkips ==
  ASSUME NEW x \in Session, NEW h \in Helper, NEW u \in Seq(Message), NEW d \in Seq(Message),
         SessionInv(x, h, u, d),
         NEW g \in Helper,
         NEW v \in Seq(Message),
         NEW m \in Message,
         Took(u, m, v),
         Ignores(h, m),
         g.pc = h.pc,
         g.comp = h.comp,
         g.pend = h.pend,
         g.snap = h.snap,
         NEW e \in Seq(Message),
         e = d \/ (h.pc \in {"receive", "work"} /\ Put(d, SyncError, e))
  PROVE  SessionInv(x, g, v, e)
<1> USE DEF Ignores
<1>0. x.pc # "closed" =>
        \/ h.pc = "receive" /\ x.pc \in {"next", "found", "start2"}
        \/ /\ h.pc = "work" /\ x.pc \in {"next", "found", "start2"} /\ (x.pc = "found" => x.comp # h.comp)
           /\ h.comp \notin x.todo /\ \A i \in DOMAIN u : u[i].type # "Work"
  BY Indices, MessageFields DEF SessionInv, EndsInv, UpInv, Joint, Took, AtMost, Wanted
<1>1. EndsInv(x, g, v, e)
  BY <1>0, Indices, MessageFields, NoneAssumption DEF SessionInv, EndsInv, Joint, Put, PutTwo, Took, AtMost
<1>2. UpInv(x, g, v)
  BY <1>0, Indices, MessageFields, NoneAssumption DEF SessionInv, EndsInv, UpInv, Joint, Wanted, Put, PutTwo, Took, AtMost, Phase2, About, Start, NoMore, SyncError
<1>3. DownInv(x, g, e)
  BY <1>0, Indices, MessageFields, NoneAssumption, SMTT(60) DEF SessionInv, EndsInv, DownInv, Joint, Put, PutTwo, Took, AtMost, Phase2, About, Start, NoMore, SyncError
<1>4. x.pc \notin {"idle", "closed"} => Joint(x, g, v, e)
  BY <1>0, Indices, MessageFields, NoneAssumption, SMTT(60) DEF SessionInv, EndsInv, UpInv, DownInv, Joint, RowOf, Put, PutTwo, Took, AtMost, Phase2, About, Start, NoMore, SyncError, Wanted
<1> QED
  BY <1>1, <1>2, <1>3, <1>4 DEF SessionInv

(* The connection is lost: a beginning of each channel is left. *)
LEMMA LinesCut ==
  ASSUME NEW x \in Session, NEW h \in Helper, NEW u \in Seq(Message), NEW d \in Seq(Message),
         SessionInv(x, h, u, d),
         NEW v \in Seq(Message),
         NEW e \in Seq(Message),
         Len(v) <= Len(u),
         \A i \in DOMAIN v : i \in DOMAIN u /\ v[i] = u[i],
         Len(e) <= Len(d),
         \A i \in DOMAIN e : i \in DOMAIN d /\ e[i] = d[i]
  PROVE  SessionInv(x, h, v, e)
<1>1. EndsInv(x, h, v, e)
  BY Indices, MessageFields, NoneAssumption DEF SessionInv, EndsInv, Joint, Put, PutTwo, Took, AtMost
<1>2. UpInv(x, h, v)
  BY Indices, MessageFields, NoneAssumption DEF SessionInv, EndsInv, UpInv, Joint, Wanted, Put, PutTwo, Took, AtMost, Phase2, About, Start, NoMore, SyncError
<1>3. DownInv(x, h, e)
  BY Indices, MessageFields, NoneAssumption DEF SessionInv, EndsInv, DownInv, Joint, Put, PutTwo, Took, AtMost, Phase2, About, Start, NoMore, SyncError
<1>4. x.pc \notin {"idle", "closed"} => Joint(x, h, v, e)
  BY Indices, MessageFields, NoneAssumption, SMTT(60) DEF SessionInv, EndsInv, UpInv, DownInv, Joint, RowOf, Put, PutTwo, Took, AtMost, Phase2, About, Start, NoMore, SyncError, Wanted
<1> QED
  BY <1>1, <1>2, <1>3, <1>4 DEF SessionInv

(* What the protocol does not look at may change. *)
LEMMA LinesSame ==
  ASSUME NEW x \in Session, NEW h \in Helper, NEW u \in Seq(Message), NEW d \in Seq(Message),
         SessionInv(x, h, u, d),
         NEW g \in Helper,
         g.pc = h.pc,
         g.comp = h.comp,
         g.snap = h.snap,
         g.pend = h.pend
  PROVE  SessionInv(x, g, u, d)
<1>1. EndsInv(x, g, u, d)
  BY Indices, MessageFields, NoneAssumption DEF SessionInv, EndsInv, Joint, Put, PutTwo, Took, AtMost
<1>2. UpInv(x, g, u)
  BY Indices, MessageFields, NoneAssumption DEF SessionInv, EndsInv, UpInv, Joint, Wanted, Put, PutTwo, Took, AtMost, Phase2, About, Start, NoMore, SyncError
<1>3. DownInv(x, g, d)
  BY Indices, MessageFields, NoneAssumption DEF SessionInv, EndsInv, DownInv, Joint, Put, PutTwo, Took, AtMost, Phase2, About, Start, NoMore, SyncError
<1>4. x.pc \notin {"idle", "closed"} => Joint(x, g, u, d)
  BY Indices, MessageFields, NoneAssumption DEF SessionInv, EndsInv, UpInv, DownInv, Joint, RowOf, Put, PutTwo, Took, AtMost, Phase2, About, Start, NoMore, SyncError, Wanted
<1> QED
  BY <1>1, <1>2, <1>3, <1>4 DEF SessionInv

(* A session begins. *)
LEMMA LinesFirst ==
  ASSUME NEW x \in Session, NEW h \in Helper, NEW u \in Seq(Message), NEW d \in Seq(Message),
         SessionInv(x, h, u, d),
         NEW y \in Session,
         NEW g \in Helper,
         x.pc = "idle",
         y.pc = "next",
         y.pend = None,
         g.pc = "start",
         g.pend = None
  PROVE  SessionInv(y, g, u, d)
<1>1. EndsInv(y, g, u, d)
  BY Indices, MessageFields, NoneAssumption DEF SessionInv, EndsInv, Joint, Put, PutTwo, Took, AtMost
<1>2. UpInv(y, g, u)
  BY Indices, MessageFields, NoneAssumption DEF SessionInv, EndsInv, UpInv, Joint, Wanted, Put, PutTwo, Took, AtMost, Phase2, About, Start, NoMore, SyncError
<1>3. DownInv(y, g, d)
  BY Indices, MessageFields, NoneAssumption DEF SessionInv, EndsInv, DownInv, Joint, Put, PutTwo, Took, AtMost, Phase2, About, Start, NoMore, SyncError
<1>4. y.pc \notin {"idle", "closed"} => Joint(y, g, u, d)
  BY Indices, MessageFields, NoneAssumption DEF SessionInv, EndsInv, UpInv, DownInv, Joint, RowOf, Put, PutTwo, Took, AtMost, Phase2, About, Start, NoMore, SyncError, Wanted
<1> QED
  BY <1>1, <1>2, <1>3, <1>4 DEF SessionInv

(* No session. *)
LEMMA LinesIdle ==
  ASSUME NEW x \in Session, NEW h \in Helper, NEW u \in Seq(Message), NEW d \in Seq(Message),
         SessionInv(x, h, u, d),
         NEW y \in Session,
         NEW g \in Helper,
         y.pc = "idle",
         g.pc = "idle",
         y.pend = None,
         g.pend = None
  PROVE  SessionInv(y, g, <<>>, <<>>)
<1>1. EndsInv(y, g, <<>>, <<>>)
  BY Indices, MessageFields, NoneAssumption DEF SessionInv, EndsInv, Joint, Put, PutTwo, Took, AtMost
<1>2. UpInv(y, g, <<>>)
  BY Indices, MessageFields, NoneAssumption DEF SessionInv, EndsInv, UpInv, Joint, Wanted, Put, PutTwo, Took, AtMost, Phase2, About, Start, NoMore, SyncError
<1>3. DownInv(y, g, <<>>)
  BY Indices, MessageFields, NoneAssumption DEF SessionInv, EndsInv, DownInv, Joint, Put, PutTwo, Took, AtMost, Phase2, About, Start, NoMore, SyncError
<1>4. y.pc \notin {"idle", "closed"} => Joint(y, g, <<>>, <<>>)
  BY Indices, MessageFields, NoneAssumption DEF SessionInv, EndsInv, UpInv, DownInv, Joint, RowOf, Put, PutTwo, Took, AtMost, Phase2, About, Start, NoMore, SyncError, Wanted
<1> QED
  BY <1>1, <1>2, <1>3, <1>4 DEF SessionInv

(* Only while the slave is at a composite has the master something to count. *)
LEMMA Offering ==
  ASSUME NEW x \in Session, NEW h \in Helper, NEW u \in Seq(Message), NEW d \in Seq(Message), NEW m0, NEW k,
         SessionInv(x, h, u, d), x.pc \notin {"idle", "closed"}, Offers(h, u, m0, k)
  PROVE  x.pc \in {"answer", "content"} /\ h.pc \in {"work", "found", "answer"} /\ x.comp = h.comp
<1>1. h.pc # "closed" /\ (h.pend # None => h.pc \in {"found", "answer"})
  BY DEF SessionInv, EndsInv, Offers
<1>2. CASE h.pend # None
  BY <1>1, <1>2 DEF SessionInv, Joint
<1>3. CASE h.pend = None
  <2>1. PICK i \in DOMAIN u : u[i].type = "Work"
    BY <1>3 DEF Offers
  <2>2. h.pc = "work"
    BY <1>1, <2>1 DEF SessionInv, UpInv, Wanted
  <2> QED
    BY <2>1, <2>2 DEF SessionInv, Joint
<1> QED
  BY <1>2, <1>3

-----------------------------------------------------------------------------
(***************************************************************************)
(* The curves of a session, step by step.  Lemma DataX stands beside       *)
(* LinesX, with what the step makes of the rows.                           *)
(***************************************************************************)
(* Counts are natural numbers. *)
LEMMA CountsNat ==
  ASSUME NEW m0 \in [Composite -> MasterRow], NEW k \in Curve
  PROVE  /\ Counts(m0, k) \in Nat
         /\ \A c \in Composite : m0[c].local[k] \in Nat
<1>1. ASSUME NEW c \in Composite
      PROVE  m0[c].local[k] \in Nat
  <2>1. m0[c].local \in Tally
    BY DEF MasterRow
  <2>2. m0[c].local[k] \in 0..(MaxTrouble + 1)
    BY <2>1 DEF Tally
  <2> QED
    BY <2>2, SyncAssumption
<1>2. CompositeOf[k] \in Composite
  BY SyncAssumption
<1> QED
  BY <1>1, <1>2 DEF Counts

LEMMA DataBegin ==
  ASSUME NEW x \in Session, NEW h \in Helper, NEW u \in Seq(Message), NEW d \in Seq(Message),
         NEW r \in [Composite -> SlaveRow], NEW m0 \in [Composite -> MasterRow], NEW n \in Nat, NEW l0,
         SessionInv(x, h, u, d), DataOf(x, h, u, d, r, m0, n, l0),
         NEW y \in Session,
         x.pc = "next",
         NEW c \in Composite,
         c \in x.todo,
         NEW v \in Seq(Message),
         v = u \/ Put(u, About("Begin", c), v),
         y.pc = "found",
         y.comp = c,
         y.todo = x.todo \ {c},
         y.snap = x.snap,
         y.pend = x.pend
  PROVE  DataOf(y, h, v, d, r, m0, n, l0)
<1>11. SnapOf(y, r)
  BY Indices, MessageFields, NoneAssumption, SyncAssumption DEF DataOf, SnapOf, SessionInv, EndsInv
<1>12. WorkOf(h, v, r)
  BY Indices, MessageFields, NoneAssumption, SyncAssumption DEF DataOf, WorkOf, SessionInv, EndsInv, UpInv, Joint, Wanted, Put, PutTwo, Took, AtMost, About, Start, NoMore, SyncError
<1>13. OfferedOf(y, h, v, m0, n, l0)
  BY Indices, MessageFields, NoneAssumption, SyncAssumption DEF DataOf, OfferedOf, Offers, SessionInv, EndsInv, UpInv, Joint, Wanted, Put, PutTwo, Took, AtMost, About, Start, NoMore, SyncError
<1>14. ReadyOf(y, d, r, m0)
  BY Indices, MessageFields, NoneAssumption, SyncAssumption DEF DataOf, ReadyOf, SessionInv, EndsInv, DownInv, Joint, Put, PutTwo, Took, AtMost, About, Start, NoMore, SyncError
<1>15. ReportOf(y, h, v, r)
  BY Indices, MessageFields, NoneAssumption, SyncAssumption DEF DataOf, ReportOf, SessionInv, EndsInv, DownInv, Joint, Put, PutTwo, Took, AtMost, About, Start, NoMore, SyncError
<1> QED
  BY <1>11, <1>12, <1>13, <1>14, <1>15 DEF DataOf

LEMMA DataEnd1 ==
  ASSUME NEW x \in Session, NEW h \in Helper, NEW u \in Seq(Message), NEW d \in Seq(Message),
         NEW r \in [Composite -> SlaveRow], NEW m0 \in [Composite -> MasterRow], NEW n \in Nat, NEW l0,
         SessionInv(x, h, u, d), DataOf(x, h, u, d, r, m0, n, l0),
         NEW y \in Session,
         x.pc = "next",
         NEW v \in Seq(Message),
         v = u \/ Put(u, NoMore, v),
         y.pc = "start2",
         y.comp = None,
         y.todo = x.todo,
         y.snap = None,
         y.pend = None
  PROVE  DataOf(y, h, v, d, r, m0, n, l0)
<1>11. SnapOf(y, r)
  BY Indices, MessageFields, NoneAssumption, SyncAssumption DEF DataOf, SnapOf, SessionInv, EndsInv
<1>12. WorkOf(h, v, r)
  BY Indices, MessageFields, NoneAssumption, SyncAssumption DEF DataOf, WorkOf, SessionInv, EndsInv, UpInv, Joint, Wanted, Put, PutTwo, Took, AtMost, About, Start, NoMore, SyncError
<1>13. OfferedOf(y, h, v, m0, n, l0)
  BY Indices, MessageFields, NoneAssumption, SyncAssumption DEF DataOf, OfferedOf, Offers, SessionInv, EndsInv, UpInv, Joint, Wanted, Put, PutTwo, Took, AtMost, About, Start, NoMore, SyncError
<1>14. ReadyOf(y, d, r, m0)
  BY Indices, MessageFields, NoneAssumption, SyncAssumption DEF DataOf, ReadyOf, SessionInv, EndsInv, DownInv, Joint, Put, PutTwo, Took, AtMost, About, Start, NoMore, SyncError
<1>15. ReportOf(y, h, v, r)
  BY Indices, MessageFields, NoneAssumption, SyncAssumption DEF DataOf, ReportOf, SessionInv, EndsInv, DownInv, Joint, Put, PutTwo, Took, AtMost, About, Start, NoMore, SyncError
<1> QED
  BY <1>11, <1>12, <1>13, <1>14, <1>15 DEF DataOf

LEMMA DataWork ==
  ASSUME NEW x \in Session, NEW h \in Helper, NEW u \in Seq(Message), NEW d \in Seq(Message),
         NEW r \in [Composite -> SlaveRow], NEW m0 \in [Composite -> MasterRow], NEW n \in Nat, NEW l0,
         SessionInv(x, h, u, d), DataOf(x, h, u, d, r, m0, n, l0),
         NEW y \in Session,
         x.pc = "found",
         NEW e \in Seq(Message),
         Took(d, About("Found", x.comp), e),
         NEW v \in Seq(Message),
         NEW m \in Message,
         m.type = "Work",
         m.comp = x.comp,
         v = u \/ (l0 /\ h.pc # "closed" /\ Put(u, m, v)),
         y.pc = "answer",
         y.comp = x.comp,
         y.todo = x.todo,
         y.snap # None,
         y.pend # None => y.pend.since = {},
         NEW snap \in [Composite -> SlaveRow],
         y.snap = snap,
         snap = x.snap \/ snap = r,
         m.curves = snap[x.comp].since,
         y.pend = None <=> m.curves = {},
         Postgres /\ m.curves # {} => snap[x.comp] = r[x.comp],
         \A k \in r[x.comp].since : CompositeOf[k] = x.comp
  PROVE  DataOf(y, h, v, e, r, m0, n, l0)
<1>0. x.comp \in Composite /\ m.curves \subseteq r[x.comp].since
  BY DEF DataOf, SnapOf, SessionInv, EndsInv, Session
<1>8. h.pc # "closed" => h.pc = "work" /\ h.comp = x.comp /\ u = <<>> /\ h.pend = None
  <2> SUFFICES ASSUME h.pc # "closed" PROVE h.pc = "work" /\ h.comp = x.comp /\ u = <<>> /\ h.pend = None
    OBVIOUS
  <2>1. d[1].type = "Found" /\ d[1].comp = x.comp /\ 1 \in DOMAIN d
    BY DEF Took, About
  <2>2. h.pc = "work" /\ h.comp = x.comp
    BY <2>1 DEF SessionInv, DownInv
  <2> QED
    BY <2>2 DEF SessionInv, EndsInv, Joint
<1>9. \A i \in DOMAIN d : d[i].type # "OK"
  BY DEF SessionInv, DownInv
<1>11. SnapOf(y, r)
  BY Indices, MessageFields, NoneAssumption, SyncAssumption DEF DataOf, SnapOf, SessionInv, EndsInv
<1>12. WorkOf(h, v, r)
  <2>1. h.pc # "closed" => \A i \in DOMAIN v : v[i] = m
    BY <1>8, Indices DEF Put
  <2> QED
    BY <1>0, <2>1 DEF WorkOf
<1>13. ShownOf(e, r, m0, n)
  BY Indices, MessageFields, NoneAssumption, SyncAssumption DEF DataOf, ShownOf, SessionInv, DownInv, Put, PutTwo, Took, About, Start, NoMore, SyncError
<1>14. OfferedOf(y, h, v, m0, n, l0)
  <2> SUFFICES ASSUME NEW k \in Curve, Offers(h, v, m0, k)
               PROVE  Counts(m0, k) <= n /\ l0
    BY DEF OfferedOf
  <2>1. h.pc # "closed"
    BY DEF Offers, SessionInv, EndsInv
  <2>2. \A i \in DOMAIN v : v[i] = m /\ l0
    BY <1>8, <2>1, Indices DEF Put
  <2>3. k \in m.curves /\ l0
    BY <1>8, <2>1, <2>2 DEF Offers
  <2>4. k \in r[CompositeOf[k]].since
    BY <1>0, <2>3
  <2> QED
    BY <1>9, <2>3, <2>4 DEF DataOf, ShownOf
<1>15. ReadyOf(y, e, r, m0)
  BY Indices, MessageFields, NoneAssumption, SyncAssumption DEF DataOf, ReadyOf, SessionInv, EndsInv, DownInv, Joint, Put, PutTwo, Took, AtMost, About, Start, NoMore, SyncError
<1>16. ReportOf(y, h, v, r)
  BY Indices, MessageFields, NoneAssumption, SyncAssumption, SMTT(60) DEF DataOf, ReportOf, SessionInv, EndsInv, DownInv, Joint, Put, PutTwo, Took, AtMost, About, Start, NoMore, SyncError
<1> QED
  BY <1>11, <1>12, <1>13, <1>14, <1>15, <1>16 DEF DataOf

LEMMA DataLeave ==
  ASSUME NEW x \in Session, NEW h \in Helper, NEW u \in Seq(Message), NEW d \in Seq(Message),
         NEW r \in [Composite -> SlaveRow], NEW m0 \in [Composite -> MasterRow], NEW n \in Nat, NEW l0,
         SessionInv(x, h, u, d), DataOf(x, h, u, d, r, m0, n, l0),
         NEW y \in Session,
         x.pc \notin {"idle", "closed"},
         NEW e \in Seq(Message),
         (e = d /\ d = <<>>) \/ \E m \in Message : Took(d, m, e) /\ x.pc # "answer",
         y.pc = "closed",
         y.comp = None,
         y.todo = {},
         y.snap = None,
         y.pend = None,
         NEW n2 \in Nat,
         Excused(x, h, u, n, n2, l0)
  PROVE  DataOf(y, h, u, e, r, m0, n2, l0)
<1>7. \A k \in Curve : Counts(m0, k) \in Nat
  BY CountsNat
<1>6. \A i \in DOMAIN d : d[i].type # "OK"
  BY Indices DEF SessionInv, DownInv, Took
<1>9. \A i \in DOMAIN e : e[i].type # "OK"
  BY Indices DEF SessionInv, DownInv, Took
<1>11. SnapOf(y, r)
  BY Indices, MessageFields, NoneAssumption, SyncAssumption DEF DataOf, SnapOf, SessionInv, EndsInv
<1>12. ShownOf(e, r, m0, n2)
  <2> SUFFICES ASSUME NEW k \in Curve, k \in r[CompositeOf[k]].since
               PROVE  Counts(m0, k) <= n2
    BY DEF ShownOf
  <2>1. \A i \in DOMAIN d : d[i].type # "OK"
    BY <1>6
  <2>2. Counts(m0, k) <= n
    BY <2>1 DEF DataOf, ShownOf
  <2>3. Counts(m0, k) \in Nat /\ n <= n2
    BY <1>7 DEF Excused
  <2> QED
    BY <2>2, <2>3
<1>13. OfferedOf(y, h, u, m0, n2, l0)
  <2> SUFFICES ASSUME NEW k \in Curve, Offers(h, u, m0, k)
               PROVE  /\ Counts(m0, k) <= n2
                      /\ Counts(m0, k) < n2 \/ \A i \in DOMAIN u : u[i].type # "OK"
    BY DEF OfferedOf
  <2>1. Offers(h, u, m0, k) /\ h.pc # "closed"
    BY DEF Offers, SessionInv, EndsInv
  <2>2. Counts(m0, k) \in Nat
    BY <1>7
  <2>3. x.pc \in {"answer", "content"}
    BY <2>1, Offering
  <2>4. Counts(m0, k) <= n /\ (Counts(m0, k) < n \/ l0)
    BY <2>1, <2>3 DEF DataOf, OfferedOf
  <2>5. CASE n < n2
    BY <2>2, <2>4, <2>5
  <2>6. CASE n2 = n /\ (~l0 \/ u = <<>>)
    BY <2>2, <2>4, <2>6, Indices
  <2> QED
    BY <2>1, <2>3, <2>5, <2>6 DEF Excused
<1>14. ReadyOf(y, e, r, m0)
  BY <1>9 DEF ReadyOf
<1>15. ReportOf(y, h, u, r)
  BY Indices, MessageFields, NoneAssumption, SyncAssumption DEF DataOf, ReportOf, SessionInv, EndsInv, DownInv, Joint, Put, PutTwo, Took, AtMost, About, Start, NoMore, SyncError
<1> QED
  BY <1>11, <1>12, <1>13, <1>14, <1>15 DEF DataOf

LEMMA DataClose ==
  ASSUME NEW x \in Session, NEW h \in Helper, NEW u \in Seq(Message), NEW d \in Seq(Message),
         NEW r \in [Composite -> SlaveRow], NEW m0 \in [Composite -> MasterRow], NEW n \in Nat, NEW l0,
         SessionInv(x, h, u, d), DataOf(x, h, u, d, r, m0, n, l0),
         NEW y \in Session,
         x.pc \notin {"idle", "closed", "start2"},
         NEW e \in Seq(Message),
         (e = d /\ d = <<>>) \/ \E m \in Message : Took(d, m, e) /\ x.pc # "answer",
         NEW v \in Seq(Message),
         PutTwo(u, SyncError, NoMore, v),
         y.pc = "closed",
         y.comp = None,
         y.todo = {},
         y.snap = None,
         y.pend = None,
         NEW n2 \in Nat,
         Excused(x, h, u, n, n2, l0)
  PROVE  DataOf(y, h, v, e, r, m0, n2, l0)
<1>7. \A k \in Curve : Counts(m0, k) \in Nat
  BY CountsNat
<1>6. \A i \in DOMAIN d : d[i].type # "OK"
  BY Indices DEF SessionInv, DownInv, Took
<1>9. \A i \in DOMAIN e : e[i].type # "OK"
  BY Indices DEF SessionInv, DownInv, Took
<1>5. \A i \in DOMAIN v : (i \in DOMAIN u /\ v[i] = u[i]) \/ v[i].type \in {"SyncError", "NoMore"}
  BY DEF PutTwo, NoMore, SyncError
<1>11. SnapOf(y, r)
  BY Indices, MessageFields, NoneAssumption, SyncAssumption DEF DataOf, SnapOf, SessionInv, EndsInv
<1>12. WorkOf(h, v, r)
  BY <1>5 DEF DataOf, WorkOf
<1>13. ShownOf(e, r, m0, n2)
  <2> SUFFICES ASSUME NEW k \in Curve, k \in r[CompositeOf[k]].since
               PROVE  Counts(m0, k) <= n2
    BY DEF ShownOf
  <2>1. \A i \in DOMAIN d : d[i].type # "OK"
    BY <1>6
  <2>2. Counts(m0, k) <= n
    BY <2>1 DEF DataOf, ShownOf
  <2>3. Counts(m0, k) \in Nat /\ n <= n2
    BY <1>7 DEF Excused
  <2> QED
    BY <2>2, <2>3
<1>14. OfferedOf(y, h, v, m0, n2, l0)
  <2> SUFFICES ASSUME NEW k \in Curve, Offers(h, v, m0, k)
               PROVE  /\ Counts(m0, k) <= n2
                      /\ Counts(m0, k) < n2 \/ \A i \in DOMAIN v : v[i].type # "OK"
    BY DEF OfferedOf
  <2>1. Offers(h, u, m0, k) /\ h.pc # "closed"
    BY <1>5 DEF Offers, SessionInv, EndsInv
  <2>2. Counts(m0, k) \in Nat
    BY <1>7
  <2>3. x.pc \in {"answer", "content"}
    BY <2>1, Offering
  <2>4. Counts(m0, k) <= n /\ (Counts(m0, k) < n \/ l0)
    BY <2>1, <2>3 DEF DataOf, OfferedOf
  <2>5. CASE n < n2
    BY <2>2, <2>4, <2>5
  <2>6. CASE n2 = n /\ (~l0 \/ u = <<>>)
    BY <2>2, <2>4, <2>6, <1>5, Indices
  <2> QED
    BY <2>1, <2>3, <2>5, <2>6 DEF Excused
<1>15. ReadyOf(y, e, r, m0)
  BY <1>9 DEF ReadyOf
<1>16. ReportOf(y, h, v, r)
  BY Indices, MessageFields, NoneAssumption, SyncAssumption DEF DataOf, ReportOf, SessionInv, EndsInv, DownInv, Joint, Put, PutTwo, Took, AtMost, About, Start, NoMore, SyncError
<1> QED
  BY <1>11, <1>12, <1>13, <1>14, <1>15, <1>16 DEF DataOf

LEMMA DataRefused ==
  ASSUME NEW x \in Session, NEW h \in Helper, NEW u \in Seq(Message), NEW d \in Seq(Message),
         NEW r \in [Composite -> SlaveRow], NEW m0 \in [Composite -> MasterRow], NEW n \in Nat, NEW l0,
         SessionInv(x, h, u, d), DataOf(x, h, u, d, r, m0, n, l0),
         NEW y \in Session,
         NEW e \in Seq(Message),
         NEW m \in Message,
         Took(d, m, e),
         Refuses(x, m),
         y.pc = "next",
         y.comp = x.comp,
         y.todo = x.todo,
         y.snap = None,
         y.pend = None
  PROVE  DataOf(y, h, u, e, r, m0, n, l0)
<1> USE DEF Refuses
<1>9. \A i \in DOMAIN e : e[i].type \notin {"OK", "Content"} \/ x.pc = "closed"
  BY Indices DEF SessionInv, DownInv, Took
<1>11. SnapOf(y, r)
  BY Indices, MessageFields, NoneAssumption, SyncAssumption DEF DataOf, SnapOf, SessionInv, EndsInv
<1>12. ShownOf(e, r, m0, n)
  BY Indices, MessageFields, NoneAssumption, SyncAssumption DEF DataOf, ShownOf, SessionInv, DownInv, Put, PutTwo, Took, About, Start, NoMore, SyncError
<1>13. OfferedOf(y, h, u, m0, n, l0)
  BY Indices, MessageFields, NoneAssumption, SyncAssumption DEF DataOf, OfferedOf, Offers, SessionInv, EndsInv, UpInv, Joint, Wanted, Put, PutTwo, Took, AtMost, About, Start, NoMore, SyncError
<1>14. ReadyOf(y, e, r, m0)
  BY <1>9 DEF ReadyOf
<1>15. ReportOf(y, h, u, r)
  BY Indices, MessageFields, NoneAssumption, SyncAssumption DEF DataOf, ReportOf, SessionInv, EndsInv, DownInv, Joint, Put, PutTwo, Took, AtMost, About, Start, NoMore, SyncError
<1> QED
  BY <1>11, <1>12, <1>13, <1>14, <1>15 DEF DataOf

LEMMA DataDeleted ==
  ASSUME NEW x \in Session, NEW h \in Helper, NEW u \in Seq(Message), NEW d \in Seq(Message),
         NEW r \in [Composite -> SlaveRow], NEW m0 \in [Composite -> MasterRow], NEW n \in Nat, NEW l0,
         SessionInv(x, h, u, d), DataOf(x, h, u, d, r, m0, n, l0),
         NEW y \in Session,
         x.pc = "answer",
         NEW e \in Seq(Message),
         Took(d, About("Begin", x.comp), e),
         NEW v \in Seq(Message),
         v = u \/ Put(u, About("Found", x.comp), v),
         y.pc = "content",
         y.comp = x.comp,
         y.todo = x.todo,
         y.snap = x.snap,
         y.pend # None,
         y.pend.since = {},
         Postgres /\ x.pend = None => x.snap[x.comp] = r[x.comp]
  PROVE  DataOf(y, h, v, e, r, m0, n, l0)
<1>11. SnapOf(y, r)
  BY Indices, MessageFields, NoneAssumption, SyncAssumption DEF DataOf, SnapOf, SessionInv, EndsInv
<1>12. WorkOf(h, v, r)
  BY Indices, MessageFields, NoneAssumption, SyncAssumption, SMTT(60) DEF DataOf, WorkOf, SessionInv, EndsInv, UpInv, Joint, Wanted, Put, PutTwo, Took, AtMost, About, Start, NoMore, SyncError
<1>13. ShownOf(e, r, m0, n)
  BY Indices, MessageFields, NoneAssumption, SyncAssumption DEF DataOf, ShownOf, SessionInv, DownInv, Put, PutTwo, Took, About, Start, NoMore, SyncError
<1>14. OfferedOf(y, h, v, m0, n, l0)
  BY Indices, MessageFields, NoneAssumption, SyncAssumption DEF DataOf, OfferedOf, Offers, SessionInv, EndsInv, UpInv, Joint, Wanted, Put, PutTwo, Took, AtMost, About, Start, NoMore, SyncError
<1>15. ReadyOf(y, e, r, m0)
  BY Indices, MessageFields, NoneAssumption, SyncAssumption DEF DataOf, ReadyOf, SessionInv, EndsInv, DownInv, Joint, Put, PutTwo, Took, AtMost, About, Start, NoMore, SyncError
<1>16. ReportOf(y, h, v, r)
  <2>1. h.pc # "closed" => h.pc = "found"
    BY MessageFields DEF SessionInv, EndsInv, Joint, AtMost, Took, About, Helper, MasterWaits
  <2>2. CASE x.pend = None
    BY <2>1, <2>2 DEF DataOf, ReportOf
  <2>3. CASE x.pend # None
    BY <2>1, <2>3 DEF DataOf, ReportOf
  <2> QED
    BY <2>2, <2>3
<1> QED
  BY <1>11, <1>12, <1>13, <1>14, <1>15, <1>16 DEF DataOf

LEMMA DataDropped ==
  ASSUME NEW x \in Session, NEW h \in Helper, NEW u \in Seq(Message), NEW d \in Seq(Message),
         NEW r \in [Composite -> SlaveRow], NEW m0 \in [Composite -> MasterRow], NEW n \in Nat, NEW l0,
         SessionInv(x, h, u, d), DataOf(x, h, u, d, r, m0, n, l0),
         x.pc = "answer",
         NEW e \in Seq(Message),
         NEW m \in Message,
         Took(d, m, e),
         m # About("OK", x.comp),
         m # About("Error", x.comp)
  PROVE  DataOf(x, h, u, e, r, m0, n, l0)
<1>11. ShownOf(e, r, m0, n)
  BY Indices, MessageFields, NoneAssumption, SyncAssumption DEF DataOf, ShownOf, SessionInv, DownInv, Put, PutTwo, Took, About, Start, NoMore, SyncError
<1>12. ReadyOf(x, e, r, m0)
  BY Indices, MessageFields, NoneAssumption, SyncAssumption DEF DataOf, ReadyOf, SessionInv, EndsInv, DownInv, Joint, Put, PutTwo, Took, AtMost, About, Start, NoMore, SyncError
<1> QED
  BY <1>11, <1>12 DEF DataOf

LEMMA DataInserted ==
  ASSUME NEW x \in Session, NEW h \in Helper, NEW u \in Seq(Message), NEW d \in Seq(Message),
         NEW r \in [Composite -> SlaveRow], NEW m0 \in [Composite -> MasterRow], NEW n \in Nat, NEW l0,
         SessionInv(x, h, u, d), DataOf(x, h, u, d, r, m0, n, l0),
         NEW y \in Session,
         x.pc = "content",
         NEW e \in Seq(Message),
         NEW m \in Message,
         m.type = "Content",
         Took(d, m, e),
         NEW v \in Seq(Message),
         v = u \/ Put(u, About("OK", x.comp), v),
         y.pc = "answer",
         y.comp = x.comp,
         y.todo = x.todo,
         y.snap = x.snap,
         y.pend # None,
         y.pend.since = x.pend.since,
         y.pend.local = m.local
  PROVE  DataOf(y, h, v, e, r, m0, n, l0)
<1>11. SnapOf(y, r)
  BY Indices, MessageFields, NoneAssumption, SyncAssumption DEF DataOf, SnapOf, SessionInv, EndsInv
<1>12. WorkOf(h, v, r)
  BY Indices, MessageFields, NoneAssumption, SyncAssumption DEF DataOf, WorkOf, SessionInv, EndsInv, UpInv, Joint, Wanted, Put, PutTwo, Took, AtMost, About, Start, NoMore, SyncError
<1>13. ShownOf(e, r, m0, n)
  BY Indices, MessageFields, NoneAssumption, SyncAssumption DEF DataOf, ShownOf, SessionInv, DownInv, Put, PutTwo, Took, About, Start, NoMore, SyncError
<1>14. OfferedOf(y, h, v, m0, n, l0)
  BY Indices, MessageFields, NoneAssumption, SyncAssumption DEF DataOf, OfferedOf, Offers, SessionInv, EndsInv, UpInv, Joint, Wanted, Put, PutTwo, Took, AtMost, About, Start, NoMore, SyncError
<1>15. ReadyOf(y, e, r, m0)
  BY Indices, MessageFields, NoneAssumption, SyncAssumption DEF DataOf, ReadyOf, SessionInv, EndsInv, DownInv, Joint, Put, PutTwo, Took, AtMost, About, Start, NoMore, SyncError
<1>16. ReportOf(y, h, v, r)
  BY Indices, MessageFields, NoneAssumption, SyncAssumption DEF DataOf, ReportOf, SessionInv, EndsInv, DownInv, Joint, Put, PutTwo, Took, AtMost, About, Start, NoMore, SyncError
<1> QED
  BY <1>11, <1>12, <1>13, <1>14, <1>15, <1>16 DEF DataOf

LEMMA DataStart2 ==
  ASSUME NEW x \in Session, NEW h \in Helper, NEW u \in Seq(Message), NEW d \in Seq(Message),
         NEW r \in [Composite -> SlaveRow], NEW m0 \in [Composite -> MasterRow], NEW n \in Nat, NEW l0,
         SessionInv(x, h, u, d), DataOf(x, h, u, d, r, m0, n, l0),
         NEW y \in Session,
         x.pc = "start2",
         NEW e \in Seq(Message),
         Took(d, Start, e),
         y.pc = "receive2",
         y.comp = x.comp,
         y.todo = x.todo,
         y.snap = x.snap,
         y.pend = x.pend
  PROVE  DataOf(y, h, u, e, r, m0, n, l0)
<1>11. SnapOf(y, r)
  BY Indices, MessageFields, NoneAssumption, SyncAssumption DEF DataOf, SnapOf, SessionInv, EndsInv
<1>12. ShownOf(e, r, m0, n)
  BY Indices, MessageFields, NoneAssumption, SyncAssumption DEF DataOf, ShownOf, SessionInv, DownInv, Put, PutTwo, Took, About, Start, NoMore, SyncError
<1>13. OfferedOf(y, h, u, m0, n, l0)
  BY Indices, MessageFields, NoneAssumption, SyncAssumption DEF DataOf, OfferedOf, Offers, SessionInv, EndsInv, UpInv, Joint, Wanted, Put, PutTwo, Took, AtMost, About, Start, NoMore, SyncError
<1>14. ReadyOf(y, e, r, m0)
  BY Indices, MessageFields, NoneAssumption, SyncAssumption DEF DataOf, ReadyOf, SessionInv, EndsInv, DownInv, Joint, Put, PutTwo, Took, AtMost, About, Start, NoMore, SyncError
<1>15. ReportOf(y, h, u, r)
  BY Indices, MessageFields, NoneAssumption, SyncAssumption DEF DataOf, ReportOf, SessionInv, EndsInv, DownInv, Joint, Put, PutTwo, Took, AtMost, About, Start, NoMore, SyncError
<1> QED
  BY <1>11, <1>12, <1>13, <1>14, <1>15 DEF DataOf

LEMMA DataRefuse2 ==
  ASSUME NEW x \in Session, NEW h \in Helper, NEW u \in Seq(Message), NEW d \in Seq(Message),
         NEW r \in [Composite -> SlaveRow], NEW m0 \in [Composite -> MasterRow], NEW n \in Nat, NEW l0,
         SessionInv(x, h, u, d), DataOf(x, h, u, d, r, m0, n, l0),
         x.pc = "receive2",
         NEW e \in Seq(Message),
         NEW m \in Message,
         m.type = "Begin",
         Took(d, m, e),
         NEW v \in Seq(Message),
         v = u \/ PutTwo(u, SyncError, About("Error", m.comp), v)
  PROVE  DataOf(x, h, v, e, r, m0, n, l0)
<1>11. WorkOf(h, v, r)
  BY Indices, MessageFields, NoneAssumption, SyncAssumption DEF DataOf, WorkOf, SessionInv, EndsInv, UpInv, Joint, Wanted, Put, PutTwo, Took, AtMost, About, Start, NoMore, SyncError
<1>12. ShownOf(e, r, m0, n)
  BY Indices, MessageFields, NoneAssumption, SyncAssumption DEF DataOf, ShownOf, SessionInv, DownInv, Put, PutTwo, Took, About, Start, NoMore, SyncError
<1>13. OfferedOf(x, h, v, m0, n, l0)
  BY Indices, MessageFields, NoneAssumption, SyncAssumption DEF DataOf, OfferedOf, Offers, SessionInv, EndsInv, UpInv, Joint, Wanted, Put, PutTwo, Took, AtMost, About, Start, NoMore, SyncError
<1>14. ReadyOf(x, e, r, m0)
  BY Indices, MessageFields, NoneAssumption, SyncAssumption DEF DataOf, ReadyOf, SessionInv, EndsInv, DownInv, Joint, Put, PutTwo, Took, AtMost, About, Start, NoMore, SyncError
<1>15. ReportOf(x, h, v, r)
  BY Indices, MessageFields, NoneAssumption, SyncAssumption DEF DataOf, ReportOf, SessionInv, EndsInv, DownInv, Joint, Put, PutTwo, Took, AtMost, About, Start, NoMore, SyncError
<1> QED
  BY <1>11, <1>12, <1>13, <1>14, <1>15 DEF DataOf

LEMMA DataDeleted2 ==
  ASSUME NEW x \in Session, NEW h \in Helper, NEW u \in Seq(Message), NEW d \in Seq(Message),
         NEW r \in [Composite -> SlaveRow], NEW m0 \in [Composite -> MasterRow], NEW n \in Nat, NEW l0,
         SessionInv(x, h, u, d), DataOf(x, h, u, d, r, m0, n, l0),
         NEW y \in Session,
         x.pc = "receive2",
         NEW e \in Seq(Message),
         NEW m \in Message,
         m.type = "Begin",
         Took(d, m, e),
         NEW v \in Seq(Message),
         v = u \/ Put(u, About("Found", m.comp), v),
         y.pc = "content2",
         y.comp = m.comp,
         y.todo = x.todo,
         y.snap = r,
         y.pend # None,
         y.pend.since = {}
  PROVE  DataOf(y, h, v, e, r, m0, n, l0)
<1>11. SnapOf(y, r)
  BY Indices, MessageFields, NoneAssumption, SyncAssumption DEF DataOf, SnapOf, SessionInv, EndsInv
<1>12. WorkOf(h, v, r)
  BY Indices, MessageFields, NoneAssumption, SyncAssumption DEF DataOf, WorkOf, SessionInv, EndsInv, UpInv, Joint, Wanted, Put, PutTwo, Took, AtMost, About, Start, NoMore, SyncError
<1>13. ShownOf(e, r, m0, n)
  BY Indices, MessageFields, NoneAssumption, SyncAssumption DEF DataOf, ShownOf, SessionInv, DownInv, Put, PutTwo, Took, About, Start, NoMore, SyncError
<1>14. OfferedOf(y, h, v, m0, n, l0)
  BY Indices, MessageFields, NoneAssumption, SyncAssumption DEF DataOf, OfferedOf, Offers, SessionInv, EndsInv, UpInv, Joint, Wanted, Put, PutTwo, Took, AtMost, About, Start, NoMore, SyncError
<1>15. ReadyOf(y, e, r, m0)
  BY Indices, MessageFields, NoneAssumption, SyncAssumption DEF DataOf, ReadyOf, SessionInv, EndsInv, DownInv, Joint, Put, PutTwo, Took, AtMost, About, Start, NoMore, SyncError
<1>16. ReportOf(y, h, v, r)
  BY Indices, MessageFields, NoneAssumption, SyncAssumption DEF DataOf, ReportOf, SessionInv, EndsInv, DownInv, Joint, Put, PutTwo, Took, AtMost, About, Start, NoMore, SyncError
<1> QED
  BY <1>11, <1>12, <1>13, <1>14, <1>15, <1>16 DEF DataOf

LEMMA DataComplained ==
  ASSUME NEW x \in Session, NEW h \in Helper, NEW u \in Seq(Message), NEW d \in Seq(Message),
         NEW r \in [Composite -> SlaveRow], NEW m0 \in [Composite -> MasterRow], NEW n \in Nat, NEW l0,
         SessionInv(x, h, u, d), DataOf(x, h, u, d, r, m0, n, l0),
         NEW e \in Seq(Message),
         NEW m \in Message,
         Took(d, m, e),
         Unexpected(x, m),
         NEW v \in Seq(Message),
         v = u \/ Put(u, SyncError, v)
  PROVE  DataOf(x, h, v, e, r, m0, n, l0)
<1> USE DEF Unexpected
<1>11. WorkOf(h, v, r)
  BY Indices, MessageFields, NoneAssumption, SyncAssumption DEF DataOf, WorkOf, SessionInv, EndsInv, UpInv, Joint, Wanted, Put, PutTwo, Took, AtMost, About, Start, NoMore, SyncError
<1>12. ShownOf(e, r, m0, n)
  BY Indices, MessageFields, NoneAssumption, SyncAssumption DEF DataOf, ShownOf, SessionInv, DownInv, Put, PutTwo, Took, About, Start, NoMore, SyncError
<1>13. OfferedOf(x, h, v, m0, n, l0)
  BY Indices, MessageFields, NoneAssumption, SyncAssumption DEF DataOf, OfferedOf, Offers, SessionInv, EndsInv, UpInv, Joint, Wanted, Put, PutTwo, Took, AtMost, About, Start, NoMore, SyncError
<1>14. ReadyOf(x, e, r, m0)
  BY Indices, MessageFields, NoneAssumption, SyncAssumption DEF DataOf, ReadyOf, SessionInv, EndsInv, DownInv, Joint, Put, PutTwo, Took, AtMost, About, Start, NoMore, SyncError
<1>15. ReportOf(x, h, v, r)
  BY Indices, MessageFields, NoneAssumption, SyncAssumption DEF DataOf, ReportOf, SessionInv, EndsInv, DownInv, Joint, Put, PutTwo, Took, AtMost, About, Start, NoMore, SyncError
<1> QED
  BY <1>11, <1>12, <1>13, <1>14, <1>15 DEF DataOf

LEMMA DataCommitted ==
  ASSUME NEW x \in Session, NEW h \in Helper, NEW u \in Seq(Message), NEW d \in Seq(Message),
         NEW r \in [Composite -> SlaveRow], NEW m0 \in [Composite -> MasterRow], NEW n \in Nat, NEW l0,
         SessionInv(x, h, u, d), DataOf(x, h, u, d, r, m0, n, l0),
         NEW y \in Session,
         x.pc = "answer",
         NEW e \in Seq(Message),
         Took(d, About("OK", x.comp), e),
         y.pc = "next",
         y.comp = x.comp,
         y.todo = x.todo,
         y.snap = None,
         y.pend = None,
         NEW w \in [Composite -> SlaveRow],
         w[x.comp].since = {},
         \A c \in Composite \ {x.comp} : w[c] = r[c]
  PROVE  DataOf(y, h, u, e, w, m0, n, l0)
<1>0. 1 \in DOMAIN d /\ d[1].type = "OK" /\ d[1].comp = x.comp
  BY DEF Took, About
<1>8. h.pend = None
  BY <1>0, MessageFields, Indices DEF SessionInv, EndsInv, Joint, AtMost
<1>9. \A i \in DOMAIN d : d[i].type = "OK" => d[i].comp = x.comp
  BY <1>0 DEF SessionInv, DownInv
<1>11. SnapOf(y, w)
  BY Indices, MessageFields, NoneAssumption, SyncAssumption DEF DataOf, SnapOf, SessionInv, EndsInv
<1>12. WorkOf(h, u, w)
  BY Indices, MessageFields, NoneAssumption, SyncAssumption DEF DataOf, WorkOf, SessionInv, EndsInv, UpInv, Joint, Wanted, Put, PutTwo, Took, AtMost, About, Start, NoMore, SyncError
<1>13. PendOf(h, w, m0)
  BY <1>8 DEF PendOf
<1>14. ShownOf(e, w, m0, n)
  <2> SUFFICES ASSUME NEW k \in Curve, k \in w[CompositeOf[k]].since
               PROVE  Counts(m0, k) <= n
    BY DEF ShownOf
  <2>1. CompositeOf[k] # x.comp /\ k \in r[CompositeOf[k]].since
    BY SyncAssumption
  <2> QED
    BY <1>9, <2>1 DEF DataOf, ShownOf
<1>15. OfferedOf(y, h, u, m0, n, l0)
  BY Indices, MessageFields, NoneAssumption, SyncAssumption DEF DataOf, OfferedOf, Offers, SessionInv, EndsInv, UpInv, Joint, Wanted, Put, PutTwo, Took, AtMost, About, Start, NoMore, SyncError
<1>16. ReadyOf(y, e, w, m0)
  BY Indices, MessageFields, NoneAssumption, SyncAssumption DEF DataOf, ReadyOf, SessionInv, EndsInv, DownInv, Joint, Put, PutTwo, Took, AtMost, About, Start, NoMore, SyncError
<1>17. ReportOf(y, h, u, w)
  BY Indices, MessageFields, NoneAssumption, SyncAssumption DEF DataOf, ReportOf, SessionInv, EndsInv, DownInv, Joint, Put, PutTwo, Took, AtMost, About, Start, NoMore, SyncError
<1> QED
  BY <1>11, <1>12, <1>13, <1>14, <1>15, <1>16, <1>17 DEF DataOf

LEMMA DataReplaced ==
  ASSUME NEW x \in Session, NEW h \in Helper, NEW u \in Seq(Message), NEW d \in Seq(Message),
         NEW r \in [Composite -> SlaveRow], NEW m0 \in [Composite -> MasterRow], NEW n \in Nat, NEW l0,
         SessionInv(x, h, u, d), DataOf(x, h, u, d, r, m0, n, l0),
         NEW y \in Session,
         x.pc = "content2",
         NEW e \in Seq(Message),
         NEW m \in Message,
         m.type = "Content",
         Took(d, m, e),
         NEW v \in Seq(Message),
         v = u \/ Put(u, About("OK", x.comp), v),
         y.pc = "receive2",
         y.comp = None,
         y.todo = x.todo,
         y.snap = None,
         y.pend = None,
         NEW w \in [Composite -> SlaveRow],
         w[x.comp].since = {},
         \A c \in Composite \ {x.comp} : w[c] = r[c]
  PROVE  DataOf(y, h, v, e, w, m0, n, l0)
<1>7. h.pc # "work"
  BY DEF SessionInv, Joint
<1>8. h.pend = None
  BY DEF SessionInv, EndsInv, Joint
<1>9. h.pc # "closed" => \A i \in DOMAIN u : u[i].type # "Work"
  BY <1>7 DEF SessionInv, UpInv, Wanted
<1>10. h.pc # "closed" => \A i \in DOMAIN v : v[i].type # "Work"
  BY <1>9 DEF Put, About
<1>11. SnapOf(y, w)
  BY Indices, MessageFields, NoneAssumption, SyncAssumption DEF DataOf, SnapOf, SessionInv, EndsInv
<1>12. WorkOf(h, v, w)
  BY <1>10 DEF WorkOf
<1>13. PendOf(h, w, m0)
  BY <1>8 DEF PendOf
<1>14. ShownOf(e, w, m0, n)
  BY Indices, MessageFields, NoneAssumption, SyncAssumption DEF DataOf, ShownOf, SessionInv, DownInv, Put, PutTwo, Took, About, Start, NoMore, SyncError
<1>15. OfferedOf(y, h, v, m0, n, l0)
  BY Indices, MessageFields, NoneAssumption, SyncAssumption DEF DataOf, OfferedOf, Offers, SessionInv, EndsInv, UpInv, Joint, Wanted, Put, PutTwo, Took, AtMost, About, Start, NoMore, SyncError
<1>16. ReadyOf(y, e, w, m0)
  BY Indices, MessageFields, NoneAssumption, SyncAssumption DEF DataOf, ReadyOf, SessionInv, EndsInv, DownInv, Joint, Put, PutTwo, Took, AtMost, About, Start, NoMore, SyncError
<1>17. ReportOf(y, h, v, w)
  BY Indices, MessageFields, NoneAssumption, SyncAssumption DEF DataOf, ReportOf, SessionInv, EndsInv, DownInv, Joint, Put, PutTwo, Took, AtMost, About, Start, NoMore, SyncError
<1> QED
  BY <1>11, <1>12, <1>13, <1>14, <1>15, <1>16, <1>17 DEF DataOf

LEMMA DataPopulate ==
  ASSUME NEW x \in Session, NEW h \in Helper, NEW u \in Seq(Message), NEW d \in Seq(Message),
         NEW r \in [Composite -> SlaveRow], NEW m0 \in [Composite -> MasterRow], NEW n \in Nat, NEW l0,
         SessionInv(x, h, u, d), DataOf(x, h, u, d, r, m0, n, l0),
         NEW g \in Helper,
         h.pc = "start",
         g.pc = "receive",
         g.pend = None,
         g.snap.rows = m0
  PROVE  DataOf(x, g, u, d, r, m0, n, l0)
<1>11. SeenOf(g, m0)
  BY CountsNat DEF DataOf, SeenOf
<1>12. WorkOf(g, u, r)
  BY Indices, MessageFields, NoneAssumption, SyncAssumption DEF DataOf, WorkOf, SessionInv, EndsInv, UpInv, Joint, Wanted, Put, PutTwo, Took, AtMost, About, Start, NoMore, SyncError
<1>13. PendOf(g, r, m0)
  BY Indices, MessageFields, NoneAssumption, SyncAssumption DEF DataOf, PendOf, SessionInv, EndsInv
<1>14. OfferedOf(x, g, u, m0, n, l0)
  BY Indices, MessageFields, NoneAssumption, SyncAssumption DEF DataOf, OfferedOf, Offers, SessionInv, EndsInv, UpInv, Joint, Wanted, Put, PutTwo, Took, AtMost, About, Start, NoMore, SyncError
<1>15. ReportOf(x, g, u, r)
  BY Indices, MessageFields, NoneAssumption, SyncAssumption DEF DataOf, ReportOf, SessionInv, EndsInv, DownInv, Joint, Put, PutTwo, Took, AtMost, About, Start, NoMore, SyncError
<1> QED
  BY <1>11, <1>12, <1>13, <1>14, <1>15 DEF DataOf

LEMMA DataRefuseBegin ==
  ASSUME NEW x \in Session, NEW h \in Helper, NEW u \in Seq(Message), NEW d \in Seq(Message),
         NEW r \in [Composite -> SlaveRow], NEW m0 \in [Composite -> MasterRow], NEW n \in Nat, NEW l0,
         SessionInv(x, h, u, d), DataOf(x, h, u, d, r, m0, n, l0),
         NEW g \in Helper,
         h.pc = "receive",
         NEW v \in Seq(Message),
         NEW m \in Message,
         m.type = "Begin",
         Took(u, m, v),
         g.pc = "receive",
         g.comp = h.comp,
         g.pend = None,
         NEW e \in Seq(Message),
         e = d \/ PutTwo(d, SyncError, About("Error", m.comp), e),
         Keeps(d, e),
         g.snap = None
  PROVE  DataOf(x, g, v, e, r, m0, n, l0)
<1>9. \A i \in DOMAIN e : (i \in DOMAIN d /\ e[i] = d[i]) \/ e[i].type \in {"Error", "SyncError"}
  BY DEF PutTwo, About, SyncError
<1>11. SeenOf(g, m0)
  BY Indices, MessageFields, NoneAssumption, SyncAssumption DEF DataOf, SeenOf
<1>12. WorkOf(g, v, r)
  BY Indices, MessageFields, NoneAssumption, SyncAssumption DEF DataOf, WorkOf, SessionInv, EndsInv, UpInv, Joint, Wanted, Put, PutTwo, Took, AtMost, About, Start, NoMore, SyncError
<1>13. PendOf(g, r, m0)
  BY Indices, MessageFields, NoneAssumption, SyncAssumption DEF DataOf, PendOf, SessionInv, EndsInv
<1>14. ShownOf(e, r, m0, n)
  BY DEF DataOf, ShownOf, Keeps
<1>15. OfferedOf(x, g, v, m0, n, l0)
  BY Indices, MessageFields, NoneAssumption, SyncAssumption DEF DataOf, OfferedOf, Offers, SessionInv, EndsInv, UpInv, Joint, Wanted, Put, PutTwo, Took, AtMost, About, Start, NoMore, SyncError
<1>16. ReadyOf(x, e, r, m0)
  BY <1>9 DEF DataOf, ReadyOf
<1>17. ReportOf(x, g, v, r)
  BY Indices, MessageFields, NoneAssumption, SyncAssumption DEF DataOf, ReportOf, SessionInv, EndsInv, DownInv, Joint, Put, PutTwo, Took, AtMost, About, Start, NoMore, SyncError
<1> QED
  BY <1>11, <1>12, <1>13, <1>14, <1>15, <1>16, <1>17 DEF DataOf

LEMMA DataAccept ==
  ASSUME NEW x \in Session, NEW h \in Helper, NEW u \in Seq(Message), NEW d \in Seq(Message),
         NEW r \in [Composite -> SlaveRow], NEW m0 \in [Composite -> MasterRow], NEW n \in Nat, NEW l0,
         SessionInv(x, h, u, d), DataOf(x, h, u, d, r, m0, n, l0),
         NEW g \in Helper,
         h.pc = "receive",
         NEW v \in Seq(Message),
         NEW m \in Message,
         m.type = "Begin",
         Took(u, m, v),
         g.pc = "work",
         g.comp = m.comp,
         g.snap # None,
         g.pend = None,
         NEW e \in Seq(Message),
         e = d \/ Put(d, About("Found", m.comp), e),
         Keeps(d, e),
         g.snap.rows = m0
  PROVE  DataOf(x, g, v, e, r, m0, n, l0)
<1>11. SeenOf(g, m0)
  BY CountsNat DEF DataOf, SeenOf
<1>12. WorkOf(g, v, r)
  BY Indices, MessageFields, NoneAssumption, SyncAssumption DEF DataOf, WorkOf, SessionInv, EndsInv, UpInv, Joint, Wanted, Put, PutTwo, Took, AtMost, About, Start, NoMore, SyncError
<1>13. PendOf(g, r, m0)
  BY Indices, MessageFields, NoneAssumption, SyncAssumption DEF DataOf, PendOf, SessionInv, EndsInv
<1>14. ShownOf(e, r, m0, n)
  BY DEF DataOf, ShownOf, Keeps
<1>15. OfferedOf(x, g, v, m0, n, l0)
  BY Indices, MessageFields, NoneAssumption, SyncAssumption DEF DataOf, OfferedOf, Offers, SessionInv, EndsInv, UpInv, Joint, Wanted, Put, PutTwo, Took, AtMost, About, Start, NoMore, SyncError
<1>16. ReadyOf(x, e, r, m0)
  BY Indices, MessageFields, NoneAssumption, SyncAssumption DEF DataOf, ReadyOf, SessionInv, EndsInv, DownInv, Joint, Put, PutTwo, Took, AtMost, About, Start, NoMore, SyncError
<1>17. ReportOf(x, g, v, r)
  BY Indices, MessageFields, NoneAssumption, SyncAssumption DEF DataOf, ReportOf, SessionInv, EndsInv, DownInv, Joint, Put, PutTwo, Took, AtMost, About, Start, NoMore, SyncError
<1> QED
  BY <1>11, <1>12, <1>13, <1>14, <1>15, <1>16, <1>17 DEF DataOf

LEMMA DataFail ==
  ASSUME NEW x \in Session, NEW h \in Helper, NEW u \in Seq(Message), NEW d \in Seq(Message),
         NEW r \in [Composite -> SlaveRow], NEW m0 \in [Composite -> MasterRow], NEW n \in Nat, NEW l0,
         SessionInv(x, h, u, d), DataOf(x, h, u, d, r, m0, n, l0),
         NEW g \in Helper,
         NEW v \in Seq(Message),
         NEW m \in Message,
         Took(u, m, v),
         GivesUp(h, m),
         g.pc = "receive",
         g.comp = h.comp,
         g.pend = None,
         NEW e \in Seq(Message),
         e = d \/ Put(d, About("Error", h.comp), e),
         Keeps(d, e),
         g.snap = None
  PROVE  DataOf(x, g, v, e, r, m0, n, l0)
<1> USE DEF GivesUp
<1>8. h.pc # "closed"
  OBVIOUS
<1>9. \A i \in DOMAIN v : v[i].type # "Work"
  BY <1>8, Indices DEF SessionInv, UpInv, Took
<1>11. SeenOf(g, m0)
  BY Indices, MessageFields, NoneAssumption, SyncAssumption DEF DataOf, SeenOf
<1>12. WorkOf(g, v, r)
  BY Indices, MessageFields, NoneAssumption, SyncAssumption DEF DataOf, WorkOf, SessionInv, EndsInv, UpInv, Joint, Wanted, Put, PutTwo, Took, AtMost, About, Start, NoMore, SyncError
<1>13. PendOf(g, r, m0)
  BY Indices, MessageFields, NoneAssumption, SyncAssumption DEF DataOf, PendOf, SessionInv, EndsInv
<1>14. ShownOf(e, r, m0, n)
  BY DEF DataOf, ShownOf, Keeps
<1>15. OfferedOf(x, g, v, m0, n, l0)
  BY <1>9 DEF OfferedOf, Offers
<1>16. ReadyOf(x, e, r, m0)
  BY DEF DataOf, ReadyOf, Put, About
<1>17. ReportOf(x, g, v, r)
  BY Indices, MessageFields, NoneAssumption, SyncAssumption DEF DataOf, ReportOf, SessionInv, EndsInv, DownInv, Joint, Put, PutTwo, Took, AtMost, About, Start, NoMore, SyncError
<1> QED
  BY <1>11, <1>12, <1>13, <1>14, <1>15, <1>16, <1>17 DEF DataOf

LEMMA DataAddWork ==
  ASSUME NEW x \in Session, NEW h \in Helper, NEW u \in Seq(Message), NEW d \in Seq(Message),
         NEW r \in [Composite -> SlaveRow], NEW m0 \in [Composite -> MasterRow], NEW n \in Nat, NEW l0,
         SessionInv(x, h, u, d), DataOf(x, h, u, d, r, m0, n, l0),
         NEW g \in Helper,
         h.pc = "work",
         NEW v \in Seq(Message),
         NEW m \in Message,
         m.type = "Work",
         Took(u, m, v),
         g.pc = "found",
         g.comp = h.comp,
         g.snap = h.snap,
         NEW e \in Seq(Message),
         e = d \/ Put(d, About("Begin", h.comp), e),
         Keeps(d, e),
         g.stale = h.stale,
         Writes(h, g, m, m0)
  PROVE  DataOf(x, g, v, e, r, m0, n, l0)
<1> USE DEF Writes
<1>9. \A i \in DOMAIN v : v[i].type # "Work"
  BY Indices DEF SessionInv, UpInv, Took
<1>7. 1 \in DOMAIN u /\ u[1] = m
  BY DEF Took
<1>8. h.comp \in Composite /\ m.curves \subseteq r[h.comp].since /\ m.curves \in SUBSET Curve /\ h.pend = None
  BY <1>7, MessageFields DEF DataOf, WorkOf, SessionInv, UpInv, Wanted, EndsInv
<1>10. \A k \in Curve : m0[h.comp].local[k] \in Nat
  BY <1>8, CountsNat
<1>11. SeenOf(g, m0)
  BY DEF DataOf, SeenOf
<1>12. WorkOf(g, v, r)
  BY Indices, MessageFields, NoneAssumption, SyncAssumption DEF DataOf, WorkOf, SessionInv, EndsInv, UpInv, Joint, Wanted, Put, PutTwo, Took, AtMost, About, Start, NoMore, SyncError
<1>13. PendOf(g, r, m0)
  <2>1. CASE m.curves = {}
    BY <2>1 DEF PendOf
  <2>2. CASE m.curves # {}
    BY <1>8, <1>10, <2>2 DEF PendOf
  <2> QED
    BY <2>1, <2>2
<1>14. ShownOf(e, r, m0, n)
  BY DEF DataOf, ShownOf, Keeps
<1>15. OfferedOf(x, g, v, m0, n, l0)
  <2> SUFFICES ASSUME NEW k \in Curve, Offers(g, v, m0, k)
               PROVE  /\ Offers(h, u, m0, k)
                      /\ (\A i \in DOMAIN u : u[i].type # "OK") => \A i \in DOMAIN v : v[i].type # "OK"
    BY DEF DataOf, OfferedOf
  <2>1. g.pend # None /\ g.pend.local[k] # m0[h.comp].local[k]
    BY <1>9 DEF Offers
  <2>2. k \in m.curves
    BY <1>10, <2>1
  <2>3. Offers(h, u, m0, k)
    BY <1>7, <2>2 DEF Offers
  <2> QED
    BY <2>3, Indices DEF Took
<1>16. ReadyOf(x, e, r, m0)
  BY Indices, MessageFields, NoneAssumption, SyncAssumption DEF DataOf, ReadyOf, SessionInv, EndsInv, DownInv, Joint, Put, PutTwo, Took, AtMost, About, Start, NoMore, SyncError
<1>17. ReportOf(x, g, v, r)
  <2> SUFFICES ASSUME Postgres, x.pc \notin {"idle", "closed"}, x.comp = h.comp
               PROVE  /\ x.pc = "answer" /\ x.pend = None => x.snap[x.comp].since = {}
                      /\ x.pend # None => \A k \in r[x.comp].since : g.pend # None /\ g.pend.local[k] > 0
    BY DEF ReportOf
  <2>1. x.pc = "answer" /\ x.pend = None => x.snap[x.comp].since = {}
    BY DEF DataOf, ReportOf
  <2>2. ASSUME x.pend # None, NEW k \in r[x.comp].since
        PROVE  g.pend # None /\ g.pend.local[k] > 0
    <3>0. \A i \in DOMAIN u : u[i].type = "Work" => r[x.comp].since \subseteq u[i].curves
      BY <2>2 DEF DataOf, ReportOf
    <3>1. r[x.comp].since \subseteq m.curves
      BY <1>7, <3>0
    <3>2. k \in m.curves /\ k \in Curve
      BY <1>8, <2>2, <3>1
    <3>3. g.pend # None /\ g.pend.local[k] = m0[h.comp].local[k] + 1
      BY <3>2
    <3> QED
      BY <1>10, <3>2, <3>3
  <2> QED
    BY <2>1, <2>2
<1> QED
  BY <1>11, <1>12, <1>13, <1>14, <1>15, <1>16, <1>17 DEF DataOf

LEMMA DataContent ==
  ASSUME NEW x \in Session, NEW h \in Helper, NEW u \in Seq(Message), NEW d \in Seq(Message),
         NEW r \in [Composite -> SlaveRow], NEW m0 \in [Composite -> MasterRow], NEW n \in Nat, NEW l0,
         SessionInv(x, h, u, d), DataOf(x, h, u, d, r, m0, n, l0),
         NEW g \in Helper,
         Answers(h, g),
         NEW v \in Seq(Message),
         Took(u, About("Found", h.comp), v),
         g.comp = h.comp,
         g.snap = h.snap,
         g.pend = h.pend,
         NEW e \in Seq(Message),
         NEW m \in Message,
         m.type = "Content",
         m.comp = h.comp,
         m.local = RowOf(h).local,
         e = d \/ Put(d, m, e),
         Keeps(d, e),
         g.stale = h.stale
  PROVE  DataOf(x, g, v, e, r, m0, n, l0)
<1> USE DEF Answers
<1>7. \A k \in Curve : Offers(g, v, m0, k) => Offers(h, u, m0, k)
  BY Indices DEF Offers, Took
<1>8. (\A i \in DOMAIN u : u[i].type # "OK") => \A i \in DOMAIN v : v[i].type # "OK"
  BY Indices DEF Took
<1>9. h.pc = "found2" => \A k \in Curve : m.local[k] <= m0[m.comp].local[k]
  BY DEF DataOf, SeenOf, RowOf, SessionInv, EndsInv, Helper
<1>10. x.pc = "content2" => h.pc = "found2"
  BY DEF SessionInv, Joint
<1>11. SeenOf(g, m0)
  BY Indices, MessageFields, NoneAssumption, SyncAssumption DEF DataOf, SeenOf
<1>12. WorkOf(g, v, r)
  BY Indices, MessageFields, NoneAssumption, SyncAssumption, SMTT(60) DEF DataOf, WorkOf, SessionInv, EndsInv, UpInv, Joint, Wanted, Put, PutTwo, Took, AtMost, About, Start, NoMore, SyncError
<1>13. PendOf(g, r, m0)
  BY Indices, MessageFields, NoneAssumption, SyncAssumption DEF DataOf, PendOf, SessionInv, EndsInv
<1>14. ShownOf(e, r, m0, n)
  BY DEF DataOf, ShownOf, Keeps
<1>15. OfferedOf(x, g, v, m0, n, l0)
  BY <1>7, <1>8 DEF DataOf, OfferedOf
<1>16. ReadyOf(x, e, r, m0)
  <2> SUFFICES ASSUME NEW i \in DOMAIN e
               PROVE  /\ e[i].type = "OK" => \A k \in Curve :
                           /\ x.pend.local[k] <= m0[e[i].comp].local[k]
                           /\ Postgres /\ k \in r[e[i].comp].since => m0[e[i].comp].local[k] > 0
                      /\ e[i].type = "Content" /\ x.pc = "content2" =>
                           \A k \in Curve : e[i].local[k] <= m0[e[i].comp].local[k]
    BY DEF ReadyOf
  <2>1. CASE i \in DOMAIN d /\ e[i] = d[i]
    BY <2>1 DEF DataOf, ReadyOf
  <2>2. CASE e[i] = m
    BY <1>9, <1>10, <2>2
  <2> QED
    BY <2>1, <2>2 DEF Put
<1>17. ReportOf(x, g, v, r)
  BY Indices, MessageFields, NoneAssumption, SyncAssumption DEF DataOf, ReportOf, SessionInv, EndsInv, DownInv, Joint, Put, PutTwo, Took, AtMost, About, Start, NoMore, SyncError
<1> QED
  BY <1>11, <1>12, <1>13, <1>14, <1>15, <1>16, <1>17 DEF DataOf

LEMMA DataStartSending ==
  ASSUME NEW x \in Session, NEW h \in Helper, NEW u \in Seq(Message), NEW d \in Seq(Message),
         NEW r \in [Composite -> SlaveRow], NEW m0 \in [Composite -> MasterRow], NEW n \in Nat, NEW l0,
         SessionInv(x, h, u, d), DataOf(x, h, u, d, r, m0, n, l0),
         NEW g \in Helper,
         h.pc = "receive",
         NEW v \in Seq(Message),
         Took(u, NoMore, v),
         g.pc = "next2",
         g.pend = None,
         NEW e \in Seq(Message),
         e = d \/ Put(d, Start, e),
         Keeps(d, e),
         (g.snap = h.snap /\ g.stale = h.stale) \/ g.snap.rows = m0,
         g.comp = h.comp
  PROVE  DataOf(x, g, v, e, r, m0, n, l0)
<1>11. SeenOf(g, m0)
  BY CountsNat DEF DataOf, SeenOf
<1>12. WorkOf(g, v, r)
  BY Indices, MessageFields, NoneAssumption, SyncAssumption DEF DataOf, WorkOf, SessionInv, EndsInv, UpInv, Joint, Wanted, Put, PutTwo, Took, AtMost, About, Start, NoMore, SyncError
<1>13. PendOf(g, r, m0)
  BY Indices, MessageFields, NoneAssumption, SyncAssumption DEF DataOf, PendOf, SessionInv, EndsInv
<1>14. ShownOf(e, r, m0, n)
  BY DEF DataOf, ShownOf, Keeps
<1>15. OfferedOf(x, g, v, m0, n, l0)
  BY Indices, MessageFields, NoneAssumption, SyncAssumption DEF DataOf, OfferedOf, Offers, SessionInv, EndsInv, UpInv, Joint, Wanted, Put, PutTwo, Took, AtMost, About, Start, NoMore, SyncError
<1>16. ReadyOf(x, e, r, m0)
  BY Indices, MessageFields, NoneAssumption, SyncAssumption DEF DataOf, ReadyOf, SessionInv, EndsInv, DownInv, Joint, Put, PutTwo, Took, AtMost, About, Start, NoMore, SyncError
<1>17. ReportOf(x, g, v, r)
  BY Indices, MessageFields, NoneAssumption, SyncAssumption DEF DataOf, ReportOf, SessionInv, EndsInv, DownInv, Joint, Put, PutTwo, Took, AtMost, About, Start, NoMore, SyncError
<1> QED
  BY <1>11, <1>12, <1>13, <1>14, <1>15, <1>16, <1>17 DEF DataOf

LEMMA DataSend ==
  ASSUME NEW x \in Session, NEW h \in Helper, NEW u \in Seq(Message), NEW d \in Seq(Message),
         NEW r \in [Composite -> SlaveRow], NEW m0 \in [Composite -> MasterRow], NEW n \in Nat, NEW l0,
         SessionInv(x, h, u, d), DataOf(x, h, u, d, r, m0, n, l0),
         NEW g \in Helper,
         h.pc = "next2",
         NEW c \in Composite,
         g.pc = "found2",
         g.comp = c,
         g.snap # None,
         g.pend = h.pend,
         NEW e \in Seq(Message),
         e = d \/ Put(d, About("Begin", c), e),
         Keeps(d, e),
         (g.snap = h.snap /\ g.stale = h.stale) \/ g.snap.rows = m0
  PROVE  DataOf(x, g, u, e, r, m0, n, l0)
<1>11. SeenOf(g, m0)
  BY CountsNat DEF DataOf, SeenOf
<1>12. WorkOf(g, u, r)
  BY Indices, MessageFields, NoneAssumption, SyncAssumption DEF DataOf, WorkOf, SessionInv, EndsInv, UpInv, Joint, Wanted, Put, PutTwo, Took, AtMost, About, Start, NoMore, SyncError
<1>13. PendOf(g, r, m0)
  BY Indices, MessageFields, NoneAssumption, SyncAssumption DEF DataOf, PendOf, SessionInv, EndsInv
<1>14. ShownOf(e, r, m0, n)
  BY DEF DataOf, ShownOf, Keeps
<1>15. OfferedOf(x, g, u, m0, n, l0)
  BY Indices, MessageFields, NoneAssumption, SyncAssumption DEF DataOf, OfferedOf, Offers, SessionInv, EndsInv, UpInv, Joint, Wanted, Put, PutTwo, Took, AtMost, About, Start, NoMore, SyncError
<1>16. ReadyOf(x, e, r, m0)
  BY Indices, MessageFields, NoneAssumption, SyncAssumption DEF DataOf, ReadyOf, SessionInv, EndsInv, DownInv, Joint, Put, PutTwo, Took, AtMost, About, Start, NoMore, SyncError
<1>17. ReportOf(x, g, u, r)
  BY Indices, MessageFields, NoneAssumption, SyncAssumption DEF DataOf, ReportOf, SessionInv, EndsInv, DownInv, Joint, Put, PutTwo, Took, AtMost, About, Start, NoMore, SyncError
<1> QED
  BY <1>11, <1>12, <1>13, <1>14, <1>15, <1>16, <1>17 DEF DataOf

LEMMA DataMasterCloses ==
  ASSUME NEW x \in Session, NEW h \in Helper, NEW u \in Seq(Message), NEW d \in Seq(Message),
         NEW r \in [Composite -> SlaveRow], NEW m0 \in [Composite -> MasterRow], NEW n \in Nat, NEW l0,
         SessionInv(x, h, u, d), DataOf(x, h, u, d, r, m0, n, l0),
         NEW g \in Helper,
         h.pc # "idle",
         NEW v \in Seq(Message),
         v = u \/ \E m \in Message : Took(u, m, v),
         g.pc = "closed",
         g.pend = None,
         NEW l \in {NoMore, SyncError},
         NEW e \in Seq(Message),
         e = d \/ Put(d, l, e),
         Keeps(d, e),
         g.snap = None,
         g.comp = None,
         NEW n2 \in Nat,
         n <= n2
  PROVE  DataOf(x, g, v, e, r, m0, n2, l0)
<1>9. \A i \in DOMAIN e : (i \in DOMAIN d /\ e[i] = d[i]) \/ e[i].type \in {"NoMore", "SyncError"}
  BY DEF Put, NoMore, SyncError
<1>11. SeenOf(g, m0)
  BY Indices, MessageFields, NoneAssumption, SyncAssumption DEF DataOf, SeenOf
<1>12. WorkOf(g, v, r)
  BY Indices, MessageFields, NoneAssumption, SyncAssumption DEF DataOf, WorkOf, SessionInv, EndsInv, UpInv, Joint, Wanted, Put, PutTwo, Took, AtMost, About, Start, NoMore, SyncError
<1>13. PendOf(g, r, m0)
  BY Indices, MessageFields, NoneAssumption, SyncAssumption DEF DataOf, PendOf, SessionInv, EndsInv
<1>14. ShownOf(e, r, m0, n2)
  BY CountsNat DEF DataOf, ShownOf, Keeps
<1>15. OfferedOf(x, g, v, m0, n2, l0)
  BY Indices, MessageFields, NoneAssumption, SyncAssumption DEF DataOf, OfferedOf, Offers, SessionInv, EndsInv, UpInv, Joint, Wanted, Put, PutTwo, Took, AtMost, About, Start, NoMore, SyncError
<1>16. ReadyOf(x, e, r, m0)
  BY <1>9 DEF DataOf, ReadyOf
<1>17. ReportOf(x, g, v, r)
  BY Indices, MessageFields, NoneAssumption, SyncAssumption DEF DataOf, ReportOf, SessionInv, EndsInv, DownInv, Joint, Put, PutTwo, Took, AtMost, About, Start, NoMore, SyncError
<1> QED
  BY <1>11, <1>12, <1>13, <1>14, <1>15, <1>16, <1>17 DEF DataOf

LEMMA DataSent ==
  ASSUME NEW x \in Session, NEW h \in Helper, NEW u \in Seq(Message), NEW d \in Seq(Message),
         NEW r \in [Composite -> SlaveRow], NEW m0 \in [Composite -> MasterRow], NEW n \in Nat, NEW l0,
         SessionInv(x, h, u, d), DataOf(x, h, u, d, r, m0, n, l0),
         NEW g \in Helper,
         h.pc = "answer2",
         NEW v \in Seq(Message),
         Took(u, About("OK", h.comp), v),
         g.pc = "next2",
         g.pend = None,
         g.snap = None,
         g.comp = h.comp
  PROVE  DataOf(x, g, v, d, r, m0, n, l0)
<1>11. SeenOf(g, m0)
  BY Indices, MessageFields, NoneAssumption, SyncAssumption DEF DataOf, SeenOf
<1>12. WorkOf(g, v, r)
  BY Indices, MessageFields, NoneAssumption, SyncAssumption DEF DataOf, WorkOf, SessionInv, EndsInv, UpInv, Joint, Wanted, Put, PutTwo, Took, AtMost, About, Start, NoMore, SyncError
<1>13. PendOf(g, r, m0)
  BY Indices, MessageFields, NoneAssumption, SyncAssumption DEF DataOf, PendOf, SessionInv, EndsInv
<1>14. OfferedOf(x, g, v, m0, n, l0)
  BY Indices, MessageFields, NoneAssumption, SyncAssumption DEF DataOf, OfferedOf, Offers, SessionInv, EndsInv, UpInv, Joint, Wanted, Put, PutTwo, Took, AtMost, About, Start, NoMore, SyncError
<1>15. ReportOf(x, g, v, r)
  BY Indices, MessageFields, NoneAssumption, SyncAssumption DEF DataOf, ReportOf, SessionInv, EndsInv, DownInv, Joint, Put, PutTwo, Took, AtMost, About, Start, NoMore, SyncError
<1> QED
  BY <1>11, <1>12, <1>13, <1>14, <1>15 DEF DataOf

LEMMA DataMasterSkips ==
  ASSUME NEW x \in Session, NEW h \in Helper, NEW u \in Seq(Message), NEW d \in Seq(Message),
         NEW r \in [Composite -> SlaveRow], NEW m0 \in [Composite -> MasterRow], NEW n \in Nat, NEW l0,
         SessionInv(x, h, u, d), DataOf(x, h, u, d, r, m0, n, l0),
         NEW g \in Helper,
         NEW v \in Seq(Message),
         NEW m \in Message,
         Took(u, m, v),
         Ignores(h, m),
         g.pc = h.pc,
         g.comp = h.comp,
         g.pend = h.pend,
         g.snap = h.snap,
         NEW e \in Seq(Message),
         e = d \/ (h.pc \in {"receive", "work"} /\ Put(d, SyncError, e)),
         Keeps(d, e),
         g.stale = h.stale
  PROVE  DataOf(x, g, v, e, r, m0, n, l0)
<1> USE DEF Ignores
<1>9. \A i \in DOMAIN e : (i \in DOMAIN d /\ e[i] = d[i]) \/ e[i].type \in {"NoMore", "SyncError"}
  BY DEF Put, NoMore, SyncError
<1>8. \A k \in Curve : Offers(g, v, m0, k) => Offers(h, u, m0, k)
  BY DEF Offers, Took
<1>10. (\A i \in DOMAIN u : u[i].type # "OK") => \A i \in DOMAIN v : v[i].type # "OK"
  BY DEF Took
<1>11. SeenOf(g, m0)
  BY Indices, MessageFields, NoneAssumption, SyncAssumption DEF DataOf, SeenOf
<1>12. WorkOf(g, v, r)
  BY Indices, MessageFields, NoneAssumption, SyncAssumption DEF DataOf, WorkOf, SessionInv, EndsInv, UpInv, Joint, Wanted, Put, PutTwo, Took, AtMost, About, Start, NoMore, SyncError
<1>13. PendOf(g, r, m0)
  BY Indices, MessageFields, NoneAssumption, SyncAssumption DEF DataOf, PendOf, SessionInv, EndsInv
<1>14. ShownOf(e, r, m0, n)
  BY DEF DataOf, ShownOf, Keeps
<1>15. OfferedOf(x, g, v, m0, n, l0)
  BY <1>8, <1>10 DEF DataOf, OfferedOf
<1>16. ReadyOf(x, e, r, m0)
  BY <1>9 DEF DataOf, ReadyOf
<1>17. ReportOf(x, g, v, r)
  BY Indices, MessageFields, NoneAssumption, SyncAssumption DEF DataOf, ReportOf, SessionInv, EndsInv, DownInv, Joint, Put, PutTwo, Took, AtMost, About, Start, NoMore, SyncError
<1> QED
  BY <1>11, <1>12, <1>13, <1>14, <1>15, <1>16, <1>17 DEF DataOf

LEMMA DataSame ==
  ASSUME NEW x \in Session, NEW h \in Helper, NEW u \in Seq(Message), NEW d \in Seq(Message),
         NEW r \in [Composite -> SlaveRow], NEW m0 \in [Composite -> MasterRow], NEW n \in Nat, NEW l0,
         SessionInv(x, h, u, d), DataOf(x, h, u, d, r, m0, n, l0),
         NEW g \in Helper,
         g.pc = h.pc,
         g.comp = h.comp,
         g.snap = h.snap,
         g.pend = h.pend,
         g.stale = h.stale
  PROVE  DataOf(x, g, u, d, r, m0, n, l0)
<1>11. SeenOf(g, m0)
  BY Indices, MessageFields, NoneAssumption, SyncAssumption DEF DataOf, SeenOf
<1>12. WorkOf(g, u, r)
  BY Indices, MessageFields, NoneAssumption, SyncAssumption DEF DataOf, WorkOf, SessionInv, EndsInv, UpInv, Joint, Wanted, Put, PutTwo, Took, AtMost, About, Start, NoMore, SyncError
<1>13. PendOf(g, r, m0)
  BY Indices, MessageFields, NoneAssumption, SyncAssumption DEF DataOf, PendOf, SessionInv, EndsInv
<1>14. OfferedOf(x, g, u, m0, n, l0)
  BY Indices, MessageFields, NoneAssumption, SyncAssumption DEF DataOf, OfferedOf, Offers, SessionInv, EndsInv, UpInv, Joint, Wanted, Put, PutTwo, Took, AtMost, About, Start, NoMore, SyncError
<1>15. ReportOf(x, g, u, r)
  BY Indices, MessageFields, NoneAssumption, SyncAssumption DEF DataOf, ReportOf, SessionInv, EndsInv, DownInv, Joint, Put, PutTwo, Took, AtMost, About, Start, NoMore, SyncError
<1> QED
  BY <1>11, <1>12, <1>13, <1>14, <1>15 DEF DataOf

LEMMA DataCut ==
  ASSUME NEW x \in Session, NEW h \in Helper, NEW u \in Seq(Message), NEW d \in Seq(Message),
         NEW r \in [Composite -> SlaveRow], NEW m0 \in [Composite -> MasterRow], NEW n \in Nat, NEW l0,
         SessionInv(x, h, u, d), DataOf(x, h, u, d, r, m0, n, l0),
         NEW v \in Seq(Message),
         NEW e \in Seq(Message),
         Len(v) <= Len(u),
         \A i \in DOMAIN v : i \in DOMAIN u /\ v[i] = u[i],
         Len(e) <= Len(d),
         \A i \in DOMAIN e : i \in DOMAIN d /\ e[i] = d[i],
         \A k \in Curve : Counts(m0, k) <= n + 1
  PROVE  DataOf(x, h, v, e, r, m0, n + 1, FALSE)
<1>9. \A k \in Curve : Offers(h, v, m0, k) => Offers(h, u, m0, k)
  BY DEF Offers
<1>11. WorkOf(h, v, r)
  BY Indices, MessageFields, NoneAssumption, SyncAssumption DEF DataOf, WorkOf, SessionInv, EndsInv, UpInv, Joint, Wanted, Put, PutTwo, Took, AtMost, About, Start, NoMore, SyncError
<1>12. ShownOf(e, r, m0, n + 1)
  BY Indices, MessageFields, NoneAssumption, SyncAssumption DEF DataOf, ShownOf, SessionInv, DownInv, Put, PutTwo, Took, About, Start, NoMore, SyncError
<1>13. OfferedOf(x, h, v, m0, n + 1, FALSE)
  BY <1>9, CountsNat, SMTT(60) DEF DataOf, OfferedOf
<1>14. ReadyOf(x, e, r, m0)
  BY Indices, MessageFields, NoneAssumption, SyncAssumption DEF DataOf, ReadyOf, SessionInv, EndsInv, DownInv, Joint, Put, PutTwo, Took, AtMost, About, Start, NoMore, SyncError
<1>15. ReportOf(x, h, v, r)
  BY Indices, MessageFields, NoneAssumption, SyncAssumption DEF DataOf, ReportOf, SessionInv, EndsInv, DownInv, Joint, Put, PutTwo, Took, AtMost, About, Start, NoMore, SyncError
<1> QED
  BY <1>11, <1>12, <1>13, <1>14, <1>15 DEF DataOf

LEMMA DataFirst ==
  ASSUME NEW x \in Session, NEW h \in Helper, NEW u \in Seq(Message), NEW d \in Seq(Message),
         NEW r \in [Composite -> SlaveRow], NEW m0 \in [Composite -> MasterRow], NEW n \in Nat, NEW l0,
         SessionInv(x, h, u, d), DataOf(x, h, u, d, r, m0, n, l0),
         NEW y \in Session,
         NEW g \in Helper,
         x.pc = "idle",
         y.pc = "next",
         y.pend = None,
         g.pc = "start",
         g.pend = None,
         y.snap = r,
         g.snap = None
  PROVE  DataOf(y, g, u, d, r, m0, n, TRUE)
<1>11. SnapOf(y, r)
  BY Indices, MessageFields, NoneAssumption, SyncAssumption DEF DataOf, SnapOf, SessionInv, EndsInv
<1>12. SeenOf(g, m0)
  BY Indices, MessageFields, NoneAssumption, SyncAssumption DEF DataOf, SeenOf
<1>13. WorkOf(g, u, r)
  BY Indices, MessageFields, NoneAssumption, SyncAssumption DEF DataOf, WorkOf, SessionInv, EndsInv, UpInv, Joint, Wanted, Put, PutTwo, Took, AtMost, About, Start, NoMore, SyncError
<1>14. PendOf(g, r, m0)
  BY Indices, MessageFields, NoneAssumption, SyncAssumption DEF DataOf, PendOf, SessionInv, EndsInv
<1>15. OfferedOf(y, g, u, m0, n, TRUE)
  BY Indices, MessageFields, NoneAssumption, SyncAssumption DEF DataOf, OfferedOf, Offers, SessionInv, EndsInv, UpInv, Joint, Wanted, Put, PutTwo, Took, AtMost, About, Start, NoMore, SyncError
<1>16. ReadyOf(y, d, r, m0)
  BY Indices, MessageFields, NoneAssumption, SyncAssumption DEF DataOf, ReadyOf, SessionInv, EndsInv, DownInv, Joint, Put, PutTwo, Took, AtMost, About, Start, NoMore, SyncError
<1>17. ReportOf(y, g, u, r)
  BY Indices, MessageFields, NoneAssumption, SyncAssumption DEF DataOf, ReportOf, SessionInv, EndsInv, DownInv, Joint, Put, PutTwo, Took, AtMost, About, Start, NoMore, SyncError
<1> QED
  BY <1>11, <1>12, <1>13, <1>14, <1>15, <1>16, <1>17 DEF DataOf

LEMMA DataIdle ==
  ASSUME NEW x \in Session, NEW h \in Helper, NEW u \in Seq(Message), NEW d \in Seq(Message),
         NEW r \in [Composite -> SlaveRow], NEW m0 \in [Composite -> MasterRow], NEW n \in Nat, NEW l0,
         SessionInv(x, h, u, d), DataOf(x, h, u, d, r, m0, n, l0),
         NEW y \in Session,
         NEW g \in Helper,
         y.pc = "idle",
         g.pc = "idle",
         y.pend = None,
         g.pend = None,
         x.pc = "closed",
         h.pc = "closed",
         y.snap = None,
         g.snap = None,
         g.comp = None
  PROVE  DataOf(y, g, <<>>, <<>>, r, m0, n, FALSE)
<1>11. SnapOf(y, r)
  BY Indices, MessageFields, NoneAssumption, SyncAssumption DEF DataOf, SnapOf, SessionInv, EndsInv
<1>12. SeenOf(g, m0)
  BY Indices, MessageFields, NoneAssumption, SyncAssumption DEF DataOf, SeenOf
<1>13. WorkOf(g, <<>>, r)
  BY Indices, MessageFields, NoneAssumption, SyncAssumption DEF DataOf, WorkOf, SessionInv, EndsInv, UpInv, Joint, Wanted, Put, PutTwo, Took, AtMost, About, Start, NoMore, SyncError
<1>14. PendOf(g, r, m0)
  BY Indices, MessageFields, NoneAssumption, SyncAssumption DEF DataOf, PendOf, SessionInv, EndsInv
<1>15. ShownOf(<<>>, r, m0, n)
  BY Indices, MessageFields, NoneAssumption, SyncAssumption DEF DataOf, ShownOf, SessionInv, DownInv, Put, PutTwo, Took, About, Start, NoMore, SyncError
<1>16. OfferedOf(y, g, <<>>, m0, n, FALSE)
  BY Indices, MessageFields, NoneAssumption, SyncAssumption DEF DataOf, OfferedOf, Offers, SessionInv, EndsInv, UpInv, Joint, Wanted, Put, PutTwo, Took, AtMost, About, Start, NoMore, SyncError
<1>17. ReadyOf(y, <<>>, r, m0)
  BY Indices, MessageFields, NoneAssumption, SyncAssumption DEF DataOf, ReadyOf, SessionInv, EndsInv, DownInv, Joint, Put, PutTwo, Took, AtMost, About, Start, NoMore, SyncError
<1>18. ReportOf(y, g, <<>>, r)
  BY Indices, MessageFields, NoneAssumption, SyncAssumption DEF DataOf, ReportOf, SessionInv, EndsInv, DownInv, Joint, Put, PutTwo, Took, AtMost, About, Start, NoMore, SyncError
<1> QED
  BY <1>11, <1>12, <1>13, <1>14, <1>15, <1>16, <1>17, <1>18 DEF DataOf

(* The row committed by the master, and what it makes of the session. *)
LEMMA DataMasterCommits ==
  ASSUME NEW x \in Session, NEW h \in Helper, NEW u \in Seq(Message), NEW d \in Seq(Message),
         NEW r \in [Composite -> SlaveRow], NEW m0 \in [Composite -> MasterRow], NEW n \in Nat, NEW l0,
         SessionInv(x, h, u, d), DataOf(x, h, u, d, r, m0, n, l0),
         NEW g \in Helper, h.pc = "answer", NEW v \in Seq(Message), Took(u, About("OK", h.comp), v),
         g.pc = "receive", g.comp = h.comp, g.pend = None, g.snap = None,
         NEW e \in Seq(Message), Keeps(d, e),
         \/ l0 /\ x.pc # "closed" /\ Put(d, About("OK", h.comp), e)
         \/ (~l0 \/ x.pc = "closed") /\ e = d,
         NEW w \in [Composite -> MasterRow],
         w[h.comp].local = IF h.pend # None THEN h.pend.local ELSE m0[h.comp].local,
         \A c \in Composite \ {h.comp} : w[c] = m0[c],
         \A k \in r[h.comp].since : CompositeOf[k] = h.comp
  PROVE  DataOf(x, g, v, e, r, w, n, l0)
<1>1. /\ h.comp \in Composite /\ g.pc # "closed"
      /\ 1 \in DOMAIN u /\ u[1].type = "OK" /\ u[1].comp = h.comp
  BY DEF SessionInv, EndsInv, Helper, Took, About
<1>2. \A i \in DOMAIN v : v[i].type # "Work"
  BY Indices DEF SessionInv, UpInv, Took
<1>3. \A c \in Composite, k \in Curve : m0[c].local[k] \in Nat /\ w[c].local[k] \in Nat
  BY CountsNat
<1>4. \A k \in Curve : \/ w[h.comp].local[k] = m0[h.comp].local[k]
                       \/ /\ w[h.comp].local[k] = m0[h.comp].local[k] + 1
                          /\ k \in r[h.comp].since /\ Offers(h, u, m0, k)
  <2> SUFFICES ASSUME NEW k \in Curve, w[h.comp].local[k] # m0[h.comp].local[k]
               PROVE  /\ w[h.comp].local[k] = m0[h.comp].local[k] + 1
                      /\ k \in r[h.comp].since /\ Offers(h, u, m0, k)
    OBVIOUS
  <2>1. h.pend # None /\ w[h.comp].local = h.pend.local
    OBVIOUS
  <2>2. w[h.comp].local[k] = m0[h.comp].local[k] + 1 /\ k \in r[h.comp].since
    BY <2>1 DEF DataOf, PendOf
  <2> QED
    BY <2>1, <2>2 DEF Offers
<1>5. ASSUME NEW c \in Composite, NEW k \in Curve
      PROVE  m0[c].local[k] <= w[c].local[k]
  <2>1. CASE c = h.comp
    <3>1. m0[h.comp].local[k] \in Nat /\ w[h.comp].local[k] \in Nat
      BY <1>1, <1>3
    <3>2. \/ w[h.comp].local[k] = m0[h.comp].local[k]
          \/ w[h.comp].local[k] = m0[h.comp].local[k] + 1
      BY <1>4
    <3>3. m0[h.comp].local[k] <= w[h.comp].local[k]
      BY <3>1, <3>2
    <3> QED
      BY <2>1, <3>3
  <2>2. CASE c # h.comp
    BY <1>3, <2>2
  <2> QED
    BY <2>1, <2>2
<1>6. x.pc \notin {"idle", "closed"} =>
        /\ x.pc = "answer" /\ x.comp = h.comp /\ d = <<>> /\ x.pend # None
        /\ x.pend.local = RowOf(h).local
  <2> SUFFICES ASSUME x.pc \notin {"idle", "closed"}
               PROVE  /\ x.pc = "answer" /\ x.comp = h.comp /\ d = <<>> /\ x.pend # None
                      /\ x.pend.local = RowOf(h).local
    OBVIOUS
  <2>1. u # <<>>
    BY DEF Took
  <2> QED
    BY <2>1 DEF SessionInv, Joint
<1>7. SeenOf(g, w)
  BY DEF SeenOf
<1>8. SnapOf(x, r) /\ PendOf(g, r, w) /\ WorkOf(g, v, r)
  BY <1>2 DEF DataOf, PendOf, WorkOf
<1>9. ShownOf(e, r, w, n)
  <2> SUFFICES ASSUME NEW k \in Curve, k \in r[CompositeOf[k]].since,
                      ~ \E i \in DOMAIN e : e[i].type = "OK" /\ e[i].comp = CompositeOf[k]
               PROVE  Counts(w, k) <= n
    BY DEF ShownOf
  <2>1. Counts(m0, k) <= n
    BY DEF DataOf, ShownOf, Keeps
  <2>2. CompositeOf[k] \in Composite
    BY SyncAssumption
  <2>3. CASE Counts(w, k) = Counts(m0, k)
    BY <2>1, <2>3
  <2>4. CASE Counts(w, k) # Counts(m0, k)
    <3>1. CompositeOf[k] = h.comp
      BY <2>2, <2>4 DEF Counts
    <3>2. Counts(w, k) = Counts(m0, k) + 1 /\ Offers(h, u, m0, k)
      BY <1>4, <2>4, <3>1 DEF Counts
    <3>3. ~l0 \/ x.pc = "closed"
      <4> SUFFICES ASSUME Put(d, About("OK", h.comp), e), l0, x.pc # "closed"
                   PROVE  FALSE
        OBVIOUS
      <4>1. d = <<>> /\ Len(d) = 0
        BY <1>6, Indices DEF SessionInv, EndsInv
      <4>2. Len(e) = 1
        BY <4>1 DEF Put
      <4>3. 1 \in DOMAIN e /\ e[1] = About("OK", h.comp)
        BY <4>1, <4>2, Indices DEF Put
      <4> QED
        BY <3>1, <4>3 DEF About
    <3>4. Counts(m0, k) < n
      BY <1>1, <3>2, <3>3 DEF DataOf, OfferedOf
    <3> QED
      BY <1>3, <2>2, <3>2, <3>4 DEF Counts
  <2> QED
    BY <2>3, <2>4
<1>10. OfferedOf(x, g, v, w, n, l0)
  BY <1>2 DEF OfferedOf, Offers
<1>11. ReadyOf(x, e, r, w)
  <2> SUFFICES ASSUME NEW i \in DOMAIN e
               PROVE  /\ e[i].type = "OK" => \A k \in Curve :
                           /\ x.pend.local[k] <= w[e[i].comp].local[k]
                           /\ Postgres /\ k \in r[e[i].comp].since => w[e[i].comp].local[k] > 0
                      /\ e[i].type = "Content" /\ x.pc = "content2" =>
                           \A k \in Curve : e[i].local[k] <= w[e[i].comp].local[k]
    BY DEF ReadyOf
  <2>1. CASE x.pc \in {"idle", "closed"}
    <3>1. x.pc = "closed" /\ e = d
      BY <2>1 DEF SessionInv, EndsInv
    <3> QED
      BY <3>1 DEF SessionInv, DownInv
  <2>2. CASE x.pc \notin {"idle", "closed"}
    <3>1. e[i] = About("OK", h.comp)
      BY <1>6, <2>2, Indices DEF Put
    <3>2. e[i].type = "OK" /\ e[i].comp = h.comp
      BY <3>1 DEF About
    <3>3. \A k \in Curve : x.pend.local[k] <= w[h.comp].local[k]
      <4>1. CASE h.pend # None
        <5>1. x.pend.local = w[h.comp].local
          BY <1>6, <2>2, <4>1 DEF RowOf
        <5> QED
          BY <1>1, <1>3, <5>1
      <4>2. CASE h.pend = None
        <5>1. x.pend.local = h.snap.rows[h.comp].local /\ h.snap # None
          BY <1>6, <2>2, <4>2 DEF RowOf, SessionInv, EndsInv
        <5> QED
          BY <1>1, <4>2, <5>1 DEF DataOf, SeenOf
      <4> QED
        BY <4>1, <4>2
    <3>4. ASSUME NEW k \in Curve, Postgres, k \in r[h.comp].since
          PROVE  w[h.comp].local[k] > 0
      <4>1. h.pend # None /\ h.pend.local[k] > 0
        BY <1>6, <2>2, <3>4 DEF DataOf, ReportOf
      <4> QED
        BY <4>1
    <3> QED
      BY <3>2, <3>3, <3>4
  <2> QED
    BY <2>1, <2>2
<1>12. ReportOf(x, g, v, r)
  BY DEF ReportOf
<1> QED
  BY <1>7, <1>8, <1>9, <1>10, <1>11, <1>12 DEF DataOf

(* Another transaction changes composite c of the master. *)
LEMMA DataOther ==
  ASSUME NEW x \in Session, NEW h \in Helper, NEW u \in Seq(Message), NEW d \in Seq(Message),
         NEW r \in [Composite -> SlaveRow], NEW m0 \in [Composite -> MasterRow], NEW n \in Nat, NEW l0,
         SessionInv(x, h, u, d), DataOf(x, h, u, d, r, m0, n, l0),
         NEW g \in Helper, g.pc = h.pc, g.comp = h.comp, g.snap = h.snap, g.pend = h.pend, h.stale \subseteq g.stale,
         NEW w \in [Composite -> MasterRow], NEW c \in Composite,
         h.snap # None => c \in g.stale \/ w[c].local = m0[c].local,
         h.pend # None => h.comp # c \/ w[c].local = m0[c].local,
         \A b \in Composite \ {c} : w[b] = m0[b],
         \A k \in Curve : m0[c].local[k] <= w[c].local[k],
         \A k \in r[c].since : w[c].local[k] = m0[c].local[k],
         \A b \in Composite : \A k \in r[b].since : CompositeOf[k] = b
  PROVE  DataOf(x, g, u, d, r, w, n, l0)
<1>1. \A b \in Composite, k \in Curve : m0[b].local[k] \in Nat /\ w[b].local[k] \in Nat /\ m0[b].local[k] <= w[b].local[k]
  BY CountsNat
<1>2. \A k \in Curve : k \in r[CompositeOf[k]].since => Counts(w, k) = Counts(m0, k)
  BY SyncAssumption DEF Counts
<1>3. h.pend # None => h.comp \in Composite /\ w[h.comp].local = m0[h.comp].local
  BY DEF SessionInv, EndsInv, Helper
<1>4. \A k \in Curve : Offers(g, u, w, k) => Offers(h, u, m0, k) /\ k \in r[CompositeOf[k]].since
  <2> SUFFICES ASSUME NEW k \in Curve, Offers(g, u, w, k)
               PROVE  Offers(h, u, m0, k) /\ k \in r[CompositeOf[k]].since
    OBVIOUS
  <2>1. Offers(h, u, m0, k)
    BY <1>3 DEF Offers
  <2>2. CASE h.pc # "closed" /\ \E i \in DOMAIN u : u[i].type = "Work" /\ k \in u[i].curves
    <3>1. PICK i \in DOMAIN u : u[i].type = "Work" /\ k \in u[i].curves
      BY <2>2
    <3>2. u[i].comp \in Composite /\ k \in r[u[i].comp].since
      BY <2>2, <3>1, Indices, MessageFields DEF DataOf, WorkOf
    <3> QED
      BY <2>1, <3>2
  <2>3. CASE h.pend # None /\ CompositeOf[k] = h.comp /\ h.pend.local[k] # m0[h.comp].local[k]
    BY <2>1, <2>3 DEF DataOf, PendOf
  <2> QED
    BY <2>1, <2>2, <2>3 DEF Offers
<1>5. SeenOf(g, w)
  <2> SUFFICES ASSUME h.snap # None, NEW b \in Composite, NEW k \in Curve
               PROVE  /\ h.snap.rows[b].local[k] <= w[b].local[k]
                      /\ b \notin g.stale => h.snap.rows[b].local[k] = w[b].local[k]
    BY DEF SeenOf
  <2>1. /\ h.snap.rows[b].local[k] <= m0[b].local[k]
        /\ b \notin h.stale => h.snap.rows[b].local[k] = m0[b].local[k]
    BY DEF DataOf, SeenOf
  <2>2. h.snap.rows[b].local[k] \in Nat
    <3>1. h.snap.rows \in [Composite -> MasterRow]
      BY DEF Helper
    <3> QED
      BY <3>1, CountsNat
  <2>3. h.snap.rows[b].local[k] <= w[b].local[k]
    BY <1>1, <2>1, <2>2
  <2>4. CASE b = c
    BY <2>1, <2>3, <2>4
  <2>5. CASE b # c
    BY <2>1, <2>3, <2>5
  <2> QED
    BY <2>4, <2>5
<1>6. SnapOf(x, r) /\ WorkOf(g, u, r) /\ ReportOf(x, g, u, r)
  BY DEF DataOf, WorkOf, ReportOf
<1>7. PendOf(g, r, w)
  BY <1>3 DEF DataOf, PendOf
<1>8. ShownOf(d, r, w, n)
  BY <1>2 DEF DataOf, ShownOf
<1>9. OfferedOf(x, g, u, w, n, l0)
  BY <1>2, <1>4 DEF DataOf, OfferedOf
<1>10. ReadyOf(x, d, r, w)
  <2> SUFFICES ASSUME NEW i \in DOMAIN d
               PROVE  /\ d[i].type = "OK" => \A k \in Curve :
                           /\ x.pend.local[k] <= w[d[i].comp].local[k]
                           /\ Postgres /\ k \in r[d[i].comp].since => w[d[i].comp].local[k] > 0
                      /\ d[i].type = "Content" /\ x.pc = "content2" =>
                           \A k \in Curve : d[i].local[k] <= w[d[i].comp].local[k]
    BY DEF ReadyOf
  <2>1. ASSUME d[i].type = "OK", NEW k \in Curve
        PROVE  /\ x.pend.local[k] <= w[d[i].comp].local[k]
               /\ Postgres /\ k \in r[d[i].comp].since => w[d[i].comp].local[k] > 0
    <3>1. d[i].comp \in Composite /\ x.pend # None
      BY <2>1, Indices, MessageFields DEF SessionInv, DownInv
    <3>2. x.pend.local[k] \in Nat
      <4>1. x.pend \in SlaveRow
        BY <3>1 DEF Session
      <4>2. x.pend.local[k] \in 0..(MaxTrouble + 1)
        BY <4>1 DEF SlaveRow, Tally
      <4> QED
        BY <4>2, SyncAssumption
    <3>3. /\ x.pend.local[k] <= m0[d[i].comp].local[k]
          /\ Postgres /\ k \in r[d[i].comp].since => m0[d[i].comp].local[k] > 0
      BY <2>1 DEF DataOf, ReadyOf
    <3>4. m0[d[i].comp].local[k] \in Nat /\ w[d[i].comp].local[k] \in Nat /\ m0[d[i].comp].local[k] <= w[d[i].comp].local[k]
      BY <1>1, <3>1
    <3> QED
      BY <3>2, <3>3, <3>4
  <2>2. ASSUME d[i].type = "Content", x.pc = "content2", NEW k \in Curve
        PROVE  d[i].local[k] <= w[d[i].comp].local[k]
    <3>1. d[i].comp \in Composite /\ d[i].local \in Tally
      BY <2>2, Indices, MessageFields
    <3>2. d[i].local[k] \in 0..(MaxTrouble + 1)
      BY <3>1 DEF Tally
    <3>3. d[i].local[k] <= m0[d[i].comp].local[k]
      BY <2>2 DEF DataOf, ReadyOf
    <3> QED
      <4>1. MaxTrouble \in Nat /\ d[i].local[k] \in Nat
        BY <3>2, SyncAssumption
      <4>2. m0[d[i].comp].local[k] \in Nat /\ w[d[i].comp].local[k] \in Nat /\ m0[d[i].comp].local[k] <= w[d[i].comp].local[k]
        BY <1>1, <3>1
      <4> QED
        BY <3>3, <4>1, <4>2
  <2> QED
    BY <2>1, <2>2
<1> QED
  BY <1>5, <1>6, <1>7, <1>8, <1>9, <1>10 DEF DataOf

(* Failures elsewhere. *)
LEMMA DataMore ==
  ASSUME NEW x \in Session, NEW h \in Helper, NEW u \in Seq(Message), NEW d \in Seq(Message),
         NEW r \in [Composite -> SlaveRow], NEW m0 \in [Composite -> MasterRow], NEW n \in Nat, NEW l0,
         DataOf(x, h, u, d, r, m0, n, l0), NEW n2 \in Nat, n <= n2
  PROVE  DataOf(x, h, u, d, r, m0, n2, l0)
<1>1. ShownOf(d, r, m0, n2)
  BY CountsNat DEF DataOf, ShownOf
<1>2. OfferedOf(x, h, u, m0, n2, l0)
  <2> SUFFICES ASSUME NEW k \in Curve, Offers(h, u, m0, k)
               PROVE  /\ Counts(m0, k) <= n2
                      /\ Counts(m0, k) < n => Counts(m0, k) < n2
    BY DEF DataOf, OfferedOf
  <2>1. Counts(m0, k) \in Nat /\ Counts(m0, k) <= n
    BY CountsNat DEF DataOf, OfferedOf
  <2> QED
    BY <2>1
<1> QED
  BY <1>1, <1>2 DEF DataOf

(* A client returns curves at the slave, not for the composite it holds. *)
LEMMA DataReturned ==
  ASSUME NEW x \in Session, NEW h \in Helper, NEW u \in Seq(Message), NEW d \in Seq(Message),
         NEW r \in [Composite -> SlaveRow], NEW m0 \in [Composite -> MasterRow], NEW n \in Nat, NEW l0,
         SessionInv(x, h, u, d), DataOf(x, h, u, d, r, m0, n, l0),
         NEW w \in [Composite -> SlaveRow], NEW k \in Curve, NEW c \in Composite, CompositeOf[k] = c,
         w[c].since = r[c].since \cup {k}, \A b \in Composite \ {c} : w[b] = r[b],
         Counts(m0, k) = 0, x.pend = None \/ x.comp # c
  PROVE  DataOf(x, h, u, d, w, m0, n, l0)
<1>1. \A b \in Composite : r[b].since \subseteq w[b].since
  OBVIOUS
<1>2. SnapOf(x, w)
  BY <1>1 DEF DataOf, SnapOf
<1>3. WorkOf(h, u, w)
  BY <1>1, Indices, MessageFields DEF DataOf, WorkOf
<1>4. PendOf(h, w, m0)
  BY <1>1 DEF DataOf, PendOf, SessionInv, EndsInv, Helper
<1>5. ShownOf(d, w, m0, n)
  <2> SUFFICES ASSUME NEW j \in Curve, j \in w[CompositeOf[j]].since, j # k
               PROVE  j \in r[CompositeOf[j]].since
    BY DEF DataOf, ShownOf
  <2> QED
    BY SyncAssumption
<1>6. ReadyOf(x, d, w, m0)
  <2>1. \A i \in DOMAIN d : d[i].type = "OK" => d[i].comp \in Composite /\ d[i].comp # c
    BY Indices, MessageFields DEF SessionInv, DownInv
  <2>2. \A i \in DOMAIN d : d[i].type = "OK" => w[d[i].comp] = r[d[i].comp]
    BY <2>1
  <2> QED
    BY <2>2 DEF DataOf, ReadyOf
<1>7. ReportOf(x, h, u, w)
  <2>1. x.pend # None => x.comp \in Composite /\ w[x.comp] = r[x.comp]
    BY DEF SessionInv, EndsInv, Session
  <2> QED
    BY <2>1 DEF DataOf, ReportOf
<1> QED
  BY <1>2, <1>3, <1>4, <1>5, <1>6, <1>7 DEF DataOf

-----------------------------------------------------------------------------
(***************************************************************************)
(* Steps.                                                                  *)
(***************************************************************************)
(* A set of composites that is not empty has a first one.                   *)
LEMMA FirstMember ==
  ASSUME NEW S \in SUBSET Composite, S # {}
  PROVE  First(S) \in S
<1> DEFINE R == OpToRel(<, Nat)
<1>1. IsWellFoundedOn(R, Nat)
  BY NatLessThanWellFounded
<1>2. \A i, j \in Nat : j < i => <<j, i>> \in R
  BY SMT DEF OpToRel
<1> HIDE DEF R
<1>3. S \subseteq Nat
  BY SyncAssumption
<1>4. PICK i \in S : \A j \in S : ~ (<<j, i>> \in R)
  BY <1>1, <1>3, WFMin
<1>5. ASSUME NEW j \in S
      PROVE  i <= j
  <2>1. i \in Nat /\ j \in Nat
    BY <1>3
  <2>2. ~ (<<j, i>> \in R)
    BY <1>4
  <2>3. ~ (j < i)
    BY <1>2, <2>1, <2>2, Zenon
  <2> QED
    BY <2>1, <2>3
<1> QED
  BY <1>5 DEF First

(* What is known of one session.                                            *)
LEMMA Here ==
  ASSUME IInv, NEW s \in Slave
  PROVE  /\ ses[s] \in Session /\ hlp[s] \in Helper /\ up[s] \in Seq(Message) /\ down[s] \in Seq(Message)
         /\ link[s] \in BOOLEAN /\ srow[s] \in [Composite -> SlaveRow] /\ mrow \in [Composite -> MasterRow]
         /\ trouble \in Nat
         /\ SessionInv(ses[s], hlp[s], up[s], down[s])
         /\ DataOf(ses[s], hlp[s], up[s], down[s], srow[s], mrow, trouble, link[s])
         /\ \A c \in Composite : \A k \in srow[s][c].since : CompositeOf[k] = c /\ ServerOf[k] = s /\ k \in done
<1>1. trouble \in Nat
  BY SyncAssumption DEF IInv, TypeOK
<1> QED
  BY <1>1 DEF IInv, TypeOK, ProtocolInv, DataInv, SinceOf

(* A step of one session that changes no composite.                         *)
LEMMA Quiet ==
  ASSUME IInv, NEW s \in Slave,
         ses' \in [Slave -> Session], hlp' \in [Slave -> Helper],
         up' \in [Slave -> Seq(Message)], down' \in [Slave -> Seq(Message)],
         link' \in [Slave -> BOOLEAN], trouble' \in 0..MaxTrouble, trouble <= trouble',
         \A t \in Slave \ {s} : /\ ses'[t] = ses[t] /\ hlp'[t] = hlp[t] /\ up'[t] = up[t]
                                /\ down'[t] = down[t] /\ link'[t] = link[t],
         SessionInv(ses'[s], hlp'[s], up'[s], down'[s]),
         DataOf(ses'[s], hlp'[s], up'[s], down'[s], srow[s], mrow, trouble', link'[s]),
         hlp'[s].pend # None => \A t \in Slave \ {s} : hlp[t].pend # None => hlp[t].comp # hlp'[s].comp,
         sync' \in [Composite -> [Slave -> Flag]], UNCHANGED <<mrow, srow, done>>
  PROVE  IInv'
<1>1. TypeOK'
  BY DEF IInv, TypeOK
<1>2. ProtocolInv'
  BY DEF IInv, ProtocolInv
<1>3. trouble \in Nat /\ trouble' \in Nat
  BY SyncAssumption DEF IInv, TypeOK
<1>4. ASSUME NEW t \in Slave
      PROVE  /\ DataOf(ses'[t], hlp'[t], up'[t], down'[t], srow'[t], mrow', trouble', link'[t])
             /\ SinceOf(t, srow'[t], done')
  <2>1. SinceOf(t, srow'[t], done')
    BY DEF IInv, DataInv
  <2>2. CASE t = s
    BY <2>1, <2>2
  <2>3. CASE t # s
    <3>0. /\ ses[t] \in Session /\ hlp[t] \in Helper /\ up[t] \in Seq(Message) /\ down[t] \in Seq(Message)
          /\ link[t] \in BOOLEAN /\ srow[t] \in [Composite -> SlaveRow] /\ mrow \in [Composite -> MasterRow]
          /\ DataOf(ses[t], hlp[t], up[t], down[t], srow[t], mrow, trouble, link[t])
      BY Here
    <3>1. DataOf(ses[t], hlp[t], up[t], down[t], srow[t], mrow, trouble', link[t])
      BY <1>3, <3>0, DataMore
    <3> QED
      BY <2>1, <2>3, <3>1
  <2> QED
    BY <2>2, <2>3
<1>5. Exclusive'
  <2> SUFFICES ASSUME NEW a \in Slave, NEW b \in Slave, a # b, hlp'[a].pend # None, hlp'[b].pend # None
               PROVE  hlp'[a].comp # hlp'[b].comp
    BY DEF Exclusive
  <2>1. CASE a = s
    BY <2>1
  <2>2. CASE b = s
    BY <2>2
  <2>3. CASE a # s /\ b # s
    <3>1. hlp'[a] = hlp[a] /\ hlp'[b] = hlp[b]
      BY <2>3
    <3>2. Exclusive
      BY DEF IInv, DataInv
    <3>3. hlp[a].pend # None /\ hlp[b].pend # None => hlp[a].comp # hlp[b].comp
      BY <3>2 DEF Exclusive
    <3> QED
      BY <3>1, <3>3
  <2> QED
    BY <2>1, <2>2, <2>3
<1>6. NotBefore' /\ SlaveNeverAhead'
  BY DEF IInv, DataInv, NotBefore, SlaveNeverAhead, Counts
<1>7. OneRecountPerFailure'
  <2> SUFFICES ASSUME NEW k \in Curve
               PROVE  mrow[CompositeOf[k]].local[k] <= 1 + trouble'
    BY DEF OneRecountPerFailure
  <2>1. mrow[CompositeOf[k]].local[k] <= 1 + trouble
    BY DEF IInv, DataInv, OneRecountPerFailure
  <2>2. mrow[CompositeOf[k]].local[k] \in Nat
    BY CountsNat DEF Counts, IInv, TypeOK
  <2> QED
    BY <1>3, <2>1, <2>2
<1> QED
  BY <1>1, <1>2, <1>4, <1>5, <1>6, <1>7 DEF IInv, DataInv

(* Saying and reading.                                                      *)
LEMMA SlaveSaysOne ==
  ASSUME TypeOK, NEW s \in Slave, NEW m \in Message, SlaveSays(s, <<m>>)
  PROVE  /\ up' \in [Slave -> Seq(Message)]
         /\ \A t \in Slave \ {s} : up'[t] = up[t]
         /\ up'[s] = up[s] \/ (link[s] /\ hlp[s].pc # "closed" /\ Put(up[s], m, up'[s]))
<1>1. up[s] \in Seq(Message) /\ up[s] \o <<m>> \in Seq(Message) /\ Put(up[s], m, up[s] \o <<m>>)
  BY Puts DEF TypeOK
<1>2. CASE link[s] /\ hlp[s].pc # "closed"
  <2>1. up' = [up EXCEPT ![s] = up[s] \o <<m>>]
    BY <1>2 DEF SlaveSays
  <2> QED
    BY <1>1, <1>2, <2>1 DEF TypeOK
<1>3. CASE ~(link[s] /\ hlp[s].pc # "closed")
  BY <1>3 DEF SlaveSays, TypeOK
<1> QED
  BY <1>2, <1>3

(* The slave sends two lines. *)
LEMMA SlaveSaysTwo ==
  ASSUME TypeOK, NEW s \in Slave, NEW m \in Message, NEW l \in Message, SlaveSays(s, <<m, l>>)
  PROVE  /\ up' \in [Slave -> Seq(Message)]
         /\ \A t \in Slave \ {s} : up'[t] = up[t]
         /\ up'[s] = up[s] \/ PutTwo(up[s], m, l, up'[s])
<1>1. up[s] \in Seq(Message) /\ up[s] \o <<m, l>> \in Seq(Message) /\ PutTwo(up[s], m, l, up[s] \o <<m, l>>)
  BY PutsTwo DEF TypeOK
<1>2. CASE link[s] /\ hlp[s].pc # "closed"
  <2>1. up' = [up EXCEPT ![s] = up[s] \o <<m, l>>]
    BY <1>2 DEF SlaveSays
  <2> QED
    BY <1>1, <2>1 DEF TypeOK
<1>3. CASE ~(link[s] /\ hlp[s].pc # "closed")
  BY <1>3 DEF SlaveSays, TypeOK
<1> QED
  BY <1>2, <1>3

(* The slave sends nothing. *)
LEMMA SlaveSaysNothing ==
  ASSUME TypeOK, NEW s \in Slave, SlaveSays(s, <<>>)
  PROVE  up' = up
<1>1. up[s] \in Seq(Message)
  BY DEF TypeOK
<1>2. up[s] \o <<>> = up[s]
  BY <1>1
<1>3. CASE link[s] /\ hlp[s].pc # "closed"
  <2>1. up' = [up EXCEPT ![s] = up[s]]
    BY <1>2, <1>3 DEF SlaveSays
  <2> QED
    BY <2>1 DEF TypeOK
<1> QED
  BY <1>3 DEF SlaveSays

(* The master sends a line. *)
LEMMA MasterSaysOne ==
  ASSUME TypeOK, NEW s \in Slave, NEW m \in Message, MasterSays(s, <<m>>)
  PROVE  /\ down' \in [Slave -> Seq(Message)]
         /\ \A t \in Slave \ {s} : down'[t] = down[t]
         /\ Keeps(down[s], down'[s])
         /\ \/ link[s] /\ ses[s].pc # "closed" /\ Put(down[s], m, down'[s])
            \/ (~link[s] \/ ses[s].pc = "closed") /\ down'[s] = down[s]
<1>1. /\ down[s] \in Seq(Message) /\ down[s] \o <<m>> \in Seq(Message)
      /\ Put(down[s], m, down[s] \o <<m>>) /\ Keeps(down[s], down[s] \o <<m>>)
  BY Puts DEF TypeOK
<1>2. CASE link[s] /\ ses[s].pc # "closed"
  <2>1. down' = [down EXCEPT ![s] = down[s] \o <<m>>]
    BY <1>2 DEF MasterSays
  <2> QED
    BY <1>1, <1>2, <2>1 DEF TypeOK
<1>3. CASE ~(link[s] /\ ses[s].pc # "closed")
  BY <1>3 DEF MasterSays, TypeOK, Keeps
<1> QED
  BY <1>2, <1>3

(* The master sends two lines. *)
LEMMA MasterSaysTwo ==
  ASSUME TypeOK, NEW s \in Slave, NEW m \in Message, NEW l \in Message, MasterSays(s, <<m, l>>)
  PROVE  /\ down' \in [Slave -> Seq(Message)]
         /\ \A t \in Slave \ {s} : down'[t] = down[t]
         /\ Keeps(down[s], down'[s])
         /\ down'[s] = down[s] \/ PutTwo(down[s], m, l, down'[s])
<1>1. /\ down[s] \in Seq(Message) /\ down[s] \o <<m, l>> \in Seq(Message)
      /\ PutTwo(down[s], m, l, down[s] \o <<m, l>>) /\ Keeps(down[s], down[s] \o <<m, l>>)
  BY PutsTwo DEF TypeOK
<1>2. CASE link[s] /\ ses[s].pc # "closed"
  <2>1. down' = [down EXCEPT ![s] = down[s] \o <<m, l>>]
    BY <1>2 DEF MasterSays
  <2> QED
    BY <1>1, <2>1 DEF TypeOK
<1>3. CASE ~(link[s] /\ ses[s].pc # "closed")
  BY <1>3 DEF MasterSays, TypeOK, Keeps
<1> QED
  BY <1>2, <1>3

(* The master sends nothing. *)
LEMMA MasterSaysNothing ==
  ASSUME TypeOK, NEW s \in Slave, MasterSays(s, <<>>)
  PROVE  down' = down
<1>1. down[s] \in Seq(Message)
  BY DEF TypeOK
<1>2. down[s] \o <<>> = down[s]
  BY <1>1
<1>3. CASE link[s] /\ ses[s].pc # "closed"
  <2>1. down' = [down EXCEPT ![s] = down[s]]
    BY <1>2, <1>3 DEF MasterSays
  <2> QED
    BY <2>1 DEF TypeOK
<1> QED
  BY <1>3 DEF MasterSays

(* The slave reads a line. *)
LEMMA SlaveReadsOne ==
  ASSUME TypeOK, NEW s \in Slave, SlaveReads(s)
  PROVE  /\ down' \in [Slave -> Seq(Message)]
         /\ \A t \in Slave \ {s} : down'[t] = down[t]
         /\ ToSlave(s) \in Message /\ Took(down[s], ToSlave(s), down'[s])
<1>1. /\ Tail(down[s]) \in Seq(Message) /\ Took(down[s], Head(down[s]), Tail(down[s]))
      /\ Head(down[s]) \in Message
  BY Takes DEF TypeOK, SlaveReads
<1>2. down' = [down EXCEPT ![s] = Tail(down[s])]
  BY DEF SlaveReads
<1> QED
  BY <1>1, <1>2 DEF TypeOK, ToSlave

(* The master reads a line. *)
LEMMA MasterReadsOne ==
  ASSUME TypeOK, NEW s \in Slave, MasterReads(s)
  PROVE  /\ up' \in [Slave -> Seq(Message)]
         /\ \A t \in Slave \ {s} : up'[t] = up[t]
         /\ ToMaster(s) \in Message /\ Took(up[s], ToMaster(s), up'[s])
<1>1. /\ Tail(up[s]) \in Seq(Message) /\ Took(up[s], Head(up[s]), Tail(up[s]))
      /\ Head(up[s]) \in Message
  BY Takes DEF TypeOK, MasterReads
<1>2. up' = [up EXCEPT ![s] = Tail(up[s])]
  BY DEF MasterReads
<1> QED
  BY <1>1, <1>2 DEF TypeOK, ToMaster

(* A function with one value replaced. *)
LEMMA Updated ==
  ASSUME NEW S, NEW T, NEW f \in [S -> T], NEW s \in S, NEW y \in T, NEW g, g = [f EXCEPT ![s] = y]
  PROVE  g \in [S -> T] /\ g[s] = y /\ \A t \in S \ {s} : g[t] = f[t]
  OBVIOUS

(* A step of the slave's side that writes nothing. *)
LEMMA QuietSlave ==
  ASSUME IInv, NEW s \in Slave, NEW y \in Session, ses' = [ses EXCEPT ![s] = y],
         up' \in [Slave -> Seq(Message)], down' \in [Slave -> Seq(Message)],
         \A t \in Slave \ {s} : up'[t] = up[t], \A t \in Slave \ {s} : down'[t] = down[t],
         trouble' \in 0..MaxTrouble, trouble <= trouble',
         SessionInv(y, hlp[s], up'[s], down'[s]),
         DataOf(y, hlp[s], up'[s], down'[s], srow[s], mrow, trouble', link[s]),
         UNCHANGED <<mrow, sync, srow, done, hlp, link>>
  PROVE  IInv'
<1>1. ses' \in [Slave -> Session] /\ ses'[s] = y /\ \A t \in Slave \ {s} : ses'[t] = ses[t]
  BY Updated DEF IInv, TypeOK
<1>2. /\ hlp' \in [Slave -> Helper] /\ link' \in [Slave -> BOOLEAN] /\ hlp' = hlp /\ link' = link
      /\ sync' \in [Composite -> [Slave -> Flag]]
  BY DEF IInv, TypeOK
<1>3. hlp[s].pend # None => \A t \in Slave \ {s} : hlp[t].pend # None => hlp[t].comp # hlp[s].comp
  BY DEF IInv, DataInv, Exclusive
<1>4. SessionInv(ses'[s], hlp'[s], up'[s], down'[s])
  BY <1>1, <1>2
<1>5. DataOf(ses'[s], hlp'[s], up'[s], down'[s], srow[s], mrow, trouble', link'[s])
  BY <1>1, <1>2
<1>6. \A t \in Slave \ {s} : /\ ses'[t] = ses[t] /\ hlp'[t] = hlp[t] /\ up'[t] = up[t]
                             /\ down'[t] = down[t] /\ link'[t] = link[t]
  BY <1>1, <1>2
<1>7. hlp'[s].pend # None => \A t \in Slave \ {s} : hlp[t].pend # None => hlp[t].comp # hlp'[s].comp
  BY <1>2, <1>3
<1> QED
  BY <1>1, <1>2, <1>4, <1>5, <1>6, <1>7, Quiet

(* A step of the master's side that writes nothing. *)
LEMMA QuietMaster ==
  ASSUME IInv, NEW s \in Slave, NEW g \in Helper, hlp' = [hlp EXCEPT ![s] = g],
         up' \in [Slave -> Seq(Message)], down' \in [Slave -> Seq(Message)],
         \A t \in Slave \ {s} : up'[t] = up[t], \A t \in Slave \ {s} : down'[t] = down[t],
         trouble' \in 0..MaxTrouble, trouble <= trouble',
         SessionInv(ses[s], g, up'[s], down'[s]),
         DataOf(ses[s], g, up'[s], down'[s], srow[s], mrow, trouble', link[s]),
         g.pend # None => \A t \in Slave \ {s} : hlp[t].pend # None => hlp[t].comp # g.comp,
         sync' \in [Composite -> [Slave -> Flag]], UNCHANGED <<mrow, srow, done, ses, link>>
  PROVE  IInv'
<1>1. hlp' \in [Slave -> Helper] /\ hlp'[s] = g /\ \A t \in Slave \ {s} : hlp'[t] = hlp[t]
  BY Updated DEF IInv, TypeOK
<1>2. ses' \in [Slave -> Session] /\ link' \in [Slave -> BOOLEAN] /\ ses' = ses /\ link' = link
  BY DEF IInv, TypeOK
<1>4. SessionInv(ses'[s], hlp'[s], up'[s], down'[s])
  BY <1>1, <1>2
<1>5. DataOf(ses'[s], hlp'[s], up'[s], down'[s], srow[s], mrow, trouble', link'[s])
  BY <1>1, <1>2
<1>6. \A t \in Slave \ {s} : /\ ses'[t] = ses[t] /\ hlp'[t] = hlp[t] /\ up'[t] = up[t]
                             /\ down'[t] = down[t] /\ link'[t] = link[t]
  BY <1>1, <1>2
<1>7. hlp'[s].pend # None => \A t \in Slave \ {s} : hlp[t].pend # None => hlp[t].comp # hlp'[s].comp
  BY <1>1
<1> QED
  BY <1>1, <1>2, <1>4, <1>5, <1>6, <1>7, Quiet

(* What a step makes of the slave's side.                                   *)
Begun(x, c) == [x EXCEPT !.pc = "found", !.comp = c, !.todo = x.todo \ {c}]

LEMMA BegunFields ==
  ASSUME NEW x \in Session, NEW c \in Composite
  PROVE  /\ Begun(x, c) \in Session /\ Begun(x, c).pc = "found" /\ Begun(x, c).comp = c
         /\ Begun(x, c).todo = x.todo \ {c} /\ Begun(x, c).snap = x.snap /\ Begun(x, c).pend = x.pend
  BY DEF Session, SlaveWaits, Begun

(* BeginComposite keeps the inductive invariant. *)
LEMMA BeginCompositeStep ==
  ASSUME IInv, NEW s \in Slave, BeginComposite(s)
  PROVE  IInv'
<1>1. /\ ses[s] \in Session /\ hlp[s] \in Helper /\ up[s] \in Seq(Message) /\ down[s] \in Seq(Message)
      /\ srow[s] \in [Composite -> SlaveRow] /\ mrow \in [Composite -> MasterRow] /\ trouble \in Nat
      /\ SessionInv(ses[s], hlp[s], up[s], down[s])
      /\ DataOf(ses[s], hlp[s], up[s], down[s], srow[s], mrow, trouble, link[s])
  BY Here
<1>2. PICK c \in Composite : c = First(ses[s].todo) /\ c \in ses[s].todo
  BY <1>1, FirstMember DEF BeginComposite, Session
<1>3. ses' = [ses EXCEPT ![s] = Begun(ses[s], c)]
  <2>1. ses' = [ses EXCEPT ![s] = Begun(ses[s], First(ses[s].todo))]
    BY DEF BeginComposite, Begun
  <2> QED
    BY <1>2, <2>1
<1>4. PICK y \in Session : /\ ses' = [ses EXCEPT ![s] = y]
                           /\ y.pc = "found" /\ y.comp = c /\ y.todo = ses[s].todo \ {c}
                           /\ y.snap = ses[s].snap /\ y.pend = ses[s].pend
  <2>1. Begun(ses[s], c) \in Session
    BY <1>1, BegunFields
  <2> QED
    BY <1>1, <1>3, <2>1, BegunFields
<1>5. UNCHANGED <<srow, mrow, sync, hlp, link, done, trouble, down>> /\ ses[s].pc = "next"
  BY DEF BeginComposite, SlaveDB
<1>6. /\ up' \in [Slave -> Seq(Message)] /\ down' \in [Slave -> Seq(Message)]
      /\ \A t \in Slave \ {s} : up'[t] = up[t] /\ down'[t] = down[t]
      /\ up'[s] = up[s] \/ (link[s] /\ hlp[s].pc # "closed" /\ Put(up[s], About("Begin", c), up'[s]))
  BY <1>2, <1>5, SlaveSaysOne, Lines DEF IInv, TypeOK, BeginComposite
<1>7. SessionInv(y, hlp[s], up'[s], down'[s])
  BY <1>1, <1>2, <1>4, <1>5, <1>6, LinesBegin
<1>8. DataOf(y, hlp[s], up'[s], down'[s], srow[s], mrow, trouble', link[s])
  <2>1. DataOf(y, hlp[s], up'[s], down[s], srow[s], mrow, trouble, link[s])
    BY <1>1, <1>2, <1>4, <1>5, <1>6, DataBegin, ZenonT(60)
  <2> QED
    BY <1>5, <2>1
<1>9. trouble' \in 0..MaxTrouble /\ trouble <= trouble'
  BY <1>1, <1>5 DEF IInv, TypeOK
<1> QED
  BY <1>4, <1>5, <1>6, <1>7, <1>8, <1>9, QuietSlave

Left(x, p) == [SlaveRollback(x) EXCEPT !.pc = p, !.comp = None]

LEMMA LeftFields ==
  ASSUME NEW x \in Session, NEW p \in {"start2", "receive2"}
  PROVE  /\ Left(x, p) \in Session
         /\ Left(x, p).pc = p
         /\ Left(x, p).comp = None
         /\ Left(x, p).todo = x.todo
         /\ Left(x, p).snap = None
         /\ Left(x, p).pend = None
  BY DEF Left, SlaveRollback, Session, SlaveWaits

Back(x) == [SlaveRollback(x) EXCEPT !.pc = "next"]

LEMMA BackFields ==
  ASSUME NEW x \in Session
  PROVE  /\ Back(x) \in Session
         /\ Back(x).pc = "next"
         /\ Back(x).comp = x.comp
         /\ Back(x).todo = x.todo
         /\ Back(x).snap = None
         /\ Back(x).pend = None
  BY DEF Back, SlaveRollback, Session, SlaveWaits

Gone == [NoSession EXCEPT !.pc = "closed"]

LEMMA GoneFields ==
  /\ Gone \in Session
  /\ Gone.pc = "closed"
  /\ Gone.comp = None
  /\ Gone.todo = {}
  /\ Gone.snap = None
  /\ Gone.pend = None
  BY NoneAssumption DEF Gone, NoSession, Session, SlaveWaits

Worked(x, snap, row) == [x EXCEPT !.pc = "answer", !.snap = snap, !.pend = row]

LEMMA WorkedFields ==
  ASSUME NEW x \in Session, NEW snap \in [Composite -> SlaveRow], NEW row \in SlaveRow \cup {None}
  PROVE  /\ Worked(x, snap, row) \in Session
         /\ Worked(x, snap, row).pc = "answer"
         /\ Worked(x, snap, row).comp = x.comp
         /\ Worked(x, snap, row).todo = x.todo
         /\ Worked(x, snap, row).snap = snap
         /\ Worked(x, snap, row).pend = row
  BY DEF Worked, Session, SlaveWaits

Emptied(x, row) == [x EXCEPT !.pc = "content", !.pend = row]

LEMMA EmptiedFields ==
  ASSUME NEW x \in Session, NEW row \in SlaveRow
  PROVE  /\ Emptied(x, row) \in Session
         /\ Emptied(x, row).pc = "content"
         /\ Emptied(x, row).comp = x.comp
         /\ Emptied(x, row).todo = x.todo
         /\ Emptied(x, row).snap = x.snap
         /\ Emptied(x, row).pend = row
  BY DEF Emptied, Session, SlaveWaits

Filled(x, local) == [x EXCEPT !.pc = "answer", !.pend.local = local]

LEMMA FilledFields ==
  ASSUME NEW x \in Session, x.pend \in SlaveRow, NEW local \in Tally
  PROVE  /\ Filled(x, local) \in Session
         /\ Filled(x, local).pc = "answer"
         /\ Filled(x, local).comp = x.comp
         /\ Filled(x, local).todo = x.todo
         /\ Filled(x, local).snap = x.snap
         /\ Filled(x, local).pend \in SlaveRow
         /\ Filled(x, local).pend.since = x.pend.since
         /\ Filled(x, local).pend.local = local
  BY DEF Filled, Session, SlaveWaits, SlaveRow

Started(x) == [x EXCEPT !.pc = "receive2"]

LEMMA StartedFields ==
  ASSUME NEW x \in Session
  PROVE  /\ Started(x) \in Session
         /\ Started(x).pc = "receive2"
         /\ Started(x).comp = x.comp
         /\ Started(x).todo = x.todo
         /\ Started(x).snap = x.snap
         /\ Started(x).pend = x.pend
  BY DEF Started, Session, SlaveWaits

Received(x, c, snap, row) == [x EXCEPT !.pc = "content2", !.comp = c, !.snap = snap, !.pend = row]

LEMMA ReceivedFields ==
  ASSUME NEW x \in Session, NEW c \in Composite, NEW snap \in [Composite -> SlaveRow], NEW row \in SlaveRow
  PROVE  /\ Received(x, c, snap, row) \in Session
         /\ Received(x, c, snap, row).pc = "content2"
         /\ Received(x, c, snap, row).comp = c
         /\ Received(x, c, snap, row).todo = x.todo
         /\ Received(x, c, snap, row).snap = snap
         /\ Received(x, c, snap, row).pend = row
  BY DEF Received, Session, SlaveWaits

(* The slave's side ends: the lines it still sends, if any, are the last.   *)
LEMMA Leaving ==
  ASSUME IInv, NEW s \in Slave, ses[s].pc \notin {"idle", "closed"},
         SlaveCloses(s, <<>>) \/ (SlaveCloses(s, <<SyncError, NoMore>>) /\ ses[s].pc # "start2"),
         down' \in [Slave -> Seq(Message)], \A t \in Slave \ {s} : down'[t] = down[t],
         \/ down'[s] = down[s] /\ down[s] = <<>>
         \/ \E m \in Message : Took(down[s], m, down'[s]) /\ ses[s].pc # "answer",
         trouble' \in 0..MaxTrouble,
         Excused(ses[s], hlp[s], up[s], trouble, trouble', link[s]),
         UNCHANGED <<mrow, sync, srow, done, hlp, link>>
  PROVE  IInv'
<1>1. /\ ses[s] \in Session /\ hlp[s] \in Helper /\ up[s] \in Seq(Message) /\ down[s] \in Seq(Message)
      /\ srow[s] \in [Composite -> SlaveRow] /\ mrow \in [Composite -> MasterRow] /\ trouble \in Nat
      /\ SessionInv(ses[s], hlp[s], up[s], down[s])
      /\ DataOf(ses[s], hlp[s], up[s], down[s], srow[s], mrow, trouble, link[s])
      /\ \A c \in Composite : \A k \in srow[s][c].since : CompositeOf[k] = c /\ ServerOf[k] = s /\ k \in done
  BY Here
<1>2. ses' = [ses EXCEPT ![s] = Gone]
  BY DEF SlaveCloses, Gone
<1>3. PICK y \in Session : /\ ses' = [ses EXCEPT ![s] = y]
                           /\ y.pc = "closed" /\ y.comp = None /\ y.todo = {}
                           /\ y.snap = None /\ y.pend = None
  BY <1>2, GoneFields
<1>4. trouble' \in Nat /\ trouble <= trouble' /\ down'[s] \in Seq(Message)
  BY <1>1, SyncAssumption DEF Excused
<1>5. CASE SlaveCloses(s, <<>>)
  <2>1. up' = up
    BY <1>5, SlaveSaysNothing DEF IInv, SlaveCloses
  <2>2. SessionInv(y, hlp[s], up[s], down'[s])
    BY <1>1, <1>3, <1>4, LinesLeave
  <2>3. DataOf(y, hlp[s], up[s], down'[s], srow[s], mrow, trouble', link[s])
    BY <1>1, <1>3, <1>4, DataLeave
  <2> QED
    BY <1>3, <1>4, <2>1, <2>2, <2>3, QuietSlave DEF IInv, TypeOK
<1>6. CASE SlaveCloses(s, <<SyncError, NoMore>>) /\ ses[s].pc # "start2"
  <2>1. /\ up' \in [Slave -> Seq(Message)] /\ \A t \in Slave \ {s} : up'[t] = up[t]
        /\ up'[s] = up[s] \/ PutTwo(up[s], SyncError, NoMore, up'[s])
    BY <1>6, SlaveSaysTwo, Lines DEF IInv, SlaveCloses
  <2>2. up'[s] \in Seq(Message)
    BY <2>1
  <2>3. CASE up'[s] = up[s]
    <3>1. SessionInv(y, hlp[s], up'[s], down'[s])
      BY <1>1, <1>3, <1>4, <2>3, LinesLeave
    <3>2. DataOf(y, hlp[s], up'[s], down'[s], srow[s], mrow, trouble', link[s])
      BY <1>1, <1>3, <1>4, <2>3, DataLeave
    <3> QED
      BY <1>3, <1>4, <2>1, <3>1, <3>2, QuietSlave
  <2>4. CASE PutTwo(up[s], SyncError, NoMore, up'[s])
    <3>1. SessionInv(y, hlp[s], up'[s], down'[s])
      BY <1>1, <1>3, <1>4, <1>6, <2>2, <2>4, LinesClose
    <3>2. DataOf(y, hlp[s], up'[s], down'[s], srow[s], mrow, trouble', link[s])
      BY <1>1, <1>3, <1>4, <1>6, <2>2, <2>4, DataClose
    <3> QED
      BY <1>3, <1>4, <2>1, <3>1, <3>2, QuietSlave
  <2> QED
    BY <2>1, <2>3, <2>4
<1> QED
  BY <1>5, <1>6

(* EndPhase1 keeps the inductive invariant. *)
LEMMA EndPhase1Step ==
  ASSUME IInv, NEW s \in Slave, EndPhase1(s)
  PROVE  IInv'
<1>1. /\ ses[s] \in Session /\ hlp[s] \in Helper /\ up[s] \in Seq(Message) /\ down[s] \in Seq(Message)
      /\ srow[s] \in [Composite -> SlaveRow] /\ mrow \in [Composite -> MasterRow] /\ trouble \in Nat
      /\ SessionInv(ses[s], hlp[s], up[s], down[s])
      /\ DataOf(ses[s], hlp[s], up[s], down[s], srow[s], mrow, trouble, link[s])
      /\ \A c \in Composite : \A k \in srow[s][c].since : CompositeOf[k] = c /\ ServerOf[k] = s /\ k \in done
  BY Here
<1>2. ses' = [ses EXCEPT ![s] = Left(ses[s], "start2")]
  BY DEF EndPhase1, Left
<1>3. PICK y \in Session : /\ ses' = [ses EXCEPT ![s] = y]
                           /\ y.pc = "start2" /\ y.comp = None /\ y.todo = ses[s].todo
                           /\ y.snap = None /\ y.pend = None
  BY <1>1, <1>2, LeftFields
<1>5. UNCHANGED <<srow, mrow, sync, hlp, link, done, trouble, down>> /\ ses[s].pc = "next"
  BY DEF EndPhase1, SlaveDB
<1>6. /\ up' \in [Slave -> Seq(Message)] /\ \A t \in Slave \ {s} : up'[t] = up[t]
      /\ up'[s] = up[s] \/ Put(up[s], NoMore, up'[s])
  BY SlaveSaysOne, Lines DEF IInv, EndPhase1
<1>7. SessionInv(y, hlp[s], up'[s], down[s]) /\ DataOf(y, hlp[s], up'[s], down[s], srow[s], mrow, trouble, link[s])
  BY <1>1, <1>3, <1>5, <1>6, LinesEnd1, DataEnd1
<1>8. trouble' \in 0..MaxTrouble /\ trouble <= trouble'
  BY <1>1, <1>5 DEF IInv, TypeOK
<1> QED
  BY <1>3, <1>5, <1>6, <1>7, <1>8, QuietSlave DEF IInv, TypeOK

(* CompositeRefused keeps the inductive invariant. *)
LEMMA CompositeRefusedStep ==
  ASSUME IInv, NEW s \in Slave, CompositeRefused(s)
  PROVE  IInv'
<1>1. /\ ses[s] \in Session /\ hlp[s] \in Helper /\ up[s] \in Seq(Message) /\ down[s] \in Seq(Message)
      /\ srow[s] \in [Composite -> SlaveRow] /\ mrow \in [Composite -> MasterRow] /\ trouble \in Nat
      /\ SessionInv(ses[s], hlp[s], up[s], down[s])
      /\ DataOf(ses[s], hlp[s], up[s], down[s], srow[s], mrow, trouble, link[s])
      /\ \A c \in Composite : \A k \in srow[s][c].since : CompositeOf[k] = c /\ ServerOf[k] = s /\ k \in done
  BY Here
<1>2. ses' = [ses EXCEPT ![s] = Back(ses[s])]
  BY DEF CompositeRefused, Back
<1>3. PICK y \in Session : /\ ses' = [ses EXCEPT ![s] = y]
                           /\ y.pc = "next" /\ y.comp = ses[s].comp /\ y.todo = ses[s].todo
                           /\ y.snap = None /\ y.pend = None
  BY <1>1, <1>2, BackFields
<1>5. UNCHANGED <<srow, mrow, sync, hlp, link, done, trouble, up>>
  BY DEF CompositeRefused, SlaveDB
<1>6. /\ down' \in [Slave -> Seq(Message)] /\ \A t \in Slave \ {s} : down'[t] = down[t]
      /\ ToSlave(s) \in Message /\ Took(down[s], ToSlave(s), down'[s]) /\ down'[s] \in Seq(Message)
  BY SlaveReadsOne DEF IInv, CompositeRefused
<1>7. SessionInv(y, hlp[s], up[s], down'[s]) /\ DataOf(y, hlp[s], up[s], down'[s], srow[s], mrow, trouble, link[s])
  <2>1. Refuses(ses[s], ToSlave(s))
    BY DEF CompositeRefused, Refuses
  <2> QED
    BY <1>1, <1>3, <1>6, <2>1, LinesRefused, DataRefused
<1>8. trouble' \in 0..MaxTrouble /\ trouble <= trouble'
  BY <1>1, <1>5 DEF IInv, TypeOK
<1> QED
  BY <1>3, <1>5, <1>6, <1>7, <1>8, QuietSlave DEF IInv, TypeOK


(* StartSync.                                                               *)
Session0(snap, todo) == [NoSession EXCEPT !.pc = "next", !.snap = snap, !.todo = todo]
Helper0 == [NoHelper EXCEPT !.pc = "start"]

LEMMA Session0Fields ==
  ASSUME NEW snap \in [Composite -> SlaveRow], NEW todo \in SUBSET Composite
  PROVE  /\ Session0(snap, todo) \in Session /\ Session0(snap, todo).pc = "next"
         /\ Session0(snap, todo).snap = snap /\ Session0(snap, todo).pend = None
  BY DEF Session0, NoSession, Session, SlaveWaits

LEMMA Helper0Fields ==
  Helper0 \in Helper /\ Helper0.pc = "start" /\ Helper0.snap = None /\ Helper0.pend = None
  BY DEF Helper0, NoHelper, Helper, MasterWaits

(* StartSync keeps the inductive invariant. *)
LEMMA StartSyncStep ==
  ASSUME IInv, NEW s \in Slave, StartSync(s)
  PROVE  IInv'
<1>1. /\ ses[s] \in Session /\ hlp[s] \in Helper /\ up[s] \in Seq(Message) /\ down[s] \in Seq(Message)
      /\ srow[s] \in [Composite -> SlaveRow] /\ mrow \in [Composite -> MasterRow] /\ trouble \in Nat
      /\ SessionInv(ses[s], hlp[s], up[s], down[s])
      /\ DataOf(ses[s], hlp[s], up[s], down[s], srow[s], mrow, trouble, link[s])
      /\ \A c \in Composite : \A k \in srow[s][c].since : CompositeOf[k] = c /\ ServerOf[k] = s /\ k \in done
  BY Here
<1>2. PICK todo \in SUBSET Composite : ses' = [ses EXCEPT ![s] = Session0(srow[s], todo)]
  <2>1. {c \in Composite : srow[s][c].exists /\ srow[s][c].toMaster} \in SUBSET Composite
    OBVIOUS
  <2>2. ses' = [ses EXCEPT ![s] = Session0(srow[s], {c \in Composite : srow[s][c].exists /\ srow[s][c].toMaster})]
    BY DEF StartSync, Session0
  <2> QED
    BY <2>1, <2>2
<1>3. hlp' = [hlp EXCEPT ![s] = Helper0]
  BY DEF StartSync, Helper0
<1>4. PICK y \in Session : ses' = [ses EXCEPT ![s] = y] /\ y.pc = "next" /\ y.snap = srow[s] /\ y.pend = None
  <2>1. Session0(srow[s], todo) \in Session
    BY <1>1, Session0Fields
  <2> QED
    BY <1>1, <1>2, <2>1, Session0Fields, ZenonT(60)
<1>5. PICK g \in Helper : hlp' = [hlp EXCEPT ![s] = g] /\ g.pc = "start" /\ g.snap = None /\ g.pend = None
  BY <1>3, Helper0Fields
<1>6. ses' \in [Slave -> Session] /\ ses'[s] = y /\ \A t \in Slave \ {s} : ses'[t] = ses[t]
  BY <1>4, Updated DEF IInv, TypeOK
<1>7. hlp' \in [Slave -> Helper] /\ hlp'[s] = g /\ \A t \in Slave \ {s} : hlp'[t] = hlp[t]
  BY <1>5, Updated DEF IInv, TypeOK
<1>8. link' \in [Slave -> BOOLEAN] /\ link'[s] = TRUE /\ \A t \in Slave \ {s} : link'[t] = link[t]
  BY DEF IInv, TypeOK, StartSync
<1>9. UNCHANGED <<mrow, sync, srow, up, down, done, trouble>> /\ ses[s].pc = "idle"
  BY DEF StartSync
<1>10. /\ up' \in [Slave -> Seq(Message)] /\ down' \in [Slave -> Seq(Message)] /\ trouble' \in 0..MaxTrouble /\ trouble <= trouble'
       /\ sync' \in [Composite -> [Slave -> Flag]]
  BY <1>1, <1>9 DEF IInv, TypeOK
<1>11. SessionInv(y, g, up[s], down[s])
  BY <1>1, <1>4, <1>5, <1>9, LinesFirst
<1>12. DataOf(y, g, up[s], down[s], srow[s], mrow, trouble, TRUE)
  BY <1>1, <1>4, <1>5, <1>9, DataFirst
<1>13. SessionInv(ses'[s], hlp'[s], up'[s], down'[s])
  BY <1>6, <1>7, <1>9, <1>11
<1>14. DataOf(ses'[s], hlp'[s], up'[s], down'[s], srow[s], mrow, trouble', link'[s])
  BY <1>6, <1>7, <1>8, <1>9, <1>12
<1>15. \A t \in Slave \ {s} : /\ ses'[t] = ses[t] /\ hlp'[t] = hlp[t] /\ up'[t] = up[t]
                              /\ down'[t] = down[t] /\ link'[t] = link[t]
  BY <1>6, <1>7, <1>8, <1>9
<1> QED
  BY <1>5, <1>6, <1>7, <1>8, <1>9, <1>10, <1>13, <1>14, <1>15, Quiet, ZenonT(60)

(* A composite starts with no curves. *)
LEMMA NoCurvesTally ==
  NoCurves \in Tally
  BY SyncAssumption DEF NoCurves, Tally

(* An emptied row is a row. *)
LEMMA Rows ==
  ASSUME NEW row \in SlaveRow
  PROVE  /\ [row EXCEPT !.since = {}] \in SlaveRow /\ [row EXCEPT !.since = {}].since = {}
         /\ [row EXCEPT !.local = NoCurves, !.since = {}] \in SlaveRow
         /\ [row EXCEPT !.local = NoCurves, !.since = {}].since = {}
  BY NoCurvesTally DEF SlaveRow

(* SendWork keeps the inductive invariant. *)
LEMMA SendWorkStep ==
  ASSUME IInv, NEW s \in Slave, SendWork(s)
  PROVE  IInv'
<1>1. /\ ses[s] \in Session /\ hlp[s] \in Helper /\ up[s] \in Seq(Message) /\ down[s] \in Seq(Message)
      /\ srow[s] \in [Composite -> SlaveRow] /\ mrow \in [Composite -> MasterRow] /\ trouble \in Nat
      /\ SessionInv(ses[s], hlp[s], up[s], down[s])
      /\ DataOf(ses[s], hlp[s], up[s], down[s], srow[s], mrow, trouble, link[s])
      /\ \A c \in Composite : \A k \in srow[s][c].since : CompositeOf[k] = c /\ ServerOf[k] = s /\ k \in done
  BY Here
<1>2. UNCHANGED <<srow, mrow, sync, hlp, link, done, trouble>> /\ ses[s].pc = "found"
  BY DEF SendWork, SlaveDB
<1>3. /\ down' \in [Slave -> Seq(Message)] /\ \A t \in Slave \ {s} : down'[t] = down[t]
      /\ ToSlave(s) \in Message /\ Took(down[s], ToSlave(s), down'[s]) /\ down'[s] \in Seq(Message)
  BY SlaveReadsOne DEF IInv, SendWork
<1>4. ses[s].comp \in Composite /\ Took(down[s], About("Found", ses[s].comp), down'[s])
  <2>1. ses[s].comp \in Composite
    BY <1>1, <1>2 DEF SessionInv, EndsInv, Session
  <2> QED
    BY <1>3, <2>1 DEF SendWork
<1>5. PICK snap \in [Composite -> SlaveRow] :
        /\ snap = ses[s].snap \/ snap = srow[s]
        /\ snap = IF ses[s].snap = None THEN srow[s] ELSE ses[s].snap
  BY <1>1 DEF Session
<1>6. PICK sent \in SUBSET Curve : sent = snap[ses[s].comp].since
  BY <1>4 DEF SlaveRow
<1>7. PICK row \in SlaveRow \cup {None} :
        /\ row = IF sent = {} THEN None ELSE [srow[s][ses[s].comp] EXCEPT !.since = {}]
        /\ row = None <=> sent = {}
        /\ row # None => row.since = {}
  <2>1. PICK full \in SlaveRow : full = [srow[s][ses[s].comp] EXCEPT !.since = {}] /\ full.since = {}
    BY <1>1, <1>4, Rows
  <2> QED
    BY <2>1, NoneAssumption
<1>10. \/ /\ sent = {} \/ SlaveWritable(s, ses[s].comp, snap)
          /\ ses' = [ses EXCEPT ![s] = Worked(ses[s], snap, row)]
          /\ SlaveSays(s, <<[type |-> "Work", comp |-> ses[s].comp, curves |-> sent]>>)
       \/ SlaveCloses(s, <<SyncError, NoMore>>)
  BY <1>5, <1>6, <1>7 DEF SendWork, Worked
<1>11. CASE /\ sent = {} \/ SlaveWritable(s, ses[s].comp, snap)
            /\ ses' = [ses EXCEPT ![s] = Worked(ses[s], snap, row)]
            /\ SlaveSays(s, <<[type |-> "Work", comp |-> ses[s].comp, curves |-> sent]>>)
  <2>1. PICK y \in Session : /\ ses' = [ses EXCEPT ![s] = y]
                             /\ y.pc = "answer" /\ y.comp = ses[s].comp /\ y.todo = ses[s].todo
                             /\ y.snap = snap /\ y.pend = row
    <3>1. Worked(ses[s], snap, row) \in Session
      BY <1>1, WorkedFields
    <3>2. ses' = [ses EXCEPT ![s] = Worked(ses[s], snap, row)]
      BY <1>11
    <3>3. ses[s] \in Session
      BY <1>1
    <3> QED
      BY <3>1, <3>2, <3>3, WorkedFields, ZenonT(60)
  <2>2. PICK m \in Message : m = [type |-> "Work", comp |-> ses[s].comp, curves |-> sent]
    BY <1>4, Lines
  <2>3. m.type = "Work" /\ m.comp = ses[s].comp /\ m.curves = sent
    BY <2>2
  <2>4. /\ up' \in [Slave -> Seq(Message)] /\ \A t \in Slave \ {s} : up'[t] = up[t]
        /\ up'[s] = up[s] \/ (link[s] /\ hlp[s].pc # "closed" /\ Put(up[s], m, up'[s]))
    BY <1>11, <2>2, SlaveSaysOne DEF IInv
  <2>5. up'[s] \in Seq(Message) /\ y.snap # None /\ (y.pend # None => y.pend.since = {}) /\ (y.pend = None <=> m.curves = {})
    BY <1>7, <2>1, <2>3, <2>4, NoneAssumption
  <2>6. Postgres /\ m.curves # {} => snap[ses[s].comp] = srow[s][ses[s].comp]
    BY <1>11, <2>3 DEF SlaveWritable
  <2>7. \A k \in srow[s][ses[s].comp].since : CompositeOf[k] = ses[s].comp
    BY <1>1, <1>4
  <2>8. up'[s] = up[s] \/ Put(up[s], m, up'[s])
    BY <2>4
  <2>13. /\ ses[s] \in Session /\ hlp[s] \in Helper /\ up[s] \in Seq(Message) /\ down[s] \in Seq(Message)
         /\ up'[s] \in Seq(Message) /\ down'[s] \in Seq(Message) /\ SessionInv(ses[s], hlp[s], up[s], down[s])
    BY <1>1, <1>3, <2>5
  <2>14. /\ srow[s] \in [Composite -> SlaveRow] /\ mrow \in [Composite -> MasterRow] /\ trouble \in Nat
         /\ DataOf(ses[s], hlp[s], up[s], down[s], srow[s], mrow, trouble, link[s])
    BY <1>1
  <2>15. /\ ses[s].pc = "found" /\ m.type = "Work" /\ m.comp = ses[s].comp
         /\ Took(down[s], About("Found", ses[s].comp), down'[s])
         /\ y.pc = "answer" /\ y.comp = ses[s].comp /\ y.todo = ses[s].todo /\ y.snap # None
         /\ y.pend # None => y.pend.since = {}
    BY <1>2, <1>4, <2>1, <2>3, <2>5
  <2>9. SessionInv(y, hlp[s], up'[s], down'[s])
    BY <2>8, <2>13, <2>15, LinesWork
  <2>10. /\ m.curves = snap[ses[s].comp].since /\ y.snap = snap /\ (y.pend = None <=> m.curves = {})
         /\ snap = ses[s].snap \/ snap = srow[s]
    BY <1>5, <1>6, <2>1, <2>3, <2>5
  <2>16. up'[s] = up[s] \/ (link[s] /\ hlp[s].pc # "closed" /\ Put(up[s], m, up'[s]))
    BY <2>4
  <2>11. DataOf(y, hlp[s], up'[s], down'[s], srow[s], mrow, trouble, link[s])
    <3>1. PICK x \in Session, h \in Helper, u \in Seq(Message), d \in Seq(Message), v \in Seq(Message), e \in Seq(Message) :
            x = ses[s] /\ h = hlp[s] /\ u = up[s] /\ d = down[s] /\ v = up'[s] /\ e = down'[s]
      BY <2>13
    <3>2. PICK r \in [Composite -> SlaveRow], m0 \in [Composite -> MasterRow], n \in Nat :
            r = srow[s] /\ m0 = mrow /\ n = trouble
      BY <2>14
    <3>3. SessionInv(x, h, u, d) /\ DataOf(x, h, u, d, r, m0, n, link[s])
      BY <2>13, <2>14, <3>1, <3>2
    <3>4. /\ x.pc = "found" /\ m.type = "Work" /\ m.comp = x.comp
          /\ Took(d, About("Found", x.comp), e)
          /\ y.pc = "answer" /\ y.comp = x.comp /\ y.todo = x.todo /\ y.snap # None
          /\ y.pend # None => y.pend.since = {}
      BY <2>15, <3>1
    <3>5. /\ m.curves = snap[x.comp].since /\ y.snap = snap /\ (y.pend = None <=> m.curves = {})
          /\ Postgres /\ m.curves # {} => snap[x.comp] = r[x.comp]
          /\ \A k \in r[x.comp].since : CompositeOf[k] = x.comp
      BY <2>6, <2>7, <2>10, <3>1, <3>2
    <3>6. v = u \/ (link[s] /\ h.pc # "closed" /\ Put(u, m, v))
      BY <2>16, <3>1
    <3>7. snap = x.snap \/ snap = r
      BY <2>10, <3>1, <3>2
    <3>8. DataOf(y, h, v, e, r, m0, n, link[s])
      <4>1. CASE v = u
        <5>1. CASE snap = x.snap
          BY ONLY <3>3, <3>4, <3>5, <4>1, <5>1, y \in Session, m \in Message, snap \in [Composite -> SlaveRow], DataWork, ZenonT(60)
        <5>2. CASE snap = r
          BY ONLY <3>3, <3>4, <3>5, <4>1, <5>2, y \in Session, m \in Message, snap \in [Composite -> SlaveRow], DataWork, ZenonT(60)
        <5> QED
          BY <3>7, <5>1, <5>2
      <4>2. CASE link[s] /\ h.pc # "closed" /\ Put(u, m, v)
        <5>1. CASE snap = x.snap
          BY ONLY <3>3, <3>4, <3>5, <4>2, <5>1, y \in Session, m \in Message, snap \in [Composite -> SlaveRow], DataWork, ZenonT(60)
        <5>2. CASE snap = r
          BY ONLY <3>3, <3>4, <3>5, <4>2, <5>2, y \in Session, m \in Message, snap \in [Composite -> SlaveRow], DataWork, ZenonT(60)
        <5> QED
          BY <3>7, <5>1, <5>2
      <4> QED
        BY <3>6, <4>1, <4>2
    <3> QED
      BY <3>1, <3>2, <3>8
  <2>12. trouble' \in 0..MaxTrouble /\ trouble <= trouble'
    BY <1>1, <1>2 DEF IInv, TypeOK
  <2> QED
    BY <1>2, <1>3, <2>1, <2>4, <2>9, <2>11, <2>12, QuietSlave
<1>12. CASE SlaveCloses(s, <<SyncError, NoMore>>)
  <2>1. Excused(ses[s], hlp[s], up[s], trouble, trouble', link[s])
    BY <1>2 DEF Excused
  <2>2. trouble' \in 0..MaxTrouble
    BY <1>2 DEF IInv, TypeOK
  <2>3. \E m \in Message : Took(down[s], m, down'[s]) /\ ses[s].pc # "answer"
    BY <1>2, <1>3
  <2> QED
    BY <1>2, <1>3, <1>12, <2>1, <2>2, <2>3, Leaving
<1> QED
  BY <1>10, <1>11, <1>12

(* DeleteDetails keeps the inductive invariant. *)
LEMMA DeleteDetailsStep ==
  ASSUME IInv, NEW s \in Slave, DeleteDetails(s)
  PROVE  IInv'
<1>1. /\ ses[s] \in Session /\ hlp[s] \in Helper /\ up[s] \in Seq(Message) /\ down[s] \in Seq(Message)
      /\ srow[s] \in [Composite -> SlaveRow] /\ mrow \in [Composite -> MasterRow] /\ trouble \in Nat
      /\ SessionInv(ses[s], hlp[s], up[s], down[s])
      /\ DataOf(ses[s], hlp[s], up[s], down[s], srow[s], mrow, trouble, link[s])
      /\ \A c \in Composite : \A k \in srow[s][c].since : CompositeOf[k] = c /\ ServerOf[k] = s /\ k \in done
  BY Here
<1>2. UNCHANGED <<srow, mrow, sync, hlp, link, done, trouble>> /\ ses[s].pc = "answer"
  BY DEF DeleteDetails, SlaveDB
<1>3. /\ down' \in [Slave -> Seq(Message)] /\ \A t \in Slave \ {s} : down'[t] = down[t]
      /\ ToSlave(s) \in Message /\ Took(down[s], ToSlave(s), down'[s]) /\ down'[s] \in Seq(Message)
  BY SlaveReadsOne DEF IInv, DeleteDetails
<1>4. ses[s].comp \in Composite /\ ToSlave(s) = About("Begin", ses[s].comp)
  BY <1>1, <1>2 DEF SessionInv, EndsInv, Session, DeleteDetails
<1>5. trouble' \in 0..MaxTrouble /\ trouble <= trouble'
  BY <1>1, <1>2 DEF IInv, TypeOK
<1>6. CASE /\ ses[s].pend # None \/ SlaveWritable(s, ses[s].comp, ses[s].snap)
           /\ ses' = [ses EXCEPT ![s] = Emptied(ses[s], [srow[s][ses[s].comp] EXCEPT !.local = NoCurves, !.since = {}])]
           /\ SlaveSays(s, <<About("Found", ses[s].comp)>>)
  <2>1. PICK row \in SlaveRow : /\ row = [srow[s][ses[s].comp] EXCEPT !.local = NoCurves, !.since = {}]
                                /\ row.since = {}
    BY <1>1, <1>4, Rows
  <2>2. PICK y \in Session : /\ ses' = [ses EXCEPT ![s] = y]
                             /\ y.pc = "content" /\ y.comp = ses[s].comp /\ y.todo = ses[s].todo
                             /\ y.snap = ses[s].snap /\ y.pend = row
    <3>1. Emptied(ses[s], row) \in Session
      BY <1>1, EmptiedFields
    <3>2. ses' = [ses EXCEPT ![s] = Emptied(ses[s], row)]
      BY <1>6, <2>1
    <3> QED
      BY <1>1, <3>1, <3>2, EmptiedFields
  <2>3. /\ up' \in [Slave -> Seq(Message)] /\ \A t \in Slave \ {s} : up'[t] = up[t]
        /\ up'[s] = up[s] \/ Put(up[s], About("Found", ses[s].comp), up'[s])
    BY <1>4, <1>6, SlaveSaysOne, Lines DEF IInv
  <2>4. up'[s] \in Seq(Message) /\ y.pend # None /\ y.pend.since = {} /\ Took(down[s], About("Begin", ses[s].comp), down'[s])
    BY <1>3, <1>4, <2>1, <2>2, <2>3, NoneAssumption
  <2>5. Postgres /\ ses[s].pend = None => ses[s].snap[ses[s].comp] = srow[s][ses[s].comp]
    BY <1>6 DEF SlaveWritable
  <2>6. SessionInv(y, hlp[s], up'[s], down'[s])
    BY <1>1, <1>2, <1>3, <2>2, <2>3, <2>4, LinesDeleted
  <2>7. DataOf(y, hlp[s], up'[s], down'[s], srow[s], mrow, trouble, link[s])
    BY <1>1, <1>2, <1>3, <2>2, <2>3, <2>4, <2>5, DataDeleted
  <2> QED
    BY <1>2, <1>3, <1>5, <2>2, <2>3, <2>6, <2>7, QuietSlave
<1>7. CASE UNCHANGED <<ses, up>>
  <2>1. ToSlave(s) # About("OK", ses[s].comp) /\ ToSlave(s) # About("Error", ses[s].comp)
    BY <1>4 DEF About
  <2>2. SessionInv(ses[s], hlp[s], up[s], down'[s])
    BY <1>1, <1>2, <1>3, <2>1, LinesDropped
  <2>3. DataOf(ses[s], hlp[s], up[s], down'[s], srow[s], mrow, trouble, link[s])
    BY <1>1, <1>2, <1>3, <2>1, DataDropped
  <2>4. ses' = [ses EXCEPT ![s] = ses[s]]
    BY <1>7 DEF IInv, TypeOK
  <2> QED
    BY <1>1, <1>2, <1>3, <1>5, <1>7, <2>2, <2>3, <2>4, QuietSlave DEF IInv, TypeOK
<1> QED
  BY <1>6, <1>7 DEF DeleteDetails, Emptied

(* InsertDetails keeps the inductive invariant. *)
LEMMA InsertDetailsStep ==
  ASSUME IInv, NEW s \in Slave, InsertDetails(s)
  PROVE  IInv'
<1>1. /\ ses[s] \in Session /\ hlp[s] \in Helper /\ up[s] \in Seq(Message) /\ down[s] \in Seq(Message)
      /\ srow[s] \in [Composite -> SlaveRow] /\ mrow \in [Composite -> MasterRow] /\ trouble \in Nat
      /\ SessionInv(ses[s], hlp[s], up[s], down[s])
      /\ DataOf(ses[s], hlp[s], up[s], down[s], srow[s], mrow, trouble, link[s])
      /\ \A c \in Composite : \A k \in srow[s][c].since : CompositeOf[k] = c /\ ServerOf[k] = s /\ k \in done
  BY Here
<1>2. UNCHANGED <<srow, mrow, sync, hlp, link, done, trouble>> /\ ses[s].pc = "content"
  BY DEF InsertDetails, SlaveDB
<1>3. /\ down' \in [Slave -> Seq(Message)] /\ \A t \in Slave \ {s} : down'[t] = down[t]
      /\ ToSlave(s) \in Message /\ Took(down[s], ToSlave(s), down'[s]) /\ down'[s] \in Seq(Message)
  BY SlaveReadsOne DEF IInv, InsertDetails
<1>4. PICK m \in Message : m = ToSlave(s) /\ m.type = "Content"
  BY <1>3 DEF InsertDetails
<1>5. m.local \in Tally /\ ses[s].comp \in Composite /\ ses[s].pend \in SlaveRow
  BY <1>1, <1>2, <1>4, MessageFields DEF SessionInv, EndsInv, Session
<1>6. ses' = [ses EXCEPT ![s] = Filled(ses[s], m.local)]
  BY <1>4 DEF InsertDetails, Filled
<1>7. PICK y \in Session : /\ ses' = [ses EXCEPT ![s] = y]
                           /\ y.pc = "answer" /\ y.comp = ses[s].comp /\ y.todo = ses[s].todo
                           /\ y.snap = ses[s].snap /\ y.pend \in SlaveRow
                           /\ y.pend.since = ses[s].pend.since /\ y.pend.local = m.local
  BY <1>1, <1>5, <1>6, FilledFields
<1>8. /\ up' \in [Slave -> Seq(Message)] /\ \A t \in Slave \ {s} : up'[t] = up[t]
      /\ up'[s] = up[s] \/ Put(up[s], About("OK", ses[s].comp), up'[s])
  BY <1>5, SlaveSaysOne, Lines DEF IInv, InsertDetails
<1>9. up'[s] \in Seq(Message) /\ y.pend # None /\ Took(down[s], m, down'[s])
  BY <1>3, <1>4, <1>7, <1>8, NoneAssumption
<1>13. /\ ses[s] \in Session /\ hlp[s] \in Helper /\ up[s] \in Seq(Message) /\ down[s] \in Seq(Message)
       /\ up'[s] \in Seq(Message) /\ down'[s] \in Seq(Message) /\ SessionInv(ses[s], hlp[s], up[s], down[s])
  BY <1>1, <1>3, <1>9
<1>14. /\ srow[s] \in [Composite -> SlaveRow] /\ mrow \in [Composite -> MasterRow] /\ trouble \in Nat
       /\ DataOf(ses[s], hlp[s], up[s], down[s], srow[s], mrow, trouble, link[s])
  BY <1>1
<1>15. /\ ses[s].pc = "content" /\ m.type = "Content" /\ Took(down[s], m, down'[s])
       /\ up'[s] = up[s] \/ Put(up[s], About("OK", ses[s].comp), up'[s])
       /\ y.pc = "answer" /\ y.comp = ses[s].comp /\ y.todo = ses[s].todo /\ y.snap = ses[s].snap /\ y.pend # None
       /\ y.pend.since = ses[s].pend.since /\ y.pend.local = m.local
  BY <1>2, <1>4, <1>7, <1>8, <1>9
<1>10. SessionInv(y, hlp[s], up'[s], down'[s])
  BY <1>13, <1>15, LinesInserted
<1>11. DataOf(y, hlp[s], up'[s], down'[s], srow[s], mrow, trouble, link[s])
  BY <1>13, <1>14, <1>15, DataInserted
<1>12. trouble' \in 0..MaxTrouble /\ trouble <= trouble'
  BY <1>1, <1>2 DEF IInv, TypeOK
<1> QED
  BY <1>2, <1>3, <1>7, <1>8, <1>10, <1>11, <1>12, QuietSlave

(* StartPhase2 keeps the inductive invariant. *)
LEMMA StartPhase2Step ==
  ASSUME IInv, NEW s \in Slave, StartPhase2(s)
  PROVE  IInv'
<1>1. /\ ses[s] \in Session /\ hlp[s] \in Helper /\ up[s] \in Seq(Message) /\ down[s] \in Seq(Message)
      /\ srow[s] \in [Composite -> SlaveRow] /\ mrow \in [Composite -> MasterRow] /\ trouble \in Nat
      /\ SessionInv(ses[s], hlp[s], up[s], down[s])
      /\ DataOf(ses[s], hlp[s], up[s], down[s], srow[s], mrow, trouble, link[s])
      /\ \A c \in Composite : \A k \in srow[s][c].since : CompositeOf[k] = c /\ ServerOf[k] = s /\ k \in done
  BY Here
<1>2. UNCHANGED <<srow, mrow, sync, hlp, link, done, trouble>> /\ ses[s].pc = "start2"
  BY DEF StartPhase2, SlaveDB
<1>3. /\ down' \in [Slave -> Seq(Message)] /\ \A t \in Slave \ {s} : down'[t] = down[t]
      /\ ToSlave(s) \in Message /\ Took(down[s], ToSlave(s), down'[s]) /\ down'[s] \in Seq(Message)
  BY SlaveReadsOne DEF IInv, StartPhase2
<1>4. trouble' \in 0..MaxTrouble /\ trouble <= trouble'
  BY <1>1, <1>2 DEF IInv, TypeOK
<1>5. CASE ToSlave(s) = Start /\ ses' = [ses EXCEPT ![s] = Started(ses[s])] /\ UNCHANGED up
  <2>1. PICK y \in Session : /\ ses' = [ses EXCEPT ![s] = y]
                             /\ y.pc = "receive2" /\ y.comp = ses[s].comp /\ y.todo = ses[s].todo
                             /\ y.snap = ses[s].snap /\ y.pend = ses[s].pend
    <3>1. ses[s] \in Session /\ ses' = [ses EXCEPT ![s] = Started(ses[s])]
      BY <1>1, <1>5
    <3>2. Started(ses[s]) \in Session
      BY <3>1, StartedFields
    <3> QED
      BY <3>1, <3>2, StartedFields
  <2>2. Took(down[s], Start, down'[s]) /\ up' = up
    BY <1>3, <1>5
  <2>3. SessionInv(y, hlp[s], up[s], down'[s])
    BY <1>1, <1>2, <1>3, <2>1, <2>2, LinesStart2
  <2>4. DataOf(y, hlp[s], up[s], down'[s], srow[s], mrow, trouble, link[s])
    BY <1>1, <1>2, <1>3, <2>1, <2>2, DataStart2
  <2> QED
    BY <1>2, <1>3, <1>4, <2>1, <2>2, <2>3, <2>4, QuietSlave DEF IInv, TypeOK
<1>6. CASE SlaveCloses(s, <<>>)
  <2>1. Excused(ses[s], hlp[s], up[s], trouble, trouble', link[s])
    BY <1>2 DEF Excused
  <2>2. \E m \in Message : Took(down[s], m, down'[s]) /\ ses[s].pc # "answer"
    BY <1>2, <1>3
  <2> QED
    BY <1>2, <1>3, <1>4, <1>6, <2>1, <2>2, Leaving
<1> QED
  BY <1>5, <1>6 DEF StartPhase2, Started

(* The row of a composite the master sends. *)
LEMMA NewRow ==
  ASSUME NEW row \in SlaveRow
  PROVE  /\ [exists |-> TRUE, local |-> NoCurves, since |-> {}, toMaster |-> row.toMaster] \in SlaveRow
         /\ [exists |-> TRUE, local |-> NoCurves, since |-> {}, toMaster |-> row.toMaster].since = {}
  BY NoCurvesTally DEF SlaveRow

(* ReceiveComposite keeps the inductive invariant. *)
LEMMA ReceiveCompositeStep ==
  ASSUME IInv, NEW s \in Slave, ReceiveComposite(s)
  PROVE  IInv'
<1>1. /\ ses[s] \in Session /\ hlp[s] \in Helper /\ up[s] \in Seq(Message) /\ down[s] \in Seq(Message)
      /\ srow[s] \in [Composite -> SlaveRow] /\ mrow \in [Composite -> MasterRow] /\ trouble \in Nat
      /\ SessionInv(ses[s], hlp[s], up[s], down[s])
      /\ DataOf(ses[s], hlp[s], up[s], down[s], srow[s], mrow, trouble, link[s])
      /\ \A c \in Composite : \A k \in srow[s][c].since : CompositeOf[k] = c /\ ServerOf[k] = s /\ k \in done
  BY Here
<1>2. UNCHANGED <<srow, mrow, sync, hlp, link, done, trouble>> /\ ses[s].pc = "receive2"
  BY DEF ReceiveComposite, SlaveDB
<1>3. /\ down' \in [Slave -> Seq(Message)] /\ \A t \in Slave \ {s} : down'[t] = down[t]
      /\ ToSlave(s) \in Message /\ Took(down[s], ToSlave(s), down'[s]) /\ down'[s] \in Seq(Message)
  BY SlaveReadsOne DEF IInv, ReceiveComposite
<1>4. trouble' \in 0..MaxTrouble /\ trouble <= trouble'
  BY <1>1, <1>2 DEF IInv, TypeOK
<1>5. PICK m \in Message : m = ToSlave(s) /\ m.type = "Begin"
  BY <1>3 DEF ReceiveComposite
<1>6. m.comp \in Composite /\ Took(down[s], m, down'[s])
  BY <1>3, <1>5, MessageFields
<1>7. CASE SlaveSays(s, <<SyncError, About("Error", m.comp)>>) /\ UNCHANGED ses
  <2>1. /\ up' \in [Slave -> Seq(Message)] /\ \A t \in Slave \ {s} : up'[t] = up[t]
        /\ up'[s] = up[s] \/ PutTwo(up[s], SyncError, About("Error", m.comp), up'[s])
    BY <1>6, <1>7, SlaveSaysTwo, Lines DEF IInv
  <2>2. up'[s] \in Seq(Message)
    BY <2>1
  <2>3. SessionInv(ses[s], hlp[s], up'[s], down'[s])
    BY <1>1, <1>2, <1>3, <1>5, <1>6, <2>1, <2>2, LinesRefuse2
  <2>6. ses[s].pc = "receive2" /\ (up'[s] = up[s] \/ PutTwo(up[s], SyncError, About("Error", m.comp), up'[s]))
    BY <1>2, <2>1
  <2>7. down'[s] \in Seq(Message)
    BY <1>3
  <2>4. DataOf(ses[s], hlp[s], up'[s], down'[s], srow[s], mrow, trouble, link[s])
    <3>1. PICK x \in Session, h \in Helper, u \in Seq(Message), d \in Seq(Message), v \in Seq(Message), e \in Seq(Message) :
            x = ses[s] /\ h = hlp[s] /\ u = up[s] /\ d = down[s] /\ v = up'[s] /\ e = down'[s]
      BY <1>1, <2>2, <2>7
    <3>2. PICK r \in [Composite -> SlaveRow], m0 \in [Composite -> MasterRow], n \in Nat :
            r = srow[s] /\ m0 = mrow /\ n = trouble
      BY <1>1
    <3>3. SessionInv(x, h, u, d) /\ DataOf(x, h, u, d, r, m0, n, link[s])
      BY <1>1, <3>1, <3>2
    <3>4. x.pc = "receive2" /\ m.type = "Begin" /\ Took(d, m, e)
      BY <1>5, <1>6, <2>6, <3>1
    <3>5. v = u \/ PutTwo(u, SyncError, About("Error", m.comp), v)
      BY <2>6, <3>1
    <3>6. DataOf(x, h, v, e, r, m0, n, link[s])
      BY ONLY <3>3, <3>4, <3>5, m \in Message, DataRefuse2, ZenonT(60)
    <3> QED
      BY <3>1, <3>2, <3>6
  <2>5. ses' = [ses EXCEPT ![s] = ses[s]]
    BY <1>7 DEF IInv, TypeOK
  <2> QED
    BY <1>1, <1>2, <1>3, <1>4, <2>1, <2>3, <2>4, <2>5, QuietSlave
<1>8. CASE /\ SlaveSays(s, <<About("Found", m.comp)>>)
           /\ ses' = [ses EXCEPT ![s] = Received(ses[s], m.comp, srow[s],
                        [exists |-> TRUE, local |-> NoCurves, since |-> {}, toMaster |-> srow[s][m.comp].toMaster])]
  <2>1. PICK row \in SlaveRow :
          /\ row = [exists |-> TRUE, local |-> NoCurves, since |-> {}, toMaster |-> srow[s][m.comp].toMaster]
          /\ row.since = {}
    BY <1>1, <1>6, NewRow
  <2>2. PICK y \in Session : /\ ses' = [ses EXCEPT ![s] = y]
                             /\ y.pc = "content2" /\ y.comp = m.comp /\ y.todo = ses[s].todo
                             /\ y.snap = srow[s] /\ y.pend = row
    <3>1. ses[s] \in Session /\ srow[s] \in [Composite -> SlaveRow] /\ ses' = [ses EXCEPT ![s] = Received(ses[s], m.comp, srow[s], row)]
      BY <1>1, <1>8, <2>1
    <3>2. PICK y \in Session : /\ y = Received(ses[s], m.comp, srow[s], row)
                               /\ y.pc = "content2" /\ y.comp = m.comp /\ y.todo = ses[s].todo
                               /\ y.snap = srow[s] /\ y.pend = row
      BY <1>6, <3>1, ReceivedFields
    <3>3. ses' = [ses EXCEPT ![s] = y]
      BY <3>1, <3>2
    <3> QED
      BY <3>2, <3>3
  <2>3. /\ up' \in [Slave -> Seq(Message)] /\ \A t \in Slave \ {s} : up'[t] = up[t]
        /\ up'[s] = up[s] \/ Put(up[s], About("Found", m.comp), up'[s])
    BY <1>6, <1>8, SlaveSaysOne, Lines DEF IInv
  <2>4. /\ ses[s] \in Session /\ hlp[s] \in Helper /\ up[s] \in Seq(Message) /\ down[s] \in Seq(Message)
        /\ up'[s] \in Seq(Message) /\ down'[s] \in Seq(Message) /\ SessionInv(ses[s], hlp[s], up[s], down[s])
    BY <1>1, <1>3, <2>3
  <2>5. /\ srow[s] \in [Composite -> SlaveRow] /\ mrow \in [Composite -> MasterRow] /\ trouble \in Nat
        /\ DataOf(ses[s], hlp[s], up[s], down[s], srow[s], mrow, trouble, link[s])
    BY <1>1
  <2>6. /\ ses[s].pc = "receive2" /\ m.type = "Begin" /\ Took(down[s], m, down'[s])
        /\ up'[s] = up[s] \/ Put(up[s], About("Found", m.comp), up'[s])
        /\ y.pc = "content2" /\ y.comp = m.comp /\ y.todo = ses[s].todo /\ y.snap = srow[s] /\ y.pend # None /\ y.pend.since = {}
    BY <1>2, <1>5, <1>6, <2>1, <2>2, <2>3, NoneAssumption
  <2>7. y.snap # None
    BY <2>5, <2>6, NoneAssumption
  <2>8. SessionInv(y, hlp[s], up'[s], down'[s])
    BY <2>4, <2>6, <2>7, LinesDeleted2
  <2>9. DataOf(y, hlp[s], up'[s], down'[s], srow[s], mrow, trouble, link[s])
    BY <2>4, <2>5, <2>6, DataDeleted2, ZenonT(60)
  <2> QED
    BY <1>2, <1>3, <1>4, <2>2, <2>3, <2>8, <2>9, QuietSlave
<1> QED
  BY <1>5, <1>7, <1>8 DEF ReceiveComposite, Received

(* EndPhase2 keeps the inductive invariant. *)
LEMMA EndPhase2Step ==
  ASSUME IInv, NEW s \in Slave, EndPhase2(s)
  PROVE  IInv'
<1>1. /\ ses[s] \in Session /\ hlp[s] \in Helper /\ up[s] \in Seq(Message) /\ down[s] \in Seq(Message)
      /\ srow[s] \in [Composite -> SlaveRow] /\ mrow \in [Composite -> MasterRow] /\ trouble \in Nat
      /\ SessionInv(ses[s], hlp[s], up[s], down[s])
      /\ DataOf(ses[s], hlp[s], up[s], down[s], srow[s], mrow, trouble, link[s])
      /\ \A c \in Composite : \A k \in srow[s][c].since : CompositeOf[k] = c /\ ServerOf[k] = s /\ k \in done
  BY Here
<1>2. UNCHANGED <<srow, mrow, sync, hlp, link, done, trouble>> /\ ses[s].pc = "receive2" /\ SlaveCloses(s, <<>>)
  BY DEF EndPhase2, SlaveDB
<1>3. /\ down' \in [Slave -> Seq(Message)] /\ \A t \in Slave \ {s} : down'[t] = down[t]
      /\ ToSlave(s) \in Message /\ Took(down[s], ToSlave(s), down'[s]) /\ down'[s] \in Seq(Message)
  BY SlaveReadsOne DEF IInv, EndPhase2
<1>4. trouble' \in 0..MaxTrouble /\ trouble <= trouble'
  BY <1>1, <1>2 DEF IInv, TypeOK
<1>5. Excused(ses[s], hlp[s], up[s], trouble, trouble', link[s])
  BY <1>2 DEF Excused
<1>6. \E m \in Message : Took(down[s], m, down'[s]) /\ ses[s].pc # "answer"
  BY <1>2, <1>3
<1> QED
  BY <1>2, <1>3, <1>4, <1>5, <1>6, Leaving

(* SlaveSkips keeps the inductive invariant. *)
LEMMA SlaveSkipsStep ==
  ASSUME IInv, NEW s \in Slave, SlaveSkips(s)
  PROVE  IInv'
<1>1. /\ ses[s] \in Session /\ hlp[s] \in Helper /\ up[s] \in Seq(Message) /\ down[s] \in Seq(Message)
      /\ srow[s] \in [Composite -> SlaveRow] /\ mrow \in [Composite -> MasterRow] /\ trouble \in Nat
      /\ SessionInv(ses[s], hlp[s], up[s], down[s])
      /\ DataOf(ses[s], hlp[s], up[s], down[s], srow[s], mrow, trouble, link[s])
      /\ \A c \in Composite : \A k \in srow[s][c].since : CompositeOf[k] = c /\ ServerOf[k] = s /\ k \in done
  BY Here
<1>2. UNCHANGED <<srow, mrow, sync, hlp, link, done, trouble, ses>>
  BY DEF SlaveSkips, SlaveDB
<1>3. /\ down' \in [Slave -> Seq(Message)] /\ \A t \in Slave \ {s} : down'[t] = down[t]
      /\ ToSlave(s) \in Message /\ Took(down[s], ToSlave(s), down'[s]) /\ down'[s] \in Seq(Message)
  BY SlaveReadsOne DEF IInv, SlaveSkips
<1>4. trouble' \in 0..MaxTrouble /\ trouble <= trouble'
  BY <1>1, <1>2 DEF IInv, TypeOK
<1>5. ses' = [ses EXCEPT ![s] = ses[s]]
  BY <1>2 DEF IInv, TypeOK
<1>6. CASE ses[s].pc = "answer" /\ ToSlave(s) # About("OK", ses[s].comp) /\ ToSlave(s) # About("Error", ses[s].comp) /\ UNCHANGED up
  <2>1. SessionInv(ses[s], hlp[s], up[s], down'[s])
    BY <1>1, <1>3, <1>6, LinesDropped
  <2>2. DataOf(ses[s], hlp[s], up[s], down'[s], srow[s], mrow, trouble, link[s])
    BY <1>1, <1>3, <1>6, DataDropped
  <2> QED
    BY <1>1, <1>2, <1>3, <1>4, <1>5, <1>6, <2>1, <2>2, QuietSlave DEF IInv, TypeOK
<1>7. CASE Unexpected(ses[s], ToSlave(s)) /\ SlaveSays(s, <<SyncError>>)
  <2>1. /\ up' \in [Slave -> Seq(Message)] /\ \A t \in Slave \ {s} : up'[t] = up[t]
        /\ up'[s] = up[s] \/ Put(up[s], SyncError, up'[s])
    BY <1>7, SlaveSaysOne, Lines DEF IInv
  <2>2. up'[s] \in Seq(Message)
    BY <2>1
  <2>3. SessionInv(ses[s], hlp[s], up'[s], down'[s])
    BY <1>1, <1>3, <1>7, <2>1, <2>2, LinesComplained
  <2>4. DataOf(ses[s], hlp[s], up'[s], down'[s], srow[s], mrow, trouble, link[s])
    BY <1>1, <1>3, <1>7, <2>1, <2>2, DataComplained
  <2> QED
    BY <1>1, <1>2, <1>3, <1>4, <1>5, <2>1, <2>3, <2>4, QuietSlave
<1> QED
  BY <1>6, <1>7 DEF SlaveSkips, Unexpected

(* SlaveTimesOut keeps the inductive invariant. *)
LEMMA SlaveTimesOutStep ==
  ASSUME IInv, NEW s \in Slave, SlaveTimesOut(s)
  PROVE  IInv'
<1>1. /\ ses[s] \in Session /\ hlp[s] \in Helper /\ up[s] \in Seq(Message) /\ down[s] \in Seq(Message)
      /\ srow[s] \in [Composite -> SlaveRow] /\ mrow \in [Composite -> MasterRow] /\ trouble \in Nat
      /\ SessionInv(ses[s], hlp[s], up[s], down[s])
      /\ DataOf(ses[s], hlp[s], up[s], down[s], srow[s], mrow, trouble, link[s])
      /\ \A c \in Composite : \A k \in srow[s][c].since : CompositeOf[k] = c /\ ServerOf[k] = s /\ k \in done
  BY Here
<1>2. UNCHANGED <<srow, mrow, sync, hlp, down, link, done>> /\ ses[s].pc \in SlaveWaits /\ down[s] = <<>>
  BY DEF SlaveTimesOut
<1>3. SlaveCloses(s, <<>>) \/ (SlaveCloses(s, <<SyncError, NoMore>>) /\ ses[s].pc # "start2")
  BY DEF SlaveTimesOut
<1>4. ses[s].pc \notin {"idle", "closed"}
  BY <1>2 DEF SlaveWaits
<1>5. trouble' \in 0..MaxTrouble
  BY <1>1, SyncAssumption DEF SlaveTimesOut, Trouble, IInv, TypeOK
<1>6. Excused(ses[s], hlp[s], up[s], trouble, trouble', link[s])
  <2>1. CASE trouble' = trouble + 1
    BY <1>1, <2>1 DEF Excused
  <2>2. CASE (~link[s] \/ hlp[s].pc = "closed" \/ Stuck(s)) /\ UNCHANGED trouble
    BY <2>2 DEF Excused, Stuck
  <2> QED
    BY <2>1, <2>2 DEF SlaveTimesOut, Trouble
<1>7. down' \in [Slave -> Seq(Message)] /\ \A t \in Slave \ {s} : down'[t] = down[t]
  BY <1>2 DEF IInv, TypeOK
<1> QED
  BY <1>2, <1>3, <1>4, <1>5, <1>6, <1>7, Leaving

-----------------------------------------------------------------------------
(* A slave's composite is written.                                          *)
LEMMA SlaveWrites ==
  ASSUME IInv, NEW s \in Slave, NEW c \in Composite, NEW row \in SlaveRow, NEW y \in Session,
         srow' = [srow EXCEPT ![s][c] = row], ses' = [ses EXCEPT ![s] = y],
         up' \in [Slave -> Seq(Message)], down' \in [Slave -> Seq(Message)],
         \A t \in Slave \ {s} : up'[t] = up[t], \A t \in Slave \ {s} : down'[t] = down[t],
         SessionInv(y, hlp[s], up'[s], down'[s]),
         DataOf(y, hlp[s], up'[s], down'[s], srow'[s], mrow, trouble, link[s]),
         \A k \in row.since : CompositeOf[k] = c /\ ServerOf[k] = s /\ k \in done',
         \A k \in Curve : CompositeOf[k] = c /\ k \notin row.since => row.local[k] <= mrow[c].local[k],
         \A k \in Curve : CompositeOf[k] = c /\ k \in row.since => row.local[k] <= mrow[c].local[k] + 1,
         done \subseteq done', done' \subseteq Curve,
         UNCHANGED <<mrow, sync, hlp, link, trouble>>
  PROVE  IInv'
<1>1. ses' \in [Slave -> Session] /\ ses'[s] = y /\ \A t \in Slave \ {s} : ses'[t] = ses[t]
  BY Updated DEF IInv, TypeOK
<1>2. /\ srow' \in [Slave -> [Composite -> SlaveRow]] /\ srow'[s][c] = row
      /\ \A b \in Composite \ {c} : srow'[s][b] = srow[s][b]
      /\ \A t \in Slave \ {s} : srow'[t] = srow[t]
  BY DEF IInv, TypeOK
<1>3. TypeOK'
  BY <1>1, <1>2 DEF IInv, TypeOK
<1>4. ProtocolInv'
  BY <1>1 DEF IInv, ProtocolInv
<1>5. ASSUME NEW t \in Slave
      PROVE  DataOf(ses'[t], hlp'[t], up'[t], down'[t], srow'[t], mrow', trouble', link'[t])
  BY <1>1, <1>2 DEF IInv, DataInv
<1>6. ASSUME NEW t \in Slave
      PROVE  SinceOf(t, srow'[t], done')
  <2>1. SinceOf(t, srow[t], done)
    BY DEF IInv, DataInv
  <2>2. SinceOf(t, srow[t], done')
    BY <2>1 DEF SinceOf
  <2>3. CASE t # s
    BY <1>2, <2>2, <2>3
  <2>4. CASE t = s
    <3>1. ASSUME NEW b \in Composite, NEW k \in srow'[s][b].since
          PROVE  CompositeOf[k] = b /\ ServerOf[k] = s /\ k \in done'
      <4>1. CASE b = c
        BY <1>2, <3>1, <4>1
      <4>2. CASE b # c
        BY <1>2, <2>2, <2>4, <3>1, <4>2 DEF SinceOf
      <4> QED
        BY <4>1, <4>2
    <3> QED
      BY <2>4, <3>1 DEF SinceOf
  <2> QED
    BY <2>3, <2>4
<1>7. Exclusive' /\ OneRecountPerFailure'
  BY DEF IInv, DataInv, Exclusive, OneRecountPerFailure
<1>8. NotBefore'
  BY DEF IInv, DataInv, NotBefore, Counts
<1>9. SlaveNeverAhead'
  <2> SUFFICES ASSUME NEW t \in Slave, NEW k \in Curve
               PROVE  srow'[t][CompositeOf[k]].local[k]
                        <= mrow[CompositeOf[k]].local[k] + IF k \in srow'[t][CompositeOf[k]].since THEN 1 ELSE 0
    BY DEF SlaveNeverAhead
  <2>1. CompositeOf[k] \in Composite
    BY SyncAssumption
  <2>2. CASE t = s /\ CompositeOf[k] = c
    <3>1. row.local[k] \in Nat /\ mrow[c].local[k] \in Nat
      BY SyncAssumption DEF IInv, TypeOK, SlaveRow, MasterRow, Tally
    <3>2. CASE k \in row.since
      BY <1>2, <2>2, <3>1, <3>2
    <3>3. CASE k \notin row.since
      BY <1>2, <2>2, <3>1, <3>3
    <3> QED
      BY <3>2, <3>3
  <2>3. CASE ~(t = s /\ CompositeOf[k] = c)
    <3>1. srow'[t][CompositeOf[k]] = srow[t][CompositeOf[k]]
      BY <1>2, <2>1, <2>3
    <3> QED
      BY <3>1 DEF IInv, DataInv, SlaveNeverAhead
  <2> QED
    BY <2>2, <2>3
<1> QED
  BY <1>3, <1>4, <1>5, <1>6, <1>7, <1>8, <1>9 DEF IInv, DataInv

(* The rows that are written.                                               *)
LEMMA CommittedRow ==
  ASSUME NEW row \in SlaveRow
  PROVE  /\ [row EXCEPT !.toMaster = FALSE] \in SlaveRow
         /\ [row EXCEPT !.toMaster = FALSE].since = row.since
         /\ [row EXCEPT !.toMaster = FALSE].local = row.local
  BY DEF SlaveRow

(* SlaveCommits keeps the inductive invariant. *)
LEMMA SlaveCommitsStep ==
  ASSUME IInv, NEW s \in Slave, SlaveCommits(s)
  PROVE  IInv'
<1>1. /\ ses[s] \in Session /\ hlp[s] \in Helper /\ up[s] \in Seq(Message) /\ down[s] \in Seq(Message)
      /\ srow[s] \in [Composite -> SlaveRow] /\ mrow \in [Composite -> MasterRow] /\ trouble \in Nat
      /\ SessionInv(ses[s], hlp[s], up[s], down[s])
      /\ DataOf(ses[s], hlp[s], up[s], down[s], srow[s], mrow, trouble, link[s])
      /\ \A c \in Composite : \A k \in srow[s][c].since : CompositeOf[k] = c /\ ServerOf[k] = s /\ k \in done
  BY Here
<1>2. UNCHANGED <<mrow, sync, hlp, up, link, done, trouble>> /\ ses[s].pc = "answer" /\ ToSlave(s) = About("OK", ses[s].comp)
  BY DEF SlaveCommits
<1>3. /\ down' \in [Slave -> Seq(Message)] /\ \A t \in Slave \ {s} : down'[t] = down[t]
      /\ ToSlave(s) \in Message /\ Took(down[s], ToSlave(s), down'[s]) /\ down'[s] \in Seq(Message)
  BY SlaveReadsOne DEF IInv, SlaveCommits
<1>4. Took(down[s], About("OK", ses[s].comp), down'[s])
  BY <1>2, <1>3
<1>5. ses[s].comp \in Composite
  BY <1>1, <1>2 DEF SessionInv, EndsInv, Session
<1>6. 1 \in DOMAIN down[s] /\ down[s][1].type = "OK" /\ down[s][1].comp = ses[s].comp
  BY <1>4 DEF Took, About
<1>7. ses[s].pend \in SlaveRow /\ ses[s].pend.since = {}
  BY <1>1, <1>6 DEF SessionInv, DownInv, EndsInv, Session
<1>8. PICK row \in SlaveRow : /\ row = [ses[s].pend EXCEPT !.toMaster = FALSE]
                              /\ row.since = {} /\ row.local = ses[s].pend.local
  BY <1>7, CommittedRow
<1>9. srow' = [srow EXCEPT ![s][ses[s].comp] = row]
  BY <1>8 DEF SlaveCommits
<1>10. PICK y \in Session : /\ ses' = [ses EXCEPT ![s] = y]
                            /\ y.pc = "next" /\ y.comp = ses[s].comp /\ y.todo = ses[s].todo
                            /\ y.snap = None /\ y.pend = None
  <2>1. PICK y \in Session : /\ y = Back(ses[s]) /\ y.pc = "next" /\ y.comp = ses[s].comp /\ y.todo = ses[s].todo
                             /\ y.snap = None /\ y.pend = None
    BY <1>1, BackFields
  <2>2. ses' = [ses EXCEPT ![s] = y]
    BY <2>1 DEF SlaveCommits, Back
  <2> QED
    BY <2>1, <2>2
<1>11. PICK w \in [Composite -> SlaveRow] :
          /\ w = srow'[s] /\ w[ses[s].comp].since = {}
          /\ \A c \in Composite \ {ses[s].comp} : w[c] = srow[s][c]
  <2>1. /\ srow'[s] \in [Composite -> SlaveRow] /\ srow'[s][ses[s].comp] = row
        /\ \A c \in Composite \ {ses[s].comp} : srow'[s][c] = srow[s][c]
    BY <1>5, <1>9 DEF IInv, TypeOK
  <2> QED
    BY <1>8, <2>1
<1>12. /\ ses[s] \in Session /\ hlp[s] \in Helper /\ up[s] \in Seq(Message) /\ down[s] \in Seq(Message)
       /\ down'[s] \in Seq(Message) /\ SessionInv(ses[s], hlp[s], up[s], down[s])
  BY <1>1, <1>3
<1>13. /\ srow[s] \in [Composite -> SlaveRow] /\ mrow \in [Composite -> MasterRow] /\ trouble \in Nat
       /\ DataOf(ses[s], hlp[s], up[s], down[s], srow[s], mrow, trouble, link[s])
  BY <1>1
<1>14. SessionInv(y, hlp[s], up[s], down'[s])
  BY <1>2, <1>4, <1>10, <1>12, LinesCommitted
<1>15. DataOf(y, hlp[s], up[s], down'[s], w, mrow, trouble, link[s])
  <2>1. ses[s].pc = "answer" /\ y.pc = "next" /\ y.comp = ses[s].comp /\ y.todo = ses[s].todo /\ y.snap = None /\ y.pend = None
    BY <1>2, <1>10
  <2>2. w[ses[s].comp].since = {} /\ \A c \in Composite \ {ses[s].comp} : w[c] = srow[s][c]
    BY <1>11
  <2> QED
    BY <1>4, <1>12, <1>13, <2>1, <2>2, DataCommitted, ZenonT(60)
<1>16. DataOf(y, hlp[s], up'[s], down'[s], srow'[s], mrow, trouble, link[s]) /\ SessionInv(y, hlp[s], up'[s], down'[s])
  BY <1>2, <1>11, <1>14, <1>15
<1>17. \A k \in Curve : row.local[k] <= mrow[ses[s].comp].local[k]
  BY <1>1, <1>6, <1>8 DEF DataOf, ReadyOf
<1>18. \A k \in row.since : CompositeOf[k] = ses[s].comp /\ ServerOf[k] = s /\ k \in done'
  BY <1>8
<1>19. \A k \in Curve : CompositeOf[k] = ses[s].comp /\ k \in row.since => row.local[k] <= mrow[ses[s].comp].local[k] + 1
  BY <1>8
<1>20. up' \in [Slave -> Seq(Message)] /\ (\A t \in Slave \ {s} : up'[t] = up[t]) /\ done \subseteq done' /\ done' \subseteq Curve
  BY <1>2 DEF IInv, TypeOK
<1> QED
  BY <1>2, <1>3, <1>5, <1>9, <1>10, <1>16, <1>17, <1>18, <1>19, <1>20, SlaveWrites

(* ReplaceComposite keeps the inductive invariant. *)
LEMMA ReplaceCompositeStep ==
  ASSUME IInv, NEW s \in Slave, ReplaceComposite(s)
  PROVE  IInv'
<1>1. /\ ses[s] \in Session /\ hlp[s] \in Helper /\ up[s] \in Seq(Message) /\ down[s] \in Seq(Message)
      /\ srow[s] \in [Composite -> SlaveRow] /\ mrow \in [Composite -> MasterRow] /\ trouble \in Nat
      /\ SessionInv(ses[s], hlp[s], up[s], down[s])
      /\ DataOf(ses[s], hlp[s], up[s], down[s], srow[s], mrow, trouble, link[s])
      /\ \A c \in Composite : \A k \in srow[s][c].since : CompositeOf[k] = c /\ ServerOf[k] = s /\ k \in done
  BY Here
<1>2. UNCHANGED <<mrow, sync, hlp, link, done, trouble>> /\ ses[s].pc = "content2"
  BY DEF ReplaceComposite
<1>3. /\ down' \in [Slave -> Seq(Message)] /\ \A t \in Slave \ {s} : down'[t] = down[t]
      /\ ToSlave(s) \in Message /\ Took(down[s], ToSlave(s), down'[s]) /\ down'[s] \in Seq(Message)
  BY SlaveReadsOne DEF IInv, ReplaceComposite
<1>4. PICK m \in Message : m = ToSlave(s) /\ m.type = "Content"
  BY <1>3 DEF ReplaceComposite
<1>5. /\ ses[s].comp \in Composite /\ m.local \in Tally /\ Took(down[s], m, down'[s])
      /\ ses[s].pend \in SlaveRow /\ ses[s].pend.since = {}
  BY <1>1, <1>2, <1>3, <1>4, MessageFields DEF SessionInv, EndsInv, Session
<1>6. 1 \in DOMAIN down[s] /\ down[s][1] = m /\ m.comp = ses[s].comp
  BY <1>1, <1>2, <1>4, <1>5 DEF Took, SessionInv, DownInv
<1>7. PICK flag \in BOOLEAN :
        srow' = [srow EXCEPT ![s][ses[s].comp] = [ses[s].pend EXCEPT !.local = m.local, !.toMaster = flag]]
  <2>1. PICK flag \in IF srow[s][ses[s].comp].exists THEN {ses[s].pend.toMaster} ELSE BOOLEAN :
          srow' = [srow EXCEPT ![s][ses[s].comp] = [ses[s].pend EXCEPT !.local = m.local, !.toMaster = flag]]
    BY <1>4 DEF ReplaceComposite
  <2>2. flag \in BOOLEAN
    BY <1>5 DEF SlaveRow
  <2> QED
    BY <2>1, <2>2
<1>8. PICK row \in SlaveRow : /\ row = [ses[s].pend EXCEPT !.local = m.local, !.toMaster = flag]
                              /\ row.since = {} /\ row.local = m.local
  <2>1. [ses[s].pend EXCEPT !.local = m.local, !.toMaster = flag] \in SlaveRow
    BY <1>5, <1>7 DEF SlaveRow
  <2>2. /\ [ses[s].pend EXCEPT !.local = m.local, !.toMaster = flag].since = ses[s].pend.since
        /\ [ses[s].pend EXCEPT !.local = m.local, !.toMaster = flag].local = m.local
    BY <1>5 DEF SlaveRow
  <2> QED
    BY <1>5, <2>1, <2>2
<1>9. srow' = [srow EXCEPT ![s][ses[s].comp] = row]
  BY <1>7, <1>8
<1>10. PICK y \in Session : /\ ses' = [ses EXCEPT ![s] = y]
                            /\ y.pc = "receive2" /\ y.comp = None /\ y.todo = ses[s].todo
                            /\ y.snap = None /\ y.pend = None
  <2>1. PICK y \in Session : /\ y = Left(ses[s], "receive2") /\ y.pc = "receive2" /\ y.comp = None /\ y.todo = ses[s].todo
                             /\ y.snap = None /\ y.pend = None
    BY <1>1, LeftFields
  <2>2. ses' = [ses EXCEPT ![s] = y]
    BY <2>1 DEF ReplaceComposite, Left
  <2> QED
    BY <2>1, <2>2
<1>11. PICK w \in [Composite -> SlaveRow] :
          /\ w = srow'[s] /\ w[ses[s].comp].since = {}
          /\ \A c \in Composite \ {ses[s].comp} : w[c] = srow[s][c]
  <2>1. /\ srow'[s] \in [Composite -> SlaveRow] /\ srow'[s][ses[s].comp] = row
        /\ \A c \in Composite \ {ses[s].comp} : srow'[s][c] = srow[s][c]
    BY <1>5, <1>9 DEF IInv, TypeOK
  <2> QED
    BY <1>8, <2>1
<1>12. /\ up' \in [Slave -> Seq(Message)] /\ \A t \in Slave \ {s} : up'[t] = up[t]
       /\ up'[s] = up[s] \/ Put(up[s], About("OK", ses[s].comp), up'[s])
  BY <1>5, SlaveSaysOne, Lines DEF IInv, ReplaceComposite
<1>13. /\ ses[s] \in Session /\ hlp[s] \in Helper /\ up[s] \in Seq(Message) /\ down[s] \in Seq(Message)
       /\ up'[s] \in Seq(Message) /\ down'[s] \in Seq(Message) /\ SessionInv(ses[s], hlp[s], up[s], down[s])
  BY <1>1, <1>3, <1>12
<1>14. /\ srow[s] \in [Composite -> SlaveRow] /\ mrow \in [Composite -> MasterRow] /\ trouble \in Nat
       /\ DataOf(ses[s], hlp[s], up[s], down[s], srow[s], mrow, trouble, link[s])
  BY <1>1
<1>15. SessionInv(y, hlp[s], up'[s], down'[s])
  BY <1>2, <1>4, <1>5, <1>10, <1>12, <1>13, LinesReplaced
<1>16. DataOf(y, hlp[s], up'[s], down'[s], w, mrow, trouble, link[s])
  <2>1. ses[s].pc = "content2" /\ y.pc = "receive2" /\ y.comp = None /\ y.todo = ses[s].todo /\ y.snap = None /\ y.pend = None
    BY <1>2, <1>10
  <2>2. w[ses[s].comp].since = {} /\ \A c \in Composite \ {ses[s].comp} : w[c] = srow[s][c]
    BY <1>11
  <2>3. m.type = "Content" /\ Took(down[s], m, down'[s])
    BY <1>4, <1>5
  <2>4. up'[s] = up[s] \/ Put(up[s], About("OK", ses[s].comp), up'[s])
    BY <1>12
  <2>5. PICK x \in Session, h \in Helper, u \in Seq(Message), d \in Seq(Message), v \in Seq(Message), e \in Seq(Message) :
          x = ses[s] /\ h = hlp[s] /\ u = up[s] /\ d = down[s] /\ v = up'[s] /\ e = down'[s]
    BY <1>13
  <2>6. PICK r \in [Composite -> SlaveRow], m0 \in [Composite -> MasterRow], n \in Nat :
          r = srow[s] /\ m0 = mrow /\ n = trouble
    BY <1>1
  <2>7. SessionInv(x, h, u, d) /\ DataOf(x, h, u, d, r, m0, n, link[s])
    BY <1>13, <1>14, <2>5, <2>6
  <2>8. /\ x.pc = "content2" /\ y.pc = "receive2" /\ y.comp = None /\ y.todo = x.todo /\ y.snap = None /\ y.pend = None
        /\ w[x.comp].since = {} /\ \A c \in Composite \ {x.comp} : w[c] = r[c]
        /\ m.type = "Content" /\ Took(d, m, e)
    BY <2>1, <2>2, <2>3, <2>5, <2>6
  <2>9. v = u \/ Put(u, About("OK", x.comp), v)
    BY <2>4, <2>5
  <2>10. DataOf(y, h, v, e, w, m0, n, link[s])
    BY ONLY <2>7, <2>8, <2>9, DataReplaced, m \in Message, ZenonT(60)
  <2> QED
    BY <2>5, <2>6, <2>10
<1>17. DataOf(y, hlp[s], up'[s], down'[s], srow'[s], mrow, trouble, link[s])
  BY <1>11, <1>16
<1>18. \A k \in Curve : row.local[k] <= mrow[ses[s].comp].local[k]
  BY <1>2, <1>4, <1>6, <1>8, <1>14 DEF DataOf, ReadyOf
<1>19. \A k \in row.since : CompositeOf[k] = ses[s].comp /\ ServerOf[k] = s /\ k \in done'
  BY <1>8
<1>20. \A k \in Curve : CompositeOf[k] = ses[s].comp /\ k \in row.since => row.local[k] <= mrow[ses[s].comp].local[k] + 1
  BY <1>8
<1>21. done \subseteq done' /\ done' \subseteq Curve
  BY <1>2 DEF IInv, TypeOK
<1> QED
  BY <1>2, <1>3, <1>5, <1>9, <1>10, <1>12, <1>15, <1>17, <1>18, <1>19, <1>20, <1>21, SlaveWrites

-----------------------------------------------------------------------------
(* What a step makes of the master's side.                                  *)
Populated(h, snap, added) == [h EXCEPT !.pc = "receive", !.snap = snap, !.added = added]

LEMMA PopulatedFields ==
  ASSUME NEW h \in Helper, NEW snap \in [rows : [Composite -> MasterRow], sync : [Composite -> [Slave -> Flag]]] \cup {None}, NEW added \in SUBSET Composite
  PROVE  /\ Populated(h, snap, added) \in Helper
         /\ Populated(h, snap, added).pc = "receive"
         /\ Populated(h, snap, added).comp = h.comp
         /\ Populated(h, snap, added).todo = h.todo
         /\ Populated(h, snap, added).snap = snap
         /\ Populated(h, snap, added).stale = h.stale
         /\ Populated(h, snap, added).pend = h.pend
  BY DEF Populated, Helper, MasterWaits

FailedAt(h) == [MasterRollback(h) EXCEPT !.pc = "receive"]

LEMMA FailedAtFields ==
  ASSUME NEW h \in Helper
  PROVE  /\ FailedAt(h) \in Helper
         /\ FailedAt(h).pc = "receive"
         /\ FailedAt(h).comp = h.comp
         /\ FailedAt(h).todo = h.todo
         /\ FailedAt(h).snap = None
         /\ FailedAt(h).stale = {}
         /\ FailedAt(h).pend = None
  BY DEF FailedAt, MasterRollback, Helper, MasterWaits

Accepted(h, c, snap) == [MasterRollback(h) EXCEPT !.pc = "work", !.comp = c, !.snap = snap]

LEMMA AcceptedFields ==
  ASSUME NEW h \in Helper, NEW c \in Composite, NEW snap \in [rows : [Composite -> MasterRow], sync : [Composite -> [Slave -> Flag]]] \cup {None}
  PROVE  /\ Accepted(h, c, snap) \in Helper
         /\ Accepted(h, c, snap).pc = "work"
         /\ Accepted(h, c, snap).comp = c
         /\ Accepted(h, c, snap).todo = h.todo
         /\ Accepted(h, c, snap).snap = snap
         /\ Accepted(h, c, snap).stale = {}
         /\ Accepted(h, c, snap).pend = None
  BY DEF Accepted, MasterRollback, Helper, MasterWaits

Added(h, row) == [h EXCEPT !.pc = "found", !.pend = row]

LEMMA AddedFields ==
  ASSUME NEW h \in Helper, NEW row \in MasterRow \cup {None}
  PROVE  /\ Added(h, row) \in Helper
         /\ Added(h, row).pc = "found"
         /\ Added(h, row).comp = h.comp
         /\ Added(h, row).todo = h.todo
         /\ Added(h, row).snap = h.snap
         /\ Added(h, row).stale = h.stale
         /\ Added(h, row).pend = row
  BY DEF Added, Helper, MasterWaits

MovedTo(h, p) == [h EXCEPT !.pc = p]

LEMMA MovedToFields ==
  ASSUME NEW h \in Helper, NEW p \in {"answer", "answer2"}
  PROVE  /\ MovedTo(h, p) \in Helper
         /\ MovedTo(h, p).pc = p
         /\ MovedTo(h, p).comp = h.comp
         /\ MovedTo(h, p).todo = h.todo
         /\ MovedTo(h, p).snap = h.snap
         /\ MovedTo(h, p).stale = h.stale
         /\ MovedTo(h, p).pend = h.pend
  BY DEF MovedTo, Helper, MasterWaits

Sending(h, snap, todo) == [h EXCEPT !.pc = "next2", !.snap = snap, !.todo = todo]

LEMMA SendingFields ==
  ASSUME NEW h \in Helper, NEW snap \in [rows : [Composite -> MasterRow], sync : [Composite -> [Slave -> Flag]]] \cup {None}, NEW todo \in SUBSET Composite
  PROVE  /\ Sending(h, snap, todo) \in Helper
         /\ Sending(h, snap, todo).pc = "next2"
         /\ Sending(h, snap, todo).comp = h.comp
         /\ Sending(h, snap, todo).todo = todo
         /\ Sending(h, snap, todo).snap = snap
         /\ Sending(h, snap, todo).stale = h.stale
         /\ Sending(h, snap, todo).pend = h.pend
  BY DEF Sending, Helper, MasterWaits

Chosen(h, c, snap) == [h EXCEPT !.pc = "found2", !.comp = c, !.todo = h.todo \ {c}, !.snap = snap]

LEMMA ChosenFields ==
  ASSUME NEW h \in Helper, NEW c \in Composite, NEW snap \in [rows : [Composite -> MasterRow], sync : [Composite -> [Slave -> Flag]]] \cup {None}
  PROVE  /\ Chosen(h, c, snap) \in Helper
         /\ Chosen(h, c, snap).pc = "found2"
         /\ Chosen(h, c, snap).comp = c
         /\ Chosen(h, c, snap).todo = h.todo \ {c}
         /\ Chosen(h, c, snap).snap = snap
         /\ Chosen(h, c, snap).stale = h.stale
         /\ Chosen(h, c, snap).pend = h.pend
  BY DEF Chosen, Helper, MasterWaits

ClosedHelper == [NoHelper EXCEPT !.pc = "closed"]

LEMMA ClosedHelperFields ==
  /\ ClosedHelper \in Helper
  /\ ClosedHelper.pc = "closed"
  /\ ClosedHelper.comp = None
  /\ ClosedHelper.todo = {}
  /\ ClosedHelper.snap = None
  /\ ClosedHelper.stale = {}
  /\ ClosedHelper.pend = None
  BY NoneAssumption DEF ClosedHelper, NoHelper, Helper, MasterWaits

OutOfStep(h) == [h EXCEPT !.failed = TRUE]

LEMMA OutOfStepFields ==
  ASSUME NEW h \in Helper
  PROVE  /\ OutOfStep(h) \in Helper
         /\ OutOfStep(h).pc = h.pc
         /\ OutOfStep(h).comp = h.comp
         /\ OutOfStep(h).todo = h.todo
         /\ OutOfStep(h).snap = h.snap
         /\ OutOfStep(h).stale = h.stale
         /\ OutOfStep(h).pend = h.pend
  BY DEF OutOfStep, Helper, MasterWaits

Sent(h) == [MasterRollback(h) EXCEPT !.pc = "next2"]

LEMMA SentFields ==
  ASSUME NEW h \in Helper
  PROVE  /\ Sent(h) \in Helper
         /\ Sent(h).pc = "next2"
         /\ Sent(h).comp = h.comp
         /\ Sent(h).todo = h.todo
         /\ Sent(h).snap = None
         /\ Sent(h).stale = {}
         /\ Sent(h).pend = None
  BY DEF Sent, MasterRollback, Helper, MasterWaits

Stale(h, c) == [h EXCEPT !.stale = h.stale \cup {c}]

LEMMA StaleFields ==
  ASSUME NEW h \in Helper, NEW c \in Composite
  PROVE  /\ Stale(h, c) \in Helper
         /\ Stale(h, c).pc = h.pc
         /\ Stale(h, c).comp = h.comp
         /\ Stale(h, c).todo = h.todo
         /\ Stale(h, c).snap = h.snap
         /\ Stale(h, c).stale = h.stale \cup {c}
         /\ Stale(h, c).pend = h.pend
  BY DEF Stale, Helper, MasterWaits

LEMMA RolledBackFields ==
  ASSUME NEW h \in Helper
  PROVE  /\ MasterRollback(h) \in Helper /\ MasterRollback(h).pc = h.pc /\ MasterRollback(h).comp = h.comp
         /\ MasterRollback(h).snap = None /\ MasterRollback(h).pend = None
  BY DEF MasterRollback, Helper, MasterWaits

LEMMA SnapshotFields ==
  ASSUME TypeOK
  PROVE  /\ Snapshot \in [rows : [Composite -> MasterRow], sync : [Composite -> [Slave -> Flag]]]
         /\ Snapshot # None /\ Snapshot.rows = mrow
<1>1. Snapshot \in [rows : [Composite -> MasterRow], sync : [Composite -> [Slave -> Flag]]]
  BY DEF TypeOK, Snapshot
<1> QED
  BY <1>1, NoneAssumption DEF Snapshot


(* ReturnAtSlave keeps the inductive invariant. *)
LEMMA ReturnAtSlaveStep ==
  ASSUME IInv, NEW s \in Slave, NEW k \in Curve, ReturnAtSlave(k, s)
  PROVE  IInv'
<1>1. PICK x \in Session, h \in Helper, u \in Seq(Message), d \in Seq(Message),
           r \in [Composite -> SlaveRow], m0 \in [Composite -> MasterRow], n \in Nat :
        x = ses[s] /\ h = hlp[s] /\ u = up[s] /\ d = down[s] /\ r = srow[s] /\ m0 = mrow /\ n = trouble
  BY Here
<1>2. SessionInv(x, h, u, d) /\ DataOf(x, h, u, d, r, m0, n, link[s])
  BY <1>1, Here
<1>3. /\ UNCHANGED <<mrow, sync, ses, hlp, up, down, link, trouble>> /\ done' = done \cup {k}
      /\ k \notin done /\ ServerOf[k] = s
  BY DEF ReturnAtSlave
<1>4. PICK c \in Composite : c = CompositeOf[k]
  BY SyncAssumption
<1>5. \A b \in Composite : \A j \in r[b].since : CompositeOf[j] = b /\ ServerOf[j] = s /\ j \in done
  BY <1>1, Here
<1>6. /\ k \notin r[c].since /\ Counts(m0, k) = 0 /\ (x.pend = None \/ x.comp # c)
  <2>1. k \notin r[c].since
    BY <1>3, <1>5
  <2>2. Counts(m0, k) = 0
    BY <1>1, <1>3 DEF IInv, DataInv, NotBefore
  <2>3. x.pend = None \/ x.comp # c
    BY <1>1, <1>4 DEF ReturnAtSlave, SlaveHolds
  <2> QED
    BY <2>1, <2>2, <2>3
<1>7. \A j \in Curve : r[c].local[j] \in Nat /\ m0[c].local[j] \in Nat
  BY CountsNat, SyncAssumption DEF SlaveRow, Tally
<1>8. \A j \in Curve : CompositeOf[j] = c => r[c].local[j] <= m0[c].local[j] + IF j \in r[c].since THEN 1 ELSE 0
  BY <1>1 DEF IInv, DataInv, SlaveNeverAhead
<1>9. r[c].local[k] = 0
  <2>1. r[c].local[k] \in Nat /\ m0[c].local[k] = 0
    BY <1>4, <1>6, <1>7 DEF Counts
  <2>2. r[c].local[k] <= m0[c].local[k] + IF k \in r[c].since THEN 1 ELSE 0
    BY <1>4, <1>8
  <2>3. r[c].local[k] <= 0 + 0
    BY <1>6, <2>1, <2>2
  <2> QED
    BY <2>1, <2>3
<1>10. PICK row \in SlaveRow : /\ row = [r[c] EXCEPT !.local = Plus(r[c].local, {k}), !.since = r[c].since \cup {k}, !.toMaster = TRUE]
                               /\ row.since = r[c].since \cup {k}
                               /\ \A j \in Curve \ {k} : row.local[j] = r[c].local[j]
                               /\ row.local[k] = 1
  <2>1. PICK a \in SlaveRow : a = r[c]
    BY <1>4
  <2>2. PICK l \in Tally : l = Plus(r[c].local, {k}) /\ l[k] = 1 /\ \A j \in Curve \ {k} : l[j] = r[c].local[j]
    <3>1. PICK q \in Tally : q = r[c].local /\ q[k] = 0
      BY <1>9, <2>1 DEF SlaveRow
    <3>2. 1 \in 0..(MaxTrouble + 1) /\ \A j \in Curve : q[j] \in 0..(MaxTrouble + 1) /\ q[j] \in Nat
      BY <3>1, SyncAssumption DEF Tally
    <3>3. \A j \in Curve : Plus(q, {k})[j] = IF j = k THEN 1 ELSE q[j]
      BY <3>1, <3>2 DEF Plus
    <3>4. Plus(q, {k}) \in Tally
      BY <3>2, <3>3 DEF Plus, Tally
    <3> QED
      BY <3>1, <3>3, <3>4
  <2>3. [a EXCEPT !.local = l, !.since = a.since \cup {k}, !.toMaster = TRUE] \in SlaveRow
    BY DEF SlaveRow
  <2>4. /\ [a EXCEPT !.local = l, !.since = a.since \cup {k}, !.toMaster = TRUE].since = a.since \cup {k}
        /\ [a EXCEPT !.local = l, !.since = a.since \cup {k}, !.toMaster = TRUE].local = l
    BY DEF SlaveRow
  <2> QED
    BY <2>1, <2>2, <2>3, <2>4
<1>11. srow' = [srow EXCEPT ![s][c] = row]
  BY <1>1, <1>4, <1>10 DEF ReturnAtSlave
<1>12. PICK w \in [Composite -> SlaveRow] :
          /\ w = srow'[s] /\ w[c].since = r[c].since \cup {k}
          /\ \A b \in Composite \ {c} : w[b] = r[b]
  <2>1. /\ srow'[s] \in [Composite -> SlaveRow] /\ srow'[s][c] = row
        /\ \A b \in Composite \ {c} : srow'[s][b] = srow[s][b]
    BY <1>11 DEF IInv, TypeOK
  <2>2. PICK w \in [Composite -> SlaveRow] : w = srow'[s]
    BY <2>1
  <2>3. w[c] = row /\ \A b \in Composite \ {c} : w[b] = r[b]
    BY <1>1, <2>1, <2>2
  <2>4. w[c].since = r[c].since \cup {k}
    BY <1>10, <2>3
  <2> QED
    BY <2>2, <2>3, <2>4
<1>13. DataOf(x, h, u, d, w, m0, n, link[s])
  BY ONLY <1>2, <1>4, <1>6, <1>12, DataReturned, k \in Curve
<1>14. ses' = [ses EXCEPT ![s] = x]
  BY <1>1, <1>3 DEF IInv, TypeOK
<1>15. SessionInv(x, hlp[s], up'[s], down'[s]) /\ DataOf(x, hlp[s], up'[s], down'[s], srow'[s], mrow, trouble, link[s])
  BY <1>1, <1>2, <1>3, <1>12, <1>13
<1>16. \A j \in row.since : CompositeOf[j] = c /\ ServerOf[j] = s /\ j \in done'
  BY <1>3, <1>4, <1>5, <1>10
<1>17. ASSUME NEW j \in Curve, CompositeOf[j] = c, j \notin row.since
       PROVE  row.local[j] <= mrow[c].local[j]
  <2>1. j # k /\ j \notin r[c].since
    BY <1>10, <1>17
  <2>2. r[c].local[j] <= m0[c].local[j] + IF j \in r[c].since THEN 1 ELSE 0
    BY <1>8, <1>17
  <2>3. r[c].local[j] <= m0[c].local[j] + 0 /\ m0[c].local[j] \in Nat
    BY <1>7, <2>1, <2>2
  <2>4. row.local[j] = r[c].local[j]
    BY <1>10, <2>1
  <2> QED
    BY <1>1, <2>3, <2>4
<1>18. ASSUME NEW j \in Curve, CompositeOf[j] = c, j \in row.since
       PROVE  row.local[j] <= mrow[c].local[j] + 1
  <2>1. CASE j = k
    <3>1. mrow[c].local[k] \in Nat /\ row.local[k] = 1
      BY <1>1, <1>7, <1>10
    <3> QED
      BY <2>1, <3>1
  <2>2. CASE j # k
    <3>1. j \in r[c].since /\ row.local[j] = r[c].local[j]
      BY <1>10, <1>18, <2>2
    <3>2. r[c].local[j] <= m0[c].local[j] + IF j \in r[c].since THEN 1 ELSE 0
      BY <1>8, <1>18
    <3> QED
      BY <1>1, <3>1, <3>2
  <2> QED
    BY <2>1, <2>2
<1>19. /\ up' \in [Slave -> Seq(Message)] /\ down' \in [Slave -> Seq(Message)]
       /\ \A t \in Slave \ {s} : up'[t] = up[t]
       /\ \A t \in Slave \ {s} : down'[t] = down[t]
       /\ done \subseteq done' /\ done' \subseteq Curve
  BY <1>3 DEF IInv, TypeOK
<1>20. \A j \in Curve : CompositeOf[j] = c /\ j \notin row.since => row.local[j] <= mrow[c].local[j]
  BY <1>17
<1>21. \A j \in Curve : CompositeOf[j] = c /\ j \in row.since => row.local[j] <= mrow[c].local[j] + 1
  BY <1>18
<1>22. UNCHANGED <<mrow, sync, hlp, link, trouble>>
  BY <1>3
<1> QED
  BY <1>11, <1>14, <1>15, <1>16, <1>19, <1>20, <1>21, <1>22, SlaveWrites

(* PopulateSlaveSync keeps the inductive invariant. *)
LEMMA PopulateSlaveSyncStep ==
  ASSUME IInv, NEW s \in Slave, PopulateSlaveSync(s)
  PROVE  IInv'
<1>1. PICK x \in Session, h \in Helper, u \in Seq(Message), d \in Seq(Message),
           r \in [Composite -> SlaveRow], m0 \in [Composite -> MasterRow], n \in Nat :
        x = ses[s] /\ h = hlp[s] /\ u = up[s] /\ d = down[s] /\ r = srow[s] /\ m0 = mrow /\ n = trouble
  BY Here
<1>2. SessionInv(x, h, u, d) /\ DataOf(x, h, u, d, r, m0, n, link[s])
  BY <1>1, Here
<1>3. UNCHANGED <<mrow, sync, srow, ses, link, done, trouble, up, down>> /\ h.pc = "start"
  BY <1>1 DEF PopulateSlaveSync, MasterDB
<1>4. PICK g \in Helper : /\ hlp' = [hlp EXCEPT ![s] = g]
                          /\ g.pc = "receive" /\ g.pend = h.pend /\ g.snap.rows = m0
  <2>1. PICK added \in SUBSET Composite : added = {c \in Composite : mrow[c].exists /\ sync[c][s] = "none"}
    OBVIOUS
  <2>2. PICK snap \in [rows : [Composite -> MasterRow], sync : [Composite -> [Slave -> Flag]]] :
          snap = Snapshot /\ snap.rows = mrow
    BY SnapshotFields DEF IInv
  <2>3. PICK g \in Helper : g = Populated(h, snap, added) /\ g.pc = "receive" /\ g.pend = h.pend /\ g.snap = snap
    BY PopulatedFields
  <2>4. hlp' = [hlp EXCEPT ![s] = g]
    BY <1>1, <2>1, <2>2, <2>3 DEF PopulateSlaveSync, Populated
  <2> QED
    BY <1>1, <2>2, <2>3, <2>4
<1>5. g.pend = None
  BY <1>2, <1>3, <1>4 DEF SessionInv, EndsInv
<1>6. SessionInv(x, g, u, d)
  BY ONLY <1>2, <1>3, <1>4, <1>5, LinesPopulate
<1>7. DataOf(x, g, u, d, r, m0, n, link[s])
  BY ONLY <1>2, <1>3, <1>4, <1>5, DataPopulate
<1>8. up' \in [Slave -> Seq(Message)] /\ down' \in [Slave -> Seq(Message)] /\ up' = up /\ down' = down
  BY <1>3 DEF IInv, TypeOK
<1>9. SessionInv(ses[s], g, up'[s], down'[s])
  BY <1>1, <1>3, <1>6, <1>7
<1>10. DataOf(ses[s], g, up'[s], down'[s], srow[s], mrow, trouble', link[s])
  BY <1>1, <1>3, <1>6, <1>7
<1>11. trouble' \in 0..MaxTrouble /\ trouble <= trouble' /\ sync' \in [Composite -> [Slave -> Flag]]
  BY <1>3, Here DEF IInv, TypeOK
<1> QED
  BY <1>9, <1>10, <1>11, <1>3, <1>4, <1>5, <1>8, QuietMaster

(* StartComposite keeps the inductive invariant. *)
LEMMA StartCompositeStep ==
  ASSUME IInv, NEW s \in Slave, StartComposite(s)
  PROVE  IInv'
<1>1. PICK x \in Session, h \in Helper, u \in Seq(Message), d \in Seq(Message),
           r \in [Composite -> SlaveRow], m0 \in [Composite -> MasterRow], n \in Nat :
        x = ses[s] /\ h = hlp[s] /\ u = up[s] /\ d = down[s] /\ r = srow[s] /\ m0 = mrow /\ n = trouble
  BY Here
<1>2. SessionInv(x, h, u, d) /\ DataOf(x, h, u, d, r, m0, n, link[s])
  BY <1>1, Here
<1>3. UNCHANGED <<mrow, sync, srow, ses, link, done, trouble>> /\ h.pc = "receive"
  BY <1>1 DEF StartComposite, MasterDB
<1>4. PICK v \in Seq(Message), m \in Message : v = up'[s] /\ m = ToMaster(s) /\ Took(u, m, v)
  BY <1>1, MasterReadsOne DEF IInv, StartComposite
<1>5. up' \in [Slave -> Seq(Message)] /\ \A t \in Slave \ {s} : up'[t] = up[t]
  BY MasterReadsOne DEF IInv, StartComposite
<1>6. m.type = "Begin" /\ m.comp \in Composite
  BY <1>4, MessageFields DEF StartComposite
<1>7. CASE /\ hlp' = [hlp EXCEPT ![s] = MasterRollback(hlp[s])]
           /\ MasterSays(s, <<SyncError, About("Error", m.comp)>>)
  <2>1. PICK g \in Helper : hlp' = [hlp EXCEPT ![s] = g] /\ g.pc = "receive" /\ g.comp = h.comp /\ g.snap = None /\ g.pend = None
    BY <1>1, <1>3, <1>7, RolledBackFields, ZenonT(60)
  <2>2. PICK e \in Seq(Message) : /\ e = down'[s] /\ Keeps(d, e)
                                  /\ e = d \/ PutTwo(d, SyncError, About("Error", m.comp), e)
    BY <1>1, <1>6, <1>7, Lines, MasterSaysTwo DEF IInv
  <2>3. down' \in [Slave -> Seq(Message)] /\ \A t \in Slave \ {s} : down'[t] = down[t]
    BY <1>6, <1>7, Lines, MasterSaysTwo DEF IInv
  <2>4. SessionInv(x, g, v, e)
    BY ONLY <1>2, <1>3, <1>4, <1>6, <2>1, <2>2, LinesRefuseBegin
  <2>5. DataOf(x, g, v, e, r, m0, n, link[s])
    BY ONLY <1>2, <1>3, <1>4, <1>6, <2>1, <2>2, DataRefuseBegin
  <2>6. SessionInv(ses[s], g, up'[s], down'[s])
    BY <1>1, <1>3, <1>4, <2>2, <2>4, <2>5
  <2>7. DataOf(ses[s], g, up'[s], down'[s], srow[s], mrow, trouble', link[s])
    BY <1>1, <1>3, <1>4, <2>2, <2>4, <2>5
  <2>8. trouble' \in 0..MaxTrouble /\ trouble <= trouble' /\ sync' \in [Composite -> [Slave -> Flag]]
    BY <1>3, Here DEF IInv, TypeOK
  <2> QED
    BY <2>6, <2>7, <2>8, <1>3, <1>5, <2>1, <2>3, QuietMaster
<1>8. CASE /\ hlp' = [hlp EXCEPT ![s] = [MasterRollback(hlp[s]) EXCEPT !.pc = "work", !.comp = m.comp, !.snap = Snapshot]]
           /\ MasterSays(s, <<About("Found", m.comp)>>)
  <2>1. PICK snap \in [rows : [Composite -> MasterRow], sync : [Composite -> [Slave -> Flag]]] :
          snap = Snapshot /\ snap # None /\ snap.rows = m0
    BY <1>1, SnapshotFields DEF IInv
  <2>2. PICK g \in Helper : /\ hlp' = [hlp EXCEPT ![s] = g]
                            /\ g.pc = "work" /\ g.comp = m.comp /\ g.snap # None /\ g.snap.rows = m0 /\ g.pend = None
    <3>1. PICK c \in Composite : c = m.comp
      BY <1>6
    <3>2. PICK g \in Helper : g = Accepted(h, c, snap) /\ g.pc = "work" /\ g.comp = c /\ g.snap = snap /\ g.pend = None
      BY AcceptedFields
    <3>3. hlp' = [hlp EXCEPT ![s] = g]
      BY <1>1, <1>8, <2>1, <3>1, <3>2 DEF Accepted
    <3> QED
      BY <2>1, <3>1, <3>2, <3>3
  <2>3. About("Found", m.comp) \in Message
    BY <1>6, Lines
  <2>4. PICK e \in Seq(Message) :
          /\ e = down'[s] /\ Keeps(d, e)
          /\ \/ link[s] /\ x.pc # "closed" /\ Put(d, About("Found", m.comp), e)
             \/ (~link[s] \/ x.pc = "closed") /\ e = d
    BY <1>1, <1>8, <2>3, MasterSaysOne DEF IInv
  <2>5. down' \in [Slave -> Seq(Message)] /\ \A t \in Slave \ {s} : down'[t] = down[t]
    BY <1>8, <2>3, MasterSaysOne DEF IInv
  <2>6. e = d \/ Put(d, About("Found", m.comp), e)
    BY <2>4
  <2>7. SessionInv(x, g, v, e)
    BY ONLY <1>2, <1>3, <1>4, <1>6, <2>2, <2>6, LinesAccept
  <2>8. DataOf(x, g, v, e, r, m0, n, link[s])
    BY ONLY <1>2, <1>3, <1>4, <1>6, <2>2, <2>4, <2>6, DataAccept
  <2>9. SessionInv(ses[s], g, up'[s], down'[s])
    BY <1>1, <1>3, <1>4, <2>4, <2>7, <2>8
  <2>10. DataOf(ses[s], g, up'[s], down'[s], srow[s], mrow, trouble', link[s])
    BY <1>1, <1>3, <1>4, <2>4, <2>7, <2>8
  <2>11. trouble' \in 0..MaxTrouble /\ trouble <= trouble' /\ sync' \in [Composite -> [Slave -> Flag]]
    BY <1>3, Here DEF IInv, TypeOK
  <2> QED
    BY <2>9, <2>10, <2>11, <1>3, <1>5, <2>2, <2>5, QuietMaster
<1> QED
  BY <1>4, <1>7, <1>8 DEF StartComposite

(* A composite is given up by the master.                                   *)
LEMMA Failing ==
  ASSUME IInv, NEW s \in Slave, NEW m \in Message, Took(up[s], m, up'[s]), GivesUp(hlp[s], m),
         up' \in [Slave -> Seq(Message)], \A t \in Slave \ {s} : up'[t] = up[t],
         FailComposite(s), UNCHANGED <<mrow, sync, srow, ses, link, done, trouble>>
  PROVE  IInv'
<1>1. PICK x \in Session, h \in Helper, u \in Seq(Message), d \in Seq(Message),
           r \in [Composite -> SlaveRow], m0 \in [Composite -> MasterRow], n \in Nat :
        x = ses[s] /\ h = hlp[s] /\ u = up[s] /\ d = down[s] /\ r = srow[s] /\ m0 = mrow /\ n = trouble
  BY Here
<1>2. SessionInv(x, h, u, d) /\ DataOf(x, h, u, d, r, m0, n, link[s])
  BY <1>1, Here
<1>3. UNCHANGED <<mrow, sync, srow, ses, link, done, trouble>>
  OBVIOUS
<1>4. PICK v \in Seq(Message) : v = up'[s] /\ Took(u, m, v)
  BY <1>1
<1>5. GivesUp(h, m)
  BY <1>1
<1>6. h.comp \in Composite
  BY <1>2, <1>5 DEF GivesUp, SessionInv, EndsInv, Helper
<1>7. PICK g \in Helper : hlp' = [hlp EXCEPT ![s] = g] /\ g.pc = "receive" /\ g.comp = h.comp /\ g.snap = None /\ g.pend = None
  <2>1. hlp' = [hlp EXCEPT ![s] = FailedAt(h)]
    BY <1>1 DEF FailComposite, FailedAt
  <2> QED
    BY <2>1, FailedAtFields
<1>8. MasterSays(s, <<About("Error", h.comp)>>) /\ About("Error", h.comp) \in Message
  BY <1>1, <1>6, Lines DEF FailComposite
<1>9. PICK e \in Seq(Message) :
        /\ e = down'[s] /\ Keeps(d, e)
        /\ \/ link[s] /\ x.pc # "closed" /\ Put(d, About("Error", h.comp), e)
           \/ (~link[s] \/ x.pc = "closed") /\ e = d
  BY <1>1, <1>8, MasterSaysOne DEF IInv
<1>10. down' \in [Slave -> Seq(Message)] /\ \A t \in Slave \ {s} : down'[t] = down[t]
  BY <1>8, MasterSaysOne DEF IInv
<1>11. e = d \/ Put(d, About("Error", h.comp), e)
  BY <1>9
<1>12. SessionInv(x, g, v, e)
  BY ONLY <1>2, <1>4, <1>5, <1>7, <1>11, LinesFail, m \in Message
<1>13. DataOf(x, g, v, e, r, m0, n, link[s])
  BY ONLY <1>2, <1>4, <1>5, <1>7, <1>9, <1>11, DataFail, m \in Message
<1>14. SessionInv(ses[s], g, up'[s], down'[s])
  BY <1>1, <1>3, <1>4, <1>9, <1>12, <1>13
<1>15. DataOf(ses[s], g, up'[s], down'[s], srow[s], mrow, trouble', link[s])
  BY <1>1, <1>3, <1>4, <1>9, <1>12, <1>13
<1>16. trouble' \in 0..MaxTrouble /\ trouble <= trouble' /\ sync' \in [Composite -> [Slave -> Flag]]
  BY <1>3, Here DEF IInv, TypeOK
<1> QED
  BY <1>14, <1>15, <1>16, <1>3, <1>7, <1>10, QuietMaster

(* The row that the master writes.                                          *)
LEMMA AddedRow ==
  ASSUME NEW row \in MasterRow, NEW K \in SUBSET Curve, \A k \in K : row.local[k] <= MaxTrouble
  PROVE  /\ [row EXCEPT !.local = Plus(row.local, K)] \in MasterRow
         /\ \A k \in Curve : [row EXCEPT !.local = Plus(row.local, K)].local[k]
                               = row.local[k] + (IF k \in K THEN 1 ELSE 0)
<1>1. PICK q \in Tally : q = row.local
  BY DEF MasterRow
<1>2. \A k \in Curve : q[k] \in Nat /\ q[k] \in 0..(MaxTrouble + 1)
  BY SyncAssumption DEF Tally
<1>3. \A k \in Curve : Plus(q, K)[k] = q[k] + (IF k \in K THEN 1 ELSE 0)
  BY DEF Plus
<1>4. ASSUME NEW k \in Curve
      PROVE  q[k] + (IF k \in K THEN 1 ELSE 0) \in 0..(MaxTrouble + 1)
  <2>1. CASE k \in K
    <3>1. q[k] <= MaxTrouble
      BY <1>1, <2>1
    <3> QED
      BY <1>2, <2>1, <3>1, SyncAssumption
  <2>2. CASE k \notin K
    BY <1>2, <2>2
  <2> QED
    BY <2>1, <2>2
<1>5. PICK p \in Tally : p = Plus(q, K)
  BY <1>4 DEF Plus, Tally
<1>6. [row EXCEPT !.local = p] \in MasterRow /\ [row EXCEPT !.local = p].local = p
  BY DEF MasterRow
<1> QED
  BY <1>1, <1>3, <1>5, <1>6

(* AddWork keeps the inductive invariant. *)
LEMMA AddWorkStep ==
  ASSUME IInv, NEW s \in Slave, AddWork(s)
  PROVE  IInv'
<1>1. PICK x \in Session, h \in Helper, u \in Seq(Message), d \in Seq(Message),
           r \in [Composite -> SlaveRow], m0 \in [Composite -> MasterRow], n \in Nat :
        x = ses[s] /\ h = hlp[s] /\ u = up[s] /\ d = down[s] /\ r = srow[s] /\ m0 = mrow /\ n = trouble
  BY Here
<1>2. SessionInv(x, h, u, d) /\ DataOf(x, h, u, d, r, m0, n, link[s])
  BY <1>1, Here
<1>3. UNCHANGED <<mrow, sync, srow, ses, link, done, trouble>> /\ h.pc = "work"
  BY <1>1 DEF AddWork, MasterDB
<1>4. PICK v \in Seq(Message), m \in Message : v = up'[s] /\ m = ToMaster(s) /\ Took(u, m, v)
  BY <1>1, MasterReadsOne DEF IInv, AddWork
<1>5. up' \in [Slave -> Seq(Message)] /\ \A t \in Slave \ {s} : up'[t] = up[t]
  BY MasterReadsOne DEF IInv, AddWork
<1>6. m.type = "Work" /\ m.curves \in SUBSET Curve /\ 1 \in DOMAIN u /\ u[1] = m
  BY <1>4, MessageFields DEF AddWork, Took
<1>7. h.comp \in Composite /\ h.pc # "closed"
  BY <1>2, <1>3 DEF SessionInv, EndsInv, Helper
<1>8. \A k \in m.curves : k \in r[h.comp].since /\ CompositeOf[k] = h.comp /\ m0[h.comp].local[k] <= MaxTrouble
  <2> SUFFICES ASSUME NEW k \in m.curves
               PROVE  k \in r[h.comp].since /\ CompositeOf[k] = h.comp /\ m0[h.comp].local[k] <= MaxTrouble
    OBVIOUS
  <2>1. m.comp = h.comp
    BY <1>2, <1>3, <1>6 DEF SessionInv, UpInv, Wanted
  <2>2. k \in r[h.comp].since
    BY <1>2, <1>6, <1>7, <2>1 DEF DataOf, WorkOf
  <2>3. CompositeOf[k] = h.comp
    BY <1>1, <1>7, <2>2, Here
  <2>4. Offers(h, u, m0, k)
    BY <1>6, <1>7 DEF Offers
  <2>5. m0[h.comp].local[k] <= n
    BY <1>2, <1>6, <2>3, <2>4 DEF DataOf, OfferedOf, Counts
  <2>6. n \in 0..MaxTrouble /\ m0[h.comp].local[k] \in Nat
    <3>1. trouble \in 0..MaxTrouble
      BY DEF IInv, TypeOK
    <3> QED
      BY <1>1, <1>6, <1>7, <3>1, CountsNat
  <2> QED
    BY <2>2, <2>3, <2>5, <2>6, SyncAssumption
<1>9. m.curves # {} => ~Locked(s, h.comp)
  BY <1>1, <1>4 DEF AddWork
<1>10. CASE /\ hlp' = [hlp EXCEPT ![s] = Added(h, IF m.curves = {} THEN None
                                                 ELSE [m0[h.comp] EXCEPT !.local = Plus(m0[h.comp].local, m.curves)])]
            /\ MasterSays(s, <<About("Begin", h.comp)>>)
  <2>1. PICK full \in MasterRow : /\ full = [m0[h.comp] EXCEPT !.local = Plus(m0[h.comp].local, m.curves)]
                                  /\ \A k \in Curve : full.local[k] = m0[h.comp].local[k] + (IF k \in m.curves THEN 1 ELSE 0)
    <3>1. PICK a \in MasterRow : a = m0[h.comp]
      BY <1>7
    <3>2. \A k \in m.curves : a.local[k] <= MaxTrouble
      BY <1>8, <3>1
    <3>3. PICK K \in SUBSET Curve : K = m.curves
      BY <1>6
    <3>4. \A k \in K : a.local[k] <= MaxTrouble
      BY <3>2, <3>3
    <3>5. PICK full \in MasterRow : /\ full = [a EXCEPT !.local = Plus(a.local, K)]
                                    /\ \A k \in Curve : full.local[k] = a.local[k] + (IF k \in K THEN 1 ELSE 0)
      <4>1. /\ [a EXCEPT !.local = Plus(a.local, K)] \in MasterRow
            /\ \A k \in Curve : [a EXCEPT !.local = Plus(a.local, K)].local[k] = a.local[k] + (IF k \in K THEN 1 ELSE 0)
        BY ONLY <3>4, AddedRow, ZenonT(60)
      <4> QED
        BY <4>1
    <3> QED
      BY <3>1, <3>3, <3>5
  <2>2. PICK row \in MasterRow \cup {None} :
          /\ row = IF m.curves = {} THEN None ELSE full
          /\ m.curves = {} => row = None
          /\ m.curves # {} => row # None /\ row = full
    BY NoneAssumption
  <2>3. PICK g \in Helper : /\ g = Added(h, row) /\ g.pc = "found" /\ g.comp = h.comp /\ g.snap = h.snap
                            /\ g.stale = h.stale /\ g.pend = row
    BY AddedFields
  <2>4. hlp' = [hlp EXCEPT ![s] = g]
    BY <1>10, <2>1, <2>2, <2>3
  <2>5. MasterSays(s, <<About("Begin", h.comp)>>) /\ About("Begin", h.comp) \in Message
    BY <1>7, <1>10, Lines
  <2>6. PICK e \in Seq(Message) :
          /\ e = down'[s] /\ Keeps(d, e)
          /\ \/ link[s] /\ x.pc # "closed" /\ Put(d, About("Begin", h.comp), e)
             \/ (~link[s] \/ x.pc = "closed") /\ e = d
    BY <1>1, <2>5, MasterSaysOne DEF IInv
  <2>7. down' \in [Slave -> Seq(Message)] /\ \A t \in Slave \ {s} : down'[t] = down[t]
    BY <2>5, MasterSaysOne DEF IInv
  <2>8. e = d \/ Put(d, About("Begin", h.comp), e)
    BY <2>6
  <2>9. SessionInv(x, g, v, e)
    BY ONLY <1>2, <1>3, <1>4, <1>6, <2>3, <2>8, LinesAddWork
  <2>10. Writes(h, g, m, m0) /\ (m.curves = {} => g.pend = None)
    BY <2>1, <2>2, <2>3 DEF Writes
  <2>11. DataOf(x, g, v, e, r, m0, n, link[s])
    BY ONLY <1>2, <1>3, <1>4, <1>6, <2>3, <2>6, <2>8, <2>10, DataAddWork, ZenonT(60)
  <2>12. g.pend # None => \A t \in Slave \ {s} : hlp[t].pend # None => hlp[t].comp # g.comp
    BY <1>9, <2>3, <2>10 DEF Locked, MasterHolds
  <2>13. SessionInv(ses[s], g, up'[s], down'[s])
    BY <1>1, <1>3, <1>4, <2>6, <2>9, <2>11
  <2>14. DataOf(ses[s], g, up'[s], down'[s], srow[s], mrow, trouble', link[s])
    BY <1>1, <1>3, <1>4, <2>6, <2>9, <2>11
  <2>15. trouble' \in 0..MaxTrouble /\ trouble <= trouble' /\ sync' \in [Composite -> [Slave -> Flag]]
    BY <1>3, Here DEF IInv, TypeOK
  <2> QED
    BY <2>13, <2>14, <2>15, <1>3, <1>5, <2>4, <2>7, <2>12, QuietMaster
<1>11. CASE FailComposite(s)
  <2>1. GivesUp(hlp[s], m)
    BY <1>1, <1>3, <1>6 DEF GivesUp
  <2> QED
    BY <1>1, <1>3, <1>4, <1>5, <1>11, <2>1, Failing
<1>12. \/ /\ hlp' = [hlp EXCEPT ![s] = Added(h, IF m.curves = {} THEN None
                                               ELSE [m0[h.comp] EXCEPT !.local = Plus(m0[h.comp].local, m.curves)])]
          /\ MasterSays(s, <<About("Begin", h.comp)>>)
       \/ FailComposite(s)
  BY <1>1, <1>4 DEF AddWork, Added
<1> QED
  BY <1>10, <1>11, <1>12

(* SendContent keeps the inductive invariant. *)
LEMMA SendContentStep ==
  ASSUME IInv, NEW s \in Slave, SendContent(s)
  PROVE  IInv'
<1>1. PICK x \in Session, h \in Helper, u \in Seq(Message), d \in Seq(Message),
           r \in [Composite -> SlaveRow], m0 \in [Composite -> MasterRow], n \in Nat :
        x = ses[s] /\ h = hlp[s] /\ u = up[s] /\ d = down[s] /\ r = srow[s] /\ m0 = mrow /\ n = trouble
  BY Here
<1>2. SessionInv(x, h, u, d) /\ DataOf(x, h, u, d, r, m0, n, link[s])
  BY <1>1, Here
<1>3. UNCHANGED <<mrow, sync, srow, ses, link, done, trouble>> /\ h.pc \in {"found", "found2"}
  BY <1>1 DEF SendContent, MasterDB
<1>4. PICK v \in Seq(Message), m \in Message : v = up'[s] /\ m = ToMaster(s) /\ Took(u, m, v)
  BY <1>1, MasterReadsOne DEF IInv, SendContent
<1>5. up' \in [Slave -> Seq(Message)] /\ \A t \in Slave \ {s} : up'[t] = up[t]
  BY MasterReadsOne DEF IInv, SendContent
<1>6. Took(u, About("Found", h.comp), v)
  BY <1>1, <1>4 DEF SendContent
<1>7. h.comp \in Composite /\ h.snap # None
  BY <1>2, <1>3 DEF SessionInv, EndsInv, Helper
<1>8. PICK l \in Tally : l = RowOf(h).local
  <2>1. CASE h.pend # None
    BY <2>1 DEF RowOf, Helper, MasterRow
  <2>2. CASE h.pend = None
    BY <1>7, <2>2 DEF RowOf, Helper, MasterRow
  <2> QED
    BY <2>1, <2>2
<1>9. PICK a \in Message : a = [type |-> "Content", comp |-> h.comp, local |-> l] /\ a.type = "Content" /\ a.comp = h.comp
                           /\ a.local = RowOf(h).local
  BY <1>7, <1>8, Lines
<1>10. PICK p \in {"answer", "answer2"} : /\ p = IF h.pc = "found" THEN "answer" ELSE "answer2"
                                          /\ (h.pc = "found" /\ p = "answer") \/ (h.pc = "found2" /\ p = "answer2")
  BY <1>3
<1>11. PICK g \in Helper : /\ g = MovedTo(h, p) /\ g.pc = p /\ g.comp = h.comp /\ g.snap = h.snap
                           /\ g.stale = h.stale /\ g.pend = h.pend
  BY MovedToFields
<1>12. hlp' = [hlp EXCEPT ![s] = g]
  BY <1>1, <1>10, <1>11 DEF SendContent, MovedTo
<1>13. MasterSays(s, <<a>>)
  BY <1>1, <1>8, <1>9 DEF SendContent, RowOf
<1>14. PICK e \in Seq(Message) :
        /\ e = down'[s] /\ Keeps(d, e)
        /\ \/ link[s] /\ x.pc # "closed" /\ Put(d, a, e)
           \/ (~link[s] \/ x.pc = "closed") /\ e = d
  BY <1>1, <1>13, MasterSaysOne DEF IInv
<1>15. down' \in [Slave -> Seq(Message)] /\ \A t \in Slave \ {s} : down'[t] = down[t]
  BY <1>13, MasterSaysOne DEF IInv
<1>16. e = d \/ Put(d, a, e)
  BY <1>14
<1>17. Answers(h, g)
  BY <1>10, <1>11 DEF Answers
<1>18. SessionInv(x, g, v, e)
  BY ONLY <1>2, <1>6, <1>9, <1>11, <1>16, <1>17, LinesContent
<1>19. DataOf(x, g, v, e, r, m0, n, link[s])
  <2>1. /\ a.type = "Content" /\ a.comp = h.comp /\ a.local = RowOf(h).local
        /\ g.comp = h.comp /\ g.snap = h.snap /\ g.pend = h.pend /\ g.stale = h.stale
        /\ Keeps(d, e)
    BY <1>9, <1>11, <1>14
  <2> QED
    BY ONLY <1>2, <1>6, <1>16, <1>17, <2>1, DataContent
<1>20. g.pend # None => \A t \in Slave \ {s} : hlp[t].pend # None => hlp[t].comp # g.comp
  BY <1>1, <1>11 DEF IInv, DataInv, Exclusive
<1>21. SessionInv(ses[s], g, up'[s], down'[s])
  BY <1>1, <1>3, <1>4, <1>14, <1>18, <1>19
<1>22. DataOf(ses[s], g, up'[s], down'[s], srow[s], mrow, trouble', link[s])
  BY <1>1, <1>3, <1>4, <1>14, <1>18, <1>19
<1>23. trouble' \in 0..MaxTrouble /\ trouble <= trouble' /\ sync' \in [Composite -> [Slave -> Flag]]
  BY <1>3, Here DEF IInv, TypeOK
<1> QED
  BY <1>21, <1>22, <1>23, <1>3, <1>5, <1>12, <1>15, <1>20, QuietMaster

(* StartSending keeps the inductive invariant. *)
LEMMA StartSendingStep ==
  ASSUME IInv, NEW s \in Slave, StartSending(s)
  PROVE  IInv'
<1>1. PICK x \in Session, h \in Helper, u \in Seq(Message), d \in Seq(Message),
           r \in [Composite -> SlaveRow], m0 \in [Composite -> MasterRow], n \in Nat :
        x = ses[s] /\ h = hlp[s] /\ u = up[s] /\ d = down[s] /\ r = srow[s] /\ m0 = mrow /\ n = trouble
  BY Here
<1>2. SessionInv(x, h, u, d) /\ DataOf(x, h, u, d, r, m0, n, link[s])
  BY <1>1, Here
<1>3. UNCHANGED <<mrow, sync, srow, ses, link, done, trouble>> /\ h.pc = "receive"
  BY <1>1 DEF StartSending, MasterDB
<1>4. PICK v \in Seq(Message), m \in Message : v = up'[s] /\ m = ToMaster(s) /\ Took(u, m, v)
  BY <1>1, MasterReadsOne DEF IInv, StartSending
<1>5. up' \in [Slave -> Seq(Message)] /\ \A t \in Slave \ {s} : up'[t] = up[t]
  BY MasterReadsOne DEF IInv, StartSending
<1>6. Took(u, NoMore, v) /\ h.pend = None
  BY <1>1, <1>2, <1>3, <1>4 DEF StartSending, SessionInv, EndsInv
<1>7. PICK snap \in [rows : [Composite -> MasterRow], sync : [Composite -> [Slave -> Flag]]] :
        /\ snap = IF h.snap = None THEN Snapshot ELSE h.snap
        /\ snap = h.snap \/ snap.rows = m0
  BY <1>1, SnapshotFields DEF IInv, Helper
<1>8. PICK todo \in SUBSET Composite : todo = {c \in Composite : snap.sync[c][s] = "send"} \cup h.added
  BY DEF Helper
<1>9. PICK g \in Helper : /\ g = Sending(h, snap, todo) /\ g.pc = "next2" /\ g.comp = h.comp /\ g.snap = snap
                          /\ g.stale = h.stale /\ g.pend = h.pend
  BY SendingFields
<1>10. hlp' = [hlp EXCEPT ![s] = g]
  BY <1>1, <1>7, <1>8, <1>9 DEF StartSending, Sending
<1>11. MasterSays(s, <<Start>>) /\ Start \in Message
  BY Lines DEF StartSending
<1>12. PICK e \in Seq(Message) :
        /\ e = down'[s] /\ Keeps(d, e)
        /\ \/ link[s] /\ x.pc # "closed" /\ Put(d, Start, e)
           \/ (~link[s] \/ x.pc = "closed") /\ e = d
  BY <1>1, <1>11, MasterSaysOne DEF IInv
<1>13. down' \in [Slave -> Seq(Message)] /\ \A t \in Slave \ {s} : down'[t] = down[t]
  BY <1>11, MasterSaysOne DEF IInv
<1>14. e = d \/ Put(d, Start, e)
  BY <1>12
<1>15. g.pend = None /\ ((g.snap = h.snap /\ g.stale = h.stale) \/ g.snap.rows = m0)
  BY <1>6, <1>7, <1>9
<1>16. SessionInv(x, g, v, e)
  BY ONLY <1>2, <1>3, <1>6, <1>9, <1>14, <1>15, LinesStartSending
<1>17. DataOf(x, g, v, e, r, m0, n, link[s])
  BY ONLY <1>2, <1>3, <1>6, <1>9, <1>12, <1>14, <1>15, DataStartSending
<1>18. SessionInv(ses[s], g, up'[s], down'[s])
  BY <1>1, <1>3, <1>4, <1>12, <1>16, <1>17
<1>19. DataOf(ses[s], g, up'[s], down'[s], srow[s], mrow, trouble', link[s])
  BY <1>1, <1>3, <1>4, <1>12, <1>16, <1>17
<1>20. trouble' \in 0..MaxTrouble /\ trouble <= trouble' /\ sync' \in [Composite -> [Slave -> Flag]]
  BY <1>3, Here DEF IInv, TypeOK
<1> QED
  BY <1>18, <1>19, <1>20, <1>3, <1>5, <1>10, <1>13, <1>15, QuietMaster

(* SendComposite keeps the inductive invariant. *)
LEMMA SendCompositeStep ==
  ASSUME IInv, NEW s \in Slave, SendComposite(s)
  PROVE  IInv'
<1>1. PICK x \in Session, h \in Helper, u \in Seq(Message), d \in Seq(Message),
           r \in [Composite -> SlaveRow], m0 \in [Composite -> MasterRow], n \in Nat :
        x = ses[s] /\ h = hlp[s] /\ u = up[s] /\ d = down[s] /\ r = srow[s] /\ m0 = mrow /\ n = trouble
  BY Here
<1>2. SessionInv(x, h, u, d) /\ DataOf(x, h, u, d, r, m0, n, link[s])
  BY <1>1, Here
<1>3. UNCHANGED <<mrow, sync, srow, ses, link, done, trouble, up>> /\ h.pc = "next2" /\ h.todo # {}
  BY <1>1 DEF SendComposite, MasterDB
<1>4. PICK c \in Composite : c = First(h.todo)
  BY <1>3, FirstMember DEF Helper
<1>5. h.pend = None
  BY <1>2, <1>3 DEF SessionInv, EndsInv
<1>7. PICK snap \in [rows : [Composite -> MasterRow], sync : [Composite -> [Slave -> Flag]]] :
        /\ snap = IF h.snap = None THEN Snapshot ELSE h.snap
        /\ snap # None
        /\ snap = h.snap \/ snap.rows = m0
  BY <1>1, SnapshotFields DEF IInv, Helper
<1>9. PICK g \in Helper : /\ g = Chosen(h, c, snap) /\ g.pc = "found2" /\ g.comp = c /\ g.snap = snap
                          /\ g.stale = h.stale /\ g.pend = h.pend
  BY ChosenFields
<1>10. hlp' = [hlp EXCEPT ![s] = g]
  BY <1>1, <1>4, <1>7, <1>9 DEF SendComposite, Chosen
<1>11. MasterSays(s, <<About("Begin", c)>>) /\ About("Begin", c) \in Message
  BY <1>1, <1>4, Lines DEF SendComposite
<1>12. PICK e \in Seq(Message) :
        /\ e = down'[s] /\ Keeps(d, e)
        /\ \/ link[s] /\ x.pc # "closed" /\ Put(d, About("Begin", c), e)
           \/ (~link[s] \/ x.pc = "closed") /\ e = d
  BY <1>1, <1>11, MasterSaysOne DEF IInv
<1>13. down' \in [Slave -> Seq(Message)] /\ \A t \in Slave \ {s} : down'[t] = down[t]
  BY <1>11, MasterSaysOne DEF IInv
<1>14. e = d \/ Put(d, About("Begin", c), e)
  BY <1>12
<1>15. g.snap # None /\ ((g.snap = h.snap /\ g.stale = h.stale) \/ g.snap.rows = m0)
  BY <1>7, <1>9
<1>16. SessionInv(x, g, u, e)
  BY ONLY <1>2, <1>3, <1>9, <1>14, <1>15, LinesSend
<1>17. DataOf(x, g, u, e, r, m0, n, link[s])
  BY ONLY <1>2, <1>3, <1>9, <1>12, <1>14, <1>15, DataSend, ZenonT(60)
<1>18. up' \in [Slave -> Seq(Message)] /\ \A t \in Slave \ {s} : up'[t] = up[t]
  BY <1>3 DEF IInv, TypeOK
<1>19. g.pend = None
  BY <1>5, <1>9
<1>20. SessionInv(ses[s], g, up'[s], down'[s])
  BY <1>1, <1>3, <1>12, <1>16, <1>17
<1>21. DataOf(ses[s], g, up'[s], down'[s], srow[s], mrow, trouble', link[s])
  BY <1>1, <1>3, <1>12, <1>16, <1>17
<1>22. trouble' \in 0..MaxTrouble /\ trouble <= trouble' /\ sync' \in [Composite -> [Slave -> Flag]]
  BY <1>3, Here DEF IInv, TypeOK
<1> QED
  BY <1>20, <1>21, <1>22, <1>3, <1>10, <1>13, <1>18, <1>19, QuietMaster

(* The master's side ends, with one line.                                   *)
LEMMA MasterClosing ==
  ASSUME IInv, NEW s \in Slave, hlp[s].pc # "idle", NEW l \in {NoMore, SyncError}, MasterCloses(s, <<l>>),
         up' \in [Slave -> Seq(Message)], \A t \in Slave \ {s} : up'[t] = up[t],
         up'[s] = up[s] \/ \E m \in Message : Took(up[s], m, up'[s]),
         trouble' \in 0..MaxTrouble, trouble <= trouble',
         UNCHANGED <<mrow, sync, srow, ses, link, done>>
  PROVE  IInv'
<1>1. PICK x \in Session, h \in Helper, u \in Seq(Message), d \in Seq(Message),
           r \in [Composite -> SlaveRow], m0 \in [Composite -> MasterRow], n \in Nat :
        x = ses[s] /\ h = hlp[s] /\ u = up[s] /\ d = down[s] /\ r = srow[s] /\ m0 = mrow /\ n = trouble
  BY Here
<1>2. SessionInv(x, h, u, d) /\ DataOf(x, h, u, d, r, m0, n, link[s])
  BY <1>1, Here
<1>3. PICK v \in Seq(Message) : v = up'[s] /\ (v = u \/ \E m \in Message : Took(u, m, v))
  BY <1>1
<1>4. PICK n2 \in Nat : n2 = trouble' /\ n <= n2
  BY <1>1, SyncAssumption
<1>5. PICK g \in Helper : /\ hlp' = [hlp EXCEPT ![s] = g]
                          /\ g.pc = "closed" /\ g.comp = None /\ g.snap = None /\ g.pend = None
  <2>1. hlp' = [hlp EXCEPT ![s] = ClosedHelper]
    BY DEF MasterCloses, ClosedHelper
  <2> QED
    BY <2>1, ClosedHelperFields
<1>6. MasterSays(s, <<l>>) /\ l \in Message
  BY Lines DEF MasterCloses
<1>7. PICK e \in Seq(Message) :
        /\ e = down'[s] /\ Keeps(d, e)
        /\ \/ link[s] /\ x.pc # "closed" /\ Put(d, l, e)
           \/ (~link[s] \/ x.pc = "closed") /\ e = d
  BY <1>1, <1>6, MasterSaysOne DEF IInv
<1>8. down' \in [Slave -> Seq(Message)] /\ \A t \in Slave \ {s} : down'[t] = down[t]
  BY <1>6, MasterSaysOne DEF IInv
<1>9. e = d \/ Put(d, l, e)
  BY <1>7
<1>10. h.pc # "idle"
  BY <1>1
<1>11. SessionInv(x, g, v, e)
  BY ONLY <1>2, <1>3, <1>5, <1>9, <1>10, LinesMasterCloses, l \in {NoMore, SyncError}
<1>12. DataOf(x, g, v, e, r, m0, n2, link[s])
  <2>1. n <= n2 /\ Keeps(d, e) /\ h.pc # "idle" /\ g.pc = "closed" /\ g.comp = None /\ g.snap = None /\ g.pend = None
    BY <1>4, <1>5, <1>7, <1>10
  <2>2. CASE v = u
    BY ONLY <1>2, <1>9, <2>1, <2>2, DataMasterCloses, l \in {NoMore, SyncError}
  <2>3. CASE \E m \in Message : Took(u, m, v)
    BY ONLY <1>2, <1>9, <2>1, <2>3, DataMasterCloses, l \in {NoMore, SyncError}
  <2> QED
    BY <1>3, <2>2, <2>3
<1>13. SessionInv(ses[s], g, up'[s], down'[s])
  BY <1>1, <1>3, <1>7, <1>11
<1>14. DataOf(ses[s], g, up'[s], down'[s], srow[s], mrow, trouble', link[s])
  BY <1>1, <1>3, <1>4, <1>7, <1>12
<1>15. sync' \in [Composite -> [Slave -> Flag]]
  BY DEF IInv, TypeOK
<1> QED
  BY <1>5, <1>8, <1>13, <1>14, <1>15, QuietMaster

(* EndSending keeps the inductive invariant. *)
LEMMA EndSendingStep ==
  ASSUME IInv, NEW s \in Slave, EndSending(s)
  PROVE  IInv'
<1>1. /\ UNCHANGED <<mrow, sync, srow, ses, link, done, trouble, up>> /\ MasterCloses(s, <<NoMore>>)
      /\ hlp[s].pc # "idle"
  BY DEF EndSending, MasterDB
<1>2. up' \in [Slave -> Seq(Message)] /\ trouble' \in 0..MaxTrouble /\ trouble <= trouble'
  BY <1>1, Here DEF IInv, TypeOK
<1> QED
  BY <1>1, <1>2, MasterClosing

(* MasterTimesOut keeps the inductive invariant. *)
LEMMA MasterTimesOutStep ==
  ASSUME IInv, NEW s \in Slave, MasterTimesOut(s)
  PROVE  IInv'
<1>1. /\ UNCHANGED <<mrow, sync, srow, ses, link, done, up>> /\ MasterCloses(s, <<SyncError>>)
      /\ hlp[s].pc # "idle"
  BY DEF MasterTimesOut, MasterWaits
<1>2. up' \in [Slave -> Seq(Message)]
  BY <1>1 DEF IInv, TypeOK
<1>3. trouble' \in 0..MaxTrouble /\ trouble <= trouble'
  <2>1. trouble \in 0..MaxTrouble
    BY DEF IInv, TypeOK
  <2> QED
    BY <2>1, SyncAssumption DEF MasterTimesOut, Trouble
<1> QED
  BY <1>1, <1>2, <1>3, MasterClosing

(* CompositeSent keeps the inductive invariant. *)
LEMMA CompositeSentStep ==
  ASSUME IInv, NEW s \in Slave, CompositeSent(s)
  PROVE  IInv'
<1>1. PICK x \in Session, h \in Helper, u \in Seq(Message), d \in Seq(Message),
           r \in [Composite -> SlaveRow], m0 \in [Composite -> MasterRow], n \in Nat :
        x = ses[s] /\ h = hlp[s] /\ u = up[s] /\ d = down[s] /\ r = srow[s] /\ m0 = mrow /\ n = trouble
  BY Here
<1>2. SessionInv(x, h, u, d) /\ DataOf(x, h, u, d, r, m0, n, link[s])
  BY <1>1, Here
<1>3. UNCHANGED <<mrow, srow, ses, link, done, trouble>> /\ h.pc = "answer2"
  BY <1>1 DEF CompositeSent
<1>4. PICK v \in Seq(Message), m \in Message : v = up'[s] /\ m = ToMaster(s) /\ Took(u, m, v)
  BY <1>1, MasterReadsOne DEF IInv, CompositeSent
<1>5. up' \in [Slave -> Seq(Message)] /\ \A t \in Slave \ {s} : up'[t] = up[t]
  BY MasterReadsOne DEF IInv, CompositeSent
<1>6. Took(u, About("OK", h.comp), v)
  BY <1>1, <1>4 DEF CompositeSent
<1>7. trouble' \in 0..MaxTrouble /\ trouble <= trouble'
  BY <1>3, Here DEF IInv, TypeOK
<1>8. CASE /\ sync' = [d1 \in Composite |->
                [sync[d1] EXCEPT ![s] = IF d1 = hlp[s].comp THEN "clear"
                                        ELSE IF d1 \in hlp[s].added THEN "send" ELSE @]]
           /\ hlp' = [hlp EXCEPT ![s] = Sent(h)]
           /\ UNCHANGED down
  <2>1. sync' \in [Composite -> [Slave -> Flag]]
    BY <1>8 DEF IInv, TypeOK, Flag
  <2>2. PICK g \in Helper : /\ hlp' = [hlp EXCEPT ![s] = g]
                            /\ g.pc = "next2" /\ g.comp = h.comp /\ g.snap = None /\ g.pend = None
    BY <1>8, SentFields
  <2>3. SessionInv(x, g, v, d)
    BY ONLY <1>2, <1>3, <1>6, <2>2, LinesSent
  <2>4. DataOf(x, g, v, d, r, m0, n, link[s])
    BY ONLY <1>2, <1>3, <1>6, <2>2, DataSent
  <2>5. down' \in [Slave -> Seq(Message)] /\ \A t \in Slave \ {s} : down'[t] = down[t]
    BY <1>8 DEF IInv, TypeOK
  <2>6. SessionInv(ses[s], g, up'[s], down'[s])
    BY <1>1, <1>4, <1>8, <2>3
  <2>7. DataOf(ses[s], g, up'[s], down'[s], srow[s], mrow, trouble', link[s])
    BY <1>1, <1>3, <1>4, <1>8, <2>4
  <2> QED
    BY <1>3, <1>5, <1>7, <2>1, <2>2, <2>5, <2>6, <2>7, QuietMaster
<1>9. CASE MasterCloses(s, <<NoMore>>) /\ UNCHANGED sync
  BY <1>1, <1>3, <1>4, <1>5, <1>7, <1>9, MasterClosing
<1>10. \/ /\ sync' = [d1 \in Composite |->
               [sync[d1] EXCEPT ![s] = IF d1 = hlp[s].comp THEN "clear"
                                       ELSE IF d1 \in hlp[s].added THEN "send" ELSE @]]
          /\ hlp' = [hlp EXCEPT ![s] = Sent(h)]
          /\ UNCHANGED down
       \/ MasterCloses(s, <<NoMore>>) /\ UNCHANGED sync
  BY <1>1 DEF CompositeSent, Sent
<1> QED
  BY <1>8, <1>9, <1>10

(* MasterSkips keeps the inductive invariant. *)
LEMMA MasterSkipsStep ==
  ASSUME IInv, NEW s \in Slave, MasterSkips(s)
  PROVE  IInv'
<1>1. PICK x \in Session, h \in Helper, u \in Seq(Message), d \in Seq(Message),
           r \in [Composite -> SlaveRow], m0 \in [Composite -> MasterRow], n \in Nat :
        x = ses[s] /\ h = hlp[s] /\ u = up[s] /\ d = down[s] /\ r = srow[s] /\ m0 = mrow /\ n = trouble
  BY Here
<1>2. SessionInv(x, h, u, d) /\ DataOf(x, h, u, d, r, m0, n, link[s])
  BY <1>1, Here
<1>3. UNCHANGED <<mrow, sync, srow, ses, link, done, trouble>>
  BY DEF MasterSkips, MasterDB
<1>4. PICK v \in Seq(Message), m \in Message : v = up'[s] /\ m = ToMaster(s) /\ Took(u, m, v)
  BY <1>1, MasterReadsOne DEF IInv, MasterSkips
<1>5. up' \in [Slave -> Seq(Message)] /\ \A t \in Slave \ {s} : up'[t] = up[t]
  BY MasterReadsOne DEF IInv, MasterSkips
<1>6. ASSUME Ignores(h, m), NEW g \in Helper, hlp' = [hlp EXCEPT ![s] = g],
             g.pc = h.pc, g.comp = h.comp, g.pend = h.pend, g.snap = h.snap, g.stale = h.stale,
             \/ h.pc \in {"receive", "work"} /\ MasterSays(s, <<SyncError>>)
             \/ down' = down
      PROVE  IInv'
  <2>1. PICK e \in Seq(Message) : /\ e = down'[s] /\ Keeps(d, e)
                                  /\ e = d \/ (h.pc \in {"receive", "work"} /\ Put(d, SyncError, e))
    <3>1. CASE h.pc \in {"receive", "work"} /\ MasterSays(s, <<SyncError>>)
      BY <1>1, <3>1, Lines, MasterSaysOne DEF IInv
    <3>2. CASE down' = down
      BY <1>1, <3>2 DEF Keeps
    <3> QED
      BY <1>6, <3>1, <3>2
  <2>2. down' \in [Slave -> Seq(Message)] /\ \A t \in Slave \ {s} : down'[t] = down[t]
    <3>1. CASE MasterSays(s, <<SyncError>>)
      BY <3>1, Lines, MasterSaysOne DEF IInv
    <3>2. CASE down' = down
      BY <3>2 DEF IInv, TypeOK
    <3> QED
      BY <1>6, <3>1, <3>2
  <2>3. /\ Took(u, m, v) /\ Ignores(h, m)
        /\ g.pc = h.pc /\ g.comp = h.comp /\ g.pend = h.pend /\ g.snap = h.snap /\ g.stale = h.stale
    BY <1>4, <1>6
  <2>4. SessionInv(x, g, v, e)
    BY ONLY <1>2, <2>1, <2>3, LinesMasterSkips
  <2>5. DataOf(x, g, v, e, r, m0, n, link[s])
    BY ONLY <1>2, <2>1, <2>3, DataMasterSkips
  <2>6. g.pend # None => \A t \in Slave \ {s} : hlp[t].pend # None => hlp[t].comp # g.comp
    BY <1>1, <2>3 DEF IInv, DataInv, Exclusive
  <2>7. hlp' = [hlp EXCEPT ![s] = g]
    BY <1>6
  <2>8. SessionInv(ses[s], g, up'[s], down'[s])
    BY <1>1, <1>3, <1>4, <2>1, <2>4, <2>5
  <2>9. DataOf(ses[s], g, up'[s], down'[s], srow[s], mrow, trouble', link[s])
    BY <1>1, <1>3, <1>4, <2>1, <2>4, <2>5
  <2>10. trouble' \in 0..MaxTrouble /\ trouble <= trouble' /\ sync' \in [Composite -> [Slave -> Flag]]
    BY <1>3, Here DEF IInv, TypeOK
  <2> QED
    BY <2>8, <2>9, <2>10, <1>3, <1>5, <2>2, <2>6, <2>7, QuietMaster
<1>7. hlp' = hlp => hlp' = [hlp EXCEPT ![s] = h]
  BY <1>1 DEF IInv, TypeOK
<1>8. CASE h.pc = "receive" /\ m.type \notin {"Begin", "NoMore"} /\ MasterSays(s, <<SyncError>>) /\ UNCHANGED hlp
  <2>1. Ignores(h, m)
    BY <1>8 DEF Ignores
  <2> QED
    BY <1>6, <1>7, <1>8, <2>1
<1>9. CASE /\ h.pc = "work" /\ m.type # "Work" /\ MasterSays(s, IF h.failed THEN <<>> ELSE <<SyncError>>)
           /\ hlp' = [hlp EXCEPT ![s] = OutOfStep(h)]
  <2>1. Ignores(h, m)
    BY <1>9 DEF Ignores
  <2>2. PICK g \in Helper : /\ hlp' = [hlp EXCEPT ![s] = g]
                            /\ g.pc = h.pc /\ g.comp = h.comp /\ g.pend = h.pend /\ g.snap = h.snap /\ g.stale = h.stale
    BY <1>9, OutOfStepFields
  <2>3. MasterSays(s, <<SyncError>>) \/ down' = down
    BY <1>9, MasterSaysNothing DEF IInv
  <2> QED
    BY <1>6, <1>9, <2>1, <2>2, <2>3
<1>10. CASE h.pc = "found" /\ m # About("Found", h.comp) /\ FailComposite(s)
  <2>1. GivesUp(hlp[s], m)
    BY <1>1, <1>10 DEF GivesUp
  <2> QED
    BY <1>1, <1>3, <1>4, <1>5, <1>10, <2>1, Failing
<1>11. CASE h.pc = "found2" /\ MasterCloses(s, <<NoMore>>)
  <2>1. trouble' \in 0..MaxTrouble /\ trouble <= trouble' /\ hlp[s].pc # "idle"
    BY <1>1, <1>3, <1>11, Here DEF IInv, TypeOK
  <2> QED
    BY <1>1, <1>3, <1>4, <1>5, <1>11, <2>1, MasterClosing
<1>12. CASE h.pc \in {"answer", "answer2"} /\ m # About("OK", h.comp) /\ UNCHANGED <<hlp, down>>
  <2>1. Ignores(h, m)
    BY <1>12 DEF Ignores
  <2> QED
    BY <1>6, <1>7, <1>12, <2>1
<1>13. \/ h.pc = "receive" /\ m.type \notin {"Begin", "NoMore"} /\ MasterSays(s, <<SyncError>>) /\ UNCHANGED hlp
       \/ /\ h.pc = "work" /\ m.type # "Work" /\ MasterSays(s, IF h.failed THEN <<>> ELSE <<SyncError>>)
          /\ hlp' = [hlp EXCEPT ![s] = OutOfStep(h)]
       \/ h.pc = "found" /\ m # About("Found", h.comp) /\ FailComposite(s)
       \/ h.pc = "found2" /\ MasterCloses(s, <<NoMore>>)
       \/ h.pc \in {"answer", "answer2"} /\ m # About("OK", h.comp) /\ UNCHANGED <<hlp, down>>
  BY <1>1, <1>4 DEF MasterSkips, OutOfStep
<1> QED
  BY <1>8, <1>9, <1>10, <1>11, <1>12, <1>13

(* A composite of the master is written.                                    *)
LEMMA MasterWrites ==
  ASSUME IInv, NEW c \in Composite, mrow' \in [Composite -> MasterRow],
         sync' \in [Composite -> [Slave -> Flag]], hlp' \in [Slave -> Helper],
         up' \in [Slave -> Seq(Message)], down' \in [Slave -> Seq(Message)],
         done \subseteq done', done' \subseteq Curve, UNCHANGED <<srow, ses, link, trouble>>,
         \A b \in Composite \ {c} : mrow'[b] = mrow[b],
         \A k \in Curve : mrow[c].local[k] <= mrow'[c].local[k],
         \A k \in Curve : mrow'[c].local[k] # mrow[c].local[k] =>
           CompositeOf[k] = c /\ k \in done' /\ mrow'[c].local[k] <= 1 + trouble,
         \A t \in Slave : SessionInv(ses[t], hlp'[t], up'[t], down'[t]),
         \A t \in Slave : DataOf(ses[t], hlp'[t], up'[t], down'[t], srow[t], mrow', trouble, link[t]),
         Exclusive'
  PROVE  IInv'
<1>1. TypeOK'
  BY DEF IInv, TypeOK
<1>2. ProtocolInv'
  BY DEF ProtocolInv
<1>3. ASSUME NEW t \in Slave
      PROVE  /\ DataOf(ses'[t], hlp'[t], up'[t], down'[t], srow'[t], mrow', trouble', link'[t])
             /\ SinceOf(t, srow'[t], done')
  <2>1. SinceOf(t, srow[t], done)
    BY DEF IInv, DataInv
  <2>2. SinceOf(t, srow[t], done')
    BY <2>1 DEF SinceOf
  <2> QED
    BY <2>2
<1>4. ASSUME NEW k \in Curve
      PROVE  /\ Counts(mrow, k) \in Nat /\ Counts(mrow', k) \in Nat /\ Counts(mrow, k) <= Counts(mrow', k)
             /\ Counts(mrow', k) # Counts(mrow, k) => k \in done' /\ Counts(mrow', k) <= 1 + trouble
  <2>1. CompositeOf[k] \in Composite
    BY SyncAssumption
  <2>2. Counts(mrow, k) \in Nat /\ Counts(mrow', k) \in Nat
    BY CountsNat DEF IInv, TypeOK
  <2>3. CASE CompositeOf[k] = c
    BY <2>2, <2>3 DEF Counts
  <2>4. CASE CompositeOf[k] # c
    BY <2>1, <2>2, <2>4 DEF Counts
  <2> QED
    BY <2>3, <2>4
<1>5. NotBefore'
  <2> SUFFICES ASSUME NEW k \in Curve, k \notin done'
               PROVE  Counts(mrow', k) = 0
    BY DEF NotBefore
  <2>1. Counts(mrow, k) = 0
    BY DEF IInv, DataInv, NotBefore
  <2> QED
    BY <1>4, <2>1
<1>6. SlaveNeverAhead'
  <2> SUFFICES ASSUME NEW t \in Slave, NEW k \in Curve
               PROVE  srow[t][CompositeOf[k]].local[k]
                        <= Counts(mrow', k) + IF k \in srow[t][CompositeOf[k]].since THEN 1 ELSE 0
    BY DEF SlaveNeverAhead, Counts
  <2>1. srow[t][CompositeOf[k]].local[k]
          <= Counts(mrow, k) + IF k \in srow[t][CompositeOf[k]].since THEN 1 ELSE 0
    BY DEF IInv, DataInv, SlaveNeverAhead, Counts
  <2>2. srow[t][CompositeOf[k]].local[k] \in Nat
    <3>1. CompositeOf[k] \in Composite
      BY SyncAssumption
    <3>2. srow[t][CompositeOf[k]] \in SlaveRow
      BY <3>1 DEF IInv, TypeOK
    <3>3. srow[t][CompositeOf[k]].local \in Tally
      BY <3>2 DEF SlaveRow
    <3>4. srow[t][CompositeOf[k]].local[k] \in 0..(MaxTrouble + 1)
      BY <3>3 DEF Tally
    <3> QED
      BY <3>4
  <2>3. CASE k \in srow[t][CompositeOf[k]].since
    BY <1>4, <2>1, <2>2, <2>3
  <2>4. CASE k \notin srow[t][CompositeOf[k]].since
    BY <1>4, <2>1, <2>2, <2>4
  <2> QED
    BY <2>3, <2>4
<1>7. OneRecountPerFailure'
  <2> SUFFICES ASSUME NEW k \in Curve
               PROVE  Counts(mrow', k) <= 1 + trouble
    BY DEF OneRecountPerFailure, Counts
  <2>1. Counts(mrow, k) <= 1 + trouble
    BY DEF IInv, DataInv, OneRecountPerFailure, Counts
  <2> QED
    BY <1>4, <2>1
<1> QED
  BY <1>1, <1>2, <1>3, <1>5, <1>6, <1>7 DEF IInv, DataInv

(* What the transactions of the others make of it.                          *)
LEMMA OthersSee ==
  ASSUME IInv, NEW t \in Slave, NEW c \in Composite, NEW w \in [Composite -> MasterRow], NEW g,
         \/ g = IF hlp[t].snap = None THEN hlp[t] ELSE Stale(hlp[t], c)
         \/ g = hlp[t] /\ w[c].local = mrow[c].local,
         \A b \in Composite \ {c} : w[b] = mrow[b],
         \A k \in Curve : mrow[c].local[k] <= w[c].local[k],
         \A k \in srow[t][c].since : w[c].local[k] = mrow[c].local[k],
         hlp[t].pend # None => hlp[t].comp # c \/ w[c].local = mrow[c].local
  PROVE  /\ g \in Helper /\ g.comp = hlp[t].comp /\ g.pend = hlp[t].pend
         /\ SessionInv(ses[t], g, up[t], down[t])
         /\ DataOf(ses[t], g, up[t], down[t], srow[t], w, trouble, link[t])
<1>1. PICK x \in Session, h \in Helper, u \in Seq(Message), d \in Seq(Message),
           r \in [Composite -> SlaveRow], m0 \in [Composite -> MasterRow], n \in Nat :
        x = ses[t] /\ h = hlp[t] /\ u = up[t] /\ d = down[t] /\ r = srow[t] /\ m0 = mrow /\ n = trouble
  BY Here
<1>2. /\ SessionInv(x, h, u, d) /\ DataOf(x, h, u, d, r, m0, n, link[t])
      /\ \A b \in Composite : \A k \in r[b].since : CompositeOf[k] = b
  BY <1>1, Here
<1>3. PICK f \in Helper : /\ f = g /\ f.pc = h.pc /\ f.comp = h.comp /\ f.snap = h.snap /\ f.pend = h.pend
                          /\ h.stale \subseteq f.stale
                          /\ h.snap # None => c \in f.stale \/ w[c].local = m0[c].local
  <2>1. CASE g = hlp[t] /\ (hlp[t].snap = None \/ w[c].local = mrow[c].local)
    BY <1>1, <2>1
  <2>2. CASE g = Stale(hlp[t], c)
    BY <1>1, <2>2, StaleFields
  <2> QED
    BY <2>1, <2>2
<1>4. /\ h.pend # None => h.comp # c \/ w[c].local = m0[c].local
      /\ \A b \in Composite \ {c} : w[b] = m0[b]
      /\ \A k \in Curve : m0[c].local[k] <= w[c].local[k]
      /\ \A k \in r[c].since : w[c].local[k] = m0[c].local[k]
  BY <1>1
<1>5. SessionInv(x, f, u, d)
  BY ONLY <1>2, <1>3, LinesSame
<1>6. DataOf(x, f, u, d, r, w, n, link[t])
  BY ONLY <1>2, <1>3, <1>4, DataOther, c \in Composite, w \in [Composite -> MasterRow]
<1> QED
  BY <1>1, <1>3, <1>5, <1>6

(* What the master commits at the end of a composite.                       *)
LEMMA Committed ==
  ASSUME NEW x \in Session, NEW h \in Helper, NEW u \in Seq(Message), NEW d \in Seq(Message),
         NEW r \in [Composite -> SlaveRow], NEW m0 \in [Composite -> MasterRow], NEW n \in Nat, NEW l0,
         SessionInv(x, h, u, d), DataOf(x, h, u, d, r, m0, n, l0), h.pc = "answer",
         \A k \in r[h.comp].since : CompositeOf[k] = h.comp,
         NEW row \in MasterRow, row = IF h.pend # None THEN h.pend ELSE m0[h.comp]
  PROVE  /\ h.comp \in Composite
         /\ \A k \in Curve : m0[h.comp].local[k] <= row.local[k]
         /\ \A k \in Curve : row.local[k] # m0[h.comp].local[k] =>
              CompositeOf[k] = h.comp /\ k \in r[h.comp].since /\ row.local[k] <= 1 + n
<1>1. h.comp \in Composite
  BY DEF SessionInv, EndsInv, Helper
<1>2. \A k \in Curve : m0[h.comp].local[k] \in Nat
  BY <1>1, CountsNat
<1>3. ASSUME NEW k \in Curve
      PROVE  /\ m0[h.comp].local[k] <= row.local[k]
             /\ row.local[k] # m0[h.comp].local[k] =>
                  CompositeOf[k] = h.comp /\ k \in r[h.comp].since /\ row.local[k] <= 1 + n
  <2>1. CASE row.local[k] = m0[h.comp].local[k]
    BY <1>2, <2>1
  <2>2. CASE row.local[k] # m0[h.comp].local[k]
    <3>1. h.pend # None /\ row.local[k] = h.pend.local[k]
      BY <2>2
    <3>2. row.local[k] = m0[h.comp].local[k] + 1 /\ k \in r[h.comp].since
      BY <2>2, <3>1 DEF DataOf, PendOf
    <3>3. CompositeOf[k] = h.comp
      BY <3>2
    <3>4. Offers(h, u, m0, k)
      BY <2>2, <3>1, <3>3 DEF Offers
    <3>5. m0[h.comp].local[k] <= n
      BY <3>3, <3>4 DEF DataOf, OfferedOf, Counts
    <3> QED
      BY <1>2, <3>2, <3>3, <3>5
  <2> QED
    BY <2>1, <2>2
<1> QED
  BY <1>1, <1>3

(* MasterCommits keeps the inductive invariant. *)
LEMMA MasterCommitsStep ==
  ASSUME IInv, NEW s \in Slave, MasterCommits(s)
  PROVE  IInv'
<1>1. PICK x \in Session, h \in Helper, u \in Seq(Message), d \in Seq(Message),
           r \in [Composite -> SlaveRow], m0 \in [Composite -> MasterRow], n \in Nat :
        x = ses[s] /\ h = hlp[s] /\ u = up[s] /\ d = down[s] /\ r = srow[s] /\ m0 = mrow /\ n = trouble
  BY Here
<1>2. SessionInv(x, h, u, d) /\ DataOf(x, h, u, d, r, m0, n, link[s])
  BY <1>1, Here
<1>3. UNCHANGED <<srow, ses, link, done, trouble>> /\ h.pc = "answer"
  BY <1>1 DEF MasterCommits
<1>4. PICK v \in Seq(Message), m \in Message : v = up'[s] /\ m = ToMaster(s) /\ Took(u, m, v)
  BY <1>1, MasterReadsOne DEF IInv, MasterCommits
<1>5. up' \in [Slave -> Seq(Message)] /\ \A t \in Slave \ {s} : up'[t] = up[t]
  BY MasterReadsOne DEF IInv, MasterCommits
<1>6. m = About("OK", h.comp) /\ ~Locked(s, h.comp)
  BY <1>1, <1>4 DEF MasterCommits
<1>7. \A b \in Composite : \A k \in r[b].since : CompositeOf[k] = b /\ ServerOf[k] = s /\ k \in done
  BY <1>1, Here
<1>8. h.comp \in Composite
  BY <1>2, <1>3 DEF SessionInv, EndsInv, Helper
<1>9. CASE FailComposite(s) /\ UNCHANGED <<mrow, sync>>
  <2>1. GivesUp(hlp[s], m)
    BY <1>1, <1>3, <1>6 DEF GivesUp, About
  <2> QED
    BY <1>1, <1>3, <1>4, <1>5, <1>9, <2>1, Failing
<1>10. ASSUME NEW seen,
              mrow' = [mrow EXCEPT ![h.comp] = IF h.pend # None THEN h.pend ELSE m0[h.comp]],
              sync' = [sync EXCEPT ![h.comp] = Flagged(h.comp, seen)],
              hlp' = HelpersAfter(s, FailedAt(h), h.comp),
              MasterSays(s, <<About("OK", h.comp)>>)
       PROVE  IInv'
  <2>1. PICK row \in MasterRow : row = IF h.pend # None THEN h.pend ELSE m0[h.comp]
    BY <1>8 DEF Helper
  <2>2. PICK w \in [Composite -> MasterRow] : w = mrow' /\ w[h.comp] = row /\ \A b \in Composite \ {h.comp} : w[b] = m0[b]
    BY <1>1, <1>8, <1>10, <2>1
  <2>3. \A k \in r[h.comp].since : CompositeOf[k] = h.comp
    BY <1>7, <1>8
  <2>4. /\ \A k \in Curve : m0[h.comp].local[k] <= row.local[k]
        /\ \A k \in Curve : row.local[k] # m0[h.comp].local[k] =>
             CompositeOf[k] = h.comp /\ k \in r[h.comp].since /\ row.local[k] <= 1 + n
    <3>1. h.pc = "answer"
      BY <1>3
    <3> QED
      BY ONLY <1>2, <2>1, <2>3, <3>1, Committed, SMTT(60)
  <2>5. PICK g \in Helper : g = FailedAt(h) /\ g.pc = "receive" /\ g.comp = h.comp /\ g.snap = None /\ g.pend = None
    BY FailedAtFields
  <2>6. About("OK", h.comp) \in Message
    BY <1>8, Lines
  <2>7. PICK e \in Seq(Message) :
          /\ e = down'[s] /\ Keeps(d, e)
          /\ \/ link[s] /\ x.pc # "closed" /\ Put(d, About("OK", h.comp), e)
             \/ (~link[s] \/ x.pc = "closed") /\ e = d
    BY <1>1, <1>10, <2>6, MasterSaysOne DEF IInv
  <2>8. down' \in [Slave -> Seq(Message)] /\ \A t \in Slave \ {s} : down'[t] = down[t]
    BY <1>10, <2>6, MasterSaysOne DEF IInv
  <2>9. e = d \/ Put(d, About("OK", h.comp), e)
    BY <2>7
  <2>10. Took(u, About("OK", h.comp), v)
    BY <1>4, <1>6
  <2>11. e = d \/ (x.pc # "closed" /\ Put(d, About("OK", h.comp), e))
    BY <2>7
  <2>12. SessionInv(x, g, v, e)
    BY ONLY <1>2, <1>3, <2>5, <2>10, <2>11, LinesMasterCommits
  <2>13. w[h.comp].local = IF h.pend # None THEN h.pend.local ELSE m0[h.comp].local
    BY <2>1, <2>2
  <2>14. DataOf(x, g, v, e, r, w, n, link[s])
    <3>1. /\ g.pc = "receive" /\ g.comp = h.comp /\ g.snap = None /\ g.pend = None /\ h.pc = "answer"
          /\ \A b \in Composite \ {h.comp} : w[b] = m0[b]
          /\ Keeps(d, e)
      BY <1>3, <2>2, <2>5, <2>7
    <3>2. \/ link[s] /\ x.pc # "closed" /\ Put(d, About("OK", h.comp), e)
          \/ (~link[s] \/ x.pc = "closed") /\ e = d
      BY <2>7
    <3> QED
      BY ONLY <1>2, <2>3, <2>10, <2>13, <3>1, <3>2, DataMasterCommits, ZenonT(60)
  <2>15. /\ hlp'[s] = g
         /\ \A t \in Slave \ {s} : hlp'[t] = IF hlp[t].snap = None THEN hlp[t] ELSE Stale(hlp[t], h.comp)
         /\ hlp' = [t \in Slave |-> hlp'[t]]
    BY <1>10, <2>5 DEF HelpersAfter, Stale
  <2>16. ASSUME NEW t \in Slave \ {s}
         PROVE  /\ hlp'[t] \in Helper /\ hlp'[t].comp = hlp[t].comp /\ hlp'[t].pend = hlp[t].pend
                /\ SessionInv(ses[t], hlp'[t], up[t], down[t])
                /\ DataOf(ses[t], hlp'[t], up[t], down[t], srow[t], w, trouble, link[t])
    <3>1. hlp'[t] = IF hlp[t].snap = None THEN hlp[t] ELSE Stale(hlp[t], h.comp)
      BY <2>15
    <3>2. \A k \in srow[t][h.comp].since : w[h.comp].local[k] = mrow[h.comp].local[k]
      <4> SUFFICES ASSUME NEW k \in srow[t][h.comp].since, w[h.comp].local[k] # mrow[h.comp].local[k]
                   PROVE  FALSE
        OBVIOUS
      <4>1. ServerOf[k] = t /\ k \in done
        BY <1>8, Here
      <4>2. k \in Curve
        BY <4>1 DEF IInv, TypeOK
      <4>3. k \in r[h.comp].since
        BY <1>1, <2>2, <2>4, <4>2
      <4> QED
        BY <1>7, <1>8, <4>1, <4>3
    <3>3. hlp[t].pend # None => hlp[t].comp # h.comp
      BY <1>6 DEF Locked, MasterHolds
    <3>4. /\ \A b \in Composite \ {h.comp} : w[b] = mrow[b]
          /\ \A k \in Curve : mrow[h.comp].local[k] <= w[h.comp].local[k]
      BY <1>1, <2>2, <2>4
    <3> QED
      BY <1>8, <3>1, <3>2, <3>3, <3>4, OthersSee
  <2>17. hlp' \in [Slave -> Helper]
    BY <2>15, <2>16
  <2>18. sync' \in [Composite -> [Slave -> Flag]]
    <3>1. Flagged(h.comp, seen) \in [Slave -> Flag]
      BY <1>8 DEF Flagged, IInv, TypeOK, Flag
    <3> QED
      BY <1>10, <3>1 DEF IInv, TypeOK
  <2>19. \A t \in Slave : SessionInv(ses[t], hlp'[t], up'[t], down'[t])
    BY <1>1, <1>4, <1>5, <2>7, <2>8, <2>12, <2>15, <2>16
  <2>20. \A t \in Slave : DataOf(ses[t], hlp'[t], up'[t], down'[t], srow[t], mrow', trouble, link[t])
    BY <1>1, <1>4, <1>5, <2>2, <2>7, <2>8, <2>14, <2>15, <2>16
  <2>21. Exclusive'
    <3> SUFFICES ASSUME NEW a \in Slave, NEW b \in Slave, a # b, hlp'[a].pend # None, hlp'[b].pend # None
                 PROVE  hlp'[a].comp # hlp'[b].comp
      BY DEF Exclusive
    <3>1. a # s /\ b # s
      BY <2>5, <2>15
    <3> QED
      BY <2>16, <3>1 DEF IInv, DataInv, Exclusive
  <2>22. /\ \A k \in Curve : mrow[h.comp].local[k] <= mrow'[h.comp].local[k]
         /\ \A k \in Curve : mrow'[h.comp].local[k] # mrow[h.comp].local[k] =>
              CompositeOf[k] = h.comp /\ k \in done' /\ mrow'[h.comp].local[k] <= 1 + trouble
         /\ \A b \in Composite \ {h.comp} : mrow'[b] = mrow[b]
    BY <1>1, <1>3, <1>7, <1>8, <2>2, <2>4
  <2>23. done \subseteq done' /\ done' \subseteq Curve /\ mrow' \in [Composite -> MasterRow]
    BY <1>3, <2>2 DEF IInv, TypeOK
  <2> QED
    BY <1>3, <1>5, <1>8, <2>8, <2>17, <2>18, <2>19, <2>20, <2>21, <2>22, <2>23, MasterWrites
<1>11. \/ FailComposite(s) /\ UNCHANGED <<mrow, sync>>
       \/ /\ mrow' = [mrow EXCEPT ![h.comp] = IF h.pend # None THEN h.pend ELSE m0[h.comp]]
          /\ sync' = [sync EXCEPT ![h.comp] = Flagged(h.comp, IF Postgres THEN hlp[s].snap.sync ELSE sync)]
          /\ hlp' = HelpersAfter(s, FailedAt(h), h.comp)
          /\ MasterSays(s, <<About("OK", h.comp)>>)
  BY <1>1 DEF MasterCommits, FailedAt
<1> QED
  BY <1>9, <1>10, <1>11

(* ReturnAtMaster keeps the inductive invariant. *)
LEMMA ReturnAtMasterStep ==
  ASSUME IInv, NEW k \in Curve, ReturnAtMaster(k)
  PROVE  IInv'
<1>1. /\ UNCHANGED <<srow, ses, up, down, link, trouble>> /\ done' = done \cup {k}
      /\ k \notin done
  BY DEF ReturnAtMaster
<1>2. PICK c \in Composite : c = CompositeOf[k]
  BY SyncAssumption
<1>3. PICK m0 \in [Composite -> MasterRow] : m0 = mrow
  BY DEF IInv, TypeOK
<1>4. m0[c].local[k] = 0 /\ \A j \in Curve : m0[c].local[j] \in Nat
  BY <1>1, <1>2, <1>3, CountsNat DEF IInv, DataInv, NotBefore, Counts
<1>5. PICK row \in MasterRow : /\ row = [m0[c] EXCEPT !.local = Plus(m0[c].local, {k})]
                               /\ \A j \in Curve : row.local[j] = m0[c].local[j] + (IF j \in {k} THEN 1 ELSE 0)
  <2>1. PICK a \in MasterRow : a = m0[c]
    BY <1>2
  <2>2. \A j \in {k} : a.local[j] <= MaxTrouble
    BY <1>4, <2>1, SyncAssumption
  <2>3. /\ [a EXCEPT !.local = Plus(a.local, {k})] \in MasterRow
        /\ \A j \in Curve : [a EXCEPT !.local = Plus(a.local, {k})].local[j] = a.local[j] + (IF j \in {k} THEN 1 ELSE 0)
    BY ONLY <2>2, {k} \in SUBSET Curve, AddedRow
  <2> QED
    BY <2>1, <2>3
<1>6. PICK w \in [Composite -> MasterRow] : w = mrow' /\ w[c] = row /\ \A b \in Composite \ {c} : w[b] = m0[b]
  <2>1. mrow' = [mrow EXCEPT ![c] = row]
    BY <1>2, <1>3, <1>5 DEF ReturnAtMaster
  <2> QED
    BY <1>2, <1>3, <2>1
<1>7. \A j \in Curve : /\ m0[c].local[j] <= w[c].local[j]
                       /\ w[c].local[j] # m0[c].local[j] => j = k /\ w[c].local[j] = 1
  BY <1>4, <1>5, <1>6
<1>8. hlp' = HelpersAfter(Master, NoHelper, c) /\ ~Locked(Master, c)
  BY <1>2 DEF ReturnAtMaster
<1>9. \A t \in Slave : hlp'[t] = IF hlp[t].snap = None THEN hlp[t] ELSE Stale(hlp[t], c)
  BY <1>8, SyncAssumption DEF HelpersAfter, Stale
<1>10. ASSUME NEW t \in Slave
       PROVE  /\ hlp'[t] \in Helper /\ hlp'[t].comp = hlp[t].comp /\ hlp'[t].pend = hlp[t].pend
              /\ SessionInv(ses[t], hlp'[t], up[t], down[t])
              /\ DataOf(ses[t], hlp'[t], up[t], down[t], srow[t], w, trouble, link[t])
  <2>1. hlp'[t] = IF hlp[t].snap = None THEN hlp[t] ELSE Stale(hlp[t], c)
    BY <1>9
  <2>2. \A j \in srow[t][c].since : w[c].local[j] = mrow[c].local[j]
    <3> SUFFICES ASSUME NEW j \in srow[t][c].since
                 PROVE  w[c].local[j] = mrow[c].local[j]
      OBVIOUS
    <3>1. j \in done
      BY <1>2, Here
    <3>2. j \in Curve /\ j # k
      BY <1>1, <3>1 DEF IInv, TypeOK
    <3> QED
      BY <1>3, <1>7, <3>2
  <2>3. hlp[t].pend # None => hlp[t].comp # c
    BY <1>8, SyncAssumption DEF Locked, MasterHolds
  <2>4. (\A b \in Composite \ {c} : w[b] = mrow[b]) /\ \A j \in Curve : mrow[c].local[j] <= w[c].local[j]
    BY <1>3, <1>6, <1>7
  <2> QED
    BY <2>1, <2>2, <2>3, <2>4, OthersSee
<1>11. hlp' \in [Slave -> Helper]
  BY <1>8, <1>10 DEF HelpersAfter
<1>12. sync' \in [Composite -> [Slave -> Flag]]
  <2>1. Flagged(c, sync) \in [Slave -> Flag]
    BY <1>2 DEF Flagged, IInv, TypeOK, Flag
  <2> QED
    BY <1>2, <2>1 DEF IInv, TypeOK, ReturnAtMaster
<1>13. \A t \in Slave : SessionInv(ses[t], hlp'[t], up'[t], down'[t])
  BY <1>1, <1>10
<1>14. \A t \in Slave : DataOf(ses[t], hlp'[t], up'[t], down'[t], srow[t], mrow', trouble, link[t])
  BY <1>1, <1>6, <1>10
<1>15. Exclusive'
  BY <1>10 DEF IInv, DataInv, Exclusive
<1>16. /\ \A j \in Curve : mrow[c].local[j] <= mrow'[c].local[j]
       /\ \A b \in Composite \ {c} : mrow'[b] = mrow[b]
  BY <1>3, <1>6, <1>7
<1>17. \A j \in Curve : mrow'[c].local[j] # mrow[c].local[j] =>
         CompositeOf[j] = c /\ j \in done' /\ mrow'[c].local[j] <= 1 + trouble
  <2>1. trouble \in Nat /\ 1 <= 1 + trouble
    BY SyncAssumption DEF IInv, TypeOK
  <2> QED
    BY <1>1, <1>2, <1>3, <1>6, <1>7, <2>1
<1>18. /\ done \subseteq done' /\ done' \subseteq Curve /\ mrow' \in [Composite -> MasterRow]
       /\ up' \in [Slave -> Seq(Message)] /\ down' \in [Slave -> Seq(Message)]
  BY <1>1, <1>6 DEF IInv, TypeOK
<1> QED
  BY <1>1, <1>11, <1>12, <1>13, <1>14, <1>15, <1>16, <1>17, <1>18, MasterWrites

(* AddComposite keeps the inductive invariant. *)
LEMMA AddCompositeStep ==
  ASSUME IInv, NEW c \in Later, AddComposite(c)
  PROVE  IInv'
<1>1. UNCHANGED <<sync, srow, ses, hlp, up, down, link, done, trouble>> /\ c \in Composite
  BY SyncAssumption DEF AddComposite
<1>2. PICK w \in [Composite -> MasterRow] : /\ w = mrow' /\ w[c].local = mrow[c].local
                                            /\ \A b \in Composite \ {c} : w[b] = mrow[b]
  <2>1. PICK a \in MasterRow : a = mrow[c]
    BY <1>1 DEF IInv, TypeOK
  <2>2. PICK row \in MasterRow : row = [a EXCEPT !.exists = TRUE] /\ row.local = a.local
    <3>1. [a EXCEPT !.exists = TRUE] \in MasterRow /\ [a EXCEPT !.exists = TRUE].local = a.local
      BY DEF MasterRow
    <3> QED
      BY <3>1
  <2>3. mrow' = [mrow EXCEPT ![c] = row]
    BY <2>1, <2>2 DEF AddComposite
  <2>4. mrow \in [Composite -> MasterRow] /\ c \in Composite
    BY <1>1 DEF IInv, TypeOK
  <2>5. mrow' \in [Composite -> MasterRow] /\ mrow'[c] = row /\ \A b \in Composite \ {c} : mrow'[b] = mrow[b]
    BY <2>3, <2>4, Updated
  <2> QED
    BY <2>1, <2>2, <2>5
<1>3. \A k \in Curve : mrow[c].local[k] \in Nat
  BY <1>1, CountsNat DEF IInv, TypeOK
<1>4. ASSUME NEW t \in Slave
      PROVE  /\ SessionInv(ses[t], hlp[t], up[t], down[t])
             /\ DataOf(ses[t], hlp[t], up[t], down[t], srow[t], w, trouble, link[t])
  <2>1. (\A k \in Curve : mrow[c].local[k] <= w[c].local[k]) /\ \A k \in srow[t][c].since : w[c].local[k] = mrow[c].local[k]
    BY <1>2, <1>3
  <2> QED
    BY <1>1, <1>2, <2>1, OthersSee
<1>5. \A t \in Slave : SessionInv(ses[t], hlp'[t], up'[t], down'[t])
  BY <1>1, <1>4
<1>6. \A t \in Slave : DataOf(ses[t], hlp'[t], up'[t], down'[t], srow[t], mrow', trouble, link[t])
  BY <1>1, <1>2, <1>4
<1>7. Exclusive' /\ \A k \in Curve : mrow[c].local[k] <= mrow'[c].local[k]
  BY <1>1, <1>2, <1>3 DEF IInv, DataInv, Exclusive
<1>8. /\ done \subseteq done' /\ done' \subseteq Curve /\ mrow' \in [Composite -> MasterRow] /\ hlp' \in [Slave -> Helper]
      /\ up' \in [Slave -> Seq(Message)] /\ down' \in [Slave -> Seq(Message)] /\ sync' \in [Composite -> [Slave -> Flag]]
  BY <1>1, <1>2 DEF IInv, TypeOK
<1>9. /\ \A b \in Composite \ {c} : mrow'[b] = mrow[b]
      /\ \A k \in Curve : mrow'[c].local[k] # mrow[c].local[k] =>
           CompositeOf[k] = c /\ k \in done' /\ mrow'[c].local[k] <= 1 + trouble
  BY <1>2
<1> QED
  BY <1>1, <1>5, <1>6, <1>7, <1>8, <1>9, MasterWrites

(* A session that is over.                                                  *)
LEMMA OverFields ==
  /\ NoSession \in Session /\ NoSession.pc = "idle" /\ NoSession.snap = None /\ NoSession.pend = None
  /\ NoHelper \in Helper /\ NoHelper.pc = "idle" /\ NoHelper.comp = None /\ NoHelper.snap = None /\ NoHelper.pend = None
  BY DEF NoSession, NoHelper, Session, Helper, SlaveWaits, MasterWaits

(* EndSession keeps the inductive invariant. *)
LEMMA EndSessionStep ==
  ASSUME IInv, NEW s \in Slave, EndSession(s)
  PROVE  IInv'
<1>1. PICK x \in Session, h \in Helper, u \in Seq(Message), d \in Seq(Message),
           r \in [Composite -> SlaveRow], m0 \in [Composite -> MasterRow], n \in Nat :
        x = ses[s] /\ h = hlp[s] /\ u = up[s] /\ d = down[s] /\ r = srow[s] /\ m0 = mrow /\ n = trouble
  BY Here
<1>2. SessionInv(x, h, u, d) /\ DataOf(x, h, u, d, r, m0, n, link[s])
  BY <1>1, Here
<1>3. UNCHANGED <<mrow, sync, srow, done, trouble>> /\ x.pc = "closed" /\ h.pc = "closed"
  BY <1>1 DEF EndSession
<1>4. PICK y \in Session, g \in Helper :
        /\ y = NoSession /\ y.pc = "idle" /\ y.snap = None /\ y.pend = None
        /\ g = NoHelper /\ g.pc = "idle" /\ g.comp = None /\ g.snap = None /\ g.pend = None
  BY OverFields
<1>5. SessionInv(y, g, <<>>, <<>>)
  BY ONLY <1>2, <1>4, LinesIdle
<1>6. DataOf(y, g, <<>>, <<>>, r, m0, n, FALSE)
  BY ONLY <1>2, <1>3, <1>4, DataIdle
<1>7. ses' \in [Slave -> Session] /\ ses'[s] = y /\ \A t \in Slave \ {s} : ses'[t] = ses[t]
  BY <1>4, Updated DEF IInv, TypeOK, EndSession
<1>8. hlp' \in [Slave -> Helper] /\ hlp'[s] = g /\ \A t \in Slave \ {s} : hlp'[t] = hlp[t]
  BY <1>4, Updated DEF IInv, TypeOK, EndSession
<1>9. link' \in [Slave -> BOOLEAN] /\ link'[s] = FALSE /\ \A t \in Slave \ {s} : link'[t] = link[t]
  BY DEF IInv, TypeOK, EndSession
<1>10. /\ up' \in [Slave -> Seq(Message)] /\ up'[s] = <<>> /\ \A t \in Slave \ {s} : up'[t] = up[t]
       /\ down' \in [Slave -> Seq(Message)] /\ down'[s] = <<>> /\ \A t \in Slave \ {s} : down'[t] = down[t]
  <2>1. <<>> \in Seq(Message)
    OBVIOUS
  <2> QED
    BY <2>1 DEF IInv, TypeOK, EndSession
<1>11. /\ trouble' \in 0..MaxTrouble /\ trouble <= trouble' /\ sync' \in [Composite -> [Slave -> Flag]]
       /\ UNCHANGED <<mrow, srow, done>>
  BY <1>3, Here DEF IInv, TypeOK
<1>12. SessionInv(ses'[s], hlp'[s], up'[s], down'[s])
  BY <1>5, <1>7, <1>8, <1>10
<1>13. DataOf(ses'[s], hlp'[s], up'[s], down'[s], srow[s], mrow, trouble', link'[s])
  BY <1>1, <1>3, <1>6, <1>7, <1>8, <1>9, <1>10
<1>14. \A t \in Slave \ {s} : /\ ses'[t] = ses[t] /\ hlp'[t] = hlp[t] /\ up'[t] = up[t]
                              /\ down'[t] = down[t] /\ link'[t] = link[t]
  BY <1>7, <1>8, <1>9, <1>10
<1>15. hlp'[s].pend = None
  BY <1>4, <1>8
<1> QED
  BY <1>7, <1>8, <1>9, <1>10, <1>11, <1>12, <1>13, <1>14, <1>15, Quiet

(* LoseConnection keeps the inductive invariant. *)
LEMMA LoseConnectionStep ==
  ASSUME IInv, NEW s \in Slave, LoseConnection(s)
  PROVE  IInv'
<1>1. PICK x \in Session, h \in Helper, u \in Seq(Message), d \in Seq(Message),
           r \in [Composite -> SlaveRow], m0 \in [Composite -> MasterRow], n \in Nat :
        x = ses[s] /\ h = hlp[s] /\ u = up[s] /\ d = down[s] /\ r = srow[s] /\ m0 = mrow /\ n = trouble
  BY Here
<1>2. SessionInv(x, h, u, d) /\ DataOf(x, h, u, d, r, m0, n, link[s])
  BY <1>1, Here
<1>3. UNCHANGED <<mrow, sync, srow, ses, hlp, done>> /\ trouble' = trouble + 1 /\ trouble' \in 0..MaxTrouble
  <2>1. trouble \in 0..MaxTrouble
    BY DEF IInv, TypeOK
  <2> QED
    BY <2>1, SyncAssumption DEF LoseConnection, Trouble
<1>4. PICK i \in 0..Len(up[s]), j \in 0..Len(down[s]) :
        /\ up' = [up EXCEPT ![s] = SubSeq(up[s], 1, i)]
        /\ down' = [down EXCEPT ![s] = SubSeq(down[s], 1, j)]
  BY DEF LoseConnection
<1>5. PICK v \in Seq(Message) : v = SubSeq(u, 1, i) /\ Len(v) <= Len(u) /\ \A q \in DOMAIN v : q \in DOMAIN u /\ v[q] = u[q]
  <2>1. i \in 0..Len(u)
    BY <1>1
  <2>2. /\ SubSeq(u, 1, i) \in Seq(Message) /\ Len(SubSeq(u, 1, i)) = i
        /\ \A q \in DOMAIN SubSeq(u, 1, i) : q \in DOMAIN u /\ SubSeq(u, 1, i)[q] = u[q]
    BY <2>1, Cuts
  <2>3. i <= Len(u)
    BY <2>1
  <2> QED
    BY <2>2, <2>3
<1>6. PICK e \in Seq(Message) : e = SubSeq(d, 1, j) /\ Len(e) <= Len(d) /\ \A q \in DOMAIN e : q \in DOMAIN d /\ e[q] = d[q]
  <2>1. j \in 0..Len(d)
    BY <1>1
  <2>2. /\ SubSeq(d, 1, j) \in Seq(Message) /\ Len(SubSeq(d, 1, j)) = j
        /\ \A q \in DOMAIN SubSeq(d, 1, j) : q \in DOMAIN d /\ SubSeq(d, 1, j)[q] = d[q]
    BY <2>1, Cuts
  <2>3. j <= Len(d)
    BY <2>1
  <2> QED
    BY <2>2, <2>3
<1>7. \A k \in Curve : Counts(m0, k) <= n + 1
  <2>1. \A k \in Curve : Counts(m0, k) \in Nat /\ Counts(m0, k) <= 1 + n
    BY <1>1, CountsNat DEF IInv, DataInv, OneRecountPerFailure, Counts
  <2> QED
    BY <2>1
<1>8. SessionInv(x, h, v, e)
  BY ONLY <1>2, <1>5, <1>6, LinesCut
<1>9. DataOf(x, h, v, e, r, m0, n + 1, FALSE)
  BY ONLY <1>2, <1>5, <1>6, <1>7, DataCut, ZenonT(60)
<1>10. link' \in [Slave -> BOOLEAN] /\ link'[s] = FALSE /\ \A t \in Slave \ {s} : link'[t] = link[t]
  BY DEF IInv, TypeOK, LoseConnection
<1>11. /\ up' \in [Slave -> Seq(Message)] /\ up'[s] = v /\ \A t \in Slave \ {s} : up'[t] = up[t]
       /\ down' \in [Slave -> Seq(Message)] /\ down'[s] = e /\ \A t \in Slave \ {s} : down'[t] = down[t]
  <2>1. up' = [up EXCEPT ![s] = v] /\ down' = [down EXCEPT ![s] = e]
    BY <1>1, <1>4, <1>5, <1>6
  <2> QED
    BY <2>1, Updated DEF IInv, TypeOK
<1>12. /\ ses' \in [Slave -> Session] /\ hlp' \in [Slave -> Helper] /\ sync' \in [Composite -> [Slave -> Flag]]
       /\ ses' = ses /\ hlp' = hlp /\ UNCHANGED <<mrow, srow, done>>
  BY <1>3 DEF IInv, TypeOK
<1>13. SessionInv(ses'[s], hlp'[s], up'[s], down'[s])
  BY <1>1, <1>8, <1>11, <1>12
<1>14. DataOf(ses'[s], hlp'[s], up'[s], down'[s], srow[s], mrow, trouble', link'[s])
  BY <1>1, <1>3, <1>9, <1>10, <1>11, <1>12
<1>15. \A t \in Slave \ {s} : /\ ses'[t] = ses[t] /\ hlp'[t] = hlp[t] /\ up'[t] = up[t]
                              /\ down'[t] = down[t] /\ link'[t] = link[t]
  BY <1>10, <1>11, <1>12
<1>16. hlp'[s].pend # None => \A t \in Slave \ {s} : hlp[t].pend # None => hlp[t].comp # hlp'[s].comp
  BY <1>12 DEF IInv, DataInv, Exclusive
<1>17. trouble <= trouble'
  BY <1>1, <1>3
<1> QED
  BY <1>3, <1>10, <1>11, <1>12, <1>13, <1>14, <1>15, <1>16, <1>17, Quiet

-----------------------------------------------------------------------------
(***************************************************************************)
(* Every behaviour.                                                        *)
(***************************************************************************)
LEMMA InitIInv ==
  ASSUME Init
  PROVE  IInv
<1>1. NoCurves \in Tally /\ \A k \in Curve : NoCurves[k] = 0
  BY NoCurvesTally DEF NoCurves
<1>2. TypeOK
  <2>1. mrow \in [Composite -> MasterRow]
    BY <1>1 DEF Init, MasterRow
  <2>2. sync \in [Composite -> [Slave -> Flag]]
    BY DEF Init, Flag
  <2>3. srow \in [Slave -> [Composite -> SlaveRow]]
    BY <1>1 DEF Init, SlaveRow
  <2>4. ses \in [Slave -> Session] /\ hlp \in [Slave -> Helper]
    BY OverFields DEF Init
  <2>5. up \in [Slave -> Seq(Message)] /\ down \in [Slave -> Seq(Message)] /\ link \in [Slave -> BOOLEAN]
    <3>1. <<>> \in Seq(Message)
      OBVIOUS
    <3> QED
      BY <3>1 DEF Init
  <2>6. done \subseteq Curve /\ trouble \in 0..MaxTrouble
    BY SyncAssumption DEF Init
  <2> QED
    BY <2>1, <2>2, <2>3, <2>4, <2>5, <2>6 DEF TypeOK
<1>3. ASSUME NEW s \in Slave
      PROVE  /\ ses[s] = NoSession /\ hlp[s] = NoHelper /\ up[s] = <<>> /\ down[s] = <<>> /\ link[s] = FALSE
             /\ \A c \in Composite : srow[s][c].since = {} /\ srow[s][c].local = NoCurves
  BY DEF Init
<1>4. \A c \in Composite : mrow[c].local = NoCurves
  BY DEF Init
<1>5. ASSUME NEW s \in Slave
      PROVE  /\ SessionInv(ses[s], hlp[s], up[s], down[s])
             /\ DataOf(ses[s], hlp[s], up[s], down[s], srow[s], mrow, trouble, link[s])
             /\ SinceOf(s, srow[s], done)
  <2>1. SessionInv(NoSession, NoHelper, <<>>, <<>>)
    BY OverFields DEF SessionInv, EndsInv, UpInv, DownInv
  <2>2. \A k \in Curve : k \notin srow[s][CompositeOf[k]].since
    BY <1>3, SyncAssumption
  <2>3. DataOf(NoSession, NoHelper, <<>>, <<>>, srow[s], mrow, trouble, FALSE)
    BY <2>2, OverFields DEF DataOf, SnapOf, SeenOf, WorkOf, PendOf, ShownOf, OfferedOf, Offers, ReadyOf, ReportOf
  <2>4. SinceOf(s, srow[s], done)
    BY <1>3 DEF SinceOf
  <2> QED
    BY <1>3, <2>1, <2>3, <2>4
<1>6. Exclusive
  BY <1>3, OverFields DEF Exclusive
<1>7. NotBefore
  BY <1>1, <1>4, SyncAssumption DEF NotBefore, Counts
<1>8. SlaveNeverAhead
  <2> SUFFICES ASSUME NEW s \in Slave, NEW k \in Curve
               PROVE  srow[s][CompositeOf[k]].local[k]
                        <= mrow[CompositeOf[k]].local[k] + IF k \in srow[s][CompositeOf[k]].since THEN 1 ELSE 0
    BY DEF SlaveNeverAhead
  <2>1. CompositeOf[k] \in Composite
    BY SyncAssumption
  <2>2. srow[s][CompositeOf[k]].local[k] = 0 /\ mrow[CompositeOf[k]].local[k] = 0
    BY <1>1, <1>3, <1>4, <2>1
  <2> QED
    BY <2>2
<1>9. OneRecountPerFailure
  BY <1>1, <1>4, SyncAssumption DEF OneRecountPerFailure, Init
<1> QED
  BY <1>2, <1>5, <1>6, <1>7, <1>8, <1>9 DEF IInv, ProtocolInv, DataInv

(* Every step keeps the inductive invariant. *)
LEMMA NextIInv ==
  ASSUME IInv, [Next]_vars
  PROVE  IInv'
<1>1. ASSUME NEW s \in Slave, SlaveStep(s)
      PROVE  IInv'
  BY <1>1, StartSyncStep, BeginCompositeStep, EndPhase1Step, SendWorkStep, CompositeRefusedStep, DeleteDetailsStep,
     InsertDetailsStep, SlaveCommitsStep, StartPhase2Step, ReceiveCompositeStep, ReplaceCompositeStep, EndPhase2Step,
     SlaveSkipsStep, SlaveTimesOutStep DEF SlaveStep
<1>2. ASSUME NEW s \in Slave, MasterStep(s)
      PROVE  IInv'
  BY <1>2, PopulateSlaveSyncStep, StartCompositeStep, AddWorkStep, SendContentStep, MasterCommitsStep, StartSendingStep,
     SendCompositeStep, CompositeSentStep, EndSendingStep, MasterSkipsStep, MasterTimesOutStep DEF MasterStep
<1>3. ASSUME NEW s \in Slave, EndSession(s) \/ LoseConnection(s)
      PROVE  IInv'
  BY <1>3, EndSessionStep, LoseConnectionStep
<1>4. ASSUME Client
      PROVE  IInv'
  BY <1>4, ReturnAtSlaveStep, ReturnAtMasterStep, AddCompositeStep DEF Client
<1>5. CASE UNCHANGED vars
  BY <1>5 DEF vars, IInv, TypeOK, ProtocolInv, DataInv, Exclusive, NotBefore, SlaveNeverAhead, OneRecountPerFailure, Counts
<1> QED
  BY <1>1, <1>2, <1>3, <1>4, <1>5 DEF Next

(* The inductive invariant holds in every reachable state. *)
THEOREM Invariant == Spec => []IInv
  BY InitIInv, NextIInv, PTL DEF Spec

(* Every variable keeps its type. *)
THEOREM TypeCorrect == Spec => []TypeOK
<1>1. IInv => TypeOK
  BY DEF IInv
<1> QED
  BY <1>1, Invariant, PTL

(* No slave shows curves of its master's that the master has not, whatever is lost, late, locked or refused:  *)
(* the master's "OK" that lets IAmASlave commit is sent after EndMasterCompositeSync has committed.           *)
THEOREM AheadCorrect == Spec => []SlaveNeverAhead
<1>1. IInv => SlaveNeverAhead
  BY DEF IInv, DataInv
<1> QED
  BY <1>1, Invariant, PTL

(* The master counts the same curves again at most once for each lost connection or time-out. *)
THEOREM RecountCorrect == Spec => []OneRecountPerFailure
<1>1. IInv => OneRecountPerFailure
  BY DEF IInv, DataInv
<1> QED
  BY <1>1, Invariant, PTL

(* The steps that write a slave's composites.                               *)
LEMMA Writers ==
  ASSUME [Next]_vars
  PROVE  \/ UNCHANGED srow
         \/ \E s \in Slave : SlaveCommits(s) \/ ReplaceComposite(s)
         \/ \E k \in Curve, s \in Slave : ReturnAtSlave(k, s)
<1>1. ASSUME NEW s \in Slave, SlaveStep(s)
      PROVE  UNCHANGED srow \/ SlaveCommits(s) \/ ReplaceComposite(s)
  BY <1>1 DEF SlaveStep, SlaveDB, StartSync, BeginComposite, EndPhase1, SendWork, CompositeRefused, DeleteDetails,
              InsertDetails, StartPhase2, ReceiveComposite, EndPhase2, SlaveSkips, SlaveTimesOut
<1>2. ASSUME NEW s \in Slave, MasterStep(s)
      PROVE  UNCHANGED srow
  BY <1>2 DEF MasterStep, MasterDB, PopulateSlaveSync, StartComposite, AddWork, SendContent, MasterCommits, StartSending,
              SendComposite, CompositeSent, EndSending, MasterSkips, MasterTimesOut
<1>3. ASSUME NEW s \in Slave, EndSession(s) \/ LoseConnection(s)
      PROVE  UNCHANGED srow
  BY <1>3 DEF EndSession, LoseConnection
<1>4. ASSUME Client
      PROVE  UNCHANGED srow \/ \E k \in Curve, s \in Slave : ReturnAtSlave(k, s)
  BY <1>4 DEF Client, ReturnAtMaster, AddComposite
<1>5. CASE UNCHANGED vars
  BY <1>5 DEF vars
<1> QED
  BY <1>1, <1>2, <1>3, <1>4, <1>5 DEF Next

(* A slave that commits what it has reported has had it counted.            *)
LEMMA NothingForgotten ==
  ASSUME IInv, Postgres, [Next]_vars, NEW s \in Slave, NEW k \in Curve, ~ReplaceComposite(s),
         k \in srow[s][CompositeOf[k]].since, k \notin srow'[s][CompositeOf[k]].since
  PROVE  mrow[CompositeOf[k]].local[k] > 0
<1>1. CompositeOf[k] \in Composite /\ srow \in [Slave -> [Composite -> SlaveRow]]
  BY SyncAssumption DEF IInv, TypeOK
<1>2. ASSUME NEW t \in Slave, t # s, SlaveCommits(t) \/ ReplaceComposite(t)
      PROVE  FALSE
  BY <1>1, <1>2 DEF SlaveCommits, ReplaceComposite
<1>3. ASSUME NEW t \in Slave, NEW j \in Curve, ReturnAtSlave(j, t)
      PROVE  FALSE
  <2>1. CompositeOf[j] \in Composite
    BY SyncAssumption
  <2>2. srow[t][CompositeOf[j]] \in SlaveRow
    BY <1>1, <2>1
  <2>3. PICK row \in SlaveRow : row = srow[t][CompositeOf[j]]
    BY <2>2
  <2>8. PICK tally : tally = Plus(row.local, {j})
    OBVIOUS
  <2>6. [row EXCEPT !.local = tally, !.since = row.since \cup {j}, !.toMaster = TRUE].since = row.since \cup {j}
    BY DEF SlaveRow
  <2>7. PICK new : /\ new = [row EXCEPT !.local = tally, !.since = row.since \cup {j}, !.toMaster = TRUE]
                   /\ new.since = row.since \cup {j}
    BY <2>6
  <2>4. srow' = [srow EXCEPT ![t][CompositeOf[j]] = new]
    BY <1>3, <2>3, <2>7, <2>8 DEF ReturnAtSlave
  <2>5. \A b \in Composite : srow[s][b].since \subseteq srow'[s][b].since
    BY <1>1, <2>1, <2>3, <2>4, <2>7
  <2> QED
    BY <1>1, <2>5
<1>4. SlaveCommits(s)
  BY <1>2, <1>3, Writers
<1>5. ToSlave(s) \in Message /\ Took(down[s], ToSlave(s), down'[s])
  BY <1>4, SlaveReadsOne DEF IInv, SlaveCommits
<1>6. ToSlave(s) = About("OK", ses[s].comp)
  BY <1>4 DEF SlaveCommits
<1>7. 1 \in DOMAIN down[s] /\ down[s][1].type = "OK" /\ down[s][1].comp = ses[s].comp
  BY <1>5, <1>6 DEF Took, About
<1>8. CompositeOf[k] = ses[s].comp
  <2>1. \A b \in Composite : b # ses[s].comp => srow'[s][b] = srow[s][b]
    BY <1>1, <1>4 DEF SlaveCommits
  <2> QED
    BY <1>1, <2>1
<1>9. ReadyOf(ses[s], down[s], srow[s], mrow)
  BY Here DEF DataOf
<1> QED
  BY <1>7, <1>8, <1>9 DEF ReadyOf

(* On PostgreSQL, what a slave no longer reports the master has counted, unless phase 2 has replaced it. *)
THEOREM UnreportedCorrect ==
  ASSUME Postgres
  PROVE  Spec => Phase1KeepsUnreported
<1>1. ASSUME IInv, [Next]_vars
      PROVE  [\A s \in Slave, k \in Curve :
                ~ReplaceComposite(s)
                  /\ k \in srow[s][CompositeOf[k]].since
                  /\ k \notin srow[s][CompositeOf[k]].since'
                => mrow[CompositeOf[k]].local[k] > 0]_vars
  <2> SUFFICES ASSUME NEW s \in Slave, NEW k \in Curve, ~ReplaceComposite(s),
                      k \in srow[s][CompositeOf[k]].since, k \notin srow[s][CompositeOf[k]].since'
               PROVE  mrow[CompositeOf[k]].local[k] > 0
    OBVIOUS
  <2> QED
    BY <1>1, NothingForgotten
<1> QED
  BY <1>1, Invariant, PTL DEF Spec, Phase1KeepsUnreported

-----------------------------------------------------------------------------
(***************************************************************************)
(* What a single slave has not been told, on PostgreSQL.  Lemma XFlags: step *)
(* X keeps FlagInv; lemma FlagsX says the same of the values of one session. *)
(***************************************************************************)
(* The master's snapshot shows the slave's flags as they are, or before a    *)
(* change set them; the rows it adds nobody else adds.                      *)
SeenFlags(s, h, f) ==
  /\ h.snap # None => \A c \in Composite :
       /\ h.snap.sync[c][s] = "none" <=> f[c][s] = "none"
       /\ h.snap.sync[c][s] = "send" => f[c][s] # "clear"
  /\ \A c \in h.added : f[c][s] = "none"

(* What is still to be sent is flagged, or has no row yet.                  *)
TodoFlags(s, h, f) ==
  /\ h.pc \in Phase2 => \A c \in h.todo : f[c][s] # "clear"
  /\ h.pc \in {"found2", "answer2"} => f[h.comp][s] # "clear" /\ h.comp \notin h.todo

(* So is what the slave is about to replace.                                *)
LineFlags(s, x, d, f) ==
  \A i \in DOMAIN d :
    d[i].type = "OK" \/ (d[i].type = "Content" /\ x.pc = "content2") => f[d[i].comp][s] # "clear"

(* A slave that has confirmed a composite has what was sent.                *)
TakenOf(h, u, r) ==
  h.pc = "answer2" =>
    \A i \in DOMAIN u : u[i].type = "OK" =>
      \A k \in Curve : h.snap.rows[h.comp].local[k] <= r[h.comp].local[k]

(* A slave whose flag is clear has what the master has.                     *)
ClearOf(s, r, m, f) ==
  \A k \in Curve : f[CompositeOf[k]][s] = "clear" => Counts(m, k) <= r[CompositeOf[k]].local[k]

FlagsOf(s, x, h, u, d, r, m, f) ==
  /\ SeenFlags(s, h, f)
  /\ TodoFlags(s, h, f)
  /\ LineFlags(s, x, d, f)
  /\ TakenOf(h, u, r)
  /\ ClearOf(s, r, m, f)

FlagInv == \A s \in Slave : FlagsOf(s, ses[s], hlp[s], up[s], down[s], srow[s], mrow, sync)

OneSlave == \A s, t \in Slave : s = t

(* The lines of e that are of types T were in d already.                    *)
Known(d, e, T) == \A i \in DOMAIN e : e[i].type \in T => \E j \in DOMAIN d : d[j] = e[i]

LEMMA KnownSame == ASSUME NEW d, NEW T PROVE Known(d, d, T)
  BY DEF Known

LEMMA KnownTook ==
  ASSUME NEW d, NEW m, NEW e, NEW T, Took(d, m, e)
  PROVE  Known(d, e, T)
  BY DEF Known, Took

LEMMA KnownPut ==
  ASSUME NEW d, NEW m, NEW e, NEW T, e = d \/ Put(d, m, e), m.type \notin T
  PROVE  Known(d, e, T)
  BY DEF Known, Put

LEMMA KnownPutTwo ==
  ASSUME NEW d, NEW m, NEW l, NEW e, NEW T, e = d \/ PutTwo(d, m, l, e), m.type \notin T, l.type \notin T
  PROVE  Known(d, e, T)
  BY DEF Known, PutTwo

(* With one slave, what holds of its session is the invariant.              *)
LEMMA TheSlave ==
  ASSUME OneSlave, NEW s \in Slave,
         FlagsOf(s, ses'[s], hlp'[s], up'[s], down'[s], srow'[s], mrow', sync')
  PROVE  FlagInv'
<1> SUFFICES ASSUME NEW t \in Slave
             PROVE  FlagsOf(t, ses'[t], hlp'[t], up'[t], down'[t], srow'[t], mrow', sync')
  BY DEF FlagInv
<1>1. t = s
  BY DEF OneSlave
<1> QED
  BY <1>1

(* The slave moves, and the composites stay.                                *)
LEMMA FlagsSlave ==
  ASSUME NEW s, NEW x, NEW h, NEW u, NEW d, NEW r, NEW m, NEW f, FlagsOf(s, x, h, u, d, r, m, f),
         NEW y, NEW v, NEW e, Known(d, e, {"OK", "Content"}),
         y.pc = "content2" => x.pc = "content2" \/ \A i \in DOMAIN e : e[i].type # "Content",
         h.pc = "answer2" => Known(u, v, {"OK"})
  PROVE  FlagsOf(s, y, h, v, e, r, m, f)
<1>1. SeenFlags(s, h, f) /\ TodoFlags(s, h, f) /\ ClearOf(s, r, m, f)
  BY DEF FlagsOf
<1>2. LineFlags(s, y, e, f)
  <2> SUFFICES ASSUME NEW i \in DOMAIN e, e[i].type = "OK" \/ (e[i].type = "Content" /\ y.pc = "content2")
               PROVE  f[e[i].comp][s] # "clear"
    BY DEF LineFlags
  <2>1. PICK j \in DOMAIN d : d[j] = e[i]
    BY DEF Known
  <2>2. d[j].type = "OK" \/ (d[j].type = "Content" /\ x.pc = "content2")
    BY <2>1
  <2> QED
    BY <2>1, <2>2 DEF FlagsOf, LineFlags
<1>3. TakenOf(h, v, r)
  BY DEF FlagsOf, TakenOf, Known
<1> QED
  BY <1>1, <1>2, <1>3 DEF FlagsOf

(* The master moves, and the composites stay.                               *)
LEMMA FlagsMaster ==
  ASSUME NEW s, NEW x, NEW h, NEW u, NEW d, NEW r, NEW m, NEW f, FlagsOf(s, x, h, u, d, r, m, f),
         NEW g, NEW v, NEW e, Known(d, e, {"OK", "Content"}), Known(u, v, {"OK"}),
         SeenFlags(s, g, f), TodoFlags(s, g, f),
         g.pc = "answer2" => \/ h.pc = "answer2" /\ g.snap = h.snap /\ g.comp = h.comp
                             \/ \A i \in DOMAIN v : v[i].type # "OK"
  PROVE  FlagsOf(s, x, g, v, e, r, m, f)
<1>1. ClearOf(s, r, m, f)
  BY DEF FlagsOf
<1>2. LineFlags(s, x, e, f)
  <2> SUFFICES ASSUME NEW i \in DOMAIN e, e[i].type = "OK" \/ (e[i].type = "Content" /\ x.pc = "content2")
               PROVE  f[e[i].comp][s] # "clear"
    BY DEF LineFlags
  <2>1. PICK j \in DOMAIN d : d[j] = e[i]
    BY DEF Known
  <2>2. d[j].type = "OK" \/ (d[j].type = "Content" /\ x.pc = "content2")
    BY <2>1
  <2> QED
    BY <2>1, <2>2 DEF FlagsOf, LineFlags
<1>3. TakenOf(g, v, r)
  BY DEF FlagsOf, TakenOf, Known
<1> QED
  BY <1>1, <1>2, <1>3 DEF FlagsOf

(* Both sides at rest.                                                      *)
LEMMA FlagsOver ==
  ASSUME NEW s, NEW x, NEW h, NEW u, NEW d, NEW r, NEW m, NEW f, FlagsOf(s, x, h, u, d, r, m, f),
         NEW y, NEW g, g.snap = None, g.added = {}, g.pc \notin Phase2
  PROVE  FlagsOf(s, y, g, <<>>, <<>>, r, m, f)
  BY DEF FlagsOf, SeenFlags, TodoFlags, LineFlags, TakenOf, ClearOf, Phase2

(* A transaction of the master's that ends, and one that begins.            *)
LEMMA FlagsRolledBack ==
  ASSUME NEW s, NEW g, NEW f, g.snap = None, g.added = {}, g.pc \notin Phase2
  PROVE  SeenFlags(s, g, f) /\ TodoFlags(s, g, f)
  BY DEF SeenFlags, TodoFlags, Phase2

LEMMA FlagsSeen ==
  ASSUME NEW s, NEW g, NEW f, g.snap = None \/ g.snap.sync = f, \A c \in g.added : f[c][s] = "none"
  PROVE  SeenFlags(s, g, f)
  BY DEF SeenFlags

(* Flags that are set.                                                      *)
Raised(s, f, w) == \A c \in Composite : w[c][s] = f[c][s] \/ (f[c][s] # "none" /\ w[c][s] = "send")

LEMMA FlagsRaised ==
  ASSUME NEW s, NEW h, NEW f, NEW w, Raised(s, f, w), SeenFlags(s, h, f), TodoFlags(s, h, f),
         h.added \subseteq Composite, h.todo \subseteq Composite, h.pc \in {"found2", "answer2"} => h.comp \in Composite
  PROVE  SeenFlags(s, h, w) /\ TodoFlags(s, h, w)
<1>1. \A c \in Composite : (w[c][s] = "none" <=> f[c][s] = "none") /\ (f[c][s] # "clear" => w[c][s] # "clear")
  BY DEF Raised
<1>2. SeenFlags(s, h, w)
  BY <1>1 DEF SeenFlags
<1>3. TodoFlags(s, h, w)
  BY <1>1 DEF TodoFlags
<1> QED
  BY <1>2, <1>3

LEMMA LinesRaised ==
  ASSUME NEW s, NEW x, NEW d \in Seq(Message), NEW f, NEW w, Raised(s, f, w), LineFlags(s, x, d, f)
  PROVE  LineFlags(s, x, d, w)
<1> SUFFICES ASSUME NEW i \in DOMAIN d, d[i].type = "OK" \/ (d[i].type = "Content" /\ x.pc = "content2")
             PROVE  w[d[i].comp][s] # "clear"
  BY DEF LineFlags
<1>1. f[d[i].comp][s] # "clear"
  BY DEF LineFlags
<1>2. d[i] \in Message
  BY Indices
<1>3. d[i].comp \in Composite
  BY <1>2, MessageFields
<1> QED
  BY <1>1, <1>3 DEF Raised

-----------------------------------------------------------------------------
(* The slave's steps.                                                       *)
LEMMA ReadBySlave ==
  ASSUME TypeOK, NEW s \in Slave, SlaveReads(s), NEW T
  PROVE  Known(down[s], down'[s], T)
<1>1. PICK m \in Message : Took(down[s], m, down'[s])
  BY SlaveReadsOne
<1> QED
  BY <1>1, KnownTook

LEMMA ReadByMaster ==
  ASSUME TypeOK, NEW s \in Slave, MasterReads(s), NEW T
  PROVE  Known(up[s], up'[s], T)
<1>1. PICK m \in Message : Took(up[s], m, up'[s])
  BY MasterReadsOne
<1> QED
  BY <1>1, KnownTook

LEMMA SaidBySlave ==
  ASSUME TypeOK, NEW s \in Slave, NEW T,
         \/ SlaveSays(s, <<>>)
         \/ \E m \in Message : SlaveSays(s, <<m>>) /\ m.type \notin T
         \/ \E m, l \in Message : SlaveSays(s, <<m, l>>) /\ m.type \notin T /\ l.type \notin T
  PROVE  Known(up[s], up'[s], T)
<1>1. CASE SlaveSays(s, <<>>)
  <2>1. up'[s] = up[s]
    BY <1>1, SlaveSaysNothing
  <2> QED
    BY <2>1, KnownSame
<1>2. ASSUME NEW m \in Message, SlaveSays(s, <<m>>), m.type \notin T
      PROVE  Known(up[s], up'[s], T)
  <2>1. up'[s] = up[s] \/ Put(up[s], m, up'[s])
    BY <1>2, SlaveSaysOne
  <2> QED
    BY <1>2, <2>1, KnownPut
<1>3. ASSUME NEW m \in Message, NEW l \in Message, SlaveSays(s, <<m, l>>), m.type \notin T, l.type \notin T
      PROVE  Known(up[s], up'[s], T)
  <2>1. up'[s] = up[s] \/ PutTwo(up[s], m, l, up'[s])
    BY <1>3, SlaveSaysTwo
  <2> QED
    BY <1>3, <2>1, KnownPutTwo
<1> QED
  BY <1>1, <1>2, <1>3

LEMMA SaidByMaster ==
  ASSUME TypeOK, NEW s \in Slave, NEW T,
         \/ MasterSays(s, <<>>)
         \/ \E m \in Message : MasterSays(s, <<m>>) /\ m.type \notin T
         \/ \E m, l \in Message : MasterSays(s, <<m, l>>) /\ m.type \notin T /\ l.type \notin T
  PROVE  Known(down[s], down'[s], T)
<1>1. CASE MasterSays(s, <<>>)
  <2>1. down'[s] = down[s]
    BY <1>1, MasterSaysNothing
  <2> QED
    BY <2>1, KnownSame
<1>2. ASSUME NEW m \in Message, MasterSays(s, <<m>>), m.type \notin T
      PROVE  Known(down[s], down'[s], T)
  <2>1. down'[s] = down[s] \/ Put(down[s], m, down'[s])
    BY <1>2, MasterSaysOne
  <2> QED
    BY <1>2, <2>1, KnownPut
<1>3. ASSUME NEW m \in Message, NEW l \in Message, MasterSays(s, <<m, l>>), m.type \notin T, l.type \notin T
      PROVE  Known(down[s], down'[s], T)
  <2>1. down'[s] = down[s] \/ PutTwo(down[s], m, l, down'[s])
    BY <1>3, MasterSaysTwo
  <2> QED
    BY <1>3, <2>1, KnownPutTwo
<1> QED
  BY <1>1, <1>2, <1>3

(* Types of the lines that are sent.                                        *)
LEMMA LineTypes ==
  /\ Start.type = "Start" /\ NoMore.type = "NoMore" /\ SyncError.type = "SyncError"
  /\ \A t, c : About(t, c).type = t
  BY DEF Start, NoMore, SyncError, About

(* A step of the slave that replaces no composite.                          *)
LEMMA SlaveFlags ==
  ASSUME IInv, FlagInv, OneSlave, NEW s \in Slave, UNCHANGED <<hlp, srow, mrow, sync>>,
         Known(down[s], down'[s], {"OK", "Content"}),
         \/ ses'[s].pc # "content2" \/ ses'[s].pc = ses[s].pc
         \/ \A i \in DOMAIN down'[s] : down'[s][i].type # "Content",
         hlp[s].pc = "answer2" => Known(up[s], up'[s], {"OK"})
  PROVE  FlagInv'
<1>1. FlagsOf(s, ses[s], hlp[s], up[s], down[s], srow[s], mrow, sync)
  BY DEF FlagInv
<1>2. PICK x, h, u, d, r, m, f, y, v, e :
        /\ x = ses[s] /\ h = hlp[s] /\ u = up[s] /\ d = down[s] /\ r = srow[s] /\ m = mrow /\ f = sync
        /\ y = ses'[s] /\ v = up'[s] /\ e = down'[s]
  OBVIOUS
<1>3. FlagsOf(s, x, h, u, d, r, m, f)
  BY <1>1, <1>2
<1>4. /\ Known(d, e, {"OK", "Content"})
      /\ y.pc = "content2" => x.pc = "content2" \/ \A i \in DOMAIN e : e[i].type # "Content"
      /\ h.pc = "answer2" => Known(u, v, {"OK"})
  BY <1>2
<1>5. FlagsOf(s, y, h, v, e, r, m, f)
  BY ONLY <1>3, <1>4, FlagsSlave
<1>6. FlagsOf(s, ses'[s], hlp'[s], up'[s], down'[s], srow'[s], mrow', sync')
  BY <1>2, <1>5
<1> QED
  BY <1>6, TheSlave

(* The slave's session becomes y.                                           *)
LEMMA BecomesSlave ==
  ASSUME TypeOK, NEW s \in Slave, NEW y \in Session, ses' = [ses EXCEPT ![s] = y]
  PROVE  ses'[s] = y
  BY DEF TypeOK

LEMMA BeginCompositeFlags ==
  ASSUME IInv, FlagInv, OneSlave, NEW s \in Slave, BeginComposite(s)
  PROVE  FlagInv'
<1>1. TypeOK /\ UNCHANGED <<hlp, srow, mrow, sync, down>>
  BY DEF IInv, BeginComposite, SlaveDB
<1>2. PICK c \in Composite : c = First(ses[s].todo)
  BY FirstMember DEF BeginComposite, Session, IInv, TypeOK
<1>3. Begun(ses[s], c) \in Session /\ Begun(ses[s], c).pc = "found"
  BY <1>1, BegunFields DEF TypeOK
<1>4. ses'[s].pc = "found"
  <2>1. ses' = [ses EXCEPT ![s] = Begun(ses[s], c)]
    BY <1>2 DEF BeginComposite, Begun
  <2> QED
    BY <1>1, <1>3, <2>1, BecomesSlave
<1>5. Known(up[s], up'[s], {"OK"})
  <2>1. SlaveSays(s, <<About("Begin", c)>>) /\ About("Begin", c) \in Message /\ About("Begin", c).type \notin {"OK"}
    BY <1>2, Lines, LineTypes DEF BeginComposite
  <2> QED
    BY <1>1, <2>1, SaidBySlave
<1>6. Known(down[s], down'[s], {"OK", "Content"})
  BY <1>1, KnownSame
<1> QED
  BY <1>1, <1>4, <1>5, <1>6, SlaveFlags

LEMMA EndPhase1Flags ==
  ASSUME IInv, FlagInv, OneSlave, NEW s \in Slave, EndPhase1(s)
  PROVE  FlagInv'
<1>1. TypeOK /\ UNCHANGED <<hlp, srow, mrow, sync, down>>
  BY DEF IInv, EndPhase1, SlaveDB
<1>2. Left(ses[s], "start2") \in Session /\ Left(ses[s], "start2").pc = "start2"
  BY <1>1, LeftFields DEF TypeOK
<1>3. ses'[s].pc = "start2"
  <2>1. ses' = [ses EXCEPT ![s] = Left(ses[s], "start2")]
    BY DEF EndPhase1, Left
  <2> QED
    BY <1>1, <1>2, <2>1, BecomesSlave
<1>4. Known(up[s], up'[s], {"OK"})
  <2>1. SlaveSays(s, <<NoMore>>) /\ NoMore \in Message /\ NoMore.type \notin {"OK"}
    BY Lines, LineTypes DEF EndPhase1
  <2> QED
    BY <1>1, <2>1, SaidBySlave
<1>5. Known(down[s], down'[s], {"OK", "Content"})
  BY <1>1, KnownSame
<1> QED
  BY <1>1, <1>3, <1>4, <1>5, SlaveFlags

(* The slave closes the connection.                                         *)
LEMMA ClosingFlags ==
  ASSUME IInv, FlagInv, OneSlave, NEW s \in Slave, UNCHANGED <<hlp, srow, mrow, sync>>,
         SlaveCloses(s, <<>>) \/ SlaveCloses(s, <<SyncError, NoMore>>),
         Known(down[s], down'[s], {"OK", "Content"})
  PROVE  FlagInv'
<1>1. ses'[s].pc = "closed"
  <2>1. ses' = [ses EXCEPT ![s] = Gone] /\ TypeOK
    BY DEF SlaveCloses, Gone, IInv
  <2> QED
    BY <2>1, GoneFields, BecomesSlave
<1>2. Known(up[s], up'[s], {"OK"})
  <2>1. SlaveSays(s, <<>>) \/ SlaveSays(s, <<SyncError, NoMore>>)
    BY DEF SlaveCloses
  <2>2. SyncError \in Message /\ NoMore \in Message /\ SyncError.type \notin {"OK"} /\ NoMore.type \notin {"OK"}
    BY Lines, LineTypes
  <2> QED
    BY <2>1, <2>2, SaidBySlave DEF IInv
<1> QED
  BY <1>1, <1>2, SlaveFlags

LEMMA SendWorkFlags ==
  ASSUME IInv, FlagInv, OneSlave, NEW s \in Slave, SendWork(s)
  PROVE  FlagInv'
<1>1. TypeOK /\ UNCHANGED <<hlp, srow, mrow, sync>> /\ SlaveReads(s) /\ ses[s].pc = "found"
  BY DEF IInv, SendWork, SlaveDB
<1>2. Known(down[s], down'[s], {"OK", "Content"})
  BY <1>1, ReadBySlave
<1>3. CASE SlaveCloses(s, <<SyncError, NoMore>>)
  BY <1>1, <1>2, <1>3, ClosingFlags
<1>4. ASSUME NEW snap, NEW row, ses' = [ses EXCEPT ![s] = Worked(ses[s], snap, row)],
             NEW c, NEW k, SlaveSays(s, <<[type |-> "Work", comp |-> c, curves |-> k]>>),
             [type |-> "Work", comp |-> c, curves |-> k] \in Message
      PROVE  FlagInv'
  <2>1. ses'[s].pc = "answer"
    <3>1. ses[s] \in Session /\ ses'[s] = Worked(ses[s], snap, row)
      BY <1>1, <1>4 DEF TypeOK
    <3> QED
      BY <3>1 DEF Worked, Session
  <2>2. Known(up[s], up'[s], {"OK"})
    <3>1. PICK m \in Message : m = [type |-> "Work", comp |-> c, curves |-> k] /\ m.type \notin {"OK"}
      BY <1>4
    <3>2. SlaveSays(s, <<m>>)
      BY <1>4, <3>1
    <3> QED
      BY <1>1, <3>1, <3>2, SaidBySlave
  <2> QED
    BY <1>1, <1>2, <2>1, <2>2, SlaveFlags
<1>5. ses[s].comp \in Composite
  BY <1>1, Here DEF SessionInv, EndsInv, Session
<1>6. PICK snap \in [Composite -> SlaveRow] : snap = IF ses[s].snap = None THEN srow[s] ELSE ses[s].snap
  BY Here DEF Session
<1>7. PICK k \in SUBSET Curve : k = snap[ses[s].comp].since
  BY <1>5, <1>6 DEF SlaveRow
<1>8. PICK row : row = IF k = {} THEN None ELSE [srow[s][ses[s].comp] EXCEPT !.since = {}]
  OBVIOUS
<1>9. [type |-> "Work", comp |-> ses[s].comp, curves |-> k] \in Message
  BY <1>5, <1>7, Lines
<1>10. \/ SlaveCloses(s, <<SyncError, NoMore>>)
       \/ /\ ses' = [ses EXCEPT ![s] = Worked(ses[s], snap, row)]
          /\ SlaveSays(s, <<[type |-> "Work", comp |-> ses[s].comp, curves |-> k]>>)
  BY <1>6, <1>7, <1>8 DEF SendWork, Worked
<1> QED
  BY <1>3, <1>4, <1>9, <1>10

LEMMA CompositeRefusedFlags ==
  ASSUME IInv, FlagInv, OneSlave, NEW s \in Slave, CompositeRefused(s)
  PROVE  FlagInv'
<1>1. TypeOK /\ UNCHANGED <<hlp, srow, mrow, sync, up>> /\ SlaveReads(s)
  BY DEF IInv, CompositeRefused, SlaveDB
<1>2. Known(down[s], down'[s], {"OK", "Content"})
  BY <1>1, ReadBySlave
<1>3. ses'[s].pc = "next"
  <2>1. ses' = [ses EXCEPT ![s] = Back(ses[s])]
    BY DEF CompositeRefused, Back
  <2>2. Back(ses[s]) \in Session /\ Back(ses[s]).pc = "next"
    BY <1>1, BackFields DEF TypeOK
  <2> QED
    BY <1>1, <2>1, <2>2, BecomesSlave
<1>4. Known(up[s], up'[s], {"OK"})
  BY <1>1, KnownSame
<1> QED
  BY <1>1, <1>2, <1>3, <1>4, SlaveFlags

LEMMA DeleteDetailsFlags ==
  ASSUME IInv, FlagInv, OneSlave, NEW s \in Slave, DeleteDetails(s)
  PROVE  FlagInv'
<1>1. TypeOK /\ UNCHANGED <<hlp, srow, mrow, sync>> /\ SlaveReads(s) /\ ses[s].pc = "answer"
  BY DEF IInv, DeleteDetails, SlaveDB
<1>2. Known(down[s], down'[s], {"OK", "Content"})
  BY <1>1, ReadBySlave
<1>3. CASE UNCHANGED <<ses, up>>
  <2>1. Known(up[s], up'[s], {"OK"}) /\ ses'[s].pc # "content2"
    BY <1>1, <1>3, KnownSame
  <2> QED
    BY <1>1, <1>2, <2>1, SlaveFlags
<1>4. ASSUME NEW row, ses' = [ses EXCEPT ![s] = Emptied(ses[s], row)], SlaveSays(s, <<About("Found", ses[s].comp)>>)
      PROVE  FlagInv'
  <2>1. ses'[s].pc = "content"
    <3>1. ses[s] \in Session /\ ses'[s] = Emptied(ses[s], row)
      BY <1>1, <1>4 DEF TypeOK
    <3> QED
      BY <3>1 DEF Emptied, Session
  <2>2. ses[s].comp \in Composite
    BY <1>1, Here DEF SessionInv, EndsInv, Session
  <2>3. Known(up[s], up'[s], {"OK"})
    <3>1. About("Found", ses[s].comp) \in Message /\ About("Found", ses[s].comp).type \notin {"OK"}
      BY <2>2, Lines, LineTypes
    <3> QED
      BY <1>1, <1>4, <3>1, SaidBySlave
  <2> QED
    BY <1>1, <1>2, <2>1, <2>3, SlaveFlags
<1>5. \/ UNCHANGED <<ses, up>>
      \/ \E row : ses' = [ses EXCEPT ![s] = Emptied(ses[s], row)] /\ SlaveSays(s, <<About("Found", ses[s].comp)>>)
  BY DEF DeleteDetails, Emptied
<1> QED
  BY <1>3, <1>4, <1>5

(* The "OK" of phase 1 is not the one of phase 2.                           *)
LEMMA InsertDetailsFlags ==
  ASSUME IInv, FlagInv, OneSlave, NEW s \in Slave, InsertDetails(s)
  PROVE  FlagInv'
<1>1. TypeOK /\ UNCHANGED <<hlp, srow, mrow, sync>> /\ SlaveReads(s) /\ ses[s].pc = "content"
  BY DEF IInv, InsertDetails, SlaveDB
<1>2. Known(down[s], down'[s], {"OK", "Content"})
  BY <1>1, ReadBySlave
<1>3. ses'[s].pc = "answer"
  <2>1. ses[s] \in Session /\ ses' = [ses EXCEPT ![s] = Filled(ses[s], ToSlave(s).local)]
    BY <1>1 DEF InsertDetails, Filled, TypeOK
  <2>2. ses'[s] = Filled(ses[s], ToSlave(s).local)
    BY <1>1, <2>1 DEF TypeOK
  <2> QED
    BY <2>1, <2>2 DEF Filled, Session
<1>4. hlp[s].pc # "answer2"
  BY <1>1, Here DEF SessionInv, Joint
<1> QED
  BY <1>1, <1>2, <1>3, <1>4, SlaveFlags

LEMMA StartPhase2Flags ==
  ASSUME IInv, FlagInv, OneSlave, NEW s \in Slave, StartPhase2(s)
  PROVE  FlagInv'
<1>1. TypeOK /\ UNCHANGED <<hlp, srow, mrow, sync>> /\ SlaveReads(s)
  BY DEF IInv, StartPhase2, SlaveDB
<1>2. Known(down[s], down'[s], {"OK", "Content"})
  BY <1>1, ReadBySlave
<1>3. CASE SlaveCloses(s, <<>>)
  BY <1>1, <1>2, <1>3, ClosingFlags
<1>4. CASE ses' = [ses EXCEPT ![s] = Started(ses[s])] /\ UNCHANGED up
  <2>1. ses'[s].pc = "receive2"
    BY <1>1, <1>4, StartedFields, BecomesSlave DEF TypeOK
  <2>2. Known(up[s], up'[s], {"OK"})
    BY <1>4, KnownSame
  <2> QED
    BY <1>1, <1>2, <2>1, <2>2, SlaveFlags
<1> QED
  BY <1>3, <1>4 DEF StartPhase2, Started

(* No content is under way yet.                                             *)
LEMMA ReceiveCompositeFlags ==
  ASSUME IInv, FlagInv, OneSlave, NEW s \in Slave, ReceiveComposite(s)
  PROVE  FlagInv'
<1>1. TypeOK /\ UNCHANGED <<hlp, srow, mrow, sync>> /\ SlaveReads(s) /\ ses[s].pc = "receive2"
  BY DEF IInv, ReceiveComposite, SlaveDB
<1>2. Known(down[s], down'[s], {"OK", "Content"})
  BY <1>1, ReadBySlave
<1>3. PICK m \in Message : m = ToSlave(s) /\ Took(down[s], m, down'[s]) /\ m.type = "Begin"
  BY <1>1, SlaveReadsOne DEF ReceiveComposite
<1>4. m.comp \in Composite
  BY <1>3, MessageFields
<1>5. Known(up[s], up'[s], {"OK"})
  <2>1. \/ SlaveSays(s, <<SyncError, About("Error", m.comp)>>)
        \/ SlaveSays(s, <<About("Found", m.comp)>>)
    BY <1>3 DEF ReceiveComposite
  <2>2. /\ SyncError \in Message /\ About("Error", m.comp) \in Message /\ About("Found", m.comp) \in Message
        /\ SyncError.type \notin {"OK"} /\ About("Error", m.comp).type \notin {"OK"} /\ About("Found", m.comp).type \notin {"OK"}
    BY <1>4, Lines, LineTypes
  <2> QED
    BY <1>1, <2>1, <2>2, SaidBySlave
<1>6. ASSUME NEW i \in DOMAIN down'[s]
      PROVE  down'[s][i].type # "Content"
  <2>1. i \in DOMAIN down'[s] /\ down'[s] \in Seq(Message)
    BY <1>1, SlaveReadsOne
  <2>2. PICK j \in DOMAIN down[s] : down[s][j] = down'[s][i]
    BY <1>3, <2>1 DEF Took
  <2>3. down[s][j].type # "Content"
    BY <1>1, Here DEF SessionInv, DownInv
  <2> QED
    BY <2>2, <2>3
<1> QED
  BY <1>1, <1>2, <1>5, <1>6, SlaveFlags

LEMMA EndPhase2Flags ==
  ASSUME IInv, FlagInv, OneSlave, NEW s \in Slave, EndPhase2(s)
  PROVE  FlagInv'
<1>1. TypeOK /\ UNCHANGED <<hlp, srow, mrow, sync>> /\ SlaveReads(s) /\ SlaveCloses(s, <<>>)
  BY DEF IInv, EndPhase2, SlaveDB
<1>2. Known(down[s], down'[s], {"OK", "Content"})
  BY <1>1, ReadBySlave
<1> QED
  BY <1>1, <1>2, ClosingFlags

LEMMA SlaveSkipsFlags ==
  ASSUME IInv, FlagInv, OneSlave, NEW s \in Slave, SlaveSkips(s)
  PROVE  FlagInv'
<1>1. TypeOK /\ UNCHANGED <<hlp, srow, mrow, sync, ses>> /\ SlaveReads(s)
  BY DEF IInv, SlaveSkips, SlaveDB
<1>2. Known(down[s], down'[s], {"OK", "Content"})
  BY <1>1, ReadBySlave
<1>3. Known(up[s], up'[s], {"OK"})
  <2>1. CASE UNCHANGED up
    BY <2>1, KnownSame
  <2>2. CASE SlaveSays(s, <<SyncError>>)
    BY <1>1, <2>2, SaidBySlave, Lines, LineTypes
  <2> QED
    BY <2>1, <2>2 DEF SlaveSkips
<1>4. ses'[s].pc = ses[s].pc
  BY <1>1
<1> QED
  BY <1>1, <1>2, <1>3, <1>4, SlaveFlags

LEMMA SlaveTimesOutFlags ==
  ASSUME IInv, FlagInv, OneSlave, NEW s \in Slave, SlaveTimesOut(s)
  PROVE  FlagInv'
<1>1. UNCHANGED <<hlp, srow, mrow, sync, down>>
  BY DEF SlaveTimesOut
<1>2. SlaveCloses(s, <<>>) \/ SlaveCloses(s, <<SyncError, NoMore>>)
  BY DEF SlaveTimesOut
<1>3. Known(down[s], down'[s], {"OK", "Content"})
  BY <1>1, KnownSame
<1> QED
  BY <1>1, <1>2, <1>3, ClosingFlags

LEMMA StartSyncFlags ==
  ASSUME IInv, FlagInv, OneSlave, NEW s \in Slave, StartSync(s)
  PROVE  FlagInv'
<1>1. UNCHANGED <<srow, mrow, sync, up, down>> /\ ses[s].pc = "idle"
  BY DEF StartSync
<1>2. up'[s] = <<>> /\ down'[s] = <<>>
  BY <1>1, Here DEF SessionInv, EndsInv
<1>3. hlp'[s].snap = None /\ hlp'[s].added = {} /\ hlp'[s].pc \notin Phase2
  <2>1. hlp'[s] = [NoHelper EXCEPT !.pc = "start"]
    BY DEF StartSync, IInv, TypeOK
  <2> QED
    BY <2>1 DEF NoHelper, Phase2
<1>4. FlagsOf(s, ses[s], hlp[s], up[s], down[s], srow[s], mrow, sync)
  BY DEF FlagInv
<1>5. FlagsOf(s, ses'[s], hlp'[s], <<>>, <<>>, srow[s], mrow, sync)
  BY <1>3, <1>4, FlagsOver
<1> QED
  BY <1>1, <1>2, <1>5, TheSlave

(* What the slave commits at the end of phase 1 may be less than the master *)
(* has by now: but then it is flagged.                                      *)
LEMMA FlagsCommitted ==
  ASSUME NEW s, NEW x, NEW h, NEW u, NEW d, NEW r, NEW m, NEW f, FlagsOf(s, x, h, u, d, r, m, f),
         NEW y, y.pc # "content2", NEW e, Known(d, e, {"OK", "Content"}), h.pc # "answer2",
         NEW c, f[c][s] # "clear", NEW w, \A b : b # c => w[b] = r[b]
  PROVE  FlagsOf(s, y, h, u, e, w, m, f)
<1>1. h.pc = "answer2" => Known(u, u, {"OK"})
  BY KnownSame
<1>2. FlagsOf(s, y, h, u, e, r, m, f)
  BY <1>1, FlagsSlave
<1>3. TakenOf(h, u, w)
  BY DEF TakenOf
<1>4. ClearOf(s, w, m, f)
  BY <1>2 DEF FlagsOf, ClearOf
<1> QED
  BY <1>2, <1>3, <1>4 DEF FlagsOf

LEMMA SlaveCommitsFlags ==
  ASSUME IInv, FlagInv, OneSlave, NEW s \in Slave, SlaveCommits(s)
  PROVE  FlagInv'
<1>1. TypeOK /\ UNCHANGED <<hlp, mrow, sync, up>> /\ SlaveReads(s) /\ ses[s].pc = "answer"
  BY DEF IInv, SlaveCommits
<1>2. Known(down[s], down'[s], {"OK", "Content"})
  BY <1>1, ReadBySlave
<1>3. ses'[s].pc = "next"
  <2>1. ses' = [ses EXCEPT ![s] = Back(ses[s])]
    BY DEF SlaveCommits, Back
  <2>2. Back(ses[s]) \in Session /\ Back(ses[s]).pc = "next"
    BY <1>1, BackFields DEF TypeOK
  <2> QED
    BY <1>1, <2>1, <2>2, BecomesSlave
<1>4. hlp[s].pc # "answer2"
  BY <1>1, Here DEF SessionInv, Joint
<1>5. FlagsOf(s, ses[s], hlp[s], up[s], down[s], srow[s], mrow, sync)
  BY DEF FlagInv
<1>6. sync[ses[s].comp][s] # "clear"
  <2>1. ToSlave(s) = About("OK", ses[s].comp) /\ Took(down[s], ToSlave(s), down'[s])
    BY <1>1, SlaveReadsOne DEF SlaveCommits
  <2>2. 1 \in DOMAIN down[s] /\ down[s][1].type = "OK" /\ down[s][1].comp = ses[s].comp
    BY <2>1 DEF Took, About
  <2> QED
    BY <1>5, <2>2 DEF FlagsOf, LineFlags
<1>7. PICK c : c = ses[s].comp
  OBVIOUS
<1>8. \A b : b # c => srow'[s][b] = srow[s][b]
  <2>1. srow' = [srow EXCEPT ![s][c] = [ses[s].pend EXCEPT !.toMaster = FALSE]]
    BY <1>7 DEF SlaveCommits
  <2>2. srow'[s] = [srow[s] EXCEPT ![c] = [ses[s].pend EXCEPT !.toMaster = FALSE]]
    BY <1>1, <2>1 DEF TypeOK
  <2> QED
    BY <2>2
<1>9. FlagsOf(s, ses'[s], hlp[s], up[s], down'[s], srow'[s], mrow, sync)
  BY <1>2, <1>3, <1>4, <1>5, <1>6, <1>7, <1>8, FlagsCommitted
<1> QED
  BY <1>1, <1>9, TheSlave

(* What the slave puts in the place of its composite is what it confirms.   *)
LEMMA FlagsReplaced ==
  ASSUME NEW s, NEW x, NEW h, NEW u, NEW d, NEW r, NEW m, NEW f, FlagsOf(s, x, h, u, d, r, m, f),
         NEW y, y.pc # "content2", NEW v, NEW e, Known(d, e, {"OK", "Content"}),
         NEW c, f[c][s] # "clear", NEW w, \A b : b # c => w[b] = r[b], TakenOf(h, v, w)
  PROVE  FlagsOf(s, y, h, v, e, w, m, f)
<1>1. SeenFlags(s, h, f) /\ TodoFlags(s, h, f)
  BY DEF FlagsOf
<1>2. LineFlags(s, y, e, f)
  <2> SUFFICES ASSUME NEW i \in DOMAIN e, e[i].type = "OK"
               PROVE  f[e[i].comp][s] # "clear"
    BY DEF LineFlags
  <2>1. PICK j \in DOMAIN d : d[j] = e[i]
    BY DEF Known
  <2> QED
    BY <2>1 DEF FlagsOf, LineFlags
<1>3. ClearOf(s, w, m, f)
  BY DEF FlagsOf, ClearOf
<1> QED
  BY <1>1, <1>2, <1>3 DEF FlagsOf

LEMMA ReplaceCompositeFlags ==
  ASSUME IInv, FlagInv, OneSlave, NEW s \in Slave, ReplaceComposite(s)
  PROVE  FlagInv'
<1>1. TypeOK /\ UNCHANGED <<hlp, mrow, sync>> /\ SlaveReads(s) /\ ses[s].pc = "content2"
  BY DEF IInv, ReplaceComposite
<1>2. Known(down[s], down'[s], {"OK", "Content"})
  BY <1>1, ReadBySlave
<1>3. PICK m \in Message : m = ToSlave(s) /\ Took(down[s], m, down'[s]) /\ m.type = "Content"
  BY <1>1, SlaveReadsOne DEF ReplaceComposite
<1>4. 1 \in DOMAIN down[s] /\ down[s][1] = m /\ m.comp = ses[s].comp /\ m.local \in Tally
  BY <1>1, <1>3, Here, MessageFields DEF Took, SessionInv, DownInv
<1>5. ses'[s].pc = "receive2"
  <2>1. ses' = [ses EXCEPT ![s] = Left(ses[s], "receive2")]
    BY DEF ReplaceComposite, Left
  <2>2. Left(ses[s], "receive2") \in Session /\ Left(ses[s], "receive2").pc = "receive2"
    BY <1>1, LeftFields DEF TypeOK
  <2> QED
    BY <1>1, <2>1, <2>2, BecomesSlave
<1>6. FlagsOf(s, ses[s], hlp[s], up[s], down[s], srow[s], mrow, sync)
  BY DEF FlagInv
<1>7. PICK c \in Composite : c = ses[s].comp /\ sync[c][s] # "clear"
  <2>1. sync[ses[s].comp][s] # "clear"
    BY <1>1, <1>3, <1>4, <1>6 DEF FlagsOf, LineFlags
  <2>2. ses[s].comp \in Composite
    BY <1>3, <1>4, MessageFields
  <2> QED
    BY <2>1, <2>2
<1>8. (\A b : b # c => srow'[s][b] = srow[s][b]) /\ srow'[s][c].local = m.local
  <2>1. PICK flag : srow' = [srow EXCEPT ![s][c] = [ses[s].pend EXCEPT !.local = m.local, !.toMaster = flag]]
    BY <1>3, <1>7 DEF ReplaceComposite
  <2>2. ses[s].pend \in SlaveRow
    BY <1>1, Here DEF SessionInv, EndsInv, Session
  <2>3. PICK row : row = [ses[s].pend EXCEPT !.local = m.local, !.toMaster = flag] /\ row.local = m.local
    <3>1. [ses[s].pend EXCEPT !.local = m.local, !.toMaster = flag].local = m.local
      BY <2>2 DEF SlaveRow
    <3> QED
      BY <3>1
  <2>4. srow' = [srow EXCEPT ![s][c] = row]
    BY <2>1, <2>3
  <2>5. srow'[s] = [srow[s] EXCEPT ![c] = row] /\ c \in DOMAIN srow[s]
    BY <1>1, <2>4 DEF TypeOK
  <2> QED
    BY <2>3, <2>5
<1>9. TakenOf(hlp[s], up'[s], srow'[s])
  <2>1. CASE hlp[s].pc = "answer2"
    <3>1. /\ ses[s].comp = hlp[s].comp /\ hlp[s].pend = None
          /\ \A i \in DOMAIN down[s] : down[s][i].local = RowOf(hlp[s]).local
      BY <1>1, <2>1, Here DEF SessionInv, EndsInv, Joint
    <3>2. m.local = hlp[s].snap.rows[hlp[s].comp].local
      BY <1>4, <3>1 DEF RowOf
    <3>3. srow'[s][hlp[s].comp].local = m.local /\ \A k \in Curve : m.local[k] \in Nat
      BY <1>4, <1>7, <1>8, <3>1, SyncAssumption DEF Tally
    <3>4. \A k \in Curve : m.local[k] <= m.local[k]
      BY <3>3
    <3> QED
      BY <3>2, <3>3, <3>4 DEF TakenOf
  <2>2. CASE hlp[s].pc # "answer2"
    BY <2>2 DEF TakenOf
  <2> QED
    BY <2>1, <2>2
<1>10. FlagsOf(s, ses'[s], hlp[s], up'[s], down'[s], srow'[s], mrow, sync)
  <2>1. PICK x, h, u, d, r, n, f, y, v, e, w :
          /\ x = ses[s] /\ h = hlp[s] /\ u = up[s] /\ d = down[s] /\ r = srow[s] /\ n = mrow /\ f = sync
          /\ y = ses'[s] /\ v = up'[s] /\ e = down'[s] /\ w = srow'[s]
    OBVIOUS
  <2>2. /\ FlagsOf(s, x, h, u, d, r, n, f) /\ y.pc # "content2" /\ Known(d, e, {"OK", "Content"})
        /\ f[c][s] # "clear" /\ (\A b : b # c => w[b] = r[b]) /\ TakenOf(h, v, w)
    BY <1>2, <1>5, <1>6, <1>7, <1>8, <1>9, <2>1
  <2>3. FlagsOf(s, y, h, v, e, w, n, f)
    BY ONLY <2>2, FlagsReplaced
  <2> QED
    BY <2>1, <2>3
<1> QED
  BY <1>1, <1>10, TheSlave

-----------------------------------------------------------------------------
(* The master's steps.                                                      *)
LEMMA MasterFlags ==
  ASSUME IInv, FlagInv, OneSlave, NEW s \in Slave, UNCHANGED <<ses, srow, mrow, sync>>,
         Known(down[s], down'[s], {"OK", "Content"}), Known(up[s], up'[s], {"OK"}),
         SeenFlags(s, hlp'[s], sync), TodoFlags(s, hlp'[s], sync),
         hlp'[s].pc = "answer2" => hlp[s].pc = "answer2" /\ hlp'[s].snap = hlp[s].snap /\ hlp'[s].comp = hlp[s].comp
  PROVE  FlagInv'
<1>1. FlagsOf(s, ses[s], hlp[s], up[s], down[s], srow[s], mrow, sync)
  BY DEF FlagInv
<1>2. PICK x, h, u, d, r, m, f, g, v, e :
        /\ x = ses[s] /\ h = hlp[s] /\ u = up[s] /\ d = down[s] /\ r = srow[s] /\ m = mrow /\ f = sync
        /\ g = hlp'[s] /\ v = up'[s] /\ e = down'[s]
  OBVIOUS
<1>3. FlagsOf(s, x, h, u, d, r, m, f)
  BY <1>1, <1>2
<1>4. /\ Known(d, e, {"OK", "Content"}) /\ Known(u, v, {"OK"})
      /\ SeenFlags(s, g, f) /\ TodoFlags(s, g, f)
      /\ g.pc = "answer2" => h.pc = "answer2" /\ g.snap = h.snap /\ g.comp = h.comp
  BY <1>2
<1>5. FlagsOf(s, x, g, v, e, r, m, f)
  BY ONLY <1>3, <1>4, FlagsMaster
<1>6. FlagsOf(s, ses'[s], hlp'[s], up'[s], down'[s], srow'[s], mrow', sync')
  BY <1>2, <1>5
<1> QED
  BY <1>6, TheSlave

(* The master's side becomes g, and its transaction is over.                *)
LEMMA BecomesMaster ==
  ASSUME TypeOK, NEW s \in Slave, NEW g, hlp' = [hlp EXCEPT ![s] = g]
  PROVE  hlp'[s] = g
  BY DEF TypeOK

LEMMA RolledBackFlags ==
  ASSUME IInv, FlagInv, OneSlave, NEW s \in Slave, UNCHANGED <<ses, srow, mrow, sync>>,
         Known(down[s], down'[s], {"OK", "Content"}), Known(up[s], up'[s], {"OK"}),
         hlp'[s].snap = None, hlp'[s].added = {}, hlp'[s].pc \notin Phase2
  PROVE  FlagInv'
<1>1. SeenFlags(s, hlp'[s], sync) /\ TodoFlags(s, hlp'[s], sync)
  BY FlagsRolledBack
<1>2. hlp'[s].pc # "answer2"
  BY DEF Phase2
<1> QED
  BY <1>1, <1>2, MasterFlags

(* The rows the master's side has added.                                    *)
LEMMA AddedRows ==
  ASSUME NEW h \in Helper
  PROVE  /\ h.added \subseteq Composite /\ h.todo \subseteq Composite
         /\ MasterRollback(h).added = {} /\ MasterRollback(h).snap = None /\ MasterRollback(h).pc = h.pc
         /\ FailedAt(h).added = {} /\ Sent(h).added = {} /\ OutOfStep(h).added = h.added
         /\ \A c, snap : Accepted(h, c, snap).added = {} /\ Chosen(h, c, snap).added = h.added
         /\ \A snap, todo : Sending(h, snap, todo).added = h.added /\ Populated(h, snap, todo).added = todo
         /\ \A row : Added(h, row).added = h.added
         /\ \A p : MovedTo(h, p).added = h.added
         /\ \A c : Stale(h, c).added = h.added
  BY DEF Helper, MasterRollback, FailedAt, Sent, OutOfStep, Accepted, Chosen, Sending, Populated, Added, MovedTo, Stale

LEMMA FailingFlags ==
  ASSUME IInv, FlagInv, OneSlave, NEW s \in Slave, UNCHANGED <<ses, srow, mrow, sync>>, MasterReads(s), FailComposite(s),
         hlp[s].comp \in Composite
  PROVE  FlagInv'
<1>1. TypeOK /\ hlp[s] \in Helper
  BY DEF IInv, TypeOK
<1>2. Known(up[s], up'[s], {"OK"})
  BY <1>1, ReadByMaster
<1>3. Known(down[s], down'[s], {"OK", "Content"})
  <2>1. MasterSays(s, <<About("Error", hlp[s].comp)>>) /\ About("Error", hlp[s].comp) \in Message
        /\ About("Error", hlp[s].comp).type \notin {"OK", "Content"}
    BY Lines, LineTypes DEF FailComposite
  <2> QED
    BY <1>1, <2>1, SaidByMaster
<1>4. hlp'[s] = FailedAt(hlp[s])
  BY <1>1, BecomesMaster DEF FailComposite, FailedAt
<1>5. hlp'[s].snap = None /\ hlp'[s].added = {} /\ hlp'[s].pc \notin Phase2
  BY <1>1, <1>4, FailedAtFields, AddedRows DEF Phase2
<1> QED
  BY <1>2, <1>3, <1>5, RolledBackFlags

LEMMA MasterClosingFlags ==
  ASSUME IInv, FlagInv, OneSlave, NEW s \in Slave, UNCHANGED <<ses, srow, mrow, sync>>, Known(up[s], up'[s], {"OK"}),
         MasterCloses(s, <<NoMore>>) \/ MasterCloses(s, <<SyncError>>)
  PROVE  FlagInv'
<1>1. TypeOK
  BY DEF IInv
<1>2. Known(down[s], down'[s], {"OK", "Content"})
  <2>1. MasterSays(s, <<NoMore>>) \/ MasterSays(s, <<SyncError>>)
    BY DEF MasterCloses
  <2> QED
    BY <1>1, <2>1, Lines, LineTypes, SaidByMaster
<1>3. hlp'[s] = [NoHelper EXCEPT !.pc = "closed"]
  BY <1>1, BecomesMaster DEF MasterCloses
<1>4. hlp'[s].snap = None /\ hlp'[s].added = {} /\ hlp'[s].pc \notin Phase2
  BY <1>3 DEF NoHelper, Phase2
<1> QED
  BY <1>2, <1>4, RolledBackFlags

(* A helper thread that sends nothing yet.                                  *)
LEMMA NoTodo ==
  ASSUME NEW s, NEW g, NEW f, g.pc \notin Phase2
  PROVE  TodoFlags(s, g, f)
  BY DEF TodoFlags, Phase2

LEMMA PopulateSlaveSyncFlags ==
  ASSUME IInv, FlagInv, OneSlave, NEW s \in Slave, PopulateSlaveSync(s)
  PROVE  FlagInv'
<1>1. TypeOK /\ UNCHANGED <<ses, srow, mrow, sync, up, down>> /\ hlp[s] \in Helper
  BY DEF IInv, TypeOK, PopulateSlaveSync, MasterDB
<1>2. PICK added \in SUBSET Composite : added = {c \in Composite : mrow[c].exists /\ sync[c][s] = "none"}
  OBVIOUS
<1>3. hlp'[s] = Populated(hlp[s], Snapshot, added)
  <2>1. hlp' = [hlp EXCEPT ![s] = Populated(hlp[s], Snapshot, added)]
    BY <1>2 DEF PopulateSlaveSync, Populated
  <2> QED
    BY <1>1, <2>1, BecomesMaster
<1>4. hlp'[s].pc = "receive" /\ hlp'[s].snap = Snapshot /\ hlp'[s].added = added
  BY <1>1, <1>3, PopulatedFields, SnapshotFields, AddedRows
<1>5. SeenFlags(s, hlp'[s], sync) /\ TodoFlags(s, hlp'[s], sync)
  <2>1. hlp'[s].snap.sync = sync /\ \A c \in hlp'[s].added : sync[c][s] = "none"
    BY <1>2, <1>4 DEF Snapshot
  <2>2. hlp'[s].pc \notin Phase2
    BY <1>4 DEF Phase2
  <2> QED
    BY <2>1, <2>2, FlagsSeen, NoTodo
<1>6. Known(up[s], up'[s], {"OK"}) /\ Known(down[s], down'[s], {"OK", "Content"})
  BY <1>1, KnownSame
<1> QED
  BY <1>1, <1>4, <1>5, <1>6, MasterFlags

LEMMA StartCompositeFlags ==
  ASSUME IInv, FlagInv, OneSlave, NEW s \in Slave, StartComposite(s)
  PROVE  FlagInv'
<1>1. TypeOK /\ UNCHANGED <<ses, srow, mrow, sync>> /\ hlp[s] \in Helper /\ MasterReads(s) /\ hlp[s].pc = "receive"
  BY DEF IInv, TypeOK, StartComposite, MasterDB
<1>2. PICK c \in Composite : c = ToMaster(s).comp
  <2>1. ToMaster(s) \in Message /\ ToMaster(s).type = "Begin"
    BY <1>1, MasterReadsOne DEF StartComposite
  <2> QED
    BY <2>1, MessageFields
<1>3. Known(up[s], up'[s], {"OK"})
  BY <1>1, ReadByMaster
<1>4. Known(down[s], down'[s], {"OK", "Content"})
  <2>1. MasterSays(s, <<SyncError, About("Error", c)>>) \/ MasterSays(s, <<About("Found", c)>>)
    BY <1>2 DEF StartComposite
  <2>2. /\ SyncError \in Message /\ About("Error", c) \in Message /\ About("Found", c) \in Message
        /\ SyncError.type \notin {"OK", "Content"} /\ About("Error", c).type \notin {"OK", "Content"}
        /\ About("Found", c).type \notin {"OK", "Content"}
    BY Lines, LineTypes
  <2> QED
    BY <1>1, <2>1, <2>2, SaidByMaster
<1>5. CASE hlp' = [hlp EXCEPT ![s] = MasterRollback(hlp[s])]
  <2>1. hlp'[s] = MasterRollback(hlp[s])
    BY <1>1, <1>5, BecomesMaster
  <2>2. hlp'[s].snap = None /\ hlp'[s].added = {} /\ hlp'[s].pc \notin Phase2
    BY <1>1, <2>1, AddedRows DEF Phase2
  <2> QED
    BY <1>1, <1>3, <1>4, <2>2, RolledBackFlags
<1>6. CASE hlp' = [hlp EXCEPT ![s] = Accepted(hlp[s], c, Snapshot)]
  <2>1. hlp'[s] = Accepted(hlp[s], c, Snapshot)
    BY <1>1, <1>6, BecomesMaster
  <2>2. hlp'[s].snap = Snapshot /\ hlp'[s].added = {} /\ hlp'[s].pc = "work"
    BY <1>1, <2>1, AcceptedFields, SnapshotFields, AddedRows
  <2>3. SeenFlags(s, hlp'[s], sync) /\ TodoFlags(s, hlp'[s], sync)
    <3>1. hlp'[s].snap.sync = sync /\ hlp'[s].pc \notin Phase2
      BY <2>2 DEF Snapshot, Phase2
    <3> QED
      BY <2>2, <3>1, FlagsSeen, NoTodo
  <2> QED
    BY <1>1, <1>3, <1>4, <2>2, <2>3, MasterFlags
<1> QED
  BY <1>2, <1>5, <1>6 DEF StartComposite, Accepted

LEMMA AddWorkFlags ==
  ASSUME IInv, FlagInv, OneSlave, NEW s \in Slave, AddWork(s)
  PROVE  FlagInv'
<1>1. TypeOK /\ UNCHANGED <<ses, srow, mrow, sync>> /\ hlp[s] \in Helper /\ MasterReads(s) /\ hlp[s].pc = "work"
  BY DEF IInv, TypeOK, AddWork, MasterDB
<1>2. hlp[s].comp \in Composite
  BY <1>1, Here DEF SessionInv, EndsInv, Helper
<1>3. CASE FailComposite(s)
  BY <1>1, <1>2, <1>3, FailingFlags
<1>4. ASSUME NEW row, hlp' = [hlp EXCEPT ![s] = Added(hlp[s], row)], MasterSays(s, <<About("Begin", hlp[s].comp)>>)
      PROVE  FlagInv'
  <2>1. hlp'[s] = Added(hlp[s], row)
    BY <1>1, <1>4, BecomesMaster
  <2>2. hlp'[s].pc = "found" /\ hlp'[s].snap = hlp[s].snap /\ hlp'[s].added = hlp[s].added
    BY <1>1, <2>1 DEF Added, Helper
  <2>3. SeenFlags(s, hlp'[s], sync) /\ TodoFlags(s, hlp'[s], sync)
    <3>1. SeenFlags(s, hlp[s], sync) /\ hlp'[s].pc \notin Phase2
      BY <2>2 DEF FlagInv, FlagsOf, Phase2
    <3> QED
      BY <2>2, <3>1, NoTodo DEF SeenFlags
  <2>4. Known(up[s], up'[s], {"OK"})
    BY <1>1, ReadByMaster
  <2>5. Known(down[s], down'[s], {"OK", "Content"})
    <3>1. About("Begin", hlp[s].comp) \in Message /\ About("Begin", hlp[s].comp).type \notin {"OK", "Content"}
      BY <1>2, Lines, LineTypes
    <3> QED
      BY <1>1, <1>4, <3>1, SaidByMaster
  <2> QED
    BY <1>1, <2>2, <2>3, <2>4, <2>5, MasterFlags
<1>5. \/ FailComposite(s)
      \/ \E row : hlp' = [hlp EXCEPT ![s] = Added(hlp[s], row)] /\ MasterSays(s, <<About("Begin", hlp[s].comp)>>)
  BY DEF AddWork, Added
<1> QED
  BY <1>3, <1>4, <1>5

LEMMA StartSendingFlags ==
  ASSUME IInv, FlagInv, OneSlave, NEW s \in Slave, StartSending(s)
  PROVE  FlagInv'
<1>1. TypeOK /\ UNCHANGED <<ses, srow, mrow, sync>> /\ hlp[s] \in Helper /\ MasterReads(s)
  BY DEF IInv, TypeOK, StartSending, MasterDB
<1>2. PICK snap : snap = (IF hlp[s].snap = None THEN Snapshot ELSE hlp[s].snap) /\ snap # None
  BY <1>1, SnapshotFields
<1>3. PICK todo : todo = {c \in Composite : snap.sync[c][s] = "send"} \cup hlp[s].added
  OBVIOUS
<1>4. hlp'[s] = Sending(hlp[s], snap, todo)
  <2>1. hlp' = [hlp EXCEPT ![s] = Sending(hlp[s], snap, todo)]
    BY <1>2, <1>3 DEF StartSending, Sending
  <2> QED
    BY <1>1, <2>1, BecomesMaster
<1>5. hlp'[s].pc = "next2" /\ hlp'[s].snap = snap /\ hlp'[s].todo = todo /\ hlp'[s].added = hlp[s].added
  BY <1>1, <1>4 DEF Sending, Helper
<1>6. SeenFlags(s, hlp[s], sync)
  BY DEF FlagInv, FlagsOf
<1>7. /\ \A c \in Composite : /\ snap.sync[c][s] = "none" <=> sync[c][s] = "none"
                              /\ snap.sync[c][s] = "send" => sync[c][s] # "clear"
      /\ \A c \in hlp[s].added : sync[c][s] = "none"
  <2>1. snap = hlp[s].snap \/ snap.sync = sync
    BY <1>2 DEF Snapshot
  <2> QED
    BY <1>2, <1>6, <2>1 DEF SeenFlags
<1>8. SeenFlags(s, hlp'[s], sync)
  BY <1>5, <1>7 DEF SeenFlags
<1>9. TodoFlags(s, hlp'[s], sync)
  BY <1>3, <1>5, <1>7 DEF TodoFlags
<1>10. Known(up[s], up'[s], {"OK"})
  BY <1>1, ReadByMaster
<1>11. Known(down[s], down'[s], {"OK", "Content"})
  <2>1. MasterSays(s, <<Start>>) /\ Start \in Message /\ Start.type \notin {"OK", "Content"}
    BY Lines, LineTypes DEF StartSending
  <2> QED
    BY <1>1, <2>1, SaidByMaster
<1>12. hlp'[s].pc # "answer2"
  BY <1>5
<1> QED
  BY <1>1, <1>8, <1>9, <1>10, <1>11, <1>12, MasterFlags

LEMMA SendCompositeFlags ==
  ASSUME IInv, FlagInv, OneSlave, NEW s \in Slave, SendComposite(s)
  PROVE  FlagInv'
<1>1. /\ TypeOK /\ UNCHANGED <<ses, srow, mrow, sync, up>> /\ hlp[s] \in Helper
      /\ hlp[s].pc = "next2" /\ hlp[s].todo # {}
  BY DEF IInv, TypeOK, SendComposite, MasterDB
<1>2. PICK snap : snap = (IF hlp[s].snap = None THEN Snapshot ELSE hlp[s].snap)
  OBVIOUS
<1>3. PICK c \in Composite : c = First(hlp[s].todo) /\ c \in hlp[s].todo
  BY <1>1, FirstMember DEF Helper
<1>4. hlp'[s] = Chosen(hlp[s], c, snap)
  <2>1. hlp' = [hlp EXCEPT ![s] = Chosen(hlp[s], c, snap)]
    BY <1>2, <1>3 DEF SendComposite, Chosen
  <2> QED
    BY <1>1, <2>1, BecomesMaster
<1>5. /\ hlp'[s].pc = "found2" /\ hlp'[s].snap = snap /\ hlp'[s].comp = c /\ hlp'[s].todo = hlp[s].todo \ {c}
      /\ hlp'[s].added = hlp[s].added
  BY <1>1, <1>4 DEF Chosen, Helper
<1>6. SeenFlags(s, hlp[s], sync) /\ \A b \in hlp[s].todo : sync[b][s] # "clear"
  BY <1>1 DEF FlagInv, FlagsOf, TodoFlags, Phase2
<1>7. SeenFlags(s, hlp'[s], sync)
  <2>1. snap = hlp[s].snap \/ snap.sync = sync
    BY <1>2 DEF Snapshot
  <2> QED
    BY <1>5, <1>6, <2>1 DEF SeenFlags
<1>8. TodoFlags(s, hlp'[s], sync)
  BY <1>3, <1>5, <1>6 DEF TodoFlags
<1>9. Known(up[s], up'[s], {"OK"})
  BY <1>1, KnownSame
<1>10. Known(down[s], down'[s], {"OK", "Content"})
  <2>1. MasterSays(s, <<About("Begin", c)>>) /\ About("Begin", c) \in Message /\ About("Begin", c).type \notin {"OK", "Content"}
    BY <1>3, Lines, LineTypes DEF SendComposite
  <2> QED
    BY <1>1, <2>1, SaidByMaster
<1>11. hlp'[s].pc # "answer2"
  BY <1>5
<1> QED
  BY <1>1, <1>7, <1>8, <1>9, <1>10, <1>11, MasterFlags

LEMMA EndSendingFlags ==
  ASSUME IInv, FlagInv, OneSlave, NEW s \in Slave, EndSending(s)
  PROVE  FlagInv'
<1>1. UNCHANGED <<ses, srow, mrow, sync, up>> /\ MasterCloses(s, <<NoMore>>)
  BY DEF EndSending, MasterDB
<1>2. Known(up[s], up'[s], {"OK"})
  BY <1>1, KnownSame
<1> QED
  BY <1>1, <1>2, MasterClosingFlags

LEMMA MasterTimesOutFlags ==
  ASSUME IInv, FlagInv, OneSlave, NEW s \in Slave, MasterTimesOut(s)
  PROVE  FlagInv'
<1>1. UNCHANGED <<ses, srow, mrow, sync, up>> /\ MasterCloses(s, <<SyncError>>)
  BY DEF MasterTimesOut
<1>2. Known(up[s], up'[s], {"OK"})
  BY <1>1, KnownSame
<1> QED
  BY <1>1, <1>2, MasterClosingFlags

(* The master's side stands where it was.                                   *)
LEMMA StandingFlags ==
  ASSUME IInv, FlagInv, OneSlave, NEW s \in Slave, UNCHANGED <<ses, srow, mrow, sync>>, MasterReads(s),
         NEW g, hlp' = [hlp EXCEPT ![s] = g],
         g.pc = hlp[s].pc, g.comp = hlp[s].comp, g.snap = hlp[s].snap, g.todo = hlp[s].todo, g.added = hlp[s].added,
         MasterSays(s, <<SyncError>>) \/ MasterSays(s, <<>>) \/ UNCHANGED down
  PROVE  FlagInv'
<1>1. TypeOK
  BY DEF IInv
<1>2. Known(up[s], up'[s], {"OK"})
  BY <1>1, ReadByMaster
<1>3. Known(down[s], down'[s], {"OK", "Content"})
  <2>1. SyncError \in Message /\ SyncError.type \notin {"OK", "Content"}
    BY Lines, LineTypes
  <2>2. UNCHANGED down => Known(down[s], down'[s], {"OK", "Content"})
    BY KnownSame
  <2> QED
    BY <1>1, <2>1, <2>2, SaidByMaster
<1>4. hlp'[s] = g
  BY <1>1, BecomesMaster
<1>5. SeenFlags(s, hlp'[s], sync) /\ TodoFlags(s, hlp'[s], sync)
  BY <1>4 DEF FlagInv, FlagsOf, SeenFlags, TodoFlags
<1> QED
  BY <1>2, <1>3, <1>4, <1>5, MasterFlags

LEMMA MasterSkipsFlags ==
  ASSUME IInv, FlagInv, OneSlave, NEW s \in Slave, MasterSkips(s)
  PROVE  FlagInv'
<1>1. TypeOK /\ UNCHANGED <<ses, srow, mrow, sync>> /\ MasterReads(s) /\ hlp[s] \in Helper
  BY DEF IInv, TypeOK, MasterSkips, MasterDB
<1>2. hlp = [hlp EXCEPT ![s] = hlp[s]]
  BY <1>1 DEF TypeOK
<1>3. CASE hlp' = hlp /\ (MasterSays(s, <<SyncError>>) \/ UNCHANGED down)
  BY <1>1, <1>2, <1>3, StandingFlags
<1>4. CASE /\ hlp' = [hlp EXCEPT ![s] = OutOfStep(hlp[s])]
           /\ MasterSays(s, <<SyncError>>) \/ MasterSays(s, <<>>)
  <2>1. PICK g : /\ g = OutOfStep(hlp[s])
                 /\ g.pc = hlp[s].pc /\ g.comp = hlp[s].comp /\ g.snap = hlp[s].snap /\ g.todo = hlp[s].todo
                 /\ g.added = hlp[s].added
    BY <1>1, OutOfStepFields, AddedRows
  <2> QED
    BY <1>1, <1>4, <2>1, StandingFlags
<1>5. CASE hlp[s].pc = "found" /\ FailComposite(s)
  <2>1. hlp[s].comp \in Composite
    BY <1>1, <1>5, Here DEF SessionInv, EndsInv, Helper
  <2> QED
    BY <1>1, <1>5, <2>1, FailingFlags
<1>6. CASE MasterCloses(s, <<NoMore>>)
  <2>1. Known(up[s], up'[s], {"OK"})
    BY <1>1, ReadByMaster
  <2> QED
    BY <1>1, <1>6, <2>1, MasterClosingFlags
<1>7. \/ hlp' = hlp /\ (MasterSays(s, <<SyncError>>) \/ UNCHANGED down)
      \/ /\ hlp' = [hlp EXCEPT ![s] = OutOfStep(hlp[s])]
         /\ MasterSays(s, <<SyncError>>) \/ MasterSays(s, <<>>)
      \/ hlp[s].pc = "found" /\ FailComposite(s)
      \/ MasterCloses(s, <<NoMore>>)
  BY DEF MasterSkips, OutOfStep
<1> QED
  BY <1>3, <1>4, <1>5, <1>6, <1>7

(* The content of a composite: one that is flagged, when the slave is to     *)
(* replace its own.                                                         *)
LEMMA FlagsContent ==
  ASSUME NEW s, NEW x, NEW h, NEW u, NEW d, NEW r, NEW m, NEW f, FlagsOf(s, x, h, u, d, r, m, f),
         NEW g, NEW v, NEW e, NEW a, e = d \/ Put(d, a, e), a.type # "OK",
         Put(d, a, e) /\ x.pc = "content2" => f[a.comp][s] # "clear",
         SeenFlags(s, g, f), TodoFlags(s, g, f),
         g.pc = "answer2" => \A i \in DOMAIN v : v[i].type # "OK"
  PROVE  FlagsOf(s, x, g, v, e, r, m, f)
<1>1. ClearOf(s, r, m, f)
  BY DEF FlagsOf
<1>2. LineFlags(s, x, e, f)
  <2> SUFFICES ASSUME NEW i \in DOMAIN e, e[i].type = "OK" \/ (e[i].type = "Content" /\ x.pc = "content2")
               PROVE  f[e[i].comp][s] # "clear"
    BY DEF LineFlags
  <2>1. CASE i \in DOMAIN d /\ e[i] = d[i]
    BY <2>1 DEF FlagsOf, LineFlags
  <2>2. CASE Put(d, a, e) /\ e[i] = a
    BY <2>2
  <2> QED
    BY <2>1, <2>2 DEF Put
<1>3. TakenOf(g, v, r)
  BY DEF TakenOf
<1> QED
  BY <1>1, <1>2, <1>3 DEF FlagsOf

LEMMA SendContentFlags ==
  ASSUME IInv, FlagInv, OneSlave, NEW s \in Slave, SendContent(s)
  PROVE  FlagInv'
<1>1. /\ TypeOK /\ UNCHANGED <<ses, srow, mrow, sync>> /\ MasterReads(s) /\ hlp[s] \in Helper
      /\ (hlp[s].pc = "found") \/ (hlp[s].pc = "found2")
  BY DEF IInv, TypeOK, SendContent, MasterDB
<1>2. hlp[s].comp \in Composite /\ hlp[s].snap # None
  BY <1>1, Here DEF SessionInv, EndsInv, Helper
<1>3. PICK l \in Tally : l = RowOf(hlp[s]).local
  BY <1>1, <1>2 DEF RowOf, Helper, MasterRow
<1>4. PICK a \in Message : /\ a = [type |-> "Content", comp |-> hlp[s].comp, local |-> l]
                           /\ a.type = "Content" /\ a.comp = hlp[s].comp
  BY <1>2, <1>3, Lines
<1>5. MasterSays(s, <<a>>)
  BY <1>3, <1>4 DEF SendContent, RowOf
<1>6. /\ down'[s] = down[s] \/ Put(down[s], a, down'[s])
      /\ Put(down[s], a, down'[s]) => ses[s].pc # "closed"
  <2>1. \/ link[s] /\ ses[s].pc # "closed" /\ Put(down[s], a, down'[s])
        \/ (~link[s] \/ ses[s].pc = "closed") /\ down'[s] = down[s]
    BY <1>1, <1>5, MasterSaysOne
  <2>2. down[s] \in Seq(Message)
    BY <1>1 DEF TypeOK
  <2>3. ~Put(down[s], a, down[s])
    BY <2>2, Indices DEF Put
  <2> QED
    BY <2>1, <2>3
<1>7. PICK p : /\ p = IF hlp[s].pc = "found" THEN "answer" ELSE "answer2"
               /\ p = "answer" \/ (p = "answer2" /\ hlp[s].pc = "found2")
  BY <1>1
<1>8. PICK g : /\ g = MovedTo(hlp[s], p) /\ g.pc = p /\ g.comp = hlp[s].comp /\ g.snap = hlp[s].snap
               /\ g.todo = hlp[s].todo /\ g.added = hlp[s].added
  <2>1. MovedTo(hlp[s], p).pc = p /\ MovedTo(hlp[s], p).comp = hlp[s].comp /\ MovedTo(hlp[s], p).snap = hlp[s].snap
        /\ MovedTo(hlp[s], p).todo = hlp[s].todo /\ MovedTo(hlp[s], p).added = hlp[s].added
    BY <1>1 DEF MovedTo, Helper
  <2> QED
    BY <2>1
<1>9. hlp'[s] = g
  <2>1. hlp' = [hlp EXCEPT ![s] = g]
    BY <1>7, <1>8 DEF SendContent, MovedTo
  <2> QED
    BY <1>1, <2>1, BecomesMaster
<1>10. FlagsOf(s, ses[s], hlp[s], up[s], down[s], srow[s], mrow, sync)
  BY DEF FlagInv
<1>11. SeenFlags(s, g, sync) /\ TodoFlags(s, g, sync)
  BY <1>7, <1>8, <1>10 DEF FlagsOf, SeenFlags, TodoFlags, Phase2
<1>12. Put(down[s], a, down'[s]) /\ ses[s].pc = "content2" => sync[a.comp][s] # "clear"
  <2> SUFFICES ASSUME ses[s].pc = "content2"
               PROVE  sync[a.comp][s] # "clear"
    OBVIOUS
  <2>1. hlp[s].pc = "found2"
    BY <1>1, Here DEF SessionInv, Joint
  <2> QED
    BY <1>4, <1>10, <2>1 DEF FlagsOf, TodoFlags
<1>13. g.pc = "answer2" => \A i \in DOMAIN up'[s] : up'[s][i].type # "OK"
  <2> SUFFICES ASSUME hlp[s].pc = "found2", NEW i \in DOMAIN up'[s]
               PROVE  up'[s][i].type # "OK"
    BY <1>7, <1>8
  <2>1. Known(up[s], up'[s], {"OK"})
    BY <1>1, ReadByMaster
  <2>2. \A j \in DOMAIN up[s] : up[s][j].type # "OK"
    BY Here DEF SessionInv, UpInv, Wanted
  <2> QED
    BY <2>1, <2>2 DEF Known
<1>14. FlagsOf(s, ses'[s], hlp'[s], up'[s], down'[s], srow'[s], mrow', sync')
  <2>1. PICK x, h, u, d, r, m, f, v, e :
          /\ x = ses[s] /\ h = hlp[s] /\ u = up[s] /\ d = down[s] /\ r = srow[s] /\ m = mrow /\ f = sync
          /\ v = up'[s] /\ e = down'[s]
    OBVIOUS
  <2>2. /\ FlagsOf(s, x, h, u, d, r, m, f)
        /\ e = d \/ Put(d, a, e)
        /\ a.type # "OK"
        /\ Put(d, a, e) /\ x.pc = "content2" => f[a.comp][s] # "clear"
        /\ SeenFlags(s, g, f) /\ TodoFlags(s, g, f)
        /\ g.pc = "answer2" => \A i \in DOMAIN v : v[i].type # "OK"
    BY <1>4, <1>6, <1>10, <1>11, <1>12, <1>13, <2>1
  <2>3. FlagsOf(s, x, g, v, e, r, m, f)
    BY ONLY <2>2, FlagsContent
  <2> QED
    BY <1>1, <1>9, <2>1, <2>3
<1> QED
  BY <1>14, TheSlave

(* A composite that the slave has confirmed is no longer flagged.           *)
LEMMA FlagsSent ==
  ASSUME NEW s, NEW x, NEW h, NEW u, NEW d, NEW r, NEW m, NEW f, FlagsOf(s, x, h, u, d, r, m, f),
         h.pc = "answer2", h.todo \subseteq Composite,
         \E i \in DOMAIN u : u[i].type = "OK",
         \A k \in Curve : h.snap.rows[h.comp].local[k] = m[h.comp].local[k],
         \A i \in DOMAIN d : ~(d[i].type = "OK" \/ (d[i].type = "Content" /\ x.pc = "content2")),
         NEW g, NEW v, g.pc = "next2", g.snap = None, g.added = {}, g.todo = h.todo,
         NEW w, \A c \in Composite : w[c][s] = IF c = h.comp THEN "clear" ELSE IF c \in h.added THEN "send" ELSE f[c][s]
  PROVE  FlagsOf(s, x, g, v, d, r, m, w)
<1>1. SeenFlags(s, g, w)
  BY DEF SeenFlags
<1>2. TodoFlags(s, g, w)
  <2>1. h.comp \notin h.todo /\ \A c \in h.todo : f[c][s] # "clear"
    BY DEF FlagsOf, TodoFlags, Phase2
  <2>2. \A c \in h.todo : w[c][s] # "clear"
    BY <2>1
  <2> QED
    BY <2>2 DEF TodoFlags
<1>3. LineFlags(s, x, d, w)
  BY DEF LineFlags
<1>4. TakenOf(g, v, r)
  BY DEF TakenOf
<1>5. ClearOf(s, r, m, w)
  <2> SUFFICES ASSUME NEW k \in Curve, w[CompositeOf[k]][s] = "clear"
               PROVE  Counts(m, k) <= r[CompositeOf[k]].local[k]
    BY DEF ClearOf
  <2>1. PICK c \in Composite : c = CompositeOf[k]
    BY SyncAssumption
  <2>2. CASE c = h.comp
    <3>1. h.snap.rows[h.comp].local[k] <= r[h.comp].local[k]
      BY DEF FlagsOf, TakenOf
    <3> QED
      BY <2>1, <2>2, <3>1 DEF Counts
  <2>3. CASE c # h.comp
    <3>1. f[c][s] = "clear"
      BY <2>1, <2>3
    <3> QED
      BY <2>1, <3>1 DEF FlagsOf, ClearOf
  <2> QED
    BY <2>2, <2>3
<1> QED
  BY <1>1, <1>2, <1>3, <1>4, <1>5 DEF FlagsOf

LEMMA CompositeSentFlags ==
  ASSUME IInv, FlagInv, OneSlave, Postgres, NEW s \in Slave, CompositeSent(s)
  PROVE  FlagInv'
<1>1. /\ TypeOK /\ UNCHANGED <<mrow, srow, ses>> /\ MasterReads(s) /\ hlp[s] \in Helper
      /\ hlp[s].pc = "answer2" /\ ToMaster(s) = About("OK", hlp[s].comp)
  BY DEF IInv, TypeOK, CompositeSent
<1>2. hlp[s].comp \in Composite /\ hlp[s].snap # None
  BY <1>1, Here DEF SessionInv, EndsInv, Helper
<1>3. CASE MasterCloses(s, <<NoMore>>) /\ UNCHANGED sync
  <2>1. Known(up[s], up'[s], {"OK"})
    BY <1>1, ReadByMaster
  <2> QED
    BY <1>1, <1>3, <2>1, MasterClosingFlags
<1>4. CASE /\ MasterWritable(s, hlp[s].comp)
           /\ sync' = [c \in Composite |->
                [sync[c] EXCEPT ![s] = IF c = hlp[s].comp THEN "clear" ELSE IF c \in hlp[s].added THEN "send" ELSE @]]
           /\ hlp' = [hlp EXCEPT ![s] = Sent(hlp[s])]
           /\ UNCHANGED down
  <2>1. PICK g : /\ g = hlp'[s] /\ g.pc = "next2" /\ g.snap = None /\ g.added = {} /\ g.todo = hlp[s].todo
    <3>1. hlp'[s] = Sent(hlp[s])
      BY <1>1, <1>4, BecomesMaster
    <3> QED
      BY <1>1, <3>1, SentFields, AddedRows
  <2>2. \E i \in DOMAIN up[s] : up[s][i].type = "OK"
    <3>1. Took(up[s], About("OK", hlp[s].comp), up'[s])
      BY <1>1, MasterReadsOne
    <3>2. 1 \in DOMAIN up[s] /\ up[s][1].type = "OK"
      BY <3>1 DEF Took, About
    <3> QED
      BY <3>2
  <2>3. \A k \in Curve : hlp[s].snap.rows[hlp[s].comp].local[k] = mrow[hlp[s].comp].local[k]
    <3>1. hlp[s].comp \notin hlp[s].stale
      BY <1>4 DEF MasterWritable
    <3> QED
      BY <1>2, <3>1, Here DEF DataOf, SeenOf
  <2>4. \A i \in DOMAIN down[s] : ~(down[s][i].type = "OK" \/ (down[s][i].type = "Content" /\ ses[s].pc = "content2"))
    <3> SUFFICES ASSUME NEW i \in DOMAIN down[s]
                 PROVE  /\ down[s][i].type # "OK"
                        /\ ses[s].pc # "content2"
      OBVIOUS
    <3>1. SessionInv(ses[s], hlp[s], up[s], down[s])
      BY Here
    <3>2. up[s] # <<>>
      BY <1>1 DEF MasterReads
    <3>3. down[s][i].type = "OK" => ses[s].pc = "answer"
      BY <3>1 DEF SessionInv, DownInv
    <3> QED
      BY <1>1, <3>1, <3>2, <3>3 DEF SessionInv, Joint
  <2>5. \A c \in Composite :
          sync'[c][s] = IF c = hlp[s].comp THEN "clear" ELSE IF c \in hlp[s].added THEN "send" ELSE sync[c][s]
    BY <1>1, <1>4 DEF TypeOK
  <2>6. FlagsOf(s, ses[s], hlp[s], up[s], down[s], srow[s], mrow, sync) /\ hlp[s].todo \subseteq Composite
    BY <1>1, AddedRows DEF FlagInv
  <2>7. PICK x, h, u, d, r, m, f, v, w :
          /\ x = ses[s] /\ h = hlp[s] /\ u = up[s] /\ d = down[s] /\ r = srow[s] /\ m = mrow /\ f = sync
          /\ v = up'[s] /\ w = sync'
    OBVIOUS
  <2>8. /\ FlagsOf(s, x, h, u, d, r, m, f) /\ h.pc = "answer2" /\ h.todo \subseteq Composite
        /\ \E i \in DOMAIN u : u[i].type = "OK"
        /\ \A k \in Curve : h.snap.rows[h.comp].local[k] = m[h.comp].local[k]
        /\ \A i \in DOMAIN d : ~(d[i].type = "OK" \/ (d[i].type = "Content" /\ x.pc = "content2"))
        /\ g.pc = "next2" /\ g.snap = None /\ g.added = {} /\ g.todo = h.todo
        /\ \A c \in Composite : w[c][s] = IF c = h.comp THEN "clear" ELSE IF c \in h.added THEN "send" ELSE f[c][s]
    BY <1>1, <2>1, <2>2, <2>3, <2>4, <2>5, <2>6, <2>7
  <2>9. FlagsOf(s, x, g, v, d, r, m, w)
    BY ONLY <2>8, FlagsSent
  <2>10. FlagsOf(s, ses'[s], hlp'[s], up'[s], down'[s], srow'[s], mrow', sync')
    BY <1>1, <1>4, <2>1, <2>7, <2>9
  <2> QED
    BY <2>10, TheSlave
<1>5. \/ MasterCloses(s, <<NoMore>>) /\ UNCHANGED sync
      \/ /\ MasterWritable(s, hlp[s].comp)
         /\ sync' = [c \in Composite |->
              [sync[c] EXCEPT ![s] = IF c = hlp[s].comp THEN "clear" ELSE IF c \in hlp[s].added THEN "send" ELSE @]]
         /\ hlp' = [hlp EXCEPT ![s] = Sent(hlp[s])]
         /\ UNCHANGED down
  BY DEF CompositeSent, Sent
<1> QED
  BY <1>3, <1>4, <1>5

(* Only the curves of c differ.                                             *)
SameBut(c, m, n) == \A b \in Composite : b # c => n[b].local = m[b].local

(* A change of the master's flags those who have been told of the composite. *)
LEMMA ClearRaised ==
  ASSUME NEW s, NEW r, NEW m, NEW f, NEW n, NEW w, ClearOf(s, r, m, f), Raised(s, f, w),
         NEW c, w[c][s] # "clear", SameBut(c, m, n)
  PROVE  ClearOf(s, r, n, w)
<1> SUFFICES ASSUME NEW k \in Curve, w[CompositeOf[k]][s] = "clear"
             PROVE  Counts(n, k) <= r[CompositeOf[k]].local[k]
  BY DEF ClearOf
<1>1. PICK b \in Composite : b = CompositeOf[k] /\ b # c
  BY SyncAssumption
<1>2. f[b][s] = "clear"
  BY <1>1 DEF Raised
<1>3. Counts(m, k) <= r[b].local[k]
  BY <1>1, <1>2 DEF ClearOf
<1> QED
  BY <1>1, <1>3 DEF Counts, SameBut

LEMMA FlaggedFlags ==
  ASSUME TypeOK, NEW s \in Slave, NEW c \in Composite, NEW seen, sync' = [sync EXCEPT ![c] = Flagged(c, seen)],
         seen[c][s] = "none" <=> sync[c][s] = "none"
  PROVE  Raised(s, sync, sync') /\ sync'[c][s] # "clear"
<1>1. /\ sync'[c][s] = IF sync[c][s] # "none" /\ seen[c][s] # "none" THEN "send" ELSE sync[c][s]
      /\ \A b \in Composite \ {c} : sync'[b] = sync[b]
  BY DEF TypeOK, Flagged
<1>2. sync'[c][s] = IF sync[c][s] # "none" THEN "send" ELSE sync[c][s]
  BY <1>1
<1> QED
  BY <1>1, <1>2 DEF Raised

(* The master commits what it has added, and says so.                       *)
LEMMA FlagsChanged ==
  ASSUME NEW s, NEW x, NEW h, NEW u, NEW d \in Seq(Message), NEW r, NEW m, NEW f, FlagsOf(s, x, h, u, d, r, m, f),
         NEW w, Raised(s, f, w), NEW c \in Composite, w[c][s] # "clear",
         NEW n, SameBut(c, m, n),
         NEW g, NEW v, NEW e, e = d \/ Put(d, About("OK", c), e),
         SeenFlags(s, g, w), TodoFlags(s, g, w), TakenOf(g, v, r)
  PROVE  FlagsOf(s, x, g, v, e, r, n, w)
<1>1. ClearOf(s, r, n, w)
  BY ClearRaised DEF FlagsOf
<1>2. LineFlags(s, x, d, w)
  BY LinesRaised DEF FlagsOf
<1>3. LineFlags(s, x, e, w)
  <2> SUFFICES ASSUME NEW i \in DOMAIN e, e[i].type = "OK" \/ (e[i].type = "Content" /\ x.pc = "content2")
               PROVE  w[e[i].comp][s] # "clear"
    BY DEF LineFlags
  <2>1. CASE i \in DOMAIN d /\ e[i] = d[i]
    BY <1>2, <2>1 DEF LineFlags
  <2>2. CASE e[i] = About("OK", c)
    BY <2>2 DEF About
  <2> QED
    BY <2>1, <2>2 DEF Put
<1> QED
  BY <1>1, <1>3 DEF FlagsOf

LEMMA MasterCommitsFlags ==
  ASSUME IInv, FlagInv, OneSlave, NEW s \in Slave, MasterCommits(s)
  PROVE  FlagInv'
<1>1. /\ TypeOK /\ UNCHANGED <<srow, ses>> /\ MasterReads(s) /\ hlp[s] \in Helper /\ hlp[s].pc = "answer"
      /\ mrow \in [Composite -> MasterRow]
  BY DEF IInv, TypeOK, MasterCommits
<1>2. hlp[s].comp \in Composite /\ hlp[s].snap # None
  BY <1>1, Here DEF SessionInv, EndsInv, Helper
<1>3. CASE FailComposite(s) /\ UNCHANGED <<mrow, sync>>
  BY <1>1, <1>2, <1>3, FailingFlags
<1>4. ASSUME NEW seen, NEW row, mrow' = [mrow EXCEPT ![hlp[s].comp] = row],
             sync' = [sync EXCEPT ![hlp[s].comp] = Flagged(hlp[s].comp, seen)], seen = hlp[s].snap.sync \/ seen = sync,
             hlp' = HelpersAfter(s, FailedAt(hlp[s]), hlp[s].comp), MasterSays(s, <<About("OK", hlp[s].comp)>>)
      PROVE  FlagInv'
  <2>1. PICK g : g = hlp'[s] /\ g.snap = None /\ g.added = {} /\ g.pc \notin Phase2
    <3>1. hlp'[s] = FailedAt(hlp[s])
      BY <1>4 DEF HelpersAfter
    <3>2. hlp'[s].snap = None /\ hlp'[s].added = {} /\ hlp'[s].pc \notin Phase2
      BY <1>1, <3>1, FailedAtFields, AddedRows DEF Phase2
    <3> QED
      BY <3>2
  <2>2. PICK c \in Composite : c = hlp[s].comp
    BY <1>2
  <2>3. seen[c][s] = "none" <=> sync[c][s] = "none"
    BY <1>2, <1>4, <2>2 DEF FlagInv, FlagsOf, SeenFlags
  <2>4. Raised(s, sync, sync') /\ sync'[c][s] # "clear"
    BY <1>1, <1>4, <2>2, <2>3, FlaggedFlags
  <2>5. SameBut(c, mrow, mrow')
    BY <1>1, <1>4, <2>2 DEF SameBut
  <2>6. down'[s] = down[s] \/ Put(down[s], About("OK", c), down'[s])
    <3>1. About("OK", c) \in Message
      BY Lines
    <3> QED
      BY <1>1, <1>4, <2>2, <3>1, MasterSaysOne
  <2>7. SeenFlags(s, g, sync') /\ TodoFlags(s, g, sync')
    BY <2>1, FlagsRolledBack
  <2>8. TakenOf(g, up'[s], srow[s])
    BY <2>1 DEF TakenOf, Phase2
  <2>9. FlagsOf(s, ses[s], hlp[s], up[s], down[s], srow[s], mrow, sync) /\ down[s] \in Seq(Message)
    BY <1>1 DEF FlagInv, TypeOK
  <2>10. PICK x, h, u, d, r, m, f, v, e, n, w :
          /\ x = ses[s] /\ h = hlp[s] /\ u = up[s] /\ d = down[s] /\ r = srow[s] /\ m = mrow /\ f = sync
          /\ v = up'[s] /\ e = down'[s] /\ n = mrow' /\ w = sync'
    OBVIOUS
  <2>11. /\ FlagsOf(s, x, h, u, d, r, m, f) /\ d \in Seq(Message)
         /\ Raised(s, f, w) /\ w[c][s] # "clear" /\ SameBut(c, m, n)
         /\ e = d \/ Put(d, About("OK", c), e)
         /\ SeenFlags(s, g, w) /\ TodoFlags(s, g, w) /\ TakenOf(g, v, r)
    BY <2>4, <2>5, <2>6, <2>7, <2>8, <2>9, <2>10
  <2>12. FlagsOf(s, x, g, v, e, r, n, w)
    BY ONLY <2>11, c \in Composite, FlagsChanged
  <2>13. FlagsOf(s, ses'[s], hlp'[s], up'[s], down'[s], srow'[s], mrow', sync')
    BY <1>1, <2>1, <2>10, <2>12
  <2> QED
    BY <2>13, TheSlave
<1>5. \/ FailComposite(s) /\ UNCHANGED <<mrow, sync>>
      \/ \E seen, row :
           /\ mrow' = [mrow EXCEPT ![hlp[s].comp] = row]
           /\ sync' = [sync EXCEPT ![hlp[s].comp] = Flagged(hlp[s].comp, seen)]
           /\ seen = hlp[s].snap.sync \/ seen = sync
           /\ hlp' = HelpersAfter(s, FailedAt(hlp[s]), hlp[s].comp)
           /\ MasterSays(s, <<About("OK", hlp[s].comp)>>)
  <2>1. PICK seen, row : /\ row = (IF hlp[s].pend # None THEN hlp[s].pend ELSE mrow[hlp[s].comp])
                         /\ seen = (IF Postgres THEN hlp[s].snap.sync ELSE sync)
    OBVIOUS
  <2> QED
    BY <2>1 DEF MasterCommits, FailedAt
<1> QED
  BY <1>3, <1>4, <1>5

LEMMA ReturnAtMasterFlags ==
  ASSUME IInv, FlagInv, OneSlave, NEW j \in Curve, ReturnAtMaster(j)
  PROVE  FlagInv'
<1> SUFFICES ASSUME NEW s \in Slave
             PROVE  FlagsOf(s, ses'[s], hlp'[s], up'[s], down'[s], srow'[s], mrow', sync')
  BY DEF FlagInv
<1>1. /\ TypeOK /\ UNCHANGED <<srow, ses, up, down>> /\ hlp[s] \in Helper /\ mrow \in [Composite -> MasterRow]
      /\ down[s] \in Seq(Message)
  BY DEF IInv, TypeOK, ReturnAtMaster
<1>2. PICK c \in Composite : c = CompositeOf[j]
  BY SyncAssumption
<1>3. PICK g : /\ g = hlp'[s] /\ g.pc = hlp[s].pc /\ g.comp = hlp[s].comp /\ g.snap = hlp[s].snap
               /\ g.todo = hlp[s].todo /\ g.added = hlp[s].added
  <2>1. hlp'[s] = IF hlp[s].snap = None THEN hlp[s] ELSE Stale(hlp[s], c)
    BY <1>2, SyncAssumption DEF ReturnAtMaster, HelpersAfter, Stale
  <2>2. /\ Stale(hlp[s], c).pc = hlp[s].pc /\ Stale(hlp[s], c).comp = hlp[s].comp /\ Stale(hlp[s], c).snap = hlp[s].snap
        /\ Stale(hlp[s], c).todo = hlp[s].todo /\ Stale(hlp[s], c).added = hlp[s].added
    BY <1>1, StaleFields, AddedRows
  <2> QED
    BY <2>1, <2>2
<1>4. Raised(s, sync, sync') /\ sync'[c][s] # "clear"
  <2>1. sync' = [sync EXCEPT ![c] = Flagged(c, sync)]
    BY <1>2 DEF ReturnAtMaster
  <2> QED
    BY <1>1, <2>1, FlaggedFlags
<1>5. SameBut(c, mrow, mrow')
  BY <1>1, <1>2 DEF SameBut, ReturnAtMaster
<1>6. FlagsOf(s, ses[s], hlp[s], up[s], down[s], srow[s], mrow, sync)
  BY DEF FlagInv
<1>7. SeenFlags(s, g, sync') /\ TodoFlags(s, g, sync') /\ TakenOf(g, up[s], srow[s])
  <2>1. hlp[s].added \subseteq Composite /\ hlp[s].todo \subseteq Composite
    BY <1>1, AddedRows
  <2>2. hlp[s].pc \in {"found2", "answer2"} => hlp[s].comp \in Composite
    BY <1>1, Here DEF SessionInv, EndsInv, Helper
  <2>3. SeenFlags(s, hlp[s], sync') /\ TodoFlags(s, hlp[s], sync')
    BY <1>4, <1>6, <2>1, <2>2, FlagsRaised DEF FlagsOf
  <2>4. TakenOf(hlp[s], up[s], srow[s])
    BY <1>6 DEF FlagsOf
  <2>5. SeenFlags(s, g, sync')
    BY <1>3, <2>3 DEF SeenFlags
  <2>6. TodoFlags(s, g, sync')
    BY <1>3, <2>3 DEF TodoFlags
  <2>7. TakenOf(g, up[s], srow[s])
    BY <1>3, <2>4 DEF TakenOf
  <2> QED
    BY <2>5, <2>6, <2>7
<1>8. PICK x, h, u, d, r, m, f, n, w :
        /\ x = ses[s] /\ h = hlp[s] /\ u = up[s] /\ d = down[s] /\ r = srow[s] /\ m = mrow /\ f = sync
        /\ n = mrow' /\ w = sync'
  OBVIOUS
<1>9. /\ FlagsOf(s, x, h, u, d, r, m, f) /\ d \in Seq(Message)
      /\ Raised(s, f, w) /\ w[c][s] # "clear" /\ SameBut(c, m, n)
      /\ d = d \/ Put(d, About("OK", c), d)
      /\ SeenFlags(s, g, w) /\ TodoFlags(s, g, w) /\ TakenOf(g, u, r)
  BY <1>1, <1>4, <1>5, <1>6, <1>7, <1>8
<1>10. FlagsOf(s, x, g, u, d, r, n, w)
  BY ONLY <1>9, c \in Composite, FlagsChanged
<1> QED
  BY <1>1, <1>3, <1>8, <1>10

(* The slave's own curves only grow.                                        *)
LEMMA FlagsReturned ==
  ASSUME NEW s, NEW x, NEW h \in Helper, NEW u, NEW d, NEW r \in [Composite -> SlaveRow],
         NEW m \in [Composite -> MasterRow], NEW f, FlagsOf(s, x, h, u, d, r, m, f),
         h.pc = "answer2" => h.comp \in Composite /\ h.snap # None,
         NEW w \in [Composite -> SlaveRow], \A c \in Composite : \A k \in Curve : r[c].local[k] <= w[c].local[k]
  PROVE  FlagsOf(s, x, h, u, d, w, m, f)
<1>1. \A c \in Composite : \A k \in Curve : r[c].local[k] \in Nat /\ w[c].local[k] \in Nat
  BY SyncAssumption DEF SlaveRow, Tally
<1>2. TakenOf(h, u, w)
  <2> SUFFICES ASSUME h.pc = "answer2", NEW i \in DOMAIN u, u[i].type = "OK", NEW k \in Curve
               PROVE  h.snap.rows[h.comp].local[k] <= w[h.comp].local[k]
    BY DEF TakenOf
  <2>1. h.snap.rows[h.comp].local[k] <= r[h.comp].local[k]
    BY DEF FlagsOf, TakenOf
  <2>2. h.snap.rows \in [Composite -> MasterRow]
    BY DEF Helper
  <2>3. h.snap.rows[h.comp].local[k] \in Nat
    BY <2>2, CountsNat
  <2> QED
    BY <1>1, <2>1, <2>3
<1>3. ClearOf(s, w, m, f)
  <2> SUFFICES ASSUME NEW k \in Curve, f[CompositeOf[k]][s] = "clear"
               PROVE  Counts(m, k) <= w[CompositeOf[k]].local[k]
    BY DEF ClearOf
  <2>1. Counts(m, k) <= r[CompositeOf[k]].local[k]
    BY DEF FlagsOf, ClearOf
  <2>2. Counts(m, k) \in Nat /\ CompositeOf[k] \in Composite
    BY CountsNat, SyncAssumption
  <2> QED
    BY <1>1, <2>1, <2>2
<1> QED
  BY <1>2, <1>3 DEF FlagsOf

LEMMA ReturnAtSlaveFlags ==
  ASSUME IInv, FlagInv, OneSlave, NEW s \in Slave, NEW j \in Curve, ReturnAtSlave(j, s)
  PROVE  FlagInv'
<1>1. /\ TypeOK /\ UNCHANGED <<mrow, sync, ses, hlp, up, down>> /\ hlp[s] \in Helper /\ mrow \in [Composite -> MasterRow]
      /\ srow[s] \in [Composite -> SlaveRow] /\ srow \in [Slave -> [Composite -> SlaveRow]]
  BY DEF IInv, TypeOK, ReturnAtSlave
<1>2. PICK c \in Composite : c = CompositeOf[j]
  BY SyncAssumption
<1>3. PICK a \in SlaveRow : a = srow[s][c]
  BY <1>1
<1>4. PICK row : /\ row = [a EXCEPT !.local = Plus(a.local, {j}), !.since = a.since \cup {j}, !.toMaster = TRUE]
                 /\ row.local = Plus(a.local, {j})
  <2>1. [a EXCEPT !.local = Plus(a.local, {j}), !.since = a.since \cup {j}, !.toMaster = TRUE].local = Plus(a.local, {j})
    BY DEF SlaveRow
  <2> QED
    BY <2>1
<1>5. srow' = [srow EXCEPT ![s][c] = row]
  BY <1>2, <1>3, <1>4 DEF ReturnAtSlave
<1>6. srow'[s][c] = row /\ \A b \in Composite \ {c} : srow'[s][b] = srow[s][b]
  BY <1>1, <1>5
<1>7. srow'[s] \in [Composite -> SlaveRow]
  <2>1. IInv'
    BY ReturnAtSlaveStep
  <2> QED
    BY <2>1 DEF IInv, TypeOK
<1>8. ASSUME NEW b \in Composite, NEW k \in Curve
      PROVE  srow[s][b].local[k] <= srow'[s][b].local[k]
  <2>1. srow[s][b].local[k] \in Nat
    BY <1>1, SyncAssumption DEF SlaveRow, Tally
  <2>2. CASE b # c
    BY <1>6, <2>1, <2>2
  <2>3. CASE b = c
    <3>1. row.local[k] = a.local[k] + IF k \in {j} THEN 1 ELSE 0
      BY <1>4 DEF Plus
    <3>2. row.local[k] = a.local[k] \/ row.local[k] = a.local[k] + 1
      BY <1>3, <2>1, <2>3, <3>1
    <3> QED
      BY <1>3, <1>6, <2>1, <2>3, <3>2
  <2> QED
    BY <2>2, <2>3
<1>9. hlp[s].pc = "answer2" => hlp[s].comp \in Composite /\ hlp[s].snap # None
  BY <1>1, Here DEF SessionInv, EndsInv, Helper
<1>10. FlagsOf(s, ses[s], hlp[s], up[s], down[s], srow[s], mrow, sync)
  BY DEF FlagInv
<1>11. FlagsOf(s, ses[s], hlp[s], up[s], down[s], srow'[s], mrow, sync)
  BY <1>1, <1>7, <1>8, <1>9, <1>10, FlagsReturned
<1> QED
  BY <1>1, <1>11, TheSlave

LEMMA AddCompositeFlags ==
  ASSUME IInv, FlagInv, OneSlave, NEW c \in Later, AddComposite(c)
  PROVE  FlagInv'
<1> SUFFICES ASSUME NEW s \in Slave
             PROVE  FlagsOf(s, ses'[s], hlp'[s], up'[s], down'[s], srow'[s], mrow', sync')
  BY DEF FlagInv
<1>1. UNCHANGED <<sync, srow, ses, hlp, up, down>> /\ mrow \in [Composite -> MasterRow] /\ c \in Composite
  BY SyncAssumption DEF IInv, TypeOK, AddComposite
<1>2. FlagsOf(s, ses[s], hlp[s], up[s], down[s], srow[s], mrow, sync)
  BY DEF FlagInv
<1>3. \A b \in Composite : mrow'[b].local = mrow[b].local
  <2>1. mrow[c] \in MasterRow /\ mrow'[c] = [mrow[c] EXCEPT !.exists = TRUE]
    BY <1>1 DEF AddComposite
  <2>2. mrow'[c].local = mrow[c].local
    BY <2>1 DEF MasterRow
  <2>3. \A b \in Composite \ {c} : mrow'[b] = mrow[b]
    BY <1>1 DEF AddComposite
  <2> QED
    BY <2>2, <2>3
<1>4. ClearOf(s, srow[s], mrow', sync)
  <2>1. \A k \in Curve : Counts(mrow', k) = Counts(mrow, k)
    BY <1>3, SyncAssumption DEF Counts
  <2> QED
    BY <1>2, <2>1 DEF FlagsOf, ClearOf
<1> QED
  BY <1>1, <1>2, <1>4 DEF FlagsOf

LEMMA EndSessionFlags ==
  ASSUME IInv, FlagInv, OneSlave, NEW s \in Slave, EndSession(s)
  PROVE  FlagInv'
<1>1. UNCHANGED <<mrow, sync, srow>> /\ hlp'[s] = NoHelper /\ up'[s] = <<>> /\ down'[s] = <<>>
  BY DEF IInv, TypeOK, EndSession
<1>2. FlagsOf(s, ses[s], hlp[s], up[s], down[s], srow[s], mrow, sync)
  BY DEF FlagInv
<1>3. PICK g : g = NoHelper /\ g.snap = None /\ g.added = {} /\ g.pc \notin Phase2
  <2>1. NoHelper.snap = None /\ NoHelper.added = {} /\ NoHelper.pc \notin Phase2
    BY DEF NoHelper, Phase2
  <2> QED
    BY <2>1
<1>4. FlagsOf(s, ses'[s], g, <<>>, <<>>, srow[s], mrow, sync)
  BY <1>2, <1>3, FlagsOver
<1> QED
  BY <1>1, <1>3, <1>4, TheSlave

LEMMA LoseConnectionFlags ==
  ASSUME IInv, FlagInv, OneSlave, NEW s \in Slave, LoseConnection(s)
  PROVE  FlagInv'
<1>1. UNCHANGED <<mrow, sync, srow, ses, hlp>> /\ up[s] \in Seq(Message) /\ down[s] \in Seq(Message)
  BY DEF IInv, TypeOK, LoseConnection
<1>2. PICK i \in 0..Len(up[s]), j \in 0..Len(down[s]) :
        up'[s] = SubSeq(up[s], 1, i) /\ down'[s] = SubSeq(down[s], 1, j)
  BY DEF IInv, TypeOK, LoseConnection
<1>3. Known(up[s], up'[s], {"OK"})
  BY <1>1, <1>2, Cuts DEF Known
<1>4. Known(down[s], down'[s], {"OK", "Content"})
  BY <1>1, <1>2, Cuts DEF Known
<1>5. ses'[s].pc = ses[s].pc
  BY <1>1
<1> QED
  BY <1>1, <1>3, <1>4, <1>5, SlaveFlags

-----------------------------------------------------------------------------
LEMMA InitFlags ==
  ASSUME Init
  PROVE  FlagInv
<1> SUFFICES ASSUME NEW s \in Slave
             PROVE  FlagsOf(s, ses[s], hlp[s], up[s], down[s], srow[s], mrow, sync)
  BY DEF FlagInv
<1>1. hlp[s] = NoHelper /\ up[s] = <<>> /\ down[s] = <<>> /\ \A c \in Composite : sync[c][s] = "none"
  BY DEF Init
<1>2. PICK g : g = NoHelper /\ g.snap = None /\ g.added = {} /\ g.pc \notin Phase2
  <2>1. NoHelper.snap = None /\ NoHelper.added = {} /\ NoHelper.pc \notin Phase2
    BY DEF NoHelper, Phase2
  <2> QED
    BY <2>1
<1>3. SeenFlags(s, g, sync) /\ TodoFlags(s, g, sync)
  BY <1>2, FlagsRolledBack
<1>4. LineFlags(s, ses[s], <<>>, sync) /\ TakenOf(g, <<>>, srow[s])
  BY DEF LineFlags, TakenOf
<1>5. ClearOf(s, srow[s], mrow, sync)
  BY <1>1, SyncAssumption DEF ClearOf
<1> QED
  BY <1>1, <1>2, <1>3, <1>4, <1>5 DEF FlagsOf

LEMMA NextFlags ==
  ASSUME IInv, FlagInv, OneSlave, Postgres, [Next]_vars
  PROVE  FlagInv'
<1>1. ASSUME NEW s \in Slave, SlaveStep(s)
      PROVE  FlagInv'
  BY <1>1, StartSyncFlags, BeginCompositeFlags, EndPhase1Flags, SendWorkFlags, CompositeRefusedFlags, DeleteDetailsFlags,
     InsertDetailsFlags, SlaveCommitsFlags, StartPhase2Flags, ReceiveCompositeFlags, ReplaceCompositeFlags, EndPhase2Flags,
     SlaveSkipsFlags, SlaveTimesOutFlags DEF SlaveStep
<1>2. ASSUME NEW s \in Slave, MasterStep(s)
      PROVE  FlagInv'
  BY <1>2, PopulateSlaveSyncFlags, StartCompositeFlags, AddWorkFlags, SendContentFlags, MasterCommitsFlags,
     StartSendingFlags, SendCompositeFlags, CompositeSentFlags, EndSendingFlags, MasterSkipsFlags, MasterTimesOutFlags
     DEF MasterStep
<1>3. ASSUME NEW s \in Slave, EndSession(s) \/ LoseConnection(s)
      PROVE  FlagInv'
  BY <1>3, EndSessionFlags, LoseConnectionFlags
<1>4. ASSUME Client
      PROVE  FlagInv'
  BY <1>4, ReturnAtSlaveFlags, ReturnAtMasterFlags, AddCompositeFlags DEF Client
<1>5. CASE UNCHANGED vars
  BY <1>5 DEF vars, FlagInv
<1> QED
  BY <1>1, <1>2, <1>3, <1>4, <1>5 DEF Next

(* On PostgreSQL the only slave of a master has, of every composite whose   *)
(* flag is clear, at least the curves the master has: a change at the       *)
(* master sets the flag again (SendUpdatesToAllSlaves), and the flag is     *)
(* cleared only when nothing changed since the row was read                 *)
(* (SentUpdateToSlave).                                                     *)
THEOREM MissedCorrect ==
  ASSUME Postgres, OneSlave
  PROVE  Spec => []NoMissedUpdate
<1>1. Init => IInv /\ FlagInv
  BY InitIInv, InitFlags
<1>2. IInv /\ FlagInv /\ [Next]_vars => (IInv /\ FlagInv)'
  BY NextIInv, NextFlags
<1>3. IInv /\ FlagInv => NoMissedUpdate
  BY DEF FlagInv, FlagsOf, ClearOf, Counts, NoMissedUpdate
<1> QED
  BY <1>1, <1>2, <1>3, PTL DEF Spec
=============================================================================
