------------------------- MODULE ReturnSessionProofs -------------------------
(***************************************************************************)
(* ReturnSession implements WorkLedger, and a unit is counted once, and once *)
(* more for each failure: for any units, replies, sessions and failures.    *)
(***************************************************************************)
EXTENDS ReturnSession, SequenceTheorems, FiniteSetTheorems, TLAPS

Settled(u) == counted[u] > 0 \/ u \in Untouched \/ u \in waived

(* Where the client is against what it has to return.                       *)
ClientInv ==
  /\ cpc \in {"idle", "saving", "draining", "down"} => todo = <<>>
  /\ cpc = "down" => mem = <<>>
  /\ cpc = "waiting" => todo # <<>>
  /\ cpc \in {"returning", "waiting", "draining"} => session \in Session

(* A unit that was handed out is settled, or held and, unless the file is   *)
(* just being written, on file.                                             *)
UnitInv ==
  /\ UnitsOf(mem) \cup UnitsOf(todo) \cup UnitsOf(file) \subseteq Issued
  /\ cpc # "saving" => \A u \in Issued \ UnitsOf(file) : Settled(u)
  /\ \A u \in Issued \ Held : Settled(u)

(* What is under way: only a settled unit is accepted, only units with      *)
(* curves are returned, and a helper thread ends the work of no other unit. *)
GoodAnswer(a) == a.type = "Accepted" => counted[a.unit] > 0 \/ a.unit \in waived
GoodLine(l)   == l.type = "Return" => l.unit \in Issued \ Untouched
GoodThread(h) ==
  /\ h.open # None => h.open \in Issued \ Untouched
  /\ h.good # None => h.good \notin Refused /\ h.open \in {None, h.good}

NetInv ==
  \A n \in Session :
    /\ \A a \in UnitsOf(s2c[n]) : GoodAnswer(a)
    /\ \A l \in UnitsOf(c2s[n]) : GoodLine(l)
    /\ GoodThread(srv[n])

IInv == TypeOK /\ ClientInv /\ UnitInv /\ NetInv

-----------------------------------------------------------------------------
(* The elements of sequences. *)

LEMMA ElementsIn == ASSUME NEW S, NEW q \in Seq(S) PROVE UnitsOf(q) \subseteq S
  BY DEF UnitsOf

LEMMA ElementsOfSuper == ASSUME NEW S, NEW T, S \subseteq T, NEW q \in Seq(S) PROVE q \in Seq(T)
  OBVIOUS

LEMMA ElementsHead ==
  ASSUME NEW S, NEW q \in Seq(S), q # <<>>
  PROVE  Head(q) \in S /\ Tail(q) \in Seq(S) /\ UnitsOf(q) = {Head(q)} \cup UnitsOf(Tail(q))
<1>1. Tail(q) \in Seq(S) /\ Len(Tail(q)) = Len(q) - 1 /\ Head(q) = q[1] /\ Len(q) > 0 /\ Head(q) \in S
  OBVIOUS
<1>2. ASSUME NEW i \in 1..Len(q) PROVE q[i] = Head(q) \/ q[i] \in UnitsOf(Tail(q))
  <2>1. CASE i = 1
    BY <1>1, <2>1
  <2>2. CASE i # 1
    <3>1. i - 1 \in DOMAIN Tail(q) /\ Tail(q)[i - 1] = q[i]
      BY <1>1, <2>2
    <3> QED
      BY <3>1 DEF UnitsOf
  <2> QED
    BY <2>1, <2>2
<1>3. ASSUME NEW i \in 1..Len(Tail(q)) PROVE Tail(q)[i] \in UnitsOf(q)
  <2>1. i + 1 \in DOMAIN q /\ Tail(q)[i] = q[i + 1]
    BY <1>1
  <2> QED
    BY <2>1 DEF UnitsOf
<1>4. Head(q) \in UnitsOf(q)
  BY <1>1 DEF UnitsOf
<1>5. DOMAIN q = 1..Len(q) /\ DOMAIN Tail(q) = 1..Len(Tail(q))
  BY <1>1
<1> QED
  BY <1>1, <1>2, <1>3, <1>4, <1>5 DEF UnitsOf

LEMMA ElementsJoin ==
  ASSUME NEW S, NEW p \in Seq(S), NEW q \in Seq(S)
  PROVE  p \o q \in Seq(S) /\ UnitsOf(p \o q) = UnitsOf(p) \cup UnitsOf(q)
<1>1. p \o q \in Seq(S) /\ Len(p \o q) = Len(p) + Len(q) /\ Len(p) \in Nat /\ Len(q) \in Nat
  OBVIOUS
<1>2. DOMAIN (p \o q) = 1..(Len(p) + Len(q)) /\ DOMAIN p = 1..Len(p) /\ DOMAIN q = 1..Len(q)
  BY <1>1
<1>3. ASSUME NEW i \in 1..(Len(p) + Len(q)) PROVE (p \o q)[i] \in UnitsOf(p) \cup UnitsOf(q)
  <2>1. CASE i <= Len(p)
    BY <1>2, <2>1 DEF UnitsOf
  <2>2. CASE i > Len(p)
    <3>1. i - Len(p) \in DOMAIN q /\ (p \o q)[i] = q[i - Len(p)]
      BY <1>1, <1>2, <2>2
    <3> QED
      BY <3>1 DEF UnitsOf
  <2> QED
    BY <1>1, <2>1, <2>2
<1>4. ASSUME NEW i \in 1..Len(p) PROVE p[i] \in UnitsOf(p \o q)
  <2>1. i \in DOMAIN (p \o q) /\ (p \o q)[i] = p[i]
    BY <1>1, <1>2
  <2> QED
    BY <2>1 DEF UnitsOf
<1>5. ASSUME NEW i \in 1..Len(q) PROVE q[i] \in UnitsOf(p \o q)
  <2>1. Len(p) + i \in DOMAIN (p \o q) /\ (p \o q)[Len(p) + i] = q[i]
    BY <1>1, <1>2
  <2> QED
    BY <2>1 DEF UnitsOf
<1> QED
  BY <1>1, <1>2, <1>3, <1>4, <1>5 DEF UnitsOf

LEMMA ElementsAppend ==
  ASSUME NEW S, NEW q \in Seq(S), NEW x \in S
  PROVE  Append(q, x) \in Seq(S) /\ UnitsOf(Append(q, x)) = UnitsOf(q) \cup {x}
<1>1. <<x>> \in Seq(S) /\ UnitsOf(<<x>>) = {x} /\ Append(q, x) = q \o <<x>>
  BY DEF UnitsOf
<1>2. PICK w \in Seq(S) : UnitsOf(w) = {x} /\ Append(q, x) = q \o w
  BY <1>1
<1> QED
  BY <1>2, ElementsJoin

LEMMA ElementsEmpty == ASSUME NEW S PROVE <<>> \in Seq(S) /\ UnitsOf(<<>>) = {}
  BY DEF UnitsOf

LEMMA ElementsPrefix ==
  ASSUME NEW S, NEW q \in Seq(S), NEW p \in Prefixes(q)
  PROVE  p \in Seq(S) /\ UnitsOf(p) \subseteq UnitsOf(q)
<1>1. PICK i \in 0..Len(q) : p = SubSeq(q, 1, i)
  BY DEF Prefixes
<1>2. p \in Seq(S) /\ Len(p) = i /\ \A j \in 1..i : p[j] = q[j] /\ j \in DOMAIN q
  BY <1>1
<1>3. DOMAIN p = 1..i
  BY <1>2
<1> QED
  BY <1>2, <1>3 DEF UnitsOf

-----------------------------------------------------------------------------
(* Lines on the way. *)

LEMMA LinesOfType ==
  ASSUME NEW u \in Unit
  PROVE  /\ LinesOf(u) \in Seq(Line)
         /\ \A l \in UnitsOf(LinesOf(u)) : l.unit = u
<1> DEFINE All == [type : {"Return", "Factor", "End"}, unit : {u}]
           mid == IF u \in Factored THEN [i \in 1..3 |-> [type |-> "Factor", unit |-> u]] ELSE <<>>
<1>1. [type |-> "Return", unit |-> u] \in All /\ [type |-> "Factor", unit |-> u] \in All
      /\ [type |-> "End", unit |-> u] \in All
  OBVIOUS
<1>2. <<[type |-> "Return", unit |-> u]>> \in Seq(All) /\ <<[type |-> "End", unit |-> u]>> \in Seq(All)
  BY <1>1
<1>3. mid \in Seq(All)
  <2>1. [i \in 1..3 |-> [type |-> "Factor", unit |-> u]] \in Seq(All)
    <3>1. [i \in 1..3 |-> [type |-> "Factor", unit |-> u]] \in [1..3 -> All]
      BY <1>1
    <3>2. 3 \in Nat
      OBVIOUS
    <3> QED
      BY <3>1, <3>2, SeqDef
  <2>2. <<>> \in Seq(All)
    OBVIOUS
  <2> QED
    BY <2>1, <2>2
<1>4. <<[type |-> "Return", unit |-> u]>> \o mid \in Seq(All)
  BY <1>2, <1>3, ElementsJoin
<1>5. LinesOf(u) \in Seq(All)
  BY <1>2, <1>4, ElementsJoin DEF LinesOf
<1>6. All \subseteq Line
  BY DEF Line
<1>7. LinesOf(u) \in Seq(Line)
  BY <1>5, <1>6, ElementsOfSuper
<1> QED
  BY <1>5, <1>7, ElementsIn

(* The bodies of ToServer and ToClient. *)
LEMMA Sends ==
  ASSUME NEW S, NEW ch \in [Session -> Seq(S)], NEW n \in Session, NEW lines \in Seq(S),
         NEW after, after = [ch EXCEPT ![n] = @ \o lines] \/ after = ch
  PROVE  /\ after \in [Session -> Seq(S)]
         /\ \A m \in Session : UnitsOf(after[m]) \subseteq UnitsOf(ch[m]) \cup UnitsOf(lines)
<1>1. CASE after = ch
  BY <1>1
<1>2. CASE after = [ch EXCEPT ![n] = @ \o lines]
  <2>1. ch[n] \o lines \in Seq(S) /\ UnitsOf(ch[n] \o lines) = UnitsOf(ch[n]) \cup UnitsOf(lines)
    BY ElementsJoin
  <2>2. after = [ch EXCEPT ![n] = ch[n] \o lines]
    BY <1>2
  <2>3. ASSUME NEW m \in Session PROVE UnitsOf(after[m]) \subseteq UnitsOf(ch[m]) \cup UnitsOf(lines)
    <3>1. CASE m = n
      BY <2>1, <2>2, <3>1
    <3>2. CASE m # n
      BY <2>2, <3>2
    <3> QED
      BY <3>1, <3>2
  <2> QED
    BY <2>1, <2>2, <2>3
<1> QED
  BY <1>1, <1>2

LEMMA Replaces ==
  ASSUME NEW S, NEW ch \in [Session -> Seq(S)], NEW n \in Session, NEW q \in Seq(S),
         UnitsOf(q) \subseteq UnitsOf(ch[n])
  PROVE  /\ [ch EXCEPT ![n] = q] \in [Session -> Seq(S)]
         /\ \A m \in Session : UnitsOf([ch EXCEPT ![n] = q][m]) \subseteq UnitsOf(ch[m])
<1>1. ASSUME NEW m \in Session PROVE UnitsOf([ch EXCEPT ![n] = q][m]) \subseteq UnitsOf(ch[m])
  <2>1. CASE m = n
    BY <2>1
  <2>2. CASE m # n
    BY <2>2
  <2> QED
    BY <2>1, <2>2
<1> QED
  BY <1>1

(* What stays good as work is counted. *)
LEMMA NetKeeps ==
  ASSUME TypeOK, NetInv, Issued \subseteq Issued',
         s2c' \in [Session -> Seq(Answer)],
         waived \subseteq waived', \A u \in Unit : counted[u] > 0 => counted'[u] > 0,
         \A n \in Session : \A a \in UnitsOf(s2c'[n]) : a \in UnitsOf(s2c[n]) \/ GoodAnswer(a)',
         \A n \in Session : \A l \in UnitsOf(c2s'[n]) : l \in UnitsOf(c2s[n]) \/ GoodLine(l)',
         \A n \in Session : srv'[n] = srv[n] \/ GoodThread(srv[n])'
  PROVE  NetInv'
<1>1. ASSUME NEW n \in Session, NEW a \in UnitsOf(s2c'[n]) PROVE GoodAnswer(a)'
  <2>1. a \in Answer
    BY ElementsIn
  <2>2. a.type = "Accepted" => a.unit \in Unit
    BY <2>1 DEF Answer
  <2> QED
    BY <2>2 DEF NetInv, GoodAnswer
<1>2. ASSUME NEW n \in Session, NEW l \in UnitsOf(c2s'[n]) PROVE GoodLine(l)'
  BY DEF NetInv, GoodLine
<1>3. ASSUME NEW n \in Session PROVE GoodThread(srv[n])'
  BY DEF NetInv, GoodThread
<1> QED
  BY <1>1, <1>2, <1>3 DEF NetInv

LEMMA IssuedSame == ASSUME fetched' = fetched PROVE Issued' = Issued
  BY DEF Issued

-----------------------------------------------------------------------------
(* Steps of the client. *)

(* The units in memory change hands, and only settled ones are let go.      *)
LEMMA UnitsMove ==
  ASSUME UnitInv, fetched' = fetched, counted' = counted, waived' = waived, file' = file,
         cpc \notin {"down", "saving"}, cpc' # "down",
         UnitsOf(mem') \cup UnitsOf(todo') \subseteq UnitsOf(mem) \cup UnitsOf(todo),
         \A u \in UnitsOf(mem) \cup UnitsOf(todo) :
           u \in UnitsOf(mem') \cup UnitsOf(todo') \/ Settled(u)
  PROVE  UnitInv'
<1>1. Issued' = Issued
  BY IssuedSame
<1>2. Held = UnitsOf(mem) \cup UnitsOf(todo) /\ Held' = UnitsOf(mem') \cup UnitsOf(todo')
  BY DEF Held
<1>3. \A u : Settled(u) => Settled(u)'
  BY DEF Settled
<1> QED
  BY <1>1, <1>2, <1>3 DEF UnitInv

LEMMA NetQuiet ==
  ASSUME TypeOK, NetInv, fetched' = fetched, counted' = counted, waived \subseteq waived', srv' = srv,
         s2c' \in [Session -> Seq(Answer)],
         \A n \in Session : UnitsOf(s2c'[n]) \subseteq UnitsOf(s2c[n]),
         \A n \in Session : \A l \in UnitsOf(c2s'[n]) : l \in UnitsOf(c2s[n]) \/ GoodLine(l)'
  PROVE  NetInv'
<1>1. Issued' = Issued
  BY IssuedSame
<1> QED
  BY <1>1, NetKeeps

LEMMA SendAbandonStep == ASSUME IInv, SendAbandon PROVE IInv' /\ UNCHANGED <<fetched, counted, waived>>
<1> DEFINE u == Head(todo)
           lines == <<[type |-> "Abandon", unit |-> u]>>
<1>0. /\ TypeOK /\ ClientInv /\ UnitInv /\ NetInv /\ todo # <<>> /\ todo \in Seq(Unit) /\ cpc = "returning"
      /\ c2s \in [Session -> Seq(Line)] /\ s2c \in [Session -> Seq(Answer)]
  BY DEF IInv, SendAbandon, TypeOK
<1>1. /\ u \in Unit /\ todo' \in Seq(Unit) /\ UnitsOf(todo) = {u} \cup UnitsOf(todo')
  BY <1>0, ElementsHead DEF SendAbandon
<1>2. /\ UNCHANGED <<cpc, mem, file, fetched, session, s2c, srv, link, counted, waived, trouble>>
      /\ ToServer(lines) /\ session \in Session /\ u \in Untouched
  BY <1>0 DEF SendAbandon, ClientInv
<1>3. lines \in Seq(Line)
  BY <1>1 DEF Line
<1>4. UnitsOf(lines) = {[type |-> "Abandon", unit |-> u]}
  BY DEF UnitsOf
<1>5. /\ c2s' \in [Session -> Seq(Line)]
      /\ \A m \in Session : UnitsOf(c2s'[m]) \subseteq UnitsOf(c2s[m]) \cup UnitsOf(lines)
  <2>1. c2s' = [c2s EXCEPT ![session] = @ \o lines] \/ c2s' = c2s
    BY <1>2 DEF ToServer
  <2> QED
    BY <1>0, <1>2, <1>3, <2>1, Sends
<1>6. TypeOK'
  BY <1>0, <1>1, <1>2, <1>5 DEF TypeOK
<1>7. ClientInv'
  BY <1>0, <1>2 DEF ClientInv
<1>8. UnitInv'
  BY <1>0, <1>1, <1>2, UnitsMove DEF Settled
<1>9. NetInv'
  <2>1. \A l \in UnitsOf(lines) : GoodLine(l)'
    BY <1>4 DEF GoodLine
  <2> QED
    BY <1>0, <1>2, <1>5, <2>1, NetQuiet
<1> QED
  BY <1>2, <1>6, <1>7, <1>8, <1>9 DEF IInv

LEMMA SendUnitStep == ASSUME IInv, SendUnit PROVE IInv' /\ UNCHANGED <<fetched, counted, waived>>
<1> DEFINE u == Head(todo)
<1>0. /\ TypeOK /\ ClientInv /\ UnitInv /\ NetInv /\ todo # <<>> /\ todo \in Seq(Unit) /\ cpc = "returning"
      /\ c2s \in [Session -> Seq(Line)] /\ s2c \in [Session -> Seq(Answer)]
  BY DEF IInv, SendUnit, TypeOK
<1>1. u \in Unit /\ u \in UnitsOf(todo)
  BY <1>0, ElementsHead
<1>2. /\ UNCHANGED <<mem, todo, file, fetched, session, s2c, srv, link, counted, waived, trouble>>
      /\ ToServer(LinesOf(u)) /\ session \in Session /\ u \notin Untouched /\ cpc' = "waiting"
  BY <1>0 DEF SendUnit, ClientInv
<1>3. /\ c2s' \in [Session -> Seq(Line)]
      /\ \A m \in Session : UnitsOf(c2s'[m]) \subseteq UnitsOf(c2s[m]) \cup UnitsOf(LinesOf(u))
  <2>1. c2s' = [c2s EXCEPT ![session] = @ \o LinesOf(u)] \/ c2s' = c2s
    BY <1>2 DEF ToServer
  <2> QED
    BY <1>0, <1>1, <1>2, <2>1, LinesOfType, Sends
<1>4. TypeOK'
  BY <1>0, <1>2, <1>3 DEF TypeOK
<1>5. ClientInv'
  BY <1>0, <1>2 DEF ClientInv
<1>6. UnitInv'
  BY <1>0, <1>2, UnitsMove
<1>7. NetInv'
  <2>1. u \in Issued' \ Untouched
    BY <1>0, <1>1, <1>2, IssuedSame DEF UnitInv
  <2>2. \A l \in UnitsOf(LinesOf(u)) : GoodLine(l)'
    BY <1>1, <2>1, LinesOfType DEF GoodLine
  <2> QED
    BY <1>0, <1>2, <1>3, <2>2, NetQuiet
<1> QED
  BY <1>2, <1>4, <1>5, <1>6, <1>7 DEF IInv

LEMMA ReadAnswerStep == ASSUME IInv, ReadAnswer PROVE IInv' /\ UNCHANGED <<fetched, counted, waived>>
<1> DEFINE u == Head(todo)
           a == Head(s2c[session])
           q == Tail(s2c[session])
<1>0. /\ TypeOK /\ ClientInv /\ UnitInv /\ NetInv /\ cpc = "waiting"
      /\ todo # <<>> /\ todo \in Seq(Unit) /\ mem \in Seq(Unit)
      /\ session \in Session /\ s2c[session] # <<>> /\ s2c \in [Session -> Seq(Answer)]
  BY DEF IInv, ReadAnswer, TypeOK, ClientInv
<1>1. /\ u \in Unit /\ todo' \in Seq(Unit) /\ UnitsOf(todo) = {u} \cup UnitsOf(todo')
  BY <1>0, ElementsHead DEF ReadAnswer
<1>2. /\ UNCHANGED <<file, fetched, session, c2s, srv, link, counted, waived, trouble>>
      /\ cpc' = "returning" /\ s2c' = [s2c EXCEPT ![session] = q]
  BY DEF ReadAnswer
<1>3. q \in Seq(Answer) /\ UnitsOf(s2c[session]) = {a} \cup UnitsOf(q)
  BY <1>0, ElementsHead
<1>4. /\ s2c' \in [Session -> Seq(Answer)]
      /\ \A m \in Session : UnitsOf(s2c'[m]) \subseteq UnitsOf(s2c[m])
  BY <1>0, <1>2, <1>3, Replaces
<1>5. /\ mem' \in Seq(Unit)
      /\ \/ mem' = mem /\ Settled(u)
         \/ UnitsOf(mem') = UnitsOf(mem) \cup {u}
  <2>1. CASE a = [type |-> "Accepted", unit |-> u]
    <3>1. GoodAnswer(a)
      BY <1>0, <1>3 DEF NetInv
    <3> QED
      BY <1>0, <2>1, <3>1 DEF GoodAnswer, ReadAnswer, Settled
  <2>2. CASE a # [type |-> "Accepted", unit |-> u]
    <3>1. mem' = Append(mem, u)
      BY <2>2 DEF ReadAnswer
    <3> QED
      BY <1>0, <1>1, <3>1, ElementsAppend
  <2> QED
    BY <2>1, <2>2
<1>6. TypeOK'
  BY <1>0, <1>1, <1>2, <1>4, <1>5 DEF TypeOK
<1>7. ClientInv'
  BY <1>0, <1>2 DEF ClientInv
<1>8. UnitInv'
  BY <1>0, <1>1, <1>2, <1>5, UnitsMove
<1>9. NetInv'
  BY <1>0, <1>2, <1>4, NetQuiet
<1> QED
  BY <1>2, <1>6, <1>7, <1>8, <1>9 DEF IInv

LEMMA NoAnswerStep == ASSUME IInv, NoAnswer PROVE IInv' /\ UNCHANGED <<fetched, counted, waived>>
<1> DEFINE u == Head(todo)
<1>0. /\ TypeOK /\ ClientInv /\ UnitInv /\ NetInv /\ cpc = "waiting"
      /\ todo # <<>> /\ todo \in Seq(Unit) /\ mem \in Seq(Unit) /\ s2c \in [Session -> Seq(Answer)]
  BY DEF IInv, NoAnswer, TypeOK, ClientInv
<1>1. /\ u \in Unit /\ todo' \in Seq(Unit) /\ UnitsOf(todo) = {u} \cup UnitsOf(todo')
  BY <1>0, ElementsHead DEF NoAnswer
<1>2. /\ UNCHANGED <<file, fetched, session, c2s, s2c, srv, link, counted, waived>>
      /\ cpc' = "returning" /\ mem' = Append(mem, u)
      /\ trouble' = trouble \/ Trouble
  BY DEF NoAnswer
<1>3. mem' \in Seq(Unit) /\ UnitsOf(mem') = UnitsOf(mem) \cup {u}
  BY <1>0, <1>1, <1>2, ElementsAppend
<1>4. trouble' \in 0..MaxTrouble
  BY <1>0, <1>2, SessionAssumption DEF TypeOK, Trouble
<1>5. TypeOK'
  BY <1>0, <1>1, <1>2, <1>3, <1>4 DEF TypeOK
<1>6. ClientInv'
  BY <1>0, <1>2 DEF ClientInv
<1>7. UnitInv'
  BY <1>0, <1>1, <1>2, <1>3, UnitsMove
<1>8. NetInv'
  BY <1>0, <1>2, NetQuiet
<1> QED
  BY <1>2, <1>5, <1>6, <1>7, <1>8 DEF IInv

LEMMA EndOfReturnStep == ASSUME IInv, EndOfReturn PROVE IInv' /\ UNCHANGED <<fetched, counted, waived>>
<1> DEFINE lines == <<[type |-> "EndOfReturn"]>>
<1>0. /\ TypeOK /\ ClientInv /\ UnitInv /\ NetInv /\ cpc = "returning" /\ todo = <<>>
      /\ c2s \in [Session -> Seq(Line)] /\ s2c \in [Session -> Seq(Answer)] /\ session \in Session
  BY DEF IInv, EndOfReturn, TypeOK, ClientInv
<1>1. /\ UNCHANGED <<mem, todo, file, fetched, session, s2c, srv, link, counted, waived, trouble>>
      /\ ToServer(lines) /\ cpc' = "draining"
  BY DEF EndOfReturn
<1>2. lines \in Seq(Line)
  BY DEF Line
<1>3. UnitsOf(lines) = {[type |-> "EndOfReturn"]}
  BY DEF UnitsOf
<1>4. /\ c2s' \in [Session -> Seq(Line)]
      /\ \A m \in Session : UnitsOf(c2s'[m]) \subseteq UnitsOf(c2s[m]) \cup UnitsOf(lines)
  <2>1. c2s' = [c2s EXCEPT ![session] = @ \o lines] \/ c2s' = c2s
    BY <1>1 DEF ToServer
  <2> QED
    BY <1>0, <1>2, <2>1, Sends
<1>5. TypeOK'
  BY <1>0, <1>1, <1>4 DEF TypeOK
<1>6. ClientInv'
  BY <1>0, <1>1 DEF ClientInv
<1>7. UnitInv'
  BY <1>0, <1>1, UnitsMove
<1>8. NetInv'
  <2>1. \A l \in UnitsOf(lines) : GoodLine(l)'
    BY <1>3 DEF GoodLine
  <2> QED
    BY <1>0, <1>1, <1>4, <2>1, NetQuiet
<1> QED
  BY <1>1, <1>5, <1>6, <1>7, <1>8 DEF IInv

(* The file is emptied: only the units in memory are left.                  *)
LEMMA SaveStep == ASSUME IInv, Save PROVE IInv' /\ UNCHANGED <<fetched, counted, waived>>
<1>0. /\ TypeOK /\ ClientInv /\ UnitInv /\ NetInv /\ cpc = "idle" /\ todo = <<>>
      /\ s2c \in [Session -> Seq(Answer)]
  BY DEF IInv, Save, TypeOK, ClientInv
<1>1. /\ UNCHANGED <<mem, todo, fetched, session, c2s, s2c, srv, link, counted, waived, trouble>>
      /\ file' = <<>> /\ cpc' = "saving"
  BY DEF Save
<1>2. file' \in Seq(Unit) /\ UnitsOf(file') = {}
  BY <1>1, ElementsEmpty
<1>3. TypeOK'
  BY <1>0, <1>1, <1>2 DEF TypeOK
<1>4. ClientInv'
  BY <1>0, <1>1 DEF ClientInv
<1>5. UnitInv'
  <2>1. Issued' = Issued /\ Held' = Held
    BY <1>0, <1>1, IssuedSame DEF Held
  <2> QED
    BY <1>0, <1>1, <1>2, <2>1 DEF UnitInv, Settled
<1>6. NetInv'
  BY <1>0, <1>1, NetQuiet
<1> QED
  BY <1>1, <1>3, <1>4, <1>5, <1>6 DEF IInv

LEMMA WriteFileStep == ASSUME IInv, WriteFile PROVE IInv' /\ UNCHANGED <<fetched, counted, waived>>
<1>0. /\ TypeOK /\ ClientInv /\ UnitInv /\ NetInv /\ cpc = "saving" /\ todo = <<>>
      /\ s2c \in [Session -> Seq(Answer)]
  BY DEF IInv, WriteFile, TypeOK, ClientInv
<1>1. /\ UNCHANGED <<mem, todo, fetched, session, c2s, s2c, srv, link, counted, waived, trouble>>
      /\ file' = mem /\ cpc' = "idle"
  BY DEF WriteFile
<1>2. TypeOK'
  BY <1>0, <1>1 DEF TypeOK
<1>3. ClientInv'
  BY <1>0, <1>1 DEF ClientInv
<1>4. UnitInv'
  <2>1. Issued' = Issued /\ UnitsOf(todo) = {}
    BY <1>0, <1>1, IssuedSame, ElementsEmpty
  <2>2. Held = UnitsOf(mem) /\ Held' = UnitsOf(mem)
    BY <1>0, <1>1, <2>1 DEF Held
  <2> QED
    BY <1>0, <1>1, <2>1, <2>2 DEF UnitInv, Settled
<1>5. NetInv'
  BY <1>0, <1>1, NetQuiet
<1> QED
  BY <1>1, <1>2, <1>3, <1>4, <1>5 DEF IInv

LEMMA FreshType == FreshHelper \in Helper /\ [FreshHelper EXCEPT !.pc = "closed"] \in Helper
                   /\ [FreshHelper EXCEPT !.pc = "none"] \in Helper
  BY DEF FreshHelper, Helper

LEMMA FreshGood ==
  /\ FreshHelper.open = None /\ FreshHelper.good = None
  /\ [FreshHelper EXCEPT !.pc = "closed"].open = None /\ [FreshHelper EXCEPT !.pc = "closed"].good = None
  /\ [FreshHelper EXCEPT !.pc = "none"].open = None /\ [FreshHelper EXCEPT !.pc = "none"].good = None
  BY DEF FreshHelper

LEMMA ReturnWorkStep == ASSUME IInv, ReturnWork PROVE IInv' /\ UNCHANGED <<fetched, counted, waived>>
<1>0. /\ TypeOK /\ ClientInv /\ UnitInv /\ NetInv /\ cpc = "idle" /\ todo = <<>> /\ mem \in Seq(Unit)
      /\ s2c \in [Session -> Seq(Answer)] /\ session \in 0..MaxSession /\ session < MaxSession
      /\ srv \in [Session -> Helper] /\ link \in [Session -> BOOLEAN]
  BY DEF IInv, ReturnWork, TypeOK, ClientInv
<1>1. /\ UNCHANGED <<file, fetched, c2s, s2c, counted, waived, trouble>>
      /\ session' = session + 1 /\ cpc' = "returning" /\ todo' = mem /\ mem' = <<>>
      /\ srv' = [srv EXCEPT ![session'] = FreshHelper]
      /\ link' = [link EXCEPT ![session'] = TRUE]
  BY DEF ReturnWork
<1>2. session' \in Session /\ session' \in 0..MaxSession
  BY <1>0, <1>1, SessionAssumption DEF Session
<1>3. /\ srv' \in [Session -> Helper] /\ link' \in [Session -> BOOLEAN]
      /\ mem' \in Seq(Unit) /\ UnitsOf(mem') = {} /\ UnitsOf(todo) = {}
  BY <1>0, <1>1, FreshType, ElementsEmpty
<1>4. TypeOK'
  BY <1>0, <1>1, <1>2, <1>3 DEF TypeOK
<1>5. ClientInv'
  BY <1>1, <1>2 DEF ClientInv
<1>6. UnitInv'
  BY <1>0, <1>1, <1>3, UnitsMove
<1>7. NetInv'
  <2>1. ASSUME NEW n \in Session PROVE srv'[n] = srv[n] \/ GoodThread(srv[n])'
    <3>1. CASE n = session'
      <4>1. srv'[n] = FreshHelper
        BY <1>0, <1>1, <1>2, <3>1
      <4> QED
        BY <4>1, FreshGood DEF GoodThread
    <3>2. CASE n # session'
      BY <1>0, <1>1, <3>2
    <3> QED
      BY <3>1, <3>2
  <2>2. Issued' = Issued
    BY <1>1, IssuedSame
  <2> QED
    BY <1>0, <1>1, <2>1, <2>2, NetKeeps
<1> QED
  BY <1>1, <1>4, <1>5, <1>6, <1>7 DEF IInv

(* The connection of the latest session is closed, or it has none.          *)
LEMMA CloseTypes ==
  ASSUME TypeOK, NEW after, NEW links,
         after = [s2c EXCEPT ![session] = <<>>] \/ after = s2c,
         links = [link EXCEPT ![session] = FALSE] \/ links = link
  PROVE  /\ after \in [Session -> Seq(Answer)] /\ links \in [Session -> BOOLEAN]
         /\ \A n \in Session : UnitsOf(after[n]) \subseteq UnitsOf(s2c[n])
<1>0. s2c \in [Session -> Seq(Answer)] /\ link \in [Session -> BOOLEAN]
  BY DEF TypeOK
<1>1. <<>> \in Seq(Answer) /\ UnitsOf(<<>>) = {}
  BY ElementsEmpty
<1>2. ASSUME NEW n \in Session PROVE UnitsOf(after[n]) \subseteq UnitsOf(s2c[n]) /\ after[n] \in Seq(Answer)
  <2>1. after[n] = s2c[n] \/ after[n] = <<>>
    BY <1>0
  <2> QED
    BY <1>0, <1>1, <2>1
<1>3. after \in [Session -> Seq(Answer)]
  BY <1>0, <1>1
<1>4. links \in [Session -> BOOLEAN]
  BY <1>0
<1> QED
  BY <1>2, <1>3, <1>4

LEMMA CloseStep == ASSUME IInv, Close PROVE IInv' /\ UNCHANGED <<fetched, counted, waived>>
<1>0. /\ TypeOK /\ ClientInv /\ UnitInv /\ NetInv /\ cpc = "draining" /\ todo = <<>> /\ file \in Seq(Unit)
  BY DEF IInv, Close, TypeOK, ClientInv
<1>1. /\ UNCHANGED <<mem, todo, fetched, session, c2s, srv, counted, waived>>
      /\ s2c' = [s2c EXCEPT ![session] = <<>>] /\ link' = [link EXCEPT ![session] = FALSE]
      /\ file' = IF mem = <<>> THEN <<>> ELSE file
      /\ cpc' = "idle"
      /\ trouble' = trouble \/ Trouble
  BY DEF Close
<1>2. /\ s2c' \in [Session -> Seq(Answer)] /\ link' \in [Session -> BOOLEAN]
      /\ \A n \in Session : UnitsOf(s2c'[n]) \subseteq UnitsOf(s2c[n])
  BY <1>0, <1>1, CloseTypes
<1>3. trouble' \in 0..MaxTrouble /\ file' \in Seq(Unit)
  BY <1>0, <1>1, SessionAssumption, ElementsEmpty DEF TypeOK, Trouble
<1>4. TypeOK'
  BY <1>0, <1>1, <1>2, <1>3 DEF TypeOK
<1>5. ClientInv'
  BY <1>0, <1>1 DEF ClientInv
<1>6. UnitInv'
  <2>1. Issued' = Issued /\ UnitsOf(<<>>) = {}
    BY <1>1, IssuedSame, ElementsEmpty
  <2>2. Held = UnitsOf(mem) /\ Held' = UnitsOf(mem)
    BY <1>0, <1>1, <2>1 DEF Held
  <2>3. \A u : Settled(u) => Settled(u)'
    BY <1>1 DEF Settled
  <2>4. CASE mem = <<>>
    BY <1>0, <1>1, <2>1, <2>2, <2>3, <2>4 DEF UnitInv
  <2>5. CASE mem # <<>>
    BY <1>0, <1>1, <2>1, <2>2, <2>3, <2>5 DEF UnitInv
  <2> QED
    BY <2>4, <2>5
<1>7. NetInv'
  BY <1>0, <1>1, <1>2, NetQuiet
<1> QED
  BY <1>1, <1>4, <1>5, <1>6, <1>7 DEF IInv

(* A client that dies loses what it had not written of its file.            *)
LEMMA CrashStep ==
  ASSUME IInv, Crash
  PROVE  /\ IInv' /\ UNCHANGED <<fetched, counted>> /\ cpc' = "down" /\ trouble' = trouble + 1
         /\ \/ waived' = waived
            \/ cpc = "saving" /\ Held' \subseteq Held /\ waived' = waived \cup (Held \ Held')
<1>0. /\ TypeOK /\ ClientInv /\ UnitInv /\ NetInv /\ trouble \in 0..MaxTrouble
      /\ file \in Seq(Unit) /\ mem \in Seq(Unit) /\ cpc # "down" /\ waived \subseteq Unit
  BY DEF IInv, TypeOK, Crash
<1>1. /\ UNCHANGED <<fetched, session, c2s, srv, counted>>
      /\ cpc' = "down" /\ mem' = <<>> /\ todo' = <<>> /\ Trouble /\ trouble' = trouble + 1
      /\ s2c' = [s2c EXCEPT ![session] = <<>>] \/ s2c' = s2c
      /\ link' = [link EXCEPT ![session] = FALSE] \/ link' = link
  BY DEF Crash, Trouble
<1>2. /\ s2c' \in [Session -> Seq(Answer)] /\ link' \in [Session -> BOOLEAN]
      /\ \A n \in Session : UnitsOf(s2c'[n]) \subseteq UnitsOf(s2c[n])
  BY <1>0, <1>1, CloseTypes
<1>3. trouble' \in 0..MaxTrouble /\ mem' \in Seq(Unit) /\ todo' \in Seq(Unit)
  BY <1>0, <1>1, SessionAssumption, ElementsEmpty DEF Trouble
<1>4. ClientInv'
  BY <1>0, <1>1 DEF ClientInv
<1>5. Issued' = Issued /\ UnitsOf(<<>>) = {} /\ Held' = UnitsOf(file')
  BY <1>1, IssuedSame, ElementsEmpty DEF Held
<1>6. \/ cpc # "saving" /\ UNCHANGED <<file, waived>>
      \/ /\ cpc = "saving" /\ file' \in Prefixes(mem)
         /\ waived' = waived \cup (UnitsOf(mem) \ UnitsOf(file'))
  BY DEF Crash
<1>7. CASE cpc # "saving" /\ UNCHANGED <<file, waived>>
  <2>1. TypeOK'
    BY <1>0, <1>1, <1>2, <1>3, <1>7 DEF TypeOK
  <2>2. UnitInv'
    BY <1>0, <1>1, <1>5, <1>7 DEF UnitInv, Settled
  <2>3. NetInv'
    BY <1>0, <1>1, <1>2, <1>7, NetQuiet
  <2> QED
    BY <1>1, <1>4, <1>7, <2>1, <2>2, <2>3 DEF IInv
<1>8. CASE /\ cpc = "saving" /\ file' \in Prefixes(mem)
           /\ waived' = waived \cup (UnitsOf(mem) \ UnitsOf(file'))
  <2>1. /\ file' \in Seq(Unit) /\ UnitsOf(file') \subseteq UnitsOf(mem) /\ UnitsOf(mem) \subseteq Unit
    BY <1>0, <1>8, ElementsPrefix, ElementsIn
  <2>2. TypeOK'
    BY <1>0, <1>1, <1>2, <1>3, <1>8, <2>1 DEF TypeOK
  <2>3. Held = UnitsOf(mem)
    <3>1. todo = <<>>
      BY <1>0, <1>8 DEF ClientInv
    <3> QED
      BY <1>0, <1>5, <3>1 DEF Held
  <2>4. UnitInv'
    <3>1. \A u \in Issued \ UnitsOf(mem) : Settled(u)
      BY <1>0, <2>3 DEF UnitInv
    <3>2. \A u \in Issued \ UnitsOf(file') : Settled(u)'
      BY <1>1, <1>8, <3>1 DEF Settled
    <3> QED
      BY <1>0, <1>1, <1>5, <2>1, <3>2 DEF UnitInv
  <2>5. NetInv'
    BY <1>0, <1>1, <1>2, <1>8, NetQuiet
  <2> QED
    BY <1>1, <1>4, <1>5, <1>8, <2>1, <2>2, <2>3, <2>4, <2>5 DEF IInv
<1> QED
  BY <1>6, <1>7, <1>8

LEMMA RestartStep == ASSUME IInv, Restart PROVE IInv' /\ UNCHANGED <<fetched, counted, waived>>
<1>0. /\ TypeOK /\ ClientInv /\ UnitInv /\ NetInv /\ cpc = "down" /\ todo = <<>>
      /\ s2c \in [Session -> Seq(Answer)]
  BY DEF IInv, Restart, TypeOK, ClientInv
<1>1. /\ UNCHANGED <<todo, file, fetched, session, c2s, s2c, srv, link, counted, waived, trouble>>
      /\ mem' = file /\ cpc' = "idle"
  BY DEF Restart
<1>2. TypeOK'
  BY <1>0, <1>1 DEF TypeOK
<1>3. ClientInv'
  BY <1>0, <1>1 DEF ClientInv
<1>4. UnitInv'
  <2>1. Issued' = Issued /\ UnitsOf(todo) = {}
    BY <1>0, <1>1, IssuedSame, ElementsEmpty
  <2>2. Held = UnitsOf(file) /\ Held' = UnitsOf(file)
    BY <1>0, <1>1, <2>1 DEF Held
  <2> QED
    BY <1>0, <1>1, <2>1, <2>2 DEF UnitInv, Settled
<1>5. NetInv'
  BY <1>0, <1>1, NetQuiet
<1> QED
  BY <1>1, <1>2, <1>3, <1>4, <1>5 DEF IInv

(* The replies so far are the start of a run, whose units differ.           *)
Started(run) ==
  /\ run \in Batches /\ Len(fetched) <= Len(run) /\ fetched \in Seq(Seq(Unit))
  /\ fetched = SubSeq(run, 1, Len(fetched))

LEMMA RunType ==
  ASSUME NEW run \in Batches
  PROVE  /\ run \in Seq(Seq(Unit) \ {<<>>}) /\ Len(run) \in Nat /\ DOMAIN run = 1..Len(run)
         /\ \A i \in 1..Len(run) : run[i] \in Seq(Unit) /\ run[i] # <<>>
<1>1. run \in Seq(Seq(Unit) \ {<<>>})
  BY SessionAssumption
<1> QED
  BY <1>1

LEMMA StartedIssued ==
  ASSUME NEW run, Started(run)
  PROVE  /\ Len(fetched) \in Nat /\ fetched \in Seq(Seq(Unit) \ {<<>>})
         /\ Issued = UNION {UnitsOf(run[i]) : i \in 1..Len(fetched)}
<1>1. run \in Seq(Seq(Unit) \ {<<>>}) /\ Len(run) \in Nat
  BY RunType DEF Started
<1>2. fetched \in Seq(Seq(Unit) \ {<<>>})
  <2>1. Len(fetched) \in Nat /\ Len(fetched) <= Len(run)
    BY DEF Started
  <2>2. SubSeq(run, 1, Len(fetched)) \in Seq(Seq(Unit) \ {<<>>})
    BY <1>1, <2>1
  <2> QED
    BY <2>2 DEF Started
<1>3. Len(fetched) \in Nat /\ DOMAIN fetched = 1..Len(fetched)
  BY <1>2
<1>4. ASSUME NEW i \in 1..Len(fetched) PROVE fetched[i] = run[i]
  BY <1>1, <1>3, <1>4 DEF Started
<1> QED
  BY <1>2, <1>3, <1>4 DEF Issued

LEMMA IssuedUnits == ASSUME TypeOK PROVE Issued \subseteq Unit
<1>1. PICK run : Started(run)
  BY DEF TypeOK, Started
<1>2. run \in Batches /\ Len(fetched) <= Len(run)
  BY <1>1 DEF Started
<1>3. ASSUME NEW i \in 1..Len(fetched) PROVE UnitsOf(run[i]) \subseteq Unit
  <2>1. i \in 1..Len(run)
    BY <1>1, <1>2, StartedIssued, RunType
  <2> QED
    BY <1>2, <2>1, RunType, ElementsIn
<1> QED
  BY <1>1, <1>3, StartedIssued

LEMMA GetWorkStep ==
  ASSUME IInv, GetWork
  PROVE  /\ IInv' /\ UNCHANGED <<counted, waived, trouble>> /\ cpc = "idle" /\ cpc' = "saving"
         /\ Held = {} /\ \E us \in SUBSET (Unit \ Issued) :
                          us # {} /\ Issued' = Issued \cup us /\ Held' = us
<1>0. /\ TypeOK /\ ClientInv /\ UnitInv /\ NetInv /\ cpc = "idle" /\ mem = <<>> /\ todo = <<>>
      /\ s2c \in [Session -> Seq(Answer)]
  BY DEF IInv, GetWork, TypeOK, ClientInv
<1>1. /\ UNCHANGED <<todo, session, c2s, s2c, srv, link, counted, waived, trouble>>
      /\ cpc' = "saving" /\ file' = <<>> /\ file' \in Seq(Unit) /\ UnitsOf(file') = {}
  BY ElementsEmpty DEF GetWork
<1>2. PICK run \in Batches :
        /\ Len(run) > Len(fetched) /\ SubSeq(run, 1, Len(fetched)) = fetched
        /\ fetched' = Append(fetched, run[Len(fetched) + 1]) /\ mem' = run[Len(fetched) + 1]
  BY DEF GetWork, Delivered
<1>3. PICK k : k = Len(fetched)
  OBVIOUS
<1>4. /\ run \in Seq(Seq(Unit) \ {<<>>}) /\ Len(run) \in Nat /\ DOMAIN run = 1..Len(run)
      /\ k \in Nat /\ fetched \in Seq(Seq(Unit) \ {<<>>}) /\ k + 1 \in 1..Len(run) /\ Started(run)
  <2>1. fetched \in Seq(Seq(Unit)) /\ run \in Seq(Seq(Unit) \ {<<>>}) /\ Len(run) \in Nat
    BY <1>0, <1>2, RunType DEF TypeOK
  <2>2. k \in Nat
    BY <1>3, <2>1
  <2>3. Started(run)
    BY <1>2, <1>3, <2>1, <2>2 DEF Started
  <2>4. fetched \in Seq(Seq(Unit) \ {<<>>})
    BY <2>3, StartedIssued
  <2> QED
    BY <1>2, <1>3, <2>1, <2>2, <2>3, <2>4, RunType
<1>5. mem' \in Seq(Unit) /\ mem' # <<>>
  BY <1>2, <1>3, <1>4, RunType
<1>6. /\ fetched' \in Seq(Seq(Unit)) /\ Len(fetched') = k + 1
      /\ fetched' = SubSeq(run, 1, k + 1)
  <2>1. fetched' = Append(SubSeq(run, 1, k), run[k + 1])
    BY <1>2, <1>3
  <2>2. SubSeq(run, 1, k + 1) = Append(SubSeq(run, 1, k), run[k + 1])
    BY <1>4
  <2> QED
    BY <1>4, <2>1, <2>2
<1>7. Started(run)'
  BY <1>2, <1>4, <1>6 DEF Started
<1>8. Issued = UNION {UnitsOf(run[i]) : i \in 1..k} /\ Issued' = UNION {UnitsOf(run[i]) : i \in 1..(k + 1)}
  <2>1. Issued = UNION {UnitsOf(run[i]) : i \in 1..k}
    BY <1>3, <1>4, StartedIssued
  <2>2. DOMAIN fetched' = 1..(k + 1)
    BY <1>6
  <2>3. \A i \in 1..(k + 1) : fetched'[i] = run[i]
    BY <1>4, <1>6
  <2>4. Issued' = UNION {UnitsOf(run[i]) : i \in 1..(k + 1)}
    BY <2>2, <2>3 DEF Issued
  <2> QED
    BY <2>1, <2>4
<1>9. Issued' = Issued \cup UnitsOf(mem')
  <2>1. 1..(k + 1) = 1..k \cup {k + 1}
    BY <1>4
  <2>2. mem' = run[k + 1]
    BY <1>2, <1>3
  <2> QED
    BY <1>8, <2>1, <2>2
<1>10. UnitsOf(mem') \cap Issued = {}
  <2> SUFFICES ASSUME NEW u \in UnitsOf(mem'), u \in Issued PROVE FALSE
    OBVIOUS
  <2>1. PICK i \in 1..k : u \in UnitsOf(run[i])
    BY <1>8
  <2>2. i \in DOMAIN run /\ k + 1 \in DOMAIN run /\ i # k + 1
    BY <1>4
  <2>3. u \in UnitsOf(run[k + 1])
    BY <1>2, <1>3
  <2>4. PICK x \in DOMAIN run[i], y \in DOMAIN run[k + 1] : u = run[i][x] /\ u = run[k + 1][y]
    BY <2>1, <2>3 DEF UnitsOf
  <2> QED
    BY <2>2, <2>4, BatchAssumption
<1>11. UnitsOf(mem') \subseteq Unit /\ UnitsOf(mem') # {}
  BY <1>5, ElementsIn, ElementsHead
<1>12. Held = {} /\ Held' = UnitsOf(mem')
  BY <1>0, <1>1, ElementsEmpty DEF Held
<1>13. TypeOK'
  <2>1. \E b \in Batches : Len(fetched') <= Len(b) /\ fetched' = SubSeq(b, 1, Len(fetched'))
    BY <1>7 DEF Started
  <2> QED
    BY <1>0, <1>1, <1>5, <1>6, <2>1 DEF TypeOK
<1>14. ClientInv'
  BY <1>0, <1>1 DEF ClientInv
<1>15. UnitInv'
  <2>1. \A u : Settled(u) => Settled(u)'
    BY <1>1 DEF Settled
  <2>2. UnitsOf(todo) = {}
    BY <1>0, ElementsEmpty
  <2> QED
    BY <1>0, <1>1, <1>9, <1>12, <2>1, <2>2 DEF UnitInv
<1>16. NetInv'
  BY <1>0, <1>1, <1>9, NetKeeps
<1> QED
  BY <1>0, <1>1, <1>9, <1>10, <1>11, <1>12, <1>13, <1>14, <1>15, <1>16 DEF IInv

-----------------------------------------------------------------------------
(* Steps of the network and of the helper threads. *)

(* The client's side is left alone while more work is counted.              *)
LEMMA ClientSame ==
  ASSUME TypeOK, ClientInv, UnitInv, UNCHANGED clientVars,
         waived \subseteq waived', \A u \in Unit : counted[u] > 0 => counted'[u] > 0
  PROVE  ClientInv' /\ UnitInv' /\ Issued' = Issued /\ Held' = Held
<1>1. UNCHANGED <<cpc, mem, todo, file, fetched, session>>
  BY DEF clientVars
<1>2. Issued' = Issued /\ Held' = Held /\ Issued \subseteq Unit
  BY <1>1, IssuedSame, IssuedUnits DEF Held
<1>3. \A u \in Unit : Settled(u) => Settled(u)'
  BY DEF Settled
<1>4. ClientInv'
  BY <1>1 DEF ClientInv
<1>5. UnitInv'
  BY <1>1, <1>2, <1>3 DEF UnitInv
<1> QED
  BY <1>2, <1>4, <1>5

LEMMA ConsumeType ==
  ASSUME TypeOK, NEW n \in Session, c2s[n] # <<>>, Consume(n)
  PROVE  /\ c2s' \in [Session -> Seq(Line)]
         /\ \A m \in Session : UnitsOf(c2s'[m]) \subseteq UnitsOf(c2s[m])
         /\ Head(c2s[n]) \in Line /\ Head(c2s[n]) \in UnitsOf(c2s[n])
<1>1. c2s \in [Session -> Seq(Line)] /\ c2s[n] \in Seq(Line)
  BY DEF TypeOK
<1>2. PICK q : q = Tail(c2s[n])
  OBVIOUS
<1>3. /\ Head(c2s[n]) \in Line /\ q \in Seq(Line)
      /\ UnitsOf(c2s[n]) = {Head(c2s[n])} \cup UnitsOf(q)
  BY <1>1, <1>2, ElementsHead
<1>4. c2s' = [c2s EXCEPT ![n] = q]
  BY <1>2 DEF Consume
<1> QED
  BY <1>1, <1>3, <1>4, Replaces

LEMMA ToClientType ==
  ASSUME TypeOK, NEW n \in Session, NEW lines \in Seq(Answer), ToClient(n, lines) \/ s2c' = s2c
  PROVE  /\ s2c' \in [Session -> Seq(Answer)]
         /\ \A m \in Session : UnitsOf(s2c'[m]) \subseteq UnitsOf(s2c[m]) \cup UnitsOf(lines)
<1>1. s2c' = [s2c EXCEPT ![n] = @ \o lines] \/ s2c' = s2c
  BY DEF ToClient
<1>2. s2c \in [Session -> Seq(Answer)]
  BY DEF TypeOK
<1> QED
  BY <1>1, <1>2, Sends

(* A step of the helper thread of session n that counts nothing: its lines  *)
(* are none that accept, and what it knows of the unit stays good.          *)
LEMMA ThreadStep ==
  ASSUME IInv, NEW n \in Session, NEW lines \in Seq(Answer), NEW h \in Helper,
         \A a \in UnitsOf(lines) : a.type # "Accepted",
         UNCHANGED <<clientVars, link, counted, waived>>, trouble' = trouble \/ Trouble,
         ToClient(n, lines) \/ s2c' = s2c,
         c2s' \in [Session -> Seq(Line)],
         \A m \in Session : UnitsOf(c2s'[m]) \subseteq UnitsOf(c2s[m]),
         srv' = [srv EXCEPT ![n] = h], GoodThread(h)
  PROVE  IInv' /\ Issued' = Issued /\ Held' = Held
<1>0. TypeOK /\ ClientInv /\ UnitInv /\ NetInv
  BY DEF IInv
<1>1. /\ s2c' \in [Session -> Seq(Answer)]
      /\ \A m \in Session : UnitsOf(s2c'[m]) \subseteq UnitsOf(s2c[m]) \cup UnitsOf(lines)
  BY <1>0, ToClientType
<1>2. srv' \in [Session -> Helper]
  BY <1>0 DEF TypeOK
<1>3. trouble' \in 0..MaxTrouble
  BY <1>0, SessionAssumption DEF TypeOK, Trouble
<1>4. TypeOK'
  BY <1>0, <1>1, <1>2, <1>3 DEF TypeOK, clientVars
<1>5. ClientInv' /\ UnitInv' /\ Issued' = Issued /\ Held' = Held
  BY <1>0, ClientSame
<1>6. NetInv'
  <2>1. ASSUME NEW m \in Session PROVE srv'[m] = srv[m] \/ GoodThread(srv[m])'
    <3>1. CASE m = n
      <4>1. srv'[m] = h
        BY <1>0, <3>1 DEF TypeOK
      <4> QED
        BY <1>5, <4>1 DEF GoodThread
    <3>2. CASE m # n
      BY <1>0, <3>2 DEF TypeOK
    <3> QED
      BY <3>1, <3>2
  <2>2. \A m \in Session : \A a \in UnitsOf(s2c'[m]) : a \in UnitsOf(s2c[m]) \/ GoodAnswer(a)'
    BY <1>1 DEF GoodAnswer
  <2> QED
    BY <1>0, <1>1, <1>5, <2>1, <2>2, NetKeeps
<1> QED
  BY <1>4, <1>5, <1>6 DEF IInv

LEMMA AnswerLines ==
  /\ <<[type |-> "ERROR"]>> \in Seq(Answer)
  /\ \A a \in UnitsOf(<<[type |-> "ERROR"]>>) : a.type # "Accepted"
  /\ <<[type |-> "INFO"], [type |-> "EndOfMessage"]>> \in Seq(Answer)
  /\ \A a \in UnitsOf(<<[type |-> "INFO"], [type |-> "EndOfMessage"]>>) : a.type # "Accepted"
  BY DEF Answer, UnitsOf

LEMMA ReceiveReturnStep ==
  ASSUME IInv, NEW n \in Session, ReceiveReturn(n)
  PROVE  IInv' /\ UNCHANGED <<Issued, Held, counted, waived>>
<1>0. TypeOK /\ NetInv /\ c2s[n] # <<>> /\ Consume(n) /\ Head(c2s[n]).type = "Return"
  BY DEF IInv, ReceiveReturn, Reading
<1>1. /\ c2s' \in [Session -> Seq(Line)]
      /\ \A m \in Session : UnitsOf(c2s'[m]) \subseteq UnitsOf(c2s[m])
      /\ Head(c2s[n]) \in Line /\ Head(c2s[n]) \in UnitsOf(c2s[n])
  BY <1>0, ConsumeType
<1>2. PICK u : u = Head(c2s[n]).unit
  OBVIOUS
<1>3. u \in Issued \ Untouched /\ u \in Unit
  <2>1. GoodLine(Head(c2s[n]))
    BY <1>0, <1>1 DEF NetInv
  <2> QED
    BY <1>0, <1>2, <2>1, IssuedUnits DEF GoodLine
<1>4. /\ UNCHANGED <<clientVars, link, counted, waived>>
      /\ \E ok \in BOOLEAN :
           /\ ok => u \notin Refused
           /\ srv' = [srv EXCEPT ![n] = [pc |-> "reading", open |-> u, success |-> ok,
                                        good |-> IF ok THEN u ELSE None]]
      /\ trouble' = trouble \/ Trouble
      /\ ToClient(n, <<[type |-> "ERROR"]>>) \/ s2c' = s2c
  BY <1>2 DEF ReceiveReturn
<1>5. PICK ok \in BOOLEAN :
        /\ ok => u \notin Refused
        /\ srv' = [srv EXCEPT ![n] = [pc |-> "reading", open |-> u, success |-> ok,
                                     good |-> IF ok THEN u ELSE None]]
  BY <1>4
<1>6. PICK h : /\ srv' = [srv EXCEPT ![n] = h]
               /\ h = [pc |-> "reading", open |-> u, success |-> ok, good |-> IF ok THEN u ELSE None]
  BY <1>5
<1>7. h \in Helper
  BY <1>3, <1>6 DEF Helper
<1>8. GoodThread(h)
  BY <1>3, <1>6, <1>5 DEF GoodThread
<1>9. IInv' /\ Issued' = Issued /\ Held' = Held
  BY <1>1, <1>4, <1>6, <1>7, <1>8, AnswerLines, ThreadStep
<1> QED
  BY <1>4, <1>9

LEMMA IgnoreStep ==
  ASSUME IInv, NEW n \in Session, ReceiveFactor(n) \/ ReceiveAbandon(n)
  PROVE  IInv' /\ UNCHANGED <<Issued, Held, counted, waived>>
<1>0. TypeOK /\ ClientInv /\ UnitInv /\ NetInv /\ c2s[n] # <<>> /\ Consume(n)
      /\ UNCHANGED <<clientVars, s2c, srv, link, counted, waived, trouble>>
  BY DEF IInv, ReceiveFactor, ReceiveAbandon, Reading
<1>1. /\ c2s' \in [Session -> Seq(Line)]
      /\ \A m \in Session : UnitsOf(c2s'[m]) \subseteq UnitsOf(c2s[m])
  BY <1>0, ConsumeType
<1>2. ClientInv' /\ UnitInv' /\ Issued' = Issued /\ Held' = Held
  BY <1>0, ClientSame
<1>3. TypeOK'
  BY <1>0, <1>1 DEF TypeOK, clientVars
<1>4. NetInv'
  BY <1>0, <1>1, <1>2, <1>3, NetKeeps DEF TypeOK
<1> QED
  BY <1>0, <1>2, <1>3, <1>4 DEF IInv

LEMMA NotUnderstoodStep ==
  ASSUME IInv, NEW n \in Session, NotUnderstood(n)
  PROVE  IInv' /\ UNCHANGED <<Issued, Held, counted, waived>>
<1>0. TypeOK /\ NetInv /\ c2s[n] # <<>> /\ Consume(n)
  BY DEF IInv, NotUnderstood, Reading
<1>1. /\ c2s' \in [Session -> Seq(Line)]
      /\ \A m \in Session : UnitsOf(c2s'[m]) \subseteq UnitsOf(c2s[m])
  BY <1>0, ConsumeType
<1>2. /\ UNCHANGED <<clientVars, link, counted, waived, trouble>>
      /\ ToClient(n, <<[type |-> "ERROR"]>>) /\ srv' = [srv EXCEPT ![n].success = FALSE]
  BY DEF NotUnderstood
<1>3. PICK h : h = [srv[n] EXCEPT !.success = FALSE]
  OBVIOUS
<1>4. srv[n] \in Helper
  BY <1>0 DEF TypeOK
<1>5. h \in Helper /\ h.open = srv[n].open /\ h.good = srv[n].good
  BY <1>3, <1>4 DEF Helper
<1>6. GoodThread(h)
  BY <1>0, <1>5 DEF NetInv, GoodThread
<1>7. srv' = [srv EXCEPT ![n] = h]
  BY <1>2, <1>3
<1>8. IInv' /\ Issued' = Issued /\ Held' = Held
  BY <1>1, <1>2, <1>5, <1>6, <1>7, AnswerLines, ThreadStep
<1> QED
  BY <1>2, <1>8

LEMMA FinishStep ==
  ASSUME IInv, NEW n \in Session, Finish(n)
  PROVE  IInv' /\ UNCHANGED <<Issued, Held, counted, waived>>
<1>0. TypeOK /\ c2s \in [Session -> Seq(Line)]
  BY DEF IInv, TypeOK
<1>1. /\ UNCHANGED <<clientVars, link, counted, waived>>
      /\ trouble' = trouble \/ Trouble
      /\ ToClient(n, <<[type |-> "INFO"], [type |-> "EndOfMessage"]>>)
      /\ c2s' = [c2s EXCEPT ![n] = <<>>]
      /\ srv' = [srv EXCEPT ![n] = [FreshHelper EXCEPT !.pc = "closed"]]
  BY DEF Finish
<1>2. /\ c2s' \in [Session -> Seq(Line)]
      /\ \A m \in Session : UnitsOf(c2s'[m]) \subseteq UnitsOf(c2s[m])
  <2>1. <<>> \in Seq(Line) /\ UnitsOf(<<>>) = {}
    BY ElementsEmpty
  <2> QED
    BY <1>0, <1>1, <2>1, Replaces
<1>3. GoodThread([FreshHelper EXCEPT !.pc = "closed"])
  BY FreshGood DEF GoodThread
<1>4. IInv' /\ Issued' = Issued /\ Held' = Held
  BY <1>1, <1>2, <1>3, AnswerLines, FreshType, ThreadStep
<1> QED
  BY <1>1, <1>4

(* The thread accepts unit u, which is settled now.                         *)
LEMMA AcceptStep ==
  ASSUME IInv, NEW n \in Session, NEW u \in Unit, NEW h \in Helper,
         UNCHANGED <<clientVars, link>>, trouble' \in 0..MaxTrouble,
         ToClient(n, <<[type |-> "Accepted", unit |-> u]>>),
         c2s' \in [Session -> Seq(Line)],
         \A m \in Session : UnitsOf(c2s'[m]) \subseteq UnitsOf(c2s[m]),
         srv' = [srv EXCEPT ![n] = h], GoodThread(h),
         counted' \in [Unit -> Nat], waived' \subseteq Unit, waived \subseteq waived',
         counted'[u] > 0 \/ u \in waived',
         \A v \in Unit : counted[v] > 0 => counted'[v] > 0
  PROVE  IInv' /\ Issued' = Issued /\ Held' = Held
<1> DEFINE lines == <<[type |-> "Accepted", unit |-> u]>>
<1>0. TypeOK /\ ClientInv /\ UnitInv /\ NetInv
  BY DEF IInv
<1>1. lines \in Seq(Answer) /\ UnitsOf(lines) = {[type |-> "Accepted", unit |-> u]}
  BY DEF Answer, UnitsOf
<1>2. /\ s2c' \in [Session -> Seq(Answer)]
      /\ \A m \in Session : UnitsOf(s2c'[m]) \subseteq UnitsOf(s2c[m]) \cup UnitsOf(lines)
  BY <1>0, <1>1, ToClientType
<1>3. ClientInv' /\ UnitInv' /\ Issued' = Issued /\ Held' = Held
  BY <1>0, ClientSame
<1>4. srv' \in [Session -> Helper]
  BY <1>0 DEF TypeOK
<1>5. TypeOK'
  BY <1>0, <1>2, <1>4 DEF TypeOK, clientVars
<1>6. NetInv'
  <2>1. ASSUME NEW m \in Session PROVE srv'[m] = srv[m] \/ GoodThread(srv[m])'
    <3>1. CASE m = n
      <4>1. srv'[m] = h
        BY <1>0, <3>1 DEF TypeOK
      <4> QED
        BY <1>3, <4>1 DEF GoodThread
    <3>2. CASE m # n
      BY <1>0, <3>2 DEF TypeOK
    <3> QED
      BY <3>1, <3>2
  <2>2. ASSUME NEW a \in UnitsOf(lines) PROVE GoodAnswer(a)'
    <3>1. a.unit = u
      BY <1>1
    <3> QED
      BY <3>1 DEF GoodAnswer
  <2>3. \A m \in Session : \A a \in UnitsOf(s2c'[m]) : a \in UnitsOf(s2c[m]) \/ GoodAnswer(a)'
    BY <1>2, <2>2
  <2> QED
    BY <1>0, <1>2, <1>3, <2>1, <2>3, NetKeeps
<1> QED
  BY <1>3, <1>5, <1>6 DEF IInv

LEMMA EndWorkStep ==
  ASSUME IInv, NEW n \in Session, EndWork(n)
  PROVE  /\ IInv' /\ Issued' = Issued /\ Held' = Held /\ cpc' = cpc
         /\ \/ UNCHANGED <<counted, waived>> /\ trouble' = trouble + 1
            \/ \E u \in Issued \ (Refused \cup Untouched) :
                 counted' = [counted EXCEPT ![u] = @ + 1] /\ UNCHANGED <<waived, trouble>>
            \/ \E u \in Issued \ (Refused \cup Untouched) :
                 waived' = waived \cup {u} /\ trouble' = trouble + 1 /\ UNCHANGED counted
<1>0. /\ TypeOK /\ ClientInv /\ UnitInv /\ NetInv /\ c2s[n] # <<>> /\ Consume(n)
      /\ Head(c2s[n]).type = "End" /\ Head(c2s[n]).unit = srv[n].good
      /\ srv[n] \in Helper /\ counted \in [Unit -> Nat] /\ waived \subseteq Unit
      /\ trouble \in 0..MaxTrouble
  BY DEF IInv, EndWork, Reading, TypeOK
<1>1. /\ c2s' \in [Session -> Seq(Line)]
      /\ \A m \in Session : UnitsOf(c2s'[m]) \subseteq UnitsOf(c2s[m])
      /\ Head(c2s[n]) \in Line
  BY <1>0, ConsumeType
<1>2. PICK u, h : u = srv[n].open /\ h = [srv[n] EXCEPT !.open = None]
  OBVIOUS
<1>3. /\ UNCHANGED <<clientVars, link>> /\ u # None /\ cpc' = cpc
      /\ srv' = [srv EXCEPT ![n].open = None]
      /\ \/ /\ counted' = [counted EXCEPT ![u] = @ + 1]
            /\ ToClient(n, <<[type |-> "Accepted", unit |-> u]>>)
            /\ UNCHANGED <<waived, trouble>>
         \/ Trouble /\ UNCHANGED <<s2c, counted, waived>>
         \/ /\ Trouble /\ waived' = waived \cup {u} /\ UNCHANGED counted
            /\ ToClient(n, <<[type |-> "Accepted", unit |-> u]>>)
  BY <1>2 DEF EndWork, clientVars
<1>4. u \in Issued \ (Refused \cup Untouched) /\ u \in Unit
  <2>1. srv[n].good \in Unit
    BY <1>0, <1>1 DEF Line
  <2>2. srv[n].good # None
    BY <2>1, NoneAssumption
  <2>3. GoodThread(srv[n])
    BY <1>0 DEF NetInv
  <2> QED
    BY <1>0, <1>2, <1>3, <2>1, <2>2, <2>3 DEF GoodThread
<1>5. h \in Helper /\ h.open = None /\ h.good = srv[n].good
  BY <1>0, <1>2 DEF Helper
<1>6. srv' = [srv EXCEPT ![n] = h]
  BY <1>2, <1>3
<1>7. GoodThread(h)
  BY <1>0, <1>5 DEF NetInv, GoodThread
<1>8. CASE UNCHANGED <<s2c, counted, waived>> /\ Trouble
  <2>1. IInv' /\ Issued' = Issued /\ Held' = Held
    BY <1>1, <1>3, <1>5, <1>6, <1>7, <1>8, AnswerLines, ThreadStep
  <2> QED
    BY <1>3, <1>8, <2>1 DEF Trouble
<1>9. CASE /\ counted' = [counted EXCEPT ![u] = @ + 1] /\ UNCHANGED <<waived, trouble>>
           /\ ToClient(n, <<[type |-> "Accepted", unit |-> u]>>)
  <2>1. /\ counted' \in [Unit -> Nat] /\ counted'[u] > 0
        /\ \A v \in Unit : counted[v] > 0 => counted'[v] > 0
    BY <1>0, <1>4, <1>9
  <2>2. IInv' /\ Issued' = Issued /\ Held' = Held
    BY <1>0, <1>1, <1>3, <1>4, <1>5, <1>6, <1>7, <1>9, <2>1, AcceptStep
  <2> QED
    BY <1>3, <1>4, <1>9, <2>2
<1>10. CASE /\ Trouble /\ waived' = waived \cup {u} /\ UNCHANGED counted
            /\ ToClient(n, <<[type |-> "Accepted", unit |-> u]>>)
  <2>1. trouble' = trouble + 1 /\ trouble' \in 0..MaxTrouble
    BY <1>0, <1>10, SessionAssumption DEF Trouble
  <2>2. /\ waived' \subseteq Unit /\ waived \subseteq waived' /\ u \in waived'
        /\ counted' \in [Unit -> Nat] /\ \A v \in Unit : counted[v] > 0 => counted'[v] > 0
    BY <1>0, <1>4, <1>10
  <2>3. IInv' /\ Issued' = Issued /\ Held' = Held
    BY <1>1, <1>3, <1>4, <1>5, <1>6, <1>7, <1>10, <2>1, <2>2, AcceptStep
  <2> QED
    BY <1>3, <1>4, <1>10, <2>1, <2>3
<1> QED
  BY <1>3, <1>8, <1>9, <1>10

LEMMA LoseConnectionStep ==
  ASSUME IInv, NEW n \in Session, LoseConnection(n)
  PROVE  IInv' /\ UNCHANGED <<Issued, Held, counted, waived>>
<1>0. /\ TypeOK /\ ClientInv /\ UnitInv /\ NetInv
      /\ c2s \in [Session -> Seq(Line)] /\ s2c \in [Session -> Seq(Answer)]
  BY DEF IInv, TypeOK
<1>1. UNCHANGED <<clientVars, srv, counted, waived>> /\ Trouble /\ link' = [link EXCEPT ![n] = FALSE]
  BY DEF LoseConnection
<1>2. PICK up \in Prefixes(c2s[n]), down \in Prefixes(s2c[n]) :
        c2s' = [c2s EXCEPT ![n] = up] /\ s2c' = [s2c EXCEPT ![n] = down]
  BY DEF LoseConnection
<1>3. /\ up \in Seq(Line) /\ UnitsOf(up) \subseteq UnitsOf(c2s[n])
      /\ down \in Seq(Answer) /\ UnitsOf(down) \subseteq UnitsOf(s2c[n])
  BY <1>0, ElementsPrefix
<1>4. /\ c2s' \in [Session -> Seq(Line)]
      /\ \A m \in Session : UnitsOf(c2s'[m]) \subseteq UnitsOf(c2s[m])
  BY <1>0, <1>2, <1>3, Replaces
<1>5. /\ s2c' \in [Session -> Seq(Answer)]
      /\ \A m \in Session : UnitsOf(s2c'[m]) \subseteq UnitsOf(s2c[m])
  BY <1>0, <1>2, <1>3, Replaces
<1>6. ClientInv' /\ UnitInv' /\ Issued' = Issued /\ Held' = Held
  BY <1>0, <1>1, ClientSame
<1>7. TypeOK'
  <2>1. trouble' \in 0..MaxTrouble /\ link' \in [Session -> BOOLEAN]
    BY <1>0, <1>1, SessionAssumption DEF TypeOK, Trouble
  <2> QED
    BY <1>0, <1>1, <1>4, <1>5, <2>1 DEF TypeOK, clientVars
<1>8. NetInv'
  BY <1>0, <1>1, <1>4, <1>5, <1>6, NetKeeps
<1> QED
  BY <1>1, <1>6, <1>7, <1>8 DEF IInv

LEMMA ServerExitStep == ASSUME IInv, ServerExit PROVE IInv' /\ UNCHANGED <<Issued, Held, counted, waived>>
<1>0. TypeOK /\ ClientInv /\ UnitInv /\ NetInv /\ s2c \in [Session -> Seq(Answer)] /\ srv \in [Session -> Helper]
  BY DEF IInv, TypeOK
<1>1. /\ UNCHANGED <<clientVars, s2c, counted, waived>> /\ Trouble
      /\ c2s' = [n \in Session |-> <<>>] /\ link' = [n \in Session |-> FALSE]
      /\ \A n \in Session : srv'[n] = srv[n] \/ srv'[n] = [FreshHelper EXCEPT !.pc = "closed"]
      /\ srv' = [n \in Session |-> srv'[n]]
  BY DEF ServerExit
<1>2. ASSUME NEW n \in Session PROVE c2s'[n] \in Seq(Line) /\ UnitsOf(c2s'[n]) = {}
  BY <1>1, ElementsEmpty
<1>3. ClientInv' /\ UnitInv' /\ Issued' = Issued /\ Held' = Held
  BY <1>0, <1>1, ClientSame
<1>4. TypeOK'
  <2>1. trouble' \in 0..MaxTrouble /\ link' \in [Session -> BOOLEAN]
    BY <1>0, <1>1, SessionAssumption DEF TypeOK, Trouble
  <2>2. c2s' \in [Session -> Seq(Line)] /\ srv' \in [Session -> Helper]
    BY <1>0, <1>1, <1>2, FreshType
  <2> QED
    BY <1>0, <1>1, <2>1, <2>2 DEF TypeOK, clientVars
<1>5. NetInv'
  <2>1. \A n \in Session : srv'[n] = srv[n] \/ GoodThread(srv[n])'
    BY <1>1, FreshGood DEF GoodThread
  <2> QED
    BY <1>0, <1>1, <1>2, <1>3, <2>1, NetKeeps
<1> QED
  BY <1>1, <1>3, <1>4, <1>5 DEF IInv

-----------------------------------------------------------------------------
LEMMA InvInit == Init => IInv
<1> SUFFICES ASSUME Init PROVE IInv
  OBVIOUS
<1>0. UnitsOf(<<>>) = {} /\ <<>> \in Seq(Unit) /\ <<>> \in Seq(Seq(Unit)) /\ <<>> \in Seq(Line) /\ <<>> \in Seq(Answer)
  BY ElementsEmpty
<1>1. \E b \in Batches : Len(fetched) <= Len(b) /\ fetched = SubSeq(b, 1, Len(fetched))
  <2>1. PICK b \in Batches : TRUE
    BY BatchAssumption
  <2>2. Len(b) \in Nat /\ b \in Seq(Seq(Unit) \ {<<>>})
    BY RunType
  <2>3. SubSeq(b, 1, 0) = <<>>
    BY <2>2
  <2> QED
    BY <2>2, <2>3 DEF Init
<1>2. srv \in [Session -> Helper]
  BY FreshType DEF Init
<1>3. TypeOK
  BY <1>0, <1>1, <1>2, SessionAssumption DEF Init, TypeOK
<1>4. Issued = {}
  BY DEF Init, Issued
<1>5. ClientInv /\ UnitInv
  BY <1>0, <1>4 DEF Init, ClientInv, UnitInv
<1>6. NetInv
  BY <1>0, FreshGood DEF Init, NetInv, GoodThread
<1> QED
  BY <1>3, <1>5, <1>6 DEF IInv

(* A step after which all that the client does not hold is settled, with or *)
(* without a failure.                                                       *)
LEMMA SettleStep ==
  ASSUME IInv', UNCHANGED <<Issued, counted, waived>>, trouble' = trouble \/ trouble' = trouble + 1
  PROVE  Ledger!LedgerNext
<1>1. Held' \subseteq Issued' /\ \A u \in Issued' \ Held' : Settled(u)'
  BY DEF IInv, UnitInv, Held
<1>2. \A u : Settled(u)' => Ledger!Settled(u)
  BY DEF Settled, Ledger!Settled
<1>3. (cpc = "saving")' \in BOOLEAN
  OBVIOUS
<1> QED
  BY <1>1, <1>2, <1>3 DEF Ledger!LedgerNext, Ledger!Settle

(* What a step does to the ledger.                                          *)
LEMMA LedgerStep ==
  ASSUME IInv, Next
  PROVE  IInv' /\ Ledger!LedgerNext
<1>0. TypeOK /\ Issued \subseteq Unit
  BY IssuedUnits DEF IInv
<1>1. CASE GetWork
  <2>1. /\ IInv' /\ UNCHANGED <<counted, waived, trouble>> /\ cpc = "idle" /\ cpc' = "saving"
        /\ Held = {} /\ \E us \in SUBSET (Unit \ Issued) :
                         us # {} /\ Issued' = Issued \cup us /\ Held' = us
    BY <1>1, GetWorkStep
  <2>2. Ledger!Issue
    BY <2>1 DEF Ledger!Issue
  <2> QED
    BY <2>1, <2>2 DEF Ledger!LedgerNext
<1>2. CASE \/ Save \/ WriteFile \/ ReturnWork \/ SendAbandon \/ SendUnit \/ ReadAnswer \/ NoAnswer
           \/ EndOfReturn \/ Close \/ Restart
  <2>1. IInv' /\ UNCHANGED <<fetched, counted, waived>>
    BY <1>2, SaveStep, WriteFileStep, ReturnWorkStep, SendAbandonStep, SendUnitStep, ReadAnswerStep,
       NoAnswerStep, EndOfReturnStep, CloseStep, RestartStep
  <2>2. trouble' = trouble \/ trouble' = trouble + 1
    BY <1>2 DEF Save, WriteFile, ReturnWork, SendAbandon, SendUnit, ReadAnswer, NoAnswer,
       EndOfReturn, Close, Restart, Trouble
  <2> QED
    BY <2>1, <2>2, IssuedSame, SettleStep
<1>3. CASE Crash
  <2>1. /\ IInv' /\ UNCHANGED <<fetched, counted>> /\ cpc' = "down" /\ trouble' = trouble + 1
        /\ \/ waived' = waived
           \/ cpc = "saving" /\ Held' \subseteq Held /\ waived' = waived \cup (Held \ Held')
    BY <1>3, CrashStep
  <2>2. Issued' = Issued
    BY <2>1, IssuedSame
  <2>3. CASE waived' = waived
    BY <2>1, <2>2, <2>3, SettleStep
  <2>4. CASE cpc = "saving" /\ Held' \subseteq Held /\ waived' = waived \cup (Held \ Held')
    <3>1. Ledger!LoseRecord
      BY <2>1, <2>2, <2>4 DEF Ledger!LoseRecord
    <3> QED
      BY <2>1, <3>1 DEF Ledger!LedgerNext
  <2> QED
    BY <2>1, <2>3, <2>4
<1>4. CASE \E n \in Session : EndWork(n)
  <2>1. /\ IInv' /\ Issued' = Issued /\ Held' = Held /\ cpc' = cpc
        /\ \/ UNCHANGED <<counted, waived>> /\ trouble' = trouble + 1
           \/ \E u \in Issued \ (Refused \cup Untouched) :
                counted' = [counted EXCEPT ![u] = @ + 1] /\ UNCHANGED <<waived, trouble>>
           \/ \E u \in Issued \ (Refused \cup Untouched) :
                waived' = waived \cup {u} /\ trouble' = trouble + 1 /\ UNCHANGED counted
    BY <1>4, EndWorkStep
  <2>2. ASSUME UNCHANGED <<counted, waived>> /\ trouble' = trouble + 1 PROVE Ledger!LedgerNext
    BY <2>1, <2>2, SettleStep
  <2>3. ASSUME NEW u \in Issued \ (Refused \cup Untouched),
               counted' = [counted EXCEPT ![u] = @ + 1] /\ UNCHANGED <<waived, trouble>>
        PROVE  Ledger!LedgerNext
    <3>1. Ledger!Count(u)
      BY <2>1, <2>3 DEF Ledger!Count
    <3> QED
      BY <1>0, <3>1 DEF Ledger!LedgerNext
  <2>4. ASSUME NEW u \in Issued \ (Refused \cup Untouched),
               waived' = waived \cup {u} /\ trouble' = trouble + 1 /\ UNCHANGED counted
        PROVE  Ledger!LedgerNext
    <3>1. Ledger!Overlook(u)
      BY <2>1, <2>4 DEF Ledger!Overlook
    <3> QED
      BY <1>0, <3>1 DEF Ledger!LedgerNext
  <2> QED
    BY <2>1, <2>2, <2>3, <2>4
<1>5. CASE \/ ServerExit
           \/ \E n \in Session : \/ ReceiveReturn(n) \/ ReceiveFactor(n) \/ ReceiveAbandon(n)
                                 \/ NotUnderstood(n) \/ Finish(n) \/ LoseConnection(n)
  <2>1. IInv' /\ UNCHANGED <<Issued, Held, counted, waived>>
    BY <1>5, ServerExitStep, ReceiveReturnStep, IgnoreStep, NotUnderstoodStep, FinishStep, LoseConnectionStep
  <2>2. trouble' = trouble \/ trouble' = trouble + 1
    BY <1>5 DEF ServerExit, ReceiveReturn, ReceiveFactor, ReceiveAbandon, NotUnderstood, Finish,
       LoseConnection, Trouble
  <2> QED
    BY <2>1, <2>2, SettleStep
<1> QED
  BY <1>1, <1>2, <1>3, <1>4, <1>5 DEF Next, Client, Server

LEMMA InvNext == IInv /\ [Next]_vars => IInv' /\ [Ledger!LedgerNext]_(Ledger!ledgerVars)
<1> SUFFICES ASSUME IInv, UNCHANGED vars PROVE IInv' /\ UNCHANGED Ledger!ledgerVars
  BY LedgerStep
<1>1. UNCHANGED <<cpc, mem, todo, file, fetched, session, c2s, s2c, srv, link, counted, waived, trouble>>
  BY DEF vars
<1>2. Issued' = Issued /\ Held' = Held
  BY <1>1, IssuedSame DEF Held
<1>3. UNCHANGED Ledger!ledgerVars
  BY <1>1, <1>2 DEF Ledger!ledgerVars
<1> QED
  BY <1>1, <1>2, <1>3 DEF IInv, TypeOK, ClientInv, UnitInv, NetInv, Settled, GoodAnswer, GoodLine, GoodThread

(* The client's queue, save file and lines, and the helper threads, keep    *)
(* their types (Work, WorkUnit, WorkReceiver::ProcessMessage).              *)
THEOREM TypeCorrect == Spec => []TypeOK
<1>1. IInv => TypeOK
  BY DEF IInv
<1> QED
  BY <1>1, InvInit, InvNext, PTL DEF Spec

(* The session protocol implements the ledger: whatever lines are lost and  *)
(* whichever side dies, a unit stays with the client, in memory or on file, *)
(* until the server has counted it, unless a failed COMMIT took just that   *)
(* unit or the client died while it wrote the file (Work::ReturnWork,       *)
(* Work::Save, WorkReceiver::EndWork).                                      *)
THEOREM LedgerCorrect == Spec => LedgerKept
<1>1. Init => Ledger!LedgerInit
  <2> SUFFICES ASSUME Init PROVE Ledger!LedgerInit
    OBVIOUS
  <2>1. Issued = {} /\ Held = {}
    BY DEF Init, Issued, Held, UnitsOf
  <2> QED
    BY <2>1 DEF Init, Ledger!LedgerInit
<1> QED
  BY <1>1, InvInit, InvNext, PTL DEF Spec, LedgerKept, Ledger!LedgerSpec

LEMMA FileNext == IInv /\ NoStaleFile /\ [Next]_vars => NoStaleFile'
<1> SUFFICES ASSUME IInv, NoStaleFile, [Next]_vars, cpc' = "idle", mem' = <<>> PROVE file' = <<>>
  BY DEF NoStaleFile
<1>1. CASE GetWork
  BY <1>1 DEF GetWork
<1>2. CASE Close \/ Restart
  BY <1>2 DEF Close, Restart
<1>3. CASE Save \/ WriteFile \/ ReturnWork \/ SendAbandon \/ SendUnit \/ ReadAnswer \/ NoAnswer \/ EndOfReturn \/ Crash
  BY <1>3 DEF Save, WriteFile, ReturnWork, SendAbandon, SendUnit, ReadAnswer, NoAnswer, EndOfReturn, Crash
<1>4. CASE UNCHANGED <<cpc, mem, file>>
  BY <1>4 DEF NoStaleFile
<1>5. CASE ServerExit \/ \E n \in Session : Server(n) \/ LoseConnection(n)
  <2>1. UNCHANGED clientVars
    BY <1>5 DEF ServerExit, Server, LoseConnection, ReceiveReturn, ReceiveFactor, EndWork, ReceiveAbandon,
       NotUnderstood, Finish
  <2> QED
    BY <1>4, <2>1 DEF clientVars
<1> QED
  BY <1>1, <1>2, <1>3, <1>4, <1>5 DEF Next, Client, vars

(* A client that is at rest without a unit has no save file: nothing is     *)
(* sent again at the next start (Work::ReturnWork).                         *)
THEOREM FileCorrect == Spec => []NoStaleFile
<1>1. Init => NoStaleFile
  BY DEF Init, NoStaleFile
<1> QED
  BY <1>1, InvInit, InvNext, FileNext, PTL DEF Spec

-----------------------------------------------------------------------------
(***************************************************************************)
(* How often a unit is counted: an invariant about the sessions that had a *)
(* failure, and about those that counted a unit.                           *)
(***************************************************************************)
(* No unit is twice in a list.                                              *)
Distinct(q) == \A i, j \in DOMAIN q : q[i] = q[j] => i = j

Active == cpc \in {"returning", "waiting", "draining"}

(* The units that the client has not sent yet in its session.               *)
Rest == IF cpc = "returning" THEN UnitsOf(todo)
        ELSE IF cpc = "waiting" THEN UnitsOf(Tail(todo)) ELSE {}

ListInv ==
  /\ Distinct(mem) /\ Distinct(todo) /\ Distinct(file)
  /\ UnitsOf(mem) \cap UnitsOf(todo) = {}

Returns(q) == {i \in DOMAIN q : q[i].type = "Return"}
Returned(q) == {q[i].unit : i \in Returns(q)}

Unique(q) == \A i, j \in Returns(q) : q[i].unit = q[j].unit => i = j

(* In one session, with lines q on their way to the server, helper h, units *)
(* D counted and units R still to be sent, each unit is in one stage only.  *)
SentOnce(q, h, D, R) ==
  /\ Unique(q)
  /\ Returned(q) \cap D = {}
  /\ h.open \notin Returned(q) \cup D
  /\ R \cap (Returned(q) \cup D \cup {h.open}) = {}

(* The lines of unit u are under way, and the helper thread is where they   *)
(* begin.                                                                   *)
UnderWay(q, h, u) ==
  /\ q[Len(q)].type = "End"
  /\ \A i \in DOMAIN q :
       /\ q[i].type \in {"Abandon", "Return", "Factor", "End"}
       /\ q[i].type # "Abandon" => q[i].unit = u
       /\ q[i].type = "End" => i = Len(q)
       /\ q[i].type \in {"Factor", "End"} =>
            IF i = 1 THEN h.success /\ h.good = u ELSE q[i - 1].type \in {"Return", "Factor"}

(* The units that the client has, in memory or on file.                     *)
Left == UnitsOf(mem) \cup UnitsOf(todo) \cup UnitsOf(file)

(* A session without a failure that has begun: over, with nothing left of   *)
(* what it counted (D),                                                     *)
Complete(h, D) == h.pc = "closed" /\ D \cap Left = {}

(* ... or with each unit accepted so far.                                   *)
InStep(q, a, h) ==
  /\ mem = <<>>
  /\ cpc = "returning" => /\ h.pc = "reading" /\ a = <<>>
                          /\ \A i \in DOMAIN q : q[i].type = "Abandon"
  /\ cpc = "waiting" =>
       /\ h.pc = "reading"
       /\ IF q = <<>> THEN a = <<[type |-> "Accepted", unit |-> Head(todo)]>>
          ELSE a = <<>> /\ UnderWay(q, h, Head(todo))
  /\ cpc = "draining" =>
       /\ h.pc \in {"reading", "closed"}
       /\ \A i \in DOMAIN q : q[i].type \in {"Abandon", "EndOfReturn"}

(* A session n with lines q and a on their ways, helper h, connection l and *)
(* counted units D, with a failure (f) or without.                          *)
SessionOf(n, q, a, h, l, D, f) ==
  /\ h.pc = "closed" => q = <<>>
  /\ SentOnce(q, h, D, IF n = session THEN Rest ELSE {})
  /\ n > session => q = <<>> /\ a = <<>> /\ h.pc = "none" /\ ~l /\ ~f /\ D = {}
  /\ ~f /\ n <= session /\ (n = session => ~Active) => Complete(h, D)
  /\ ~f /\ n = session /\ Active => l /\ InStep(q, a, h)

(* F: the sessions with a failure; C: the sessions that counted a unit.     *)
CountedBy(C, n) == {u \in Unit : n \in C[u]}

SessionsOf(F, C) ==
  \A n \in Session : SessionOf(n, c2s[n], s2c[n], srv[n], link[n], CountedBy(C, n), n \in F)

CountOf(F, C) ==
  /\ Cardinality(F) <= trouble
  /\ \A u \in Unit : counted[u] = Cardinality(C[u])
  /\ \A u \in Unit \ Issued : C[u] = {}
  /\ \A u \in Unit : \A m, n \in C[u] \ F : m = n

Once == \E F \in SUBSET Session, C \in [Unit -> SUBSET Session] : CountOf(F, C) /\ SessionsOf(F, C)

OnceInv == ListInv /\ (Issued \cap Refused = {} => Once)

-----------------------------------------------------------------------------
(* The units under way. *)

LEMMA LineUnit == \A l \in Line : l.type # "EndOfReturn" => l.unit \in Unit
  BY DEF Line

LEMMA ReturnedUnits ==
  ASSUME NEW q \in Seq(Line)
  PROVE  Returned(q) \subseteq Unit
<1>1. \A i \in DOMAIN q : q[i] \in Line
  OBVIOUS
<1> QED
  BY <1>1, LineUnit DEF Returned, Returns

LEMMA ReturnsTail ==
  ASSUME NEW q \in Seq(Line), q # <<>>, Unique(q)
  PROVE  /\ Tail(q) \in Seq(Line) /\ Unique(Tail(q)) /\ Returned(Tail(q)) \subseteq Returned(q)
         /\ Head(q).type = "Return" => Head(q).unit \in Returned(q) \ Returned(Tail(q))
<1>1. /\ Tail(q) \in Seq(Line) /\ DOMAIN q = 1..Len(q) /\ Len(q) \in Nat /\ Len(q) > 0 /\ Head(q) = q[1]
      /\ DOMAIN Tail(q) = 1..(Len(q) - 1)
      /\ \A i \in 1..(Len(q) - 1) : Tail(q)[i] = q[i + 1] /\ i + 1 \in 1..Len(q)
  OBVIOUS
<1>2. \A i \in Returns(Tail(q)) : i \in 1..(Len(q) - 1) /\ i + 1 \in Returns(q) /\ Tail(q)[i] = q[i + 1]
  BY <1>1 DEF Returns
<1>3. Unique(Tail(q))
  <2>1. ASSUME NEW i \in Returns(Tail(q)), NEW j \in Returns(Tail(q)), Tail(q)[i].unit = Tail(q)[j].unit
        PROVE  i = j
    <3>1. i + 1 = j + 1
      BY <1>2, <2>1 DEF Unique
    <3> QED
      BY <1>1, <1>2, <3>1
  <2> QED
    BY <2>1 DEF Unique
<1>4. Returned(Tail(q)) \subseteq Returned(q)
  BY <1>2 DEF Returned
<1>5. ASSUME Head(q).type = "Return"
      PROVE  Head(q).unit \in Returned(q) \ Returned(Tail(q))
  <2>1. 1 \in Returns(q) /\ Head(q).unit = q[1].unit
    BY <1>1, <1>5 DEF Returns
  <2>2. ASSUME NEW i \in Returns(Tail(q)), Tail(q)[i].unit = q[1].unit
        PROVE  FALSE
    <3>1. i + 1 = 1
      BY <1>2, <2>1, <2>2 DEF Unique
    <3> QED
      BY <1>1, <1>2, <3>1
  <2> QED
    BY <2>1, <2>2 DEF Returned
<1> QED
  BY <1>1, <1>3, <1>4, <1>5

LEMMA ReturnsPrefix ==
  ASSUME NEW q \in Seq(Line), Unique(q), NEW p \in Prefixes(q)
  PROVE  p \in Seq(Line) /\ Unique(p) /\ Returned(p) \subseteq Returned(q)
<1>1. PICK i \in 0..Len(q) : p = SubSeq(q, 1, i)
  BY DEF Prefixes
<1>2. p \in Seq(Line) /\ Len(p) = i /\ \A j \in 1..i : p[j] = q[j] /\ j \in DOMAIN q
  BY <1>1
<1>3. Returns(p) \subseteq Returns(q) /\ \A j \in Returns(p) : p[j] = q[j]
  BY <1>2 DEF Returns
<1> QED
  BY <1>2, <1>3 DEF Unique, Returned

LEMMA ReturnsJoin ==
  ASSUME NEW p \in Seq(Line), NEW q \in Seq(Line), Unique(p), Unique(q), Returned(p) \cap Returned(q) = {}
  PROVE  p \o q \in Seq(Line) /\ Unique(p \o q) /\ Returned(p \o q) = Returned(p) \cup Returned(q)
<1>1. /\ p \o q \in Seq(Line) /\ Len(p) \in Nat /\ Len(q) \in Nat
      /\ DOMAIN (p \o q) = 1..(Len(p) + Len(q)) /\ DOMAIN p = 1..Len(p) /\ DOMAIN q = 1..Len(q)
  <2>1. p \o q \in Seq(Line) /\ Len(p \o q) = Len(p) + Len(q) /\ Len(p) \in Nat /\ Len(q) \in Nat
    OBVIOUS
  <2> QED
    BY <2>1
<1>2. ASSUME NEW i \in Returns(p \o q)
      PROVE  \/ i \in Returns(p) /\ (p \o q)[i] = p[i]
             \/ i - Len(p) \in Returns(q) /\ (p \o q)[i] = q[i - Len(p)]
  <2>1. i \in 1..(Len(p) + Len(q)) /\ (p \o q)[i].type = "Return"
    BY <1>1 DEF Returns
  <2>2. CASE i <= Len(p)
    BY <1>1, <2>1, <2>2 DEF Returns
  <2>3. CASE i > Len(p)
    <3>1. i - Len(p) \in 1..Len(q) /\ (p \o q)[i] = q[i - Len(p)]
      BY <1>1, <2>1, <2>3
    <3> QED
      BY <1>1, <2>1, <3>1 DEF Returns
  <2> QED
    BY <1>1, <2>1, <2>2, <2>3
<1>3. ASSUME NEW i \in Returns(p)
      PROVE  i \in Returns(p \o q) /\ (p \o q)[i] = p[i]
  <2>1. i \in 1..Len(p) /\ p[i].type = "Return"
    BY <1>1 DEF Returns
  <2>2. i \in 1..(Len(p) + Len(q)) /\ (p \o q)[i] = p[i]
    BY <1>1, <2>1
  <2> QED
    BY <1>1, <2>1, <2>2 DEF Returns
<1>4. ASSUME NEW i \in Returns(q)
      PROVE  Len(p) + i \in Returns(p \o q) /\ (p \o q)[Len(p) + i] = q[i]
  <2>1. i \in 1..Len(q) /\ q[i].type = "Return"
    BY <1>1 DEF Returns
  <2>2. Len(p) + i \in 1..(Len(p) + Len(q)) /\ (p \o q)[Len(p) + i] = q[i]
    BY <1>1, <2>1
  <2> QED
    BY <1>1, <2>1, <2>2 DEF Returns
<1>5. Unique(p \o q)
  <2>1. ASSUME NEW i \in Returns(p \o q), NEW j \in Returns(p \o q), (p \o q)[i].unit = (p \o q)[j].unit
        PROVE  i = j
    <3>1. i \in Nat /\ j \in Nat
      BY <1>1 DEF Returns
    <3>2. CASE i \in Returns(p) /\ (p \o q)[i] = p[i] /\ j \in Returns(p) /\ (p \o q)[j] = p[j]
      BY <2>1, <3>2 DEF Unique
    <3>3. CASE /\ i - Len(p) \in Returns(q) /\ (p \o q)[i] = q[i - Len(p)]
               /\ j - Len(p) \in Returns(q) /\ (p \o q)[j] = q[j - Len(p)]
      <4>1. i - Len(p) = j - Len(p)
        BY <2>1, <3>3 DEF Unique
      <4> QED
        BY <1>1, <3>1, <4>1
    <3>4. CASE \/ /\ i \in Returns(p) /\ (p \o q)[i] = p[i]
                  /\ j - Len(p) \in Returns(q) /\ (p \o q)[j] = q[j - Len(p)]
               \/ /\ j \in Returns(p) /\ (p \o q)[j] = p[j]
                  /\ i - Len(p) \in Returns(q) /\ (p \o q)[i] = q[i - Len(p)]
      <4>1. (p \o q)[i].unit \in Returned(p) \cap Returned(q)
        BY <2>1, <3>4 DEF Returned
      <4> QED
        BY <4>1
    <3> QED
      BY <1>2, <3>2, <3>3, <3>4
  <2> QED
    BY <2>1 DEF Unique
<1>6. Returned(p \o q) = Returned(p) \cup Returned(q)
  <2>1. Returned(p \o q) \subseteq Returned(p) \cup Returned(q)
    BY <1>2 DEF Returned
  <2>2. Returned(p) \subseteq Returned(p \o q)
    BY <1>3 DEF Returned
  <2>3. Returned(q) \subseteq Returned(p \o q)
    BY <1>4 DEF Returned
  <2> QED
    BY <2>1, <2>2, <2>3
<1> QED
  BY <1>1, <1>5, <1>6

(* A line that returns no unit.                                             *)
LEMMA ReturnsOfOne ==
  ASSUME NEW l \in Line, l.type # "Return"
  PROVE  <<l>> \in Seq(Line) /\ Unique(<<l>>) /\ Returned(<<l>>) = {}
<1>1. Returns(<<l>>) = {}
  BY DEF Returns
<1> QED
  BY <1>1 DEF Unique, Returned

(* The lines of a unit.                                                     *)
LEMMA LinesShape ==
  ASSUME NEW u \in Unit
  PROVE  /\ LinesOf(u) \in Seq(Line) /\ Len(LinesOf(u)) \in {2, 5}
         /\ LinesOf(u)[1] = [type |-> "Return", unit |-> u]
         /\ LinesOf(u)[Len(LinesOf(u))] = [type |-> "End", unit |-> u]
         /\ \A i \in 2..(Len(LinesOf(u)) - 1) : LinesOf(u)[i] = [type |-> "Factor", unit |-> u]
<1>1. LinesOf(u) \in Seq(Line)
  BY LinesOfType
<1>2. PICK a, b, e : a = [type |-> "Return", unit |-> u] /\ b = [type |-> "Factor", unit |-> u]
                     /\ e = [type |-> "End", unit |-> u]
  OBVIOUS
<1>3. CASE u \in Factored
  <2>1. PICK m : m = [i \in 1..3 |-> b]
    OBVIOUS
  <2>2. m \in Seq({b}) /\ Len(m) = 3 /\ m[1] = b /\ m[2] = b /\ m[3] = b
    <3>1. m \in [1..3 -> {b}] /\ 3 \in Nat
      BY <2>1
    <3>2. m \in Seq({b})
      BY <3>1, SeqDef
    <3> QED
      BY <2>1, <3>2
  <2>3. LinesOf(u) = <<a>> \o m \o <<e>>
    BY <1>2, <1>3, <2>1 DEF LinesOf
  <2>4. PICK T : m \in Seq(T) /\ <<a>> \in Seq(T) /\ <<e>> \in Seq(T)
    <3>1. {b} \subseteq {a, b, e} /\ <<a>> \in Seq({a, b, e}) /\ <<e>> \in Seq({a, b, e})
      OBVIOUS
    <3>2. m \in Seq({a, b, e})
      BY <2>2, <3>1, ElementsOfSuper
    <3> QED
      BY <3>1, <3>2
  <2>5. PICK w \in Seq(T) : w = <<a>> \o m
    <3>1. <<a>> \o m \in Seq(T)
      BY <2>4
    <3> QED
      BY <3>1
  <2>6. Len(w) = 4 /\ w[1] = a /\ w[2] = b /\ w[3] = b /\ w[4] = b
    <3>1. PICK s \in Seq(T) : s = <<a>> /\ Len(s) = 1 /\ s[1] = a
      BY <2>4
    <3>2. w = s \o m /\ Len(w) = 1 + 3
      <4>1. w = s \o m
        BY <2>5, <3>1, Zenon
      <4>2. Len(s \o m) = Len(s) + Len(m)
        BY <2>4, <3>1
      <4> QED
        BY <2>2, <3>1, <4>1, <4>2
    <3>3. w[1] = s[1] /\ w[1 + 1] = m[1] /\ w[1 + 2] = m[2] /\ w[1 + 3] = m[3]
      BY <2>2, <2>4, <3>1, <3>2
    <3> QED
      BY <2>2, <3>1, <3>2, <3>3
  <2>7. PICK x : x = w \o <<e>>
    OBVIOUS
  <2>8. Len(x) = 5 /\ x[1] = a /\ x[2] = b /\ x[3] = b /\ x[4] = b /\ x[5] = e
    BY <2>4, <2>5, <2>6, <2>7
  <2>9. LinesOf(u) = x
    BY <2>3, <2>5, <2>7
  <2>10. \A i \in 2..(Len(x) - 1) : x[i] = b
    <3>1. 2..(Len(x) - 1) = {2, 3, 4}
      BY <2>8
    <3> QED
      BY <2>8, <3>1
  <2> QED
    BY <1>1, <1>2, <2>8, <2>9, <2>10
<1>4. CASE u \notin Factored
  <2>1. LinesOf(u) = <<a>> \o <<>> \o <<e>>
    BY <1>2, <1>4 DEF LinesOf
  <2>2. <<a>> \o <<>> = <<a>>
    OBVIOUS
  <2>3. PICK s \in Seq({a, e}), r \in Seq({a, e}) :
          /\ s = <<a>> /\ Len(s) = 1 /\ s[1] = a
          /\ r = <<e>> /\ Len(r) = 1 /\ r[1] = e
    <3>1. <<a>> \in Seq({a, e}) /\ <<e>> \in Seq({a, e})
      OBVIOUS
    <3>2. Len(<<a>>) = 1 /\ <<a>>[1] = a /\ Len(<<e>>) = 1 /\ <<e>>[1] = e
      OBVIOUS
    <3> QED
      BY <3>1, <3>2
  <2>4. PICK x : x = s \o r
    OBVIOUS
  <2>5. Len(x) = 2 /\ x[1] = a /\ x[2] = e
    <3>1. Len(s \o r) = 1 + 1 /\ (s \o r)[1] = s[1] /\ (s \o r)[1 + 1] = r[1]
      BY <2>3
    <3> QED
      BY <2>3, <2>4, <3>1
  <2>6. LinesOf(u) = x
    BY <2>1, <2>2, <2>3, <2>4, Zenon
  <2>7. 2..(Len(x) - 1) = {}
    BY <2>5
  <2> QED
    BY <1>1, <1>2, <2>5, <2>6, <2>7
<1> QED
  BY <1>3, <1>4

LEMMA ReturnsOfLines ==
  ASSUME NEW u \in Unit
  PROVE  LinesOf(u) \in Seq(Line) /\ Unique(LinesOf(u)) /\ Returned(LinesOf(u)) = {u}
<1>1. PICK q : q = LinesOf(u)
  OBVIOUS
<1>2. /\ q \in Seq(Line) /\ Len(q) \in {2, 5}
      /\ q[1] = [type |-> "Return", unit |-> u]
      /\ q[Len(q)] = [type |-> "End", unit |-> u]
      /\ \A i \in 2..(Len(q) - 1) : q[i] = [type |-> "Factor", unit |-> u]
  BY <1>1, LinesShape
<1>3. Returns(q) = {1}
  BY <1>2 DEF Returns
<1>4. q[1].unit = u
  BY <1>2
<1> QED
  BY <1>1, <1>2, <1>3, <1>4 DEF Unique, Returned

-----------------------------------------------------------------------------
(* The lines of one unit under way. *)

LEMMA UnderWayStart ==
  ASSUME NEW q \in Seq(Line), \A i \in DOMAIN q : q[i].type = "Abandon", NEW u \in Unit, NEW h
  PROVE  q \o LinesOf(u) # <<>> /\ UnderWay(q \o LinesOf(u), h, u)
<1>1. PICK w : w = LinesOf(u)
  OBVIOUS
<1>2. /\ w \in Seq(Line) /\ Len(w) \in {2, 5}
      /\ w[1] = [type |-> "Return", unit |-> u]
      /\ w[Len(w)] = [type |-> "End", unit |-> u]
      /\ \A i \in 2..(Len(w) - 1) : w[i] = [type |-> "Factor", unit |-> u]
  BY <1>1, LinesShape
<1>3. PICK x : x = q \o w
  OBVIOUS
<1>4. /\ x \in Seq(Line) /\ Len(x) = Len(q) + Len(w) /\ Len(q) \in Nat /\ DOMAIN x = 1..(Len(q) + Len(w))
      /\ \A i \in 1..Len(q) : x[i].type = "Abandon"
      /\ \A i \in 1..Len(w) : x[Len(q) + i] = w[i]
  <2>1. x \in Seq(Line) /\ Len(x) = Len(q) + Len(w) /\ Len(q) \in Nat
        /\ DOMAIN q = 1..Len(q) /\ DOMAIN x = 1..Len(x)
    BY <1>2, <1>3
  <2>2. \A i \in 1..Len(q) : x[i] = q[i]
    BY <1>2, <1>3
  <2>3. \A i \in 1..Len(w) : x[Len(q) + i] = w[i]
    BY <1>2, <1>3
  <2>4. \A i \in 1..Len(q) : x[i].type = "Abandon"
    BY <2>1, <2>2
  <2> QED
    BY <2>1, <2>3, <2>4
<1>5. /\ w[1].type = "Return" /\ w[1].unit = u /\ w[Len(w)].type = "End" /\ w[Len(w)].unit = u
      /\ \A i \in 2..(Len(w) - 1) : w[i].type = "Factor" /\ w[i].unit = u
  BY <1>2
<1>6. x[Len(x)].type = "End"
  <2>1. Len(w) \in 1..Len(w)
    BY <1>2
  <2>2. x[Len(q) + Len(w)] = w[Len(w)]
    BY <1>4, <2>1
  <2> QED
    BY <1>4, <1>5, <2>2
<1>7. ASSUME NEW i \in DOMAIN x
      PROVE  /\ x[i].type \in {"Abandon", "Return", "Factor", "End"}
             /\ x[i].type # "Abandon" => x[i].unit = u
             /\ x[i].type = "End" => i = Len(x)
             /\ x[i].type \in {"Factor", "End"} => i > 1 /\ x[i - 1].type \in {"Return", "Factor"}
  <2>1. CASE i <= Len(q)
    BY <1>4, <2>1
  <2>2. CASE i > Len(q)
    <3>1. PICK k \in 1..Len(w) : i = Len(q) + k
      <4>1. i - Len(q) \in 1..Len(w) /\ i = Len(q) + (i - Len(q))
        BY <1>2, <1>4, <2>2
      <4> QED
        BY <4>1
    <3>2. x[i] = w[k]
      BY <1>4, <3>1
    <3>3. CASE k = 1
      BY <1>5, <3>2, <3>3
    <3>4. CASE k \in 2..Len(w)
      <4>1. i - 1 = Len(q) + (k - 1) /\ k - 1 \in 1..(Len(w) - 1) /\ i > 1
        BY <1>2, <1>4, <3>1, <3>4
      <4>2. x[i - 1] = w[k - 1]
        <5>1. k - 1 \in 1..Len(w)
          BY <1>2, <4>1
        <5>2. x[Len(q) + (k - 1)] = w[k - 1]
          BY <1>4, <5>1
        <5> QED
          BY <4>1, <5>2
      <4>3. w[k - 1].type \in {"Return", "Factor"}
        BY <1>2, <1>5, <4>1
      <4>4. k = Len(w) \/ k \in 2..(Len(w) - 1)
        BY <1>2, <3>4
      <4>5. /\ x[i].type \in {"Factor", "End"} /\ x[i].unit = u
            /\ x[i].type = "End" => k = Len(w)
        BY <1>5, <3>2, <4>4
      <4>6. k = Len(w) => i = Len(x)
        BY <1>4, <3>1
      <4> QED
        BY <4>1, <4>2, <4>3, <4>5, <4>6
    <3> QED
      BY <1>2, <3>3, <3>4
  <2> QED
    BY <1>4, <2>1, <2>2
<1>8. UnderWay(x, h, u)
  <2>1. ASSUME NEW i \in DOMAIN x, x[i].type \in {"Factor", "End"}
        PROVE  IF i = 1 THEN h.success /\ h.good = u ELSE x[i - 1].type \in {"Return", "Factor"}
    BY <1>4, <1>7, <2>1
  <2> QED
    BY <1>6, <1>7, <2>1 DEF UnderWay
<1>9. x # <<>>
  BY <1>2, <1>4
<1> QED
  BY <1>1, <1>3, <1>8, <1>9

LEMMA UnderWayHead ==
  ASSUME NEW q \in Seq(Line), q # <<>>, NEW u, NEW h, UnderWay(q, h, u)
  PROVE  /\ Head(q).type \in {"Abandon", "Return", "Factor", "End"}
         /\ Head(q).type # "Abandon" => Head(q).unit = u
         /\ Head(q).type = "End" <=> Tail(q) = <<>>
         /\ Head(q).type \in {"Factor", "End"} => h.success /\ h.good = u
<1>1. Head(q) = q[1] /\ 1 \in DOMAIN q /\ Len(q) \in Nat /\ Len(q) > 0 /\ (Tail(q) = <<>> <=> Len(q) = 1)
  <2>1. Tail(q) \in Seq(Line) /\ Len(Tail(q)) = Len(q) - 1 /\ Len(q) \in Nat /\ Len(q) > 0 /\ Head(q) = q[1]
    OBVIOUS
  <2>2. \A s \in Seq(Line) : s = <<>> <=> Len(s) = 0
    OBVIOUS
  <2> QED
    BY <2>1, <2>2
<1> QED
  BY <1>1 DEF UnderWay

LEMMA UnderWayTail ==
  ASSUME NEW q \in Seq(Line), q # <<>>, Tail(q) # <<>>, NEW u, NEW h, UnderWay(q, h, u), NEW g,
         Head(q).type \in {"Return", "Factor"} => g.success /\ g.good = u
  PROVE  UnderWay(Tail(q), g, u)
<1>1. PICK x : x = Tail(q)
  OBVIOUS
<1>2. /\ x \in Seq(Line) /\ Head(q) = q[1] /\ Len(q) \in Nat /\ Len(q) > 1 /\ Len(x) = Len(q) - 1
      /\ DOMAIN q = 1..Len(q) /\ DOMAIN x = 1..(Len(q) - 1)
      /\ \A i \in 1..(Len(q) - 1) : x[i] = q[i + 1] /\ i + 1 \in 1..Len(q)
  <2>1. Tail(q) \in Seq(Line) /\ Len(Tail(q)) = Len(q) - 1 /\ Len(q) \in Nat /\ Len(q) > 1
    OBVIOUS
  <2>2. Head(q) = q[1] /\ DOMAIN Tail(q) = 1..(Len(q) - 1) /\ \A i \in 1..(Len(q) - 1) : Tail(q)[i] = q[i + 1]
    BY <2>1
  <2> QED
    BY <1>1, <2>1, <2>2
<1>3. x[Len(x)].type = "End"
  <2>1. x[Len(x)] = q[Len(q)]
    BY <1>2
  <2> QED
    BY <2>1 DEF UnderWay
<1>4. ASSUME NEW i \in DOMAIN x
      PROVE  /\ x[i].type \in {"Abandon", "Return", "Factor", "End"}
             /\ x[i].type # "Abandon" => x[i].unit = u
             /\ x[i].type = "End" => i = Len(x)
             /\ x[i].type \in {"Factor", "End"} =>
                  IF i = 1 THEN g.success /\ g.good = u ELSE x[i - 1].type \in {"Return", "Factor"}
  <2>1. PICK j \in DOMAIN q : j = i + 1 /\ x[i] = q[j] /\ j # 1 /\ j - 1 = i
    BY <1>2
  <2>2. /\ q[j].type \in {"Abandon", "Return", "Factor", "End"}
        /\ q[j].type # "Abandon" => q[j].unit = u
        /\ q[j].type = "End" => j = Len(q)
        /\ q[j].type \in {"Factor", "End"} => q[i].type \in {"Return", "Factor"}
    BY <2>1 DEF UnderWay
  <2>3. q[j].type = "End" => i = Len(x)
    BY <1>2, <2>1, <2>2
  <2>4. CASE i = 1
    BY <1>2, <2>1, <2>2, <2>3, <2>4
  <2>5. CASE i # 1
    <3>1. i - 1 \in 1..(Len(q) - 1) /\ (i - 1) + 1 = i
      BY <1>2, <2>5
    <3>2. x[i - 1] = q[i]
      BY <1>2, <3>1
    <3> QED
      BY <2>1, <2>2, <2>3, <2>5, <3>2
  <2> QED
    BY <2>4, <2>5
<1>5. UnderWay(x, g, u)
  BY <1>3, <1>4 DEF UnderWay
<1> QED
  BY <1>1, <1>5

-----------------------------------------------------------------------------
(* The lists of units. *)

LEMMA DistinctEmpty == Distinct(<<>>)
  BY DEF Distinct

LEMMA DistinctTail ==
  ASSUME NEW q \in Seq(Unit), q # <<>>, Distinct(q)
  PROVE  Distinct(Tail(q)) /\ Head(q) \notin UnitsOf(Tail(q))
<1>1. /\ DOMAIN q = 1..Len(q) /\ Len(q) \in Nat /\ Len(q) > 0 /\ Head(q) = q[1]
      /\ DOMAIN Tail(q) = 1..(Len(q) - 1)
      /\ \A i \in 1..(Len(q) - 1) : Tail(q)[i] = q[i + 1] /\ i + 1 \in 1..Len(q)
  OBVIOUS
<1>2. ASSUME NEW i \in DOMAIN Tail(q), NEW j \in DOMAIN Tail(q), Tail(q)[i] = Tail(q)[j]
      PROVE  i = j
  <2>1. i + 1 = j + 1
    BY <1>1, <1>2 DEF Distinct
  <2> QED
    BY <1>1, <2>1
<1>3. ASSUME NEW i \in DOMAIN Tail(q), Tail(q)[i] = Head(q)
      PROVE  FALSE
  <2>1. i + 1 = 1
    BY <1>1, <1>3 DEF Distinct
  <2> QED
    BY <1>1, <2>1
<1> QED
  BY <1>2, <1>3 DEF Distinct, UnitsOf

LEMMA DistinctPrefix ==
  ASSUME NEW q \in Seq(Unit), Distinct(q), NEW p \in Prefixes(q)
  PROVE  Distinct(p)
<1>1. PICK i \in 0..Len(q) : p = SubSeq(q, 1, i)
  BY DEF Prefixes
<1>2. DOMAIN p = 1..i /\ \A j \in 1..i : p[j] = q[j] /\ j \in DOMAIN q
  BY <1>1
<1> QED
  BY <1>2 DEF Distinct

LEMMA DistinctAppend ==
  ASSUME NEW q \in Seq(Unit), NEW u \in Unit, Distinct(q), u \notin UnitsOf(q)
  PROVE  Distinct(Append(q, u))
<1>1. PICK x : x = Append(q, u)
  OBVIOUS
<1>2. /\ DOMAIN q = 1..Len(q) /\ Len(q) \in Nat /\ DOMAIN x = 1..(Len(q) + 1)
      /\ x[Len(q) + 1] = u /\ \A i \in 1..Len(q) : x[i] = q[i] /\ x[i] # u
  <2>1. /\ DOMAIN q = 1..Len(q) /\ Len(q) \in Nat /\ DOMAIN x = 1..(Len(q) + 1)
        /\ x[Len(q) + 1] = u /\ \A i \in 1..Len(q) : x[i] = q[i]
    BY <1>1
  <2> QED
    BY <2>1 DEF UnitsOf
<1>3. ASSUME NEW i \in DOMAIN x, NEW j \in DOMAIN x, x[i] = x[j]
      PROVE  i = j
  <2>1. CASE i \in 1..Len(q) /\ j \in 1..Len(q)
    BY <1>2, <1>3, <2>1 DEF Distinct
  <2>2. CASE i = Len(q) + 1 \/ j = Len(q) + 1
    BY <1>2, <1>3, <2>2
  <2> QED
    BY <1>2, <2>1, <2>2
<1> QED
  BY <1>1, <1>3 DEF Distinct

(* New units were never handed out.                                         *)
LEMMA NewUnits ==
  ASSUME TypeOK, GetWork
  PROVE  mem' \in Seq(Unit) /\ Distinct(mem') /\ UnitsOf(mem') \cap Issued = {} /\ Issued \subseteq Issued'
<1>0. Len(fetched) \in Nat /\ fetched \in Seq(Seq(Unit))
  BY DEF TypeOK
<1>1. PICK run \in Batches :
        /\ Len(run) > Len(fetched) /\ SubSeq(run, 1, Len(fetched)) = fetched
        /\ mem' = run[Len(fetched) + 1] /\ fetched' = Append(fetched, run[Len(fetched) + 1])
  BY DEF GetWork, Delivered
<1>2. Started(run)
  BY <1>0, <1>1, RunType DEF Started
<1>3. /\ Len(run) \in Nat /\ DOMAIN run = 1..Len(run) /\ Len(fetched) + 1 \in 1..Len(run)
      /\ mem' \in Seq(Unit)
  BY <1>0, <1>1, RunType
<1>4. \A i, j \in DOMAIN run : \A k \in DOMAIN run[i], l \in DOMAIN run[j] : run[i][k] = run[j][l] => i = j /\ k = l
  BY BatchAssumption
<1>5. Distinct(mem')
  BY <1>1, <1>3, <1>4 DEF Distinct
<1>6. Issued = UNION {UnitsOf(run[i]) : i \in 1..Len(fetched)}
  BY <1>2, StartedIssued
<1>7. ASSUME NEW u \in UnitsOf(mem'), u \in Issued
      PROVE  FALSE
  <2>1. PICK i \in 1..Len(fetched) : u \in UnitsOf(run[i])
    BY <1>6, <1>7
  <2>2. PICK k \in DOMAIN run[i] : u = run[i][k]
    BY <2>1 DEF UnitsOf
  <2>3. PICK j : j = Len(fetched) + 1
    OBVIOUS
  <2>4. PICK l \in DOMAIN run[j] : u = run[j][l]
    BY <1>1, <1>7, <2>3 DEF UnitsOf
  <2>5. i \in DOMAIN run /\ j \in DOMAIN run /\ i # j
    BY <1>0, <1>1, <1>3, <2>3
  <2>6. run[i][k] = run[j][l]
    BY <2>2, <2>4
  <2> QED
    BY <1>4, <2>5, <2>6, Zenon
<1>8. Issued \subseteq Issued'
  <2>1. \A i \in DOMAIN fetched : i \in DOMAIN fetched' /\ fetched'[i] = fetched[i]
    BY <1>0, <1>1, <1>3
  <2> QED
    BY <2>1 DEF Issued
<1> QED
  BY <1>3, <1>5, <1>7, <1>8

LEMMA ListStep ==
  ASSUME IInv, ListInv, [Next]_vars
  PROVE  ListInv'
<1>0. /\ TypeOK /\ ClientInv /\ mem \in Seq(Unit) /\ todo \in Seq(Unit) /\ file \in Seq(Unit)
      /\ Distinct(mem) /\ Distinct(todo) /\ Distinct(file) /\ UnitsOf(mem) \cap UnitsOf(todo) = {}
  BY DEF IInv, TypeOK, ListInv
<1>1. UnitsOf(<<>>) = {}
  BY DEF UnitsOf
<1>2. CASE GetWork
  <2>1. todo = <<>> /\ todo' = todo /\ file' = <<>>
    BY <1>0, <1>2 DEF GetWork, ClientInv
  <2>2. Distinct(mem')
    BY <1>0, <1>2, NewUnits
  <2> QED
    BY <1>1, <2>1, <2>2, DistinctEmpty DEF ListInv
<1>3. CASE Save
  BY <1>0, <1>3, DistinctEmpty DEF Save, ListInv
<1>4. CASE ReturnWork
  BY <1>0, <1>1, <1>4, DistinctEmpty DEF ReturnWork, ListInv
<1>5. CASE SendAbandon
  <2>1. todo # <<>> /\ mem' = mem /\ file' = file /\ todo' = Tail(todo)
    BY <1>5 DEF SendAbandon
  <2>2. Distinct(Tail(todo)) /\ UnitsOf(Tail(todo)) \subseteq UnitsOf(todo)
    BY <1>0, <2>1, DistinctTail, ElementsHead
  <2> QED
    BY <1>0, <2>1, <2>2 DEF ListInv
<1>6. CASE ReadAnswer \/ NoAnswer
  <2>1. /\ todo # <<>> /\ file' = file /\ todo' = Tail(todo)
        /\ mem' = mem \/ mem' = Append(mem, Head(todo))
    BY <1>0, <1>6 DEF ReadAnswer, NoAnswer, ClientInv
  <2>2. PICK u, q : u = Head(todo) /\ q = Tail(todo)
    OBVIOUS
  <2>3. Distinct(q) /\ u \notin UnitsOf(q) /\ u \in Unit /\ UnitsOf(todo) = {u} \cup UnitsOf(q)
    <3>1. Distinct(Tail(todo)) /\ Head(todo) \notin UnitsOf(Tail(todo))
      BY <1>0, <2>1, DistinctTail
    <3>2. Head(todo) \in Unit /\ UnitsOf(todo) = {Head(todo)} \cup UnitsOf(Tail(todo))
      BY <1>0, <2>1, ElementsHead
    <3> QED
      BY <2>2, <3>1, <3>2
  <2>4. CASE mem' = mem
    BY <1>0, <2>1, <2>2, <2>3, <2>4 DEF ListInv
  <2>5. CASE mem' = Append(mem, u)
    <3>1. UnitsOf(mem') = UnitsOf(mem) \cup {u}
      BY <1>0, <2>3, <2>5, ElementsAppend
    <3>2. Distinct(mem')
      BY <1>0, <2>3, <2>5, DistinctAppend
    <3> QED
      BY <1>0, <2>1, <2>2, <2>3, <3>1, <3>2 DEF ListInv
  <2> QED
    BY <2>1, <2>2, <2>4, <2>5
<1>7. CASE Close
  BY <1>0, <1>7, DistinctEmpty DEF Close, ListInv
<1>8. CASE Crash
  <2>1. file' = file \/ file' \in Prefixes(mem)
    BY <1>8 DEF Crash
  <2>2. Distinct(file')
    BY <1>0, <2>1, DistinctPrefix
  <2>3. mem' = <<>> /\ todo' = <<>>
    BY <1>8 DEF Crash
  <2> QED
    BY <1>1, <2>2, <2>3, DistinctEmpty DEF ListInv
<1>9. CASE Restart
  BY <1>0, <1>1, <1>9, DistinctEmpty DEF Restart, ClientInv, ListInv
<1>10. CASE UNCHANGED <<mem, todo, file>>
  BY <1>0, <1>10 DEF ListInv
<1>11. CASE SendUnit \/ EndOfReturn \/ UNCHANGED vars \/ ServerExit
            \/ \E n \in Session : Server(n) \/ LoseConnection(n)
  <2>1. UNCHANGED <<mem, todo, file>>
    BY <1>11 DEF SendUnit, EndOfReturn, vars, ServerExit, Server, LoseConnection, ReceiveReturn, ReceiveFactor,
       EndWork, ReceiveAbandon, NotUnderstood, Finish, clientVars
  <2> QED
    BY <1>10, <2>1
<1>12. CASE WriteFile
  BY <1>0, <1>12 DEF WriteFile, ListInv
<1> QED
  BY <1>12, <1>2, <1>3, <1>4, <1>5, <1>6, <1>7, <1>8, <1>9, <1>11 DEF Next, Client

-----------------------------------------------------------------------------
(* A unit in its session, step by step. *)

LEMMA SentTail ==
  ASSUME NEW q \in Seq(Line), q # <<>>, NEW h, NEW D \in SUBSET Unit, NEW R \in SUBSET Unit, SentOnce(q, h, D, R),
         NEW g, g.open = h.open \/ g.open = None
  PROVE  SentOnce(Tail(q), g, D, R)
<1>1. /\ Unique(Tail(q)) /\ Returned(Tail(q)) \subseteq Returned(q) /\ Returned(q) \subseteq Unit
  BY ReturnsTail, ReturnedUnits DEF SentOnce
<1> QED
  BY <1>1, NoneAssumption DEF SentOnce

LEMMA SentBegun ==
  ASSUME NEW q \in Seq(Line), q # <<>>, NEW h, NEW D, NEW R, SentOnce(q, h, D, R),
         Head(q).type = "Return", NEW g, g.open = Head(q).unit
  PROVE  SentOnce(Tail(q), g, D, R)
<1>1. /\ Unique(Tail(q)) /\ Returned(Tail(q)) \subseteq Returned(q)
      /\ Head(q).unit \in Returned(q) \ Returned(Tail(q))
  BY ReturnsTail DEF SentOnce
<1> QED
  BY <1>1 DEF SentOnce

LEMMA SentCounted ==
  ASSUME NEW q \in Seq(Line), q # <<>>, NEW h, NEW D \in SUBSET Unit, NEW R \in SUBSET Unit, SentOnce(q, h, D, R),
         h.open \in Unit, NEW g, g.open = None
  PROVE  SentOnce(Tail(q), g, D \cup {h.open}, R)
<1>1. /\ Unique(Tail(q)) /\ Returned(Tail(q)) \subseteq Returned(q) /\ Returned(q) \subseteq Unit
  BY ReturnsTail, ReturnedUnits DEF SentOnce
<1> QED
  BY <1>1, NoneAssumption DEF SentOnce

LEMMA SentMore ==
  ASSUME NEW q \in Seq(Line), NEW h, NEW D, NEW R, SentOnce(q, h, D, R),
         NEW u \in Unit, u \in R, NEW T, T \subseteq R \ {u}
  PROVE  SentOnce(q \o LinesOf(u), h, D, T)
<1>1. LinesOf(u) \in Seq(Line) /\ Unique(LinesOf(u)) /\ Returned(LinesOf(u)) = {u}
  BY ReturnsOfLines
<1>2. u \notin Returned(q)
  BY DEF SentOnce
<1>3. Unique(q \o LinesOf(u)) /\ Returned(q \o LinesOf(u)) = Returned(q) \cup {u}
  BY <1>1, <1>2, ReturnsJoin DEF SentOnce
<1> QED
  BY <1>3 DEF SentOnce

LEMMA SentOther ==
  ASSUME NEW q \in Seq(Line), NEW h, NEW D, NEW R, SentOnce(q, h, D, R),
         NEW l \in Line, l.type # "Return", NEW T, T \subseteq R
  PROVE  SentOnce(q \o <<l>>, h, D, T)
<1>1. PICK w : w = <<l>>
  OBVIOUS
<1>2. w \in Seq(Line) /\ Unique(w) /\ Returned(w) = {}
  BY <1>1, ReturnsOfOne
<1>3. Unique(q) /\ Returned(q) \cap Returned(w) = {}
  BY <1>2 DEF SentOnce
<1>4. Unique(q \o w) /\ Returned(q \o w) = Returned(q) \cup Returned(w)
  BY <1>2, <1>3, ReturnsJoin
<1>5. Unique(q \o <<l>>) /\ Returned(q \o <<l>>) = Returned(q)
  BY <1>1, <1>2, <1>4
<1> QED
  BY <1>5 DEF SentOnce

LEMMA SentNothing ==
  ASSUME NEW h, h.open = None, NEW D \in SUBSET Unit, NEW R \in SUBSET Unit, R \cap D = {}
  PROVE  SentOnce(<<>>, h, D, R)
<1>1. Returns(<<>>) = {}
  BY DEF Returns
<1> QED
  BY <1>1, NoneAssumption DEF SentOnce, Unique, Returned

-----------------------------------------------------------------------------
(* What is counted. *)

LEMMA SessionFinite ==
  ASSUME NEW X \in SUBSET Session
  PROVE  IsFiniteSet(X) /\ Cardinality(X) \in Nat
<1>1. IsFiniteSet(Session)
  <2>1. MaxSession \in Int /\ 1 \in Int
    BY SessionAssumption
  <2> QED
    BY <2>1, FS_Interval DEF Session
<1> QED
  BY <1>1, FS_Subset, FS_CardinalityType

LEMMA OneInserted ==
  ASSUME NEW X \in SUBSET Session, NEW n \in Session
  PROVE  /\ Cardinality(X \cup {n}) <= Cardinality(X) + 1
         /\ n \notin X => Cardinality(X \cup {n}) = Cardinality(X) + 1
BY SessionFinite, FS_AddElement

LEMMA CountSame ==
  ASSUME TypeOK, NEW F \in SUBSET Session, NEW C \in [Unit -> SUBSET Session], CountOf(F, C),
         Issued \subseteq Issued', counted' = counted, trouble' = trouble \/ Trouble
  PROVE  CountOf(F, C)'
<1>1. trouble \in Nat /\ trouble' \in Nat /\ trouble' >= trouble
  BY DEF TypeOK, Trouble
<1>2. Cardinality(F) <= trouble'
  BY <1>1, SessionFinite DEF CountOf
<1> QED
  BY <1>2 DEF CountOf

LEMMA CountFailed ==
  ASSUME TypeOK, NEW F \in SUBSET Session, NEW C \in [Unit -> SUBSET Session], CountOf(F, C),
         Issued \subseteq Issued', counted' = counted, Trouble, NEW n \in Session
  PROVE  CountOf(F \cup {n}, C)'
<1>1. trouble \in Nat /\ trouble' = trouble + 1
  BY DEF TypeOK, Trouble
<1>2. Cardinality(F \cup {n}) <= trouble'
  <2>1. Cardinality(F) \in Nat /\ Cardinality(F \cup {n}) \in Nat
    BY SessionFinite
  <2> QED
    BY <1>1, <2>1, OneInserted DEF CountOf
<1> QED
  BY <1>2 DEF CountOf

-----------------------------------------------------------------------------
(* One session against the others. *)

(* Session m as it stands, with the units D that it counted and the units R *)
(* still to be sent, and after a step of the server.                        *)
Sides(C, m, D, R) == D = CountedBy(C, m) /\ R = IF m = session THEN Rest ELSE {}

View(C, m, q, a, h, l, D, R) ==
  Sides(C, m, D, R) /\ q = c2s[m] /\ a = s2c[m] /\ h = srv[m] /\ l = link[m]

After(m, q, a, h, l) ==
  /\ c2s' = [c2s EXCEPT ![m] = q] /\ s2c' = [s2c EXCEPT ![m] = a]
  /\ srv' = [srv EXCEPT ![m] = h] /\ link' = [link EXCEPT ![m] = l]

(* A session whose helper thread reads.                                     *)
Ready(F, m, q, a, h, l, D, R) ==
  /\ q \in Seq(Line) /\ a \in Seq(Answer) /\ h \in Helper /\ l \in BOOLEAN
  /\ D \in SUBSET Unit /\ R \in SUBSET Unit
  /\ m <= session /\ SentOnce(q, h, D, R) /\ h.pc = "reading"
  /\ m \notin F => m = session /\ Active /\ l = TRUE /\ InStep(q, a, h)

LEMMA IsMember == ASSUME NEW n, NEW S PROVE \E f \in BOOLEAN : f <=> (n \in S)
<1>1. CASE n \in S
  BY <1>1
<1>2. CASE n \notin S
  BY <1>2
<1> QED
  BY <1>1, <1>2

LEMMA SessionSame ==
  ASSUME UNCHANGED clientVars, NEW n, NEW q, NEW a, NEW h, NEW l, NEW D, NEW f \in BOOLEAN, SessionOf(n, q, a, h, l, D, f)
  PROVE  SessionOf(n, q, a, h, l, D, f)'
<1>1. UNCHANGED <<cpc, mem, todo, file, session>>
  BY DEF clientVars
<1>2. Rest' = Rest /\ (Active' <=> Active) /\ (Complete(h, D)' <=> Complete(h, D))
  BY <1>1 DEF Rest, Active, Complete, Left
<1>3. InStep(q, a, h)' <=> InStep(q, a, h)
  BY <1>1 DEF InStep
<1> QED
  BY <1>1, <1>2, <1>3 DEF SessionOf

LEMMA FailedSession ==
  ASSUME TypeOK, NEW n \in Session, n <= session, NEW q, NEW a, NEW h, NEW l, NEW D,
         h.pc = "closed" => q = <<>>,
         SentOnce(q, h, D, IF n = session THEN Rest ELSE {})
  PROVE  SessionOf(n, q, a, h, l, D, TRUE)
<1>1. ~(n > session)
  BY SessionAssumption DEF TypeOK, Session
<1> QED
  BY <1>1 DEF SessionOf

(* While the helper thread reads, a session without a failure is in step.   *)
LEMMA ReadingSession ==
  ASSUME TypeOK, NEW n \in Session, NEW q, NEW a, NEW h, NEW l, NEW D, NEW f \in BOOLEAN,
         SessionOf(n, q, a, h, l, D, f), h.pc = "reading"
  PROVE  /\ n <= session
         /\ SentOnce(q, h, D, IF n = session THEN Rest ELSE {})
         /\ ~f => n = session /\ Active /\ l /\ InStep(q, a, h)
<1>1. n <= session
  BY SessionAssumption DEF TypeOK, Session, SessionOf
<1>2. ~Complete(h, D)
  BY DEF Complete
<1> QED
  BY <1>1, <1>2 DEF SessionOf

LEMMA InStepHead ==
  ASSUME NEW q \in Seq(Line), q # <<>>, NEW a, NEW h, Active, InStep(q, a, h)
  PROVE  /\ Head(q).type \in {"Return", "Factor", "End"} =>
              cpc = "waiting" /\ a = <<>> /\ UnderWay(q, h, Head(todo))
         /\ Head(q).type = "EndOfReturn" => cpc = "draining"
<1>1. 1 \in DOMAIN q /\ Head(q) = q[1]
  OBVIOUS
<1>2. cpc = "returning" => Head(q).type = "Abandon"
  BY <1>1 DEF InStep
<1>3. cpc = "draining" => Head(q).type \in {"Abandon", "EndOfReturn"}
  BY <1>1 DEF InStep
<1>4. cpc = "waiting" => a = <<>> /\ UnderWay(q, h, Head(todo))
  BY DEF InStep
<1>5. cpc = "waiting" => Head(q).type # "EndOfReturn"
  BY <1>4, UnderWayHead
<1> QED
  BY <1>2, <1>3, <1>4, <1>5 DEF Active

LEMMA OneSession ==
  ASSUME TypeOK, UNCHANGED clientVars, NEW m \in Session,
         NEW F \in SUBSET Session, NEW C \in [Unit -> SUBSET Session], SessionsOf(F, C),
         NEW G \in SUBSET Session, NEW E \in [Unit -> SUBSET Session], CountOf(G, E)',
         \A n \in Session : n # m => (n \in G <=> n \in F) /\ CountedBy(E, n) = CountedBy(C, n),
         NEW q, NEW a, NEW h, NEW l,
         After(m, q, a, h, l),
         SessionOf(m, q, a, h, l, CountedBy(E, m), m \in G)
  PROVE  Once'
<1>1. /\ c2s'[m] = q /\ s2c'[m] = a /\ srv'[m] = h /\ link'[m] = l
      /\ \A n \in Session : n # m => /\ c2s'[n] = c2s[n] /\ s2c'[n] = s2c[n]
                                     /\ srv'[n] = srv[n] /\ link'[n] = link[n]
  BY DEF TypeOK, After
<1>2. ASSUME NEW n \in Session
      PROVE  SessionOf(n, c2s[n], s2c[n], srv[n], link[n], CountedBy(E, n), n \in G)'
  <2>1. PICK q1, a1, h1, l1, D1 : /\ q1 = c2s'[n] /\ a1 = s2c'[n] /\ h1 = srv'[n] /\ l1 = link'[n]
                                  /\ D1 = CountedBy(E, n)
    OBVIOUS
  <2>2. PICK f \in BOOLEAN : f <=> (n \in G)
    BY IsMember
  <2>3. SessionOf(n, q1, a1, h1, l1, D1, f)
    <3>1. CASE n = m
      BY <1>1, <2>1, <2>2, <3>1 DEF SessionOf
    <3>2. CASE n # m
      <4>1. SessionOf(n, c2s[n], s2c[n], srv[n], link[n], CountedBy(C, n), n \in F)
        BY DEF SessionsOf
      <4>2. (f <=> n \in F) /\ D1 = CountedBy(C, n)
        BY <2>1, <2>2, <3>2
      <4>3. /\ q1 = c2s[n] /\ a1 = s2c[n] /\ h1 = srv[n] /\ l1 = link[n]
        BY <1>1, <2>1, <3>2
      <4> QED
        BY <4>1, <4>2, <4>3 DEF SessionOf
    <3> QED
      BY <3>1, <3>2
  <2>4. SessionOf(n, q1, a1, h1, l1, D1, f)'
    BY <2>3, SessionSame
  <2> QED
    BY <2>1, <2>2, <2>4 DEF SessionOf
<1>3. SessionsOf(G, E)'
  BY <1>2 DEF SessionsOf
<1> QED
  BY <1>3 DEF Once

(* A server step in a session that has a failure, then or before.           *)
LEMMA ServerFails ==
  ASSUME TypeOK, UNCHANGED <<clientVars, counted>>, NEW m \in Session, m <= session,
         NEW F \in SUBSET Session, NEW C \in [Unit -> SUBSET Session], CountOf(F, C), SessionsOf(F, C),
         NEW q, NEW a, NEW h, NEW l, NEW D, NEW R, Sides(C, m, D, R),
         After(m, q, a, h, l),
         h.pc = "closed" => q = <<>>,
         SentOnce(q, h, D, R),
         \/ Trouble
         \/ m \in F /\ trouble' = trouble
  PROVE  Once'
<1>1. Issued' = Issued
  BY IssuedSame DEF clientVars
<1>2. PICK G \in SUBSET Session : G = F \cup {m}
  OBVIOUS
<1>3. CountOf(G, C)'
  <2>1. CASE Trouble
    BY <1>1, <1>2, <2>1, CountFailed
  <2>2. CASE m \in F /\ trouble' = trouble
    <3>1. G = F
      BY <1>2, <2>2
    <3> QED
      BY <1>1, <2>2, <3>1, CountSame
  <2> QED
    BY <2>1, <2>2
<1>4. SessionOf(m, q, a, h, l, CountedBy(C, m), TRUE)
  <2>1. SentOnce(q, h, CountedBy(C, m), IF m = session THEN Rest ELSE {})
    BY DEF Sides
  <2> QED
    BY <2>1, FailedSession
<1>5. SessionOf(m, q, a, h, l, CountedBy(C, m), m \in G)
  <2>1. (m \in G) = TRUE
    BY <1>2
  <2> QED
    BY <1>4, <2>1
<1>6. \A n \in Session : n # m => (n \in G <=> n \in F)
  BY <1>2
<1> QED
  BY <1>3, <1>5, <1>6, OneSession

LEMMA ServerKeeps ==
  ASSUME TypeOK, UNCHANGED <<clientVars, counted>>, trouble' = trouble, NEW m \in Session,
         NEW F \in SUBSET Session, NEW C \in [Unit -> SUBSET Session], CountOf(F, C), SessionsOf(F, C),
         NEW q, NEW a, NEW h, NEW l,
         After(m, q, a, h, l),
         SessionOf(m, q, a, h, l, CountedBy(C, m), m \in F)
  PROVE  Once'
<1>1. Issued' = Issued
  BY IssuedSame DEF clientVars
<1>2. CountOf(F, C)'
  BY <1>1, CountSame
<1> QED
  BY <1>2, OneSession

LEMMA InStepSession ==
  ASSUME TypeOK, session \in Session, NEW q, NEW a, NEW h, NEW D, Active,
         h.pc = "closed" => q = <<>>, SentOnce(q, h, D, Rest), InStep(q, a, h)
  PROVE  SessionOf(session, q, a, h, TRUE, D, FALSE)
<1>1. ~(session > session)
  BY SessionAssumption DEF TypeOK
<1> QED
  BY <1>1 DEF SessionOf

-----------------------------------------------------------------------------
(* Steps of the server. *)

LEMMA RestUnits == ASSUME TypeOK PROVE Rest \subseteq Unit
<1>1. todo \in Seq(Unit) /\ UnitsOf(todo) \subseteq Unit
  BY ElementsIn DEF TypeOK
<1>2. UnitsOf(Tail(todo)) \subseteq Unit
  <2>1. CASE todo = <<>>
    <3>1. UnitsOf(Tail(<<>>)) = {}
      BY DEF UnitsOf
    <3> QED
      BY <2>1, <3>1
  <2>2. CASE todo # <<>>
    <3>1. UnitsOf(todo) = {Head(todo)} \cup UnitsOf(Tail(todo))
      BY <1>1, <2>2, ElementsHead
    <3> QED
      BY <1>1, <3>1
  <2> QED
    BY <2>1, <2>2
<1> QED
  BY <1>1, <1>2 DEF Rest

LEMMA ServerSide ==
  ASSUME TypeOK, NEW m \in Session,
         NEW F \in SUBSET Session, NEW C \in [Unit -> SUBSET Session], SessionsOf(F, C),
         srv[m].pc = "reading",
         NEW q, NEW a, NEW h, NEW l, NEW D, NEW R,
         View(C, m, q, a, h, l, D, R)
  PROVE  Ready(F, m, q, a, h, l, D, R)
<1>0. /\ q = c2s[m] /\ a = s2c[m] /\ h = srv[m] /\ l = link[m]
      /\ D = CountedBy(C, m) /\ R = IF m = session THEN Rest ELSE {}
  BY DEF View, Sides
<1>1. q \in Seq(Line) /\ a \in Seq(Answer) /\ h \in Helper /\ l \in BOOLEAN /\ D \in SUBSET Unit
  BY <1>0 DEF TypeOK, CountedBy
<1>2. R \in SUBSET Unit
  BY <1>0, RestUnits
<1>3. SessionOf(m, q, a, h, l, D, m \in F)
  BY <1>0 DEF SessionsOf
<1>4. PICK f \in BOOLEAN : f <=> (m \in F)
  BY IsMember
<1>5. SessionOf(m, q, a, h, l, D, f)
  BY <1>3, <1>4 DEF SessionOf
<1>6. /\ m <= session
      /\ SentOnce(q, h, D, IF m = session THEN Rest ELSE {})
      /\ ~f => m = session /\ Active /\ l /\ InStep(q, a, h)
  BY <1>0, <1>5, ReadingSession
<1> QED
  BY <1>0, <1>1, <1>2, <1>4, <1>6 DEF Ready

(* The session is in step, or had its failure before.                       *)
LEMMA ServerInStep ==
  ASSUME TypeOK, UNCHANGED <<clientVars, counted>>, trouble' = trouble, NEW m \in Session, m <= session,
         NEW F \in SUBSET Session, NEW C \in [Unit -> SUBSET Session], CountOf(F, C), SessionsOf(F, C),
         NEW q, NEW a, NEW h, NEW l, NEW D, NEW R, Sides(C, m, D, R),
         After(m, q, a, h, l),
         h.pc = "closed" => q = <<>>,
         SentOnce(q, h, D, R),
         m \notin F => m = session /\ Active /\ l = TRUE /\ InStep(q, a, h)
  PROVE  Once'
<1>1. CASE m \in F
  BY <1>1, ServerFails
<1>2. CASE m \notin F
  <2>1. session \in Session /\ m = session /\ SentOnce(q, h, CountedBy(C, m), Rest)
    BY <1>2 DEF Sides
  <2>2. SessionOf(session, q, a, h, TRUE, CountedBy(C, m), FALSE)
    BY <1>2, <2>1, InStepSession
  <2>3. SessionOf(m, q, a, h, l, CountedBy(C, m), m \in F)
    BY <1>2, <2>1, <2>2 DEF SessionOf
  <2> QED
    BY <2>3, ServerKeeps
<1> QED
  BY <1>1, <1>2

(* The unit of a line in step is not refused.                               *)
LEMMA ReceiveReturnOnce ==
  ASSUME IInv, Issued \cap Refused = {}, NEW m \in Session,
         NEW F \in SUBSET Session, NEW C \in [Unit -> SUBSET Session], CountOf(F, C), SessionsOf(F, C),
         ReceiveReturn(m)
  PROVE  Once'
<1>0. TypeOK /\ NetInv /\ srv[m].pc = "reading" /\ UNCHANGED <<clientVars, counted>>
  BY DEF IInv, ReceiveReturn, Reading
<1>1. PICK q, a, h, l, D, R : View(C, m, q, a, h, l, D, R)
  BY DEF View, Sides
<1>2. Sides(C, m, D, R) /\ q = c2s[m] /\ a = s2c[m] /\ h = srv[m] /\ l = link[m]
  BY <1>1 DEF View
<1>3. Ready(F, m, q, a, h, l, D, R)
  BY <1>0, <1>1, ServerSide
<1>4. /\ q \in Seq(Line) /\ a \in Seq(Answer) /\ h \in Helper /\ l \in BOOLEAN
      /\ D \in SUBSET Unit /\ R \in SUBSET Unit
      /\ m <= session /\ SentOnce(q, h, D, R) /\ h.pc = "reading"
      /\ m \notin F => m = session /\ Active /\ l = TRUE /\ InStep(q, a, h)
  BY <1>3 DEF Ready
<1>5. q # <<>> /\ Head(q).type = "Return"
  BY <1>2 DEF ReceiveReturn, Reading
<1>6. PICK u : u = Head(q).unit
  OBVIOUS
<1>7. u \notin Refused
  <2>1. Head(q) \in UnitsOf(q)
    BY <1>4, <1>5, ElementsHead
  <2>2. GoodLine(Head(q))
    BY <1>0, <1>2, <2>1 DEF NetInv
  <2> QED
    BY <1>5, <1>6, <2>2 DEF GoodLine
<1>8. PICK ok \in BOOLEAN :
        /\ srv' = [srv EXCEPT ![m] = [pc |-> "reading", open |-> u, success |-> ok,
                                     good |-> IF ok THEN u ELSE None]]
        /\ c2s' = [c2s EXCEPT ![m] = Tail(q)] /\ s2c' = s2c /\ link' = link
        /\ (ok /\ trouble' = trouble) \/ Trouble
  <2>1. c2s' = [c2s EXCEPT ![m] = Tail(q)]
    BY <1>2 DEF ReceiveReturn, Consume
  <2> QED
    BY <1>2, <1>6, <1>7, <2>1 DEF ReceiveReturn
<1>9. PICK g : /\ g = [pc |-> "reading", open |-> u, success |-> ok, good |-> IF ok THEN u ELSE None]
               /\ srv' = [srv EXCEPT ![m] = g]
  BY <1>8
<1>10. g.pc = "reading" /\ g.open = u /\ g.success = ok /\ (ok => g.good = u)
  BY <1>9
<1>11. SentOnce(Tail(q), g, D, R)
  BY <1>4, <1>5, <1>6, <1>10, SentBegun
<1>12. After(m, Tail(q), a, g, l) /\ (g.pc = "closed" => Tail(q) = <<>>)
  <2>1. s2c' = [s2c EXCEPT ![m] = a] /\ link' = [link EXCEPT ![m] = l]
    BY <1>0, <1>2, <1>8 DEF TypeOK
  <2> QED
    BY <1>8, <1>9, <1>10, <2>1 DEF After
<1>13. CASE ok /\ trouble' = trouble
  <2>1. m \notin F => InStep(Tail(q), a, g)
    <3> SUFFICES ASSUME m \notin F PROVE InStep(Tail(q), a, g)
      OBVIOUS
    <3>1. PICK v : v = Head(todo)
      OBVIOUS
    <3>2. Active /\ InStep(q, a, h) /\ cpc = "waiting" /\ a = <<>> /\ UnderWay(q, h, v)
      BY <1>4, <1>5, <3>1, InStepHead
    <3>3. u = v /\ Tail(q) # <<>>
      BY <1>4, <1>5, <1>6, <3>2, UnderWayHead
    <3>4. UnderWay(Tail(q), g, v)
      BY <1>4, <1>5, <1>10, <1>13, <3>2, <3>3, UnderWayTail
    <3> QED
      BY <1>10, <3>1, <3>2, <3>3, <3>4 DEF InStep
  <2> QED
    BY <1>0, <1>2, <1>4, <1>11, <1>12, <1>13, <2>1, ServerInStep
<1>14. CASE Trouble
  BY <1>0, <1>2, <1>4, <1>11, <1>12, <1>14, ServerFails
<1> QED
  BY <1>8, <1>13, <1>14

LEMMA ReceiveFactorOnce ==
  ASSUME IInv, NEW m \in Session,
         NEW F \in SUBSET Session, NEW C \in [Unit -> SUBSET Session], CountOf(F, C), SessionsOf(F, C),
         ReceiveFactor(m) \/ ReceiveAbandon(m)
  PROVE  Once'
<1>0. TypeOK /\ srv[m].pc = "reading" /\ UNCHANGED <<clientVars, counted, s2c, srv, link, trouble>>
  BY DEF IInv, ReceiveFactor, ReceiveAbandon, Reading
<1>1. PICK q, a, h, l, D, R : View(C, m, q, a, h, l, D, R)
  BY DEF View, Sides
<1>2. Sides(C, m, D, R) /\ q = c2s[m] /\ a = s2c[m] /\ h = srv[m] /\ l = link[m]
  BY <1>1 DEF View
<1>3. Ready(F, m, q, a, h, l, D, R)
  BY <1>0, <1>1, ServerSide
<1>4. /\ q \in Seq(Line) /\ a \in Seq(Answer) /\ h \in Helper /\ l \in BOOLEAN
      /\ D \in SUBSET Unit /\ R \in SUBSET Unit
      /\ m <= session /\ SentOnce(q, h, D, R) /\ h.pc = "reading"
      /\ m \notin F => m = session /\ Active /\ l = TRUE /\ InStep(q, a, h)
  BY <1>3 DEF Ready
<1>5. q # <<>> /\ Head(q).type \in {"Factor", "Abandon"} /\ c2s' = [c2s EXCEPT ![m] = Tail(q)]
  BY <1>2 DEF ReceiveFactor, ReceiveAbandon, Reading, Consume
<1>6. SentOnce(Tail(q), h, D, R)
  BY <1>4, <1>5, SentTail
<1>7. After(m, Tail(q), a, h, l) /\ (h.pc = "closed" => Tail(q) = <<>>)
  <2>1. /\ s2c' = [s2c EXCEPT ![m] = a] /\ srv' = [srv EXCEPT ![m] = h] /\ link' = [link EXCEPT ![m] = l]
    BY <1>0, <1>2 DEF TypeOK
  <2> QED
    BY <1>4, <1>5, <2>1 DEF After
<1>8. m \notin F => InStep(Tail(q), a, h)
  <2> SUFFICES ASSUME m \notin F PROVE InStep(Tail(q), a, h)
    OBVIOUS
  <2>1. Active /\ InStep(q, a, h)
    BY <1>4
  <2>2. CASE cpc = "waiting"
    <3>1. PICK v : v = Head(todo)
      OBVIOUS
    <3>2. a = <<>> /\ UnderWay(q, h, v)
      BY <1>5, <2>1, <2>2, <3>1 DEF InStep
    <3>3. Tail(q) # <<>> /\ (Head(q).type = "Factor" => h.success /\ h.good = v)
      BY <1>4, <1>5, <3>2, UnderWayHead
    <3>4. UnderWay(Tail(q), h, v)
      BY <1>4, <1>5, <3>2, <3>3, UnderWayTail
    <3> QED
      BY <2>1, <2>2, <3>1, <3>2, <3>3, <3>4 DEF InStep
  <2>3. CASE cpc # "waiting"
    <3>1. PICK x : x = Tail(q)
      OBVIOUS
    <3>2. \A i \in DOMAIN x : \E j \in DOMAIN q : x[i] = q[j]
      <4>1. DOMAIN Tail(q) = 1..(Len(q) - 1) /\ \A i \in 1..(Len(q) - 1) : Tail(q)[i] = q[i + 1] /\ i + 1 \in DOMAIN q
        BY <1>4, <1>5
      <4> QED
        BY <3>1, <4>1
    <3> QED
      BY <2>1, <2>3, <3>1, <3>2 DEF InStep
  <2> QED
    BY <2>2, <2>3
<1> QED
  BY <1>0, <1>2, <1>4, <1>6, <1>7, <1>8, ServerInStep

(* In step, every line is understood.                                       *)
LEMMA NotUnderstoodOnce ==
  ASSUME IInv, NEW m \in Session,
         NEW F \in SUBSET Session, NEW C \in [Unit -> SUBSET Session], CountOf(F, C), SessionsOf(F, C),
         NotUnderstood(m)
  PROVE  Once'
<1>0. TypeOK /\ srv[m].pc = "reading" /\ UNCHANGED <<clientVars, counted, link, trouble>>
  BY DEF IInv, NotUnderstood, Reading
<1>1. PICK q, a, h, l, D, R : View(C, m, q, a, h, l, D, R)
  BY DEF View, Sides
<1>2. Sides(C, m, D, R) /\ q = c2s[m] /\ a = s2c[m] /\ h = srv[m] /\ l = link[m]
  BY <1>1 DEF View
<1>3. Ready(F, m, q, a, h, l, D, R)
  BY <1>0, <1>1, ServerSide
<1>4. /\ q \in Seq(Line) /\ a \in Seq(Answer) /\ h \in Helper /\ l \in BOOLEAN
      /\ D \in SUBSET Unit /\ R \in SUBSET Unit
      /\ m <= session /\ SentOnce(q, h, D, R) /\ h.pc = "reading"
      /\ m \notin F => m = session /\ Active /\ l = TRUE /\ InStep(q, a, h)
  BY <1>3 DEF Ready
<1>5. /\ q # <<>> /\ c2s' = [c2s EXCEPT ![m] = Tail(q)]
      /\ \/ Head(q).type = "Factor" /\ ~h.success
         \/ Head(q).type = "End" /\ Head(q).unit # h.good
  BY <1>2 DEF NotUnderstood, Reading, Consume
<1>6. m \in F
  <2> SUFFICES ASSUME m \notin F PROVE FALSE
    OBVIOUS
  <2>1. PICK v : v = Head(todo)
    OBVIOUS
  <2>2. UnderWay(q, h, v)
    BY <1>4, <1>5, <2>1, InStepHead
  <2>3. /\ Head(q).type # "Abandon" => Head(q).unit = v
        /\ Head(q).type \in {"Factor", "End"} => h.success /\ h.good = v
    BY <1>4, <1>5, <2>2, UnderWayHead
  <2> QED
    BY <1>5, <2>3
<1>7. PICK g : g = [h EXCEPT !.success = FALSE]
  OBVIOUS
<1>8. srv' = [srv EXCEPT ![m] = g] /\ g.pc = "reading" /\ g.open = h.open
  <2>1. srv' = [srv EXCEPT ![m].success = FALSE]
    BY DEF NotUnderstood
  <2> QED
    BY <1>2, <1>4, <1>7, <2>1 DEF Helper
<1>9. SentOnce(Tail(q), g, D, R)
  BY <1>4, <1>5, <1>8, SentTail
<1>10. PICK b : s2c' = [s2c EXCEPT ![m] = b]
  <2>1. CASE link[m]
    BY <2>1 DEF NotUnderstood, ToClient
  <2>2. CASE ~link[m]
    <3>1. s2c' = s2c
      BY <2>2 DEF NotUnderstood, ToClient
    <3>2. s2c' = [s2c EXCEPT ![m] = s2c[m]]
      BY <1>0, <3>1 DEF TypeOK
    <3> QED
      BY <3>2
  <2> QED
    BY <2>1, <2>2
<1>11. After(m, Tail(q), b, g, l) /\ (g.pc = "closed" => Tail(q) = <<>>)
  <2>1. link' = [link EXCEPT ![m] = l]
    BY <1>0, <1>2 DEF TypeOK
  <2> QED
    BY <1>5, <1>8, <1>10, <2>1 DEF After
<1> QED
  BY <1>0, <1>2, <1>4, <1>6, <1>9, <1>11, ServerFails

(* In step, the helper thread is never left without a line.                 *)
LEMMA FinishOnce ==
  ASSUME IInv, NEW m \in Session,
         NEW F \in SUBSET Session, NEW C \in [Unit -> SUBSET Session], CountOf(F, C), SessionsOf(F, C),
         Finish(m)
  PROVE  Once'
<1>0. TypeOK /\ srv[m].pc = "reading" /\ UNCHANGED <<clientVars, counted, link>>
  BY DEF IInv, Finish, Reading
<1>1. PICK q, a, h, l, D, R : View(C, m, q, a, h, l, D, R)
  BY DEF View, Sides
<1>2. Sides(C, m, D, R) /\ q = c2s[m] /\ a = s2c[m] /\ h = srv[m] /\ l = link[m]
  BY <1>1 DEF View
<1>3. Ready(F, m, q, a, h, l, D, R)
  BY <1>0, <1>1, ServerSide
<1>4. /\ q \in Seq(Line) /\ a \in Seq(Answer) /\ h \in Helper /\ l \in BOOLEAN
      /\ D \in SUBSET Unit /\ R \in SUBSET Unit
      /\ m <= session /\ SentOnce(q, h, D, R) /\ h.pc = "reading"
      /\ m \notin F => m = session /\ Active /\ l = TRUE /\ InStep(q, a, h)
  BY <1>3 DEF Ready
<1>5. PICK g : g = [FreshHelper EXCEPT !.pc = "closed"]
  OBVIOUS
<1>6. g.pc = "closed" /\ g.open = None
  BY <1>5 DEF FreshHelper
<1>7. SentOnce(<<>>, g, D, R)
  <2>1. R \cap D = {}
    BY <1>4 DEF SentOnce
  <2> QED
    BY <1>4, <1>6, <2>1, SentNothing
<1>8. PICK b : After(m, <<>>, b, g, l)
  <2>1. \E b : s2c' = [s2c EXCEPT ![m] = b]
    <3>1. CASE link[m]
      BY <3>1 DEF Finish, ToClient
    <3>2. CASE ~link[m]
      <4>1. s2c' = s2c
        BY <3>2 DEF Finish, ToClient
      <4>2. s2c' = [s2c EXCEPT ![m] = s2c[m]]
        BY <1>0, <4>1 DEF TypeOK
      <4> QED
        BY <4>2
    <3> QED
      BY <3>1, <3>2
  <2>2. link' = [link EXCEPT ![m] = l]
    BY <1>0, <1>2 DEF TypeOK
  <2>3. srv' = [srv EXCEPT ![m] = g] /\ c2s' = [c2s EXCEPT ![m] = <<>>]
    BY <1>5 DEF Finish
  <2> QED
    BY <2>1, <2>2, <2>3 DEF After
<1>9. CASE Trouble
  BY <1>0, <1>2, <1>4, <1>7, <1>8, <1>9, ServerFails
<1>10. CASE q # <<>> /\ Head(q).type = "EndOfReturn" /\ trouble' = trouble
  <2>1. m \notin F => InStep(<<>>, b, g)
    <3> SUFFICES ASSUME m \notin F PROVE InStep(<<>>, b, g)
      OBVIOUS
    <3>1. Active /\ InStep(q, a, h) /\ cpc = "draining"
      BY <1>4, <1>10, InStepHead
    <3> QED
      BY <1>6, <3>1 DEF InStep
  <2> QED
    BY <1>0, <1>2, <1>4, <1>7, <1>8, <1>10, <2>1, ServerInStep
<1>11. CASE q = <<>> /\ Idle(m) /\ trouble' = trouble
  <2>1. m \in F
    <3> SUFFICES ASSUME m \notin F PROVE FALSE
      OBVIOUS
    <3>1. cpc = "waiting" /\ a = <<>> /\ InStep(q, a, h)
      BY <1>2, <1>4, <1>11 DEF Idle
    <3>2. a = <<[type |-> "Accepted", unit |-> Head(todo)]>>
      BY <1>11, <3>1 DEF InStep
    <3> QED
      BY <3>1, <3>2
  <2> QED
    BY <1>0, <1>2, <1>4, <1>7, <1>8, <1>11, <2>1, ServerFails
<1>12. \/ q # <<>> /\ Head(q).type = "EndOfReturn" /\ trouble' = trouble
       \/ q = <<>> /\ Idle(m) /\ trouble' = trouble
       \/ Trouble
  BY <1>2 DEF Finish, Reading
<1> QED
  BY <1>9, <1>10, <1>11, <1>12

(* Another session that counted the unit, and had no failure, is over and   *)
(* has left nothing of it for this one.                                     *)
LEMMA NotCountedBefore ==
  ASSUME TypeOK, NEW m \in Session, m = session, Active,
         NEW F \in SUBSET Session, NEW C \in [Unit -> SUBSET Session], SessionsOf(F, C),
         NEW u \in Unit, u \in UnitsOf(todo), NEW n \in Session, n # m, n \notin F
  PROVE  n \notin C[u]
<1> SUFFICES ASSUME n \in C[u] PROVE FALSE
  OBVIOUS
<1>1. PICK D : D = CountedBy(C, n)
  OBVIOUS
<1>2. SessionOf(n, c2s[n], s2c[n], srv[n], link[n], D, n \in F)
  BY <1>1 DEF SessionsOf
<1>3. u \in D
  BY <1>1 DEF CountedBy
<1>4. n < session
  <2>1. ~(n > session)
    BY <1>2, <1>3 DEF SessionOf
  <2> QED
    BY <2>1, SessionAssumption DEF TypeOK, Session
<1>5. Complete(srv[n], D)
  BY <1>2, <1>4, SessionAssumption DEF SessionOf, TypeOK, Session
<1> QED
  BY <1>3, <1>5 DEF Complete, Left

LEMMA EndWorkOnce ==
  ASSUME IInv, NEW m \in Session,
         NEW F \in SUBSET Session, NEW C \in [Unit -> SUBSET Session], CountOf(F, C), SessionsOf(F, C),
         EndWork(m)
  PROVE  Once'
<1>0. TypeOK /\ ClientInv /\ NetInv /\ srv[m].pc = "reading" /\ UNCHANGED <<clientVars, link>>
  BY DEF IInv, EndWork, Reading
<1>1. PICK q, a, h, l, D, R : View(C, m, q, a, h, l, D, R)
  BY DEF View, Sides
<1>2. Sides(C, m, D, R) /\ q = c2s[m] /\ a = s2c[m] /\ h = srv[m] /\ l = link[m]
  BY <1>1 DEF View
<1>3. Ready(F, m, q, a, h, l, D, R)
  BY <1>0, <1>1, ServerSide
<1>4. /\ q \in Seq(Line) /\ a \in Seq(Answer) /\ h \in Helper /\ l \in BOOLEAN
      /\ D \in SUBSET Unit /\ R \in SUBSET Unit
      /\ m <= session /\ SentOnce(q, h, D, R) /\ h.pc = "reading"
      /\ m \notin F => m = session /\ Active /\ l = TRUE /\ InStep(q, a, h)
  BY <1>3 DEF Ready
<1>5. q # <<>> /\ Head(q).type = "End" /\ Head(q).unit = h.good /\ Head(q) \in Line
  BY <1>2, <1>4 DEF EndWork, Reading
<1>6. PICK u : u = h.open
  OBVIOUS
<1>7. u = Head(q).unit /\ u \in Unit /\ u \in Issued
  <2>1. Head(q).unit \in Unit /\ Head(q).unit # None
    BY <1>5, NoneAssumption DEF Line
  <2>2. u # None
    BY <1>2, <1>6 DEF EndWork
  <2>3. GoodThread(h)
    BY <1>0, <1>2 DEF NetInv
  <2> QED
    BY <1>5, <1>6, <2>1, <2>2, <2>3 DEF GoodThread
<1>8. PICK g : g = [h EXCEPT !.open = None]
  OBVIOUS
<1>9. g.pc = "reading" /\ g.open = None /\ srv' = [srv EXCEPT ![m] = g]
  <2>1. srv' = [srv EXCEPT ![m].open = None]
    BY DEF EndWork
  <2> QED
    BY <1>2, <1>4, <1>8, <2>1 DEF Helper
<1>10. c2s' = [c2s EXCEPT ![m] = Tail(q)] /\ link' = [link EXCEPT ![m] = l]
  BY <1>0, <1>2 DEF EndWork, Consume, TypeOK
<1>11. CASE Trouble /\ UNCHANGED <<s2c, counted>>
  <2>1. SentOnce(Tail(q), g, D, R)
    BY <1>4, <1>5, <1>9, SentTail
  <2>2. After(m, Tail(q), a, g, l) /\ (g.pc = "closed" => Tail(q) = <<>>)
    <3>1. s2c' = [s2c EXCEPT ![m] = a]
      BY <1>0, <1>2, <1>11 DEF TypeOK
    <3> QED
      BY <1>9, <1>10, <3>1 DEF After
  <2> QED
    BY <1>0, <1>2, <1>4, <1>11, <2>1, <2>2, ServerFails
<1>12. CASE /\ counted' = [counted EXCEPT ![u] = @ + 1] /\ trouble' = trouble
            /\ ToClient(m, <<[type |-> "Accepted", unit |-> u]>>)
  <2>1. PICK E \in [Unit -> SUBSET Session] : E = [C EXCEPT ![u] = C[u] \cup {m}]
    OBVIOUS
  <2>2. /\ E[u] = C[u] \cup {m}
        /\ \A v \in Unit : v # u => E[v] = C[v]
    BY <1>7, <2>1
  <2>3. \A n \in Session : n # m => CountedBy(E, n) = CountedBy(C, n)
    BY <2>2 DEF CountedBy
  <2>4. CountedBy(E, m) = D \cup {u}
    BY <1>2, <1>7, <2>2 DEF CountedBy, Sides
  <2>5. m \notin C[u]
    <3>1. u \notin D
      BY <1>4, <1>6 DEF SentOnce
    <3> QED
      BY <1>2, <1>7, <3>1 DEF CountedBy, Sides
  <2>6. m \notin F =>
          /\ m = session /\ Active /\ l = TRUE /\ mem = <<>> /\ cpc = "waiting" /\ a = <<>>
          /\ u = Head(todo) /\ Tail(q) = <<>>
    <3> SUFFICES ASSUME m \notin F
                 PROVE  /\ m = session /\ Active /\ l = TRUE /\ mem = <<>> /\ cpc = "waiting" /\ a = <<>>
                        /\ u = Head(todo) /\ Tail(q) = <<>>
      OBVIOUS
    <3>1. PICK v : v = Head(todo)
      OBVIOUS
    <3>2. /\ m = session /\ Active /\ l = TRUE /\ InStep(q, a, h)
      BY <1>4
    <3>3. cpc = "waiting" /\ a = <<>> /\ UnderWay(q, h, v)
      BY <1>4, <1>5, <3>1, <3>2, InStepHead
    <3>4. Head(q).unit = v /\ Tail(q) = <<>>
      BY <1>4, <1>5, <3>3, UnderWayHead
    <3> QED
      BY <1>7, <3>1, <3>2, <3>3, <3>4 DEF InStep
  <2>7. \A n1, n2 \in E[u] \ F : n1 = n2
    <3>1. CASE m \in F
      <4>1. E[u] \ F = C[u] \ F
        BY <2>2, <3>1
      <4> QED
        BY <1>7, <4>1 DEF CountOf
    <3>2. CASE m \notin F
      <4>1. u \in UnitsOf(todo) /\ m = session /\ Active
        <5>1. todo # <<>> /\ todo \in Seq(Unit)
          BY <1>0, <2>6, <3>2 DEF ClientInv, TypeOK
        <5> QED
          BY <2>6, <3>2, <5>1, ElementsHead
      <4>2. \A n \in Session : n # m /\ n \notin F => n \notin C[u]
        BY <1>0, <1>7, <4>1, NotCountedBefore
      <4>3. C[u] \subseteq Session
        BY <1>7
      <4> QED
        BY <2>2, <4>2, <4>3
    <3> QED
      BY <3>1, <3>2
  <2>8. CountOf(F, E)'
    <3>1. Issued' = Issued
      BY <1>0, IssuedSame DEF clientVars
    <3>2. Cardinality(E[u]) = Cardinality(C[u]) + 1
      <4>1. C[u] \in SUBSET Session
        BY <1>7
      <4> QED
        BY <2>2, <2>5, <4>1, OneInserted
    <3>3. counted' \in [Unit -> Nat] /\ counted'[u] = counted[u] + 1 /\ \A v \in Unit : v # u => counted'[v] = counted[v]
      BY <1>0, <1>7, <1>12 DEF TypeOK
    <3>4. \A v \in Unit : counted'[v] = Cardinality(E[v])
      BY <1>7, <2>2, <3>2, <3>3 DEF CountOf
    <3>5. \A v \in Unit \ Issued : E[v] = {}
      BY <1>7, <2>2 DEF CountOf
    <3>6. \A v \in Unit : \A n1, n2 \in E[v] \ F : n1 = n2
      BY <2>2, <2>7 DEF CountOf
    <3> QED
      BY <1>12, <3>1, <3>4, <3>5, <3>6 DEF CountOf
  <2>9. PICK b : /\ s2c' = [s2c EXCEPT ![m] = b]
                 /\ m \notin F => b = <<[type |-> "Accepted", unit |-> u]>>
    <3>1. CASE link[m]
      <4>1. PICK w : w = <<[type |-> "Accepted", unit |-> u]>>
        OBVIOUS
      <4>2. s2c' = [s2c EXCEPT ![m] = a \o w]
        BY <1>2, <1>12, <3>1, <4>1 DEF ToClient
      <4>3. a = <<>> => a \o w = w
        BY <4>1
      <4> QED
        BY <2>6, <4>1, <4>2, <4>3
    <3>2. CASE ~link[m]
      <4>1. s2c' = [s2c EXCEPT ![m] = a]
        BY <1>0, <1>2, <1>12, <3>2 DEF ToClient, TypeOK
      <4> QED
        BY <1>2, <2>6, <3>2, <4>1
    <3> QED
      BY <3>1, <3>2
  <2>10. After(m, Tail(q), b, g, l)
    BY <1>9, <1>10, <2>9 DEF After
  <2>11. SentOnce(Tail(q), g, D \cup {u}, R)
    BY <1>4, <1>5, <1>6, <1>7, <1>9, SentCounted
  <2>12. SessionOf(m, Tail(q), b, g, l, CountedBy(E, m), m \in F)
    <3>1. CASE m \in F
      <4>1. SentOnce(Tail(q), g, CountedBy(E, m), IF m = session THEN Rest ELSE {})
        BY <1>2, <2>4, <2>11 DEF Sides
      <4>2. g.pc = "closed" => Tail(q) = <<>>
        BY <1>9
      <4>3. SessionOf(m, Tail(q), b, g, l, CountedBy(E, m), TRUE)
        BY <1>0, <1>4, <4>1, <4>2, FailedSession
      <4> QED
        BY <3>1, <4>3 DEF SessionOf
    <3>2. CASE m \notin F
      <4>1. /\ m = session /\ session \in Session /\ Active /\ l = TRUE /\ mem = <<>> /\ cpc = "waiting"
            /\ u = Head(todo) /\ Tail(q) = <<>> /\ b = <<[type |-> "Accepted", unit |-> u]>>
        BY <2>6, <2>9, <3>2
      <4>2. InStep(Tail(q), b, g)
        BY <1>9, <4>1 DEF InStep
      <4>3. SentOnce(Tail(q), g, CountedBy(E, m), Rest)
        BY <1>2, <2>4, <2>11, <4>1 DEF Sides
      <4>4. g.pc = "closed" => Tail(q) = <<>>
        BY <1>9
      <4>5. SessionOf(session, Tail(q), b, g, TRUE, CountedBy(E, m), FALSE)
        BY <1>0, <4>1, <4>2, <4>3, <4>4, InStepSession
      <4> QED
        BY <3>2, <4>1, <4>5 DEF SessionOf
    <3> QED
      BY <3>1, <3>2
  <2> QED
    BY <1>0, <2>3, <2>8, <2>10, <2>12, OneSession
<1>13. CASE /\ Trouble /\ counted' = counted
            /\ ToClient(m, <<[type |-> "Accepted", unit |-> u]>>)
  <2>1. SentOnce(Tail(q), g, D, R)
    BY <1>4, <1>5, <1>9, SentTail
  <2>2. PICK b : s2c' = [s2c EXCEPT ![m] = b]
    <3>1. CASE link[m]
      BY <1>13, <3>1 DEF ToClient
    <3>2. CASE ~link[m]
      <4>1. s2c' = [s2c EXCEPT ![m] = a]
        BY <1>0, <1>2, <1>13, <3>2 DEF ToClient, TypeOK
      <4> QED
        BY <4>1
    <3> QED
      BY <3>1, <3>2
  <2>3. After(m, Tail(q), b, g, l) /\ (g.pc = "closed" => Tail(q) = <<>>)
    BY <1>9, <1>10, <2>2 DEF After
  <2>4. UNCHANGED <<clientVars, counted>> /\ Trouble
    BY <1>0, <1>13
  <2> QED
    BY <1>0, <1>2, <1>4, <2>1, <2>3, <2>4, ServerFails
<1>14. \/ Trouble /\ UNCHANGED <<s2c, counted>>
       \/ /\ counted' = [counted EXCEPT ![u] = @ + 1] /\ trouble' = trouble
          /\ ToClient(m, <<[type |-> "Accepted", unit |-> u]>>)
       \/ /\ Trouble /\ counted' = counted
          /\ ToClient(m, <<[type |-> "Accepted", unit |-> u]>>)
  BY <1>2, <1>6 DEF EndWork
<1> QED
  BY <1>11, <1>12, <1>13, <1>14

LEMMA LoseConnectionOnce ==
  ASSUME IInv, NEW m \in Session,
         NEW F \in SUBSET Session, NEW C \in [Unit -> SUBSET Session], CountOf(F, C), SessionsOf(F, C),
         LoseConnection(m)
  PROVE  Once'
<1>0. TypeOK /\ link[m] /\ UNCHANGED <<clientVars, srv, counted>> /\ Trouble
  BY DEF IInv, LoseConnection
<1>1. PICK q, a, h, l, D, R : View(C, m, q, a, h, l, D, R)
  BY DEF View, Sides
<1>2. /\ Sides(C, m, D, R) /\ q = c2s[m] /\ a = s2c[m] /\ h = srv[m] /\ l = link[m]
      /\ D = CountedBy(C, m) /\ R = IF m = session THEN Rest ELSE {}
  BY <1>1 DEF View, Sides
<1>3. /\ q \in Seq(Line) /\ m <= session /\ SentOnce(q, h, D, R) /\ (h.pc = "closed" => q = <<>>)
  <2>1. SessionOf(m, q, a, h, l, D, m \in F)
    BY <1>2 DEF SessionsOf
  <2>2. m <= session
    BY <1>0, <1>2, <2>1, SessionAssumption DEF SessionOf, TypeOK, Session
  <2> QED
    BY <1>0, <1>2, <2>1, <2>2 DEF SessionOf, TypeOK
<1>4. PICK up \in Prefixes(q), down \in Prefixes(a) :
        c2s' = [c2s EXCEPT ![m] = up] /\ s2c' = [s2c EXCEPT ![m] = down]
  BY <1>2 DEF LoseConnection
<1>5. After(m, up, down, h, FALSE)
  <2>1. srv' = [srv EXCEPT ![m] = h] /\ link' = [link EXCEPT ![m] = FALSE]
    BY <1>0, <1>2 DEF TypeOK, LoseConnection
  <2> QED
    BY <1>4, <2>1 DEF After
<1>6. up \in Seq(Line) /\ Unique(up) /\ Returned(up) \subseteq Returned(q)
  BY <1>3, <1>4, ReturnsPrefix DEF SentOnce
<1>7. SentOnce(up, h, D, R)
  BY <1>3, <1>6 DEF SentOnce
<1>8. h.pc = "closed" => up = <<>>
  <2>1. q = <<>> => up = <<>>
    <3>1. PICK i \in 0..Len(q) : up = SubSeq(q, 1, i)
      BY <1>4 DEF Prefixes
    <3>2. Len(up) = i
      BY <1>3, <3>1
    <3>3. \A s \in Seq(Line) : s = <<>> <=> Len(s) = 0
      OBVIOUS
    <3> QED
      BY <1>3, <1>6, <3>2, <3>3
  <2> QED
    BY <1>3, <2>1
<1> QED
  BY <1>0, <1>2, <1>3, <1>5, <1>7, <1>8, ServerFails

LEMMA ServerExitOnce ==
  ASSUME IInv,
         NEW F \in SUBSET Session, NEW C \in [Unit -> SUBSET Session], CountOf(F, C), SessionsOf(F, C),
         ServerExit
  PROVE  Once'
<1>0. TypeOK /\ UNCHANGED <<clientVars, s2c, counted>> /\ Trouble
  BY DEF IInv, ServerExit
<1>1. /\ \A n \in Session : c2s'[n] = <<>> /\ link'[n] = FALSE
      /\ \A n \in Session : srv'[n] = IF srv[n].pc = "reading" THEN [FreshHelper EXCEPT !.pc = "closed"] ELSE srv[n]
  BY DEF ServerExit
<1>2. session \in Session
  <2>1. PICK n \in Session : srv[n].pc = "reading"
    BY DEF ServerExit
  <2>2. SessionOf(n, c2s[n], s2c[n], srv[n], link[n], CountedBy(C, n), n \in F)
    BY DEF SessionsOf
  <2>3. n <= session
    BY <1>0, <2>1, <2>2, SessionAssumption DEF SessionOf, TypeOK, Session
  <2> QED
    BY <1>0, <2>3, SessionAssumption DEF TypeOK, Session
<1>3. PICK G \in SUBSET Session : G = F \cup {session}
  BY <1>2
<1>4. CountOf(G, C)'
  <2>1. Issued' = Issued
    BY <1>0, IssuedSame DEF clientVars
  <2> QED
    BY <1>0, <1>2, <1>3, <2>1, CountFailed
<1>5. ASSUME NEW n \in Session
      PROVE  SessionOf(n, c2s[n], s2c[n], srv[n], link[n], CountedBy(C, n), n \in G)'
  <2>1. PICK q, a, h, l, D : /\ q = c2s[n] /\ a = s2c[n] /\ h = srv[n] /\ l = link[n]
                             /\ D = CountedBy(C, n)
    OBVIOUS
  <2>2. SessionOf(n, q, a, h, l, D, n \in F)
    BY <2>1 DEF SessionsOf
  <2>3. PICK g : g = IF h.pc = "reading" THEN [FreshHelper EXCEPT !.pc = "closed"] ELSE h
    OBVIOUS
  <2>4. c2s'[n] = <<>> /\ s2c'[n] = a /\ srv'[n] = g /\ link'[n] = FALSE
    BY <1>0, <1>1, <2>1, <2>3
  <2>5. (g.open = h.open \/ g.open = None) /\ (h.pc # "reading" => g = h) /\ (h.pc = "reading" => g.pc = "closed")
    BY <2>3 DEF FreshHelper
  <2>6. PICK R : R = IF n = session THEN Rest ELSE {}
    OBVIOUS
  <2>7. SentOnce(<<>>, g, D, R)
    <3>1. Returns(<<>>) = {}
      BY DEF Returns
    <3>2. SentOnce(q, h, D, R)
      BY <2>2, <2>6 DEF SessionOf
    <3>3. D \subseteq Unit
      BY <2>1 DEF CountedBy
    <3>4. R \cap D = {} /\ h.open \notin D \cup R /\ None \notin D
      BY <3>2, <3>3, NoneAssumption DEF SentOnce
    <3>5. None \notin R
      <4>1. R \subseteq Unit
        BY <1>0, <2>6, RestUnits
      <4> QED
        BY <4>1, NoneAssumption
    <3>6. Unique(<<>>) /\ Returned(<<>>) = {}
      BY <3>1 DEF Unique, Returned
    <3> QED
      BY <2>5, <3>4, <3>5, <3>6 DEF SentOnce
  <2>8. PICK f \in BOOLEAN : f <=> (n \in G)
    BY IsMember
  <2>9. SessionOf(n, <<>>, a, g, FALSE, D, f)
    <3>1. SentOnce(<<>>, g, D, IF n = session THEN Rest ELSE {})
      BY <2>6, <2>7
    <3>2. n > session => a = <<>> /\ h.pc = "none" /\ n \notin F /\ D = {}
      BY <2>2 DEF SessionOf
    <3>3. n > session => n \notin G
      BY <1>0, <1>3, <3>2, SessionAssumption DEF TypeOK
    <3>4. ~f => n \notin F /\ n # session
      BY <1>3, <2>8
    <3>5. ~f /\ n <= session => Complete(h, D)
      BY <2>2, <3>4 DEF SessionOf
    <3>6. ~f /\ n <= session => Complete(g, D)
      BY <2>5, <3>5 DEF Complete
    <3> QED
      BY <2>5, <2>8, <3>1, <3>2, <3>3, <3>4, <3>6 DEF SessionOf
  <2>10. SessionOf(n, <<>>, a, g, FALSE, D, f)'
    BY <1>0, <2>9, SessionSame
  <2> QED
    BY <2>1, <2>4, <2>8, <2>10 DEF SessionOf
<1> QED
  BY <1>4, <1>5 DEF Once, SessionsOf

-----------------------------------------------------------------------------
(* Steps of the client. *)

(* The client's session, open or over.                                      *)
Standing(F, q, a, h, l, D, R) ==
  /\ q \in Seq(Line) /\ a \in Seq(Answer) /\ h \in Helper /\ l \in BOOLEAN
  /\ D \in SUBSET Unit /\ R \in SUBSET Unit /\ R = Rest
  /\ SentOnce(q, h, D, R) /\ (h.pc = "closed" => q = <<>>)
  /\ session \notin F => IF Active THEN l = TRUE /\ InStep(q, a, h) ELSE Complete(h, D)

Goes(q, a, l, R) ==
  /\ session' = session /\ srv' = srv /\ Rest' = R /\ Left' \subseteq Left
  /\ c2s' = [c2s EXCEPT ![session] = q] /\ s2c' = [s2c EXCEPT ![session] = a]
  /\ link' = [link EXCEPT ![session] = l]

LEMMA ClientSide ==
  ASSUME TypeOK, session \in Session,
         NEW F \in SUBSET Session, NEW C \in [Unit -> SUBSET Session], SessionsOf(F, C),
         NEW q, NEW a, NEW h, NEW l, NEW D, NEW R, View(C, session, q, a, h, l, D, R)
  PROVE  Standing(F, q, a, h, l, D, R)
<1>1. q = c2s[session] /\ a = s2c[session] /\ h = srv[session] /\ l = link[session]
      /\ D = CountedBy(C, session) /\ R = Rest
  BY DEF View, Sides
<1>2. /\ q \in Seq(Line) /\ a \in Seq(Answer) /\ h \in Helper /\ l \in BOOLEAN /\ D \in SUBSET Unit
      /\ R \in SUBSET Unit
  BY <1>1, RestUnits DEF TypeOK, CountedBy
<1>3. PICK n \in Session : n = session
  OBVIOUS
<1>4. SessionOf(n, q, a, h, l, D, n \in F)
  BY <1>1, <1>3 DEF SessionsOf
<1>5. n <= session
  BY <1>3, SessionAssumption DEF Session
<1>6. SentOnce(q, h, D, R) /\ (h.pc = "closed" => q = <<>>)
  BY <1>1, <1>3, <1>4 DEF SessionOf
<1>7. n \notin F => IF Active THEN l = TRUE /\ InStep(q, a, h) ELSE Complete(h, D)
  BY <1>2, <1>3, <1>4, <1>5 DEF SessionOf
<1> QED
  BY <1>1, <1>2, <1>3, <1>6, <1>7 DEF Standing

LEMMA OtherSession ==
  ASSUME TypeOK, session' = session, Left' \subseteq Left,
         NEW n \in Session, n # session, NEW q, NEW a, NEW h, NEW l, NEW D, NEW f, SessionOf(n, q, a, h, l, D, f)
  PROVE  SessionOf(n, q, a, h, l, D, f)'
<1>1. Complete(h, D) => Complete(h, D)'
  BY DEF Complete
<1> QED
  BY <1>1 DEF SessionOf

LEMMA ClientOnce ==
  ASSUME TypeOK, session \in Session,
         NEW F \in SUBSET Session, NEW C \in [Unit -> SUBSET Session], SessionsOf(F, C),
         NEW G \in SUBSET Session, CountOf(G, C)', G = F \/ G = F \cup {session},
         NEW q0, NEW a0, NEW h, NEW l0, NEW D, NEW R0, View(C, session, q0, a0, h, l0, D, R0),
         NEW q, NEW a, NEW l, NEW R, Goes(q, a, l, R),
         h.pc = "closed" => q = <<>>, SentOnce(q, h, D, R),
         session \notin G => IF Active' THEN l = TRUE /\ InStep(q, a, h)' ELSE Complete(h, D)'
  PROVE  Once'
<1>1. /\ c2s'[session] = q /\ s2c'[session] = a /\ srv'[session] = h /\ link'[session] = l
      /\ D = CountedBy(C, session)
      /\ \A n \in Session : n # session => /\ c2s'[n] = c2s[n] /\ s2c'[n] = s2c[n]
                                           /\ srv'[n] = srv[n] /\ link'[n] = link[n]
  BY DEF TypeOK, Goes, View, Sides
<1>2. session' = session /\ Rest' = R /\ Left' \subseteq Left
  BY DEF Goes
<1>3. ASSUME NEW n \in Session
      PROVE  SessionOf(n, c2s[n], s2c[n], srv[n], link[n], CountedBy(C, n), n \in G)'
  <2>1. CASE n = session
    <3>1. c2s'[n] = q /\ s2c'[n] = a /\ srv'[n] = h /\ link'[n] = l /\ D = CountedBy(C, n)
      BY <1>1, <2>1
    <3>2. PICK D1 : D1 = CountedBy(C, n)
      OBVIOUS
    <3>3. D1 = D
      BY <3>1, <3>2
    <3>4. ~(n > session') /\ n = session'
      BY <1>2, <2>1, SessionAssumption DEF Session
    <3>5. SessionOf(n, q, a, h, l, D, n \in G)'
      BY <1>2, <2>1, <3>4 DEF SessionOf
    <3> QED
      BY <3>1, <3>2, <3>3, <3>5
  <2>2. CASE n # session
    <3>1. PICK q1, a1, h1, l1, D1 : /\ q1 = c2s[n] /\ a1 = s2c[n] /\ h1 = srv[n] /\ l1 = link[n]
                                    /\ D1 = CountedBy(C, n)
      OBVIOUS
    <3>2. PICK f \in BOOLEAN : f <=> (n \in F)
      BY IsMember
    <3>3. SessionOf(n, q1, a1, h1, l1, D1, f)
      BY <3>1, <3>2 DEF SessionsOf, SessionOf
    <3>4. SessionOf(n, q1, a1, h1, l1, D1, f)'
      BY <1>2, <2>2, <3>3, OtherSession
    <3>5. /\ c2s'[n] = q1 /\ s2c'[n] = a1 /\ srv'[n] = h1 /\ link'[n] = l1 /\ (n \in G <=> f)
      BY <1>1, <2>2, <3>1, <3>2
    <3> QED
      BY <3>1, <3>4, <3>5 DEF SessionOf
  <2> QED
    BY <2>1, <2>2
<1> QED
  BY <1>3 DEF Once, SessionsOf

(* A step of a client that is not returning.                                *)
LEMMA ClientRests ==
  ASSUME TypeOK, ~Active, ~Active', UNCHANGED <<session, c2s, s2c, srv, link>>,
         NEW F \in SUBSET Session, NEW C \in [Unit -> SUBSET Session], SessionsOf(F, C), CountOf(F, C)',
         \A u \in Left' \ Left : C[u] = {}
  PROVE  Once'
<1>1. Rest = {} /\ Rest' = {}
  BY DEF Rest, Active
<1>2. ASSUME NEW n \in Session
      PROVE  SessionOf(n, c2s[n], s2c[n], srv[n], link[n], CountedBy(C, n), n \in F)'
  <2>1. PICK q, a, h, l, D : /\ q = c2s[n] /\ a = s2c[n] /\ h = srv[n] /\ l = link[n]
                             /\ D = CountedBy(C, n)
    OBVIOUS
  <2>2. SessionOf(n, q, a, h, l, D, n \in F)
    BY <2>1 DEF SessionsOf
  <2>3. Complete(h, D) => Complete(h, D)'
    <3>1. D \cap Left' \subseteq D \cap Left
      BY <2>1 DEF CountedBy
    <3> QED
      BY <3>1 DEF Complete
  <2>4. SessionOf(n, q, a, h, l, D, n \in F)'
    BY <1>1, <2>2, <2>3 DEF SessionOf
  <2> QED
    BY <2>1, <2>4
<1> QED
  BY <1>2 DEF Once, SessionsOf

LEMMA GetWorkOnce ==
  ASSUME IInv, NEW F \in SUBSET Session, NEW C \in [Unit -> SUBSET Session], CountOf(F, C), SessionsOf(F, C),
         GetWork
  PROVE  Once'
<1>0. TypeOK /\ ~Active /\ ~Active' /\ UNCHANGED <<session, c2s, s2c, srv, link, counted, trouble, todo>>
      /\ file' = <<>>
  BY DEF IInv, GetWork, Active
<1>1. UnitsOf(mem') \cap Issued = {} /\ UnitsOf(mem') \subseteq Unit /\ Issued \subseteq Issued'
  <2>1. mem' \in Seq(Unit) /\ UnitsOf(mem') \cap Issued = {} /\ Issued \subseteq Issued'
    BY <1>0, NewUnits
  <2> QED
    BY <2>1, ElementsIn
<1>2. CountOf(F, C)'
  BY <1>0, <1>1, CountSame
<1>3. \A u \in Left' \ Left : C[u] = {}
  <2>1. \A u \in Left' \ Left : u \in UnitsOf(mem')
    BY <1>0, ElementsEmpty DEF Left
  <2> QED
    BY <1>1, <2>1 DEF CountOf
<1> QED
  BY <1>0, <1>2, <1>3, ClientRests

LEMMA SaveOnce ==
  ASSUME IInv, NEW F \in SUBSET Session, NEW C \in [Unit -> SUBSET Session], CountOf(F, C), SessionsOf(F, C),
         Save \/ WriteFile \/ Restart
  PROVE  Once'
<1>0. TypeOK /\ ~Active /\ ~Active' /\ UNCHANGED <<session, c2s, s2c, srv, link, counted, trouble, fetched>>
  BY DEF IInv, Save, WriteFile, Restart, Active
<1>1. CountOf(F, C)'
  BY <1>0, CountSame, IssuedSame
<1>2. \A u \in Left' \ Left : C[u] = {}
  BY ElementsEmpty DEF Left, Save, WriteFile, Restart
<1> QED
  BY <1>0, <1>1, <1>2, ClientRests

LEMMA ReturnWorkOnce ==
  ASSUME IInv, NEW F \in SUBSET Session, NEW C \in [Unit -> SUBSET Session], CountOf(F, C), SessionsOf(F, C),
         ReturnWork
  PROVE  Once'
<1>0. /\ TypeOK /\ ~Active /\ UNCHANGED <<file, fetched, c2s, s2c, counted, trouble>>
      /\ session \in Nat /\ session' = session + 1 /\ session' \in Session
      /\ cpc' = "returning" /\ todo' = mem /\ mem' = <<>>
      /\ srv' = [srv EXCEPT ![session'] = FreshHelper] /\ link' = [link EXCEPT ![session'] = TRUE]
  BY SessionAssumption DEF IInv, ReturnWork, TypeOK, Active, Session
<1>1. PICK s \in Session : s = session'
  BY <1>0
<1>2. CountOf(F, C)'
  BY <1>0, CountSame, IssuedSame
<1>3. Rest = {} /\ Rest' = UnitsOf(mem) /\ Left' \subseteq Left /\ Active'
  <2>1. UnitsOf(<<>>) = {}
    BY DEF UnitsOf
  <2> QED
    BY <1>0, <2>1 DEF Rest, Active, Left
<1>4. /\ srv'[s] = FreshHelper /\ link'[s] = TRUE
      /\ \A n \in Session : n # s => srv'[n] = srv[n] /\ link'[n] = link[n]
  BY <1>0, <1>1 DEF TypeOK
<1>5. ASSUME NEW n \in Session
      PROVE  SessionOf(n, c2s[n], s2c[n], srv[n], link[n], CountedBy(C, n), n \in F)'
  <2>1. PICK q, a, h, l, D : /\ q = c2s[n] /\ a = s2c[n] /\ h = srv[n] /\ l = link[n]
                             /\ D = CountedBy(C, n)
    OBVIOUS
  <2>2. SessionOf(n, q, a, h, l, D, n \in F)
    BY <2>1 DEF SessionsOf
  <2>3. CASE n = s
    <3>1. q = <<>> /\ a = <<>> /\ n \notin F /\ D = {}
      BY <1>0, <1>1, <2>2, <2>3 DEF SessionOf
    <3>2. PICK g : g = FreshHelper
      OBVIOUS
    <3>3. g.pc = "reading" /\ g.open = None
      BY <3>2 DEF FreshHelper
    <3>4. PICK R : R = Rest'
      OBVIOUS
    <3>5. SentOnce(<<>>, g, {}, R)
      <4>1. R \subseteq Unit
        BY <1>0, <1>3, <3>4, ElementsIn DEF TypeOK
      <4> QED
        BY <3>3, <4>1, SentNothing
    <3>6. InStep(<<>>, <<>>, g)'
      BY <1>0, <3>3 DEF InStep
    <3>7. n = session' /\ ~(n > session')
      BY <1>0, <1>1, <2>3
    <3>8. SessionOf(n, <<>>, <<>>, g, TRUE, {}, FALSE)'
      BY <1>3, <3>3, <3>4, <3>5, <3>6, <3>7 DEF SessionOf
    <3>9. c2s'[n] = <<>> /\ s2c'[n] = <<>> /\ srv'[n] = g /\ link'[n] = TRUE /\ CountedBy(C, n) = {}
      BY <1>0, <1>4, <2>1, <2>3, <3>1, <3>2
    <3> QED
      BY <3>1, <3>8, <3>9 DEF SessionOf
  <2>4. CASE n # s
    <3>1. Complete(h, D) => Complete(h, D)'
      BY <1>3 DEF Complete
    <3>2. n # session' /\ (n > session' => n > session) /\ (n <= session' => n <= session)
      BY <1>0, <1>1, <2>4, SessionAssumption DEF Session
    <3>3. /\ h.pc = "closed" => q = <<>>
          /\ SentOnce(q, h, D, {})
          /\ n > session => q = <<>> /\ a = <<>> /\ h.pc = "none" /\ ~l /\ ~(n \in F) /\ D = {}
          /\ n \notin F /\ n <= session => Complete(h, D)
      BY <1>0, <1>3, <2>2 DEF SessionOf
    <3>4. SessionOf(n, q, a, h, l, D, n \in F)'
      BY <3>1, <3>2, <3>3 DEF SessionOf
    <3>5. c2s'[n] = q /\ s2c'[n] = a /\ srv'[n] = h /\ link'[n] = l
      BY <1>0, <1>4, <2>1, <2>4
    <3> QED
      BY <2>1, <3>4, <3>5
  <2> QED
    BY <2>3, <2>4
<1> QED
  BY <1>2, <1>5 DEF Once, SessionsOf

(* What a thread that reads gets to know.                                   *)
LEMMA Told ==
  ASSUME TypeOK, session \in Session, NEW C,
         NEW q, NEW a, NEW h, NEW l, NEW D, NEW R, View(C, session, q, a, h, l, D, R),
         NEW lines, ToServer(lines), UNCHANGED <<session, s2c, srv, link>>, Left' \subseteq Left,
         NEW p, p = IF l /\ h.pc = "reading" THEN q \o lines ELSE q,
         NEW T, Rest' = T
  PROVE  Goes(p, a, l, T)
<1>1. q = c2s[session] /\ a = s2c[session] /\ h = srv[session] /\ l = link[session]
  BY DEF View
<1>2. c2s' = [c2s EXCEPT ![session] = p]
  BY <1>1 DEF ToServer, TypeOK
<1>3. s2c' = [s2c EXCEPT ![session] = a] /\ link' = [link EXCEPT ![session] = l]
  BY <1>1 DEF TypeOK
<1> QED
  BY <1>2, <1>3 DEF Goes

LEMMA OneMore == ASSUME NEW q \in Seq(Line), NEW x \in Line PROVE UnitsOf(q \o <<x>>) = UnitsOf(q) \cup {x}
<1>1. Append(q, x) = q \o <<x>>
  OBVIOUS
<1>2. UnitsOf(Append(q, x)) = UnitsOf(q) \cup {x}
  BY ElementsAppend
<1> QED
  BY <1>1, <1>2

LEMMA SendAbandonOnce ==
  ASSUME IInv, NEW F \in SUBSET Session, NEW C \in [Unit -> SUBSET Session], CountOf(F, C), SessionsOf(F, C),
         SendAbandon
  PROVE  Once'
<1>0. /\ TypeOK /\ session \in Session /\ cpc = "returning" /\ todo # <<>> /\ todo \in Seq(Unit)
      /\ todo' = Tail(todo) /\ UNCHANGED <<cpc, mem, file, fetched, session, s2c, srv, link, counted, trouble>>
      /\ ToServer(<<[type |-> "Abandon", unit |-> Head(todo)]>>) /\ Active /\ Active'
  BY DEF IInv, ClientInv, SendAbandon, TypeOK, Active
<1>1. PICK q, a, h, l, D, R : View(C, session, q, a, h, l, D, R)
  BY DEF View, Sides
<1>2. Standing(F, q, a, h, l, D, R)
  BY <1>0, <1>1, ClientSide
<1>3. /\ q \in Seq(Line) /\ R = Rest /\ SentOnce(q, h, D, R) /\ (h.pc = "closed" => q = <<>>)
      /\ session \notin F => l = TRUE /\ InStep(q, a, h)
  BY <1>0, <1>2 DEF Standing
<1>4. PICK x : x \in Line /\ x = [type |-> "Abandon", unit |-> Head(todo)] /\ x.type = "Abandon"
  <2>1. PICK u \in Unit : u = Head(todo)
    BY <1>0, ElementsHead
  <2>2. PICK x : x = [type |-> "Abandon", unit |-> u]
    OBVIOUS
  <2>3. x \in Line /\ x.type = "Abandon"
    BY <2>2 DEF Line
  <2> QED
    BY <2>1, <2>2, <2>3
<1>5. PICK p, T : p = (IF l /\ h.pc = "reading" THEN q \o <<x>> ELSE q) /\ T = Rest'
  OBVIOUS
<1>6. T \subseteq R /\ Left' \subseteq Left
  <2>1. UnitsOf(Tail(todo)) \subseteq UnitsOf(todo)
    BY <1>0, ElementsHead
  <2> QED
    BY <1>0, <1>3, <1>5, <2>1 DEF Rest, Left
<1>7. Goes(p, a, l, T)
  <2>1. ToServer(<<x>>) /\ UNCHANGED <<session, s2c, srv, link>>
    BY <1>0, <1>4
  <2> QED
    BY <1>0, <1>1, <1>5, <1>6, <2>1, Told
<1>8. SentOnce(p, h, D, T)
  <2>1. x.type # "Return"
    BY <1>4
  <2>2. SentOnce(q \o <<x>>, h, D, T)
    BY <1>3, <1>4, <1>6, <2>1, SentOther
  <2>3. SentOnce(q, h, D, T)
    BY <1>3, <1>6 DEF SentOnce
  <2> QED
    BY <1>5, <2>2, <2>3
<1>9. h.pc = "closed" => p = <<>>
  BY <1>3, <1>5
<1>10. session \notin F => l = TRUE /\ InStep(p, a, h)'
  <2> SUFFICES ASSUME session \notin F PROVE l = TRUE /\ InStep(p, a, h)'
    OBVIOUS
  <2>1. /\ l = TRUE /\ mem = <<>> /\ h.pc = "reading" /\ a = <<>> /\ \A i \in DOMAIN q : q[i].type = "Abandon"
    BY <1>0, <1>3 DEF InStep
  <2>2. p = q \o <<x>>
    BY <1>5, <2>1
  <2>3. UnitsOf(p) = UnitsOf(q) \cup {x}
    BY <1>3, <1>4, <2>2, OneMore
  <2>4. \A i \in DOMAIN p : p[i].type = "Abandon"
    <3>1. \A i \in DOMAIN p : p[i] \in UnitsOf(q) \cup {x}
      BY <2>3 DEF UnitsOf
    <3>2. \A y \in UnitsOf(q) : y.type = "Abandon"
      BY <2>1 DEF UnitsOf
    <3> QED
      BY <1>4, <3>1, <3>2
  <2> QED
    BY <1>0, <2>1, <2>4 DEF InStep
<1>11. CountOf(F, C)'
  BY <1>0, CountSame, IssuedSame
<1>12. session \notin F => IF Active' THEN l = TRUE /\ InStep(p, a, h)' ELSE Complete(h, D)'
  BY <1>0, <1>10
<1> QED
  BY <1>0, <1>1, <1>3, <1>7, <1>8, <1>9, <1>11, <1>12, ClientOnce

LEMMA SendUnitOnce ==
  ASSUME IInv, ListInv, NEW F \in SUBSET Session, NEW C \in [Unit -> SUBSET Session], CountOf(F, C), SessionsOf(F, C),
         SendUnit
  PROVE  Once'
<1>0. /\ TypeOK /\ session \in Session /\ cpc = "returning" /\ todo # <<>> /\ todo \in Seq(Unit) /\ Distinct(todo)
      /\ cpc' = "waiting" /\ UNCHANGED <<mem, todo, file, fetched, session, s2c, srv, link, counted, trouble>>
      /\ ToServer(LinesOf(Head(todo))) /\ Active /\ Active'
  BY DEF IInv, ListInv, ClientInv, SendUnit, TypeOK, Active
<1>1. PICK q, a, h, l, D, R : View(C, session, q, a, h, l, D, R)
  BY DEF View, Sides
<1>2. Standing(F, q, a, h, l, D, R)
  BY <1>0, <1>1, ClientSide
<1>3. /\ q \in Seq(Line) /\ R = Rest /\ SentOnce(q, h, D, R) /\ (h.pc = "closed" => q = <<>>)
      /\ session \notin F => l = TRUE /\ InStep(q, a, h)
  BY <1>0, <1>2 DEF Standing
<1>4. PICK u \in Unit : u = Head(todo)
  BY <1>0, ElementsHead
<1>5. PICK p, T : p = (IF l /\ h.pc = "reading" THEN q \o LinesOf(u) ELSE q) /\ T = Rest'
  OBVIOUS
<1>6. u \in R /\ T \subseteq R \ {u} /\ Left' \subseteq Left
  <2>1. u \notin UnitsOf(Tail(todo)) /\ UnitsOf(todo) = {u} \cup UnitsOf(Tail(todo))
    BY <1>0, <1>4, ElementsHead, DistinctTail
  <2>2. R = UnitsOf(todo)
    BY <1>0, <1>3 DEF Rest
  <2>3. T = UnitsOf(Tail(todo))
    BY <1>0, <1>5 DEF Rest
  <2>4. Left' = Left
    BY <1>0 DEF Left
  <2> QED
    BY <2>1, <2>2, <2>3, <2>4
<1>7. Goes(p, a, l, T)
  <2>1. ToServer(LinesOf(u)) /\ UNCHANGED <<session, s2c, srv, link>>
    BY <1>0, <1>4
  <2> QED
    BY <1>0, <1>1, <1>5, <1>6, <2>1, Told
<1>8. SentOnce(p, h, D, T)
  <2>1. SentOnce(q \o LinesOf(u), h, D, T)
    BY <1>3, <1>6, SentMore
  <2>2. SentOnce(q, h, D, T)
    BY <1>3, <1>6 DEF SentOnce
  <2> QED
    BY <1>5, <2>1, <2>2
<1>9. h.pc = "closed" => p = <<>>
  BY <1>3, <1>5
<1>10. session \notin F => l = TRUE /\ InStep(p, a, h)'
  <2> SUFFICES ASSUME session \notin F PROVE l = TRUE /\ InStep(p, a, h)'
    OBVIOUS
  <2>1. /\ l = TRUE /\ mem = <<>> /\ h.pc = "reading" /\ a = <<>> /\ \A i \in DOMAIN q : q[i].type = "Abandon"
    BY <1>0, <1>3 DEF InStep
  <2>2. p = q \o LinesOf(u)
    BY <1>5, <2>1
  <2>3. p # <<>> /\ UnderWay(p, h, u)
    BY <1>3, <2>1, <2>2, UnderWayStart
  <2> QED
    BY <1>0, <1>4, <2>1, <2>3 DEF InStep
<1>11. CountOf(F, C)'
  BY <1>0, CountSame, IssuedSame
<1>12. session \notin F => IF Active' THEN l = TRUE /\ InStep(p, a, h)' ELSE Complete(h, D)'
  BY <1>0, <1>10
<1> QED
  BY <1>0, <1>1, <1>3, <1>7, <1>8, <1>9, <1>11, <1>12, ClientOnce

LEMMA EndOfReturnOnce ==
  ASSUME IInv, NEW F \in SUBSET Session, NEW C \in [Unit -> SUBSET Session], CountOf(F, C), SessionsOf(F, C),
         EndOfReturn
  PROVE  Once'
<1>0. /\ TypeOK /\ session \in Session /\ cpc = "returning" /\ todo = <<>>
      /\ cpc' = "draining" /\ UNCHANGED <<mem, todo, file, fetched, session, s2c, srv, link, counted, trouble>>
      /\ ToServer(<<[type |-> "EndOfReturn"]>>) /\ Active /\ Active'
  BY DEF IInv, ClientInv, EndOfReturn, TypeOK, Active
<1>1. PICK q, a, h, l, D, R : View(C, session, q, a, h, l, D, R)
  BY DEF View, Sides
<1>2. Standing(F, q, a, h, l, D, R)
  BY <1>0, <1>1, ClientSide
<1>3. /\ q \in Seq(Line) /\ R = Rest /\ SentOnce(q, h, D, R) /\ (h.pc = "closed" => q = <<>>)
      /\ session \notin F => l = TRUE /\ InStep(q, a, h)
  BY <1>0, <1>2 DEF Standing
<1>4. PICK x : x \in Line /\ x = [type |-> "EndOfReturn"] /\ x.type = "EndOfReturn"
  <2>1. PICK x : x = [type |-> "EndOfReturn"]
    OBVIOUS
  <2>2. x \in Line /\ x.type = "EndOfReturn"
    BY <2>1 DEF Line
  <2> QED
    BY <2>1, <2>2
<1>5. PICK p, T : p = (IF l /\ h.pc = "reading" THEN q \o <<x>> ELSE q) /\ T = Rest'
  OBVIOUS
<1>6. T \subseteq R /\ Left' \subseteq Left
  BY <1>0, <1>5 DEF Rest, Left
<1>7. Goes(p, a, l, T)
  <2>1. ToServer(<<x>>) /\ UNCHANGED <<session, s2c, srv, link>>
    BY <1>0, <1>4
  <2> QED
    BY <1>0, <1>1, <1>5, <1>6, <2>1, Told
<1>8. SentOnce(p, h, D, T)
  <2>1. x.type # "Return"
    BY <1>4
  <2>2. SentOnce(q \o <<x>>, h, D, T)
    BY <1>3, <1>4, <1>6, <2>1, SentOther
  <2>3. SentOnce(q, h, D, T)
    BY <1>3, <1>6 DEF SentOnce
  <2> QED
    BY <1>5, <2>2, <2>3
<1>9. h.pc = "closed" => p = <<>>
  BY <1>3, <1>5
<1>10. session \notin F => l = TRUE /\ InStep(p, a, h)'
  <2> SUFFICES ASSUME session \notin F PROVE l = TRUE /\ InStep(p, a, h)'
    OBVIOUS
  <2>1. /\ l = TRUE /\ mem = <<>> /\ h.pc = "reading" /\ a = <<>> /\ \A i \in DOMAIN q : q[i].type = "Abandon"
    BY <1>0, <1>3 DEF InStep
  <2>2. p = q \o <<x>>
    BY <1>5, <2>1
  <2>3. UnitsOf(p) = UnitsOf(q) \cup {x}
    BY <1>3, <1>4, <2>2, OneMore
  <2>4. \A i \in DOMAIN p : p[i].type \in {"Abandon", "EndOfReturn"}
    <3>1. \A i \in DOMAIN p : p[i] \in UnitsOf(q) \cup {x}
      BY <2>3 DEF UnitsOf
    <3>2. \A y \in UnitsOf(q) : y.type = "Abandon"
      BY <2>1 DEF UnitsOf
    <3> QED
      BY <1>4, <3>1, <3>2
  <2> QED
    BY <1>0, <2>1, <2>4 DEF InStep
<1>11. CountOf(F, C)'
  BY <1>0, CountSame, IssuedSame
<1>12. session \notin F => IF Active' THEN l = TRUE /\ InStep(p, a, h)' ELSE Complete(h, D)'
  BY <1>0, <1>10
<1> QED
  BY <1>0, <1>1, <1>3, <1>7, <1>8, <1>9, <1>11, <1>12, ClientOnce

LEMMA ReadAnswerOnce ==
  ASSUME IInv, NEW F \in SUBSET Session, NEW C \in [Unit -> SUBSET Session], CountOf(F, C), SessionsOf(F, C),
         ReadAnswer
  PROVE  Once'
<1>0. /\ TypeOK /\ session \in Session /\ cpc = "waiting" /\ todo # <<>> /\ todo \in Seq(Unit) /\ mem \in Seq(Unit)
      /\ cpc' = "returning" /\ todo' = Tail(todo)
      /\ UNCHANGED <<file, fetched, session, c2s, srv, link, counted, trouble>>
      /\ Active /\ Active'
  BY DEF IInv, ClientInv, ReadAnswer, TypeOK, Active
<1>1. PICK q, a, h, l, D, R : View(C, session, q, a, h, l, D, R)
  BY DEF View, Sides
<1>2. Standing(F, q, a, h, l, D, R)
  BY <1>0, <1>1, ClientSide
<1>3. /\ q \in Seq(Line) /\ R = Rest /\ SentOnce(q, h, D, R) /\ (h.pc = "closed" => q = <<>>)
      /\ session \notin F => l = TRUE /\ InStep(q, a, h)
  BY <1>0, <1>2 DEF Standing
<1>4. q = c2s[session] /\ a = s2c[session] /\ h = srv[session] /\ l = link[session]
  BY <1>1 DEF View
<1>5. PICK u \in Unit : u = Head(todo) /\ UnitsOf(todo) = {u} \cup UnitsOf(Tail(todo))
  BY <1>0, ElementsHead
<1>6. /\ a # <<>> /\ s2c' = [s2c EXCEPT ![session] = Tail(a)]
      /\ mem' = IF Head(a) = [type |-> "Accepted", unit |-> u] THEN mem ELSE Append(mem, u)
  BY <1>4, <1>5 DEF ReadAnswer
<1>7. Rest' = R /\ Left' \subseteq Left
  <2>1. UnitsOf(mem') \subseteq UnitsOf(mem) \cup {u}
    BY <1>0, <1>6, ElementsAppend
  <2> QED
    BY <1>0, <1>3, <1>5, <2>1 DEF Rest, Left
<1>8. Goes(q, Tail(a), l, R)
  <2>1. c2s' = [c2s EXCEPT ![session] = q] /\ link' = [link EXCEPT ![session] = l]
    BY <1>0, <1>4 DEF TypeOK
  <2> QED
    BY <1>0, <1>6, <1>7, <2>1 DEF Goes
<1>9. session \notin F => l = TRUE /\ InStep(q, Tail(a), h)'
  <2> SUFFICES ASSUME session \notin F PROVE l = TRUE /\ InStep(q, Tail(a), h)'
    OBVIOUS
  <2>1. PICK x : x = [type |-> "Accepted", unit |-> u]
    OBVIOUS
  <2>2. l = TRUE /\ mem = <<>> /\ h.pc = "reading" /\ q = <<>> /\ a = <<x>>
    BY <1>0, <1>3, <1>5, <1>6, <2>1 DEF InStep
  <2>3. Head(a) = x /\ Tail(a) = <<>>
    BY <2>2
  <2>4. mem' = <<>>
    BY <1>6, <2>1, <2>2, <2>3
  <2> QED
    BY <1>0, <2>2, <2>3, <2>4 DEF InStep
<1>10. CountOf(F, C)'
  BY <1>0, CountSame, IssuedSame
<1>11. session \notin F => IF Active' THEN l = TRUE /\ InStep(q, Tail(a), h)' ELSE Complete(h, D)'
  BY <1>0, <1>9
<1> QED
  BY <1>0, <1>1, <1>3, <1>8, <1>10, <1>11, ClientOnce

(* In step, the answer comes.                                               *)
LEMMA NoAnswerOnce ==
  ASSUME IInv, NEW F \in SUBSET Session, NEW C \in [Unit -> SUBSET Session], CountOf(F, C), SessionsOf(F, C),
         NoAnswer
  PROVE  Once'
<1>0. /\ TypeOK /\ session \in Session /\ cpc = "waiting" /\ todo # <<>> /\ todo \in Seq(Unit) /\ mem \in Seq(Unit)
      /\ cpc' = "returning" /\ todo' = Tail(todo) /\ mem' = Append(mem, Head(todo))
      /\ UNCHANGED <<file, fetched, session, c2s, s2c, srv, link, counted>>
      /\ Active /\ Active'
  BY DEF IInv, ClientInv, NoAnswer, TypeOK, Active
<1>1. PICK q, a, h, l, D, R : View(C, session, q, a, h, l, D, R)
  BY DEF View, Sides
<1>2. Standing(F, q, a, h, l, D, R)
  BY <1>0, <1>1, ClientSide
<1>3. /\ q \in Seq(Line) /\ R = Rest /\ SentOnce(q, h, D, R) /\ (h.pc = "closed" => q = <<>>)
      /\ session \notin F => l = TRUE /\ InStep(q, a, h)
  BY <1>0, <1>2 DEF Standing
<1>4. q = c2s[session] /\ a = s2c[session] /\ h = srv[session] /\ l = link[session]
  BY <1>1 DEF View
<1>5. Rest' = R /\ Left' \subseteq Left
  <2>1. PICK u \in Unit : u = Head(todo) /\ UnitsOf(todo) = {u} \cup UnitsOf(Tail(todo))
    BY <1>0, ElementsHead
  <2>2. UnitsOf(mem') = UnitsOf(mem) \cup {u}
    BY <1>0, <2>1, ElementsAppend
  <2> QED
    BY <1>0, <1>3, <2>1, <2>2 DEF Rest, Left
<1>6. Goes(q, a, l, R)
  <2>1. /\ c2s' = [c2s EXCEPT ![session] = q] /\ s2c' = [s2c EXCEPT ![session] = a]
        /\ link' = [link EXCEPT ![session] = l]
    BY <1>0, <1>4 DEF TypeOK
  <2> QED
    BY <1>0, <1>5, <2>1 DEF Goes
<1>7. Trouble \/ (session \in F /\ trouble' = trouble)
  <2>1. ASSUME session \notin F, a = <<>>, Over(session)
        PROVE  FALSE
    <3>1. l = TRUE /\ InStep(q, a, h)
      BY <1>3, <2>1
    <3>2. h.pc = "reading"
      BY <1>0, <3>1 DEF InStep
    <3> QED
      BY <1>4, <2>1, <3>1, <3>2 DEF Over
  <2> QED
    BY <1>4, <2>1 DEF NoAnswer
<1>8. PICK G \in SUBSET Session : G = F \cup {session} /\ CountOf(G, C)'
  <2>1. Issued' = Issued
    BY <1>0, IssuedSame
  <2>2. CASE Trouble
    <3>1. CountOf(F \cup {session}, C)'
      BY <1>0, <2>1, <2>2, CountFailed
    <3> QED
      BY <1>0, <3>1
  <2>3. CASE session \in F /\ trouble' = trouble
    <3>1. CountOf(F, C)' /\ F \cup {session} = F
      BY <1>0, <2>1, <2>3, CountSame
    <3> QED
      BY <3>1
  <2> QED
    BY <1>7, <2>2, <2>3
<1>9. session \notin G => IF Active' THEN l = TRUE /\ InStep(q, a, h)' ELSE Complete(h, D)'
  BY <1>8
<1> QED
  BY <1>0, <1>1, <1>3, <1>6, <1>8, <1>9, ClientOnce

(* In step, the session is over on both sides, and no unit is left.         *)
LEMMA CloseOnce ==
  ASSUME IInv, NEW F \in SUBSET Session, NEW C \in [Unit -> SUBSET Session], CountOf(F, C), SessionsOf(F, C),
         Close
  PROVE  Once'
<1>0. /\ TypeOK /\ session \in Session /\ cpc = "draining" /\ todo = <<>>
      /\ cpc' = "idle" /\ file' = (IF mem = <<>> THEN <<>> ELSE file)
      /\ s2c' = [s2c EXCEPT ![session] = <<>>] /\ link' = [link EXCEPT ![session] = FALSE]
      /\ UNCHANGED <<mem, todo, fetched, session, c2s, srv, counted>>
      /\ Active /\ ~Active'
  BY DEF IInv, ClientInv, Close, TypeOK, Active
<1>1. PICK q, a, h, l, D, R : View(C, session, q, a, h, l, D, R)
  BY DEF View, Sides
<1>2. Standing(F, q, a, h, l, D, R)
  BY <1>0, <1>1, ClientSide
<1>3. /\ q \in Seq(Line) /\ R = Rest /\ SentOnce(q, h, D, R) /\ (h.pc = "closed" => q = <<>>)
      /\ session \notin F => l = TRUE /\ InStep(q, a, h)
  BY <1>0, <1>2 DEF Standing
<1>4. q = c2s[session] /\ a = s2c[session] /\ h = srv[session] /\ l = link[session]
  BY <1>1 DEF View
<1>5. UnitsOf(<<>>) = {}
  BY DEF UnitsOf
<1>6. R = {} /\ Rest' = R /\ Left' \subseteq Left
  BY <1>0, <1>3, <1>5 DEF Rest, Left
<1>7. Goes(q, <<>>, FALSE, R)
  <2>1. c2s' = [c2s EXCEPT ![session] = q]
    BY <1>0, <1>4 DEF TypeOK
  <2> QED
    BY <1>0, <1>6, <2>1 DEF Goes
<1>8. CASE Trouble
  <2>1. PICK G \in SUBSET Session : G = F \cup {session} /\ CountOf(G, C)'
    <3>1. CountOf(F \cup {session}, C)'
      BY <1>0, <1>8, CountFailed, IssuedSame
    <3> QED
      BY <1>0, <3>1
  <2>2. session \notin G => IF Active' THEN FALSE = TRUE /\ InStep(q, <<>>, h)' ELSE Complete(h, D)'
    BY <2>1
  <2> QED
    BY <1>0, <1>1, <1>3, <1>7, <2>1, <2>2, ClientOnce
<1>9. CASE Over(session) /\ trouble' = trouble
  <2>1. CountOf(F, C)'
    BY <1>0, <1>9, CountSame, IssuedSame
  <2>2. session \notin F => Complete(h, D)'
    <3> SUFFICES ASSUME session \notin F PROVE Complete(h, D)'
      OBVIOUS
    <3>1. l = TRUE /\ mem = <<>> /\ h.pc = "closed"
      BY <1>3, <1>4, <1>9 DEF InStep, Over
    <3>2. Left' = {}
      BY <1>0, <1>5, <3>1 DEF Left
    <3> QED
      BY <3>1, <3>2 DEF Complete
  <2>3. session \notin F => IF Active' THEN FALSE = TRUE /\ InStep(q, <<>>, h)' ELSE Complete(h, D)'
    BY <1>0, <2>2
  <2> QED
    BY <1>0, <1>1, <1>3, <1>7, <2>1, <2>3, ClientOnce
<1> QED
  BY <1>8, <1>9 DEF Close

LEMMA CrashOnce ==
  ASSUME IInv, NEW F \in SUBSET Session, NEW C \in [Unit -> SUBSET Session], CountOf(F, C), SessionsOf(F, C),
         Crash
  PROVE  Once'
<1>0. /\ TypeOK /\ Trouble /\ UNCHANGED <<fetched, session, c2s, srv, counted>>
      /\ cpc' = "down" /\ mem' = <<>> /\ todo' = <<>> /\ ~Active'
  BY DEF IInv, Crash, Active
<1>1. UnitsOf(<<>>) = {}
  BY DEF UnitsOf
<1>2. Rest' = {} /\ Left' \subseteq Left
  <2>1. file' = file \/ file' \in Prefixes(mem)
    BY DEF Crash
  <2>2. UnitsOf(file') \subseteq UnitsOf(file) \cup UnitsOf(mem)
    BY <1>0, <2>1, ElementsPrefix DEF TypeOK
  <2> QED
    BY <1>0, <1>1, <2>2 DEF Rest, Left
<1>3. CASE session \in Session
  <2>1. s2c' = [s2c EXCEPT ![session] = <<>>] /\ link' = [link EXCEPT ![session] = FALSE]
    <3>1. session # 0
      BY <1>3, SessionAssumption DEF Session
    <3> QED
      BY <3>1 DEF Crash
  <2>2. PICK q, a, h, l, D, R : View(C, session, q, a, h, l, D, R)
    BY DEF View, Sides
  <2>3. Standing(F, q, a, h, l, D, R)
    BY <1>0, <1>3, <2>2, ClientSide
  <2>4. q \in Seq(Line) /\ SentOnce(q, h, D, R) /\ (h.pc = "closed" => q = <<>>)
    BY <2>3 DEF Standing
  <2>5. SentOnce(q, h, D, {})
    BY <2>4 DEF SentOnce
  <2>6. Goes(q, <<>>, FALSE, {})
    <3>1. c2s' = [c2s EXCEPT ![session] = q]
      BY <1>0, <1>3, <2>2 DEF View, TypeOK
    <3> QED
      BY <1>0, <1>2, <2>1, <3>1 DEF Goes
  <2>7. PICK G \in SUBSET Session : G = F \cup {session} /\ CountOf(G, C)'
    <3>1. CountOf(F \cup {session}, C)'
      BY <1>0, <1>3, CountFailed, IssuedSame
    <3> QED
      BY <1>0, <1>3, <3>1
  <2>8. session \notin G => IF Active' THEN FALSE = TRUE /\ InStep(q, <<>>, h)' ELSE Complete(h, D)'
    BY <2>7
  <2> QED
    BY <1>0, <1>3, <2>2, <2>4, <2>5, <2>6, <2>7, <2>8, ClientOnce
<1>4. CASE session \notin Session
  <2>1. session = 0
    BY <1>0, <1>4, SessionAssumption DEF TypeOK, Session
  <2>2. UNCHANGED <<c2s, s2c, srv, link>>
    BY <1>0, <2>1 DEF Crash
  <2>3. ~Active
    BY <1>4 DEF IInv, ClientInv, Active
  <2>4. CountOf(F, C)'
    BY <1>0, CountSame, IssuedSame
  <2> QED
    BY <1>0, <1>2, <2>2, <2>3, <2>4, ClientRests
<1> QED
  BY <1>3, <1>4

-----------------------------------------------------------------------------
LEMMA OnceInit == Init => OnceInv
<1> SUFFICES ASSUME Init PROVE OnceInv
  OBVIOUS
<1>1. ListInv
  BY DistinctEmpty DEF Init, ListInv, UnitsOf
<1>2. PICK F \in SUBSET Session : F = {}
  OBVIOUS
<1>3. PICK C \in [Unit -> SUBSET Session] : C = [u \in Unit |-> {}]
  OBVIOUS
<1>4. CountOf(F, C)
  BY <1>2, <1>3, FS_EmptySet DEF Init, CountOf
<1>5. SessionsOf(F, C)
  <2>1. ASSUME NEW n \in Session
        PROVE  SessionOf(n, c2s[n], s2c[n], srv[n], link[n], CountedBy(C, n), n \in F)
    <3>1. /\ c2s[n] = <<>> /\ s2c[n] = <<>> /\ srv[n].pc = "none" /\ srv[n].open = None /\ link[n] = FALSE
          /\ n \notin F /\ session = 0 /\ n > session
      BY <1>2, SessionAssumption DEF Init, FreshHelper, Session
    <3>2. CountedBy(C, n) = {}
      BY <1>3 DEF CountedBy
    <3>3. PICK h : h = srv[n] /\ h.pc = "none" /\ h.open = None
      BY <3>1
    <3>4. SentOnce(<<>>, h, {}, {})
      BY <3>3, SentNothing
    <3>5. ~(n <= session) /\ n # session
      BY <3>1, SessionAssumption DEF Session
    <3>6. SessionOf(n, <<>>, <<>>, h, FALSE, {}, n \in F)
      BY <3>1, <3>3, <3>4, <3>5 DEF SessionOf
    <3> QED
      BY <3>1, <3>2, <3>3, <3>6
  <2> QED
    BY <2>1 DEF SessionsOf
<1> QED
  BY <1>1, <1>4, <1>5 DEF OnceInv, Once

LEMMA OnceStep ==
  ASSUME IInv, ListInv, Issued \cap Refused = {}, Once, [Next]_vars
  PROVE  Once'
<1>1. PICK F \in SUBSET Session, C \in [Unit -> SUBSET Session] : CountOf(F, C) /\ SessionsOf(F, C)
  BY DEF Once
<1>2. CASE GetWork \/ Save \/ WriteFile \/ Restart \/ ReturnWork \/ SendAbandon \/ SendUnit \/ ReadAnswer \/ NoAnswer
           \/ EndOfReturn \/ Close \/ Crash
  BY <1>1, <1>2, GetWorkOnce, SaveOnce, ReturnWorkOnce, SendAbandonOnce, SendUnitOnce, ReadAnswerOnce,
     NoAnswerOnce, EndOfReturnOnce, CloseOnce, CrashOnce
<1>3. CASE ServerExit
  BY <1>1, <1>3, ServerExitOnce
<1>4. CASE \E m \in Session : Server(m) \/ LoseConnection(m)
  BY <1>1, <1>4, ReceiveReturnOnce, ReceiveFactorOnce, EndWorkOnce, NotUnderstoodOnce, FinishOnce,
     LoseConnectionOnce DEF Server
<1>5. CASE UNCHANGED vars
  <2>1. UNCHANGED <<cpc, mem, todo, file, fetched, session, c2s, s2c, srv, link, counted, trouble>>
    BY <1>5 DEF vars
  <2>2. CountOf(F, C)'
    BY <1>1, <2>1, CountSame, IssuedSame DEF IInv
  <2>3. SessionsOf(F, C)'
    <3>1. UNCHANGED clientVars
      BY <2>1 DEF clientVars
    <3>2. ASSUME NEW n \in Session
          PROVE  SessionOf(n, c2s[n], s2c[n], srv[n], link[n], CountedBy(C, n), n \in F)'
      <4>1. PICK q, a, h, l, D : /\ q = c2s[n] /\ a = s2c[n] /\ h = srv[n] /\ l = link[n]
                                 /\ D = CountedBy(C, n)
        OBVIOUS
      <4>2. PICK f \in BOOLEAN : f <=> (n \in F)
        BY IsMember
      <4>3. SessionOf(n, q, a, h, l, D, f)
        BY <1>1, <4>1, <4>2 DEF SessionsOf, SessionOf
      <4>4. SessionOf(n, q, a, h, l, D, f)'
        BY <3>1, <4>3, SessionSame
      <4> QED
        BY <2>1, <4>1, <4>2, <4>4 DEF SessionOf
    <3> QED
      BY <3>2 DEF SessionsOf
  <2> QED
    BY <2>2, <2>3 DEF Once
<1> QED
  BY <1>2, <1>3, <1>4, <1>5 DEF Next, Client

LEMMA OnceNext == IInv /\ OnceInv /\ [Next]_vars => OnceInv'
<1> SUFFICES ASSUME IInv, OnceInv, [Next]_vars, Issued' \cap Refused = {} PROVE Once'
  BY ListStep DEF OnceInv
<1>1. Issued \subseteq Issued'
  <2>1. CASE GetWork
    BY <2>1, NewUnits DEF IInv
  <2>2. CASE fetched' = fetched
    BY <2>2, IssuedSame
  <2>3. GetWork \/ fetched' = fetched
    BY DEF Next, Client, Save, WriteFile, ReturnWork, SendAbandon, SendUnit, ReadAnswer, NoAnswer, EndOfReturn, Close, Crash,
       Restart, ServerExit, Server, LoseConnection, ReceiveReturn, ReceiveFactor, EndWork, ReceiveAbandon,
       NotUnderstood, Finish, clientVars, vars
  <2> QED
    BY <2>1, <2>2, <2>3
<1>2. Issued \cap Refused = {} /\ Once
  BY <1>1 DEF OnceInv
<1> QED
  BY <1>2, OnceStep DEF OnceInv

LEMMA OnceBound == IInv /\ OnceInv => OneCountPerFailure
<1> SUFFICES ASSUME IInv, OnceInv, Issued \cap Refused = {}, NEW u \in Unit PROVE counted[u] <= 1 + trouble
  BY DEF OneCountPerFailure
<1>1. PICK F \in SUBSET Session, C \in [Unit -> SUBSET Session] : CountOf(F, C)
  BY DEF OnceInv, Once
<1>2. PICK X \in SUBSET Session : X = C[u]
  OBVIOUS
<1>3. counted[u] = Cardinality(X) /\ Cardinality(F) <= trouble /\ \A m, n \in X \ F : m = n
  BY <1>1, <1>2 DEF CountOf
<1>4. trouble \in Nat /\ Cardinality(X) \in Nat /\ Cardinality(F) \in Nat
  BY SessionFinite DEF IInv, TypeOK
<1>5. CASE X \subseteq F
  <2>1. Cardinality(X) <= Cardinality(F)
    BY <1>5, SessionFinite, FS_Subset
  <2> QED
    BY <1>3, <1>4, <2>1
<1>6. CASE ~(X \subseteq F)
  <2>1. PICK n \in Session : n \in X \ F
    BY <1>6
  <2>2. X \subseteq F \cup {n}
    BY <1>3, <2>1
  <2>3. PICK G \in SUBSET Session : G = F \cup {n}
    OBVIOUS
  <2>4. Cardinality(X) <= Cardinality(G)
    BY <2>2, <2>3, SessionFinite, FS_Subset
  <2>5. Cardinality(G) <= Cardinality(F) + 1 /\ Cardinality(G) \in Nat
    BY <2>3, OneInserted, SessionFinite
  <2> QED
    BY <1>3, <1>4, <2>4, <2>5
<1> QED
  BY <1>5, <1>6

(* A failure makes the server count each unit at most once more: the session *)
(* it hits leaves what was counted with the client, every other session      *)
(* takes it away (Work::ReturnWork, WorkReceiver::EndWork).                    *)
THEOREM OnceCorrect == Spec => []OneCountPerFailure
BY InvInit, InvNext, OnceInit, OnceNext, OnceBound, PTL DEF Spec
=============================================================================
