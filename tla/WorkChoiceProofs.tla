-------------------------- MODULE WorkChoiceProofs --------------------------
(***************************************************************************)
(* Theorems of WorkChoice, for every table of B1 values, range of B1,      *)
(* depth of the P-1 and P+1 work and number of clients.                    *)
(***************************************************************************)
EXTENDS WorkChoice, WellFoundedInduction, TLAPS

(* The last line of the table is not below minb1=: otherwise the code reads *)
(* past its end, and neither the B1 nor the curves of a unit are known.     *)
LastReachesMin == MinB1 <= B1Table[Len(B1Table)].b1

(* No two lines of the table have one B1. *)
DistinctB1 == \A i, j \in Level : B1Table[i].b1 = B1Table[j].b1 => i = j

LEMMA LevelNat == Level \subseteq Nat /\ Len(B1Table) \in Level
  BY TableAssumption DEF Level

LEMMA MemberOfSeq ==
  ASSUME NEW S, NEW q \in Seq(S), NEW i \in 1..Len(q)
  PROVE  q[i] \in S
  OBVIOUS

LEMMA LineType ==
  ASSUME NEW i \in Level
  PROVE  /\ B1Table[i].b1 \in Nat /\ B1Table[i].b1 > 0 /\ B1Table[i].b1 \in B1
         /\ B1Table[i].pm1 \in Nat /\ B1Table[i].pp1 \in Nat /\ B1Table[i].sumWork \in Nat
<1>1. B1Table[i] \in [b1 : Nat \ {0}, ecm : Nat, pm1 : Nat, pp1 : Nat, sumWork : Nat]
  <2> DEFINE S == [b1 : Nat \ {0}, ecm : Nat, pm1 : Nat, pp1 : Nat, sumWork : Nat]
  <2>1. B1Table \in Seq(S) /\ i \in 1..Len(B1Table)
    BY TableAssumption DEF Level
  <2> HIDE DEF S
  <2>2. B1Table[i] \in S
    BY <2>1, MemberOfSeq
  <2> QED
    BY <2>2 DEF S
<1> QED
  BY <1>1 DEF B1

LEMMA Sorted ==
  ASSUME NEW i \in Level, NEW j \in Level, i <= j
  PROVE  B1Table[i].b1 <= B1Table[j].b1
  BY TableAssumption

LEMMA Parameters ==
  /\ MinB1 \in Nat /\ MaxB1 \in Nat /\ PM1Depth \in Nat /\ PP1Depth \in Nat
  /\ Junk \subseteq Nat /\ MaxLost \in Nat
  BY ParameterAssumption

LEMMA B1Nat == B1 \subseteq Nat
  BY LineType, Parameters DEF B1

(* A set of natural numbers that is not empty has a least member. *)
LEMMA LeastProperty ==
  ASSUME NEW X, X \subseteq Nat, X # {}
  PROVE  Least(X) \in X /\ \A j \in X : Least(X) <= j
<1> DEFINE R == OpToRel(<, Nat)
<1>1. IsWellFoundedOn(R, Nat)
  BY NatLessThanWellFounded
<1>2. \A i, j \in Nat : j < i => <<j, i>> \in R
  BY SMT DEF OpToRel
<1> HIDE DEF R
<1>3. \E i \in X : \A j \in X : ~ (<<j, i>> \in R)
  BY <1>1, WFMin
<1>4. PICK i \in X : \A j \in X : ~ (<<j, i>> \in R)
  BY <1>3
<1>5. ASSUME NEW j \in X
      PROVE  i <= j
  <2>1. i \in Nat /\ j \in Nat
    OBVIOUS
  <2>2. ~ (<<j, i>> \in R)
    BY <1>4
  <2>3. ~ (j < i)
    BY <1>2, <2>1, <2>2, Zenon
  <2> QED
    BY <2>1, <2>3
<1> QED
  BY <1>5 DEF Least

(* Division rounds down to a natural number. *)
LEMMA DivNat ==
  ASSUME NEW a \in Nat, NEW b \in Nat, b > 0
  PROVE  a \div b \in Nat
  OBVIOUS

-----------------------------------------------------------------------------
(* The level for ECM work with t work done, if it is on the table: the      *)
(* first one in the range whose curves are not completed.                   *)
LEMMA ECMLevelProperty ==
  ASSUME NEW t \in Nat, HasWork(t), ~OffTable(t)
  PROVE  /\ ECMLevel(t) \in Level
         /\ InRange(ECMLevel(t)) /\ Incomplete(ECMLevel(t), t)
         /\ \A j \in Level : j < ECMLevel(t) /\ MinB1 <= B1Table[j].b1 => ~Incomplete(j, t)
<1> DEFINE k == ECMLevel(t)
<1>1. Stops(t) \subseteq Nat /\ Stops(t) \subseteq Level /\ Stops(t) # {}
  BY LevelNat DEF Stops, HasWork
<1>2. k = Least(Stops(t))
  BY DEF ECMLevel
<1>3. k \in Stops(t) /\ \A j \in Stops(t) : k <= j
  BY <1>1, <1>2, LeastProperty
<1>4. B1Table[k].b1 <= MaxB1
  BY <1>2 DEF HasWork
<1> HIDE DEF k
<1>5. k \in Level /\ B1Table[k].b1 \in Nat /\ MaxB1 \in Nat /\ MinB1 \in Nat
  BY <1>1, <1>3, LineType, Parameters
<1>6. B1Table[k].b1 >= MinB1 /\ Incomplete(k, t)
  BY <1>3, <1>4, <1>5 DEF Stops
<1>7. ASSUME NEW j \in Level, j < k, MinB1 <= B1Table[j].b1
      PROVE  ~Incomplete(j, t)
  <2>1. j \notin Stops(t)
    BY <1>3, <1>5, <1>7, LevelNat
  <2>2. B1Table[j].b1 \in Nat /\ MinB1 \in Nat
    BY LineType, Parameters
  <2> QED
    BY <1>7, <2>1, <2>2 DEF Stops
<1>8. InRange(k)
  BY <1>4, <1>6, <1>5 DEF InRange
<1> QED
  BY <1>5, <1>6, <1>7, <1>8 DEF k

LEMMA NotOffTable == ASSUME LastReachesMin, NEW t PROVE ~OffTable(t)
  BY LevelNat, LineType, Parameters DEF LastReachesMin, OffTable

(* A unit of ECM work is for that level, and has at least one curve. *)
LEMMA ECMUnitProperty ==
  ASSUME NEW t \in Nat, HasWork(t), ~OffTable(t), NEW u \in ECMUnits(t)
  PROVE  /\ u \in Unit /\ u.method = "ECM" /\ u.curves > 0
         /\ u.b1 = B1Table[ECMLevel(t)].b1
<1> DEFINE e == B1Table[ECMLevel(t)]
           n == (e.sumWork - t) \div e.b1
<1>1. /\ e.b1 \in Nat /\ e.b1 > 0 /\ e.b1 \in B1 /\ e.sumWork \in Nat
      /\ e.sumWork > t
  BY ECMLevelProperty, LineType DEF Incomplete
<1>2. u = [method |-> "ECM", b1 |-> e.b1, curves |-> AtLeastOne(n)]
  BY DEF ECMUnits
<1> HIDE DEF e
<1>3. e.sumWork - t \in Nat
  BY <1>1
<1>4. n \in Nat
  BY <1>1, <1>3, DivNat
<1> HIDE DEF n
<1>5. AtLeastOne(n) \in Nat /\ AtLeastOne(n) > 0
  BY <1>4 DEF AtLeastOne
<1> QED
  BY <1>1, <1>2, <1>5 DEF Unit, Method, e

LEMMA CurvesLeftType ==
  ASSUME NEW d \in [Method -> [B1 -> Nat]], NEW m \in {"P-1", "P+1"}, NEW i \in Level
  PROVE  CurvesLeft(m, i, d) \in Int
<1>1. d[m][B1Table[i].b1] \in Nat
  BY LineType DEF Method
<1> QED
  BY <1>1, LineType DEF CurvesLeft

(* A unit of P-1 or P+1 work is for a level in the range that lacks some. *)
LEMMA OtherUnitProperty ==
  ASSUME NEW v \in Row, Lacking(v) # {}
  PROVE  /\ OtherUnit(v) \in Unit /\ OtherUnit(v).method # "ECM" /\ OtherUnit(v).curves > 0
         /\ MinB1 <= OtherUnit(v).b1 /\ OtherUnit(v).b1 <= MaxB1
<1> DEFINE i == Least(Lacking(v))
           m == IF Lacks("P-1", i, v.done) THEN "P-1" ELSE "P+1"
<1>0. v.done \in [Method -> [B1 -> Nat]]
  BY DEF Row
<1>1. Lacking(v) \subseteq Nat /\ Lacking(v) \subseteq Level
  BY LevelNat DEF Lacking, LookedAt
<1>2. i \in Lacking(v)
  BY <1>1, LeastProperty
<1>3. i \in Level /\ m \in {"P-1", "P+1"} /\ Lacks(m, i, v.done)
  BY <1>1, <1>2 DEF Lacking
<1>4. OtherUnit(v) = [method |-> m, b1 |-> B1Table[i].b1, curves |-> CurvesLeft(m, i, v.done)]
  BY DEF OtherUnit
<1> HIDE DEF i, m
<1>5. CurvesLeft(m, i, v.done) \in Int /\ CurvesLeft(m, i, v.done) > 0 /\ InRange(i)
  BY <1>0, <1>3, CurvesLeftType DEF Lacks
<1>6. B1Table[i].b1 \in B1
  BY <1>3, LineType
<1> QED
  BY <1>3, <1>4, <1>5, <1>6 DEF InRange, Unit, Method

-----------------------------------------------------------------------------
(***************************************************************************)
(* Type correctness.                                                       *)
(***************************************************************************)
(* What a request has fetched has its type. *)
LEMMA SeenType ==
  ASSUME TypeOK, NEW c \in Client, seen[c] # None
  PROVE  seen[c] \in Row /\ seen[c].total \in Nat /\ seen[c].done \in [Method -> [B1 -> Nat]]
<1>1. seen[c] \in Row
  BY DEF TypeOK
<1> QED
  BY <1>1 DEF Row

LEMMA SentUnit ==
  ASSUME TypeOK, NEW c \in Client, SendWork(c)
  PROVE  \/ UNCHANGED assigned
         \/ \E u \in Unit : assigned' = [assigned EXCEPT ![c] = u]
<1> DEFINE v == seen[c]
<1>0. v \in Row /\ v.total \in Nat
  BY SeenType DEF SendWork
<1>1. CASE HasWork(v.total) /\ Lacking(v) # {}
  <2>1. assigned' = [assigned EXCEPT ![c] = OtherUnit(v)]
    BY <1>1 DEF SendWork
  <2> HIDE DEF v
  <2> QED
    BY <1>0, <1>1, <2>1, OtherUnitProperty
<1>2. CASE HasWork(v.total) /\ Lacking(v) = {}
  <2>1. PICK u \in ECMUnits(v.total) : assigned' = [assigned EXCEPT ![c] = u]
    BY <1>2 DEF SendWork
  <2> HIDE DEF v
  <2>2. CASE OffTable(v.total)
    <3>1. PICK b \in Junk, n \in Junk : u = [method |-> "ECM", b1 |-> b, curves |-> AtLeastOne(n)]
      BY <2>1, <2>2 DEF ECMUnits
    <3>2. b \in B1 /\ AtLeastOne(n) \in Nat
      BY <3>1, Parameters DEF B1, AtLeastOne
    <3> QED
      BY <2>1, <3>1, <3>2 DEF Unit, Method
  <2>3. CASE ~OffTable(v.total)
    BY <1>0, <1>2, <2>1, <2>3, ECMUnitProperty
  <2> QED
    BY <2>2, <2>3
<1>3. CASE ~HasWork(v.total)
  BY <1>3 DEF SendWork
<1> QED
  BY <1>1, <1>2, <1>3

LEMMA TypeInit == Init => TypeOK
  BY Parameters DEF Init, TypeOK

LEMMA ReturnType ==
  ASSUME TypeOK, NEW c \in Client, assigned[c] # None, NEW n \in 1..assigned[c].curves,
         ReturnWork(c, n)
  PROVE  TypeOK'
<1> DEFINE u == assigned[c]
<1>1. u \in Unit
  BY DEF TypeOK
<1>2. u.method \in Method /\ u.b1 \in B1 /\ u.b1 \in Nat /\ n \in Nat
  <2>1. u.curves \in Nat
    BY <1>1 DEF Unit
  <2>2. n \in Nat
    BY <2>1
  <2> QED
    BY <1>1, <2>2, B1Nat DEF Unit
<1>3. total' = total + WorkOf(u, n)
  BY DEF ReturnWork
<1>4. done' = [done EXCEPT ![u.method][u.b1] = @ + n]
  BY DEF ReturnWork
<1>5. assigned' = [assigned EXCEPT ![c] = None] /\ lost' = lost /\ seen' = seen
  BY DEF ReturnWork
<1> HIDE DEF u
<1>6. WorkOf(u, n) \in Nat
  BY <1>2 DEF WorkOf
<1>7. total' \in Nat
  BY <1>3, <1>6 DEF TypeOK
<1>8. done' \in [Method -> [B1 -> Nat]]
  <2>1. done[u.method] \in [B1 -> Nat]
    BY <1>2 DEF TypeOK
  <2> DEFINE f == [done[u.method] EXCEPT ![u.b1] = @ + n]
  <2>2. f \in [B1 -> Nat]
    BY <1>2, <2>1
  <2>3. done' = [done EXCEPT ![u.method] = f]
    BY <1>4
  <2> HIDE DEF f
  <2> QED
    BY <1>2, <2>2, <2>3 DEF TypeOK
<1>9. /\ assigned' \in [Client -> Unit \cup {None}] /\ lost' \in 0..MaxLost
      /\ seen' \in [Client -> Row \cup {None}]
  BY <1>5 DEF TypeOK
<1> QED
  BY <1>7, <1>8, <1>9 DEF TypeOK

LEMMA TypeNext == TypeOK /\ [Next]_vars => TypeOK'
<1> SUFFICES ASSUME TypeOK, [Next]_vars
             PROVE  TypeOK'
  OBVIOUS
<1>1. ASSUME NEW c \in Client, SendWork(c) PROVE TypeOK'
  <2>1. assigned' = assigned \/ \E u \in Unit : assigned' = [assigned EXCEPT ![c] = u]
    BY <1>1, SentUnit
  <2>2. assigned' \in [Client -> Unit \cup {None}]
    BY <2>1 DEF TypeOK
  <2>3. seen' \in [Client -> Row \cup {None}]
    BY <1>1 DEF TypeOK, SendWork
  <2> QED
    BY <1>1, <2>2, <2>3 DEF TypeOK, SendWork
<1>5. ASSUME NEW c \in Client, FetchRow(c) PROVE TypeOK'
  <2>1. [total |-> total, done |-> done] \in Row
    BY DEF TypeOK, Row
  <2>2. seen' \in [Client -> Row \cup {None}]
    BY <1>5, <2>1 DEF TypeOK, FetchRow
  <2> QED
    BY <1>5, <2>2 DEF TypeOK, FetchRow
<1>6. ASSUME NEW c \in Client, Rollback(c) PROVE TypeOK'
  <2>1. seen[c] \in Row
    BY <1>6, SeenType DEF Rollback
  <2>2. [seen[c] EXCEPT !.done = done] \in Row
    BY <2>1 DEF TypeOK, Row
  <2>3. seen' \in [Client -> Row \cup {None}]
    BY <1>6, <2>2 DEF TypeOK, Rollback
  <2> QED
    BY <1>6, <2>3 DEF TypeOK, Rollback
<1>2. ASSUME NEW c \in Client, Return(c) PROVE TypeOK'
  BY <1>2, ReturnType DEF Return
<1>3. ASSUME NEW c \in Client, GiveUp(c) PROVE TypeOK'
  <2>1. assigned' \in [Client -> Unit \cup {None}]
    BY <1>3 DEF TypeOK, GiveUp
  <2>2. lost' \in 0..MaxLost
    BY <1>3, Parameters DEF TypeOK, GiveUp
  <2> QED
    BY <1>3, <2>1, <2>2 DEF TypeOK, GiveUp
<1>4. ASSUME UNCHANGED vars PROVE TypeOK'
  BY <1>4 DEF TypeOK, vars
<1> QED
  BY <1>1, <1>2, <1>3, <1>4, <1>5, <1>6 DEF Next

(* The counters and the units keep their types. *)
THEOREM TypeCorrect == Spec => []TypeOK
  BY TypeInit, TypeNext, PTL DEF Spec

-----------------------------------------------------------------------------
(***************************************************************************)
(* Safety.                                                                 *)
(***************************************************************************)
(* What a request has fetched is not ahead of what was committed.           *)
SeenIsPast ==
  \A c \in Client : seen[c] # None =>
    /\ seen[c].total <= total
    /\ \A m \in Method, b \in B1 : seen[c].done[m][b] <= done[m][b]

(* Work only grows. *)
LEMMA Grows ==
  ASSUME TypeOK, [Next]_vars
  PROVE  /\ total \in Nat /\ total' \in Nat /\ total <= total'
         /\ \A m \in Method, b \in B1 :
              done[m][b] \in Nat /\ done'[m][b] \in Nat /\ done[m][b] <= done'[m][b]
<1>0. total \in Nat /\ done \in [Method -> [B1 -> Nat]]
  BY DEF TypeOK
<1>1. ASSUME NEW c \in Client, Return(c)
      PROVE  total' \in Nat /\ total <= total' /\ \A m \in Method, b \in B1 :
               done'[m][b] \in Nat /\ done[m][b] <= done'[m][b]
  <2> DEFINE u == assigned[c]
  <2>1. PICK n \in 1..u.curves : ReturnWork(c, n)
    BY <1>1 DEF Return
  <2>2. u \in Unit
    BY <1>1 DEF TypeOK, Return
  <2>3. u.method \in Method /\ u.b1 \in B1 /\ u.b1 \in Nat /\ n \in Nat
    <3>1. u.curves \in Nat
      BY <2>2 DEF Unit
    <3>2. n \in Nat
      BY <3>1
    <3> QED
      BY <2>2, <3>2, B1Nat DEF Unit
  <2>4. total' = total + WorkOf(u, n) /\ done' = [done EXCEPT ![u.method][u.b1] = @ + n]
    BY <2>1 DEF ReturnWork
  <2> HIDE DEF u
  <2>5. WorkOf(u, n) \in Nat
    BY <2>3 DEF WorkOf
  <2>6. ASSUME NEW m \in Method, NEW b \in B1
        PROVE  done'[m][b] \in Nat /\ done[m][b] <= done'[m][b]
    <3>1. done[m] \in [B1 -> Nat] /\ done[m][b] \in Nat
      BY <1>0
    <3>2. done'[m][b] = IF m = u.method /\ b = u.b1 THEN done[m][b] + n ELSE done[m][b]
      BY <1>0, <2>3, <2>4, <3>1
    <3> QED
      BY <2>3, <3>1, <3>2
  <2> QED
    BY <1>0, <2>4, <2>5, <2>6
<1>2. ASSUME UNCHANGED <<total, done>>
      PROVE  total' \in Nat /\ total <= total' /\ \A m \in Method, b \in B1 :
               done'[m][b] \in Nat /\ done[m][b] <= done'[m][b]
  <2>1. \A m \in Method, b \in B1 : done[m][b] \in Nat
    BY <1>0
  <2> QED
    BY <1>0, <1>2, <2>1
<1>3. (\E c \in Client : Return(c)) \/ UNCHANGED <<total, done>>
  BY DEF Next, vars, FetchRow, Rollback, SendWork, GiveUp
<1> QED
  BY <1>0, <1>1, <1>2, <1>3

(* A step that leaves what a request has fetched, or fetches it again. *)
LEMMA PastNext == TypeOK /\ SeenIsPast /\ [Next]_vars => SeenIsPast'
<1> SUFFICES ASSUME TypeOK, SeenIsPast, [Next]_vars, NEW c \in Client, seen'[c] # None
             PROVE  /\ seen'[c].total <= total'
                    /\ \A m \in Method, b \in B1 : seen'[c].done[m][b] <= done'[m][b]
  BY DEF SeenIsPast
<1> DEFINE Old   == seen'[c] = seen[c]
           Fresh == seen'[c] = [total |-> total, done |-> done]
           Newer == seen[c] # None /\ seen'[c] = [seen[c] EXCEPT !.done = done]
<1>0. seen \in [Client -> Row \cup {None}]
  BY DEF TypeOK
<1>1. Old \/ Fresh \/ Newer
  <2>1. ASSUME NEW d \in Client, FetchRow(d) PROVE Old \/ Fresh
    <3>1. seen' = [seen EXCEPT ![d] = [total |-> total, done |-> done]]
      BY <2>1 DEF FetchRow
    <3> QED
      BY <1>0, <3>1
  <2>2. ASSUME NEW d \in Client, Rollback(d) PROVE Old \/ Newer
    <3>1. seen' = [seen EXCEPT ![d].done = done] /\ seen[d] # None
      BY <2>2 DEF Rollback
    <3> QED
      BY <1>0, <3>1
  <2>3. ASSUME NEW d \in Client, SendWork(d) PROVE Old
    <3>1. seen' = [seen EXCEPT ![d] = None]
      BY <2>3 DEF SendWork
    <3> QED
      BY <1>0, <3>1
  <2>4. ASSUME UNCHANGED seen PROVE Old
    BY <2>4
  <2>5. \/ \E d \in Client : FetchRow(d) \/ Rollback(d) \/ SendWork(d)
        \/ UNCHANGED seen
    BY DEF Next, vars, Return, ReturnWork, GiveUp
  <2> QED
    BY <2>1, <2>2, <2>3, <2>4, <2>5
<1>2. /\ total \in Nat /\ total' \in Nat /\ total <= total'
      /\ \A m \in Method, b \in B1 :
           done[m][b] \in Nat /\ done'[m][b] \in Nat /\ done[m][b] <= done'[m][b]
  BY Grows
<1>3. CASE Old
  <2>1. seen[c] # None
    BY <1>3
  <2>2. seen[c].total \in Nat /\ \A m \in Method, b \in B1 : seen[c].done[m][b] \in Nat
    BY <2>1, SeenType
  <2>3. seen[c].total <= total /\ \A m \in Method, b \in B1 : seen[c].done[m][b] <= done[m][b]
    BY <2>1 DEF SeenIsPast
  <2> QED
    BY <1>2, <1>3, <2>2, <2>3
<1>4. CASE Fresh
  <2>1. seen'[c].total = total /\ seen'[c].done = done
    BY <1>4
  <2> QED
    BY <1>2, <2>1
<1>5. CASE Newer
  <2>1. seen[c].total \in Nat /\ seen[c] \in Row /\ seen[c].total <= total
    BY <1>5, SeenType DEF SeenIsPast
  <2>2. seen'[c].total = seen[c].total /\ seen'[c].done = done
    BY <1>5, <2>1 DEF Row
  <2> QED
    BY <1>2, <2>1, <2>2
<1> QED
  BY <1>1, <1>3, <1>4, <1>5

(* The rows that requests hold are never newer than the committed ones. *)
THEOREM PastCorrect == Spec => []SeenIsPast
<1>1. Init => SeenIsPast
  BY DEF Init, SeenIsPast
<1> QED
  BY <1>1, TypeCorrect, PastNext, PTL DEF Spec

(* A unit that was just handed out is the missing P-1 or P+1 work, or ECM   *)
(* work when none of that is missing, in the row that was fetched.          *)
LEMMA GivenUnit ==
  ASSUME TypeOK, LastReachesMin, NEW c \in Client, SendWork(c)
  PROVE  \/ assigned' = assigned
         \/ \E u \in Unit :
              /\ assigned' = [assigned EXCEPT ![c] = u]
              /\ u.curves > 0 /\ MinB1 <= u.b1 /\ u.b1 <= MaxB1
              /\ u.method = "ECM" => /\ Lacking(seen[c]) = {} /\ HasWork(seen[c].total)
                                     /\ u.b1 = B1Table[ECMLevel(seen[c].total)].b1
<1> DEFINE v == seen[c]
<1>0. v \in Row /\ v.total \in Nat
  BY SeenType DEF SendWork
<1>1. CASE HasWork(v.total) /\ Lacking(v) # {}
  <2>1. assigned' = [assigned EXCEPT ![c] = OtherUnit(v)]
    BY <1>1 DEF SendWork
  <2>2. OtherUnit(v) \in Unit /\ OtherUnit(v).method # "ECM" /\ OtherUnit(v).curves > 0
        /\ MinB1 <= OtherUnit(v).b1 /\ OtherUnit(v).b1 <= MaxB1
    BY <1>0, <1>1, OtherUnitProperty
  <2> QED
    BY <2>1, <2>2
<1>2. CASE HasWork(v.total) /\ Lacking(v) = {}
  <2>1. PICK u \in ECMUnits(v.total) : assigned' = [assigned EXCEPT ![c] = u]
    BY <1>2 DEF SendWork
  <2>2. HasWork(v.total) /\ ~OffTable(v.total)
    BY <1>2, NotOffTable
  <2>3. u \in Unit /\ u.curves > 0 /\ u.b1 = B1Table[ECMLevel(v.total)].b1
    BY <1>0, <2>1, <2>2, ECMUnitProperty
  <2>4. MinB1 <= u.b1 /\ u.b1 <= MaxB1
    BY <1>0, <2>2, <2>3, ECMLevelProperty DEF InRange
  <2> QED
    BY <1>2, <2>1, <2>2, <2>3, <2>4
<1>3. CASE ~HasWork(v.total)
  BY <1>3 DEF SendWork
<1> QED
  BY <1>1, <1>2, <1>3

LEMMA RangeNext == TypeOK /\ LastReachesMin /\ UnitInRange /\ [Next]_vars => UnitInRange'
<1> SUFFICES ASSUME TypeOK, LastReachesMin, UnitInRange, [Next]_vars
             PROVE  UnitInRange'
  OBVIOUS
<1>0. assigned \in [Client -> Unit \cup {None}]
  BY DEF TypeOK
<1>1. ASSUME NEW c \in Client, SendWork(c) PROVE UnitInRange'
  <2>1. CASE assigned' = assigned
    BY <2>1 DEF UnitInRange
  <2>2. CASE assigned' # assigned
    <3>1. PICK u \in Unit : /\ assigned' = [assigned EXCEPT ![c] = u]
                            /\ u.curves > 0 /\ MinB1 <= u.b1 /\ u.b1 <= MaxB1
      BY <1>1, <2>2, GivenUnit
    <3> QED
      BY <1>0, <3>1 DEF UnitInRange
  <2> QED
    BY <2>1, <2>2
<1>2. ASSUME NEW c \in Client, Return(c) PROVE UnitInRange'
  <2>1. assigned' = [assigned EXCEPT ![c] = None]
    BY <1>2 DEF Return, ReturnWork
  <2> QED
    BY <1>0, <2>1 DEF UnitInRange
<1>3. ASSUME NEW c \in Client, GiveUp(c) PROVE UnitInRange'
  BY <1>0, <1>3 DEF UnitInRange, GiveUp
<1>4. ASSUME UNCHANGED assigned PROVE UnitInRange'
  BY <1>4 DEF UnitInRange
<1> QED
  BY <1>1, <1>2, <1>3, <1>4 DEF Next, vars, FetchRow, Rollback

(* minb1= and maxb1= bound every unit that is handed out, the P-1 and P+1   *)
(* work looked up further up the table too, if the table reaches minb1=.    *)
THEOREM RangeCorrect == LastReachesMin /\ Spec => []UnitInRange
<1>1. Init => UnitInRange
  BY DEF Init, UnitInRange
<1>2. LastReachesMin => []LastReachesMin
  <2>1. LastReachesMin => LastReachesMin'
    BY DEF LastReachesMin
  <2> QED
    BY <2>1, PTL
<1> QED
  BY TypeCorrect, RangeNext, <1>1, <1>2, PTL DEF Spec

(* With t work done the loop finds nothing only if the ECM work of every    *)
(* level in the range was done.                                             *)
LEMMA NoWorkProperty ==
  ASSUME NEW t \in Nat, ~HasWork(t), NEW i \in Level, InRange(i)
  PROVE  B1Table[i].sumWork <= t
<1>1. /\ B1Table[i].b1 \in Nat /\ B1Table[i].sumWork \in Nat
      /\ MinB1 \in Nat /\ MaxB1 \in Nat
  BY LineType, Parameters
<1>2. i \notin Stops(t)
  <2>1. CASE Stops(t) = {}
    BY <2>1
  <2>2. CASE Stops(t) # {}
    <3>1. Stops(t) \subseteq Nat /\ Stops(t) \subseteq Level
      BY LevelNat DEF Stops
    <3> DEFINE k == Least(Stops(t))
    <3>2. k \in Level /\ \A j \in Stops(t) : k <= j
      BY <2>2, <3>1, LeastProperty
    <3>3. ~(B1Table[k].b1 <= MaxB1)
      BY <2>2 DEF HasWork
    <3> HIDE DEF k
    <3>4. B1Table[k].b1 \in Nat
      BY <3>2, LineType
    <3>5. ~(k <= i)
      BY <1>1, <3>2, <3>3, <3>4, Sorted DEF InRange
    <3> QED
      BY <3>2, <3>5
  <2> QED
    BY <2>1, <2>2
<1> QED
  BY <1>1, <1>2 DEF Stops, Incomplete, InRange

(* A composite is passed over as finished only when the ECM work of every   *)
(* level in the range was done.                                             *)
THEOREM FinishedCorrect == Spec => []NoneLeftIsDone
<1>1. TypeOK /\ SeenIsPast => NoneLeftIsDone
  <2> SUFFICES ASSUME TypeOK, SeenIsPast
               PROVE  NoneLeftIsDone
    OBVIOUS
  <2>1. total \in Nat
    BY DEF TypeOK
  <2>2. ~HasWork(total) => \A i \in Level : InRange(i) => B1Table[i].sumWork <= total
    BY <2>1, NoWorkProperty
  <2>3. ASSUME NEW c \in Client, seen[c] # None, ~HasWork(seen[c].total),
               NEW i \in Level, InRange(i)
        PROVE  B1Table[i].sumWork <= total
    <3>1. seen[c].total \in Nat /\ seen[c].total <= total /\ B1Table[i].sumWork \in Nat
      BY <2>3, SeenType, LineType DEF SeenIsPast
    <3>2. B1Table[i].sumWork <= seen[c].total
      BY <2>3, <3>1, NoWorkProperty
    <3> QED
      BY <2>1, <3>1, <3>2
  <2> QED
    BY <2>2, <2>3 DEF NoneLeftIsDone
<1> QED
  BY TypeCorrect, PastCorrect, <1>1, PTL

(* Only SendWork gives a client a unit. *)
LEMMA GivenBySendWork ==
  ASSUME TypeOK, [Next]_vars, NEW c \in Client, Given(c)
  PROVE  SendWork(c)
<1>0. assigned \in [Client -> Unit \cup {None}]
  BY DEF TypeOK
<1>1. ASSUME NEW d \in Client, SendWork(d) PROVE SendWork(c)
  <2>1. \E u : assigned' = [assigned EXCEPT ![d] = u]
    BY <1>1 DEF SendWork, Given
  <2>2. c = d
    BY <1>0, <2>1 DEF Given
  <2> QED
    BY <1>1, <2>2
<1>2. ASSUME NEW d \in Client, Return(d) PROVE FALSE
  <2>1. assigned' = [assigned EXCEPT ![d] = None]
    BY <1>2 DEF Return, ReturnWork
  <2> QED
    BY <1>0, <2>1 DEF Given
<1>3. ASSUME NEW d \in Client, GiveUp(d) PROVE FALSE
  BY <1>0, <1>3 DEF Given, GiveUp
<1>4. ASSUME UNCHANGED assigned PROVE FALSE
  BY <1>4 DEF Given
<1> QED
  BY <1>1, <1>2, <1>3, <1>4 DEF Next, vars, FetchRow, Rollback

(* When a client is given ECM work, it is for the level that ECMLevel finds *)
(* and no P-1 or P+1 work is missing, in the row that was fetched.          *)
LEMMA GivenECM ==
  ASSUME TypeOK, LastReachesMin, [Next]_vars,
         NEW c \in Client, Given(c), assigned[c]'.method = "ECM"
  PROVE  /\ seen[c] # None
         /\ assigned[c]'.b1 = B1Table[ECMLevel(seen[c].total)].b1
         /\ Lacking(seen[c]) = {} /\ HasWork(seen[c].total) /\ ~OffTable(seen[c].total)
<1>1. SendWork(c)
  BY GivenBySendWork
<1>2. PICK u \in Unit :
        /\ assigned' = [assigned EXCEPT ![c] = u]
        /\ u.method = "ECM" => /\ Lacking(seen[c]) = {} /\ HasWork(seen[c].total)
                               /\ u.b1 = B1Table[ECMLevel(seen[c].total)].b1
  BY <1>1, GivenUnit DEF Given
<1>3. assigned[c]' = u
  BY <1>2 DEF TypeOK
<1>4. seen[c] # None
  BY <1>1 DEF SendWork
<1> QED
  BY <1>2, <1>3, <1>4, NotOffTable

(* Whatever part of their curves the clients return, in whatever order, and *)
(* however old the row a request has fetched: ECM work is for a level below *)
(* which all is done, and for a finished one only if a return was committed *)
(* after the row was fetched.                                               *)
THEOREM LowestCorrect == LastReachesMin /\ Spec => LowestLevelFirst
<1> DEFINE Lowest(c) ==
      Given(c) /\ assigned[c]'.method = "ECM" =>
        \E i \in Level :
          /\ B1Table[i].b1 = assigned[c]'.b1
          /\ B1Table[i].sumWork > total \/ seen[c].total < total
          /\ \A j \in Level : j < i /\ MinB1 <= B1Table[j].b1 => B1Table[j].sumWork <= total
<1>1. TypeOK /\ SeenIsPast /\ LastReachesMin /\ [Next]_vars => [\A c \in Client : Lowest(c)]_vars
  <2> SUFFICES ASSUME TypeOK, SeenIsPast, LastReachesMin, [Next]_vars,
                      NEW c \in Client, Given(c), assigned[c]'.method = "ECM"
               PROVE  \E i \in Level :
                        /\ B1Table[i].b1 = assigned[c]'.b1
                        /\ B1Table[i].sumWork > total \/ seen[c].total < total
                        /\ \A j \in Level : j < i /\ MinB1 <= B1Table[j].b1 =>
                                              B1Table[j].sumWork <= total
    OBVIOUS
  <2> DEFINE t == seen[c].total
             k == ECMLevel(t)
  <2>1. assigned[c]'.b1 = B1Table[k].b1 /\ HasWork(t) /\ ~OffTable(t) /\ seen[c] # None
    BY GivenECM
  <2>2. t \in Nat /\ t <= total /\ total \in Nat
    BY <2>1, SeenType DEF TypeOK, SeenIsPast
  <2> HIDE DEF t
  <2>3. /\ k \in Level /\ Incomplete(k, t)
        /\ \A j \in Level : j < k /\ MinB1 <= B1Table[j].b1 => ~Incomplete(j, t)
    BY <2>1, <2>2, ECMLevelProperty
  <2> HIDE DEF k
  <2>4. \A j \in Level : ~Incomplete(j, t) => B1Table[j].sumWork <= total
    BY <2>2, LineType DEF Incomplete
  <2>5. B1Table[k].sumWork > total \/ t < total
    BY <2>2, <2>3, LineType DEF Incomplete
  <2> QED
    BY <2>1, <2>3, <2>4, <2>5 DEF t
<1>2. LastReachesMin => []LastReachesMin
  <2>1. LastReachesMin => LastReachesMin'
    BY DEF LastReachesMin
  <2> QED
    BY <2>1, PTL
<1> QED
  BY TypeCorrect, PastCorrect, <1>1, <1>2, PTL DEF Spec, LowestLevelFirst

(* If the P-1 depth is not above the P+1 depth (the loop ends at the lower  *)
(* of the two) and no B1 is on two lines, a composite gets ECM work of a    *)
(* level only when the P-1 work of the p-1depthoverecm levels is done.      *)
THEOREM PM1Correct ==
  LastReachesMin /\ DistinctB1 /\ PM1Depth <= PP1Depth /\ Spec => PM1BeforeECM
<1> DEFINE Table == LastReachesMin /\ DistinctB1 /\ PM1Depth <= PP1Depth
           Before(c, i, j) ==
             /\ Given(c) /\ assigned[c]'.method = "ECM" /\ B1Table[i].b1 = assigned[c]'.b1
             /\ i <= j /\ j < i + PM1Depth /\ B1Table[j].b1 <= MaxB1
             => done["P-1"][B1Table[j].b1] >= B1Table[j].pm1
<1>1. TypeOK /\ SeenIsPast /\ Table /\ [Next]_vars =>
        [\A c \in Client, i, j \in Level : Before(c, i, j)]_vars
  <2> SUFFICES ASSUME TypeOK, SeenIsPast, Table, [Next]_vars,
                      NEW c \in Client, NEW i \in Level, NEW j \in Level,
                      Given(c), assigned[c]'.method = "ECM", B1Table[i].b1 = assigned[c]'.b1,
                      i <= j, j < i + PM1Depth, B1Table[j].b1 <= MaxB1
               PROVE  done["P-1"][B1Table[j].b1] >= B1Table[j].pm1
    OBVIOUS
  <2> DEFINE v == seen[c]
             k == ECMLevel(v.total)
  <2>1. /\ assigned[c]'.b1 = B1Table[k].b1 /\ seen[c] # None
        /\ Lacking(v) = {} /\ HasWork(v.total) /\ ~OffTable(v.total)
    BY GivenECM
  <2>0. v.total \in Nat /\ v.done \in [Method -> [B1 -> Nat]]
    BY <2>1, SeenType
  <2>2. k \in Level /\ InRange(k)
    BY <2>0, <2>1, ECMLevelProperty
  <2>3. i = k
    BY <2>1, <2>2 DEF DistinctB1
  <2>4. j \in LookedAt(v.total)
    BY <2>3, LevelNat, Parameters DEF LookedAt
  <2>5. ~Lacks("P-1", j, v.done)
    BY <2>1, <2>4 DEF Lacking
  <2>6. InRange(j)
    <3>1. /\ MinB1 <= B1Table[i].b1 /\ B1Table[i].b1 <= B1Table[j].b1
          /\ B1Table[i].b1 \in Nat /\ B1Table[j].b1 \in Nat /\ MinB1 \in Nat
      BY <2>2, <2>3, Sorted, LineType, Parameters DEF InRange
    <3> QED
      BY <3>1 DEF InRange
  <2>7. ~(CurvesLeft("P-1", j, v.done) > 0)
    BY <2>5, <2>6 DEF Lacks
  <2> DEFINE b == B1Table[j].b1
  <2>8. /\ v.done["P-1"][b] \in Nat /\ done["P-1"][b] \in Nat /\ B1Table[j].pm1 \in Nat
        /\ v.done["P-1"][b] <= done["P-1"][b]
    <3>1. b \in B1 /\ "P-1" \in Method /\ B1Table[j].pm1 \in Nat
      BY LineType DEF Method
    <3> HIDE DEF b
    <3> QED
      BY <2>0, <2>1, <3>1 DEF TypeOK, SeenIsPast
  <2>9. CurvesLeft("P-1", j, v.done) = B1Table[j].pm1 - v.done["P-1"][b]
    BY DEF CurvesLeft
  <2> HIDE DEF v, b
  <2>10. done["P-1"][b] >= B1Table[j].pm1
    BY <2>7, <2>8, <2>9
  <2> QED
    BY <2>10 DEF b
<1>2. Table => []Table
  <2>1. Table => Table'
    BY DEF LastReachesMin, DistinctB1
  <2> QED
    BY <2>1, PTL
<1> QED
  BY TypeCorrect, PastCorrect, <1>1, <1>2, PTL DEF Spec, PM1BeforeECM

(* Both together: what is handed out is in the range, and nothing is handed *)
(* out only at its end.                                                     *)
THEOREM UnitsAndEndCorrect == LastReachesMin /\ Spec => []UnitsAndEndInRange
<1>1. UnitInRange /\ NoneLeftIsDone => UnitsAndEndInRange
  BY DEF UnitsAndEndInRange
<1> QED
  BY <1>1, RangeCorrect, FinishedCorrect, PTL

(* ECM work comes for the lowest level, and after P-1.                      *)
THEOREM OrderCorrect ==
  LastReachesMin /\ DistinctB1 /\ PM1Depth <= PP1Depth /\ Spec => ECMInOrder
  BY LowestCorrect, PM1Correct DEF ECMInOrder
=============================================================================
