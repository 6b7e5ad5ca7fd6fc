-------------------------- MODULE ClientLoopProofs --------------------------
(***************************************************************************)
(* Theorems of ClientLoop, for any servers, answers, units, signals and    *)
(* starts: the types, that a sudden end costs no completed curve but the    *)
(* one not yet saved or what a file that is being written does not have     *)
(* yet, and that no server is ahead of its share by more than one batch.    *)
(***************************************************************************)
EXTENDS ClientLoop, FiniteSetTheorems, SequenceTheorems, WellFoundedInduction, TLAPS

-----------------------------------------------------------------------------
(***************************************************************************)
(* The lists of units.                                                     *)
(***************************************************************************)
(* A unit with no more curves than it can have, as TypeOK demands.          *)
BoundedUnit == {u \in WorkUnit : u.done <= (IF u.method = "P-1" THEN 1 ELSE u.max)}

UnitLists == Seq(BoundedUnit)

(* Two lists of the same units with the same curves.                        *)
Alike(q, r) ==
  /\ DOMAIN q = DOMAIN r
  /\ \A i \in DOMAIN q : q[i].id = r[i].id /\ q[i].done = r[i].done /\ q[i].max = r[i].max

LEMMA ListsInType ==
  ({units, file} \subseteq [Server -> Seq(WorkUnit)]
     /\ \A w \in Server : \A u \in ToSet(units[w]) \cup ToSet(file[w]) :
          u.done <= (IF u.method = "P-1" THEN 1 ELSE u.max))
  <=> {units, file} \subseteq [Server -> UnitLists]
<1>1. ASSUME NEW q \in Seq(WorkUnit),
             \A u \in ToSet(q) : u.done <= (IF u.method = "P-1" THEN 1 ELSE u.max)
      PROVE  q \in UnitLists
  <2>1. \A i \in 1..Len(q) : q[i] \in BoundedUnit
    BY <1>1 DEF ToSet, BoundedUnit
  <2> QED
    BY <2>1 DEF UnitLists
<1>2. ASSUME NEW q \in UnitLists
      PROVE  /\ q \in Seq(WorkUnit)
             /\ \A u \in ToSet(q) : u.done <= (IF u.method = "P-1" THEN 1 ELSE u.max)
  <2>1. \A i \in 1..Len(q) : q[i] \in BoundedUnit
    BY DEF UnitLists
  <2>2. q \in Seq(WorkUnit)
    BY <2>1 DEF UnitLists, BoundedUnit
  <2> QED
    BY <2>1, <2>2 DEF ToSet, BoundedUnit
<1>3. ASSUME NEW f
      PROVE  (f \in [Server -> Seq(WorkUnit)]
                /\ \A w \in Server : \A u \in ToSet(f[w]) :
                     u.done <= (IF u.method = "P-1" THEN 1 ELSE u.max))
             <=> f \in [Server -> UnitLists]
  BY <1>1, <1>2
<1> QED
  BY <1>3

LEMMA SavedList ==
  ASSUME NEW q \in UnitLists
  PROVE  Saved(q) \in UnitLists /\ Alike(Saved(q), q)
<1>1. ASSUME NEW i \in 1..Len(q)
      PROVE  /\ Saved(q)[i] \in BoundedUnit
             /\ Saved(q)[i].id = q[i].id
             /\ Saved(q)[i].done = q[i].done /\ Saved(q)[i].max = q[i].max
  <2>1. PICK u \in BoundedUnit : u = q[i]
    BY DEF UnitLists
  <2>2. /\ [u EXCEPT !.just = FALSE] \in BoundedUnit
        /\ [u EXCEPT !.just = FALSE].id = u.id
        /\ [u EXCEPT !.just = FALSE].done = u.done /\ [u EXCEPT !.just = FALSE].max = u.max
    BY DEF BoundedUnit, WorkUnit
  <2>3. Saved(q)[i] = [u EXCEPT !.just = FALSE]
    <3>1. i \in DOMAIN q
      BY DEF UnitLists
    <3> QED
      BY <2>1, <3>1 DEF Saved
  <2> QED
    BY <2>1, <2>2, <2>3
<1>2. DOMAIN q = 1..Len(q) /\ Len(q) \in Nat /\ DOMAIN Saved(q) = DOMAIN q
      /\ Saved(q) = [i \in DOMAIN q |-> Saved(q)[i]]
  BY DEF UnitLists, Saved
<1> QED
  BY <1>1, <1>2 DEF UnitLists, Alike

(* What an exit leaves of a list that is being saved.                       *)
LEMMA PrefixList ==
  ASSUME NEW q \in UnitLists, NEW n \in 0..Len(q)
  PROVE  /\ Saved(SubSeq(q, 1, n)) \in UnitLists
         /\ DOMAIN Saved(SubSeq(q, 1, n)) = 1..n
         /\ 1..n \subseteq DOMAIN q /\ DOMAIN q = 1..Len(q) /\ Len(q) \in Nat
         /\ \A i \in 1..n : /\ Saved(SubSeq(q, 1, n))[i].id = q[i].id
                            /\ Saved(SubSeq(q, 1, n))[i].done = q[i].done
                            /\ Saved(SubSeq(q, 1, n))[i].max = q[i].max
<1> DEFINE r == SubSeq(q, 1, n)
<1>1. DOMAIN q = 1..Len(q) /\ Len(q) \in Nat /\ n \in Nat /\ n <= Len(q)
      /\ \A i \in 1..Len(q) : q[i] \in BoundedUnit
  BY DEF UnitLists
<1>2. /\ r \in Seq(BoundedUnit) /\ Len(r) = n /\ DOMAIN r = 1..n
      /\ \A i \in 1..n : r[i] = q[i]
  BY <1>1 DEF UnitLists
<1>3. r \in UnitLists
  BY <1>2 DEF UnitLists
<1> HIDE DEF r
<1>4. Saved(r) \in UnitLists /\ Alike(Saved(r), r)
  BY <1>3, SavedList
<1>5. 1..n \subseteq DOMAIN q
  BY <1>1
<1>6. DOMAIN Saved(r) = 1..n
      /\ \A i \in 1..n : /\ Saved(r)[i].id = q[i].id
                         /\ Saved(r)[i].done = q[i].done /\ Saved(r)[i].max = q[i].max
  BY <1>2, <1>4 DEF Alike
<1> QED
  BY <1>1, <1>4, <1>5, <1>6 DEF r

LEMMA LoadedList ==
  ASSUME NEW q \in UnitLists, NEW r \in Loaded(q)
  PROVE  r \in UnitLists /\ Alike(r, q)
<1>1. PICK mark \in [DOMAIN q -> BOOLEAN] : r = [i \in DOMAIN q |-> [q[i] EXCEPT !.just = mark[i]]]
  BY DEF Loaded, Marks
<1>2. ASSUME NEW i \in 1..Len(q)
      PROVE  /\ r[i] \in BoundedUnit
             /\ r[i].id = q[i].id
             /\ r[i].done = q[i].done /\ r[i].max = q[i].max
  <2>1. PICK u \in BoundedUnit, b \in BOOLEAN : u = q[i] /\ b = mark[i]
    BY DEF UnitLists
  <2>2. /\ [u EXCEPT !.just = b] \in BoundedUnit
        /\ [u EXCEPT !.just = b].id = u.id
        /\ [u EXCEPT !.just = b].done = u.done /\ [u EXCEPT !.just = b].max = u.max
    BY DEF BoundedUnit, WorkUnit
  <2>3. r[i] = [u EXCEPT !.just = b]
    BY <1>1, <2>1 DEF UnitLists
  <2> QED
    BY <2>1, <2>2, <2>3
<1>3. DOMAIN q = 1..Len(q) /\ Len(q) \in Nat /\ DOMAIN r = DOMAIN q /\ r = [i \in DOMAIN q |-> r[i]]
  BY <1>1 DEF UnitLists
<1> QED
  BY <1>2, <1>3 DEF UnitLists, Alike

LEMMA UnmarkedList ==
  ASSUME NEW q \in UnitLists
  PROVE  /\ Unmarked(q) \in UnitLists /\ Alike(Unmarked(q), q)
         /\ \A i \in DOMAIN q : CanDo(q[i]) => CanDo(Unmarked(q)[i])
<1>1. ASSUME NEW i \in 1..Len(q)
      PROVE  /\ Unmarked(q)[i] \in BoundedUnit
             /\ Unmarked(q)[i].id = q[i].id
             /\ Unmarked(q)[i].done = q[i].done /\ Unmarked(q)[i].max = q[i].max
             /\ CanDo(q[i]) => CanDo(Unmarked(q)[i])
  <2>1. PICK u \in BoundedUnit : u = q[i]
    BY DEF UnitLists
  <2>2. /\ [u EXCEPT !.just = FALSE] \in BoundedUnit
        /\ [u EXCEPT !.just = FALSE].id = u.id
        /\ [u EXCEPT !.just = FALSE].done = u.done /\ [u EXCEPT !.just = FALSE].max = u.max
        /\ CanDo(u) => CanDo([u EXCEPT !.just = FALSE])
    BY DEF BoundedUnit, WorkUnit, CanDo
  <2>3. Unmarked(q)[i] \in {u, [u EXCEPT !.just = FALSE]}
    BY <2>1 DEF Unmarked, UnitLists
  <2> QED
    BY <2>1, <2>2, <2>3
<1>2. DOMAIN q = 1..Len(q) /\ Len(q) \in Nat /\ DOMAIN Unmarked(q) = DOMAIN q
      /\ Unmarked(q) = [i \in DOMAIN q |-> Unmarked(q)[i]]
  BY DEF UnitLists, Unmarked
<1> QED
  BY <1>1, <1>2 DEF UnitLists, Alike

LEMMA ReceivedList ==
  ASSUME TypeOK, NEW batch \in Batches, handed + Len(batch) <= MaxUnit,
         NEW r \in Received(batch)
  PROVE  /\ r \in UnitLists /\ Len(r) = Len(batch) /\ DOMAIN r = 1..Len(batch)
         /\ \A i \in DOMAIN r : r[i].id = handed + i /\ r[i].done = 0 /\ r[i].max = batch[i].max
<1>1. batch \in Seq([method : Method, max : Nat \ {0}]) /\ handed \in Nat /\ MaxUnit \in Nat
  <2>1. batch \in Seq([method : Method, max : Nat \ {0}]) /\ MaxUnit \in Nat
    BY ClientAssumption
  <2>2. handed \in 0..MaxUnit
    BY DEF TypeOK
  <2> QED
    BY <2>1, <2>2
<1>2. PICK mark \in [DOMAIN batch -> BOOLEAN] :
        r = [i \in DOMAIN batch |->
               [id |-> handed + i, method |-> batch[i].method, max |-> batch[i].max, done |-> 0,
                result |-> "none", just |-> mark[i]]]
  BY DEF Received, Marks
<1>3. DOMAIN batch = 1..Len(batch) /\ Len(batch) \in Nat
  BY <1>1
<1>4. ASSUME NEW i \in 1..Len(batch)
      PROVE  /\ r[i] \in BoundedUnit /\ r[i].id = handed + i /\ r[i].done = 0
             /\ r[i].max = batch[i].max
  <2>1. PICK b \in [method : Method, max : Nat \ {0}], m \in BOOLEAN : b = batch[i] /\ m = mark[i]
    <3>1. batch[i] \in [method : Method, max : Nat \ {0}]
      <4> DEFINE S == [method : Method, max : Nat \ {0}]
      <4>1. batch \in Seq(S)
        BY <1>1
      <4> HIDE DEF S
      <4>2. batch[i] \in S
        BY <4>1
      <4> QED
        BY <4>2 DEF S
    <3>2. mark[i] \in BOOLEAN
      BY <1>3
    <3> QED
      BY <3>1, <3>2
  <2>2. handed + i \in Unit
    BY <1>1, <1>3 DEF Unit
  <2>3. PICK n \in Unit : n = handed + i
    BY <2>2
  <2>4. r[i] = [id |-> n, method |-> b.method, max |-> b.max, done |-> 0,
                result |-> "none", just |-> m]
    BY <1>2, <1>3, <2>1, <2>3
  <2>5. r[i] \in BoundedUnit
    BY <2>1, <2>4 DEF BoundedUnit, WorkUnit
  <2>6. r[i].id = n /\ r[i].done = 0 /\ r[i].max = b.max
    BY <2>4
  <2> QED
    BY <2>1, <2>3, <2>5, <2>6
<1> QED
  BY <1>2, <1>3, <1>4 DEF UnitLists

(* What is kept of a list: some of its units, in the order of the list.     *)
KeptOf(q, kept) == [k \in DOMAIN kept |-> q[kept[k]]]

LEMMA KeptList ==
  ASSUME NEW q \in UnitLists, NEW P \in SUBSET DOMAIN q, NEW kept \in Selections(P)
  PROVE  /\ KeptOf(q, kept) \in UnitLists
         /\ DOMAIN KeptOf(q, kept) = DOMAIN kept
         /\ \A k \in DOMAIN kept : kept[k] \in P /\ KeptOf(q, kept)[k] = q[kept[k]]
         /\ \A k, l \in DOMAIN kept : kept[k] = kept[l] => k = l
         /\ (kept = <<>>) <=> (DOMAIN kept = {})
<1>1. PICK n \in 0..Cardinality(P) : kept \in [1..n -> P]
  BY DEF Selections
<1>2. \A i, j \in DOMAIN kept : i < j => kept[i] < kept[j]
  BY DEF Selections
<1>3. n \in Nat /\ DOMAIN kept = 1..n
  BY <1>1
<1>4. DOMAIN q = 1..Len(q) /\ Len(q) \in Nat /\ \A i \in DOMAIN q : q[i] \in BoundedUnit
  BY DEF UnitLists
<1>5. \A k \in 1..n : kept[k] \in Nat /\ kept[k] \in P
  BY <1>1, <1>4
<1>6. ASSUME NEW k \in DOMAIN kept, NEW l \in DOMAIN kept, kept[k] = kept[l]
      PROVE  k = l
  <2>1. k \in Nat /\ l \in Nat /\ kept[k] \in Nat
    BY <1>3, <1>5
  <2>2. ~(k < l) /\ ~(l < k)
    BY <1>2, <1>6, <2>1
  <2> QED
    BY <2>1, <2>2
<1>7. KeptOf(q, kept) \in UnitLists
  <2>1. \A k \in 1..n : q[kept[k]] \in BoundedUnit
    BY <1>4, <1>5
  <2> QED
    BY <1>3, <2>1 DEF KeptOf, UnitLists
<1>8. (kept = <<>>) <=> (DOMAIN kept = {})
  BY <1>1
<1> QED
  BY <1>3, <1>5, <1>6, <1>7, <1>8 DEF KeptOf

(* A set of natural numbers has a least member.                             *)
LEMMA LeastMember ==
  ASSUME NEW X, X \subseteq Nat, X # {}
  PROVE  Min(X) \in X /\ \A j \in X : Min(X) <= j
<1> DEFINE R == OpToRel(<, Nat)
<1>1. IsWellFoundedOn(R, Nat)
  BY NatLessThanWellFounded
<1>2. \A i, j \in Nat : j < i => <<j, i>> \in R
  BY SMT DEF OpToRel
<1> HIDE DEF R
<1>3. \E i \in X : \A j \in X : ~ (<<j, i>> \in R)
  BY <1>1, WFMin
<1>4. PICK i \in X : \A j \in X : ~ (<<j, i>> \in R)
  BY <1>3
<1>5. ASSUME NEW j \in X
      PROVE  i <= j
  <2>1. i \in Nat /\ j \in Nat
    OBVIOUS
  <2>2. ~ (<<j, i>> \in R)
    BY <1>4
  <2>3. ~ (j < i)
    BY <1>2, <2>1, <2>2, Zenon
  <2> QED
    BY <2>1, <2>3
<1> QED
  BY <1>5 DEF Min

(* Work::DoCurve comes to a unit of the list.                               *)
LEMMA ChosenInList ==
  ASSUME NEW q \in UnitLists, q # <<>>
  PROVE  Chosen(q) \in DOMAIN q
<1>1. DOMAIN q = 1..Len(q) /\ Len(q) \in Nat /\ Len(q) > 0
  BY DEF UnitLists
<1> DEFINE after == {i \in 1..(Len(q) - 1) : q[i].just /\ CanDo(q[i + 1])}
<1>2. CASE after = {}
  BY <1>1, <1>2 DEF Chosen, AtUnit
<1>3. CASE after # {}
  <2>1. Min(after) \in after
    <3>1. after \subseteq Nat
      BY <1>1
    <3> HIDE DEF after
    <3> QED
      BY <1>3, <3>1, LeastMember
  <2>2. AtUnit(q) = Min(after)
    BY <1>3 DEF AtUnit
  <2>3. Min(after) \in 1..Len(q) /\ Min(after) # 0
    BY <1>1, <2>1
  <2> QED
    BY <1>1, <2>2, <2>3 DEF Chosen
<1> QED
  BY <1>2, <1>3

-----------------------------------------------------------------------------
(***************************************************************************)
(* The inductive invariant.                                                *)
(***************************************************************************)
(* Where the client stands, against the server and the unit it looks at.    *)
PlaceInv ==
  /\ pc \in {"ask", "work", "curve", "save", "counted", "worked"} => at \in Server
  /\ pc = "choose" => level <= NotWanted
  /\ pc \notin {"choose", "incomplete"} => level = 1
  /\ pc \in {"curve", "save"} => running \in DOMAIN units[at]
  /\ pc = "curve" => CanDo(units[at][running])
  /\ pc = "save" /\ workDone => units[at][running].done > 0
  /\ pc = "ended" => \A w \in Server : units[w] = <<>>
  /\ pc \in {"save", "ended"} => open = 0

(* Units in lists, of memory or of files: each was handed out, is there     *)
(* once, and has no more curves than were run.                              *)
Tidy(lists) ==
  \A w \in Server : \A i \in DOMAIN lists[w] :
    /\ lists[w][i].id <= handed
    /\ lists[w][i].done <= ran[lists[w][i].id]
    /\ \A x \in Server : \A j \in DOMAIN lists[x] :
         lists[w][i].id = lists[x][j].id => w = x /\ i = j

(* A file is behind the memory, by the curve to be saved at least.          *)
Behind ==
  \A w, x \in Server : \A i \in DOMAIN Record[w], j \in DOMAIN units[x] :
    Record[w][i].id = units[x][j].id =>
      /\ w = x
      /\ Record[w][i].done <= units[x][j].done
      /\ pc = "save" /\ workDone /\ x = at /\ j = running => Record[w][i].done < units[x][j].done

(* What a file has of units that were not taken back is in memory.          *)
Remembered ==
  \A w \in Server :
    /\ units[w] = <<>> => Record[w] = <<>>
    /\ \A i \in DOMAIN Record[w] :
         Record[w][i].id \notin accepted /\ Record[w][i].done > 0 =>
           \E j \in DOMAIN units[w] : units[w][j].id = Record[w][i].id

Pending == pc = "save" /\ workDone /\ units[at][running].id \notin LetGo

CountInv == IsFiniteSet(Unsaved) /\ Cardinality(Unsaved) <= kills + (IF Pending THEN 1 ELSE 0)

DataInv ==
  /\ Tidy(units) /\ Tidy(Record)
  /\ pc # "ended" => Behind /\ Remembered
  /\ CountInv

-----------------------------------------------------------------------------
(***************************************************************************)
(* Types and places.                                                       *)
(***************************************************************************)
(* The type invariant, with the lists of units by UnitLists.                *)
TypeU ==
  /\ percent \in Percents
  /\ startOption \in StartOptions \cup {Prompt}
  /\ pc \in {"check", "ask", "loop", "choose", "incomplete", "work", "curve", "save",
             "counted", "worked", "return", "final", "report", "delete", "ended"}
  /\ at \in 1..(Len(percent) + 1)
  /\ level \in 1..(NotWanted + 1)
  /\ workDone \in BOOLEAN /\ didWork \in BOOLEAN /\ quitting \in BOOLEAN
  /\ terminating \in BOOLEAN /\ asking \in BOOLEAN /\ shutDown \in BOOLEAN /\ served \in BOOLEAN
  /\ running \in Nat
  /\ units \in [Server -> UnitLists] /\ file \in [Server -> UnitLists]
  /\ totalWork \in [Server -> Nat]
  /\ open \in Server \cup {0}
  /\ stopOption \in {Prompt, ReportWork, ReportQuit, Continue}
  /\ handed \in 0..MaxUnit
  /\ ran \in [Unit -> Nat]
  /\ accepted \subseteq Unit /\ cut \subseteq Unit
  /\ signals \in 0..MaxSignal /\ starts \in 1..MaxStart /\ kills \in Nat

IInv == TypeU /\ PlaceInv /\ DataInv

LEMMA TypeForm == TypeOK <=> TypeU
BY ListsInType DEF TypeOK, TypeU

LEMMA Servers ==
  ASSUME NEW p \in Percents
  PROVE  DOMAIN p = 1..Len(p) /\ Len(p) \in Nat
BY ClientAssumption

LEMMA Levels == Wanted = 6 /\ NotWanted = 7 /\ DOMAIN OverWork = 1..5
BY DEF Wanted, NotWanted, OverWork

LEMMA EmptyList == <<>> \in UnitLists /\ DOMAIN <<>> = {} /\ \A q \in UnitLists : q # <<>> <=> DOMAIN q # {}
<1>1. <<>> \in UnitLists /\ DOMAIN <<>> = {}
  BY DEF UnitLists
<1>2. \A q \in Seq(BoundedUnit) : q # <<>> <=> DOMAIN q # {}
  OBVIOUS
<1> QED
  BY <1>1, <1>2 DEF UnitLists

(* What a session leaves of the units, the files and the units taken back,  *)
(* when it keeps the units at these positions.                              *)
LEMMA ReturnedLists ==
  ASSUME TypeU, NEW w \in Server, ReturnWork(w)
  PROVE  /\ units' \in [Server -> UnitLists] /\ file' \in [Server -> UnitLists]
         /\ accepted' \subseteq Unit /\ served' \in BOOLEAN
         /\ units[w] = <<>> => units' = units
         /\ \A x \in Server \ {w} : units'[x] = units[x]
<1>1. CASE units' = units /\ file' = file /\ accepted' = accepted /\ served' \in BOOLEAN
  BY <1>1 DEF TypeU
<1>2. CASE /\ units[w] # <<>>
           /\ \E kept \in Selections(Reported(w)) :
                /\ units' = [units EXCEPT ![w] = KeptOf(units[w], kept)]
                /\ accepted' = accepted \cup {units[w][i].id : i \in Reported(w) \ Range(kept)}
                /\ file' = IF kept = <<>> THEN [file EXCEPT ![w] = <<>>] ELSE file
                /\ served' = (served /\ kept = <<>>)
  <2>1. PICK kept \in Selections(Reported(w)) :
          /\ units' = [units EXCEPT ![w] = KeptOf(units[w], kept)]
          /\ accepted' = accepted \cup {units[w][i].id : i \in Reported(w) \ Range(kept)}
          /\ file' = IF kept = <<>> THEN [file EXCEPT ![w] = <<>>] ELSE file
          /\ served' = (served /\ kept = <<>>)
    BY <1>2
  <2>2. units[w] \in UnitLists /\ Reported(w) \in SUBSET DOMAIN units[w]
    BY DEF TypeU, Reported
  <2>3. KeptOf(units[w], kept) \in UnitLists
    BY <2>2, KeptList
  <2>4. ASSUME NEW i \in DOMAIN units[w]
        PROVE  units[w][i].id \in Unit
    BY <2>2 DEF UnitLists, BoundedUnit, WorkUnit
  <2>5. accepted' \subseteq Unit
    BY <2>1, <2>4 DEF TypeU, Reported
  <2>6. file' \in [Server -> UnitLists]
    BY <2>1, EmptyList DEF TypeU
  <2> QED
    BY <1>2, <2>1, <2>3, <2>5, <2>6 DEF TypeU
<1> QED
  BY <1>1, <1>2 DEF ReturnWork, KeptOf, TypeU

(* The end of the program.                                                  *)
LEMMA EndedType ==
  ASSUME TypeU, Ended, UNCHANGED percent, file' \in [Server -> UnitLists], cut' \subseteq Unit,
         UNCHANGED <<handed, ran, accepted, starts>>,
         signals' \in 0..MaxSignal, kills' \in Nat
  PROVE  TypeU' /\ PlaceInv'
<1>1. Server' = Server /\ Len(percent) \in Nat
  BY Servers DEF Server, TypeU
<1>2. units' \in [Server -> UnitLists] /\ totalWork' \in [Server -> Nat]
  BY EmptyList DEF Ended
<1>3. TypeU'
  <2>1. 1 \in 1..(Len(percent) + 1) /\ 1 \in 1..(NotWanted + 1)
    BY <1>1, Levels
  <2>2. /\ startOption' \in StartOptions \cup {Prompt} /\ pc' = "ended"
        /\ at' \in 1..(Len(percent) + 1) /\ level' \in 1..(NotWanted + 1)
        /\ workDone' \in BOOLEAN /\ didWork' \in BOOLEAN /\ quitting' \in BOOLEAN
        /\ terminating' \in BOOLEAN /\ shutDown' \in BOOLEAN /\ served' \in BOOLEAN
        /\ asking' \in BOOLEAN /\ open' = 0
        /\ running' \in Nat /\ stopOption' \in {Prompt, ReportWork, ReportQuit, Continue}
    BY <2>1 DEF Ended
  <2> QED
    BY <1>1, <1>2, <2>2 DEF TypeU
<1>4. PlaceInv'
  BY <1>1 DEF Ended, PlaceInv
<1> QED
  BY <1>3, <1>4

(* ... when it is sudden.                                                   *)
LEMMA SuddenType ==
  ASSUME TypeU, SuddenEnd, UNCHANGED percent, UNCHANGED <<handed, ran, accepted, starts>>,
         signals' \in 0..MaxSignal
  PROVE  TypeU' /\ PlaceInv'
<1>1. Ended
  BY DEF SuddenEnd
<1>2. file' \in [Server -> UnitLists] /\ cut' \subseteq Unit /\ kills' \in Nat
  <2>1. CASE open = 0
    BY <2>1 DEF SuddenEnd, TypeU
  <2>2. CASE open # 0
    <3>1. PICK n \in 0..Len(units[open]) :
            /\ file' = [file EXCEPT ![open] = Saved(SubSeq(units[open], 1, n))]
            /\ cut' = cut \cup {units[open][i].id : i \in (n + 1)..Len(units[open])}
      BY <2>2 DEF SuddenEnd
    <3>2. open \in Server /\ units[open] \in UnitLists
      BY <2>2 DEF TypeU
    <3>3. Saved(SubSeq(units[open], 1, n)) \in UnitLists
      BY <3>2, PrefixList
    <3>4. file' \in [Server -> UnitLists]
      BY <3>1, <3>2, <3>3 DEF TypeU
    <3>5. ASSUME NEW i \in (n + 1)..Len(units[open])
          PROVE  units[open][i].id \in Unit
      <4>1. units[open][i] \in BoundedUnit
        <5>1. i \in 1..Len(units[open])
          BY <3>2 DEF UnitLists
        <5> QED
          BY <3>2, <5>1 DEF UnitLists
      <4> QED
        BY <4>1 DEF BoundedUnit, WorkUnit
    <3>6. cut' \subseteq Unit
      BY <3>1, <3>5 DEF TypeU
    <3>7. kills' \in Nat
      BY <2>2 DEF SuddenEnd, TypeU
    <3> QED
      BY <3>4, <3>6, <3>7
  <2> QED
    BY <2>1, <2>2
<1> QED
  BY <1>1, <1>2, EndedType

(* What SetQuitting sets.                                                   *)
LEMMA QuittingType ==
  ASSUME TypeU, NEW sig, SetQuitting(sig)
  PROVE  /\ terminating' \in BOOLEAN /\ quitting' \in BOOLEAN /\ asking' \in BOOLEAN
         /\ stopOption' \in {Prompt, ReportWork, ReportQuit, Continue}
BY DEF SetQuitting, AsksAfter, ReprocessedStopOption, TypeU

LEMMA TypeStep ==
  ASSUME TypeU, PlaceInv, [Next]_vars
  PROVE  TypeU' /\ PlaceInv'
<1> USE DEF Server
<1>s. /\ percent' = percent /\ Server' = Server /\ Server = 1..Len(percent) /\ Len(percent) \in Nat
      /\ 1 \in 1..(Len(percent) + 1) /\ 1 \in 1..(NotWanted + 1)
      /\ \A w \in Server : w \in 1..(Len(percent) + 1) /\ w + 1 \in 1..(Len(percent) + 1)
  <2>1. percent' = percent
    BY DEF Next, Main, Step, WriteFile, EndLoop, DeleteWork, Return, AnswerStop, vars, CheckFinished, CheckUnfinished, EndCheck, EndCheckAndExit, Loop, WorkIsHere,
       GetWork, NextServer, NextAttempt, Pause, StartCurve, CurveCompleted, CurveInterrupted, Save,
       CountCurve, EndDoWork, ReturnAll, ReturnFinally, Signal, SignalAgain, Kill, Start
  <2> QED
    BY <2>1, Servers, Levels DEF TypeU
<1>1. CASE CheckFinished
  <2>1. /\ units' \in [Server -> UnitLists] /\ file' \in [Server -> UnitLists]
        /\ accepted' \subseteq Unit /\ served' \in BOOLEAN
    BY <1>1, ReturnedLists DEF CheckFinished, TypeU
  <2> QED
    BY <1>1, <1>s, <2>1 DEF CheckFinished, TypeU, PlaceInv, stops
<1>2. CASE CheckUnfinished
  <2>1. at \in Server
    BY <1>2 DEF CheckUnfinished, PlaceInv
  <2>2. /\ units' \in [Server -> UnitLists] /\ file' \in [Server -> UnitLists]
        /\ accepted' \subseteq Unit /\ served' \in BOOLEAN
    BY <1>2, <2>1, ReturnedLists DEF CheckUnfinished, TypeU
  <2>3. shutDown' \in BOOLEAN
    BY <1>2 DEF CheckUnfinished, TypeU
  <2>4. pc' = "check" /\ at' \in 1..(Len(percent) + 1)
    BY <1>2, <1>s, <2>1 DEF CheckUnfinished
  <2> QED
    BY <1>2, <1>s, <2>2, <2>3, <2>4 DEF CheckUnfinished, TypeU, PlaceInv, stops
<1>3. CASE EndCheck
  BY <1>3, <1>s, Levels DEF EndCheck, TypeU, PlaceInv, work, stops, Prompt
<1>4. CASE EndCheckAndExit
  BY <1>4, EndedType DEF EndCheckAndExit, TypeU
<1>5. CASE Loop
  BY <1>5, <1>s, Levels DEF Loop, TypeU, PlaceInv, work, stops
<1>6. CASE WorkIsHere
  BY <1>6, <1>s, Levels DEF WorkIsHere, TypeU, PlaceInv, work, stops, DoWork
<1>7. CASE GetWork
  <2>1. PICK batch \in Batches :
          /\ handed + Len(batch) <= MaxUnit
          /\ units' \in {[units EXCEPT ![at] = list] : list \in Received(batch)}
          /\ IF batch = <<>> THEN UNCHANGED <<file, open>>
             ELSE file' = [file EXCEPT ![at] = <<>>] /\ open' = at
          /\ handed' = handed + Len(batch)
          /\ served' = (served /\ batch # <<>>)
    BY <1>7 DEF GetWork
  <2>2. PICK list \in Received(batch) : units' = [units EXCEPT ![at] = list]
    BY <2>1
  <2>3. at \in Server
    BY <1>7 DEF GetWork
  <2>4. list \in UnitLists
    BY <2>1, ReceivedList, TypeForm
  <2>5. units' \in [Server -> UnitLists] /\ units'[at] = list
    BY <2>2, <2>3, <2>4 DEF TypeU
  <2>6. file' \in [Server -> UnitLists] /\ open' \in Server \cup {0}
    BY <2>1, <2>3, EmptyList DEF TypeU
  <2>7. handed' \in 0..MaxUnit
    <3>1. Len(batch) \in Nat /\ MaxUnit \in Nat
      BY ClientAssumption
    <3> QED
      BY <2>1, <3>1 DEF TypeU
  <2> QED
    <3>1. TypeU'
      <4>1. served' \in BOOLEAN /\ workDone' \in BOOLEAN /\ pc' = "work" /\ at' = at /\ level' = 1
        BY <1>7, <2>1 DEF GetWork, DoWork, TypeU
      <4> QED
        BY <1>7, <1>s, <2>3, <2>5, <2>6, <2>7, <4>1 DEF GetWork, TypeU, stops
    <3>2. PlaceInv'
      BY <1>7, <1>s, <2>3 DEF GetWork, DoWork, PlaceInv
    <3> QED
      BY <3>1, <3>2
<1>8. CASE NextServer
  BY <1>8, <1>s, Levels DEF NextServer, TypeU, PlaceInv, work, stops, Asks
<1>9. CASE NextAttempt
  <2>1. level \in 1..7
    BY <1>9, Levels DEF NextAttempt, TypeU, PlaceInv
  <2> QED
    BY <1>9, <1>s, <2>1, Levels DEF NextAttempt, TypeU, PlaceInv, work, stops
<1>10. CASE Pause
  BY <1>10, <1>s, Levels DEF Pause, TypeU, PlaceInv, work, stops
<1>11. CASE StartCurve
  <2> DEFINE i == Chosen(units[at])
  <2>1. at \in Server /\ units[at] \in UnitLists
    BY <1>11 DEF StartCurve, PlaceInv, TypeU
  <2>2. CASE UNCHANGED units /\ pc' = "worked" /\ UNCHANGED <<running, workDone>>
    BY <1>11, <1>s, <2>1, <2>2 DEF StartCurve, TypeU, PlaceInv, stops
  <2>3. CASE /\ CanDoAnotherCurve(at)
             /\ units' = [units EXCEPT ![at] = Unmarked(@)]
             /\ IF CanDo(units[at][i])
                THEN pc' = "curve" /\ running' = i /\ UNCHANGED workDone
                ELSE pc' = "worked" /\ workDone' = FALSE /\ UNCHANGED running
    <3>1. units[at] # <<>>
      BY <2>1, <2>3, EmptyList DEF CanDoAnotherCurve
    <3>2. i \in DOMAIN units[at] /\ i \in Nat
      <4>1. Chosen(units[at]) \in DOMAIN units[at]
        BY <2>1, <3>1, ChosenInList
      <4>2. DOMAIN units[at] \subseteq Nat
        BY <2>1 DEF UnitLists
      <4> QED
        BY <4>1, <4>2
    <3>3. /\ Unmarked(units[at]) \in UnitLists /\ DOMAIN Unmarked(units[at]) = DOMAIN units[at]
          /\ CanDo(units[at][i]) => CanDo(Unmarked(units[at])[i])
      BY <2>1, <3>2, UnmarkedList DEF Alike
    <3>4. units'[at] = Unmarked(units[at]) /\ units' \in [Server -> UnitLists]
      BY <2>1, <2>3, <3>3 DEF TypeU
    <3> HIDE DEF i
    <3>5. running' \in Nat /\ workDone' \in BOOLEAN /\ pc' \in {"curve", "worked"} /\ at' = at /\ level' = level
      BY <1>11, <2>3, <3>2 DEF StartCurve, TypeU
    <3>6. TypeU'
      BY <1>11, <1>s, <3>4, <3>5 DEF StartCurve, TypeU, stops
    <3>7. pc' = "curve" => running' = i /\ CanDo(units[at][i])
      BY <2>3
    <3>8. PlaceInv'
      BY <1>11, <1>s, <2>1, <3>2, <3>3, <3>4, <3>5, <3>7 DEF StartCurve, PlaceInv
    <3> QED
      BY <3>6, <3>8
  <2> QED
    BY <1>11, <2>2, <2>3 DEF StartCurve
<1>12. CASE open = 0 /\ CurveCompleted
  <2>1. at \in Server /\ running \in DOMAIN units[at] /\ CanDo(units[at][running])
    BY <1>12 DEF CurveCompleted, PlaceInv
  <2>2. PICK result \in Results :
          units' = [units EXCEPT ![at][running] =
                      [units[at][running] EXCEPT !.done = @ + 1, !.just = running < Len(units[at]), !.result = result]]
    BY <1>12 DEF CurveCompleted
  <2>3. PICK q \in UnitLists : q = units[at]
    BY <2>1 DEF TypeU
  <2>4. q \in Seq(BoundedUnit) /\ running \in DOMAIN q /\ CanDo(q[running])
    BY <2>1, <2>3 DEF UnitLists
  <2>5. PICK u \in BoundedUnit, b \in BOOLEAN : u = q[running] /\ b = (running < Len(q))
    <3>1. q[running] \in BoundedUnit
      BY <2>4
    <3>2. (running < Len(q)) \in BOOLEAN
      OBVIOUS
    <3> QED
      BY <3>1, <3>2, Zenon
  <2>6. PICK v \in BoundedUnit :
          v = [u EXCEPT !.done = @ + 1, !.just = b, !.result = result]
          /\ v.id = u.id /\ v.done = u.done + 1
    <3>1. /\ [u EXCEPT !.done = @ + 1, !.just = b, !.result = result] \in BoundedUnit
          /\ [u EXCEPT !.done = @ + 1, !.just = b, !.result = result].id = u.id
          /\ [u EXCEPT !.done = @ + 1, !.just = b, !.result = result].done = u.done + 1
      <4>1. /\ u \in WorkUnit /\ u.done < u.max /\ ~(u.method = "P-1" /\ u.done > 0)
            /\ u.done \in Nat /\ u.max \in Nat
        BY <2>4, <2>5 DEF BoundedUnit, WorkUnit, CanDo
      <4>2. PICK w \in WorkUnit : w = [u EXCEPT !.done = @ + 1, !.just = b, !.result = result]
            /\ w.id = u.id /\ w.done = u.done + 1 /\ w.max = u.max /\ w.method = u.method
        <5>1. result \in {"none", "factor", "number"} /\ u.done + 1 \in Nat
          BY <4>1, <2>2 DEF Results
        <5>2. PICK n \in Nat : n = u.done + 1
          BY <5>1
        <5>3. [u EXCEPT !.done = @ + 1, !.just = b, !.result = result]
                = [u EXCEPT !.done = n, !.just = b, !.result = result]
          BY <5>2
        <5>4. [u EXCEPT !.done = n, !.just = b, !.result = result] \in WorkUnit
          BY <4>1, <5>1 DEF WorkUnit
        <5>5. /\ [u EXCEPT !.done = n, !.just = b, !.result = result].id = u.id
              /\ [u EXCEPT !.done = n, !.just = b, !.result = result].done = n
              /\ [u EXCEPT !.done = n, !.just = b, !.result = result].max = u.max
              /\ [u EXCEPT !.done = n, !.just = b, !.result = result].method = u.method
          BY <4>1 DEF WorkUnit
        <5> QED
          BY <5>2, <5>3, <5>4, <5>5
      <4>3. w.done <= (IF w.method = "P-1" THEN 1 ELSE w.max)
        BY <4>1, <4>2
      <4> QED
        BY <4>2, <4>3 DEF BoundedUnit
    <3> QED
      BY <3>1
  <2>7. units' = [units EXCEPT ![at] = [q EXCEPT ![running] = v]]
    BY <2>1, <2>2, <2>3, <2>5, <2>6 DEF TypeU
  <2>8. /\ [q EXCEPT ![running] = v] \in UnitLists /\ DOMAIN [q EXCEPT ![running] = v] = DOMAIN q
        /\ [q EXCEPT ![running] = v][running] = v
    BY <2>4, <2>6 DEF UnitLists
  <2>9. /\ units' \in [Server -> UnitLists]
        /\ running \in DOMAIN units'[at] /\ units'[at][running] = v
    BY <2>1, <2>4, <2>7, <2>8 DEF TypeU
  <2>10. v.done > 0
    BY <2>6 DEF BoundedUnit, WorkUnit
  <2>11. ran' \in [Unit -> Nat]
    <3>1. units[at][running].id \in Unit
      BY <2>3, <2>5 DEF BoundedUnit, WorkUnit
    <3> QED
      BY <1>12, <3>1 DEF CurveCompleted, TypeU
  <2> QED
    BY <1>12, <1>s, <2>1, <2>9, <2>10, <2>11 DEF CurveCompleted, TypeU, PlaceInv, stops
<1>13. CASE open = 0 /\ CurveInterrupted
  <2>1. /\ terminating' \in BOOLEAN /\ quitting' \in BOOLEAN /\ asking' \in BOOLEAN
        /\ stopOption' \in {Prompt, ReportWork, ReportQuit, Continue}
    BY <1>13, QuittingType DEF CurveInterrupted
  <2> QED
    BY <1>13, <1>s, <2>1, Levels DEF CurveInterrupted, TypeU, PlaceInv, work
<1>14. CASE Save
  <2>1. at \in Server
    BY <1>14 DEF Save, PlaceInv
  <2>2. file' \in [Server -> UnitLists] /\ open' \in Server \cup {0}
    BY <1>14, <2>1, EmptyList DEF Save, TypeU
  <2> QED
    BY <1>14, <1>s, <2>1, <2>2 DEF Save, TypeU, PlaceInv, stops
<1>15. CASE CountCurve
  <2>1. at \in Server
    BY <1>15 DEF CountCurve, PlaceInv
  <2>2. stopOption' \in {Prompt, ReportWork, ReportQuit, Continue} /\ pc' \in {"work", "worked"}
        /\ totalWork' \in [Server -> Nat]
    BY <1>15, <2>1 DEF CountCurve, TypeU, ReprocessedStopOption
  <2> QED
    BY <1>15, <1>s, <2>1, <2>2 DEF CountCurve, TypeU, PlaceInv, work
<1>16. CASE EndDoWork
  <2>1. /\ terminating' \in BOOLEAN /\ quitting' \in BOOLEAN /\ asking' \in BOOLEAN
        /\ stopOption' \in {Prompt, ReportWork, ReportQuit, Continue} /\ pc' \in {"final", "return"}
    BY <1>16, QuittingType DEF EndDoWork, TypeU
  <2> QED
    BY <1>16, <1>s, <2>1 DEF EndDoWork, TypeU, PlaceInv, work
<1>17. CASE ReturnAll
  <2>1. /\ units' \in [Server -> UnitLists] /\ file' \in [Server -> UnitLists]
        /\ accepted' \subseteq Unit /\ served' \in BOOLEAN
    BY <1>17, ReturnedLists DEF ReturnAll, TypeU
  <2>2. at' \in 1..(Len(percent) + 1) /\ pc' \in {"return", "loop", "final"}
    BY <1>17, <1>s DEF ReturnAll
  <2> QED
    BY <1>17, <1>s, <2>1, <2>2 DEF ReturnAll, TypeU, PlaceInv, stops
<1>18. CASE ReturnFinally
  <2>1. /\ units' \in [Server -> UnitLists] /\ file' \in [Server -> UnitLists]
        /\ accepted' \subseteq Unit /\ served' \in BOOLEAN
    BY <1>18, ReturnedLists DEF ReturnFinally, TypeU
  <2>2. at' \in 1..(Len(percent) + 1) /\ pc' \in {"report", "delete"}
    BY <1>18, <1>s DEF ReturnFinally
  <2> QED
    BY <1>18, <1>s, <2>1, <2>2 DEF ReturnFinally, TypeU, PlaceInv, stops
<1>19. CASE EndLoop
  BY <1>19, <1>s, Levels DEF EndLoop, TypeU, PlaceInv, work, stops
<1>20. CASE DeleteWork
  <2>1. file' \in [Server -> UnitLists] /\ open' \in Server \cup {0}
    BY <1>20, EmptyList DEF DeleteWork, TypeU
  <2>2. at' \in 1..(Len(percent) + 1) /\ pc' = "delete"
    BY <1>20, <1>s DEF DeleteWork
  <2> QED
    BY <1>20, <1>s, <2>1, <2>2 DEF DeleteWork, TypeU, PlaceInv, stops
<1>21. CASE Return
  BY <1>21, EndedType DEF Return, TypeU
<1>25. CASE WriteFile
  <2>1. open \in Server /\ Saved(units[open]) \in UnitLists
    BY <1>25, SavedList DEF WriteFile, TypeU
  <2>2. file' \in [Server -> UnitLists] /\ open' = 0
    BY <1>25, <2>1 DEF WriteFile, TypeU
  <2> QED
    BY <1>25, <1>s, <2>2 DEF WriteFile, TypeU, PlaceInv, stops, CanDo
<1>26. CASE Signal
  <2>1. signals' \in 0..MaxSignal
    BY <1>26, ClientAssumption DEF Signal, TypeU
  <2>2. /\ terminating' \in BOOLEAN /\ quitting' \in BOOLEAN /\ asking' \in BOOLEAN
        /\ stopOption' \in {Prompt, ReportWork, ReportQuit, Continue}
    BY <1>26, QuittingType DEF Signal
  <2>3. TypeU'
    BY <1>26, <1>s, <2>1, <2>2 DEF Signal, TypeU, work
  <2>4. PlaceInv'
    BY <1>26, <1>s DEF Signal, PlaceInv, work, CanDo
  <2> QED
    BY <2>3, <2>4
<1>27. CASE AnswerStop
  <2>1. TypeU'
    BY <1>27, <1>s DEF AnswerStop, TypeU, work
  <2>2. PlaceInv'
    BY <1>27, <1>s DEF AnswerStop, PlaceInv, work, CanDo
  <2> QED
    BY <2>1, <2>2
<1>28. CASE SignalAgain
  <2>1. signals' \in 0..MaxSignal
    BY <1>28, ClientAssumption DEF SignalAgain, TypeU
  <2> QED
    BY <1>28, <2>1, SuddenType DEF SignalAgain
<1>22. CASE Kill
  BY <1>22, SuddenType DEF Kill, TypeU
<1>23. CASE Start
  <2>1. units' \in [Server -> UnitLists]
    BY <1>23, LoadedList DEF Start, TypeU
  <2>2. starts' \in 1..MaxStart
    BY <1>23, ClientAssumption DEF Start, TypeU
  <2>3. pc' = "check" /\ level' = 1
    BY <1>23 DEF Start, PlaceInv
  <2>4. stopOption' \in {Prompt, ReportWork, ReportQuit, Continue} /\ startOption' \in StartOptions /\ didWork' \in BOOLEAN
    BY <1>23 DEF Start, StopOptions
  <2> QED
    BY <1>23, <1>s, <2>1, <2>2, <2>3, <2>4 DEF Start, TypeU, PlaceInv
<1>24. CASE UNCHANGED vars
  BY <1>24, <1>s DEF vars, work, stops, TypeU, PlaceInv, CanDo
<1> QED
  BY <1>1, <1>2, <1>3, <1>4, <1>5, <1>6, <1>7, <1>8, <1>9, <1>10, <1>11, <1>12, <1>13, <1>14, <1>15, <1>16, <1>17, <1>18, <1>19, <1>20, <1>21, <1>22, <1>23, <1>24, <1>25, <1>26, <1>27, <1>28
     DEF Next, Main, Step

-----------------------------------------------------------------------------
(***************************************************************************)
(* Curves in memory and in files.                                          *)
(***************************************************************************)
(* The number of unsaved curves grows by no more than one, or not at all.   *)
LEMMA NoMore ==
  ASSUME CountInv, kills \in Nat, NEW X, X \subseteq Unsaved, NEW n \in Nat,
         n >= kills + (IF Pending THEN 1 ELSE 0)
  PROVE  IsFiniteSet(X) /\ Cardinality(X) <= n
<1>1. IsFiniteSet(Unsaved) /\ Cardinality(Unsaved) <= kills + (IF Pending THEN 1 ELSE 0)
  BY DEF CountInv
<1>2. IsFiniteSet(X) /\ Cardinality(X) <= Cardinality(Unsaved)
  BY <1>1, FS_Subset
<1>3. Cardinality(X) \in Nat /\ Cardinality(Unsaved) \in Nat
  BY <1>1, <1>2, FS_CardinalityType
<1> QED
  BY <1>1, <1>2, <1>3

LEMMA OneMore ==
  ASSUME CountInv, kills \in Nat, ~Pending, NEW X, NEW c, X \subseteq Unsaved \cup {c}
  PROVE  IsFiniteSet(X) /\ Cardinality(X) <= kills + 1
<1>1. IsFiniteSet(Unsaved) /\ Cardinality(Unsaved) <= kills
  BY DEF CountInv
<1>2. IsFiniteSet(Unsaved \cup {c}) /\ Cardinality(Unsaved \cup {c}) \in {Cardinality(Unsaved), Cardinality(Unsaved) + 1}
  BY <1>1, FS_AddElement
<1>3. IsFiniteSet(X) /\ Cardinality(X) <= Cardinality(Unsaved \cup {c})
  BY <1>2, FS_Subset
<1>4. Cardinality(X) \in Nat /\ Cardinality(Unsaved) \in Nat
  BY <1>1, <1>3, FS_CardinalityType
<1> QED
  BY <1>1, <1>2, <1>3, <1>4

LEMMA OneLess ==
  ASSUME CountInv, kills \in Nat, NEW X, NEW c \in Unsaved, X \subseteq Unsaved \ {c}
  PROVE  IsFiniteSet(X) /\ Cardinality(X) <= kills
<1>1. IsFiniteSet(Unsaved) /\ Cardinality(Unsaved) <= kills + 1
  <2>1. Cardinality(Unsaved) \in Nat
    BY FS_CardinalityType DEF CountInv
  <2> QED
    BY <2>1 DEF CountInv
<1>2. IsFiniteSet(Unsaved \ {c}) /\ Cardinality(Unsaved \ {c}) = Cardinality(Unsaved) - 1
  BY <1>1, FS_RemoveElement
<1>3. IsFiniteSet(X) /\ Cardinality(X) <= Cardinality(Unsaved \ {c})
  BY <1>2, FS_Subset
<1>4. Cardinality(X) \in Nat /\ Cardinality(Unsaved) \in Nat
  BY <1>1, <1>3, FS_CardinalityType
<1> QED
  BY <1>1, <1>2, <1>3, <1>4

(* The members of the lists have their types.                               *)
LEMMA UnitFields ==
  ASSUME NEW q \in UnitLists, NEW i \in DOMAIN q
  PROVE  q[i].id \in Unit /\ q[i].done \in Nat
BY DEF UnitLists, BoundedUnit, WorkUnit

(* 0 in the variable open stands for no server.                             *)
LEMMA NoServer ==
  ASSUME TypeU
  PROVE  0 \notin Server
<1>1. percent \in Percents
  BY DEF TypeU
<1>2. DOMAIN percent = 1..Len(percent) /\ Len(percent) \in Nat
  BY <1>1, Servers
<1> QED
  BY <1>2 DEF Server

(* The files as they will be have the types of files, and are the files     *)
(* while none is being written.                                             *)
LEMMA RecordType ==
  ASSUME TypeU
  PROVE  Record \in [Server -> UnitLists] /\ (open = 0 => Record = file)
<1>1. 0 \notin Server
  BY NoServer
<1> QED
  BY <1>1 DEF TypeU, Record

LEMMA NextRecordType ==
  ASSUME TypeU, TypeU', UNCHANGED percent
  PROVE  Record' \in [Server -> UnitLists] /\ (open' = 0 => Record' = file')
<1>1. 0 \notin Server /\ Server' = Server
  BY NoServer DEF Server
<1>2. units' \in [Server -> UnitLists] /\ file' \in [Server -> UnitLists]
  BY <1>1 DEF TypeU
<1>3. Record' = [w \in Server |-> IF w = open' THEN units'[w] ELSE file'[w]]
  BY <1>1 DEF Record
<1> QED
  BY <1>1, <1>2, <1>3

(* While the file of server w is written, it stands for the memory.         *)
LEMMA OpenRecord ==
  ASSUME TypeU, TypeU', UNCHANGED percent, open = 0, NEW w \in Server,
         file' = [file EXCEPT ![w] = <<>>], open' = w
  PROVE  Record' = [Record EXCEPT ![w] = units'[w]]
<1>1. 0 \notin Server /\ Server' = Server
  BY NoServer DEF Server
<1>2. Record = file
  BY RecordType
<1> QED
  BY <1>1, <1>2 DEF TypeU, Record

(* What Unsaved is made of: a curve that is not in the files is not there   *)
(* afterwards if what was saved of a unit that counts stays saved.          *)
LEMMA StillSaved ==
  ASSUME TypeU, UNCHANGED <<percent, ran>>, LetGo \subseteq LetGo',
         \A u \in Unit \ LetGo', n \in Nat \ {0} : IsSaved(u, n) => IsSaved(u, n)'
  PROVE  Unsaved' \subseteq Unsaved
<1>1. Completed' \subseteq Completed
  BY DEF Completed
<1>2. ASSUME NEW c \in Completed'
      PROVE  c[1] \in Unit \ LetGo' /\ c[2] \in Nat \ {0}
  <2>1. PICK u \in Unit \ LetGo' : c \in {u} \X (1..ran'[u])
    BY DEF Completed
  <2>2. c[1] = u /\ c[2] \in 1..ran[u]
    BY <2>1
  <2>3. ran[u] \in Nat
    BY DEF TypeU
  <2> QED
    BY <2>1, <2>2, <2>3
<1> QED
  BY <1>1, <1>2 DEF Unsaved

(* Steps that change nothing but marks.                                     *)
LEMMA QuietData ==
  ASSUME TypeU, TypeU', DataInv, UNCHANGED <<percent, handed, ran, accepted, cut, kills>>,
         \A w \in Server : Alike(units'[w], units[w]),
         \A w \in Server : Alike(Record'[w], Record[w]),
         pc' # "ended" => pc # "ended",
         (pc' = "save" /\ workDone') <=> (pc = "save" /\ workDone),
         pc = "save" => at' = at /\ running' = running,
         PlaceInv
  PROVE  DataInv'
<1> USE DEF Server
<1>1. Server' = Server /\ LetGo' = LetGo
  BY DEF LetGo
<1>r. Record \in [Server -> UnitLists] /\ Record' \in [Server -> UnitLists]
  BY RecordType, NextRecordType
<1>2. Tidy(units)'
  BY <1>1 DEF Tidy, DataInv, Alike
<1>3. Tidy(Record)'
  BY <1>1 DEF Tidy, DataInv, Alike
<1>4. ASSUME pc' # "ended"
      PROVE  Behind' /\ Remembered'
  <2>1. Behind /\ Remembered
    BY <1>4 DEF DataInv
  <2>2. Behind'
    BY <1>1, <2>1 DEF Behind, Alike
  <2>3. /\ \A w \in Server : units'[w] = <<>> => units[w] = <<>>
        /\ \A w \in Server : Record[w] = <<>> => Record'[w] = <<>>
    BY <1>1, <1>r, EmptyList DEF Alike, TypeU
  <2>4. Remembered'
    BY <1>1, <2>1, <2>3 DEF Remembered, Alike
  <2> QED
    BY <2>2, <2>4
<1>5. CountInv'
  <2>1. \A u, n : IsSaved(u, n)' <=> IsSaved(u, n)
    BY DEF IsSaved, Alike
  <2>2. Unsaved' = Unsaved
    BY <1>1, <2>1 DEF Unsaved, Completed
  <2>3. Pending' <=> Pending
    <3>1. ASSUME pc = "save" /\ workDone
          PROVE  units'[at'][running'].id = units[at][running].id
      BY <3>1 DEF PlaceInv, Alike
    <3> QED
      BY <1>1, <3>1 DEF Pending
  <2> QED
    BY <2>2, <2>3 DEF CountInv, DataInv
<1> QED
  BY <1>2, <1>3, <1>4, <1>5 DEF DataInv

(* Work::ReturnWork: what a file has is there until the server has it.      *)
LEMMA ReturnedData ==
  ASSUME TypeU, TypeU', DataInv, NEW w \in Server, ReturnWork(w), PlaceInv,
         UNCHANGED <<percent, open, cut, handed, ran, kills>>, open = 0,
         pc \notin {"save", "ended"}, pc' \notin {"save", "ended"}
  PROVE  DataInv'
<1> USE DEF Server
<1>r. /\ Record = file /\ Record' = file'
      /\ Record \in [Server -> UnitLists] /\ Record' \in [Server -> UnitLists]
  BY RecordType, NextRecordType
<1>1. CASE units' = units /\ Record' = Record /\ accepted' = accepted
  <2>1. \A x \in Server : Alike(units'[x], units[x]) /\ Alike(Record'[x], Record[x])
    BY <1>1 DEF Alike
  <2> QED
    BY <1>1, <2>1, QuietData
<1>2. CASE /\ units[w] # <<>>
           /\ \E kept \in Selections(Reported(w)) :
                /\ units' = [units EXCEPT ![w] = KeptOf(units[w], kept)]
                /\ accepted' = accepted \cup {units[w][i].id : i \in Reported(w) \ Range(kept)}
                /\ Record' = IF kept = <<>> THEN [Record EXCEPT ![w] = <<>>] ELSE Record
  <2>0. Behind /\ Remembered /\ Tidy(units) /\ Tidy(Record) /\ CountInv
    BY DEF DataInv
  <2>1. PICK kept \in Selections(Reported(w)) :
          /\ units' = [units EXCEPT ![w] = KeptOf(units[w], kept)]
          /\ accepted' = accepted \cup {units[w][i].id : i \in Reported(w) \ Range(kept)}
          /\ Record' = IF kept = <<>> THEN [Record EXCEPT ![w] = <<>>] ELSE Record
    BY <1>2
  <2>2. units[w] \in UnitLists /\ Reported(w) \in SUBSET DOMAIN units[w]
    BY DEF TypeU, Reported
  <2>3. /\ DOMAIN KeptOf(units[w], kept) = DOMAIN kept
        /\ \A k \in DOMAIN kept : kept[k] \in Reported(w) /\ KeptOf(units[w], kept)[k] = units[w][kept[k]]
        /\ \A k, l \in DOMAIN kept : kept[k] = kept[l] => k = l
        /\ (kept = <<>>) <=> (DOMAIN kept = {})
    BY <2>2, KeptList
  <2>4. /\ DOMAIN units'[w] = DOMAIN kept
        /\ \A k \in DOMAIN kept : kept[k] \in DOMAIN units[w] /\ units'[w][k] = units[w][kept[k]]
        /\ \A x \in Server \ {w} : units'[x] = units[x]
    BY <2>1, <2>2, <2>3 DEF TypeU
  <2>5. \A x \in Server : \A i \in DOMAIN Record'[x] : i \in DOMAIN Record[x] /\ Record'[x] = Record[x]
    BY <1>r, <2>1, EmptyList
  <2>6. \A x \in Server : \A i \in DOMAIN units'[x] : \E j \in DOMAIN units[x] :
          units'[x][i] = units[x][j] /\ j = (IF x = w THEN kept[i] ELSE i)
    BY <2>4
  <2>7. Tidy(units)'
    <3>1. ASSUME NEW x \in Server, NEW i \in DOMAIN units'[x]
          PROVE  /\ units'[x][i].id <= handed'
                 /\ units'[x][i].done <= ran'[units'[x][i].id]
      BY <2>0, <2>6 DEF Tidy
    <3>2. ASSUME NEW x \in Server, NEW i \in DOMAIN units'[x], NEW y \in Server, NEW j \in DOMAIN units'[y],
                 units'[x][i].id = units'[y][j].id
          PROVE  x = y /\ i = j
      <4>1. PICK a \in DOMAIN units[x] : units'[x][i] = units[x][a] /\ a = (IF x = w THEN kept[i] ELSE i)
        BY <2>6
      <4>2. PICK b \in DOMAIN units[y] : units'[y][j] = units[y][b] /\ b = (IF y = w THEN kept[j] ELSE j)
        BY <2>6
      <4>3. x = y /\ a = b
        BY <2>0, <3>2, <4>1, <4>2 DEF Tidy
      <4> QED
        BY <2>3, <2>4, <4>1, <4>2, <4>3
    <3> QED
      BY <3>1, <3>2 DEF Tidy
  <2>8. Tidy(Record)'
    BY <2>0, <2>5 DEF Tidy
  <2>9. Behind'
    BY <2>0, <2>5, <2>6 DEF Behind
  <2>10. ASSUME NEW i \in DOMAIN Record[w], Record[w][i].id \notin accepted', Record[w][i].done > 0
         PROVE  \E k \in DOMAIN kept : units[w][kept[k]].id = Record[w][i].id
    <3>1. PICK j \in DOMAIN units[w] : units[w][j].id = Record[w][i].id
      BY <2>0, <2>1, <2>10 DEF Remembered
    <3>2. Record[w][i].done <= units[w][j].done
      BY <2>0, <3>1 DEF Behind
    <3>3. Record[w][i].done \in Nat /\ units[w][j].done \in Nat
      BY <1>r, UnitFields DEF TypeU
    <3>4. j \in Reported(w)
      BY <2>10, <3>2, <3>3 DEF Reported
    <3>5. j \in Range(kept)
      BY <2>1, <2>10, <3>1, <3>4
    <3> QED
      BY <3>1, <3>5 DEF Range
  <2>11. Remembered'
    <3>1. ASSUME NEW x \in Server, units'[x] = <<>>
          PROVE  Record'[x] = <<>>
      <4>1. CASE x = w
        <5>1. kept = <<>>
          BY <2>3, <2>4, <3>1, <4>1, EmptyList
        <5> QED
          BY <1>r, <2>1, <4>1, <5>1
      <4>2. CASE x # w
        <5>1. units[x] = <<>> /\ Record'[x] = Record[x]
          BY <1>r, <2>1, <2>4, <3>1, <4>2 DEF TypeU
        <5> QED
          BY <2>0, <5>1 DEF Remembered
      <4> QED
        BY <4>1, <4>2
    <3>2. ASSUME NEW x \in Server, NEW i \in DOMAIN Record'[x],
                 Record'[x][i].id \notin accepted' /\ Record'[x][i].done > 0
          PROVE  \E j \in DOMAIN units'[x] : units'[x][j].id = Record'[x][i].id
      <4>1. i \in DOMAIN Record[x] /\ Record'[x] = Record[x]
        BY <2>5
      <4>2. CASE x = w
        BY <2>4, <2>10, <3>2, <4>1, <4>2
      <4>3. CASE x # w
        BY <2>0, <2>1, <2>4, <3>2, <4>1, <4>3 DEF Remembered
      <4> QED
        BY <4>2, <4>3
    <3> QED
      BY <3>1, <3>2 DEF Remembered
  <2>12. ASSUME NEW u \in Unit \ LetGo', NEW n \in Nat \ {0}, IsSaved(u, n)
         PROVE  IsSaved(u, n)'
    <3>1. PICK x \in Server : \E i \in DOMAIN Record[x] : Record[x][i].id = u /\ n <= Record[x][i].done
      BY <2>12 DEF IsSaved
    <3>2. PICK i \in DOMAIN Record[x] : Record[x][i].id = u /\ n <= Record[x][i].done
      BY <3>1
    <3>3. Record'[x] = Record[x]
      <4>1. Record[x][i].done \in Nat /\ Record[x][i].done > 0
        <5>1. Record[x] \in UnitLists
          BY <1>r
        <5>2. Record[x][i].done \in Nat
          BY <3>2, <5>1, UnitFields
        <5> QED
          BY <2>12, <3>2, <5>2
      <4>2. x = w => kept # <<>>
        BY <2>3, <2>10, <3>2, <4>1 DEF LetGo
      <4> QED
        BY <1>r, <2>1, <4>2
    <3> QED
      BY <3>2, <3>3 DEF IsSaved
  <2>13. CountInv'
    <3>1. Unsaved' \subseteq Unsaved
      <4>1. LetGo \subseteq LetGo'
        BY <2>1 DEF LetGo
      <4> QED
        BY <2>12, <4>1, StillSaved
    <3>2. ~Pending /\ ~Pending' /\ kills' = kills /\ kills \in Nat
      BY DEF Pending, TypeU
    <3>3. IsFiniteSet(Unsaved') /\ Cardinality(Unsaved') <= kills
      BY <2>0, <3>1, <3>2, NoMore
    <3> QED
      BY <3>2, <3>3 DEF CountInv
  <2> QED
    BY <2>7, <2>8, <2>9, <2>11, <2>13 DEF DataInv
<1> QED
  BY <1>r, <1>1, <1>2 DEF ReturnWork, KeptOf

(* Work::GetWork: new units, for a server of which there were none.         *)
LEMMA GetWorkData ==
  ASSUME TypeU, TypeU', DataInv, open = 0, GetWork
  PROVE  DataInv'
<1> USE DEF Server
<1>0. /\ pc = "choose" /\ at \in Server /\ units[at] = <<>> /\ pc' = "work"
      /\ Behind /\ Remembered /\ Tidy(units) /\ Tidy(Record) /\ CountInv
      /\ UNCHANGED <<percent, cut, ran, accepted, kills>> /\ LetGo' = LetGo
  BY DEF GetWork, Asks, DoWork, stops, DataInv, LetGo
<1>r. /\ Record = file
      /\ Record \in [Server -> UnitLists] /\ Record' \in [Server -> UnitLists]
  BY <1>0, RecordType, NextRecordType
<1>1. PICK batch \in Batches :
        /\ handed + Len(batch) <= MaxUnit
        /\ units' \in {[units EXCEPT ![at] = list] : list \in Received(batch)}
        /\ IF batch = <<>> THEN UNCHANGED <<file, open>>
           ELSE file' = [file EXCEPT ![at] = <<>>] /\ open' = at
        /\ handed' = handed + Len(batch)
  BY DEF GetWork
<1>2. PICK list \in Received(batch) : units' = [units EXCEPT ![at] = list]
  BY <1>1
<1>3. /\ list \in UnitLists /\ Len(list) = Len(batch) /\ DOMAIN list = 1..Len(batch)
      /\ \A i \in DOMAIN list : list[i].id = handed + i /\ list[i].done = 0
  BY <1>1, ReceivedList, TypeForm
<1>4. Alike(list, list)
  BY DEF Alike
<1>5. units'[at] = list /\ \A x \in Server \ {at} : units'[x] = units[x]
  BY <1>0, <1>2 DEF TypeU
<1>6. Record[at] = <<>>
  BY <1>0 DEF Remembered
<1>7. Alike(Record'[at], list) /\ \A x \in Server \ {at} : Record'[x] = Record[x]
  <2>1. CASE batch = <<>>
    <3>1. DOMAIN list = {} /\ Record' = Record /\ DOMAIN Record[at] = {}
      <4>1. Record' = Record
        BY <1>0, <1>1, <1>r, <2>1, NextRecordType
      <4>2. Len(batch) = 0
        BY <2>1
      <4> QED
        BY <1>3, <1>6, <4>1, <4>2, EmptyList
    <3> QED
      BY <3>1 DEF Alike
  <2>2. CASE batch # <<>>
    <3>1. file' = [file EXCEPT ![at] = <<>>] /\ open' = at
      BY <1>1, <2>2
    <3>2. Record' = [Record EXCEPT ![at] = units'[at]]
      BY <1>0, <3>1, OpenRecord
    <3> QED
      BY <1>0, <1>4, <1>5, <1>r, <3>2
  <2> QED
    BY <2>1, <2>2
<1>8. Len(batch) \in Nat /\ handed \in Nat /\ MaxUnit \in Nat
  BY ClientAssumption DEF TypeU
<1>9. ASSUME NEW i \in DOMAIN list
      PROVE  list[i].id > handed /\ list[i].id <= handed' /\ list[i].done <= ran'[list[i].id]
  <2>1. list[i].id \in Unit
    BY <1>3, UnitFields
  <2>2. ran[list[i].id] \in Nat
    BY <2>1 DEF TypeU
  <2>3. list[i].id = handed + i /\ list[i].done = 0 /\ i \in 1..Len(batch)
    BY <1>3
  <2> QED
    BY <1>0, <1>1, <1>8, <2>2, <2>3
<1>10. \A i, j \in DOMAIN list : list[i].id = list[j].id => i = j
  <2>1. ASSUME NEW i \in DOMAIN list, NEW j \in DOMAIN list, list[i].id = list[j].id
        PROVE  i = j
    <3>1. handed + i = handed + j /\ i \in 1..Len(batch) /\ j \in 1..Len(batch)
      BY <1>3, <2>1
    <3> QED
      BY <1>8, <3>1
  <2> QED
    BY <2>1
<1>11. ASSUME NEW q, q \in {units, Record}, NEW x \in Server, NEW i \in DOMAIN q[x]
       PROVE  q[x][i].id <= handed /\ q[x][i].id <= handed' /\ q[x][i].id \in Nat
  <2>1. q[x] \in UnitLists
    BY <1>11, <1>r DEF TypeU
  <2>2. q[x][i].id \in Unit
    BY <2>1, UnitFields
  <2>3. q[x][i].id <= handed
    BY <1>0, <1>11 DEF Tidy
  <2> QED
    BY <1>1, <1>8, <2>2, <2>3 DEF Unit
<1>12. Tidy(units)'
  <2>1. ASSUME NEW x \in Server, NEW i \in DOMAIN units'[x]
        PROVE  units'[x][i].id <= handed' /\ units'[x][i].done <= ran'[units'[x][i].id]
    BY <1>0, <1>5, <1>9, <1>11 DEF Tidy
  <2>2. ASSUME NEW x \in Server, NEW i \in DOMAIN units'[x], NEW y \in Server, NEW j \in DOMAIN units'[y],
               units'[x][i].id = units'[y][j].id
        PROVE  x = y /\ i = j
    <3>1. CASE x = at /\ y = at
      BY <1>5, <1>10, <2>2, <3>1
    <3>2. CASE x # at /\ y # at
      BY <1>0, <1>5, <2>2, <3>2 DEF Tidy
    <3>3. CASE x = at /\ y # at
      BY <1>5, <1>8, <1>9, <1>11, <2>2, <3>3
    <3>4. CASE x # at /\ y = at
      BY <1>5, <1>8, <1>9, <1>11, <2>2, <3>4
    <3> QED
      BY <3>1, <3>2, <3>3, <3>4
  <2> QED
    BY <1>0, <2>1, <2>2 DEF Tidy
<1>13. Tidy(Record)'
  <2>1. ASSUME NEW x \in Server, NEW i \in DOMAIN Record'[x]
        PROVE  Record'[x][i].id <= handed' /\ Record'[x][i].done <= ran'[Record'[x][i].id]
    <3>1. CASE x = at
      BY <1>7, <1>9, <3>1 DEF Alike
    <3>2. CASE x # at
      BY <1>0, <1>7, <1>11, <3>2 DEF Tidy
    <3> QED
      BY <3>1, <3>2
  <2>2. ASSUME NEW x \in Server, NEW i \in DOMAIN Record'[x], NEW y \in Server, NEW j \in DOMAIN Record'[y],
               Record'[x][i].id = Record'[y][j].id
        PROVE  x = y /\ i = j
    <3>1. CASE x = at /\ y = at
      BY <1>7, <1>10, <2>2, <3>1 DEF Alike
    <3>2. CASE x # at /\ y # at
      BY <1>0, <1>7, <2>2, <3>2 DEF Tidy
    <3>3. CASE x = at /\ y # at
      BY <1>7, <1>8, <1>9, <1>11, <2>2, <3>3 DEF Alike
    <3>4. CASE x # at /\ y = at
      BY <1>7, <1>8, <1>9, <1>11, <2>2, <3>4 DEF Alike
    <3> QED
      BY <3>1, <3>2, <3>3, <3>4
  <2> QED
    BY <1>0, <2>1, <2>2 DEF Tidy
<1>14. Behind'
  <2>1. ASSUME NEW x \in Server, NEW i \in DOMAIN Record'[x], NEW y \in Server, NEW j \in DOMAIN units'[y],
               Record'[x][i].id = units'[y][j].id
        PROVE  x = y /\ Record'[x][i].done <= units'[y][j].done
    <3>1. CASE x = at /\ y = at
      <4>1. i \in DOMAIN list /\ j \in DOMAIN list /\ list[i].id = list[j].id
            /\ Record'[x][i].done = list[i].done /\ units'[y][j].done = list[j].done
        BY <1>5, <1>7, <2>1, <3>1 DEF Alike
      <4>2. list[i].done = 0 /\ list[j].done = 0
        BY <1>3, <4>1
      <4> QED
        BY <3>1, <4>1, <4>2
    <3>2. CASE x # at /\ y # at
      BY <1>0, <1>5, <1>7, <2>1, <3>2 DEF Behind
    <3>3. CASE x = at /\ y # at
      BY <1>5, <1>7, <1>8, <1>9, <1>11, <2>1, <3>3 DEF Alike
    <3>4. CASE x # at /\ y = at
      BY <1>5, <1>7, <1>8, <1>9, <1>11, <2>1, <3>4 DEF Alike
    <3> QED
      BY <3>1, <3>2, <3>3, <3>4
  <2> QED
    BY <1>0, <2>1 DEF Behind
<1>15. Remembered'
  <2>1. ASSUME NEW x \in Server
        PROVE  /\ units'[x] = <<>> => Record'[x] = <<>>
               /\ \A i \in DOMAIN Record'[x] :
                    Record'[x][i].id \notin accepted' /\ Record'[x][i].done > 0 =>
                      \E j \in DOMAIN units'[x] : units'[x][j].id = Record'[x][i].id
    <3>1. CASE x = at
      <4>1. Record'[at] \in UnitLists
        BY <1>0, <1>r
      <4> QED
        BY <1>3, <1>5, <1>7, <3>1, <4>1, EmptyList DEF Alike
    <3>2. CASE x # at
      BY <1>0, <1>5, <1>7, <3>2 DEF Remembered
    <3> QED
      BY <3>1, <3>2
  <2> QED
    BY <1>0, <2>1 DEF Remembered
<1>16. CountInv'
  <2>1. \A u \in Unit \ LetGo', n \in Nat \ {0} : IsSaved(u, n) => IsSaved(u, n)'
    <3>1. \A x \in Server : \A i \in DOMAIN Record[x] : Record'[x] = Record[x]
      BY <1>6, <1>7, EmptyList
    <3> QED
      BY <1>0, <3>1 DEF IsSaved
  <2>2. Unsaved' \subseteq Unsaved
    BY <1>0, <2>1, StillSaved
  <2>3. ~Pending /\ ~Pending' /\ kills' = kills /\ kills \in Nat
    BY <1>0 DEF Pending, TypeU
  <2>4. IsFiniteSet(Unsaved') /\ Cardinality(Unsaved') <= kills
    BY <1>0, <2>2, <2>3, NoMore
  <2> QED
    BY <2>3, <2>4 DEF CountInv
<1> QED
  BY <1>12, <1>13, <1>14, <1>15, <1>16 DEF DataInv

(* WorkUnit::DoCurve: one curve more, in memory only.                       *)
LEMMA CompletedData ==
  ASSUME TypeU, TypeU', PlaceInv, DataInv, open = 0, CurveCompleted
  PROVE  DataInv'
<1> USE DEF Server
<1>0. /\ pc = "curve" /\ at \in Server /\ running \in DOMAIN units[at] /\ pc' = "save" /\ workDone' = TRUE
      /\ Behind /\ Remembered /\ Tidy(units) /\ Tidy(Record) /\ CountInv
      /\ UNCHANGED <<percent, at, running, file, open, cut, handed, accepted, kills>>
      /\ LetGo' = LetGo
  BY DEF CurveCompleted, stops, DataInv, PlaceInv, LetGo
<1>r. Record' = Record /\ Record \in [Server -> UnitLists]
  BY <1>0, RecordType, NextRecordType
<1> DEFINE u == units[at][running].id
<1>1. u \in Unit /\ ran' = [ran EXCEPT ![u] = @ + 1] /\ ran \in [Unit -> Nat]
  <2>1. units[at] \in UnitLists
    BY <1>0 DEF TypeU
  <2> QED
    BY <1>0, <2>1, UnitFields DEF CurveCompleted, TypeU
<1>2. /\ \A x \in Server : DOMAIN units'[x] = DOMAIN units[x]
      /\ \A x \in Server : \A i \in DOMAIN units[x] :
           /\ units'[x][i].id = units[x][i].id
           /\ units'[x][i].done = IF x = at /\ i = running THEN units[x][i].done + 1 ELSE units[x][i].done
  <2>1. PICK result \in Results :
          units' = [units EXCEPT ![at][running] =
                      [units[at][running] EXCEPT !.done = @ + 1, !.just = running < Len(units[at]), !.result = result]]
    BY DEF CurveCompleted
  <2>2. PICK q \in UnitLists : q = units[at]
    BY <1>0 DEF TypeU
  <2>3. PICK v \in BoundedUnit : v = q[running]
    BY <1>0, <2>2 DEF UnitLists
  <2>4. PICK z : z = [v EXCEPT !.done = @ + 1, !.just = running < Len(q), !.result = result]
    OBVIOUS
  <2>5. z.id = v.id /\ z.done = v.done + 1
    BY <2>4 DEF BoundedUnit, WorkUnit
  <2>6. units' = [units EXCEPT ![at] = [q EXCEPT ![running] = z]]
    BY <1>0, <2>1, <2>2, <2>3, <2>4 DEF TypeU
  <2>7. PICK r : r = [q EXCEPT ![running] = z]
    OBVIOUS
  <2>8. DOMAIN r = DOMAIN q /\ r[running] = z /\ \A i \in DOMAIN q \ {running} : r[i] = q[i]
    BY <1>0, <2>2, <2>7 DEF UnitLists
  <2>9. units'[at] = r /\ \A x \in Server \ {at} : units'[x] = units[x]
    BY <1>0, <2>6, <2>7 DEF TypeU
  <2> QED
    BY <1>0, <2>2, <2>3, <2>5, <2>8, <2>9
<1> HIDE DEF u
<1>3. u = units[at][running].id
  BY DEF u
<1>4. /\ \A x \in Server : \A i \in DOMAIN units[x] : units[x][i].done \in Nat /\ units[x][i].id \in Unit
      /\ \A x \in Server : \A i \in DOMAIN Record[x] : Record[x][i].done \in Nat /\ Record[x][i].id \in Unit
  BY <1>r, UnitFields DEF TypeU
<1>5. /\ \A v \in Unit : ran[v] \in Nat /\ ran'[v] = IF v = u THEN ran[v] + 1 ELSE ran[v]
  BY <1>1
<1>6. Tidy(units)'
  <2>1. ASSUME NEW x \in Server, NEW i \in DOMAIN units'[x]
        PROVE  units'[x][i].id <= handed' /\ units'[x][i].done <= ran'[units'[x][i].id]
    <3>1. i \in DOMAIN units[x] /\ units'[x][i].id = units[x][i].id
      BY <1>2
    <3>2. units[x][i].id <= handed /\ units[x][i].done <= ran[units[x][i].id]
      BY <1>0, <1>r, <3>1 DEF Tidy
    <3>3. CASE x = at /\ i = running
      BY <1>0, <1>2, <1>3, <1>4, <1>5, <3>1, <3>2, <3>3
    <3>4. CASE ~(x = at /\ i = running)
      BY <1>0, <1>2, <1>3, <1>4, <1>5, <3>1, <3>2, <3>4
    <3> QED
      BY <3>3, <3>4
  <2>2. ASSUME NEW x \in Server, NEW i \in DOMAIN units'[x], NEW y \in Server, NEW j \in DOMAIN units'[y],
               units'[x][i].id = units'[y][j].id
        PROVE  x = y /\ i = j
    BY <1>0, <1>r, <1>2, <2>2 DEF Tidy
  <2> QED
    BY <1>0, <1>r, <2>1, <2>2 DEF Tidy
<1>7. Tidy(Record)'
  <2>1. ASSUME NEW x \in Server, NEW i \in DOMAIN Record[x]
        PROVE  Record[x][i].done <= ran'[Record[x][i].id]
    <3>1. Record[x][i].done <= ran[Record[x][i].id]
      BY <1>0, <1>r DEF Tidy
    <3> QED
      BY <1>4, <1>5, <3>1
  <2> QED
    BY <1>0, <1>r, <2>1 DEF Tidy
<1>8. Behind'
  <2>1. ASSUME NEW x \in Server, NEW i \in DOMAIN Record[x], NEW y \in Server, NEW j \in DOMAIN units'[y],
               Record[x][i].id = units'[y][j].id
        PROVE  /\ x = y
               /\ Record[x][i].done <= units'[y][j].done
               /\ y = at /\ j = running => Record[x][i].done < units'[y][j].done
    <3>1. j \in DOMAIN units[y] /\ Record[x][i].id = units[y][j].id
      BY <1>2, <2>1
    <3>2. x = y /\ Record[x][i].done <= units[y][j].done
      BY <1>0, <1>r, <3>1 DEF Behind
    <3> QED
      BY <1>2, <1>4, <3>1, <3>2
  <2> QED
    BY <1>0, <1>r, <2>1 DEF Behind
<1>9. Remembered'
  <2>1. \A x \in Server : units'[x] = <<>> => units[x] = <<>>
    BY <1>2, EmptyList DEF TypeU
  <2> QED
    BY <1>0, <1>r, <1>2, <2>1 DEF Remembered
<1>10. CountInv'
  <2>1. ~Pending /\ kills' = kills /\ kills \in Nat
    BY <1>0 DEF Pending, TypeU
  <2>2. \A v, n : IsSaved(v, n)' <=> IsSaved(v, n)
    BY <1>0, <1>r DEF IsSaved
  <2>3. Unsaved' \subseteq Unsaved \cup {<<u, ran[u] + 1>>}
    <3>1. ASSUME NEW c \in Completed', c # <<u, ran[u] + 1>>
          PROVE  c \in Completed
      <4>1. PICK v \in Unit \ LetGo : c \in {v} \X (1..ran'[v])
        BY <1>0, <1>r DEF Completed
      <4>2. c \in {v} \X (1..ran[v])
        BY <1>5, <3>1, <4>1
      <4> QED
        BY <4>2 DEF Completed
    <3> QED
      BY <2>2, <3>1 DEF Unsaved
  <2>4. CASE u \notin LetGo
    <3>1. Pending'
      BY <1>0, <1>2, <1>3, <2>4 DEF Pending
    <3>2. IsFiniteSet(Unsaved') /\ Cardinality(Unsaved') <= kills + 1
      BY <1>0, <2>1, <2>3, OneMore
    <3> QED
      BY <2>1, <3>1, <3>2 DEF CountInv
  <2>5. CASE u \in LetGo
    <3>1. ~Pending'
      BY <1>0, <1>2, <1>3, <2>5 DEF Pending
    <3>2. Completed' = Completed
      BY <1>0, <1>r, <1>5, <2>5 DEF Completed
    <3>3. Unsaved' \subseteq Unsaved
      BY <2>2, <3>2 DEF Unsaved
    <3>4. IsFiniteSet(Unsaved') /\ Cardinality(Unsaved') <= kills
      BY <1>0, <2>1, <3>3, NoMore
    <3> QED
      BY <2>1, <3>1, <3>4 DEF CountInv
  <2> QED
    BY <2>4, <2>5
<1> QED
  BY <1>6, <1>7, <1>8, <1>9, <1>10 DEF DataInv

(* Work::Save and ~Work: some files come to what is in memory.              *)
LEMMA WrittenData ==
  ASSUME TypeU, TypeU', DataInv, pc # "ended", UNCHANGED <<percent, handed, ran, accepted, cut>>,
         NEW W \in SUBSET Server,
         \A w \in W : Alike(Record'[w], units[w]),
         \A w \in Server \ W : Record'[w] = Record[w]
  PROVE  Tidy(Record)' /\ Unsaved' \subseteq Unsaved
<1> USE DEF Server
<1>0. Behind /\ Remembered /\ Tidy(units) /\ Tidy(Record) /\ LetGo' = LetGo
  BY DEF DataInv, LetGo
<1>r. Record \in [Server -> UnitLists] /\ Record' \in [Server -> UnitLists]
  BY RecordType, NextRecordType
<1>1. Tidy(Record)'
  <2>1. ASSUME NEW x \in Server, NEW i \in DOMAIN Record'[x]
        PROVE  Record'[x][i].id <= handed' /\ Record'[x][i].done <= ran'[Record'[x][i].id]
    <3>1. CASE x \in W
      BY <1>0, <3>1 DEF Tidy, Alike
    <3>2. CASE x \notin W
      BY <1>0, <3>2 DEF Tidy
    <3> QED
      BY <3>1, <3>2
  <2>2. ASSUME NEW x \in Server, NEW i \in DOMAIN Record'[x], NEW y \in Server, NEW j \in DOMAIN Record'[y],
               Record'[x][i].id = Record'[y][j].id
        PROVE  x = y /\ i = j
    <3>1. CASE x \in W /\ y \in W
      BY <1>0, <2>2, <3>1 DEF Tidy, Alike
    <3>2. CASE x \notin W /\ y \notin W
      BY <1>0, <2>2, <3>2 DEF Tidy
    <3>3. CASE x \in W /\ y \notin W
      BY <1>0, <2>2, <3>3 DEF Behind, Alike
    <3>4. CASE x \notin W /\ y \in W
      BY <1>0, <2>2, <3>4 DEF Behind, Alike
    <3> QED
      BY <3>1, <3>2, <3>3, <3>4
  <2> QED
    BY <2>1, <2>2 DEF Tidy
<1>2. ASSUME NEW u \in Unit \ LetGo', NEW n \in Nat \ {0}, IsSaved(u, n)
      PROVE  IsSaved(u, n)'
  <2>1. PICK w \in Server : \E i \in DOMAIN Record[w] : Record[w][i].id = u /\ n <= Record[w][i].done
    BY <1>2 DEF IsSaved
  <2>2. PICK i \in DOMAIN Record[w] : Record[w][i].id = u /\ n <= Record[w][i].done
    BY <2>1
  <2>3. CASE w \notin W
    BY <2>2, <2>3 DEF IsSaved
  <2>4. CASE w \in W
    <3>1. Record[w][i].done \in Nat /\ Record[w][i].done > 0
      <4>1. Record[w] \in UnitLists /\ i \in DOMAIN Record[w]
        BY <1>r, <2>2
      <4>2. Record[w][i].done \in Nat
        BY <4>1, UnitFields
      <4> QED
        BY <1>2, <2>2, <4>2
    <3>2. PICK j \in DOMAIN units[w] : units[w][j].id = u
      BY <1>0, <1>2, <2>2, <3>1 DEF Remembered, LetGo
    <3>3. Record[w][i].done <= units[w][j].done
      BY <1>0, <2>2, <3>2 DEF Behind
    <3>4. units[w][j].done \in Nat
      BY <3>2, UnitFields DEF TypeU
    <3>5. j \in DOMAIN Record'[w] /\ Record'[w][j].id = u /\ Record'[w][j].done = units[w][j].done
      BY <2>4, <3>2 DEF Alike
    <3>6. n <= Record'[w][j].done
      BY <2>2, <3>1, <3>3, <3>4, <3>5
    <3> QED
      BY <3>5, <3>6 DEF IsSaved
  <2> QED
    BY <2>3, <2>4
<1> QED
  BY <1>0, <1>1, <1>2, StillSaved

LEMMA SavedData ==
  ASSUME TypeU, TypeU', PlaceInv, DataInv, open = 0, at \in Server,
         file' = [file EXCEPT ![at] = <<>>], open' = at,
         pc # "ended", pc' \notin {"save", "ended"},
         UNCHANGED <<percent, workDone, units, cut, handed, ran, accepted, kills>>
  PROVE  DataInv'
<1> USE DEF Server
<1>0. Behind /\ Remembered /\ Tidy(units) /\ Tidy(Record) /\ CountInv /\ LetGo' = LetGo
  BY DEF DataInv, LetGo
<1>r. Record \in [Server -> UnitLists] /\ Record' \in [Server -> UnitLists]
  BY RecordType, NextRecordType
<1>1. Alike(Record'[at], units[at]) /\ \A x \in Server \ {at} : Record'[x] = Record[x]
  <2>1. Record' = [Record EXCEPT ![at] = units[at]]
    BY OpenRecord
  <2> QED
    BY <1>r, <2>1 DEF Alike
<1>2. Tidy(Record)' /\ Unsaved' \subseteq Unsaved
  <2>1. \A w \in {at} : Alike(Record'[w], units[w])
    BY <1>1
  <2>2. pc # "ended" /\ {at} \in SUBSET Server
        /\ \A w \in Server \ {at} : Record'[w] = Record[w]
    BY <1>0, <1>1
  <2>3. UNCHANGED <<percent, handed, ran, accepted, cut>>
    OBVIOUS
  <2> QED
    BY <2>1, <2>2, <2>3, WrittenData
<1>3. Tidy(units)'
  BY <1>0 DEF Tidy
<1>4. Behind'
  <2>1. ASSUME NEW x \in Server, NEW i \in DOMAIN Record'[x], NEW y \in Server, NEW j \in DOMAIN units[y],
               Record'[x][i].id = units[y][j].id
        PROVE  x = y /\ Record'[x][i].done <= units[y][j].done
    <3>1. CASE x = at
      <4>1. i \in DOMAIN units[x] /\ units[x][i].id = units[y][j].id /\ Record'[x][i].done = units[x][i].done
        BY <1>1, <2>1, <3>1 DEF Alike
      <4>2. x = y /\ i = j
        BY <1>0, <4>1 DEF Tidy
      <4>3. units[x][i].done \in Nat
        BY <4>1, UnitFields DEF TypeU
      <4> QED
        BY <4>1, <4>2, <4>3
    <3>2. CASE x # at
      BY <1>0, <1>1, <2>1, <3>2 DEF Behind
    <3> QED
      BY <3>1, <3>2
  <2> QED
    BY <1>0, <2>1 DEF Behind
<1>5. Remembered'
  <2>1. ASSUME NEW x \in Server
        PROVE  /\ units[x] = <<>> => Record'[x] = <<>>
               /\ \A i \in DOMAIN Record'[x] :
                    Record'[x][i].id \notin accepted /\ Record'[x][i].done > 0 =>
                      \E j \in DOMAIN units[x] : units[x][j].id = Record'[x][i].id
    <3>1. CASE x = at
      <4>1. Record'[x] \in UnitLists
        BY <1>r
      <4> QED
        BY <1>1, <3>1, <4>1, EmptyList DEF Alike
    <3>2. CASE x # at
      BY <1>0, <1>1, <3>2 DEF Remembered
    <3> QED
      BY <3>1, <3>2
  <2> QED
    BY <1>0, <2>1 DEF Remembered
<1>6. CountInv'
  <2>1. ~Pending' /\ kills' = kills /\ kills \in Nat
    BY <1>0 DEF Pending, TypeU
  <2>2. CASE Pending
    <3>0. PICK u, d : u = units[at][running].id /\ d = units[at][running].done
      OBVIOUS
    <3>1. running \in DOMAIN units[at] /\ u \in Unit \ LetGo /\ d \in Nat /\ d > 0
      <4>1. running \in DOMAIN units[at] /\ d > 0 /\ u \notin LetGo
        BY <1>0, <2>2, <3>0 DEF PlaceInv, Pending
      <4> QED
        BY <1>0, <3>0, <4>1, UnitFields DEF TypeU
    <3>2. d <= ran[u] /\ ran[u] \in Nat
      BY <1>0, <3>0, <3>1 DEF Tidy, TypeU
    <3>3. <<u, d>> \in Completed
      <4>1. <<u, d>> \in {u} \X (1..ran[u])
        BY <3>1, <3>2
      <4> QED
        BY <3>1, <4>1 DEF Completed
    <3>4. ~IsSaved(u, d)
      <4>1. ASSUME NEW x \in Server, NEW i \in DOMAIN Record[x], Record[x][i].id = u
            PROVE  ~(d <= Record[x][i].done)
        <5>1. Record[x][i].done < d
          BY <1>0, <2>2, <3>0, <3>1, <4>1 DEF Behind, Pending
        <5>2. Record[x][i].done \in Nat
          BY <1>r, UnitFields
        <5> QED
          BY <3>1, <5>1, <5>2
      <4> QED
        BY <4>1 DEF IsSaved
    <3>5. IsSaved(u, d)'
      <4>1. running \in DOMAIN Record'[at] /\ Record'[at][running].id = u /\ Record'[at][running].done = d
        BY <1>1, <3>0, <3>1 DEF Alike
      <4> QED
        BY <1>0, <3>1, <4>1 DEF IsSaved
    <3>6. <<u, d>>[1] = u /\ <<u, d>>[2] = d
      OBVIOUS
    <3>7. <<u, d>> \in Unsaved /\ <<u, d>> \notin Unsaved'
      BY <3>3, <3>4, <3>5, <3>6 DEF Unsaved
    <3>8. Unsaved' \subseteq Unsaved \ {<<u, d>>}
      BY <1>2, <3>7
    <3>9. IsFiniteSet(Unsaved') /\ Cardinality(Unsaved') <= kills
      BY <1>0, <2>1, <3>7, <3>8, OneLess
    <3> QED
      BY <2>1, <3>9 DEF CountInv
  <2>3. CASE ~Pending
    <3>1. IsFiniteSet(Unsaved') /\ Cardinality(Unsaved') <= kills
      BY <1>0, <1>2, <2>1, <2>3, NoMore
    <3> QED
      BY <2>1, <3>1 DEF CountInv
  <2> QED
    BY <2>2, <2>3
<1> QED
  BY <1>2, <1>3, <1>4, <1>5, <1>6 DEF DataInv

(* The end of the program: what is in memory is gone.                       *)
LEMMA EndedData ==
  ASSUME TypeU, TypeU', DataInv, Ended, UNCHANGED <<percent, handed, ran, accepted>>,
         Tidy(Record)', Unsaved' \subseteq Unsaved,
         kills' >= kills + (IF Pending THEN 1 ELSE 0)
  PROVE  DataInv'
<1> USE DEF Server
<1>1. Tidy(units)'
  BY DEF Ended, Tidy
<1>2. CountInv'
  <2>1. ~Pending' /\ kills \in Nat /\ kills' \in Nat /\ CountInv
    BY DEF Ended, Pending, TypeU, DataInv
  <2>2. IsFiniteSet(Unsaved') /\ Cardinality(Unsaved') <= kills'
    BY <2>1, NoMore
  <2> QED
    BY <2>1, <2>2 DEF CountInv
<1>3. pc' = "ended"
  BY DEF Ended
<1> QED
  BY <1>1, <1>2, <1>3 DEF DataInv

LEMMA StoppedData ==
  ASSUME TypeU, TypeU', DataInv, Ended, open = 0,
         UNCHANGED <<percent, file, cut, handed, ran, accepted>>,
         kills' >= kills + (IF Pending THEN 1 ELSE 0)
  PROVE  DataInv'
<1>r. Record' = Record
  BY RecordType, NextRecordType DEF Ended
<1>1. Tidy(Record)'
  BY <1>r DEF DataInv, Tidy, Server
<1>2. Unsaved' \subseteq Unsaved
  BY <1>r DEF Unsaved, Completed, IsSaved, Server, LetGo
<1> QED
  BY <1>1, <1>2, EndedData

(* ... with a file that is broken off.                                      *)
LEMMA SuddenData ==
  ASSUME TypeU, TypeU', PlaceInv, DataInv, pc # "ended", SuddenEnd,
         UNCHANGED <<percent, handed, ran, accepted>>
  PROVE  DataInv'
<1> USE DEF Server
<1>0. Ended /\ open' = 0
  BY DEF SuddenEnd, Ended
<1>1. CASE open = 0
  <2>1. UNCHANGED <<file, cut>> /\ kills' >= kills + (IF Pending THEN 1 ELSE 0)
    BY <1>1 DEF SuddenEnd, TypeU
  <2> QED
    BY <1>0, <1>1, <2>1, StoppedData
<1>2. CASE open # 0
  <2>1. PICK n \in 0..Len(units[open]) :
          /\ file' = [file EXCEPT ![open] = Saved(SubSeq(units[open], 1, n))]
          /\ cut' = cut \cup {units[open][i].id : i \in (n + 1)..Len(units[open])}
    BY <1>2 DEF SuddenEnd
  <2>2. open \in Server /\ units[open] \in UnitLists /\ 0 \notin Server
    BY <1>2, NoServer DEF TypeU
  <2> DEFINE r == Saved(SubSeq(units[open], 1, n))
  <2>3. /\ r \in UnitLists /\ DOMAIN r = 1..n /\ 1..n \subseteq DOMAIN units[open]
        /\ DOMAIN units[open] = 1..Len(units[open]) /\ Len(units[open]) \in Nat
        /\ \A i \in 1..n : r[i].id = units[open][i].id /\ r[i].done = units[open][i].done
    <3>1. PICK q \in UnitLists : q = units[open]
      BY <2>2
    <3>2. n \in 0..Len(q)
      BY <3>1
    <3> HIDE DEF r
    <3>3. r = Saved(SubSeq(q, 1, n))
      BY <3>1 DEF r
    <3> QED
      BY <3>1, <3>2, <3>3, PrefixList
  <2>4. file' = [file EXCEPT ![open] = r]
    BY <2>1
  <2> HIDE DEF r
  <2>5. Record[open] = units[open] /\ \A x \in Server \ {open} : Record[x] = file[x]
    BY <2>2 DEF Record
  <2>6. Record' = file'
    BY <1>0, NextRecordType
  <2>7. Record'[open] = r /\ \A x \in Server \ {open} : Record'[x] = Record[x]
    BY <2>2, <2>4, <2>5, <2>6 DEF TypeU
  <2>8. \A x \in Server : \A i \in DOMAIN Record'[x] :
          /\ i \in DOMAIN Record[x]
          /\ Record'[x][i].id = Record[x][i].id /\ Record'[x][i].done = Record[x][i].done
    BY <2>2, <2>3, <2>5, <2>7
  <2>9. Tidy(Record)'
    <3>1. Tidy(Record)
      BY DEF DataInv
    <3> QED
      BY <2>8, <3>1 DEF Tidy
  <2>10. ASSUME NEW u \in Unit \ LetGo', NEW m \in Nat \ {0}, IsSaved(u, m)
         PROVE  IsSaved(u, m)'
    <3>1. PICK x \in Server : \E i \in DOMAIN Record[x] : Record[x][i].id = u /\ m <= Record[x][i].done
      BY <2>10 DEF IsSaved
    <3>2. PICK i \in DOMAIN Record[x] : Record[x][i].id = u /\ m <= Record[x][i].done
      BY <3>1
    <3>3. CASE x # open
      BY <2>7, <3>2, <3>3 DEF IsSaved
    <3>4. CASE x = open
      <4>1. i \in 1..Len(units[open]) /\ units[open][i].id = u
        BY <2>3, <2>5, <3>2, <3>4
      <4>2. i \notin (n + 1)..Len(units[open])
        BY <2>1, <2>10, <4>1 DEF LetGo
      <4>3. i \in 1..n
        BY <2>3, <4>1, <4>2
      <4>4. i \in DOMAIN Record'[open] /\ Record'[open][i].id = u /\ m <= Record'[open][i].done
        BY <2>3, <2>5, <2>7, <3>2, <3>4, <4>3
      <4> QED
        BY <2>2, <4>4 DEF IsSaved
    <3> QED
      BY <3>3, <3>4
  <2>11. Unsaved' \subseteq Unsaved
    <3>1. LetGo \subseteq LetGo'
      BY <2>1 DEF LetGo
    <3> QED
      BY <2>10, <3>1, StillSaved
  <2>12. kills' >= kills + (IF Pending THEN 1 ELSE 0)
    BY <1>2 DEF SuddenEnd, Pending, PlaceInv, TypeU
  <2> QED
    BY <1>0, <2>9, <2>11, <2>12, EndedData
<1> QED
  BY <1>1, <1>2

(* Work::Load: memory comes to what is in the files.                        *)
LEMMA StartData ==
  ASSUME TypeU, TypeU', PlaceInv, DataInv, Start
  PROVE  DataInv'
<1> USE DEF Server
<1>0. /\ pc = "ended" /\ pc' = "check" /\ UNCHANGED <<percent, file, open, cut, handed, ran, accepted, kills>>
      /\ Tidy(Record) /\ CountInv /\ open = 0 /\ LetGo' = LetGo
  BY DEF Start, DataInv, PlaceInv, LetGo
<1>r. Record = file /\ Record' = Record /\ Record \in [Server -> UnitLists]
  BY <1>0, RecordType, NextRecordType
<1>1. ASSUME NEW w \in Server
      PROVE  Alike(units'[w], Record[w])
  <2>1. units'[w] \in Loaded(Record[w]) /\ Record[w] \in UnitLists
    BY <1>r DEF Start
  <2> QED
    BY <2>1, LoadedList
<1>2. Tidy(units)' /\ Tidy(Record)'
  BY <1>0, <1>r, <1>1 DEF Tidy, Alike
<1>3. Behind'
  <2>1. ASSUME NEW x \in Server, NEW i \in DOMAIN Record[x], NEW y \in Server, NEW j \in DOMAIN units'[y],
               Record[x][i].id = units'[y][j].id
        PROVE  x = y /\ Record[x][i].done <= units'[y][j].done
    <3>1. j \in DOMAIN Record[y] /\ Record[x][i].id = Record[y][j].id /\ units'[y][j].done = Record[y][j].done
      BY <1>1, <2>1 DEF Alike
    <3>2. x = y /\ i = j
      BY <1>0, <3>1 DEF Tidy
    <3>3. Record[x][i].done \in Nat
      BY <1>r, UnitFields
    <3> QED
      BY <3>1, <3>2, <3>3
  <2> QED
    BY <1>0, <1>r, <2>1 DEF Behind
<1>4. Remembered'
  <2>1. \A x \in Server : units'[x] = <<>> => Record[x] = <<>>
    BY <1>1, <1>r, EmptyList DEF Alike, TypeU
  <2> QED
    BY <1>0, <1>r, <1>1, <2>1 DEF Remembered, Alike
<1>5. CountInv'
  <2>1. Unsaved' = Unsaved /\ ~Pending /\ ~Pending'
    BY <1>0, <1>r DEF Unsaved, Completed, IsSaved, Pending
  <2> QED
    BY <1>0, <2>1 DEF CountInv
<1> QED
  BY <1>2, <1>3, <1>4, <1>5 DEF DataInv

LEMMA DataStep ==
  ASSUME TypeU, TypeU', PlaceInv, DataInv, [Next]_vars
  PROVE  DataInv'
<1> USE DEF Server
<1>0. \A w \in Server : Alike(units[w], units[w]) /\ Alike(Record[w], Record[w])
  BY DEF Alike
<1>r. ASSUME UNCHANGED <<percent, units, file, open>>
      PROVE  Record' = Record
  BY <1>r DEF Record
<1>1. CASE open = 0 /\ CheckFinished
  <2>1. /\ at \in Server /\ pc = "check" /\ pc' = "ask" /\ UNCHANGED <<percent, open, cut, handed, ran, kills>>
        /\ ReturnWork(at) \/ UNCHANGED <<units, file, accepted>>
    BY <1>1 DEF CheckFinished, stops
  <2>2. CASE ReturnWork(at)
    BY <1>1, <2>1, <2>2, ReturnedData
  <2>3. CASE UNCHANGED <<units, file, accepted>>
    BY <1>0, <1>r, <2>1, <2>3, QuietData
  <2> QED
    BY <2>1, <2>2, <2>3
<1>2. CASE open = 0 /\ CheckUnfinished
  <2>1. /\ at \in Server /\ pc = "ask" /\ pc' = "check" /\ UNCHANGED <<percent, open, cut, handed, ran, kills>>
        /\ ReturnWork(at) \/ UNCHANGED <<units, file, accepted>>
    BY <1>2 DEF CheckUnfinished, stops, PlaceInv
  <2>2. CASE ReturnWork(at)
    BY <1>2, <2>1, <2>2, ReturnedData
  <2>3. CASE UNCHANGED <<units, file, accepted>>
    BY <1>0, <1>r, <2>1, <2>3, QuietData
  <2> QED
    BY <2>1, <2>2, <2>3
<1>3. CASE open = 0 /\ (ReturnAll \/ ReturnFinally)
  <2>1. /\ pc \in {"return", "report"} /\ pc' \in {"return", "loop", "report", "delete"}
        /\ UNCHANGED <<percent, open, cut, handed, ran, kills>>
        /\ (at \in Server /\ ReturnWork(at)) \/ UNCHANGED <<units, file, accepted>>
    BY <1>3 DEF ReturnAll, ReturnFinally, stops
  <2>2. CASE at \in Server /\ ReturnWork(at)
    BY <1>3, <2>1, <2>2, ReturnedData
  <2>3. CASE UNCHANGED <<units, file, accepted>>
    BY <1>0, <1>r, <2>1, <2>3, QuietData
  <2> QED
    BY <2>1, <2>2, <2>3
<1>4. CASE open = 0 /\ DeleteWork
  <2>1. /\ at \in Server /\ pc = "delete" /\ pc' = "delete"
        /\ UNCHANGED <<percent, workDone, units, cut, handed, ran, accepted, kills>>
    BY <1>4 DEF DeleteWork, stops
  <2>2. CASE file' = [file EXCEPT ![at] = <<>>] /\ open' = at
    BY <1>4, <2>1, <2>2, SavedData
  <2>3. CASE UNCHANGED <<file, open>>
    BY <1>0, <1>r, <2>1, <2>3, QuietData
  <2> QED
    BY <1>4, <2>2, <2>3 DEF DeleteWork
<1>5. CASE open = 0 /\ (EndCheckAndExit \/ Return)
  <2>1. /\ Ended /\ UNCHANGED <<percent, file, cut, handed, ran, accepted>>
        /\ kills' >= kills + (IF Pending THEN 1 ELSE 0)
    BY <1>5 DEF EndCheckAndExit, Return, Pending, TypeU
  <2> QED
    BY <1>5, <2>1, StoppedData
<1>6. CASE SignalAgain \/ Kill
  BY <1>6, SuddenData DEF SignalAgain, Kill
<1>7. CASE WriteFile
  <2>1. /\ open \in Server /\ file' = [file EXCEPT ![open] = Saved(units[open])] /\ open' = 0
        /\ UNCHANGED <<percent, pc, at, workDone, running, units, cut, handed, ran, accepted, kills>>
    BY <1>7 DEF WriteFile, TypeU, stops
  <2>2. 0 \notin Server /\ Record' = file'
    BY <2>1, NoServer, NextRecordType
  <2>3. Alike(Saved(units[open]), units[open])
    BY <2>1, SavedList DEF TypeU
  <2>4. Record[open] = units[open] /\ \A x \in Server \ {open} : Record[x] = file[x]
    BY <2>1, <2>2 DEF Record
  <2>5. \A w \in Server : Alike(Record'[w], Record[w])
    BY <1>0, <2>1, <2>2, <2>3, <2>4 DEF TypeU
  <2> QED
    BY <1>0, <2>1, <2>5, QuietData
<1>8. CASE open = 0 /\ GetWork
  BY <1>8, GetWorkData
<1>9. CASE open = 0 /\ StartCurve
  <2>1. /\ pc = "work" /\ pc' \in {"worked", "curve"}
        /\ UNCHANGED <<percent, file, open, cut, handed, ran, accepted, kills>>
    BY <1>9 DEF StartCurve, stops
  <2>2. at \in Server /\ Alike(Unmarked(units[at]), units[at])
    <3>1. at \in Server
      BY <2>1 DEF PlaceInv
    <3> QED
      BY <3>1, UnmarkedList DEF TypeU
  <2>3. units' = units \/ units' = [units EXCEPT ![at] = Unmarked(@)]
    BY <1>9 DEF StartCurve
  <2>4. \A w \in Server : Alike(units'[w], units[w])
    BY <1>0, <2>2, <2>3 DEF TypeU
  <2>5. Record' = Record
    BY <1>9, <2>1, RecordType, NextRecordType
  <2> QED
    BY <1>0, <2>1, <2>4, <2>5, QuietData
<1>10. CASE open = 0 /\ CurveCompleted
  BY <1>10, CompletedData
<1>11. CASE open = 0 /\ Save
  <2>1. /\ at \in Server /\ pc = "save" /\ pc' = "counted"
        /\ file' = [file EXCEPT ![at] = <<>>] /\ open' = at
        /\ UNCHANGED <<percent, workDone, units, cut, handed, ran, accepted, kills>>
    BY <1>11 DEF Save, stops, PlaceInv
  <2> QED
    BY <1>11, <2>1, SavedData
<1>13. CASE Start
  BY <1>13, StartData
<1>14. CASE EndCheck \/ Loop \/ WorkIsHere \/ NextServer \/ NextAttempt \/ Pause
            \/ CurveInterrupted \/ CountCurve \/ EndDoWork \/ EndLoop
  <2>1. /\ UNCHANGED <<percent, units, file, open, cut, handed, ran, accepted, kills>>
        /\ pc \notin {"save", "ended"} /\ pc' # "ended" /\ (pc' # "save" \/ ~workDone')
    BY <1>14 DEF EndCheck, Loop, WorkIsHere, NextServer, NextAttempt, Pause, CurveInterrupted,
                 CountCurve, EndDoWork, EndLoop, DoWork, work, stops
  <2> QED
    BY <1>0, <1>r, <2>1, QuietData
<1>15. CASE Signal \/ AnswerStop \/ UNCHANGED vars
  <2>1. UNCHANGED <<percent, units, file, open, cut, handed, ran, accepted, kills, pc, at, running, workDone>>
    BY <1>15 DEF Signal, AnswerStop, work, stops, vars
  <2> QED
    BY <1>0, <1>r, <2>1, QuietData
<1> QED
  BY <1>1, <1>2, <1>3, <1>4, <1>5, <1>6, <1>7, <1>8, <1>9, <1>10, <1>11, <1>13, <1>14, <1>15
     DEF Next, Main, Step

-----------------------------------------------------------------------------
(***************************************************************************)
(* The theorems.                                                           *)
(***************************************************************************)
LEMMA Initially == Init => IInv
<1> SUFFICES ASSUME Init PROVE IInv
  OBVIOUS
<1> USE DEF Server
<1>1. percent \in Percents /\ Len(percent) \in Nat /\ Server = 1..Len(percent)
  BY Servers DEF Init
<1>2. 1 \in 1..(Len(percent) + 1) /\ 1 \in 1..(NotWanted + 1) /\ 1 \in 1..MaxStart /\ MaxUnit \in Nat
  BY <1>1, Levels, ClientAssumption
<1>3. TypeU
  <2>1. units \in [Server -> UnitLists] /\ file \in [Server -> UnitLists] /\ totalWork \in [Server -> Nat]
    BY EmptyList DEF Init
  <2>2. stopOption \in {Prompt, ReportWork, ReportQuit, Continue} /\ ran \in [Unit -> Nat] /\ handed \in 0..MaxUnit
        /\ signals \in 0..MaxSignal
    BY <1>2, ClientAssumption DEF Init, StopOptions
  <2> QED
    BY <1>1, <1>2, <2>1, <2>2 DEF Init, TypeU
<1>4. PlaceInv
  BY DEF Init, PlaceInv
<1>5. \A w \in Server : DOMAIN units[w] = {} /\ DOMAIN Record[w] = {} /\ units[w] = <<>> /\ Record[w] = <<>>
  BY <1>3, EmptyList, RecordType DEF Init
<1>6. Tidy(units) /\ Tidy(Record) /\ Behind /\ Remembered
  BY <1>5 DEF Tidy, Behind, Remembered
<1>7. CountInv
  <2>1. Unsaved = {}
    <3>1. \A u \in Unit : 1..ran[u] = {}
      BY DEF Init
    <3>2. Completed = {}
      BY <3>1 DEF Completed
    <3> QED
      BY <3>2 DEF Unsaved
  <2>2. ~Pending /\ kills = 0
    BY DEF Init, Pending
  <2> QED
    BY <2>1, <2>2, FS_EmptySet DEF CountInv
<1> QED
  BY <1>3, <1>4, <1>6, <1>7 DEF IInv, DataInv

LEMMA Invariant == Spec => []IInv
<1>1. IInv /\ [Next]_vars => IInv'
  BY TypeStep, DataStep DEF IInv
<1> QED
  BY <1>1, Initially, PTL DEF Spec

(* Whatever the servers answer and whenever the client is told to stop, the *)
(* variables keep their types, and no unit gets more curves than it was     *)
(* given for (WorkUnit::CanDoAnotherCurve).                                 *)
THEOREM TypeCorrect == Spec => []TypeOK
<1>1. IInv => TypeOK
  BY TypeForm DEF IInv
<1> QED
  BY <1>1, Invariant, PTL

(* A sudden end of the program costs one completed curve at most, or, while *)
(* a save file is being written, the units of this file that are not in it  *)
(* yet (Work::DoCurve, Work::Save, Work::ReturnWork, Work::Load).           *)
THEOREM CurvesCorrect == Spec => []CurvesKept
<1>1. IInv => CurvesKept
  <2> SUFFICES ASSUME IInv PROVE CurvesKept
    OBVIOUS
  <2>1. IsFiniteSet(Unsaved) /\ Cardinality(Unsaved) <= kills + (IF Pending THEN 1 ELSE 0)
    BY DEF IInv, DataInv, CountInv
  <2>2. Cardinality(Unsaved) \in Nat /\ kills \in Nat
    BY <2>1, FS_CardinalityType DEF IInv, TypeU
  <2>3. Pending => pc = "save" /\ workDone
    BY DEF Pending
  <2> QED
    BY <2>1, <2>2, <2>3 DEF CurvesKept
<1> QED
  BY <1>1, Invariant, PTL

-----------------------------------------------------------------------------
(***************************************************************************)
(* Sums over finite sets.                                                  *)
(***************************************************************************)
(* Induction: a set with 0, and with the successor of each of its numbers.  *)
LEMMA AllNaturals ==
  ASSUME NEW N, 0 \in N, \A n \in Nat : n \in N => n + 1 \in N
  PROVE  Nat \subseteq N
<1> DEFINE X == Nat \ N
<1>1. SUFFICES ASSUME X # {}
               PROVE  FALSE
  OBVIOUS
<1>2. X \subseteq Nat
  OBVIOUS
<1>3. Min(X) \in X /\ \A j \in X : Min(X) <= j
  <2> HIDE DEF X
  <2> QED
    BY <1>1, <1>2, LeastMember
<1>4. PICK m \in Nat : m = Min(X)
  BY <1>3
<1>5. m \notin N /\ m # 0
  BY <1>3, <1>4
<1>6. m - 1 \in Nat /\ ~ (m <= m - 1)
  BY <1>5
<1>7. m - 1 \in N
  BY <1>3, <1>4, <1>6
<1> QED
  BY <1>5, <1>6, <1>7

(* Induction: a family with each subset of S that it has without any one of *)
(* its members.                                                             *)
Grows(F, S) == \A s \in SUBSET S : (\A x \in s : s \ {x} \in F) => s \in F

LEMMA AllSubsets ==
  ASSUME NEW S, IsFiniteSet(S), NEW F, Grows(F, S)
  PROVE  \A s \in SUBSET S : s \in F
<1> DEFINE N == {n \in Nat : \A s \in SUBSET S : Cardinality(s) = n => s \in F}
<1>1. \A s \in SUBSET S : IsFiniteSet(s) /\ Cardinality(s) \in Nat
  BY FS_Subset, FS_CardinalityType
<1>2. 0 \in N
  <2>1. \A s \in SUBSET S : Cardinality(s) = 0 => s = {}
    BY <1>1, FS_EmptySet
  <2>2. {} \in F
    BY DEF Grows
  <2> QED
    BY <2>1, <2>2
<1>3. ASSUME NEW n \in Nat, n \in N
      PROVE  n + 1 \in N
  <2>1. ASSUME NEW s \in SUBSET S, Cardinality(s) = n + 1
        PROVE  s \in F
    <3>1. ASSUME NEW x \in s
          PROVE  s \ {x} \in F
      <4>1. Cardinality(s \ {x}) = Cardinality(s) - 1
        BY <1>1, FS_RemoveElement
      <4> QED
        BY <1>3, <2>1, <4>1
    <3> QED
      BY <3>1 DEF Grows
  <2> QED
    BY <2>1
<1>4. Nat \subseteq N
  <2> HIDE DEF N
  <2> QED
    BY <1>2, <1>3, AllNaturals
<1> QED
  BY <1>1, <1>4

(* MapThenSumSet, as a sum of the values of a function.                     *)
Pick(s) == CHOOSE x \in s : TRUE

Adds(f, S, g) == [s \in SUBSET S |-> IF s = {} THEN 0 ELSE f[Pick(s)] + g[s \ {Pick(s)}]]

Sums(f, S) == CHOOSE g : g = Adds(f, S, g)

Sum(f, S) == Sums(f, S)[S]

LEMMA SumOfSet ==
  ASSUME NEW f, NEW S
  PROVE  MapThenSumSet(LAMBDA w : f[w], S) = Sum(f, S)
BY DEF MapThenSumSet, MapThenFoldSet, Sum, Sums, Adds, Pick

LEMMA Picked == ASSUME NEW s, s # {} PROVE Pick(s) \in s
BY DEF Pick

(* The recursive function is there.                                         *)
LEMMA SumsExist ==
  ASSUME NEW S, IsFiniteSet(S), NEW f, \A x \in S : f[x] \in Nat
  PROVE  /\ Sums(f, S) = Adds(f, S, Sums(f, S))
         /\ Sums(f, S) \in [SUBSET S -> Nat]
<1> DEFINE N == {n \in Nat : \E g \in [SUBSET S -> Nat] :
                   \A s \in SUBSET S : Cardinality(s) <= n => g[s] = Adds(f, S, g)[s]}
<1>1. \A s \in SUBSET S : IsFiniteSet(s) /\ Cardinality(s) \in Nat
  BY FS_Subset, FS_CardinalityType
<1>2. \A g \in [SUBSET S -> Nat] : Adds(f, S, g) \in [SUBSET S -> Nat]
  BY Picked DEF Adds
<1>3. 0 \in N
  <2> DEFINE g == [s \in SUBSET S |-> 0]
  <2>1. ASSUME NEW s \in SUBSET S, Cardinality(s) <= 0
        PROVE  g[s] = Adds(f, S, g)[s]
    <3>1. s = {}
      BY <1>1, <2>1, FS_EmptySet
    <3> QED
      BY <3>1 DEF Adds
  <2>2. g \in [SUBSET S -> Nat]
    OBVIOUS
  <2> QED
    BY <2>1, <2>2
<1>4. ASSUME NEW n \in Nat, n \in N
      PROVE  n + 1 \in N
  <2>1. PICK g \in [SUBSET S -> Nat] :
               \A s \in SUBSET S : Cardinality(s) <= n => g[s] = Adds(f, S, g)[s]
    BY <1>4
  <2> DEFINE h == Adds(f, S, g)
  <2>2. h \in [SUBSET S -> Nat]
    BY <1>2
  <2>3. ASSUME NEW s \in SUBSET S, Cardinality(s) <= n + 1
        PROVE  h[s] = Adds(f, S, h)[s]
    <3>1. CASE s = {}
      BY <3>1 DEF Adds
    <3>2. CASE s # {}
      <4>1. PICK p \in s : p = Pick(s)
        BY <3>2, Picked
      <4>2. s \ {p} \in SUBSET S /\ Cardinality(s \ {p}) = Cardinality(s) - 1
        BY <1>1, FS_RemoveElement
      <4>3. Cardinality(s \ {p}) <= n
        BY <1>1, <2>3, <4>2
      <4>4. h[s \ {p}] = g[s \ {p}]
        BY <2>1, <4>2, <4>3
      <4>5. h[s] = f[p] + g[s \ {p}]
        BY <3>2, <4>1 DEF Adds
      <4>6. Adds(f, S, h)[s] = f[p] + h[s \ {p}]
        <5> HIDE DEF h
        <5> QED
          BY <3>2, <4>1 DEF Adds
      <4> QED
        BY <4>4, <4>5, <4>6
    <3> QED
      BY <3>1, <3>2
  <2> HIDE DEF h
  <2> QED
    BY <2>2, <2>3
<1>5. Nat \subseteq N
  <2> HIDE DEF N
  <2> QED
    BY <1>3, <1>4, AllNaturals
<1>6. PICK g \in [SUBSET S -> Nat] :
             \A s \in SUBSET S : Cardinality(s) <= Cardinality(S) => g[s] = Adds(f, S, g)[s]
  BY <1>1, <1>5
<1>7. \A s \in SUBSET S : Cardinality(s) <= Cardinality(S)
  BY FS_Subset
<1>8. g = Adds(f, S, g)
  <2>1. PICK h \in [SUBSET S -> Nat] : h = Adds(f, S, g)
    BY <1>2
  <2>2. \A s \in SUBSET S : g[s] = h[s]
    BY <1>6, <1>7, <2>1
  <2> QED
    BY <2>1, <2>2
<1>9. Sums(f, S) = Adds(f, S, Sums(f, S))
  BY <1>8, Zenon DEF Sums
<1> QED
  <2> DEFINE G == Sums(f, S)
  <2>1. DOMAIN G = SUBSET S /\ G = [s \in SUBSET S |-> G[s]]
    BY <1>9, Zenon DEF Adds
  <2> DEFINE F == {s \in SUBSET S : G[s] \in Nat}
  <2>2. ASSUME NEW s \in SUBSET S, \A x \in s : s \ {x} \in F
        PROVE  s \in F
    <3>1. CASE s = {}
      BY <1>9, <3>1 DEF Adds
    <3>2. CASE s # {}
      <4>1. PICK p \in s : p = Pick(s)
        BY <3>2, Picked
      <4>2. G[s] = f[p] + G[s \ {p}]
        <5>1. G = Adds(f, S, G)
          BY <1>9
        <5> HIDE DEF G
        <5> QED
          BY <3>2, <4>1, <5>1 DEF Adds
      <4>3. G[s \ {p}] \in Nat
        BY <2>2
      <4> HIDE DEF G
      <4> QED
        BY <4>2, <4>3
    <3> QED
      BY <3>1, <3>2
  <2>3. \A s \in SUBSET S : s \in F
    <3>1. Grows(F, S)
      BY <2>2 DEF Grows
    <3> HIDE DEF F
    <3> QED
      BY <3>1, AllSubsets
  <2>4. \A s \in SUBSET S : G[s] \in Nat
    BY <2>3
  <2> HIDE DEF G
  <2>5. G \in [SUBSET S -> Nat]
    BY <2>1, <2>4
  <2> QED
    BY <1>9, <2>5 DEF G

(* It does not depend on the set it is defined for.                         *)
LEMMA SumsAgree ==
  ASSUME NEW S, IsFiniteSet(S), NEW f, \A x \in S : f[x] \in Nat, NEW R \in SUBSET S
  PROVE  \A s \in SUBSET R : Sums(f, S)[s] = Sums(f, R)[s]
<1>1. IsFiniteSet(R) /\ \A x \in R : f[x] \in Nat
  BY FS_Subset
<1>2. PICK G : G = Sums(f, S) /\ G = Adds(f, S, G)
  BY SumsExist
<1>3. PICK H : H = Sums(f, R) /\ H = Adds(f, R, H)
  BY <1>1, SumsExist
<1> DEFINE F == {s \in SUBSET R : G[s] = H[s]}
<1>4. ASSUME NEW s \in SUBSET R, \A x \in s : s \ {x} \in F
      PROVE  s \in F
  <2>1. CASE s = {}
    BY <1>2, <1>3, <2>1 DEF Adds
  <2>2. CASE s # {}
    <3>1. PICK p \in s : p = Pick(s)
      BY <2>2, Picked
    <3>2. s \ {p} \in F
      BY <1>4
    <3>3. G[s] = f[p] + G[s \ {p}]
      BY <1>2, <2>2, <3>1 DEF Adds
    <3>4. H[s] = f[p] + H[s \ {p}]
      BY <1>3, <2>2, <3>1 DEF Adds
    <3> QED
      BY <3>2, <3>3, <3>4
  <2> QED
    BY <2>1, <2>2
<1>5. Grows(F, R)
  BY <1>4 DEF Grows
<1>6. \A s \in SUBSET R : s \in F
  <2> HIDE DEF F
  <2> QED
    BY <1>1, <1>5, AllSubsets
<1> QED
  BY <1>2, <1>3, <1>6

(* A function with natural values on a finite set.                          *)
Weighs(f, S) == IsFiniteSet(S) /\ \A x \in S : f[x] \in Nat

LEMMA WeighsSubset ==
  ASSUME NEW f, NEW S, Weighs(f, S), NEW R \in SUBSET S
  PROVE  Weighs(f, R)
BY FS_Subset DEF Weighs

LEMMA SumEmpty == ASSUME NEW f PROVE Sum(f, {}) = 0
<1>1. IsFiniteSet({}) /\ \A x \in {} : f[x] \in Nat
  BY FS_EmptySet
<1>2. PICK G : G = Sums(f, {}) /\ G = Adds(f, {}, G)
  BY <1>1, SumsExist
<1> QED
  BY <1>2 DEF Sum, Adds

LEMMA SumType == ASSUME NEW f, NEW S, Weighs(f, S) PROVE Sum(f, S) \in Nat
BY SumsExist DEF Sum, Weighs

LEMMA SumPick ==
  ASSUME NEW f, NEW S, Weighs(f, S), S # {}
  PROVE  Sum(f, S) = f[Pick(S)] + Sum(f, S \ {Pick(S)})
<1>1. PICK p \in S : p = Pick(S)
  BY Picked
<1>2. PICK G : G = Sums(f, S) /\ G = Adds(f, S, G)
  BY SumsExist DEF Weighs
<1>3. Sum(f, S) = f[p] + G[S \ {p}]
  BY <1>1, <1>2 DEF Sum, Adds
<1>4. Sums(f, S)[S \ {p}] = Sums(f, S \ {p})[S \ {p}]
  BY SumsAgree DEF Weighs
<1> QED
  BY <1>1, <1>2, <1>3, <1>4 DEF Sum

(* A sum is the value of any one member and the sum over the others.        *)
LEMMA SumRemove ==
  ASSUME NEW f, NEW S, Weighs(f, S), NEW x \in S
  PROVE  Sum(f, S) = f[x] + Sum(f, S \ {x})
<1> DEFINE F == {s \in SUBSET S : \A y \in s : Sum(f, s) = f[y] + Sum(f, s \ {y})}
<1>1. ASSUME NEW s \in SUBSET S, \A y \in s : s \ {y} \in F
      PROVE  s \in F
  <2> SUFFICES ASSUME NEW y \in s
               PROVE  Sum(f, s) = f[y] + Sum(f, s \ {y})
    OBVIOUS
  <2>1. PICK p \in s : p = Pick(s)
    BY Picked
  <2>2. Weighs(f, s) /\ Weighs(f, s \ {p}) /\ Weighs(f, s \ {y})
    BY WeighsSubset
  <2>3. Sum(f, s) = f[p] + Sum(f, s \ {p})
    BY <2>1, <2>2, SumPick
  <2>4. CASE y = p
    BY <2>3, <2>4
  <2>5. CASE y # p
    <3>1. Sum(f, s \ {p}) = f[y] + Sum(f, (s \ {p}) \ {y})
      <4>1. s \ {p} \in F
        BY <1>1
      <4> QED
        BY <2>5, <4>1
    <3>2. Sum(f, s \ {y}) = f[p] + Sum(f, (s \ {y}) \ {p})
      <4>1. s \ {y} \in F
        BY <1>1
      <4> QED
        BY <2>5, <4>1
    <3>3. (s \ {p}) \ {y} = (s \ {y}) \ {p}
      OBVIOUS
    <3>4. PICK n : n = Sum(f, (s \ {p}) \ {y})
      OBVIOUS
    <3>5. n \in Nat /\ f[y] \in Nat /\ f[p] \in Nat
      <4>1. Weighs(f, (s \ {p}) \ {y})
        BY WeighsSubset
      <4> QED
        BY <3>4, <4>1, SumType DEF Weighs
    <3>6. Sum(f, s) = f[p] + (f[y] + n)
      BY <2>3, <3>1, <3>4
    <3>7. f[y] + Sum(f, s \ {y}) = f[y] + (f[p] + n)
      BY <3>2, <3>3, <3>4
    <3> QED
      BY <3>5, <3>6, <3>7
  <2> QED
    BY <2>4, <2>5
<1>2. Grows(F, S)
  BY <1>1 DEF Grows
<1>3. \A s \in SUBSET S : s \in F
  <2>1. IsFiniteSet(S)
    BY DEF Weighs
  <2> HIDE DEF F
  <2> QED
    BY <1>2, <2>1, AllSubsets
<1> QED
  BY <1>3

(* One member counts no more than all.                                      *)
LEMMA SumMember ==
  ASSUME NEW f, NEW S, Weighs(f, S), NEW x \in S
  PROVE  f[x] <= Sum(f, S)
<1>1. Sum(f, S) = f[x] + Sum(f, S \ {x}) /\ f[x] \in Nat
  BY SumRemove DEF Weighs
<1>2. Sum(f, S \ {x}) \in Nat
  BY WeighsSubset, SumType
<1> QED
  BY <1>1, <1>2

(* Values that are put one to one against values no smaller.                *)
LEMMA SumInject ==
  ASSUME NEW f, NEW S, Weighs(f, S), NEW g, NEW R, Weighs(g, R), NEW e,
         \A x \in S : e[x] \in R /\ f[x] <= g[e[x]],
         \A x, y \in S : e[x] = e[y] => x = y
  PROVE  Sum(f, S) <= Sum(g, R)
<1> DEFINE F == {s \in SUBSET S : \A r \in SUBSET R : (\A x \in s : e[x] \in r) => Sum(f, s) <= Sum(g, r)}
<1>1. ASSUME NEW s \in SUBSET S, \A y \in s : s \ {y} \in F
      PROVE  s \in F
  <2> SUFFICES ASSUME NEW r \in SUBSET R, \A x \in s : e[x] \in r
               PROVE  Sum(f, s) <= Sum(g, r)
    OBVIOUS
  <2>1. Weighs(f, s) /\ Weighs(g, r)
    BY WeighsSubset
  <2>2. CASE s = {}
    <3>1. Sum(f, s) = 0 /\ Sum(g, r) \in Nat
      BY <2>1, <2>2, SumEmpty, SumType
    <3> QED
      BY <3>1
  <2>3. CASE s # {}
    <3>1. PICK p \in s : TRUE
      BY <2>3
    <3>2. e[p] \in r /\ f[p] <= g[e[p]] /\ f[p] \in Nat /\ g[e[p]] \in Nat
      BY <2>1 DEF Weighs
    <3>3. Sum(f, s) = f[p] + Sum(f, s \ {p})
      BY <2>1, SumRemove
    <3>4. Sum(g, r) = g[e[p]] + Sum(g, r \ {e[p]})
      BY <2>1, <3>2, SumRemove
    <3>5. Sum(f, s \ {p}) <= Sum(g, r \ {e[p]})
      <4>1. s \ {p} \in F
        BY <1>1
      <4>2. \A x \in s \ {p} : e[x] \in r \ {e[p]}
        OBVIOUS
      <4>3. r \ {e[p]} \in SUBSET R
        OBVIOUS
      <4> QED
        BY <4>1, <4>2, <4>3
    <3>6. Sum(f, s \ {p}) \in Nat /\ Sum(g, r \ {e[p]}) \in Nat
      <4>1. Weighs(f, s \ {p}) /\ Weighs(g, r \ {e[p]})
        BY WeighsSubset
      <4> QED
        BY <4>1, SumType
    <3> QED
      BY <3>2, <3>3, <3>4, <3>5, <3>6
  <2> QED
    BY <2>2, <2>3
<1>2. Grows(F, S)
  BY <1>1 DEF Grows
<1>3. \A s \in SUBSET S : s \in F
  <2>1. IsFiniteSet(S)
    BY DEF Weighs
  <2> HIDE DEF F
  <2> QED
    BY <1>2, <2>1, AllSubsets
<1> QED
  BY <1>3

(* The sum depends on the values only.                                      *)
LEMMA SumSame ==
  ASSUME NEW f, NEW g, NEW S, Weighs(f, S), \A x \in S : g[x] = f[x]
  PROVE  Sum(g, S) = Sum(f, S)
<1> DEFINE e == [x \in S |-> x]
<1>1. Weighs(g, S) /\ \A x \in S : f[x] \in Nat
  BY DEF Weighs
<1>2. \A x \in S : e[x] \in S /\ f[x] <= g[e[x]] /\ g[x] <= f[e[x]]
  BY <1>1
<1>3. \A x, y \in S : e[x] = e[y] => x = y
  OBVIOUS
<1>4. Sum(f, S) <= Sum(g, S) /\ Sum(g, S) <= Sum(f, S)
  <2> HIDE DEF e
  <2> QED
    BY <1>1, <1>2, <1>3, SumInject
<1>5. Sum(f, S) \in Nat /\ Sum(g, S) \in Nat
  BY <1>1, SumType
<1> QED
  BY <1>4, <1>5

(* Shares of a total, each at most what is there, in hundredths.            *)
LEMMA SumShares ==
  ASSUME NEW f, NEW p, NEW S, Weighs(f, S), Weighs(p, S), NEW T \in Nat,
         \A x \in S : p[x] * T <= f[x] * 100
  PROVE  Sum(p, S) * T <= Sum(f, S) * 100
<1> DEFINE F == {s \in SUBSET S : Sum(p, s) * T <= Sum(f, s) * 100}
<1>1. ASSUME NEW s \in SUBSET S, \A y \in s : s \ {y} \in F
      PROVE  s \in F
  <2>1. Weighs(f, s) /\ Weighs(p, s)
    BY WeighsSubset
  <2>2. CASE s = {}
    <3>1. Sum(f, s) = 0 /\ Sum(p, s) = 0
      BY <2>2, SumEmpty
    <3> QED
      BY <3>1
  <2>3. CASE s # {}
    <3>1. PICK x \in s : TRUE
      BY <2>3
    <3>2. Sum(f, s) = f[x] + Sum(f, s \ {x}) /\ Sum(p, s) = p[x] + Sum(p, s \ {x})
      BY <2>1, SumRemove
    <3>3. PICK a \in Nat, b \in Nat, c \in Nat, d \in Nat :
            a = f[x] /\ b = Sum(f, s \ {x}) /\ c = p[x] /\ d = Sum(p, s \ {x})
      <4>1. Weighs(f, s \ {x}) /\ Weighs(p, s \ {x})
        BY WeighsSubset
      <4> QED
        BY <2>1, <4>1, SumType DEF Weighs
    <3>4. c * T <= a * 100 /\ d * T <= b * 100
      <4>1. s \ {x} \in F
        BY <1>1
      <4> QED
        BY <3>3, <4>1
    <3>5. (c + d) * T = c * T + d * T /\ c * T \in Nat /\ d * T \in Nat
      BY SMT
    <3>6. (c + d) * T <= (a + b) * 100
      BY <3>4, <3>5
    <3> QED
      BY <3>2, <3>3, <3>6
  <2> QED
    BY <2>2, <2>3
<1>2. Grows(F, S)
  BY <1>1 DEF Grows
<1>3. \A s \in SUBSET S : s \in F
  <2>1. IsFiniteSet(S)
    BY DEF Weighs
  <2> HIDE DEF F
  <2> QED
    BY <1>2, <2>1, AllSubsets
<1> QED
  BY <1>3

(* If the shares add up to 100, no member has more than its share.          *)
LEMMA ExactShares ==
  ASSUME NEW f, NEW p, NEW S, Weighs(f, S), Weighs(p, S), Sum(p, S) = 100,
         \A x \in S : p[x] * Sum(f, S) <= f[x] * 100, NEW x \in S
  PROVE  f[x] * 100 <= p[x] * Sum(f, S)
<1>1. Weighs(f, S \ {x}) /\ Weighs(p, S \ {x})
  BY WeighsSubset
<1>2. PICK T \in Nat, a \in Nat, b \in Nat, c \in Nat, d \in Nat :
        T = Sum(f, S) /\ a = f[x] /\ b = Sum(f, S \ {x}) /\ c = p[x] /\ d = Sum(p, S \ {x})
  BY <1>1, SumType DEF Weighs
<1>3. T = a + b /\ 100 = c + d
  <2>1. Sum(f, S) = f[x] + Sum(f, S \ {x})
    BY SumRemove
  <2>2. Sum(p, S) = p[x] + Sum(p, S \ {x})
    BY SumRemove
  <2> QED
    BY <1>2, <2>1, <2>2
<1>4. d * T <= b * 100
  <2>1. \A y \in S \ {x} : p[y] * T <= f[y] * 100
    BY <1>2
  <2> QED
    BY <1>1, <1>2, <2>1, SumShares
<1>5. d * T = 100 * T - c * T /\ c * T \in Nat
  <2>1. d = 100 - c
    BY <1>3
  <2>2. (100 - c) * T = 100 * T - c * T
    BY SMT
  <2> QED
    BY <2>1, <2>2
<1>6. a * 100 <= c * T
  BY <1>3, <1>4, <1>5
<1> QED
  BY <1>2, <1>6

(* One value grows by one.                                                  *)
LEMMA SumCount ==
  ASSUME NEW S, NEW f \in [S -> Nat], IsFiniteSet(S), NEW x \in S
  PROVE  Sum([f EXCEPT ![x] = @ + 1], S) = Sum(f, S) + 1
<1> DEFINE g == [f EXCEPT ![x] = @ + 1]
<1>1. Weighs(f, S) /\ Weighs(g, S)
  BY DEF Weighs
<1>2. g[x] = f[x] + 1 /\ \A y \in S \ {x} : g[y] = f[y]
  OBVIOUS
<1> HIDE DEF g
<1>3. Sum(g, S \ {x}) = Sum(f, S \ {x})
  <2>1. Weighs(f, S \ {x})
    BY <1>1, WeighsSubset
  <2> QED
    BY <1>2, <2>1, SumSame
<1>4. Sum(f, S) = f[x] + Sum(f, S \ {x}) /\ Sum(g, S) = g[x] + Sum(g, S \ {x})
  BY <1>1, SumRemove
<1>5. Sum(f, S \ {x}) \in Nat /\ f[x] \in Nat
  BY <1>1, WeighsSubset, SumType
<1>6. Sum(g, S) = Sum(f, S) + 1
  BY <1>2, <1>3, <1>4, <1>5
<1> QED
  BY <1>6 DEF g

-----------------------------------------------------------------------------
(***************************************************************************)
(* The curves that a list of units may still get, and the largest batch.   *)
(***************************************************************************)
(* The curves each unit of a batch is given for.                            *)
Maxes(b) == [i \in DOMAIN b |-> b[i].max]

LEMMA SumOfMaxes ==
  ASSUME NEW b
  PROVE  MapThenSumSet(LAMBDA i : b[i].max, DOMAIN b) = Sum(Maxes(b), DOMAIN b)
<1> DEFINE A(g) == [s \in SUBSET (DOMAIN b) |-> IF s = {} THEN 0 ELSE b[Pick(s)].max + g[s \ {Pick(s)}]]
<1>1. ASSUME NEW g
      PROVE  A(g) = Adds(Maxes(b), DOMAIN b, g)
  <2>1. \A s \in SUBSET (DOMAIN b) : s # {} => Maxes(b)[Pick(s)] = b[Pick(s)].max
    BY Picked DEF Maxes
  <2> QED
    BY <2>1 DEF Adds
<1>2. \A g : g = A(g) <=> g = Adds(Maxes(b), DOMAIN b, g)
  BY <1>1
<1>3. (CHOOSE g : g = A(g)) = (CHOOSE g : g = Adds(Maxes(b), DOMAIN b, g))
  BY <1>2, Zenon
<1>4. MapThenSumSet(LAMBDA i : b[i].max, DOMAIN b) = (CHOOSE g : g = A(g))[DOMAIN b]
  BY DEF MapThenSumSet, MapThenFoldSet, Pick
<1> QED
  BY <1>3, <1>4 DEF Sum, Sums

(* A server has an answer, and the curves in its answers are bounded.       *)
BoundedBatches ==
  /\ Batches # {}
  /\ \E n \in Nat : \A b \in Batches : MapThenSumSet(LAMBDA i : b[i].max, DOMAIN b) <= n

LEMMA BatchWeighs ==
  ASSUME NEW b \in Batches
  PROVE  Weighs(Maxes(b), DOMAIN b)
<1>1. b \in Seq([method : Method, max : Nat \ {0}])
  BY ClientAssumption
<1> DEFINE U == [method : Method, max : Nat \ {0}]
<1>2. DOMAIN b = 1..Len(b) /\ Len(b) \in Nat /\ \A i \in DOMAIN b : b[i] \in U
  <2>1. b \in Seq(U)
    BY <1>1
  <2> HIDE DEF U
  <2> QED
    BY <2>1
<1>3. \A i \in DOMAIN b : b[i].max \in Nat
  BY <1>2
<1>4. IsFiniteSet(DOMAIN b)
  BY <1>2, FS_Interval
<1> QED
  BY <1>3, <1>4 DEF Weighs, Maxes

LEMMA Largest ==
  ASSUME BoundedBatches
  PROVE  /\ LargestBatch \in Nat
         /\ \A b \in Batches : Sum(Maxes(b), DOMAIN b) <= LargestBatch
<1> DEFINE C(b) == MapThenSumSet(LAMBDA i : b[i].max, DOMAIN b)
<1> DEFINE X == {C(b) : b \in Batches}
<1>1. \A b \in Batches : C(b) = Sum(Maxes(b), DOMAIN b) /\ C(b) \in Nat
  <2> SUFFICES ASSUME NEW b \in Batches
               PROVE  C(b) = Sum(Maxes(b), DOMAIN b) /\ C(b) \in Nat
    OBVIOUS
  <2>1. C(b) = Sum(Maxes(b), DOMAIN b)
    BY SumOfMaxes
  <2>2. Sum(Maxes(b), DOMAIN b) \in Nat
    BY BatchWeighs, SumType
  <2> QED
    BY <2>1, <2>2
<1>2. PICK n \in Nat : \A b \in Batches : C(b) <= n
  BY DEF BoundedBatches
<1>3. X # {} /\ X \subseteq Nat /\ \A x \in X : x <= n
  <2> HIDE DEF C
  <2> QED
    BY <1>1, <1>2 DEF BoundedBatches
<1>4. LargestBatch = Max(X)
  BY DEF LargestBatch
<1> HIDE DEF X
<1>5. \E m \in X : \A x \in X : m >= x
  <2> DEFINE Y == {y \in Nat : \A x \in X : x <= y}
  <2>1. n \in Y /\ Y \subseteq Nat
    BY <1>3
  <2>2. Min(Y) \in Y /\ \A y \in Y : Min(Y) <= y
    <3> HIDE DEF Y
    <3> QED
      BY <2>1, LeastMember
  <2>3. PICK m \in Y : m = Min(Y)
    BY <2>2
  <2>4. m \in X
    <3> SUFFICES ASSUME m \notin X
                 PROVE  FALSE
      OBVIOUS
    <3>1. PICK x \in X : TRUE
      BY <1>3
    <3>2. \A z \in X : z \in Nat /\ z <= m /\ z # m
      BY <1>3, <2>3
    <3>3. m - 1 \in Nat /\ \A z \in X : z <= m - 1
      BY <3>1, <3>2
    <3>4. m - 1 \in Y
      BY <3>3
    <3>5. m <= m - 1
      BY <2>2, <2>3, <3>4
    <3> QED
      BY <3>5
  <2> QED
    BY <1>3, <2>3, <2>4
<1>6. Max(X) \in X /\ \A x \in X : Max(X) >= x
  BY <1>5 DEF Max
<1>7. \A b \in Batches : C(b) \in X
  BY DEF X
<1> QED
  <2> HIDE DEF C
  <2> QED
    BY <1>1, <1>3, <1>4, <1>6, <1>7

(* The curves a list of units may still get: one for each that its units    *)
(* were given for and do not have.                                          *)
Remaining(q) == [i \in DOMAIN q |-> IF q[i].done <= q[i].max THEN q[i].max - q[i].done ELSE 0]

Left(q) == Sum(Remaining(q), DOMAIN q)

LEMMA ListFields ==
  ASSUME NEW q \in UnitLists
  PROVE  /\ DOMAIN q = 1..Len(q) /\ Len(q) \in Nat
         /\ \A i \in DOMAIN q : q[i] \in BoundedUnit /\ q[i].done \in Nat /\ q[i].max \in Nat
<1>1. DOMAIN q = 1..Len(q) /\ Len(q) \in Nat /\ \A i \in DOMAIN q : q[i] \in BoundedUnit
  BY DEF UnitLists
<1>2. \A u \in BoundedUnit : u.done \in Nat /\ u.max \in Nat
  BY DEF BoundedUnit, WorkUnit
<1> QED
  BY <1>1, <1>2

LEMMA LeftType ==
  ASSUME NEW q \in UnitLists
  PROVE  Weighs(Remaining(q), DOMAIN q) /\ Left(q) \in Nat
<1>1. IsFiniteSet(DOMAIN q)
  BY ListFields, FS_Interval
<1>2. \A i \in DOMAIN q : Remaining(q)[i] \in Nat
  BY ListFields DEF Remaining
<1>3. Weighs(Remaining(q), DOMAIN q)
  BY <1>1, <1>2 DEF Weighs
<1> QED
  BY <1>3, SumType DEF Left

LEMMA LeftAlike ==
  ASSUME NEW q, NEW r, Alike(r, q)
  PROVE  Left(r) = Left(q)
<1>1. Remaining(r) = Remaining(q) /\ DOMAIN r = DOMAIN q
  BY DEF Remaining, Alike
<1> QED
  BY <1>1 DEF Left

LEMMA LeftEmpty == Left(<<>>) = 0
BY EmptyList, SumEmpty DEF Left

LEMMA LeftKept ==
  ASSUME NEW q \in UnitLists, NEW P \in SUBSET DOMAIN q, NEW kept \in Selections(P)
  PROVE  Left(KeptOf(q, kept)) <= Left(q)
<1>1. PICK r \in UnitLists : r = KeptOf(q, kept)
  BY KeptList
<1>2. DOMAIN r = DOMAIN kept
  BY <1>1, KeptList
<1>3. \A k \in DOMAIN r : kept[k] \in DOMAIN q /\ r[k] = q[kept[k]]
  BY <1>1, <1>2, KeptList
<1>4. \A k, l \in DOMAIN r : kept[k] = kept[l] => k = l
  BY <1>2, KeptList
<1>5. Weighs(Remaining(q), DOMAIN q) /\ Weighs(Remaining(r), DOMAIN r)
  BY LeftType
<1>6. \A k \in DOMAIN r : Remaining(r)[k] <= Remaining(q)[kept[k]]
  <2> SUFFICES ASSUME NEW k \in DOMAIN r
               PROVE  Remaining(r)[k] <= Remaining(q)[kept[k]]
    OBVIOUS
  <2>1. Remaining(r)[k] = Remaining(q)[kept[k]]
    BY <1>3 DEF Remaining
  <2>2. Remaining(r)[k] \in Nat
    BY <1>5 DEF Weighs
  <2> QED
    BY <2>1, <2>2
<1>7. Sum(Remaining(r), DOMAIN r) <= Sum(Remaining(q), DOMAIN q)
  BY <1>3, <1>4, <1>5, <1>6, SumInject
<1> QED
  BY <1>1, <1>7 DEF Left

LEMMA LeftPrefix ==
  ASSUME NEW q \in UnitLists, NEW n \in 0..Len(q)
  PROVE  Left(Saved(SubSeq(q, 1, n))) <= Left(q)
<1>1. PICK r \in UnitLists : r = Saved(SubSeq(q, 1, n))
  BY PrefixList
<1>2. DOMAIN r = 1..n /\ \A k \in 1..n : k \in DOMAIN q /\ r[k].done = q[k].done /\ r[k].max = q[k].max
  BY <1>1, PrefixList
<1>3. PICK same : same = [k \in 1..n |-> k]
  OBVIOUS
<1>4. \A k \in DOMAIN r : same[k] \in DOMAIN q
  BY <1>2, <1>3
<1>5. Weighs(Remaining(q), DOMAIN q) /\ Weighs(Remaining(r), DOMAIN r)
  BY LeftType
<1>6. \A k \in DOMAIN r : Remaining(r)[k] <= Remaining(q)[same[k]]
  <2> SUFFICES ASSUME NEW k \in DOMAIN r
               PROVE  Remaining(r)[k] <= Remaining(q)[same[k]]
    OBVIOUS
  <2>1. Remaining(r)[k] = Remaining(q)[same[k]]
    BY <1>2, <1>3 DEF Remaining
  <2>2. Remaining(r)[k] \in Nat
    BY <1>5 DEF Weighs
  <2> QED
    BY <2>1, <2>2
<1>7. \A k, l \in DOMAIN r : same[k] = same[l] => k = l
  BY <1>2, <1>3
<1>8. Sum(Remaining(r), DOMAIN r) <= Sum(Remaining(q), DOMAIN q)
  BY <1>4, <1>5, <1>6, <1>7, SumInject
<1> QED
  BY <1>1, <1>8 DEF Left

LEMMA LeftReceived ==
  ASSUME TypeOK, NEW batch \in Batches, handed + Len(batch) <= MaxUnit, NEW r \in Received(batch)
  PROVE  Left(r) = Sum(Maxes(batch), DOMAIN batch)
<1>1. r \in UnitLists /\ \A i \in DOMAIN r : r[i].done = 0 /\ r[i].max = batch[i].max
  BY ReceivedList
<1>2. DOMAIN r = DOMAIN batch
  BY DEF Received
<1>3. Remaining(r) = Maxes(batch)
  <2>1. \A i \in DOMAIN r : Remaining(r)[i] = Maxes(batch)[i]
    BY <1>1, <1>2, ListFields DEF Remaining, Maxes
  <2>2. Remaining(r) = [i \in DOMAIN r |-> Remaining(r)[i]]
    BY DEF Remaining
  <2>3. Maxes(batch) = [i \in DOMAIN r |-> Maxes(batch)[i]]
    BY <1>2 DEF Maxes
  <2> QED
    BY <2>1, <2>2, <2>3
<1> QED
  BY <1>2, <1>3 DEF Left

LEMMA LeftCompleted ==
  ASSUME NEW q \in UnitLists, NEW r \in UnitLists, NEW i \in DOMAIN q, DOMAIN r = DOMAIN q,
         \A j \in DOMAIN q \ {i} : r[j] = q[j],
         r[i].max = q[i].max, r[i].done = q[i].done + 1, CanDo(q[i])
  PROVE  Left(r) + 1 = Left(q)
<1>1. Weighs(Remaining(q), DOMAIN q) /\ Weighs(Remaining(r), DOMAIN q)
  BY LeftType
<1>2. Remaining(r)[i] + 1 = Remaining(q)[i] /\ Remaining(r)[i] \in Nat
  <2>1. PICK d \in Nat, m \in Nat : d = q[i].done /\ m = q[i].max
    BY ListFields
  <2>2. d < m
    BY <2>1 DEF CanDo
  <2>3. Remaining(q)[i] = m - d
    BY <2>1, <2>2 DEF Remaining
  <2>4. Remaining(r)[i] = m - (d + 1)
    BY <2>1, <2>2 DEF Remaining
  <2> QED
    BY <2>2, <2>3, <2>4
<1>3. Sum(Remaining(r), DOMAIN q \ {i}) = Sum(Remaining(q), DOMAIN q \ {i})
  <2>1. \A j \in DOMAIN q \ {i} : Remaining(r)[j] = Remaining(q)[j]
    BY DEF Remaining
  <2>2. Weighs(Remaining(q), DOMAIN q \ {i})
    BY <1>1, WeighsSubset
  <2> QED
    BY <2>1, <2>2, SumSame
<1>4. Sum(Remaining(r), DOMAIN q) = Remaining(r)[i] + Sum(Remaining(r), DOMAIN q \ {i})
  BY <1>1, SumRemove
<1>5. Sum(Remaining(q), DOMAIN q) = Remaining(q)[i] + Sum(Remaining(q), DOMAIN q \ {i})
  BY <1>1, SumRemove
<1>6. Sum(Remaining(q), DOMAIN q \ {i}) \in Nat
  BY <1>1, WeighsSubset, SumType
<1>7. Left(r) = Remaining(r)[i] + Sum(Remaining(q), DOMAIN q \ {i})
      /\ Left(q) = Remaining(q)[i] + Sum(Remaining(q), DOMAIN q \ {i})
  BY <1>3, <1>4, <1>5 DEF Left
<1> QED
  BY <1>2, <1>6, <1>7

-----------------------------------------------------------------------------
(***************************************************************************)
(* The inductive invariant of the shares.  Lemma XShare: step X keeps it.   *)
(***************************************************************************)
(* No curve has counted since the start.                                    *)
Idle == \A w \in Server : totalWork[w] = 0

(* No list has more left than the largest batch.                            *)
Small == \A w \in Server : Left(units[w]) <= LargestBatch /\ Left(file[w]) <= LargestBatch

(* The server at hand keeps its share with the curves it may still get.     *)
Uncounted == IF pc \in {"save", "counted"} /\ workDone THEN 1 ELSE 0

Ahead ==
  served /\ pc \in {"work", "curve", "save", "counted"} =>
    (totalWork[at] + Left(units[at]) + Uncounted) * 100 <= percent[at] * TotalWork + 100 * LargestBatch

(* Units of an earlier start are there only before the first curve counts.  *)
Fresh ==
  /\ pc \in {"check", "ask", "ended"} => Idle
  /\ served /\ pc \in {"loop", "choose", "incomplete"} => Idle \/ \A w \in Server : units[w] = <<>>
  /\ served /\ pc = "return" => \A w \in Server : w < at => units[w] = <<>>
  /\ pc = "loop" => at = 1

(* The servers that FindNextServerForWork has passed have their share.      *)
Passed ==
  served /\ pc = "choose" /\ ~quitting =>
    Idle \/ \A w \in Server : level >= 2 \/ w < at => percent[w] * TotalWork <= totalWork[w] * 100

ShareInv == Small /\ SharesKept /\ Ahead /\ Fresh /\ Passed

LEMMA Total ==
  ASSUME TypeU
  PROVE  /\ TotalWork = Sum(totalWork, Server) /\ TotalWork \in Nat
         /\ Weighs(totalWork, Server) /\ Weighs(percent, Server) /\ Sum(percent, Server) = 100
         /\ \A w \in Server : percent[w] \in Nat /\ totalWork[w] \in Nat
         /\ \A w \in Server : totalWork[w] <= TotalWork
         /\ IsFiniteSet(Server)
<1>1. IsFiniteSet(Server)
  BY Servers, FS_Interval DEF Server, TypeU
<1>2. \A w \in Server : percent[w] \in Nat /\ totalWork[w] \in Nat
  <2>1. percent \in Seq(0..100)
    BY ClientAssumption DEF TypeU
  <2> DEFINE S == 0..100
  <2>2. \A w \in DOMAIN percent : percent[w] \in S
    <3>1. percent \in Seq(S)
      BY <2>1
    <3> HIDE DEF S
    <3> QED
      BY <3>1
  <2>3. \A w \in DOMAIN percent : percent[w] \in Nat
    BY <2>2
  <2>4. totalWork \in [Server -> Nat]
    BY DEF TypeU
  <2> QED
    BY <2>3, <2>4 DEF Server
<1>3. Weighs(totalWork, Server) /\ Weighs(percent, Server)
  BY <1>1, <1>2 DEF Weighs
<1>4. TotalWork = Sum(totalWork, Server)
  BY SumOfSet DEF TotalWork
<1>5. Sum(percent, Server) = 100
  <2>1. MapThenSumSet(LAMBDA w : percent[w], Server) = 100
    BY ClientAssumption DEF TypeU, Server
  <2>2. MapThenSumSet(LAMBDA w : percent[w], Server) = Sum(percent, Server)
    BY SumOfSet
  <2> QED
    BY <2>1, <2>2
<1>6. TotalWork \in Nat
  BY <1>3, <1>4, SumType
<1>7. \A w \in Server : totalWork[w] <= TotalWork
  BY <1>3, <1>4, SumMember
<1> QED
  BY <1>1, <1>2, <1>3, <1>4, <1>5, <1>6, <1>7

(* Steps that count no curve.                                               *)
LEMMA SameTotal ==
  ASSUME ShareInv, UNCHANGED <<percent, totalWork>>, served' => served
  PROVE  /\ SharesKept' /\ TotalWork' = TotalWork /\ Server' = Server /\ LargestBatch' = LargestBatch
         /\ Idle <=> Idle'
<1>1. Server' = Server
  BY DEF Server
<1>2. TotalWork' = TotalWork
  BY <1>1 DEF TotalWork, MapThenSumSet, MapThenFoldSet
<1>3. LargestBatch' = LargestBatch
  OBVIOUS
<1> QED
  BY <1>1, <1>2, <1>3 DEF SharesKept, ShareInv, Idle

(* What a session leaves: no list has more left, and while the server       *)
(* serves none is left.                                                     *)
LEMMA ReturnedSmall ==
  ASSUME BoundedBatches, TypeU, Small, NEW w \in Server, ReturnWork(w), UNCHANGED percent
  PROVE  /\ Small' /\ (served' => served) /\ (served' => units'[w] = <<>>)
         /\ \A x \in Server : units[x] = <<>> => units'[x] = <<>>
<1> DEFINE q == units[w]
<1>0. Server' = Server /\ LargestBatch' = LargestBatch
  BY DEF Server
<1>1. CASE units' = units /\ file' = file /\ served' = FALSE
  BY <1>0, <1>1 DEF Small
<1>2. CASE units[w] = <<>> /\ UNCHANGED <<units, file, accepted, served>>
  BY <1>0, <1>2 DEF Small
<1>3. CASE /\ q # <<>>
           /\ \E kept \in Selections(Reported(w)) :
                /\ units' = [units EXCEPT ![w] = KeptOf(q, kept)]
                /\ file' = IF kept = <<>> THEN [file EXCEPT ![w] = <<>>] ELSE file
                /\ served' = (served /\ kept = <<>>)
  <2>1. PICK kept \in Selections(Reported(w)) :
          /\ units' = [units EXCEPT ![w] = KeptOf(q, kept)]
          /\ file' = IF kept = <<>> THEN [file EXCEPT ![w] = <<>>] ELSE file
          /\ served' = (served /\ kept = <<>>)
    BY <1>3
  <2>2. q \in UnitLists /\ Reported(w) \in SUBSET DOMAIN q
    BY DEF TypeU, Reported
  <2>3. Left(KeptOf(q, kept)) <= Left(q) /\ KeptOf(q, kept) \in UnitLists
    BY <2>2, LeftKept, KeptList
  <2>4. /\ \A x \in Server \ {w} : units'[x] = units[x] /\ file'[x] = file[x]
        /\ units'[w] = KeptOf(q, kept)
        /\ file'[w] = <<>> \/ file'[w] = file[w]
    BY <2>1 DEF TypeU
  <2>5. Left(units'[w]) <= LargestBatch
    <3>1. Left(q) \in Nat /\ Left(KeptOf(q, kept)) \in Nat /\ LargestBatch \in Nat
      BY <2>2, <2>3, LeftType, Largest
    <3>2. Left(q) <= LargestBatch
      BY DEF Small
    <3> QED
      BY <2>3, <2>4, <3>1, <3>2
  <2>6. Left(file'[w]) <= LargestBatch
    BY <2>4, LeftEmpty, Largest DEF Small
  <2>7. Small'
    BY <1>0, <2>4, <2>5, <2>6 DEF Small
  <2>8. served' => served /\ kept = <<>>
    BY <2>1
  <2>9. served' => units'[w] = <<>>
    BY <2>4, <2>8 DEF KeptOf
  <2>10. \A x \in Server : units[x] = <<>> => units'[x] = <<>>
    BY <1>3, <2>4
  <2> QED
    BY <2>7, <2>8, <2>9, <2>10
<1> QED
  BY <1>1, <1>2, <1>3 DEF ReturnWork, KeptOf

(* Steps that change no list.                                               *)
LEMMA SameSmall ==
  ASSUME Small, UNCHANGED <<percent, units, file>>
  PROVE  Small'
<1>1. Server' = Server /\ LargestBatch' = LargestBatch
  BY DEF Server
<1> QED
  BY <1>1 DEF Small

(* The end of the program.                                                  *)
LEMMA EndedShare ==
  ASSUME BoundedBatches, TypeU, ShareInv, TypeU', Ended, UNCHANGED percent,
         \A w \in Server : Left(file'[w]) <= LargestBatch
  PROVE  ShareInv'
<1>1. Server' = Server /\ LargestBatch' = LargestBatch
  BY DEF Server
<1>2. Small'
  BY <1>1, LeftEmpty, Largest DEF Small, Ended
<1>3. Idle'
  BY <1>1 DEF Idle, Ended
<1>4. SharesKept'
  <2>1. TotalWork' \in Nat
    <3>1. TotalWork' = Sum(totalWork', Server')
      BY SumOfSet DEF TotalWork, MapThenSumSet, MapThenFoldSet
    <3>2. Weighs(totalWork', Server')
      <4>1. IsFiniteSet(Server)
        BY Total
      <4>2. \A x \in Server : totalWork'[x] \in Nat
        BY <1>1 DEF TypeU
      <4> QED
        BY <1>1, <4>1, <4>2 DEF Weighs
    <3> QED
      BY <3>1, <3>2, SumType
  <2>2. LargestBatch \in Nat
    BY Largest
  <2>3. \A w \in Server : percent[w] \in Nat
    BY Total
  <2>4. \A w \in Server : totalWork'[w] * 100 <= percent'[w] * TotalWork' + 100 * LargestBatch
    <3> SUFFICES ASSUME NEW w \in Server
                 PROVE  totalWork'[w] * 100 <= percent'[w] * TotalWork' + 100 * LargestBatch
      OBVIOUS
    <3>1. PICK p \in Nat, t \in Nat, l \in Nat : p = percent'[w] /\ t = TotalWork' /\ l = LargestBatch
      BY <2>1, <2>2, <2>3
    <3>2. p * t \in Nat
      BY SMT
    <3>3. totalWork'[w] = 0
      BY <1>1, <1>3 DEF Idle
    <3> QED
      BY <3>1, <3>2, <3>3
  <2> QED
    BY <1>1, <2>4 DEF SharesKept
<1>5. Ahead' /\ Fresh' /\ Passed'
  <2>1. pc' = "ended"
    BY DEF Ended
  <2> QED
    BY <1>3, <2>1 DEF Ahead, Fresh, Passed
<1> QED
  BY <1>2, <1>4, <1>5 DEF ShareInv

LEMMA WorkShare ==
  ASSUME BoundedBatches, TypeU, PlaceInv, ShareInv, Small', UNCHANGED <<percent, totalWork>>,
         served' => served, pc' \notin {"work", "curve", "save", "counted"}, Fresh', Passed'
  PROVE  ShareInv'
<1>1. SharesKept'
  BY SameTotal
<1>2. Ahead'
  BY DEF Ahead
<1> QED
  BY <1>1, <1>2 DEF ShareInv

(* CheckForIncompleteWork.                                                  *)
LEMMA CheckShare ==
  ASSUME BoundedBatches, TypeU, PlaceInv, ShareInv,
         CheckFinished \/ CheckUnfinished \/ EndCheck \/ Loop
  PROVE  ShareInv'
<1>0. UNCHANGED <<percent, totalWork>>
  BY DEF CheckFinished, CheckUnfinished, EndCheck, Loop
<1>1. Small' /\ (served' => served)
  <2>1. CASE ReturnWork(at) /\ at \in Server
    <3>1. Small /\ percent' = percent
      BY <1>0 DEF ShareInv
    <3> QED
      BY ONLY BoundedBatches, TypeU, <2>1, <3>1, ReturnedSmall
  <2>2. CASE UNCHANGED <<units, file, served>>
    BY <1>0, <2>2, SameSmall DEF ShareInv
  <2> QED
    BY <2>1, <2>2 DEF CheckFinished, CheckUnfinished, EndCheck, Loop, work, PlaceInv
<1>2. Server' = Server /\ (Idle <=> Idle')
  BY <1>0, <1>1, SameTotal
<1>3. CASE CheckFinished \/ CheckUnfinished
  <2>1. Fresh' /\ Passed' /\ pc' \notin {"work", "curve", "save", "counted"}
    BY <1>2, <1>3 DEF CheckFinished, CheckUnfinished, Fresh, Passed, ShareInv
  <2> QED
    BY <1>0, <1>1, <2>1, WorkShare
<1>4. CASE EndCheck
  <2>1. Fresh' /\ Passed' /\ pc' \notin {"work", "curve", "save", "counted"}
    BY <1>2, <1>4 DEF EndCheck, Fresh, Passed, ShareInv
  <2> QED
    BY <1>0, <1>1, <2>1, WorkShare
<1>5. CASE Loop
  <2>1. pc' \in {"final", "choose"} /\ pc = "loop" /\ UNCHANGED <<at, level, units, served, quitting>>
    BY <1>5 DEF Loop, work, stops
  <2>2. at = 1 /\ level = 1
    BY <2>1 DEF Fresh, ShareInv, PlaceInv
  <2>3. Fresh'
    BY <1>2, <2>1 DEF Fresh, ShareInv
  <2>4. Passed'
    <3>1. \A w \in Server : ~(level >= 2 \/ w < at)
      BY <2>2, Servers DEF TypeU, Server
    <3> QED
      BY <1>2, <2>1, <3>1 DEF Passed
  <2> QED
    BY <1>0, <1>1, <2>1, <2>3, <2>4, WorkShare
<1> QED
  BY <1>3, <1>4, <1>5

(* The servers that are passed.                                             *)
LEMMA NextShare ==
  ASSUME BoundedBatches, TypeU, PlaceInv, ShareInv, NextServer \/ NextAttempt \/ Pause
  PROVE  ShareInv'
<1>0. UNCHANGED <<percent, totalWork, units, file>> /\ (served' => served)
  BY DEF NextServer, NextAttempt, Pause, work, TypeU
<1>1. Small'
  BY <1>0, SameSmall DEF ShareInv
<1>2. Server' = Server /\ (Idle <=> Idle') /\ TotalWork' = TotalWork
  BY <1>0, SameTotal
<1>3. CASE NextServer
  <2>1. /\ pc = "choose" /\ pc' = "choose" /\ at \in Server /\ at' = at + 1 /\ UNCHANGED <<level, quitting>>
        /\ served' => served /\ ~Asks(at)
    BY <1>3 DEF NextServer, stops
  <2>2. Fresh'
    BY <1>0, <1>2, <2>1 DEF Fresh, ShareInv
  <2>3. Passed'
    <3> SUFFICES ASSUME served', ~quitting, ~Idle, NEW w \in Server, level >= 2 \/ w < at + 1
                 PROVE  percent[w] * TotalWork <= totalWork[w] * 100
      BY <1>0, <1>2, <2>1 DEF Passed
    <3>1. served /\ ~Asks(at)
      BY <2>1
    <3>2. CASE level >= 2 \/ w < at
      BY <2>1, <3>1, <3>2 DEF Passed, ShareInv
    <3>3. CASE w = at /\ level = 1
      <4>1. units[at] = <<>>
        BY <2>1, <3>1 DEF Fresh, ShareInv
      <4>2. PICK p \in Nat, t \in Nat, c \in Nat : p = percent[at] /\ t = TotalWork /\ c = totalWork[at]
        BY <2>1, Total
      <4>3. ~ (p > 0 /\ (t = 0 \/ c * 100 < p * 1 * t))
        BY <3>1, <3>3, <4>1, <4>2, Levels DEF Asks, BelowShare, OverWork
      <4>4. p = 0 \/ ~ (c * 100 < p * t)
        BY <4>3
      <4>5. p * t \in Nat /\ (p = 0 => p * t = 0)
        BY SMT
      <4> QED
        BY <3>3, <4>2, <4>4, <4>5
    <3>4. w = at \/ w < at \/ ~ (w < at + 1)
      BY Servers, <2>1 DEF TypeU, Server
    <3>5. level \in Nat /\ level >= 1
      BY Levels DEF TypeU
    <3> QED
      BY <3>2, <3>3, <3>4, <3>5
  <2> QED
    BY <1>0, <1>1, <2>1, <2>2, <2>3, WorkShare
<1>4. CASE NextAttempt
  <2>1. /\ pc = "choose" /\ pc' \in {"choose", "incomplete"} /\ at \notin Server /\ at' = 1
        /\ UNCHANGED <<quitting, served>>
    BY <1>4 DEF NextAttempt, stops, work
  <2>2. Fresh'
    BY <1>0, <1>2, <2>1 DEF Fresh, ShareInv
  <2>3. Passed'
    <3>1. \A w \in Server : w < at
      BY <2>1, Servers DEF TypeU, Server
    <3> QED
      BY <1>0, <1>2, <2>1, <3>1 DEF Passed, ShareInv
  <2> QED
    BY <1>0, <1>1, <2>1, <2>2, <2>3, WorkShare
<1>5. CASE Pause
  <2>1. pc = "incomplete" /\ pc' \in {"final", "return"} /\ at' = 1
    BY <1>5 DEF Pause
  <2>2. \A w \in Server : ~ (w < 1)
    BY Servers DEF TypeU, Server
  <2>3. Fresh' /\ Passed'
    BY <1>2, <2>1, <2>2 DEF Fresh, Passed
  <2> QED
    BY <1>0, <1>1, <2>1, <2>3, WorkShare
<1> QED
  BY <1>3, <1>4, <1>5

(* main returns the work.                                                   *)
LEMMA ReturnShare ==
  ASSUME BoundedBatches, TypeU, PlaceInv, ShareInv, ReturnAll \/ ReturnFinally \/ EndDoWork \/ EndLoop
  PROVE  ShareInv'
<1>0. UNCHANGED <<percent, totalWork>>
  BY DEF ReturnAll, ReturnFinally, EndDoWork, EndLoop
<1>1. Small' /\ (served' => served)
  <2>1. CASE ReturnWork(at) /\ at \in Server
    <3>1. Small /\ percent' = percent
      BY <1>0 DEF ShareInv
    <3> QED
      BY ONLY BoundedBatches, TypeU, <2>1, <3>1, ReturnedSmall
  <2>2. CASE UNCHANGED <<units, file, served>>
    BY <1>0, <2>2, SameSmall DEF ShareInv
  <2> QED
    BY <2>1, <2>2 DEF ReturnAll, ReturnFinally, EndDoWork, EndLoop, work
<1>2. Server' = Server /\ (Idle <=> Idle')
  BY <1>0, <1>1, SameTotal
<1>3. CASE ReturnAll
  <2>1. CASE at \in Server
    <3>1. pc = "return" /\ pc' = "return" /\ ReturnWork(at) /\ at' = at + 1
      BY <1>3, <2>1 DEF ReturnAll
    <3>2. /\ served' => served /\ units'[at] = <<>>
          /\ \A x \in Server : units[x] = <<>> => units'[x] = <<>>
      <4>1. Small /\ percent' = percent
        BY <1>0 DEF ShareInv
      <4> QED
        BY ONLY BoundedBatches, TypeU, <2>1, <3>1, <4>1, ReturnedSmall
    <3>3. \A w \in Server : w < at + 1 => w < at \/ w = at
      BY <2>1, Servers DEF TypeU, Server
    <3>4. Fresh' /\ Passed'
      BY <1>2, <3>1, <3>2, <3>3 DEF Fresh, Passed, ShareInv
    <3> QED
      BY <1>0, <1>1, <3>1, <3>4, WorkShare
  <2>2. CASE at \notin Server
    <3>1. pc = "return" /\ pc' = "loop" /\ at' = 1 /\ UNCHANGED <<units, served>>
      BY <1>3, <2>2 DEF ReturnAll
    <3>2. \A w \in Server : w < at
      BY <2>2, Servers DEF TypeU, Server
    <3>3. Fresh' /\ Passed'
      BY <1>2, <3>1, <3>2 DEF Fresh, Passed, ShareInv
    <3> QED
      BY <1>0, <1>1, <3>1, <3>3, WorkShare
  <2> QED
    BY <2>1, <2>2
<1>4. CASE ReturnFinally \/ EndLoop
  <2>1. pc' \in {"report", "delete"}
    BY <1>4 DEF ReturnFinally, EndLoop
  <2>2. Fresh' /\ Passed'
    BY <2>1 DEF Fresh, Passed
  <2> QED
    BY <1>0, <1>1, <2>1, <2>2, WorkShare
<1>5. CASE EndDoWork
  <2>1. pc' \in {"final", "return"} /\ at' = 1
    BY <1>5 DEF EndDoWork
  <2>2. \A w \in Server : ~ (w < 1)
    BY Servers DEF TypeU, Server
  <2>3. Fresh' /\ Passed'
    BY <1>2, <2>1, <2>2 DEF Fresh, Passed
  <2> QED
    BY <1>0, <1>1, <2>1, <2>3, WorkShare
<1> QED
  BY <1>3, <1>4, <1>5

LEMMA BusyShare ==
  ASSUME ShareInv, Small', UNCHANGED <<percent, totalWork>>, served' => served,
         pc' \in {"work", "curve", "save", "counted", "worked"},
         served' /\ pc' # "worked" =>
           (totalWork[at'] + Left(units'[at']) + Uncounted') * 100
             <= percent[at'] * TotalWork + 100 * LargestBatch
  PROVE  ShareInv'
<1>1. SharesKept' /\ TotalWork' = TotalWork /\ LargestBatch' = LargestBatch
  BY SameTotal
<1>2. percent' = percent /\ totalWork' = totalWork
  OBVIOUS
<1>3. Ahead'
  BY <1>1, <1>2 DEF Ahead
<1>4. Fresh' /\ Passed'
  BY DEF Fresh, Passed
<1> QED
  BY <1>1, <1>3, <1>4 DEF ShareInv

(* A server that is chosen: it is not ahead, so it may get a batch.         *)
LEMMA ChosenShare ==
  ASSUME BoundedBatches, TypeU, NEW w \in Server, NEW n \in Nat, n <= LargestBatch,
         totalWork[w] * 100 <= percent[w] * TotalWork
  PROVE  (totalWork[w] + n + 0) * 100 <= percent[w] * TotalWork + 100 * LargestBatch
<1>1. PICK p \in Nat, t \in Nat, c \in Nat, l \in Nat :
        p = percent[w] /\ t = TotalWork /\ c = totalWork[w] /\ l = LargestBatch
  BY Total, Largest
<1>2. p * t \in Nat
  BY SMT
<1>3. c * 100 <= p * t /\ n <= l
  BY <1>1
<1>4. (c + n + 0) * 100 <= p * t + 100 * l
  BY <1>2, <1>3
<1> QED
  BY <1>1, <1>4

LEMMA IdleShare ==
  ASSUME TypeU, Idle, NEW w \in Server
  PROVE  totalWork[w] * 100 <= percent[w] * TotalWork
<1>1. PICK p \in Nat, t \in Nat : p = percent[w] /\ t = TotalWork
  BY Total
<1>2. p * t \in Nat
  BY SMT
<1>3. totalWork[w] = 0
  BY DEF Idle
<1> QED
  BY <1>1, <1>2, <1>3

(* A server is asked only if it is not ahead of its share.                  *)
LEMMA AskedShare ==
  ASSUME TypeU, PlaceInv, ShareInv, served, pc = "choose", at \in Server, Asks(at)
  PROVE  totalWork[at] * 100 <= percent[at] * TotalWork
<1>1. CASE Idle
  BY <1>1, IdleShare
<1>2. CASE ~Idle /\ level >= 2
  <2>1. \A w \in Server : percent[w] * TotalWork <= totalWork[w] * 100
    BY <1>2 DEF Passed, ShareInv, Asks
  <2>2. /\ TotalWork = Sum(totalWork, Server) /\ Weighs(totalWork, Server) /\ Weighs(percent, Server)
        /\ Sum(percent, Server) = 100
    BY Total
  <2>3. PICK f, p, S, x : f = totalWork /\ p = percent /\ S = Server /\ x = at
    OBVIOUS
  <2>4. /\ Weighs(f, S) /\ Weighs(p, S) /\ Sum(p, S) = 100
        /\ \A y \in S : p[y] * Sum(f, S) <= f[y] * 100
        /\ x \in S
    BY <2>1, <2>2, <2>3
  <2>5. f[x] * 100 <= p[x] * Sum(f, S)
    BY ONLY <2>4, ExactShares
  <2> QED
    BY <2>2, <2>3, <2>5
<1>3. CASE ~Idle /\ ~ (level >= 2)
  <2>1. level = 1
    BY <1>3, Levels DEF TypeU
  <2>2. PICK p \in Nat, t \in Nat, c \in Nat : p = percent[at] /\ t = TotalWork /\ c = totalWork[at]
    BY Total
  <2>3. t = 0 \/ c * 100 < p * 1 * t
    BY <2>1, <2>2, Levels DEF Asks, BelowShare, OverWork
  <2>4. c <= t
    BY <2>2, Total
  <2>5. p * t \in Nat /\ p * 1 * t = p * t
    BY SMT
  <2>6. c * 100 <= p * t
    BY <2>3, <2>4, <2>5
  <2> QED
    BY <2>2, <2>6
<1> QED
  BY <1>1, <1>2, <1>3

LEMMA WorkIsHereShare ==
  ASSUME BoundedBatches, TypeU, PlaceInv, ShareInv, WorkIsHere
  PROVE  ShareInv'
<1>1. /\ UNCHANGED <<percent, totalWork, units, file>> /\ served' = served /\ at' = at /\ at \in Server
      /\ pc = "choose" /\ pc' = "work" /\ HasWork
  BY DEF WorkIsHere, DoWork, work
<1>2. Small'
  BY <1>1, SameSmall DEF ShareInv
<1>3. ASSUME served
      PROVE  (totalWork[at] + Left(units[at]) + 0) * 100 <= percent[at] * TotalWork + 100 * LargestBatch
  <2>1. units[at] # <<>>
    BY <1>1, EmptyList DEF HasWork, HasCurvesToDo
  <2>2. Idle
    BY <1>1, <1>3, <2>1 DEF Fresh, ShareInv
  <2>3. totalWork[at] * 100 <= percent[at] * TotalWork
    BY <1>1, <2>2, IdleShare
  <2>4. PICK n \in Nat : n = Left(units[at])
    BY <1>1, LeftType DEF TypeU
  <2>5. n <= LargestBatch
    BY <1>1, <2>4 DEF Small, ShareInv
  <2>6. (totalWork[at] + n + 0) * 100 <= percent[at] * TotalWork + 100 * LargestBatch
    BY <1>1, <2>3, <2>5, ChosenShare
  <2> QED
    BY <2>4, <2>6
<1>4. Uncounted' = 0
  BY <1>1 DEF Uncounted
<1> QED
  BY <1>1, <1>2, <1>3, <1>4, BusyShare

LEMMA GetWorkShare ==
  ASSUME BoundedBatches, TypeU, PlaceInv, ShareInv, GetWork
  PROVE  ShareInv'
<1>1. /\ UNCHANGED <<percent, totalWork>> /\ at' = at /\ at \in Server
      /\ pc = "choose" /\ pc' = "work" /\ Asks(at)
  BY DEF GetWork, DoWork
<1>2. PICK batch \in Batches :
        /\ handed + Len(batch) <= MaxUnit
        /\ units' \in {[units EXCEPT ![at] = list] : list \in Received(batch)}
        /\ file' = file \/ file' = [file EXCEPT ![at] = <<>>]
        /\ served' = (served /\ batch # <<>>)
  BY DEF GetWork
<1>3. PICK list \in Received(batch) : units' = [units EXCEPT ![at] = list]
  BY <1>2
<1>4. list \in UnitLists /\ Left(list) = Sum(Maxes(batch), DOMAIN batch)
  BY <1>2, TypeForm, ReceivedList, LeftReceived
<1>5. Left(list) \in Nat /\ Left(list) <= LargestBatch /\ Left(<<>>) <= LargestBatch
  BY <1>4, LeftType, LeftEmpty, Largest
<1>6. units'[at] = list /\ \A w \in Server \ {at} : units'[w] = units[w]
  BY <1>1, <1>3 DEF TypeU
<1>7. (file'[at] = file[at] \/ file'[at] = <<>>) /\ \A w \in Server \ {at} : file'[w] = file[w]
  BY <1>1, <1>2, <1>6 DEF TypeU
<1>8. Small'
  <2>1. Server' = Server /\ LargestBatch' = LargestBatch
    BY <1>1 DEF Server
  <2> QED
    BY <1>5, <1>6, <1>7, <2>1 DEF Small, ShareInv
<1>9. served' => served
  BY <1>2
<1>10. ASSUME served'
       PROVE  (totalWork[at] + Left(units'[at]) + 0) * 100 <= percent[at] * TotalWork + 100 * LargestBatch
  <2>1. totalWork[at] * 100 <= percent[at] * TotalWork
    BY <1>1, <1>9, <1>10, AskedShare
  <2>2. PICK n \in Nat : n = Left(list)
    BY <1>5
  <2>3. (totalWork[at] + n + 0) * 100 <= percent[at] * TotalWork + 100 * LargestBatch
    BY <1>1, <1>5, <2>1, <2>2, ChosenShare
  <2> QED
    BY <1>6, <2>2, <2>3
<1>11. Uncounted' = 0
  BY <1>1 DEF Uncounted
<1> QED
  BY <1>1, <1>8, <1>9, <1>10, <1>11, BusyShare

(* One list changes, and has no more left.                                  *)
LEMMA LessSmall ==
  ASSUME TypeU, TypeU', BoundedBatches, Small, UNCHANGED percent, NEW w \in Server,
         \A x \in Server \ {w} : units'[x] = units[x] /\ file'[x] = file[x],
         Left(units'[w]) <= Left(units[w]),
         Left(file'[w]) <= Left(units[w]) \/ file'[w] = file[w]
  PROVE  Small'
<1>1. Server' = Server /\ LargestBatch' = LargestBatch /\ LargestBatch \in Nat
  BY Largest DEF Server
<1>2. units[w] \in UnitLists /\ units'[w] \in UnitLists /\ file'[w] \in UnitLists
  BY <1>1 DEF TypeU
<1>3. Left(units[w]) \in Nat /\ Left(units'[w]) \in Nat /\ Left(file'[w]) \in Nat
  BY <1>2, LeftType
<1>4. Left(units[w]) <= LargestBatch
  BY DEF Small
<1>5. Left(units'[w]) <= LargestBatch
  BY <1>1, <1>3, <1>4
<1>6. Left(file'[w]) <= LargestBatch
  BY <1>1, <1>3, <1>4 DEF Small
<1> QED
  BY <1>1, <1>5, <1>6 DEF Small

LEMMA StartCurveShare ==
  ASSUME BoundedBatches, TypeU, TypeU', PlaceInv, ShareInv, StartCurve
  PROVE  ShareInv'
<1>1. /\ UNCHANGED <<percent, totalWork, file, served>> /\ at' = at /\ at \in Server
      /\ pc = "work" /\ pc' \in {"curve", "worked"}
      /\ units' = units \/ units' = [units EXCEPT ![at] = Unmarked(@)]
  BY DEF StartCurve, PlaceInv
<1>2. Left(units'[at]) = Left(units[at])
  <2>1. units[at] \in UnitLists
    BY <1>1 DEF TypeU
  <2>2. Left(Unmarked(units[at])) = Left(units[at])
    BY <2>1, UnmarkedList, LeftAlike
  <2>3. units'[at] = units[at] \/ units'[at] = Unmarked(units[at])
    BY <1>1 DEF TypeU
  <2> QED
    BY <2>2, <2>3
<1>3. \A x \in Server \ {at} : units'[x] = units[x]
  BY <1>1 DEF TypeU
<1>4. Left(units[at]) \in Nat
  BY <1>1, LeftType DEF TypeU
<1>5. Small'
  BY <1>1, <1>2, <1>3, <1>4, LessSmall DEF ShareInv
<1>6. Uncounted = 0 /\ Uncounted' = 0
  BY <1>1 DEF Uncounted
<1>7. served => (totalWork[at] + Left(units'[at]) + Uncounted') * 100
                  <= percent[at] * TotalWork + 100 * LargestBatch
  BY <1>1, <1>2, <1>6 DEF Ahead, ShareInv
<1> QED
  BY <1>1, <1>5, <1>7, BusyShare

LEMMA CurveCompletedShare ==
  ASSUME BoundedBatches, TypeU, TypeU', PlaceInv, ShareInv, CurveCompleted
  PROVE  ShareInv'
<1>1. /\ UNCHANGED <<percent, totalWork, file, served>> /\ at' = at /\ at \in Server
      /\ pc = "curve" /\ pc' = "save" /\ workDone' = TRUE
      /\ running \in DOMAIN units[at] /\ CanDo(units[at][running])
  BY DEF CurveCompleted, PlaceInv
<1> DEFINE i == running
           u == units[at][i]
<1>2. PICK result \in Results :
        units' = [units EXCEPT ![at][i] = [u EXCEPT !.done = @ + 1, !.just = i < Len(units[at]), !.result = result]]
  BY DEF CurveCompleted
<1> DEFINE v == [u EXCEPT !.done = @ + 1, !.just = i < Len(units[at]), !.result = result]
<1>3. units'[at] = [units[at] EXCEPT ![i] = v] /\ \A x \in Server \ {at} : units'[x] = units[x]
  BY <1>1, <1>2 DEF TypeU
<1>4. units[at] \in UnitLists /\ units'[at] \in UnitLists
  BY <1>1 DEF TypeU, Server
<1>5. v.max = u.max /\ v.done = u.done + 1
  <2>1. u \in WorkUnit
    BY <1>1, <1>4, ListFields DEF BoundedUnit
  <2> HIDE DEF u
  <2> QED
    BY <2>1 DEF WorkUnit
<1>6. PICK q \in UnitLists, r \in UnitLists : q = units[at] /\ r = units'[at]
  BY <1>4
<1>7. /\ i \in DOMAIN q /\ DOMAIN r = DOMAIN q /\ \A j \in DOMAIN q \ {i} : r[j] = q[j]
      /\ r[i] = v /\ q[i] = u /\ CanDo(q[i])
  <2> HIDE DEF v
  <2> QED
    BY <1>1, <1>3, <1>6
<1>8. r[i].max = q[i].max /\ r[i].done = q[i].done + 1
  BY <1>5, <1>7
<1>9. Left(r) + 1 = Left(q)
  <2> HIDE DEF i
  <2> QED
    BY <1>7, <1>8, LeftCompleted
<1>10. Left(r) \in Nat /\ Left(q) \in Nat
  BY LeftType
<1>11. Small'
  BY <1>1, <1>3, <1>6, <1>9, <1>10, LessSmall DEF ShareInv
<1>12. Uncounted = 0 /\ Uncounted' = 1
  BY <1>1 DEF Uncounted
<1>13. served => (totalWork[at] + Left(units'[at]) + Uncounted') * 100
                   <= percent[at] * TotalWork + 100 * LargestBatch
  <2>1. served => (totalWork[at] + Left(q) + 0) * 100 <= percent[at] * TotalWork + 100 * LargestBatch
    BY <1>1, <1>6, <1>12 DEF Ahead, ShareInv
  <2>2. totalWork[at] \in Nat
    BY <1>1, Total
  <2>3. totalWork[at] + Left(q) + 0 = totalWork[at] + Left(r) + 1
    BY <1>9, <1>10, <2>2
  <2> QED
    BY <1>6, <1>12, <2>1, <2>3
<1> QED
  BY <1>1, <1>11, <1>13, BusyShare

LEMMA CurveInterruptedShare ==
  ASSUME BoundedBatches, TypeU, PlaceInv, ShareInv, CurveInterrupted
  PROVE  ShareInv'
<1>1. /\ UNCHANGED <<percent, totalWork, units, file, served>> /\ at' = at /\ at \in Server
      /\ pc = "curve" /\ pc' = "save" /\ workDone' = FALSE
  BY DEF CurveInterrupted, PlaceInv, work
<1>2. Small'
  BY <1>1, SameSmall DEF ShareInv
<1>3. Uncounted = 0 /\ Uncounted' = 0
  BY <1>1 DEF Uncounted
<1>4. served => (totalWork[at] + Left(units'[at]) + Uncounted') * 100
                  <= percent[at] * TotalWork + 100 * LargestBatch
  BY <1>1, <1>3 DEF Ahead, ShareInv
<1> QED
  BY <1>1, <1>2, <1>4, BusyShare

LEMMA SaveShare ==
  ASSUME BoundedBatches, TypeU, TypeU', PlaceInv, ShareInv, Save
  PROVE  ShareInv'
<1>1. /\ UNCHANGED <<percent, totalWork, units, served, workDone>> /\ at' = at /\ at \in Server
      /\ pc = "save" /\ pc' = "counted"
      /\ file' = [file EXCEPT ![at] = <<>>]
  BY DEF Save, PlaceInv
<1>2. file'[at] = <<>> /\ \A x \in Server \ {at} : file'[x] = file[x]
  BY <1>1 DEF TypeU
<1>3. Left(<<>>) <= Left(units[at]) /\ Left(units[at]) \in Nat
  BY <1>1, LeftEmpty, LeftType DEF TypeU
<1>4. Small'
  BY <1>1, <1>2, <1>3, LessSmall DEF ShareInv
<1>5. Uncounted' = Uncounted
  BY <1>1 DEF Uncounted
<1>6. served => (totalWork[at] + Left(units'[at]) + Uncounted') * 100
                  <= percent[at] * TotalWork + 100 * LargestBatch
  BY <1>1, <1>5 DEF Ahead, ShareInv
<1> QED
  BY <1>1, <1>4, <1>6, BusyShare

LEMMA CountCurveShare ==
  ASSUME BoundedBatches, TypeU, TypeU', PlaceInv, ShareInv, CountCurve
  PROVE  ShareInv'
<1>1. /\ UNCHANGED <<percent, units, file, served, workDone>> /\ at' = at /\ at \in Server
      /\ pc = "counted" /\ pc' \in {"work", "worked"}
  BY DEF CountCurve, PlaceInv, work
<1>2. Small'
  BY <1>1, SameSmall DEF ShareInv
<1>3. CASE pc' = "worked" /\ totalWork' = totalWork
  BY <1>1, <1>2, <1>3, BusyShare
<1>4. CASE workDone /\ totalWork' = [totalWork EXCEPT ![at] = @ + 1]
  <2>1. Server' = Server /\ LargestBatch' = LargestBatch
    BY <1>1 DEF Server
  <2>2. TotalWork' = TotalWork + 1
    <3>1. TotalWork' = Sum(totalWork', Server')
      BY SumOfSet DEF TotalWork, MapThenSumSet, MapThenFoldSet
    <3>2. totalWork \in [Server -> Nat] /\ IsFiniteSet(Server) /\ TotalWork = Sum(totalWork, Server)
      BY Total DEF TypeU
    <3>3. Sum([totalWork EXCEPT ![at] = @ + 1], Server) = Sum(totalWork, Server) + 1
      BY <1>1, <3>2, SumCount
    <3> QED
      BY <1>4, <2>1, <3>1, <3>2, <3>3
  <2>3. Uncounted = 1 /\ Uncounted' = 0
    BY <1>1, <1>4 DEF Uncounted
  <2>4. totalWork'[at] = totalWork[at] + 1 /\ \A x \in Server \ {at} : totalWork'[x] = totalWork[x]
    BY <1>1, <1>4 DEF TypeU
  <2>5. ASSUME served
        PROVE  (totalWork[at] + Left(units[at]) + 1) * 100 <= percent[at] * TotalWork + 100 * LargestBatch
    BY <1>1, <2>3, <2>5 DEF Ahead, ShareInv
  <2>6. ASSUME NEW w \in Server
        PROVE  /\ percent[w] * TotalWork \in Nat
               /\ percent[w] * (TotalWork + 1) = percent[w] * TotalWork + percent[w]
               /\ percent[w] \in Nat /\ totalWork[w] \in Nat
    <3>1. PICK p \in Nat, t \in Nat : p = percent[w] /\ t = TotalWork
      BY Total
    <3>2. p * t \in Nat /\ p * (t + 1) = p * t + p
      BY SMT
    <3> QED
      BY <3>1, <3>2, Total
  <2>7. LargestBatch \in Nat /\ Left(units[at]) \in Nat
    BY <1>1, Largest, LeftType DEF TypeU
  <2>8. ASSUME served
        PROVE  (totalWork'[at] + Left(units'[at]) + Uncounted') * 100
                 <= percent[at] * TotalWork' + 100 * LargestBatch
    <3>1. PICK c \in Nat, n \in Nat, p \in Nat, x \in Nat, l \in Nat :
            /\ c = totalWork[at] /\ n = Left(units[at]) /\ p = percent[at]
            /\ x = percent[at] * TotalWork /\ l = LargestBatch
      BY <1>1, <2>6, <2>7
    <3>2. (c + n + 1) * 100 <= x + 100 * l
      BY <2>5, <2>8, <3>1
    <3>3. ((c + 1) + n + 0) * 100 <= (x + p) + 100 * l
      BY <3>2
    <3>4. percent[at] * TotalWork' = x + p
      BY <1>1, <2>2, <2>6, <3>1
    <3>5. units'[at] = units[at] /\ totalWork'[at] = c + 1
      BY <1>1, <2>4, <3>1
    <3> QED
      BY <2>3, <3>1, <3>3, <3>4, <3>5
  <2>9. SharesKept'
    <3> SUFFICES ASSUME served, NEW w \in Server
                 PROVE  totalWork'[w] * 100 <= percent[w] * TotalWork' + 100 * LargestBatch
      BY <1>1, <2>1 DEF SharesKept
    <3>1. CASE w = at
      <4>1. PICK c \in Nat, n \in Nat : c = totalWork'[at] /\ n = Left(units'[at])
        BY <1>1, <2>4, <2>6, <2>7
      <4>2. PICK y \in Nat : y = percent[at] * TotalWork' + 100 * LargestBatch
        BY <1>1, <2>2, <2>6, <2>7
      <4>3. (c + n + 0) * 100 <= y
        BY <2>3, <2>8, <4>1, <4>2
      <4>4. c * 100 <= y
        BY <4>3
      <4> QED
        BY <3>1, <4>1, <4>2, <4>4
    <3>2. CASE w # at
      <4>1. PICK c \in Nat, p \in Nat, x \in Nat, l \in Nat :
              c = totalWork[w] /\ p = percent[w] /\ x = percent[w] * TotalWork /\ l = LargestBatch
        BY <2>6, <2>7
      <4>2. c * 100 <= x + 100 * l
        BY <4>1 DEF SharesKept, ShareInv
      <4>3. c * 100 <= (x + p) + 100 * l
        BY <4>2
      <4>4. percent[w] * TotalWork' = x + p
        BY <2>2, <2>6, <4>1
      <4>5. totalWork'[w] = c
        BY <2>4, <3>2, <4>1
      <4> QED
        BY <4>1, <4>3, <4>4, <4>5
    <3> QED
      BY <3>1, <3>2
  <2>10. Ahead'
    BY <1>1, <2>1, <2>8 DEF Ahead
  <2>11. Fresh' /\ Passed'
    BY <1>1 DEF Fresh, Passed
  <2> QED
    BY <1>2, <2>9, <2>10, <2>11 DEF ShareInv
<1> QED
  BY <1>3, <1>4 DEF CountCurve

(* main deletes the units of a server.                                      *)
LEMMA DeleteShare ==
  ASSUME BoundedBatches, TypeU, TypeU', PlaceInv, ShareInv, DeleteWork
  PROVE  ShareInv'
<1>1. /\ UNCHANGED <<percent, totalWork, units, served>> /\ at \in Server /\ pc' = "delete"
      /\ file' = file \/ file' = [file EXCEPT ![at] = <<>>]
  BY DEF DeleteWork
<1>2. Left(<<>>) <= Left(units[at]) /\ Left(units[at]) \in Nat
  <2>1. units[at] \in UnitLists
    BY <1>1 DEF TypeU
  <2>2. Left(units[at]) \in Nat
    BY <2>1, LeftType
  <2> QED
    BY <2>2, LeftEmpty
<1>3. Small'
  <2>1. /\ \A x \in Server \ {at} : units'[x] = units[x] /\ file'[x] = file[x]
        /\ file'[at] = <<>> \/ file'[at] = file[at]
    BY <1>1 DEF TypeU
  <2>2. Left(units'[at]) <= Left(units[at])
    BY <1>1, <1>2
  <2>3. Small
    BY DEF ShareInv
  <2> QED
    BY <1>1, <1>2, <2>1, <2>2, <2>3, LessSmall
<1>4. Fresh' /\ Passed'
  BY <1>1 DEF Fresh, Passed
<1> QED
  BY <1>1, <1>3, <1>4, WorkShare

(* The ends of the program, and its start.                                  *)
LEMMA StopShare ==
  ASSUME BoundedBatches, TypeU, TypeU', PlaceInv, ShareInv,
         EndCheckAndExit \/ Return \/ SignalAgain \/ Kill
  PROVE  ShareInv'
<1>1. Ended /\ UNCHANGED percent
  BY DEF EndCheckAndExit, Return, SignalAgain, Kill, SuddenEnd
<1>2. \A w \in Server : Left(file'[w]) <= LargestBatch
  <2>1. CASE UNCHANGED file
    BY <2>1 DEF Small, ShareInv
  <2>2. CASE open # 0 /\ \E n \in 0..Len(units[open]) :
               file' = [file EXCEPT ![open] = Saved(SubSeq(units[open], 1, n))]
    <3>1. PICK n \in 0..Len(units[open]) : file' = [file EXCEPT ![open] = Saved(SubSeq(units[open], 1, n))]
      BY <2>2
    <3>2. open \in Server /\ units[open] \in UnitLists
      BY <2>2 DEF TypeU
    <3>3. Left(Saved(SubSeq(units[open], 1, n))) <= Left(units[open])
          /\ Saved(SubSeq(units[open], 1, n)) \in UnitLists
      BY <3>2, LeftPrefix, PrefixList
    <3>4. file'[open] = Saved(SubSeq(units[open], 1, n)) /\ \A w \in Server \ {open} : file'[w] = file[w]
      BY <3>1, <3>2 DEF TypeU
    <3>5. Left(file'[open]) <= LargestBatch
      <4>1. Left(file'[open]) \in Nat /\ Left(units[open]) \in Nat /\ LargestBatch \in Nat
        BY <3>2, <3>3, <3>4, LeftType, Largest
      <4>2. Left(units[open]) <= LargestBatch
        BY <3>2 DEF Small, ShareInv
      <4> QED
        BY <3>3, <3>4, <4>1, <4>2
    <3> QED
      BY <3>4, <3>5 DEF Small, ShareInv
  <2> QED
    BY <2>1, <2>2 DEF EndCheckAndExit, Return, SignalAgain, Kill, SuddenEnd
<1> QED
  BY <1>1, <1>2, EndedShare

(* Steps beside the loop.                                                   *)
LEMMA BesideShare ==
  ASSUME BoundedBatches, TypeU, TypeU', PlaceInv, ShareInv,
         Signal \/ AnswerStop \/ WriteFile \/ UNCHANGED vars
  PROVE  ShareInv'
<1>1. /\ UNCHANGED <<percent, totalWork, units, served, pc, at, level, workDone>>
      /\ quitting' = TRUE \/ quitting' = quitting
  BY DEF Signal, SetQuitting, AsksAfter, AnswerStop, WriteFile, TypeU, vars, work, stops
<1>2. /\ SharesKept' /\ TotalWork' = TotalWork /\ Server' = Server /\ LargestBatch' = LargestBatch
      /\ Idle <=> Idle'
  BY <1>1, SameTotal
<1>3. Small'
  <2>1. CASE UNCHANGED file
    BY <1>1, <2>1, SameSmall DEF ShareInv
  <2>2. CASE WriteFile
    <3>1. open \in Server /\ file' = [file EXCEPT ![open] = Saved(units[open])]
      BY <2>2 DEF WriteFile, TypeU
    <3>2. file'[open] = Saved(units[open]) /\ \A w \in Server \ {open} : file'[w] = file[w]
      BY <3>1 DEF TypeU
    <3>3. Left(Saved(units[open])) = Left(units[open]) /\ Left(units[open]) \in Nat
      BY <3>1, SavedList, LeftAlike, LeftType DEF TypeU
    <3> QED
      BY <1>1, <3>1, <3>2, <3>3, LessSmall DEF ShareInv
  <2> QED
    BY <2>1, <2>2 DEF Signal, AnswerStop, vars, work
<1>4. Uncounted' = Uncounted
  BY <1>1 DEF Uncounted
<1>5. Ahead'
  BY <1>1, <1>2, <1>4 DEF Ahead, ShareInv
<1>6. Fresh'
  BY <1>1, <1>2 DEF Fresh, ShareInv
<1>7. Passed'
  BY <1>1, <1>2 DEF Passed, ShareInv
<1> QED
  BY <1>2, <1>3, <1>5, <1>6, <1>7 DEF ShareInv

LEMMA StartShare ==
  ASSUME BoundedBatches, TypeU, PlaceInv, ShareInv, Start
  PROVE  ShareInv'
<1>1. /\ UNCHANGED <<percent, totalWork, file, served, at, level>>
      /\ pc = "ended" /\ pc' = "check"
  BY DEF Start
<1>2. /\ SharesKept' /\ Server' = Server /\ LargestBatch' = LargestBatch /\ (Idle <=> Idle')
  BY <1>1, SameTotal
<1>3. \A w \in Server : units'[w] \in Loaded(file[w])
  BY DEF Start
<1>4. Small'
  <2>1. ASSUME NEW w \in Server
        PROVE  Left(units'[w]) = Left(file[w])
    <3>1. PICK q \in UnitLists : q = file[w]
      BY DEF TypeU
    <3>2. PICK r \in Loaded(q) : r = units'[w]
      BY <1>3, <3>1
    <3>3. Alike(r, q)
      BY LoadedList
    <3> QED
      BY <3>1, <3>2, <3>3, LeftAlike
  <2> QED
    BY <1>1, <1>2, <2>1 DEF Small, ShareInv
<1>5. Ahead' /\ Fresh' /\ Passed'
  BY <1>1, <1>2 DEF Ahead, Fresh, Passed, ShareInv
<1> QED
  BY <1>2, <1>4, <1>5 DEF ShareInv

LEMMA ShareStep ==
  ASSUME BoundedBatches, TypeU, TypeU', PlaceInv, ShareInv, [Next]_vars
  PROVE  ShareInv'
BY CheckShare, NextShare, ReturnShare, WorkIsHereShare, GetWorkShare, StartCurveShare,
   CurveCompletedShare, CurveInterruptedShare, SaveShare, CountCurveShare, DeleteShare, StopShare, BesideShare,
   StartShare
   DEF Next, Main, Step

LEMMA SharesInitially ==
  ASSUME BoundedBatches, TypeU, Init
  PROVE  ShareInv
<1>1. Idle /\ \A w \in Server : units[w] = <<>> /\ file[w] = <<>>
  BY DEF Init, Idle
<1>2. Small
  BY <1>1, LeftEmpty, Largest DEF Small
<1>3. SharesKept
  <2> SUFFICES ASSUME NEW w \in Server
               PROVE  totalWork[w] * 100 <= percent[w] * TotalWork + 100 * LargestBatch
    BY DEF SharesKept
  <2>1. totalWork[w] * 100 <= percent[w] * TotalWork
    BY <1>1, IdleShare
  <2>2. PICK l \in Nat : l = LargestBatch
    BY Largest
  <2>3. PICK c \in Nat, p \in Nat, t \in Nat : c = totalWork[w] /\ p = percent[w] /\ t = TotalWork
    BY Total
  <2>4. p * t \in Nat
    BY SMT
  <2>5. c * 100 <= p * t + 100 * l
    BY <2>1, <2>3, <2>4
  <2> QED
    BY <2>2, <2>3, <2>5
<1>4. Ahead /\ Fresh /\ Passed
  BY <1>1 DEF Init, Ahead, Fresh, Passed
<1> QED
  BY <1>2, <1>3, <1>4 DEF ShareInv

(* While every server gives work and takes it back, none is ahead of its    *)
(* percentage by more than one batch, if batches are bounded                *)
(* (FindNextServerForWork).                                                 *)
THEOREM SharesCorrect ==
  ASSUME BoundedBatches
  PROVE  Spec => []SharesKept
<1>1. Init /\ IInv => ShareInv
  BY SharesInitially DEF IInv
<1>2. IInv /\ IInv' /\ ShareInv /\ [Next]_vars => ShareInv'
  BY ShareStep DEF IInv
<1>3. ShareInv => SharesKept
  BY DEF ShareInv
<1> QED
  BY <1>1, <1>2, <1>3, Invariant, PTL DEF Spec
=============================================================================
