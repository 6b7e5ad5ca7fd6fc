------------------------------ MODULE ClientLoop ------------------------------
(***************************************************************************)
(* ecmclient, the program around the sessions of module ReturnSession: the *)
(* choice of the server to work for, the curves, the save files, the stop  *)
(* signals and the start after a stop or a crash (ecmclient.cpp, Work.cpp, *)
(* WorkUnit.cpp; the UNIX build).                                          *)
(*                                                                         *)
(* A curve counts 1 as its work (all units have one B1).  A session that   *)
(* returns units is one step: it takes none, or all but some of them.      *)
(* A save file is emptied when it is opened and gets its units when it is   *)
(* closed; an exit in between flushes some of them, and a line that is cut  *)
(* stands for its unit lost.                                               *)
(* ReprocessINIFile writes SO_PROMPT into g_StopASAPOption whatever the    *)
(* file says, and ValidateConfiguration exits on any other value, so that  *)
(* variable is always SO_PROMPT and is left out.                           *)
(***************************************************************************)
EXTENDS Integers, Sequences, FiniteSetsExt, SequencesExt

CONSTANTS
  Percents,   \* percentages of the servers: sequences, adding up to 100
  StartOptions, \* values of startoption in ecmclient.ini
  Batches,    \* what a server answers to GETWORK: sequences of [method, max]
  MaxUnit,    \* bound on the units handed out
  MaxSignal,  \* bound on the stop signals
  MaxStart    \* bound on the starts of the client

Unit == 1..MaxUnit
Method == {"P-1", "ECM"}

ASSUME ClientAssumption ==
  /\ Percents \subseteq Seq(0..100)
  /\ \A p \in Percents : MapThenSumSet(LAMBDA w : p[w], DOMAIN p) = 100
  /\ StartOptions \subseteq {0, 1, 2, 9}
  /\ Batches \subseteq Seq([method : Method, max : Nat \ {0}])
  /\ MaxUnit \in Nat /\ MaxSignal \in Nat /\ MaxStart \in Nat \ {0}

VARIABLES
  percent,      \* id_WorkPercent of each server, in the order of ecmclient.ini
  startOption,  \* g_StartOption
  pc,           \* where the client stands
  at,           \* workID: the server it looks at, returns to or works for
  level,        \* the attempt of main to find a server
  workDone,     \* workDone of DoWork: a curve was completed
  didWork,      \* didWork of main, not initialized
  running,      \* the unit whose curve is running, or 0
  units,        \* im_FirstWorkUnit of each server
  file,         \* the units in each save file
  open,         \* the server whose save file is being written, or 0
  cut,          \* history: units that an exit left out of the file it broke off
  totalWork,    \* g_WorkTotalWork; g_TotalWork is the sum
  quitting,     \* g_IsQuitting
  terminating,  \* g_IsTerminating
  stopOption,   \* g_StopOption
  asking,       \* SetQuitting waits for the user to answer
  shutDown,     \* of CheckForIncompleteWork
  handed,       \* units handed out so far
  ran,          \* history: the curves GMP-ECM completed on each unit
  accepted,     \* history: the units a server took back
  served,       \* history: no server refused or failed since the start
  signals, starts,
  kills         \* sudden ends while no file was being written

work == <<units, file, open, cut, handed, ran, accepted, served>>
stops == <<quitting, terminating, stopOption, asking, signals, kills>>
vars == <<percent, startOption, pc, at, level, workDone, didWork, running,
          units, file, open, cut, totalWork, quitting, terminating, stopOption, asking,
          shutDown, handed, ran, accepted, served, signals, starts, kills>>

Prompt == 0
ReportWork == 1
ReportQuit == 2
Continue == 9

Server == DOMAIN percent

WorkUnit == [id : Unit, method : Method, max : Nat, done : Nat,
             result : {"none", "factor", "number"}, just : BOOLEAN]

-----------------------------------------------------------------------------
(***************************************************************************)
(* Work units, and the list of one server's units.                         *)
(***************************************************************************)
(* Defect: a P-1 unit goes on after its curve.                              *)
CanDoOfAnyMethod(u) == u.result = "none" /\ u.done < u.max

(* WorkUnit::CanDoAnotherCurve.                                             *)
CanDo(u) == u.result = "none" /\ u.done < u.max /\ ~(u.method = "P-1" /\ u.done > 0)

(* Work::CanDoAnotherCurve.                                                 *)
CanDoAnotherCurve(w) == \E i \in DOMAIN units[w] : CanDo(units[w][i])

(* Work::GetCurvesDone # 0 and Work::GetCurvesToDo # 0: sums over the list, *)
(* of terms that are never negative.                                        *)
HasCurvesDone(w) == \E i \in DOMAIN units[w] : units[w][i].done > 0
HasCurvesToDo(w) == \E i \in DOMAIN units[w] : units[w][i].done < units[w][i].max

(* Work::WasFactorFound.                                                    *)
WasFactorFound(w) == \E i \in DOMAIN units[w] : units[w][i].result = "factor"

(* The loop at the start of Work::DoCurve stops AT a unit that just did a   *)
(* curve if the one behind it can do another, and else takes the first.     *)
AtUnit(list) ==
  LET after == {i \in 1..(Len(list) - 1) : list[i].just /\ CanDo(list[i + 1])}
  IN  IF after = {} THEN 0 ELSE Min(after)

(* ... and clears the marks it passes.                                      *)
Unmarked(list) ==
  [i \in DOMAIN list |->
     IF AtUnit(list) = 0 \/ i <= AtUnit(list) THEN [list[i] EXCEPT !.just = FALSE] ELSE list[i]]

Chosen(list) == IF AtUnit(list) = 0 THEN 1 ELSE AtUnit(list)

(* WorkUnit::Save: the mark is not saved.                                   *)
Saved(list) == [i \in DOMAIN list |-> [list[i] EXCEPT !.just = FALSE]]

(* The marks of new objects, which nothing initializes.  The mark of the    *)
(* last unit is never looked at, and FALSE here.                            *)
Marks(list) == {mark \in [DOMAIN list -> BOOLEAN] : list # <<>> => ~mark[Len(list)]}

(* WorkUnit::Load, for each line of a save file.                            *)
Loaded(list) == {[i \in DOMAIN list |-> [list[i] EXCEPT !.just = mark[i]]] : mark \in Marks(list)}

(* WorkUnit::GetWorkUnitFromServer, for each line of the answer.            *)
Received(batch) ==
  {[i \in DOMAIN batch |->
      [id |-> handed + i, method |-> batch[i].method, max |-> batch[i].max, done |-> 0,
       result |-> "none", just |-> mark[i]]] : mark \in Marks(batch)}

-----------------------------------------------------------------------------
(***************************************************************************)
(* Sessions, signals and the start.                                        *)
(***************************************************************************)
(* The units of a server that are returned, not abandoned: their positions. *)
Reported(w) == {i \in DOMAIN units[w] : units[w][i].done > 0}

(* Some of the positions in a list, in their order.                         *)
Selections(positions) ==
  {q \in UNION {[1..n -> positions] : n \in 0..Cardinality(positions)} :
     \A i, j \in DOMAIN q : i < j => q[i] < q[j]}

(* Defect: the save file goes although a unit was kept.                     *)
ReturnWorkUnlinking(w) ==
  \/ units[w] = <<>> /\ UNCHANGED <<units, file, accepted, served>>
  \/ units[w] # <<>> /\ served' = FALSE /\ UNCHANGED <<units, file, accepted>>
  \/ /\ units[w] # <<>>
     /\ \E kept \in Selections(Reported(w)) :
          /\ units' = [units EXCEPT ![w] = [k \in DOMAIN kept |-> units[w][kept[k]]]]
          /\ accepted' = accepted \cup {units[w][i].id : i \in Reported(w) \ Range(kept)}
          /\ file' = [file EXCEPT ![w] = <<>>]
          /\ served' = (served /\ kept = <<>>)

(* Work::ReturnWork: nothing to do, no connection, or a session that leaves *)
(* the units the server did not confirm.  Units without a curve done are    *)
(* abandoned, which has no answer.  The file goes when no unit is left.     *)
ReturnWork(w) ==
  \/ units[w] = <<>> /\ UNCHANGED <<units, file, accepted, served>>
  \/ units[w] # <<>> /\ served' = FALSE /\ UNCHANGED <<units, file, accepted>>
  \/ /\ units[w] # <<>>
     /\ \E kept \in Selections(Reported(w)) :
          /\ units' = [units EXCEPT ![w] = [k \in DOMAIN kept |-> units[w][kept[k]]]]
          /\ accepted' = accepted \cup {units[w][i].id : i \in Reported(w) \ Range(kept)}
          /\ file' = IF kept = <<>> THEN [file EXCEPT ![w] = <<>>] ELSE file
          /\ served' = (served /\ kept = <<>>)

(* ReprocessINIFile writes its own variable, which it never sets, over the  *)
(* value it read into g_StopOption.                                         *)
ReprocessedStopOption == Prompt

(* SetQuitting: whether it ends the program at once,                        *)
EndsAtOnce == quitting /\ stopOption # Prompt

(* ... whether it asks: after SIGINT, if there is a unit to ask for.  The   *)
(* objects that main deletes at its end still are in g_Work: what is read   *)
(* of them then is anything.                                                *)
AsksAfter(sig) ==
  IF sig # "SIGINT" THEN {FALSE}
  ELSE IF pc = "delete" THEN BOOLEAN
  ELSE {\E w \in Server : HasCurvesDone(w) \/ HasCurvesToDo(w)}

(* ... and what it sets, before the user answers.                           *)
SetQuitting(sig) ==
  /\ terminating' = TRUE /\ stopOption' = ReprocessedStopOption
  /\ \E ask \in AsksAfter(sig) :
       /\ asking' = (asking \/ ask)
       /\ quitting' = (quitting \/ ~ask)

(* ProcessINIFile and ValidateConfiguration, which tests g_StartOption      *)
(* where it means g_StopOption.                                             *)
StopOptions(start) == IF start = ReportWork THEN {Prompt} ELSE {Prompt, ReportQuit, Continue}

(* The program ends: its memory is gone.                                    *)
Ended ==
  /\ pc' = "ended"
  /\ startOption' = Prompt
  /\ units' = [w \in Server |-> <<>>]
  /\ at' = 1 /\ level' = 1
  /\ workDone' = FALSE /\ didWork' = FALSE /\ running' = 0
  /\ totalWork' = [w \in Server |-> 0]
  /\ quitting' = FALSE /\ terminating' = FALSE /\ shutDown' = FALSE
  /\ stopOption' = Prompt /\ asking' = FALSE
  /\ served' = TRUE
  /\ open' = 0

(* ... suddenly: exit flushes what a file that is being written has got.    *)
SuddenEnd ==
  /\ Ended
  /\ \/ open = 0 /\ kills' = kills + 1 /\ UNCHANGED <<file, cut>>
     \/ /\ open # 0
        /\ \E n \in 0..Len(units[open]) :
             /\ file' = [file EXCEPT ![open] = Saved(SubSeq(units[open], 1, n))]
             /\ cut' = cut \cup {units[open][i].id : i \in (n + 1)..Len(units[open])}
        /\ UNCHANGED kills

Init ==
  /\ percent \in Percents
  /\ startOption \in StartOptions
  /\ pc = "check" /\ at = 1 /\ level = 1
  /\ workDone = FALSE /\ running = 0
  /\ didWork \in BOOLEAN
  /\ units = [w \in Server |-> <<>>]
  /\ file = [w \in Server |-> <<>>] /\ open = 0 /\ cut = {}
  /\ totalWork = [w \in Server |-> 0]
  /\ quitting = FALSE /\ terminating = FALSE /\ shutDown = FALSE
  /\ stopOption \in StopOptions(startOption) /\ asking = FALSE
  /\ handed = 0
  /\ ran = [u \in Unit |-> 0]
  /\ accepted = {}
  /\ served = TRUE
  /\ signals = 0 /\ starts = 1 /\ kills = 0

(* CheckForIncompleteWork: units that are all finished are returned,        *)
CheckFinished ==
  /\ pc = "check" /\ at \in Server
  /\ IF CanDoAnotherCurve(at) THEN UNCHANGED <<units, file, accepted, served>> ELSE ReturnWork(at)
  /\ pc' = "ask"
  /\ UNCHANGED <<percent, startOption, at, level, workDone, didWork, running, totalWork,
                 stops, shutDown, open, cut, handed, ran, starts>>

(* PromptForStartOption, if g_StartOption says to prompt.                   *)
StartAnswers ==
  IF startOption = Prompt THEN {ReportWork, ReportQuit, Continue} ELSE {startOption}

(* ... and curves that are still there as g_StartOption or the user says.   *)
CheckUnfinished ==
  /\ pc = "ask"
  /\ \/ /\ ~HasCurvesDone(at)
        /\ UNCHANGED <<units, file, accepted, served, shutDown>>
     \/ /\ HasCurvesDone(at)
        /\ \E option \in StartAnswers :
             /\ IF option = Continue THEN UNCHANGED <<units, file, accepted, served>>
                ELSE ReturnWork(at)
             /\ shutDown' = (shutDown \/ option = ReportQuit)
  /\ pc' = "check" /\ at' = at + 1
  /\ UNCHANGED <<percent, startOption, level, workDone, didWork, running, totalWork,
                 stops, open, cut, handed, ran, starts>>

(* The end of CheckForIncompleteWork, and g_IsQuitting = 0 in main.         *)
(* g_StartOption is not looked at again.                                    *)
EndCheck ==
  /\ pc = "check" /\ at \notin Server
  /\ ~shutDown
  /\ pc' = "loop" /\ at' = 1
  /\ quitting' = FALSE /\ startOption' = Prompt
  /\ UNCHANGED <<percent, level, workDone, didWork, running, work, totalWork,
                 terminating, stopOption, asking, signals, kills, shutDown, starts>>

EndCheckAndExit ==
  /\ pc = "check" /\ at \notin Server
  /\ shutDown
  /\ Ended
  /\ UNCHANGED <<percent, file, cut, handed, ran, accepted, signals, starts, kills>>

-----------------------------------------------------------------------------
(***************************************************************************)
(* main's loop: find a server.                                             *)
(***************************************************************************)
Loop ==
  /\ pc = "loop"
  /\ pc' = IF quitting THEN "final" ELSE "choose"
  /\ UNCHANGED <<percent, startOption, at, level, workDone, didWork, running, work, totalWork,
                 stops, shutDown, starts>>

(* main tries FindNextServerForWork with these values of d_overWorkLevel,   *)
(* then FindAnyAvailableServerForWork with its two loops.                   *)
OverWork == <<1, 2, 5, 10, 25>>
Wanted == Len(OverWork) + 1
NotWanted == Len(OverWork) + 2

TotalWork == MapThenSumSet(LAMBDA w : totalWork[w], Server)

(* Defect: the comparison the other way round.                              *)
BelowShareReversed(w, over) ==
  TotalWork = 0 \/ totalWork[w] * 100 > percent[w] * over * TotalWork

BelowShare(w, over) ==
  TotalWork = 0 \/ totalWork[w] * 100 < percent[w] * over * TotalWork

Asks(w) ==
  /\ ~quitting
  /\ units[w] = <<>>
  /\ \/ level \in DOMAIN OverWork /\ percent[w] > 0 /\ BelowShare(w, OverWork[level])
     \/ level = Wanted /\ percent[w] > 0
     \/ level = NotWanted /\ percent[w] = 0

DoWork(w) ==
  /\ at' = w /\ level' = 1 /\ workDone' = FALSE
  /\ pc' = "work"

(* FindNextServerForWork: units that are here go first.                     *)
HasWork == level \in DOMAIN OverWork /\ HasCurvesToDo(at)

WorkIsHere ==
  /\ pc = "choose" /\ at \in Server /\ HasWork
  /\ DoWork(at)
  /\ UNCHANGED <<percent, startOption, didWork, running, work, totalWork, stops, shutDown, starts>>

(* Work::GetWork, over a connection: TRUE also when there is no work.  It    *)
(* ends with Work::Save, if there is a unit.                                *)
GetWork ==
  /\ pc = "choose" /\ at \in Server /\ ~HasWork /\ Asks(at)
  /\ \E batch \in {b \in Batches : handed + Len(b) <= MaxUnit} :
       /\ units' \in {[units EXCEPT ![at] = list] : list \in Received(batch)}
       /\ IF batch = <<>> THEN UNCHANGED <<file, open>>
          ELSE file' = [file EXCEPT ![at] = <<>>] /\ open' = at
       /\ handed' = handed + Len(batch)
       /\ served' = (served /\ batch # <<>>)
  /\ DoWork(at)
  /\ UNCHANGED <<percent, startOption, didWork, running, cut, ran, accepted, totalWork, stops,
                 shutDown, starts>>

(* Defect: behind the last server comes the first again.                    *)
NextServerAround ==
  /\ pc = "choose" /\ at \in Server /\ ~HasWork
  /\ served' = (served /\ ~Asks(at))
  /\ at' = IF at = Len(percent) THEN 1 ELSE at + 1
  /\ UNCHANGED <<percent, startOption, pc, level, workDone, didWork, running, units, file,
                 open, cut, handed, ran, accepted, totalWork, stops, shutDown, starts>>

(* The server is not asked, or there is no connection to it.                *)
NextServer ==
  /\ pc = "choose" /\ at \in Server /\ ~HasWork
  /\ served' = (served /\ ~Asks(at))
  /\ at' = at + 1
  /\ UNCHANGED <<percent, startOption, pc, level, workDone, didWork, running, units, file,
                 open, cut, handed, ran, accepted, totalWork, stops, shutDown, starts>>

NextAttempt ==
  /\ pc = "choose" /\ at \notin Server
  /\ at' = 1 /\ level' = level + 1
  /\ pc' = IF level = NotWanted THEN "incomplete" ELSE "choose"
  /\ UNCHANGED <<percent, startOption, workDone, didWork, running, work, totalWork,
                 stops, shutDown, starts>>

(* FindAnyIncompleteWork finds nothing, since FindNextServerForWork takes   *)
(* whatever has curves to do: so doOneCurve of DoWork is never set.  Then   *)
(* the pause, and the test behind it, where didWork may be as it was found. *)
Pause ==
  /\ pc = "incomplete"
  /\ pc' = IF ~didWork \/ quitting THEN "final" ELSE "return"
  /\ at' = 1 /\ level' = 1
  /\ UNCHANGED <<percent, startOption, workDone, didWork, running, work, totalWork,
                 stops, shutDown, starts>>

-----------------------------------------------------------------------------
(***************************************************************************)
(* DoWork.                                                                 *)
(***************************************************************************)
(* The head of the loop, and Work::DoCurve up to the call of GMP-ECM: no    *)
(* curve is run if the unit it comes to has none left.                      *)
StartCurve ==
  /\ pc = "work"
  /\ IF quitting \/ terminating \/ ~CanDoAnotherCurve(at)
     THEN pc' = "worked" /\ UNCHANGED <<units, running, workDone>>
     ELSE LET i == Chosen(units[at]) IN
          /\ units' = [units EXCEPT ![at] = Unmarked(@)]
          /\ IF CanDo(units[at][i])
             THEN pc' = "curve" /\ running' = i /\ UNCHANGED workDone
             ELSE pc' = "worked" /\ workDone' = FALSE /\ UNCHANGED running
  /\ UNCHANGED <<percent, startOption, at, level, didWork, file, open, cut, handed, ran, accepted,
                 served, totalWork, stops, shutDown, starts>>

(* ParseCurveOutput and ExtractFactor: a curve that found nothing (or a     *)
(* factor it cannot read), a factor, or "Found input number".               *)
Results == {"none", "factor", "number"}

(* WorkUnit::DoCurve, behind the call of GMP-ECM.                           *)
CurveCompleted ==
  /\ pc = "curve"
  /\ \E result \in Results :
       units' = [units EXCEPT ![at][running] =
                   [units[at][running] EXCEPT !.done = @ + 1, !.just = running < Len(units[at]), !.result = result]]
  /\ ran' = [ran EXCEPT ![units[at][running].id] = @ + 1]
  /\ workDone' = TRUE
  /\ pc' = "save"
  /\ UNCHANGED <<percent, startOption, at, level, didWork, running, file, open, cut, handed,
                 accepted, served, totalWork, stops, shutDown, starts>>

(* ... or not completed, which raises SIGINT, whatever GMP-ECM ended for:   *)
(* the client asks then and there.                                          *)
CurveInterrupted ==
  /\ pc = "curve"
  /\ workDone' = FALSE
  /\ SetQuitting("SIGINT")
  /\ pc' = "save"
  /\ UNCHANGED <<percent, startOption, at, level, didWork, running, work, totalWork, signals,
                 kills, shutDown, starts>>

(* Work::Save, at the end of Work::DoCurve, opens the file, which is empty  *)
(* from then on,                                                            *)
Save ==
  /\ pc = "save"
  /\ file' = [file EXCEPT ![at] = <<>>] /\ open' = at
  /\ running' = 0
  /\ pc' = "counted"
  /\ UNCHANGED <<percent, startOption, at, level, workDone, didWork, units, cut, handed, ran,
                 accepted, served, totalWork, stops, shutDown, starts>>

(* ... and closes it: the same wherever Work::Save is called.               *)
WriteFile ==
  /\ open # 0
  /\ file' = [file EXCEPT ![open] = Saved(units[open])] /\ open' = 0
  /\ UNCHANGED <<percent, startOption, pc, at, level, workDone, didWork, running, units, cut,
                 handed, ran, accepted, served, totalWork, stops, shutDown, starts>>

(* The rest of the loop; it may go on while the server need not be told.    *)
CountCurve ==
  /\ pc = "counted"
  /\ IF ~workDone \/ terminating
     THEN pc' = "worked" /\ UNCHANGED <<totalWork, stopOption>>
     ELSE /\ stopOption' = ReprocessedStopOption
          /\ totalWork' = [totalWork EXCEPT ![at] = @ + 1]
          /\ \/ pc' = "worked"
             \/ /\ pc' = "work"
                /\ ~WasFactorFound(at) /\ HasCurvesToDo(at)
  /\ UNCHANGED <<percent, startOption, at, level, workDone, didWork, running, work, quitting,
                 terminating, asking, signals, kills, shutDown, starts>>

(* The end of DoWork, and of an iteration in main.                          *)
EndDoWork ==
  /\ pc = "worked"
  /\ IF terminating /\ ~quitting
     THEN SetQuitting("SIGHUP")
     ELSE UNCHANGED <<quitting, terminating, stopOption, asking>>
  /\ didWork' = workDone
  /\ pc' = IF ~workDone \/ quitting' THEN "final" ELSE "return"
  /\ at' = 1 /\ workDone' = FALSE
  /\ UNCHANGED <<percent, startOption, level, running, work, totalWork, signals,
                 kills, shutDown, starts>>

-----------------------------------------------------------------------------
(***************************************************************************)
(* Returning work, and the end.                                            *)
(***************************************************************************)
(* main returns what every server has, finished or not.                     *)
ReturnAll ==
  /\ pc = "return"
  /\ IF at \in Server THEN ReturnWork(at) /\ at' = at + 1 /\ UNCHANGED pc
     ELSE pc' = "loop" /\ at' = 1 /\ UNCHANGED <<units, file, accepted, served>>
  /\ UNCHANGED <<percent, startOption, level, workDone, didWork, running, totalWork, open, cut,
                 handed, ran, stops, shutDown, starts>>

(* Behind the loop: the option is looked at once,                           *)
EndLoop ==
  /\ pc = "final"
  /\ pc' = IF stopOption = ReportQuit THEN "report" ELSE "delete"
  /\ at' = 1
  /\ UNCHANGED <<percent, startOption, level, workDone, didWork, running, work, totalWork, stops,
                 shutDown, starts>>

(* ... the work is returned if it says so,                                  *)
ReturnFinally ==
  /\ pc = "report"
  /\ IF at \in Server THEN ReturnWork(at) /\ at' = at + 1 /\ UNCHANGED pc
     ELSE pc' = "delete" /\ at' = 1 /\ UNCHANGED <<units, file, accepted, served>>
  /\ UNCHANGED <<percent, startOption, level, workDone, didWork, running, totalWork, open, cut,
                 handed, ran, stops, shutDown, starts>>

(* ... and ~Work saves the units that are left.                             *)
DeleteWork ==
  /\ pc = "delete" /\ at \in Server
  /\ IF units[at] = <<>> THEN UNCHANGED <<file, open>>
     ELSE file' = [file EXCEPT ![at] = <<>>] /\ open' = at
  /\ at' = at + 1
  /\ UNCHANGED <<percent, startOption, pc, level, workDone, didWork, running, units, cut, handed,
                 ran, accepted, served, totalWork, stops, shutDown, starts>>

Return ==
  /\ pc = "delete" /\ at \notin Server
  /\ Ended
  /\ UNCHANGED <<percent, file, cut, handed, ran, accepted, signals, starts, kills>>

(* SetQuitting, for the signals a user sends.  SIGINT waits while its own   *)
(* handler asks, and system() ignores it while a curve runs.                *)
Signal ==
  /\ pc # "ended" /\ signals < MaxSignal
  /\ ~EndsAtOnce
  /\ \E sig \in {"SIGINT", "SIGTERM"} :
       /\ asking \/ pc = "curve" => sig # "SIGINT"
       /\ SetQuitting(sig)
  /\ signals' = signals + 1
  /\ UNCHANGED <<percent, startOption, pc, at, level, workDone, didWork, running, work, totalWork,
                 kills, shutDown, starts>>

(* The user answers: another digit than the two it knows is taken into the  *)
(* option, and the question stands.                                         *)
AnswerStop ==
  /\ asking
  /\ stopOption' \in {Prompt, ReportWork, ReportQuit, Continue}
  /\ asking' = (stopOption' \notin {ReportQuit, Continue})
  /\ quitting' = (quitting \/ ~asking')
  /\ UNCHANGED <<percent, startOption, pc, at, level, workDone, didWork, running, work, totalWork,
                 terminating, signals, kills, shutDown, starts>>

SignalAgain ==
  /\ pc # "ended" /\ signals < MaxSignal
  /\ EndsAtOnce
  /\ SuddenEnd
  /\ signals' = signals + 1
  /\ UNCHANGED <<percent, handed, ran, accepted, starts>>

(* The program or the machine goes down.                                    *)
Kill ==
  /\ pc # "ended" /\ starts < MaxStart
  /\ SuddenEnd
  /\ UNCHANGED <<percent, handed, ran, accepted, signals, starts>>

(* The program is started again, with Work::Load.                           *)
Start ==
  /\ pc = "ended" /\ starts < MaxStart
  /\ starts' = starts + 1
  /\ \E list \in [Server -> UNION {Loaded(file[w]) : w \in Server}] :
       /\ \A w \in Server : list[w] \in Loaded(file[w])
       /\ units' = list
  /\ didWork' \in BOOLEAN
  /\ startOption' \in StartOptions
  /\ stopOption' \in StopOptions(startOption')
  /\ pc' = "check"
  /\ UNCHANGED <<percent, at, level, workDone, running, file, open, cut, handed, ran, accepted,
                 served, totalWork, quitting, terminating, asking, signals, kills, shutDown>>

Step ==
  \/ CheckFinished \/ CheckUnfinished \/ EndCheck \/ EndCheckAndExit
  \/ Loop \/ WorkIsHere \/ GetWork \/ NextServer \/ NextAttempt \/ Pause
  \/ StartCurve \/ CurveCompleted \/ CurveInterrupted \/ Save \/ CountCurve \/ EndDoWork
  \/ ReturnAll \/ EndLoop \/ ReturnFinally \/ DeleteWork \/ Return

(* main, which writes a file to its end before it goes on, and stands still *)
(* while the handler of a signal asks.                                      *)
Main == ~asking /\ (WriteFile \/ (open = 0 /\ Step))

Next == Main \/ Signal \/ AnswerStop \/ SignalAgain \/ Kill \/ Start

Spec == Init /\ [][Next]_vars

(* PromptForStartOption waits for the user.                                 *)
Prompted == pc = "ask" /\ startOption = Prompt /\ HasCurvesDone(at)

(* The program runs, GMP-ECM comes to an end, and a session has time-outs.  *)
(* Nothing says that a user answers.                                        *)
FairSpec == Spec /\ WF_vars(Main /\ ~Prompted)

-----------------------------------------------------------------------------
(***************************************************************************)
(* Properties.                                                             *)
(***************************************************************************)
(* The variables keep their types: no unit has more curves than it was      *)
(* given for, and a P-1 unit has one at most.                               *)
TypeOK ==
  /\ percent \in Percents
  /\ startOption \in StartOptions \cup {Prompt}
  /\ pc \in {"check", "ask", "loop", "choose", "incomplete", "work", "curve", "save",
             "counted", "worked", "return", "final", "report", "delete", "ended"}
  /\ at \in 1..(Len(percent) + 1)
  /\ level \in 1..(NotWanted + 1)
  /\ {workDone, didWork, quitting, terminating, asking, shutDown, served} \subseteq BOOLEAN
  /\ running \in Nat
  /\ {units, file} \subseteq [Server -> Seq(WorkUnit)]
  /\ \A w \in Server : \A u \in ToSet(units[w]) \cup ToSet(file[w]) :
       u.done <= (IF u.method = "P-1" THEN 1 ELSE u.max)
  /\ totalWork \in [Server -> Nat]
  /\ open \in Server \cup {0}
  /\ stopOption \in {Prompt, ReportWork, ReportQuit, Continue}
  /\ handed \in 0..MaxUnit
  /\ ran \in [Unit -> Nat]
  /\ accepted \subseteq Unit /\ cut \subseteq Unit
  /\ signals \in 0..MaxSignal /\ starts \in 1..MaxStart /\ kills \in Nat

(* What would be in the files if the one that is being written were done.   *)
Record == [w \in Server |-> IF w = open THEN units[w] ELSE file[w]]

(* The units that a server has taken back, or that were lost with a file.   *)
LetGo == accepted \cup cut

(* The curves that GMP-ECM completed of the other units, and that are in no *)
(* save file: the n-th curve of unit u is <<u, n>>.                         *)
Completed == UNION {{u} \X (1..ran[u]) : u \in Unit \ LetGo}

IsSaved(u, n) ==
  \E w \in Server : \E i \in DOMAIN Record[w] : Record[w][i].id = u /\ n <= Record[w][i].done

Unsaved == {c \in Completed : ~IsSaved(c[1], c[2])}

(* A curve GMP-ECM completed is in a save file until a server has taken the *)
(* unit back, whatever is interrupted, refused or started again, but for    *)
(* what a sudden end of the program takes with it: the one curve that is    *)
(* not saved yet, or, while a file is being written, the units of this file *)
(* that are not in it yet (Work::DoCurve, Work::Save, Work::ReturnWork,     *)
(* Work::Load).                                                             *)
CurvesKept ==
  Cardinality(Unsaved) <= kills + (IF pc = "save" /\ workDone THEN 1 ELSE 0)

(* As long as every server gives work and takes it back, none is ahead of   *)
(* its percentage by more than one batch of units (FindNextServerForWork).  *)
LargestBatch ==
  Max({MapThenSumSet(LAMBDA i : b[i].max, DOMAIN b) : b \in Batches})

SharesKept ==
  served => \A w \in Server :
    totalWork[w] * 100 <= percent[w] * TotalWork + 100 * LargestBatch

(* A client that was told to stop stops, wherever it is in its loop, with   *)
(* or without a server to talk to, unless a later SIGINT, its own when      *)
(* GMP-ECM ends, has it ask (SetQuitting, main).                            *)
StopsWhenTold == (quitting /\ pc \notin {"check", "ask"}) ~> (pc = "ended" \/ asking)

(* "If no work was done, that means that the process was interrupted"       *)
(* (ecmclient.cpp:202): a server's units that can do another curve get one, *)
(* until the client is told to stop.                                        *)
NoCurveIsInterrupt ==
  [][pc = "work" /\ pc' = "worked" /\ CanDoAnotherCurve(at) => terminating]_vars
=============================================================================
