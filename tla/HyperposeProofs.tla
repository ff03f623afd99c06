---------------------------- MODULE HyperposeProofs ----------------------------
(***************************************************************************)
(* Proofs about the two parallel evaluations of a hyperpose.               *)
(* ParHyperpose, for any number of branches and deaths: the main thread    *)
(* parses no torn slice, sleeps through no signal and on no answer that    *)
(* was signalled.  BrowserHyperpose, for any number of       *)
(* branches, workers and refusals: the slots of the pool are accounted for *)
(* exactly, and what the caller reads is right whichever events race.      *)
(***************************************************************************)
EXTENDS ParHyperpose, BrowserHyperpose, FiniteSetTheorems, TLAPS

\* The workers that may still add to the counter.
Unsignalled == {i \in Branches : worker[i] \in {"eval", "status", "signal"}}

\* TypeOK with room in the counter for those that did not signal yet.
Typed ==
    /\ firstOnly \in BOOLEAN
    /\ outcome \in [Branches -> Outcomes]
    /\ worker \in [Branches -> {"eval", "status", "signal", "notify"} \cup Stopped]
    /\ slice \in [Branches -> [status : {Pending, Done, Bailed}, written : BOOLEAN]]
    /\ counter \in Nat /\ prev \in 0..counter /\ scan \in Branches
    /\ main \in {"load", "scan", "check", "wait", "asleep", "returned"}
    /\ out \in [Branches -> {"null", "answers", "empty", "garbled"}]
    /\ exit \in {"none", "won", "finished", "wedged"}
    /\ ready \subseteq Branches

RoomToSignal == counter + Cardinality(Unsignalled) <= N

\* A slice says what its worker did: the status is set last and once.
SlicesSound ==
    \A i \in Branches :
        /\ slice[i].status = Done => slice[i].written /\ outcome[i] # "fails"
        /\ slice[i].status = Bailed => outcome[i] = "fails"
        /\ worker[i] = "status" => slice[i].written = (outcome[i] # "fails")

\* How far the scan is: the slices it passed are read if they were ready, and under
\* once none of them held results, unless the branch it stopped at did.
Passed(i) == i < scan \/ (i = scan /\ main \in {"check", "wait", "asleep", "returned"})

ScanSound ==
    /\ exit # "none" => main \in {"check", "returned"}
    /\ exit = "wedged" \/ exit = "finished" => main = "returned"
    /\ main = "returned" => exit # "none"
    /\ \A i \in ready : slice[i].status # Pending
    /\ exit = "none" /\ firstOnly => \A i \in Branches : out[i] # "answers"
    /\ main # "load" => \A i \in ready : Passed(i) /\ outcome[i] # "fails" => out[i] = outcome[i]
    /\ exit # "won" /\ main \in {"check", "wait", "asleep", "returned"} => scan = N
    /\ exit = "won" =>
        /\ firstOnly /\ out[scan] = "answers"
        /\ \A i \in Branches \ {scan} : out[i] # "answers"

\* A worker signals after it set its status, so while the counter does not move the scan
\* has nothing to read but what was ready when it began.
SignalsSound ==
    /\ \A i \in Branches : worker[i] = "signal" => slice[i].status # Pending
    /\ \A i \in Signalled : slice[i].status # Pending
    /\ counter = prev => Signalled \subseteq ready

IInv == Typed /\ RoomToSignal /\ SlicesSound /\ ResultsWhole /\ NoLostWakeup /\ ScanSound /\ SignalsSound

-----------------------------------------------------------------------------

\* There is a branch, and the set of them is finite with N members.
LEMMA BranchFacts ==
    /\ N \in Nat /\ N >= 1 /\ 1 \in Branches /\ N \in Branches
    /\ IsFiniteSet(Branches) /\ Cardinality(Branches) = N
<1>1. N \in Nat /\ N >= 1
  BY SomeBranch
<1>2. IsFiniteSet(1..N) /\ Cardinality(1..N) = N
  BY <1>1, FS_Interval
<1> QED
  BY <1>1, <1>2 DEF Branches

\* A smaller set of workers that did not signal leaves as much room.
LEMMA RoomKept ==
    ASSUME IInv, Unsignalled' \subseteq Unsignalled, counter' = counter
    PROVE  RoomToSignal'
<1>1. IsFiniteSet(Unsignalled)
  BY BranchFacts, FS_Subset DEF Unsignalled
<1>2. Cardinality(Unsignalled') <= Cardinality(Unsignalled)
  BY <1>1, FS_Subset
<1>3. Cardinality(Unsignalled) \in Nat /\ Cardinality(Unsignalled') \in Nat
  BY <1>1, FS_Subset, FS_CardinalityType
<1> QED
  BY <1>2, <1>3, BranchFacts DEF IInv, Typed, RoomToSignal

LEMMA InitIInv == Init => IInv
<1> SUFFICES ASSUME Init PROVE IInv
  OBVIOUS
<1>1. Typed
  BY BranchFacts DEF Init, Typed, Stopped, Pending, Done, Bailed
<1>2. RoomToSignal
  <2>1. Unsignalled = Branches
    BY DEF Init, Unsignalled
  <2> QED
    BY <2>1, BranchFacts DEF Init, RoomToSignal
<1>3. SlicesSound
  BY DEF Init, SlicesSound, Pending, Done, Bailed
<1>4. ResultsWhole /\ NoLostWakeup
  BY DEF Init, ResultsWhole, NoLostWakeup
<1>5. ScanSound
  BY DEF Init, ScanSound
<1>6. SignalsSound
  BY DEF Init, SignalsSound, Signalled
<1> QED
  BY <1>1, <1>2, <1>3, <1>4, <1>5, <1>6 DEF IInv

-----------------------------------------------------------------------------
(* A step of a worker.                                                     *)

LEMMA EvaluateStep == ASSUME IInv, NEW i \in Branches, Evaluate(i) PROVE IInv'
<1> USE DEF IInv, Evaluate, Move
<1>1. Typed'
  BY DEF Typed, inputs, mainVars
<1>2. RoomToSignal'
  BY RoomKept DEF Unsignalled, Typed
<1>3. SlicesSound'
  BY DEF SlicesSound, Typed, inputs
<1>4. ResultsWhole'
  BY DEF ResultsWhole, inputs, mainVars
<1>5. NoLostWakeup'
  BY DEF NoLostWakeup, Typed, mainVars
<1>6. ScanSound'
  BY DEF ScanSound, Passed, Typed, inputs, mainVars
<1>7. SignalsSound'
  BY DEF SignalsSound, Signalled, Evaluate, Move, Typed, mainVars
<1> QED
  BY <1>1, <1>2, <1>3, <1>4, <1>5, <1>6, <1>7

LEMMA SetStatusStep == ASSUME IInv, NEW i \in Branches, SetStatus(i) PROVE IInv'
<1> USE DEF IInv, SetStatus, Move
<1>1. Typed'
  BY DEF Typed, StatusOf, inputs, mainVars
<1>2. RoomToSignal'
  BY RoomKept DEF Unsignalled, Typed
<1>3. SlicesSound'
  BY DEF SlicesSound, StatusOf, Typed, inputs, Done, Bailed
<1>4. ResultsWhole'
  BY DEF ResultsWhole, inputs, mainVars
<1>5. NoLostWakeup'
  BY DEF NoLostWakeup, Typed, mainVars
<1>6. ScanSound'
  BY DEF ScanSound, Passed, StatusOf, Typed, inputs, mainVars, Pending, Done, Bailed
<1>7. SignalsSound'
  BY DEF SignalsSound, Signalled, StatusOf, Typed, Pending, Done, Bailed, mainVars
<1> QED
  BY <1>1, <1>2, <1>3, <1>4, <1>5, <1>6, <1>7

LEMMA SignalStep == ASSUME IInv, NEW i \in Branches, Signal(i) PROVE IInv'
<1> USE DEF IInv, Signal, Move
<1>1. Typed'
  BY DEF Typed, Signals, inputs, mainVars
<1>2. RoomToSignal'
  <2>1. Unsignalled' = Unsignalled \ {i} /\ i \in Unsignalled
    BY DEF Unsignalled, Typed
  <2>2. IsFiniteSet(Unsignalled)
    BY BranchFacts, FS_Subset DEF Unsignalled
  <2>3. Cardinality(Unsignalled') = Cardinality(Unsignalled) - 1
    BY <2>1, <2>2, FS_RemoveElement
  <2> QED
    BY <2>2, <2>3, FS_CardinalityType, BranchFacts DEF RoomToSignal, Typed, Signals
<1>3. SlicesSound'
  BY DEF SlicesSound, Typed, inputs
<1>4. ResultsWhole'
  BY DEF ResultsWhole, inputs, mainVars
<1>5. NoLostWakeup'
  BY DEF NoLostWakeup, Typed, mainVars
<1>6. ScanSound'
  BY DEF ScanSound, Passed, inputs, mainVars
<1>7. SignalsSound'
  BY DEF SignalsSound, Signalled, Signals, Typed, mainVars
<1> QED
  BY <1>1, <1>2, <1>3, <1>4, <1>5, <1>6, <1>7

LEMMA NotifyStep == ASSUME IInv, NEW i \in Branches, Notify(i) PROVE IInv'
<1> USE DEF IInv, Notify, Move
<1>1. Typed'
  BY DEF Typed, Stopped, inputs
<1>2. RoomToSignal'
  BY RoomKept DEF Unsignalled, Typed
<1>3. SlicesSound'
  BY DEF SlicesSound, Typed, inputs
<1>4. ResultsWhole'
  BY DEF ResultsWhole, inputs
<1>5. NoLostWakeup'
  BY DEF NoLostWakeup
<1>6. ScanSound'
  BY DEF ScanSound, Passed, Typed, inputs
<1>7. SignalsSound'
  BY DEF SignalsSound, Signalled, Typed
<1> QED
  BY <1>1, <1>2, <1>3, <1>4, <1>5, <1>6, <1>7

LEMMA DieStep == ASSUME IInv, NEW i \in Branches, Die(i) PROVE IInv'
<1> USE DEF IInv, Die
<1>1. Typed'
  BY DEF Typed, Stopped, Gone, inputs, mainVars
<1>2. RoomToSignal'
  BY RoomKept DEF Unsignalled, Typed, Gone
<1>3. SlicesSound'
  BY DEF SlicesSound, Typed, Gone, inputs
<1>4. ResultsWhole'
  BY DEF ResultsWhole, inputs, mainVars
<1>5. NoLostWakeup'
  BY DEF NoLostWakeup, Typed, Gone, Stopped, mainVars
<1>6. ScanSound'
  BY DEF ScanSound, Passed, inputs, mainVars
<1>7. SignalsSound'
  BY DEF SignalsSound, Signalled, Gone, Typed, mainVars
<1> QED
  BY <1>1, <1>2, <1>3, <1>4, <1>5, <1>6, <1>7

LEMMA TerminateStep == ASSUME IInv, Terminate PROVE IInv'
<1> USE DEF IInv, Terminate
<1>1. Typed'
  BY DEF Typed, Stopped, Gone, inputs, mainVars
<1>2. RoomToSignal'
  BY RoomKept DEF Unsignalled, Typed, Gone
<1>3. SlicesSound'
  BY DEF SlicesSound, Typed, Gone, inputs
<1>4. ResultsWhole'
  BY DEF ResultsWhole, inputs, mainVars
<1>5. NoLostWakeup'
  BY DEF NoLostWakeup, mainVars
<1>6. ScanSound'
  BY DEF ScanSound, Passed, inputs, mainVars
<1>7. SignalsSound'
  BY DEF SignalsSound, Signalled, Gone, Stopped, Typed, mainVars
<1> QED
  BY <1>1, <1>2, <1>3, <1>4, <1>5, <1>6, <1>7

-----------------------------------------------------------------------------
(* A step of the main thread.  The workers rest, and so do the conjuncts   *)
(* about them.                                                             *)

LEMMA WorkersRest ==
    ASSUME IInv, UNCHANGED <<inputs, workerVars>>
    PROVE  RoomToSignal' /\ SlicesSound'
<1>1. RoomToSignal'
  BY RoomKept DEF Unsignalled, workerVars
<1>2. SlicesSound'
  BY DEF IInv, SlicesSound, inputs, workerVars
<1> QED
  BY <1>1, <1>2

LEMMA LoadCounterStep == ASSUME IInv, LoadCounter PROVE IInv'
<1> USE DEF IInv, LoadCounter
<1>1. Typed'
  BY BranchFacts DEF Typed, inputs, workerVars
<1>2. ResultsWhole' /\ NoLostWakeup'
  BY DEF ResultsWhole, NoLostWakeup, inputs
<1>3. ScanSound'
  BY BranchFacts DEF ScanSound, Passed, Typed, Branches, inputs, workerVars
<1>4. SignalsSound'
  BY DEF SignalsSound, Signalled, Typed, workerVars
<1> QED
  BY <1>1, <1>2, <1>3, <1>4, WorkersRest

LEMMA ReadSliceStep == ASSUME IInv, ReadSlice PROVE IInv'
<1> USE DEF IInv, ReadSlice
<1>1. Fresh(scan) => Parsed(scan) = outcome[scan] /\ outcome[scan] \in {"answers", "empty"}
  BY DEF Fresh, Parsed, SlicesSound, Typed, Outcomes
<1>2. Typed'
  <2>1. out' \in [Branches -> {"null", "answers", "empty", "garbled"}]
    BY <1>1 DEF Typed
  <2>2. scan' \in Branches
    BY BranchFacts DEF Typed, Branches, LastTurn
  <2>3. main' \in {"check", "scan"} /\ exit' \in {exit, "won"}
    OBVIOUS
  <2> QED
    BY <2>1, <2>2, <2>3 DEF Typed, inputs, workerVars
<1>3. ResultsWhole'
  BY <1>1 DEF ResultsWhole, Typed, inputs
<1>4. NoLostWakeup'
  BY DEF NoLostWakeup
<1>5. ScanSound'
  <2>1. exit = "none" /\ main = "scan"
    BY DEF ScanSound
  <2>2. \A j \in Branches : j # scan => out'[j] = out[j]
    BY DEF Typed
  <2>3. scan \in ready /\ outcome[scan] # "fails" => out'[scan] = outcome[scan]
    <3>1. scan \in ready /\ outcome[scan] # "fails" => slice[scan].status = Done
      BY DEF ScanSound, SlicesSound, Typed, Branches, Pending, Done, Bailed
    <3> QED
      BY <1>1, <3>1 DEF Fresh, ResultsWhole, Typed
  <2>4. CASE Wins(scan)
    <3>1. out'[scan] = "answers" /\ firstOnly /\ exit' = "won" /\ main' = "check" /\ scan' = scan
      BY <2>4, <1>1 DEF Wins, LastTurn, Typed
    <3>2. \A j \in Branches \ {scan} : out'[j] # "answers"
      BY <2>1, <2>2, <3>1, <2>4 DEF ScanSound, Wins
    <3>3. \A j \in ready : (j < scan \/ j = scan) /\ outcome[j] # "fails" => out'[j] = outcome[j]
      BY <2>1, <2>2, <2>3 DEF ScanSound, Passed, Typed, Branches
    <3> QED
      BY <3>1, <3>2, <3>3 DEF ScanSound, Passed, Typed, inputs, workerVars
  <2>5. CASE ~ Wins(scan)
    <3>1. firstOnly => out'[scan] # "answers"
      BY <2>5, <2>1, <1>1 DEF Wins, ScanSound, Typed
    <3>2. exit' = "none" /\ (firstOnly => \A j \in Branches : out'[j] # "answers")
      BY <2>1, <2>2, <2>5, <3>1 DEF ScanSound
    <3>3. \A j \in ready : (j < scan \/ j = scan) /\ outcome[j] # "fails" => out'[j] = outcome[j]
      BY <2>1, <2>2, <2>3 DEF ScanSound, Passed, Typed, Branches
    <3>4. CASE scan = N
      BY <2>5, <3>2, <3>3, <3>4 DEF ScanSound, Passed, LastTurn, Typed, Branches, inputs, workerVars
    <3>5. CASE scan # N
      <4>1. scan' = scan + 1 /\ main' = "scan"
        BY <2>5, <3>5 DEF LastTurn
      <4>2. \A j \in ready : j < scan + 1 => j < scan \/ j = scan
        BY DEF Typed, Branches
      <4> QED
        BY <3>2, <3>3, <4>1, <4>2 DEF ScanSound, Passed, inputs, workerVars
    <3> QED
      BY <3>4, <3>5
  <2> QED
    BY <2>4, <2>5
<1>6. SignalsSound'
  BY DEF SignalsSound, Signalled, workerVars
<1> QED
  BY <1>2, <1>3, <1>4, <1>5, <1>6, WorkersRest

LEMMA CheckFinishedStep == ASSUME IInv, CheckFinished PROVE IInv'
<1> USE DEF IInv, CheckFinished
<1>1. Typed'
  BY DEF Typed, inputs, workerVars
<1>2. ResultsWhole' /\ NoLostWakeup'
  BY DEF ResultsWhole, NoLostWakeup, inputs
<1>3. ScanSound'
  BY DEF ScanSound, Passed, Typed, inputs, workerVars
<1>4. SignalsSound'
  BY DEF SignalsSound, Signalled, workerVars
<1> QED
  BY <1>1, <1>2, <1>3, <1>4, WorkersRest

LEMMA WaitStep == ASSUME IInv, Wait PROVE IInv'
<1> USE DEF IInv, Wait
<1>1. Typed'
  BY DEF Typed, inputs, workerVars
<1>2. ResultsWhole' /\ NoLostWakeup'
  BY DEF ResultsWhole, NoLostWakeup, Sleeps, inputs, workerVars
<1>3. ScanSound'
  BY DEF ScanSound, Passed, Typed, inputs, workerVars
<1>4. SignalsSound'
  BY DEF SignalsSound, Signalled, workerVars
<1> QED
  BY <1>1, <1>2, <1>3, <1>4, WorkersRest

LEMMA TimeOutStep == ASSUME IInv, TimeOut PROVE IInv'
<1> USE DEF IInv, TimeOut
<1>1. Typed'
  BY DEF Typed, inputs, workerVars
<1>2. ResultsWhole' /\ NoLostWakeup'
  BY DEF ResultsWhole, NoLostWakeup, inputs
<1>3. ScanSound'
  BY DEF ScanSound, Passed, Typed, inputs, workerVars
<1>4. SignalsSound'
  BY DEF SignalsSound, Signalled, workerVars
<1> QED
  BY <1>1, <1>2, <1>3, <1>4, WorkersRest

LEMMA NextIInv == IInv /\ [Next]_vars => IInv'
<1> SUFFICES ASSUME IInv, [Next]_vars PROVE IInv'
  OBVIOUS
<1>1. ASSUME NEW i \in Branches, Worker(i) PROVE IInv'
  BY <1>1, EvaluateStep, SetStatusStep, SignalStep, NotifyStep, DieStep DEF Worker
<1>2. CASE Main
  BY <1>2, LoadCounterStep, ReadSliceStep, CheckFinishedStep, WaitStep, TimeOutStep,
     TerminateStep DEF Main
<1>3. CASE UNCHANGED vars
  <2>1. UNCHANGED <<inputs, workerVars>> /\ UNCHANGED mainVars
    BY <1>3 DEF vars
  <2>2. Typed' /\ ResultsWhole' /\ NoLostWakeup' /\ ScanSound' /\ SignalsSound'
    BY <2>1 DEF IInv, SignalsSound, Signalled, Typed, ResultsWhole, NoLostWakeup, ScanSound, Passed, inputs, workerVars, mainVars
  <2> QED
    BY <2>1, <2>2, WorkersRest DEF IInv
<1> QED
  BY <1>1, <1>2, <1>3 DEF Next

LEMMA Invariance == Spec => []IInv
BY InitIInv, NextIInv, PTL DEF Spec

-----------------------------------------------------------------------------

\* The counter never passes the number of branches, whoever dies or signals.
THEOREM TypeCorrect == Spec => []TypeOK
<1>1. IInv => TypeOK
  <2> SUFFICES ASSUME IInv PROVE TypeOK
    OBVIOUS
  <2>1. IsFiniteSet(Unsignalled)
    BY BranchFacts, FS_Subset DEF Unsignalled
  <2>2. counter \in 0..N
    BY <2>1, FS_CardinalityType, BranchFacts DEF IInv, Typed, RoomToSignal
  <2>3. prev \in 0..N
    BY <2>2, BranchFacts DEF IInv, Typed
  <2> QED
    BY <2>2, <2>3 DEF IInv, Typed, TypeOK
<1> QED
  BY <1>1, Invariance, PTL

\* What the main thread takes from a slice is what its branch came to, for any number
\* of branches and wherever workers die.
THEOREM NoTornResult == Spec => []ResultsWhole
<1>1. IInv => ResultsWhole
  BY DEF IInv
<1> QED
  BY <1>1, Invariance, PTL

\* The main thread never sleeps on a counter that moved, unless its wake-up is under way
\* or died with its worker.
THEOREM NoSignalMissed == Spec => []NoLostWakeup
<1>1. IInv => NoLostWakeup
  BY DEF IInv
<1> QED
  BY <1>1, Invariance, PTL

\* While the main thread sleeps on a counter that did not move, or when it gave up, it has
\* the answers of every branch that signalled; the winner is the lowest of those that were ready.
THEOREM NothingUnread == Spec => []AnswersReadInTime
<1>1. IInv => AnswersReadInTime
  <2> SUFFICES ASSUME IInv PROVE AnswersReadInTime
    OBVIOUS
  <2>1. WinnerIsLowestReady
    <3> SUFFICES ASSUME exit = "won" PROVE WinnerIsLowestReady
      BY DEF WinnerIsLowestReady
    <3>1. main \in {"check", "returned"}
      BY DEF IInv, ScanSound
    <3>2. \A i \in ready : i < scan => outcome[i] # "answers"
      <4> SUFFICES ASSUME NEW i \in ready, i < scan, outcome[i] = "answers" PROVE FALSE
        OBVIOUS
      <4>1. out[i] = "answers" /\ i \in Branches /\ i # scan
        BY <3>1 DEF IInv, Typed, ScanSound, Passed, Branches
      <4> QED
        BY <4>1 DEF IInv, ScanSound
    <3> QED
      BY <3>2 DEF IInv, ScanSound, WinnerIsLowestReady
  <2>2. SleepsOnNothingUnread
    <3> SUFFICES ASSUME main = "asleep" \/ exit = "wedged", counter = prev,
                        NEW i \in Signalled, outcome[i] # "fails"
                 PROVE  out[i] = outcome[i]
      BY DEF SleepsOnNothingUnread
    <3>1. main \in {"asleep", "returned"} /\ scan = N /\ i \in ready /\ i \in 1..N
      BY DEF IInv, Typed, ScanSound, SignalsSound, Branches, Signalled
    <3>2. Passed(i)
      BY <3>1, BranchFacts DEF Passed
    <3> QED
      BY <3>1, <3>2 DEF IInv, ScanSound
  <2> QED
    BY <2>1, <2>2 DEF AnswersReadInTime
<1> QED
  BY <1>1, Invariance, PTL

-----------------------------------------------------------------------------
(* The pool of Web Workers.                                                *)

\* Only a branch that settled has a result, and it is its own.
ResultsSound ==
    \A i \in Branches :
        /\ worker[i] # "gone" => results[i] = "null"
        /\ results[i] # "null" => results[i] = ResultOf(i)

\* While the call is open some branch is unsettled and, under once, none has results.
OpenSound ==
    ~ resolved =>
        /\ settled < N /\ answer = Nothing
        /\ firstOnly => \A i \in Branches : results[i] # "answers"

PageInv == PoolConsistent /\ ResultsSound /\ OpenSound /\ AnswerExact

-----------------------------------------------------------------------------

LEMMA PoolFacts ==
    /\ N \in Nat /\ N >= 1 /\ MaxWorkers \in 1..N
    /\ IsFiniteSet(Branches) /\ Cardinality(Branches) = N
<1>1. N \in Nat /\ N >= 1 /\ MaxWorkers \in 1..N
  BY SomeBranch, PoolAssumption
<1>2. IsFiniteSet(1..N) /\ Cardinality(1..N) = N
  BY <1>1, FS_Interval
<1> QED
  BY <1>1, <1>2 DEF Branches

\* A set of branches is finite and no larger than all of them.
LEMMA SomeBranches ==
    ASSUME NEW S \in SUBSET Branches
    PROVE  /\ IsFiniteSet(S) /\ Cardinality(S) \in Nat /\ Cardinality(S) <= N
           /\ Cardinality(S) = N => S = Branches
BY PoolFacts, FS_Subset, FS_CardinalityType

\* The counters are those of the sets, in numbers.
LEMMA Counters ==
    ASSUME PoolConsistent
    PROVE  /\ active = Cardinality(Busy) /\ active \in Nat /\ active <= MaxWorkers
           /\ settled = Cardinality(Finished) /\ settled \in Nat /\ settled <= N
           /\ IsFiniteSet(Busy) /\ IsFiniteSet(Finished)
           /\ next \in 1..(N + 1)
<1>1. Busy \in SUBSET Branches /\ Finished \in SUBSET Branches
  BY DEF Busy, Finished, Waiting
<1> QED
  BY <1>1, SomeBranches DEF PoolConsistent, PageTypeOK, SlotsExact, Busy, Finished

LEMMA InitPageInv == PageInit => PageInv
<1> SUFFICES ASSUME PageInit PROVE PageInv
  OBVIOUS
<1>1. Waiting = 1..N /\ Busy = {} /\ Finished = {}
  BY DEF PageInit, Waiting, Busy, Finished, Branches
<1>2. PageTypeOK
  <2>1. results \in [Branches -> {"null", "answers", "empty"}] /\ answer = results
    BY DEF PageInit, Nothing
  <2>2. worker \in [Branches -> {"waiting", "running", "posted", "gone", "refused"}]
    BY DEF PageInit
  <2>3. resolved \in BOOLEAN
    BY DEF PageInit
  <2> QED
    BY <1>1, <2>1, <2>2, <2>3, PoolFacts DEF PageInit, PageTypeOK
<1>3. SlotsExact
  BY <1>1, PoolFacts, FS_EmptySet DEF PageInit, SlotsExact
<1>4. ResultsSound /\ OpenSound /\ AnswerExact
  BY PoolFacts DEF PageInit, ResultsSound, OpenSound, AnswerExact, Nothing
<1> QED
  BY <1>2, <1>3, <1>4 DEF PageInv, PoolConsistent

-----------------------------------------------------------------------------
(* Starting the branches from next on, in numbers and as sets.             *)

LEMMA StartedFacts ==
    ASSUME NEW w \in [Branches -> {"waiting", "running", "posted", "gone", "refused"}],
           NEW set \in SUBSET Branches, NEW refused \in Refusable(set),
           worker' = Started(w, set, refused)
    PROVE  /\ worker' \in [Branches -> {"waiting", "running", "posted", "gone", "refused"}]
           /\ \A j \in set : worker'[j] \in {"running", "refused"}
           /\ \A j \in Branches \ set : worker'[j] = w[j]
<1>1. refused \in SUBSET set
  BY DEF Refusable
<1> QED
  BY <1>1 DEF Started

LEMMA StartStep == ASSUME PageInv, Start PROVE PageInv'
<1> USE DEF PageInv, Start
<1>1. next = 1 /\ PageTypeOK /\ SlotsExact
  BY DEF PoolConsistent
<1>2. Waiting = Branches
  BY <1>1 DEF PageTypeOK, Branches
<1>3. \A j \in Branches : worker[j] = "waiting"
  BY <1>2 DEF Waiting
<1> DEFINE set == 1..MaxWorkers
<1>4. PICK refused \in Refusable(set) : worker' = Started(worker, set, refused)
  OBVIOUS
<1>5. set \in SUBSET Branches
  BY PoolFacts DEF Branches
<1> HIDE DEF set
<1>6. /\ worker' \in [Branches -> {"waiting", "running", "posted", "gone", "refused"}]
      /\ \A j \in set : worker'[j] \in {"running", "refused"}
      /\ \A j \in Branches \ set : worker'[j] = "waiting"
  BY <1>1, <1>3, <1>4, <1>5, StartedFacts DEF PageTypeOK
<1>7. Busy' = set /\ Finished' = {} /\ Finished = {}
  BY <1>3, <1>5, <1>6 DEF Busy, Finished, Waiting
<1>8. Waiting' = Branches \ set
  BY <1>5, <1>6 DEF Waiting
<1>9. Cardinality(set) = MaxWorkers
  BY PoolFacts, FS_Interval DEF set
<1>10. PageTypeOK'
  BY <1>1, <1>6, <1>8, PoolFacts DEF PageTypeOK, inputs, Branches, set
<1>11. SlotsExact'
  BY <1>1, <1>7, <1>9, PoolFacts, FS_EmptySet DEF SlotsExact
<1>12. ResultsSound' /\ OpenSound' /\ AnswerExact'
  BY <1>3, <1>6 DEF ResultsSound, OpenSound, AnswerExact, ResultOf, inputs, Nothing
<1> QED
  BY <1>10, <1>11, <1>12 DEF PoolConsistent

-----------------------------------------------------------------------------
(* Settling a branch.                                                      *)

\* The branches a settling one makes room for.
LaunchedBy(r) ==
    IF resolved \/ EndsOnce(r) THEN {} ELSE next..(next - 1 + Launched(SlotsLeft + 1, next))

LEMMA LaunchedByFacts ==
    ASSUME PoolConsistent, active >= 1, NEW r
    PROVE  /\ LaunchedBy(r) \in SUBSET Waiting
           /\ IsFiniteSet(LaunchedBy(r)) /\ Cardinality(LaunchedBy(r)) \in Nat
           /\ Cardinality(LaunchedBy(r)) <= SlotsLeft + 1
           /\ next + Cardinality(LaunchedBy(r)) \in 1..(N + 1)
           /\ Waiting \ LaunchedBy(r) = (next + Cardinality(LaunchedBy(r)))..N
<1>1. /\ Waiting = next..N /\ next \in 1..(N + 1) /\ N \in Nat
      /\ SlotsLeft + 1 \in Nat /\ SlotsLeft + 1 >= 1
  BY Counters, PoolFacts DEF PoolConsistent, PageTypeOK, SlotsLeft
<1>2. CASE resolved \/ EndsOnce(r)
  <2>1. LaunchedBy(r) = {}
    BY <1>2 DEF LaunchedBy
  <2> QED
    BY <1>1, <2>1, FS_EmptySet
<1>3. CASE ~ (resolved \/ EndsOnce(r))
  <2> DEFINE n == Launched(SlotsLeft + 1, next)
  <2>1. n \in Nat /\ n <= SlotsLeft + 1 /\ n <= N + 1 - next
    BY <1>1 DEF Launched
  <2>2. LaunchedBy(r) = next..(next - 1 + n)
    BY <1>3 DEF LaunchedBy
  <2> HIDE DEF n
  <2>3. IsFiniteSet(LaunchedBy(r)) /\ Cardinality(LaunchedBy(r)) = n
    BY <1>1, <2>1, <2>2, FS_Interval
  <2>4. LaunchedBy(r) \in SUBSET Waiting /\ Waiting \ LaunchedBy(r) = (next + n)..N
    BY <1>1, <2>1, <2>2
  <2> QED
    BY <1>1, <2>1, <2>3, <2>4
<1> QED
  BY <1>2, <1>3

\* A settling branch leaves the slots for those it launches, with no change to the
\* accounts.
LEMMA SettlePool ==
    ASSUME PageInv, NEW i \in Branches, NEW r \in {"null", ResultOf(i)}, Unsettled(i), Settle(i, r),
           inbox' \subseteq Branches
    PROVE  PoolConsistent' /\ Finished' = Finished \cup {i} /\ i \notin Finished
<1> DEFINE set == LaunchedBy(r)
<1>1. PoolConsistent /\ PageTypeOK
  BY DEF PageInv, PoolConsistent
<1>2. i \in Busy /\ i \notin Finished /\ i \notin Waiting
  BY DEF Busy, Finished, Waiting, Unsettled
<1>3. active >= 1
  <2>1. Cardinality(Busy) # 0
    BY <1>1, <1>2, Counters, FS_EmptySet
  <2> QED
    BY <1>1, <2>1, Counters
<1>4. /\ set \in SUBSET Waiting /\ set \in SUBSET Branches /\ i \notin set
      /\ IsFiniteSet(set) /\ Cardinality(set) \in Nat
      /\ Cardinality(set) <= SlotsLeft + 1
      /\ next + Cardinality(set) \in 1..(N + 1)
      /\ Waiting \ set = (next + Cardinality(set))..N
  BY <1>1, <1>2, <1>3, LaunchedByFacts DEF Waiting
<1>5. /\ settled' = settled + 1 /\ active' = active - 1 + Cardinality(set)
      /\ next' = next + Cardinality(set) /\ results' = [results EXCEPT ![i] = r]
      /\ resolved' = (resolved \/ EndsOnce(r) \/ AllSettled(settled + 1))
      /\ answer' = Read(EndsOnce(r) \/ AllSettled(settled + 1), results')
      /\ \E refused \in Refusable(set) :
            worker' = Started([worker EXCEPT ![i] = "gone"], set, refused)
      /\ UNCHANGED inputs
  BY DEF Settle, LaunchedBy
<1> HIDE DEF set
<1>6. PICK refused \in Refusable(set) : worker' = Started([worker EXCEPT ![i] = "gone"], set, refused)
  BY <1>5
<1> DEFINE w == [worker EXCEPT ![i] = "gone"]
<1>7. w \in [Branches -> {"waiting", "running", "posted", "gone", "refused"}]
  BY <1>1 DEF PageTypeOK
<1>8. /\ worker' \in [Branches -> {"waiting", "running", "posted", "gone", "refused"}]
      /\ \A j \in set : worker'[j] \in {"running", "refused"}
      /\ \A j \in Branches \ set : worker'[j] = w[j]
  <2> HIDE DEF w
  <2>1. worker' = Started(w, set, refused)
    BY <1>6 DEF w
  <2> QED
    BY <1>4, <1>7, <2>1, StartedFacts
<1>9. worker'[i] = "gone" /\ \A j \in Branches \ (set \cup {i}) : worker'[j] = worker[j]
  BY <1>1, <1>4, <1>8 DEF PageTypeOK
<1>10. Waiting' = Waiting \ set /\ Finished' = Finished \cup {i} /\ Busy' = (Busy \ {i}) \cup set
  BY <1>2, <1>4, <1>8, <1>9 DEF Waiting, Finished, Busy
<1>11. Cardinality(Finished') = settled + 1
  BY <1>1, <1>2, <1>10, Counters, FS_AddElement
<1>12. Cardinality(Busy') = active - 1 + Cardinality(set)
  <2>1. IsFiniteSet(Busy \ {i}) /\ Cardinality(Busy \ {i}) = active - 1
    BY <1>1, <1>2, Counters, FS_RemoveElement
  <2>2. (Busy \ {i}) \cap set = {}
    BY <1>4 DEF Busy
  <2>3. Cardinality(Busy') = Cardinality(Busy \ {i}) + Cardinality(set) - Cardinality({})
    BY <1>4, <1>10, <2>1, <2>2, FS_Union
  <2> QED
    BY <1>1, <1>4, <2>1, <2>3, Counters, FS_EmptySet
<1>13. active' <= MaxWorkers
  BY <1>1, <1>4, <1>5, Counters, PoolFacts DEF SlotsLeft
<1>14. results' \in [Branches -> {"null", "answers", "empty"}]
  BY <1>1, <1>5 DEF PageTypeOK, ResultOf, Outcomes
<1>15. answer' \in [Branches -> {"null", "answers", "empty"}]
  BY <1>1, <1>5, <1>14 DEF Read, Nothing, PageTypeOK
<1>16. PageTypeOK'
  <2>1. resolved' \in BOOLEAN
    BY <1>5
  <2>2. Waiting' = next'..N /\ next' \in 1..(N + 1)
    BY <1>4, <1>5, <1>10
  <2> QED
    BY <1>1, <1>5, <1>8, <1>14, <1>15, <2>1, <2>2 DEF PageTypeOK, inputs
<1>17. SlotsExact'
  BY <1>5, <1>11, <1>12, <1>13 DEF SlotsExact
<1> QED
  BY <1>2, <1>10, <1>16, <1>17 DEF PoolConsistent

LEMMA SettleStep ==
    ASSUME PageInv, NEW i \in Branches, NEW r \in {"null", ResultOf(i)}, Unsettled(i), Settle(i, r),
           inbox' \subseteq Branches
    PROVE  PageInv'
<1>1. PoolConsistent' /\ Finished' = Finished \cup {i} /\ i \notin Finished
  BY SettlePool
<1>2. PoolConsistent /\ PageTypeOK /\ ResultsSound /\ OpenSound /\ AnswerExact
  BY DEF PageInv, PoolConsistent
<1>3. /\ settled' = settled + 1 /\ results' = [results EXCEPT ![i] = r]
      /\ resolved' = (resolved \/ EndsOnce(r) \/ AllSettled(settled + 1))
      /\ answer' = Read(EndsOnce(r) \/ AllSettled(settled + 1), results')
      /\ UNCHANGED inputs
  BY DEF Settle
<1>4. results[i] = "null" /\ \A j \in Branches : j # i => results'[j] = results[j]
  BY <1>2, <1>3 DEF ResultsSound, Unsettled, PageTypeOK
<1>5. results'[i] = r /\ \A j \in Branches : ResultOf(j)' = ResultOf(j)
  BY <1>2, <1>3 DEF PageTypeOK, inputs, ResultOf
<1>6. ResultsSound'
  <2>1. \A j \in Branches : worker'[j] # "gone" => worker[j] # "gone" /\ j # i
    BY <1>1 DEF Finished
  <2> QED
    BY <1>2, <1>4, <1>5, <2>1 DEF ResultsSound
<1>7. settled \in Nat /\ settled <= N /\ settled' <= N /\ settled < N
  <2>1. settled' <= N
    <3>1. (settled <= N)'
      <4>1. Finished' \in SUBSET Branches /\ settled' = Cardinality(Finished')
        BY <1>1 DEF PoolConsistent, SlotsExact, Finished
      <4> QED
        BY <4>1, SomeBranches
    <3> QED
      BY <3>1
  <2> QED
    BY <1>2, <1>3, <2>1, Counters, PoolFacts
<1>8. CASE resolved
  <2>1. resolved' /\ answer' = answer
    BY <1>3, <1>8 DEF Read
  <2>2. firstOnly /\ \E j \in Branches : results[j] = "answers"
    BY <1>2, <1>7, <1>8, PoolFacts DEF AnswerExact
  <2>3. \E j \in Branches : results'[j] = "answers"
    BY <1>4, <2>2
  <2>4. AnswerExact'
    BY <1>2, <1>3, <1>5, <1>8, <2>1, <2>2, <2>3 DEF AnswerExact, inputs
  <2>5. OpenSound'
    BY <2>1 DEF OpenSound
  <2> QED
    BY <1>1, <1>6, <2>4, <2>5 DEF PageInv
<1>9. CASE ~ resolved /\ resolved'
  <2>1. answer' = results'
    BY <1>3, <1>9 DEF Read
  <2>2. \A j \in Branches : answer'[j] # "null" => answer'[j] = ResultOf(j)'
    BY <1>6, <2>1 DEF ResultsSound
  <2>3. CASE firstOnly /\ r = "answers"
    <3>1. {j \in Branches : answer'[j] = "answers"} = {i}
      BY <1>2, <1>4, <1>5, <1>9, <2>1, <2>3 DEF OpenSound
    <3> QED
      BY <1>1, <1>3, <1>5, <1>6, <1>9, <2>2, <2>3, <3>1 DEF PageInv, AnswerExact, OpenSound, inputs
  <2>4. CASE ~ (firstOnly /\ r = "answers")
    <3>1. settled' = N
      <4>1. AllSettled(settled + 1)
        BY <1>3, <1>9, <2>4 DEF EndsOnce
      <4> QED
        BY <1>3, <1>7, <4>1, PoolFacts DEF AllSettled
    <3>2. ~ (firstOnly /\ \E j \in Branches : results'[j] = "answers")
      BY <1>2, <1>4, <1>5, <1>9, <2>4 DEF OpenSound
    <3> QED
      BY <1>1, <1>3, <1>6, <1>9, <2>1, <2>2, <3>1, <3>2 DEF PageInv, AnswerExact, OpenSound, inputs
  <2> QED
    BY <2>3, <2>4
<1>10. CASE ~ resolved'
  <2>1. ~ resolved /\ ~ EndsOnce(r) /\ ~ AllSettled(settled + 1)
    BY <1>3, <1>10
  <2>2. settled' < N /\ answer' = Nothing
    BY <1>3, <1>7, <2>1, PoolFacts DEF Read, AllSettled
  <2>3. firstOnly' => \A j \in Branches : results'[j] # "answers"
    BY <1>2, <1>3, <1>4, <1>5, <2>1 DEF OpenSound, EndsOnce, inputs
  <2> QED
    BY <1>1, <1>6, <1>10, <2>2, <2>3 DEF PageInv, OpenSound, AnswerExact, Nothing
<1> QED
  BY <1>8, <1>9, <1>10

-----------------------------------------------------------------------------

LEMMA NextPageInv == PageInv /\ [PageNext]_pageVars => PageInv'
<1> SUFFICES ASSUME PageInv, [PageNext]_pageVars PROVE PageInv'
  OBVIOUS
<1>1. CASE Start
  BY <1>1, StartStep
<1>2. ASSUME NEW i \in Branches, Post(i) PROVE PageInv'
  <2> USE <1>2 DEF Post
  <2>1. PageTypeOK /\ SlotsExact
    BY DEF PageInv, PoolConsistent
  <2>2. Waiting' = Waiting /\ Finished' = Finished /\ Busy' = Busy
    BY <2>1 DEF PageTypeOK, Waiting, Finished, Busy
  <2>3. PageTypeOK'
    BY <2>1, <2>2 DEF PageTypeOK, inputs, call
  <2>4. SlotsExact'
    BY <2>1, <2>2 DEF SlotsExact, call
  <2>5. ResultsSound' /\ OpenSound' /\ AnswerExact'
    BY <2>1 DEF PageInv, PageTypeOK, ResultsSound, OpenSound, AnswerExact, ResultOf, Nothing, inputs, call
  <2> QED
    BY <2>3, <2>4, <2>5 DEF PageInv, PoolConsistent
<1>3. ASSUME UNCHANGED <<inputs, worker, call>>, inbox' \subseteq Branches PROVE PageInv'
  <2>1. Waiting' = Waiting /\ Finished' = Finished /\ Busy' = Busy
    BY <1>3 DEF Waiting, Finished, Busy
  <2>2. PageTypeOK' /\ SlotsExact'
    BY <1>3, <2>1 DEF PageInv, PoolConsistent, PageTypeOK, SlotsExact, inputs, call
  <2>3. ResultsSound' /\ OpenSound' /\ AnswerExact'
    BY <1>3 DEF PageInv, ResultsSound, OpenSound, AnswerExact, ResultOf, Nothing, inputs, call
  <2> QED
    BY <2>2, <2>3 DEF PageInv, PoolConsistent
<1>4. inbox \subseteq Branches
  BY DEF PageInv, PoolConsistent, PageTypeOK
<1>5. ASSUME NEW i \in Branches, Deliver(i) PROVE PageInv'
  <2>1. inbox' \subseteq Branches
    BY <1>4, <1>5 DEF Deliver
  <2>2. CASE Unsettled(i)
    BY <1>5, <2>1, <2>2, SettleStep DEF Deliver
  <2>3. CASE ~ Unsettled(i)
    BY <1>3, <1>5, <2>1, <2>3 DEF Deliver
  <2> QED
    BY <2>2, <2>3
<1>6. ASSUME NEW i \in Branches, GiveUp(i) PROVE PageInv'
  <2>1. inbox' \subseteq Branches
    BY <1>4, <1>6 DEF GiveUp
  <2> QED
    BY <1>6, <2>1, SettleStep DEF GiveUp
<1>7. CASE UNCHANGED pageVars
  BY <1>3, <1>4, <1>7 DEF pageVars
<1> QED
  BY <1>1, <1>2, <1>5, <1>6, <1>7 DEF PageNext, WorkerEvent

LEMMA PageInvariance == PageSpec => []PageInv
BY InitPageInv, NextPageInv, PTL DEF PageSpec

\* Slots are neither lost nor given out twice, whichever of message, error and timer
\* settles a worker, for any number of branches and slots.
THEOREM PoolAccounts == PageSpec => []PoolConsistent
<1>1. PageInv => PoolConsistent
  BY DEF PageInv
<1> QED
  BY <1>1, PageInvariance, PTL

\* The caller reads the results of one branch under once, and otherwise those of all,
\* although workers go on writing into the array.
THEOREM CallerReadsExact == PageSpec => []AnswerExact
<1>1. PageInv => AnswerExact
  BY DEF PageInv
<1> QED
  BY <1>1, PageInvariance, PTL
=============================================================================
