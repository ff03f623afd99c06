---------------------------- MODULE ParHyperpose ----------------------------
(***************************************************************************)
(* Evaluation of the branches of a hyperpose in worker threads             *)
(* (packages/node/src/par-hyperpose.ts).  Each worker writes the results   *)
(* of one branch into its slice of a shared buffer, sets the status of the *)
(* slice, adds one to a shared counter and notifies; the main thread scans *)
(* the slices and sleeps on the counter.  Threads interleave at the atomic *)
(* accesses, and a worker may die between any two of them.                 *)
(*                                                                         *)
(* The text and length of a slice are abstracted to whether they are       *)
(* written.                                                                *)
(***************************************************************************)
EXTENDS Hyperpose

CONSTANT MaxDeaths  \* bound of the model on the workers killed during the call

ASSUME DeathAssumption == MaxDeaths \in Nat

VARIABLES
    slice,      \* shared: status of each branch, and whether its results are written
    counter,    \* shared: how many workers signalled
    main,       \* control state of the main thread
    prev, scan, \* its locals: the counter it sleeps on, the branch it reads next
    out,        \* its result: per branch what it read, or "null"
    exit,       \* why its loop ended
    ready       \* history: branches whose status was set when the scan began

workerVars == <<worker, slice, counter>>
mainVars == <<main, prev, scan, out, exit, ready>>
vars == <<inputs, workerVars, mainVars>>

Pending == 0
Done == 1
Bailed == -1

Init ==
    /\ firstOnly \in BOOLEAN
    /\ outcome \in [Branches -> Outcomes]
    /\ worker = [i \in Branches |-> "eval"]
    /\ slice = [i \in Branches |-> [status |-> Pending, written |-> FALSE]]
    /\ counter = 0
    /\ main = "load" /\ prev = 0 /\ scan = 1
    /\ out = [i \in Branches |-> "null"]
    /\ exit = "none"
    /\ ready = {}

-----------------------------------------------------------------------------
(* The worker of branch i.                                                 *)

Move(i, from, to) == worker[i] = from /\ worker' = [worker EXCEPT ![i] = to]

\* runProgram returns or throws; the results are formatted and written to the slice,
\* out of the main thread's sight until the status is set.
Evaluate(i) ==
    /\ Move(i, "eval", "status")
    /\ slice' = [slice EXCEPT ![i].written = outcome[i] # "fails"]
    /\ UNCHANGED <<inputs, counter, mainVars>>

\* Mutant: a branch that bailed is marked done.
StatusDone(i) == Done

StatusOf(i) == IF outcome[i] = "fails" THEN Bailed ELSE Done

SetStatus(i) ==
    /\ Move(i, "status", "signal")
    /\ slice' = [slice EXCEPT ![i].status = StatusOf(i)]
    /\ UNCHANGED <<inputs, counter, mainVars>>

\* Mutant: a worker that bailed signals in its catch and in its finally block.
SignalsTwice(i) == IF outcome[i] = "fails" THEN 2 ELSE 1

Signals(i) == 1

\* The finally block: add, then notify.
Signal(i) ==
    /\ Move(i, "signal", "notify")
    /\ counter' = counter + Signals(i)
    /\ UNCHANGED <<inputs, slice, mainVars>>

Notify(i) ==
    /\ Move(i, "notify", "exited")
    /\ main' = IF main = "asleep" THEN "load" ELSE main
    /\ UNCHANGED <<inputs, slice, counter, prev, scan, out, exit, ready>>

\* "mute": gone between its add and its notify.
Stopped == {"exited", "gone", "mute"}

Gone(state) == CASE state = "exited" -> "exited" [] state = "notify" -> "mute" [] OTHER -> "gone"

\* The thread is killed, at a point where its finally block does not run.
Die(i) ==
    /\ worker[i] \notin Stopped
    /\ Cardinality({j \in Branches : worker[j] \in {"gone", "mute"}}) < MaxDeaths
    /\ worker' = [worker EXCEPT ![i] = Gone(@)]
    /\ UNCHANGED <<inputs, slice, counter, mainVars>>

\* w.terminate() of every worker, which takes effect some time after the call returned;
\* nobody sees what a worker still does before.
Terminate ==
    /\ main = "returned"
    /\ \E i \in Branches : worker[i] \notin Stopped
    /\ worker' = [i \in Branches |-> Gone(worker[i])]
    /\ UNCHANGED <<inputs, slice, counter, mainVars>>

Worker(i) ==
    /\ main # "returned"
    /\ Evaluate(i) \/ SetStatus(i) \/ Signal(i) \/ Notify(i) \/ Die(i)

-----------------------------------------------------------------------------
(* The main thread.                                                        *)

LoadCounter ==
    /\ main = "load"
    /\ prev' = counter
    /\ ready' = {i \in Branches : slice[i].status # Pending}
    /\ scan' = 1 /\ main' = "scan"
    /\ UNCHANGED <<inputs, workerVars, out, exit>>

\* What parsing the slice gives: the results only if all of it was written.
Parsed(i) == IF slice[i].written THEN outcome[i] ELSE "garbled"

\* A slice that was not read yet counts once it is finished.
Fresh(i) == out[i] = "null" /\ slice[i].status = Done

\* Under once a branch with results wins.
Wins(i) == Fresh(i) /\ firstOnly /\ Parsed(i) # "empty"

\* Mutant: the last branch is not looked at.
LastTurnEarly(i) == Wins(i) \/ i >= N - 1

LastTurn(i) == Wins(i) \/ i = N

\* One turn of the scan.
ReadSlice ==
    /\ main = "scan"
    /\ out' = IF Fresh(scan) THEN [out EXCEPT ![scan] = Parsed(scan)] ELSE out
    /\ exit' = IF Wins(scan) THEN "won" ELSE exit
    /\ main' = IF LastTurn(scan) THEN "check" ELSE "scan"
    /\ scan' = IF LastTurn(scan) THEN scan ELSE scan + 1
    /\ UNCHANGED <<inputs, workerVars, prev, ready>>

CheckFinished ==
    /\ main = "check"
    /\ exit' = IF exit = "none" /\ counter >= N THEN "finished" ELSE exit
    /\ main' = IF exit' = "none" THEN "wait" ELSE "returned"
    /\ UNCHANGED <<inputs, workerVars, prev, scan, out, ready>>

\* Mutant: the thread sleeps without comparing the counter with what it loaded.
SleepsAnyway == TRUE

\* Atomics.wait sleeps only if the counter did not move since it was loaded.
Sleeps == counter = prev

Wait ==
    /\ main = "wait"
    /\ main' = IF Sleeps THEN "asleep" ELSE "load"
    /\ UNCHANGED <<inputs, workerVars, prev, scan, out, exit, ready>>

\* Mutant: the thread always sleeps again.
NeverGivesUp == FALSE

\* WAIT_MS passed and the counter still did not move.
GivesUp == counter = prev

TimeOut ==
    /\ main = "asleep"
    /\ main' = IF GivesUp THEN "returned" ELSE "load"
    /\ exit' = IF GivesUp THEN "wedged" ELSE exit
    /\ UNCHANGED <<inputs, workerVars, prev, scan, out, ready>>

Main == LoadCounter \/ ReadSlice \/ CheckFinished \/ Wait \/ TimeOut \/ Terminate

-----------------------------------------------------------------------------

Next == Main \/ (\E i \in Branches : Worker(i))

\* The main thread runs until it sleeps and its timer fires; terminate() takes effect.
\* Nothing is assumed of the workers.
Fairness == WF_vars(Main)

Spec == Init /\ [][Next]_vars /\ Fairness

-----------------------------------------------------------------------------
(* Properties.                                                             *)

\* Type invariant: the counter never passes the number of branches, whoever signals.
TypeOK ==
    /\ firstOnly \in BOOLEAN
    /\ outcome \in [Branches -> Outcomes]
    /\ worker \in [Branches -> {"eval", "status", "signal", "notify"} \cup Stopped]
    /\ slice \in [Branches -> [status : {Pending, Done, Bailed}, written : BOOLEAN]]
    /\ counter \in 0..N /\ prev \in 0..N /\ scan \in Branches
    /\ main \in {"load", "scan", "check", "wait", "asleep", "returned"}
    /\ out \in [Branches -> {"null", "answers", "empty", "garbled"}]
    /\ exit \in {"none", "won", "finished", "wedged"}
    /\ ready \subseteq Branches

\* Whatever the interleaving, and wherever a worker dies, the main thread never parses
\* a slice that is not all there, nor one of a branch that bailed.
ResultsWhole ==
    \A i \in Branches : out[i] # "null" => out[i] = outcome[i]

\* A worker that signals after the counter was loaded cannot be missed: the main thread
\* sleeps on a moved counter only until the notify that is on its way, or until the
\* worker died between its add and its notify.
NoLostWakeup ==
    main = "asleep" /\ counter # prev => \E i \in Branches : worker[i] \in {"notify", "mute"}

\* Under once the winner is the lowest branch with results among those that were
\* finished when the scan began, and no other branch's results are returned.
WinnerIsLowestReady ==
    exit = "won" =>
        /\ firstOnly /\ out[scan] = "answers"
        /\ \A i \in Branches \ {scan} : out[i] # "answers"
        /\ \A i \in ready : i < scan => outcome[i] # "answers"

Signalled == {i \in Branches : worker[i] \in {"notify", "exited", "mute"}}

\* The main thread goes to sleep, or gives up, on a counter that did not move only after
\* it read every branch that signalled.
SleepsOnNothingUnread ==
    (main = "asleep" \/ exit = "wedged") /\ counter = prev =>
        \A i \in Signalled : outcome[i] # "fails" => out[i] = outcome[i]

\* What the loop over the slices has read when it sleeps, gives up or has a winner: a
\* branch that signalled is never left lying while its answer is waited for, and none
\* ready for the scan is passed over for a later one.
AnswersReadInTime == SleepsOnNothingUnread /\ WinnerIsLowestReady

\* "every branch finished" ends the loop, and a null of the result stands for a branch
\* that failed.  A worker that sets its status and signals after the scan passed its
\* slice, and before the last load of the counter, breaks it.
UnreadMeansFailed == exit = "finished" => \A i \in Branches : out[i] = "null" => outcome[i] = "fails"

\* The call returns and leaves no worker running, whatever the workers do: diverge, die
\* before signalling, or signal while the main thread is between its scan and its sleep.
ReturnsAndCleansUp ==
    <>(main = "returned" /\ \A i \in Branches : worker[i] \in Stopped)
=============================================================================
