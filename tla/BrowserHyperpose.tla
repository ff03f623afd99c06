--------------------------- MODULE BrowserHyperpose ---------------------------
(***************************************************************************)
(* Evaluation of the branches of a hyperpose in Web Workers                *)
(* (packages/browser/src/source.ts).  At most MaxWorkers workers run; each *)
(* evaluates one branch and posts one message, and its timer, its error    *)
(* event and its message race for it.  A worker that settles gives its     *)
(* slot to the next branch; under once the first branch with results ends  *)
(* the call while the other workers go on.                                 *)
(*                                                                         *)
(* Events of the page are atomic: the reactions of a promise run before    *)
(* the next event.                                                         *)
(***************************************************************************)
EXTENDS Hyperpose

CONSTANTS
    MaxWorkers,     \* the worker count after clampWorkerCount
    MaxRefused      \* bound of the model on the workers the browser refuses to make

ASSUME PoolAssumption ==
    MaxWorkers \in 1..N /\ MaxRefused \in Nat

VARIABLES
    inbox,      \* branches whose message waits in the page's queue
    next,       \* the branch to launch next
    active, settled, resolved,  \* the counters and the flag of the call
    results,    \* its array, "null" where no result was stored
    answer      \* the array as the caller read it, when the promise resolved

call == <<next, active, settled, resolved, results, answer>>
pageVars == <<inputs, worker, inbox, call>>

Nothing == [i \in Branches |-> "null"]

-----------------------------------------------------------------------------
(* Launching.                                                              *)

\* Mutant: one worker too many.
SlotsLeftOver == MaxWorkers + 1 - active

SlotsLeft == MaxWorkers - active

\* How many branches are launched with s slots free.
Launched(s, from) == IF s < N + 1 - from THEN s ELSE N + 1 - from

\* Refused workers are never heard of: their constructor threw, which rejects a promise
\* nobody catches.
Refusable(set) ==
    {r \in SUBSET set :
        Cardinality(r) + Cardinality({i \in Branches : worker[i] = "refused"}) <= MaxRefused}

Started(w, set, refused) ==
    [i \in Branches |-> IF i \in refused THEN "refused" ELSE IF i \in set THEN "running" ELSE w[i]]

\* The reading of the results by the caller, one microtask after the promise resolved.
Read(now, array) == IF resolved THEN answer ELSE IF now THEN array ELSE Nothing

PageInit ==
    /\ firstOnly \in BOOLEAN
    /\ outcome \in [Branches -> Outcomes]
    /\ worker = [i \in Branches |-> "waiting"]
    /\ inbox = {}
    /\ next = 1 /\ active = 0 /\ settled = 0 /\ resolved = FALSE
    /\ results = Nothing /\ answer = Nothing

\* The first call of launch.
Start ==
    /\ next = 1
    /\ LET set == 1..MaxWorkers IN \E refused \in Refusable(set) :
        worker' = Started(worker, set, refused)
    /\ next' = MaxWorkers + 1 /\ active' = MaxWorkers
    /\ UNCHANGED <<inputs, inbox, settled, resolved, results, answer>>

-----------------------------------------------------------------------------
(* What follows when the promise of branch i resolves to r, with the worker *)
(* terminated: the slot is free, and the call resolves or launches.         *)

\* Mutant: an empty list of results ends a call under once.
EndsOnceEmpty(r) == firstOnly /\ r # "null"

EndsOnce(r) == firstOnly /\ r = "answers"

\* Mutant: the last branch to settle does not end the call.
AllSettledNever(n) == n > N

AllSettled(n) == n >= N

Settle(i, r) ==
    LET stopping == resolved \/ EndsOnce(r)
        set == IF stopping THEN {}
               ELSE next..(next - 1 + Launched(SlotsLeft + 1, next))
        ended == EndsOnce(r) \/ AllSettled(settled + 1)
    IN  /\ settled' = settled + 1
        /\ active' = active - 1 + Cardinality(set)
        /\ next' = next + Cardinality(set)
        /\ results' = [results EXCEPT ![i] = r]
        /\ resolved' = (resolved \/ ended)
        /\ answer' = Read(ended, results')
        /\ \E refused \in Refusable(set) :
            worker' = Started([worker EXCEPT ![i] = "gone"], set, refused)
        /\ UNCHANGED inputs

-----------------------------------------------------------------------------
(* Events.                                                                 *)

\* The worker evaluates its branch and posts what came of it.
Post(i) ==
    /\ worker[i] = "running"
    /\ worker' = [worker EXCEPT ![i] = "posted"]
    /\ inbox' = inbox \cup {i}
    /\ UNCHANGED <<inputs, call>>

ResultOf(i) == IF outcome[i] = "fails" THEN "null" ELSE outcome[i]

\* finish is done once: whoever comes second finds the worker settled.
Unsettled(i) == worker[i] \in {"running", "posted"}

Deliver(i) ==
    /\ i \in inbox
    /\ inbox' = inbox \ {i}
    /\ IF Unsettled(i) THEN Settle(i, ResultOf(i)) ELSE UNCHANGED <<inputs, worker, call>>

\* The timer of the worker, or its error event.
GiveUp(i) ==
    /\ Unsettled(i)
    /\ Settle(i, "null")
    /\ inbox' \in {inbox, inbox \ {i}}

WorkerEvent(i) == Post(i) \/ Deliver(i) \/ GiveUp(i)

PageNext == Start \/ \E i \in Branches : WorkerEvent(i)

\* The page runs: the call starts, messages are delivered, timers fire.  Nothing is
\* assumed of the workers.
PageFairness == WF_pageVars(Start) /\ \A i \in Branches : WF_pageVars(Deliver(i)) /\ WF_pageVars(GiveUp(i))

PageSpec == PageInit /\ [][PageNext]_pageVars /\ PageFairness

-----------------------------------------------------------------------------
(* Properties.                                                             *)

Waiting == {i \in Branches : worker[i] = "waiting"}
Refused == {i \in Branches : worker[i] = "refused"}
Finished == {i \in Branches : worker[i] = "gone"}
Busy == Branches \ (Waiting \cup Finished)     \* holding a slot, the refused for ever

\* Every branch that has no worker yet is at or after next, and nothing else is.
PageTypeOK ==
    /\ firstOnly \in BOOLEAN /\ outcome \in [Branches -> Outcomes]
    /\ worker \in [Branches -> {"waiting", "running", "posted", "gone", "refused"}]
    /\ inbox \subseteq Branches
    /\ next \in 1..(N + 1) /\ resolved \in BOOLEAN
    /\ results \in [Branches -> {"null", "answers", "empty"}]
    /\ answer \in [Branches -> {"null", "answers", "empty"}]
    /\ Waiting = next..N

\* The counters agree with the workers, and never more run than the pool allows,
\* whichever of message, error and timer a worker is settled by, and although workers
\* run on after the call resolved (runBranchWorker, launch).
SlotsExact ==
    /\ active = Cardinality(Busy) /\ active <= MaxWorkers
    /\ settled = Cardinality(Finished)

\* The pool is consistent whatever the workers do.
PoolConsistent == PageTypeOK /\ SlotsExact

\* What the caller read: under once the results of one branch, if any branch gave some
\* before all were given up; otherwise every branch as it was settled.  What workers
\* still running store in the array afterwards is not in it.
AnswerExact ==
    resolved =>
        /\ \A i \in Branches : answer[i] # "null" => answer[i] = ResultOf(i)
        /\ IF firstOnly /\ \E i \in Branches : results[i] = "answers"
           THEN \E w \in Branches : {i \in Branches : answer[i] = "answers"} = {w}
           ELSE settled = N /\ answer = results

\* The call returns, and each worker comes to its end by itself: by its message, its
\* error or its timer, also when branches never finish or the call has its winner.
\* Nobody cancels it (see WorkersCancelled).  A worker the browser refused gives no slot
\* back, and nothing is claimed of a call that has one.
ReturnsAndStops ==
    <>[](Refused # {} \/ (resolved /\ Busy = {}))

\* Under once "workers are cancelled once the first non-empty branch result arrives".
\* The code launches no more of them and lets those that run go on.
WorkersCancelled ==
    firstOnly /\ (\E i \in Branches : results[i] = "answers") =>
        \A i \in Branches : ~ Unsettled(i)
=============================================================================
