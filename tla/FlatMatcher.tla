---------------------------- MODULE FlatMatcher ----------------------------
(***************************************************************************)
(* The data-parallel matcher over a flat knowledge base: a warm pool of    *)
(* worker threads claims facts from a shared cursor, and match() calls are *)
(* chained on a promise queue (packages/node/src/flat-parallel.ts).        *)
(* Threads interleave at the claims; a worker may crash at work or be      *)
(* terminated by close(), and its last events reach the main thread once.  *)
(* A pattern is abstracted to the facts it matches.                        *)
(***************************************************************************)
EXTENDS Integers, Sequences, FiniteSets

CONSTANTS
    NumFacts, Workers,
    Calls,          \* bound of the model: match() is called this many times
    Hits,           \* call -> facts its pattern matches
    Unknown,        \* calls whose pattern has a symbol the interner never saw
    MaxDeaths,      \* bound of the model on the workers that crash
    MayClose        \* whether the program calls close()

Facts == 0..(NumFacts - 1)

ASSUME MatcherAssumption ==
    /\ NumFacts \in Nat /\ Calls \in Nat /\ MaxDeaths \in Nat
    /\ Workers # {} /\ IsFiniteSet(Workers)
    /\ Hits \in [1..Calls -> SUBSET Facts]
    /\ Unknown \subseteq 1..Calls /\ MayClose \in BOOLEAN
    /\ \A c \in Unknown : Hits[c] = {}

VARIABLES
    called,     \* how many match() calls were made
    status,     \* call -> where its promise is
    current,    \* the call in matchOne, or 0
    awaited,    \* workers whose reply the current call still listens for
    replies,    \* of the current call: worker -> facts it found
    result,     \* call -> one set of facts per worker
    counter,    \* shared: the work-stealing cursor
    worker      \* thread: what it does, its inbox, and the events it sent

vars == <<called, status, current, awaited, replies, result, counter, worker>>

NoMatches == [w \in Workers |-> {}]

Init ==
    /\ called = 0
    /\ status = [c \in 1..Calls |-> "new"]
    /\ current = 0
    /\ awaited = {} /\ replies = NoMatches
    /\ result = [c \in 1..Calls |-> NoMatches]
    /\ counter = 0
    /\ worker = [w \in Workers |->
                    [alive |-> TRUE, job |-> 0, found |-> {}, inbox |-> << >>, events |-> << >>]]

mainVars == <<called, status, current, awaited, replies, result>>

-----------------------------------------------------------------------------
(* A worker thread.                                                        *)

Receive(w) ==
    /\ worker[w].alive /\ worker[w].job = 0 /\ worker[w].inbox # << >>
    /\ worker' = [worker EXCEPT ![w].job = Head(worker[w].inbox), ![w].inbox = Tail(@),
                                ![w].found = {}]
    /\ UNCHANGED <<mainVars, counter>>

Message(facts) == [kind |-> "message", found |-> facts]

\* Mutant: a worker that found nothing stays silent.
PostIfAny(thread) ==
    [thread EXCEPT !.job = 0, !.found = {},
                   !.events = IF thread.found = {} THEN @ ELSE Append(@, Message(thread.found))]
\* Mutant: the loop is not left.
PostAndStay(thread) == [thread EXCEPT !.events = Append(@, Message(thread.found))]

Post(thread) ==
    [thread EXCEPT !.job = 0, !.found = {}, !.events = Append(@, Message(thread.found))]

Took(thread, i) == [thread EXCEPT !.found = @ \cup ({i} \cap Hits[thread.job])]

\* One turn of the loop: claim an index; past the last fact, post what was found.
Claim(w) ==
    /\ worker[w].alive /\ worker[w].job # 0
    /\ counter' = counter + 1
    /\ worker' = [worker EXCEPT ![w] = IF counter < NumFacts THEN Took(@, counter) ELSE Post(@)]
    /\ UNCHANGED mainVars

Dead == {w \in Workers : ~ worker[w].alive}

Gone(w, last) ==
    [alive |-> FALSE, job |-> 0, found |-> {}, inbox |-> << >>,
     events |-> worker[w].events \o [i \in DOMAIN last |-> [kind |-> last[i], found |-> {}]]]

\* An uncaught error of a thread at work, out of memory for one.
Crash(w) ==
    /\ worker[w].alive /\ worker[w].job # 0
    /\ Cardinality(Dead) < MaxDeaths
    /\ worker' = [worker EXCEPT ![w] = Gone(w, <<"error", "exit">>)]
    /\ UNCHANGED <<mainVars, counter>>

\* close() terminates every worker, each at a time of its own.
Terminate(w) ==
    /\ MayClose
    /\ worker[w].alive
    /\ worker' = [worker EXCEPT ![w] = Gone(w, <<"exit">>)]
    /\ UNCHANGED <<mainVars, counter>>

-----------------------------------------------------------------------------
(* The main thread.                                                        *)

Settled == {"resolved", "failed"}

\* match(): chained behind every earlier call.
Match ==
    /\ called < Calls
    /\ called' = called + 1
    /\ status' = [status EXCEPT ![called + 1] = "queued"]
    /\ UNCHANGED <<current, awaited, replies, result, counter, worker>>

\* Mutant: the chain ends at the first call that rejects.
TurnAfterResolved(c) == \A d \in 1..(c - 1) : status[d] = "resolved"

\* this.queue.then, with the catch that keeps the chain alive.
Turn(c) == \A d \in 1..(c - 1) : status[d] \in Settled

\* Mutant: the cursor is not reset.
CursorLeft == counter

Cursor == 0

\* matchOne up to its await: a dead worker gets no message.
Start(c) ==
    /\ status[c] = "queued" /\ Turn(c)
    /\ IF c \in Unknown
       THEN /\ status' = [status EXCEPT ![c] = "resolved"]
            /\ UNCHANGED <<current, awaited, counter, worker>>
       ELSE /\ status' = [status EXCEPT ![c] = "running"]
            /\ current' = c
            /\ awaited' = Workers
            /\ counter' = Cursor
            /\ worker' = [w \in Workers |->
                            IF worker[w].alive THEN [worker[w] EXCEPT !.inbox = Append(@, c)]
                                               ELSE worker[w]]
    /\ UNCHANGED <<called, replies, result>>

Fatal(event) == event.kind \in {"error", "exit"}

\* The next event of a worker.  What the listeners left behind by a failed call do is
\* settle promises nobody looks at.
Deliver(w) ==
    /\ worker[w].events # << >>
    /\ worker' = [worker EXCEPT ![w].events = Tail(@)]
    /\ LET event == Head(worker[w].events)
       IN  CASE w \in awaited /\ event.kind = "message" ->
                    /\ replies' = [replies EXCEPT ![w] = event.found]
                    /\ awaited' = awaited \ {w}
                    /\ UNCHANGED <<status, current>>
             [] w \in awaited /\ Fatal(event) ->
                    /\ status' = [status EXCEPT ![current] = "failed"]
                    /\ current' = 0
                    /\ awaited' = {}
                    /\ UNCHANGED replies
             [] OTHER -> UNCHANGED <<status, current, awaited, replies>>
    /\ UNCHANGED <<called, result, counter>>

\* matchOne after its await.
Collect ==
    /\ current # 0 /\ awaited = {}
    /\ result' = [result EXCEPT ![current] = replies]
    /\ status' = [status EXCEPT ![current] = "resolved"]
    /\ current' = 0
    /\ UNCHANGED <<called, awaited, replies, counter, worker>>

-----------------------------------------------------------------------------

Thread(w) == Receive(w) \/ Claim(w)
Main == (\E c \in 1..Calls : Start(c)) \/ (\E w \in Workers : Deliver(w)) \/ Collect

Next == Match \/ Main \/ \E w \in Workers : Thread(w) \/ Crash(w) \/ Terminate(w)

\* Threads that live are scheduled, and the main thread's event loop turns.
Fairness == WF_vars(Main) /\ \A w \in Workers : WF_vars(Thread(w))

Spec == Init /\ [][Next]_vars /\ Fairness

-----------------------------------------------------------------------------
(* Properties.                                                             *)

Event == [kind : {"message", "error", "exit"}, found : SUBSET Facts]

\* The cursor overruns the facts by what each worker adds to leave its loop, once per
\* message it took.
TypeOK ==
    /\ called \in 0..Calls
    /\ status \in [1..Calls -> {"new", "queued", "running"} \cup Settled]
    /\ current \in 0..Calls
    /\ awaited \subseteq Workers /\ replies \in [Workers -> SUBSET Facts]
    /\ result \in [1..Calls -> [Workers -> SUBSET Facts]]
    /\ counter \in 0..(NumFacts + Calls * Cardinality(Workers))
    /\ \A w \in Workers :
         /\ worker[w].alive \in BOOLEAN /\ worker[w].job \in 0..Calls
         /\ worker[w].inbox \in Seq(1..Calls) /\ worker[w].events \in Seq(Event)

\* A match that resolves returns what the single-threaded one returns, each match once:
\* also behind a call that failed and left workers scanning its pattern from the same
\* cursor, with replies nobody waits for on their way.
ResolvedExact ==
    \A c \in 1..Calls : status[c] = "resolved" =>
        /\ UNION {result[c][w] : w \in Workers} = Hits[c]
        /\ \A v, w \in Workers : v # w => result[c][v] \cap result[c][w] = {}

\* While every worker lives the pool works for one call: no worker scans for another,
\* and no reply of another is under way.
OneCallAtATime ==
    Dead = {} =>
        /\ \A w \in Workers :
             /\ worker[w].job \in {0, current}
             /\ \A i \in DOMAIN worker[w].inbox : worker[w].inbox[i] = current
             /\ worker[w].events # << >> => w \in awaited
        /\ \A c \in 1..Calls : status[c] = "running" <=> c = current

\* The workers of the pool share one cursor: calls do not mix, and a match loses and
\* repeats nothing (matchOne).
CallsApart == ResolvedExact /\ OneCallAtATime

ExitPending(w) == \E i \in DOMAIN worker[w].events : worker[w].events[i].kind = "exit"

\* A match under way when workers die comes to an end, whether they had answered or
\* not, as long as it was not started on a pool with a worker whose end it missed.
CrashEndsMatch ==
    \A c \in 1..Calls :
        (status[c] = "running" /\ \A w \in awaited : worker[w].alive \/ ExitPending(w)) ~>
            status[c] \in Settled

\* The queue goes on behind a match that failed.
FailureDoesNotBlock ==
    \A c \in 1..(Calls - 1) :
        (status[c] = "failed" /\ status[c + 1] = "queued") ~> status[c + 1] # "queued"

\* A worker that dies costs the match it was working for, and no other (onExit, onError
\* and the queue of match).
FailureContained == CrashEndsMatch /\ FailureDoesNotBlock

\* With a pool that stays whole every match resolves.
MatchesResolve ==
    [](Dead = {}) => \A c \in 1..Calls : status[c] = "queued" ~> status[c] = "resolved"

\* What the comment in matchOne says: a crashed worker fails the match, and leaves
\* neither the match nor the queue hung forever.
NoHungMatch ==
    \A w \in Workers :
        w \in awaited => worker[w].alive \/ worker[w].events # << >>
=============================================================================
