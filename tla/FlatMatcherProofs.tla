--------------------------- MODULE FlatMatcherProofs ---------------------------
(***************************************************************************)
(* Proofs about FlatMatcher, for any pool, facts, calls and deaths: calls  *)
(* do not mix, a match that resolves returns every fact once, and the      *)
(* cursor overruns the facts by a bounded number of turns.                 *)
(***************************************************************************)
EXTENDS FlatMatcher, SequenceTheorems, FiniteSetTheorems, TLAPS

IsMessage(w, i) == worker[w].events[i].kind = "message"

\* A worker that ended and has no reply under way.
Lost(w) == ~ worker[w].alive /\ \A i \in DOMAIN worker[w].events : ~ IsMessage(w, i)

ThreadState == [alive : BOOLEAN, job : 0..Calls, found : SUBSET Facts,
                inbox : Seq(1..Calls), events : Seq(Event)]

\* TypeOK, whose bound on the cursor needs more (CursorSound).
Typed ==
    /\ called \in 0..Calls
    /\ status \in [1..Calls -> {"new", "queued", "running"} \cup Settled]
    /\ current \in 0..Calls
    /\ awaited \subseteq Workers /\ replies \in [Workers -> SUBSET Facts]
    /\ result \in [1..Calls -> [Workers -> SUBSET Facts]]
    /\ counter \in Nat
    /\ worker \in [Workers -> ThreadState]

\* One call runs, behind calls that are settled; those to come have no result.
QueueInOrder ==
    /\ \A c \in 1..Calls : status[c] = "running" <=> c = current
    /\ \A c \in 1..Calls : status[c] = "new" <=> c > called
    /\ \A c \in 1..Calls : c < current => status[c] \in Settled
    /\ \A c \in 1..Calls : status[c] \in {"new", "queued"} => result[c] = NoMatches
    /\ \A c \in 1..Calls : status[c] = "running" => result[c] = NoMatches /\ c \notin Unknown
    /\ current = 0 => awaited = {}

\* A thread sends its replies before it ends.
EventsInOrder ==
    \A w \in Workers :
        /\ worker[w].job = 0 => worker[w].found = {}
        /\ \A i \in DOMAIN worker[w].events :
             /\ worker[w].alive => IsMessage(w, i)
             /\ IsMessage(w, i) => \A j \in 1..i : IsMessage(w, j)

\* Where a worker may be while the pool works for the current call only.
Replied(w) ==
    /\ w \notin awaited /\ counter >= NumFacts
    /\ worker[w].job = 0 /\ worker[w].inbox = << >>
    /\ \A i \in DOMAIN worker[w].events : ~ IsMessage(w, i)
Asked(w) ==
    /\ w \in awaited /\ worker[w].alive
    /\ worker[w].job = 0 /\ worker[w].inbox = <<current>> /\ worker[w].events = << >>
Scanning(w) ==
    /\ w \in awaited /\ worker[w].alive
    /\ worker[w].job = current /\ worker[w].inbox = << >> /\ worker[w].events = << >>
Posted(w) ==
    /\ w \in awaited /\ counter >= NumFacts
    /\ worker[w].job = 0 /\ worker[w].inbox = << >>
    /\ worker[w].events # << >> /\ IsMessage(w, 1)
    /\ \A i \in DOMAIN worker[w].events : i > 1 => ~ IsMessage(w, i)

\* What a worker found for the current call.
Held(w) ==
    IF w \notin awaited THEN replies[w]
    ELSE IF worker[w].events = << >> THEN worker[w].found
    ELSE worker[w].events[1].found

\* The facts below the cursor are shared out between the workers.
SharedOut ==
    /\ \A w \in Workers : Replied(w) \/ Asked(w) \/ Scanning(w) \/ Posted(w)
    /\ \A f \in Facts : (\E w \in Workers : f \in Held(w)) <=> (f < counter /\ f \in Hits[current])
    /\ \A v, w \in Workers : v # w => Held(v) \cap Held(w) = {}

Resting(w) ==
    /\ worker[w].alive
    /\ worker[w].job = 0 /\ worker[w].inbox = << >> /\ worker[w].events = << >>

\* A call is served by the whole pool, or waits for a worker that will not reply.
PoolSound ==
    /\ current # 0 => SharedOut \/ \E w \in awaited : Lost(w)
    /\ current = 0 => (\A w \in Workers : Resting(w)) \/ \E w \in Workers : Lost(w)

IInv == Typed /\ QueueInOrder /\ EventsInOrder /\ PoolSound /\ ResolvedExact

-----------------------------------------------------------------------------
(* Facts about the constants and about queues of events.                   *)

LEMMA Parameters ==
    /\ NumFacts \in Nat /\ Calls \in Nat /\ Workers # {}
    /\ Hits \in [1..Calls -> SUBSET Facts]
    /\ Unknown \subseteq 1..Calls /\ \A c \in Unknown : Hits[c] = {}
    /\ \A f \in Facts : f \in Nat /\ f < NumFacts
BY MatcherAssumption DEF Facts

\* The first element of a queue and the rest.
LEMMA FrontTaken ==
    ASSUME NEW S, NEW q \in Seq(S), q # << >>
    PROVE  /\ Head(q) = q[1] /\ q[1] \in S /\ 1 \in DOMAIN q
           /\ Tail(q) \in Seq(S) /\ Len(Tail(q)) = Len(q) - 1
           /\ \A i \in DOMAIN Tail(q) : i + 1 \in DOMAIN q /\ Tail(q)[i] = q[i + 1]
           /\ Len(q) = 1 => Tail(q) = << >>
<1>1. Len(q) \in Nat \ {0} /\ DOMAIN q = 1..Len(q)
  BY EmptySeq, LenProperties
<1>2. /\ Tail(q) \in Seq(S) /\ Len(Tail(q)) = Len(q) - 1
      /\ \A i \in 1..Len(Tail(q)) : Tail(q)[i] = q[i + 1]
  BY HeadTailProperties
<1>3. DOMAIN Tail(q) = 1..Len(Tail(q))
  BY <1>2, LenProperties
<1>4. ASSUME Len(q) = 1 PROVE Tail(q) = << >>
  <2>1. Tail(q) \in Seq(S) /\ Len(Tail(q)) = 0
    BY <1>2, <1>4
  <2> DEFINE rest == Tail(q)
  <2> HIDE DEF rest
  <2>2. rest \in Seq(S) /\ ~ (Len(rest) \in Nat \ {0})
    BY <2>1 DEF rest
  <2>3. rest = << >>
    BY <2>2, EmptySeq
  <2> QED
    BY <2>3 DEF rest
<1>5. Head(q) = q[1] /\ q[1] \in S
  BY <1>1
<1> QED
  BY <1>1, <1>2, <1>3, <1>4, <1>5

\* What a thread's end adds to its events: no reply.
LEMMA GoneEvents ==
    ASSUME NEW w \in Workers, worker[w].events \in Seq(Event),
           NEW last \in Seq({"error", "exit"})
    PROVE  LET events == worker[w].events
               after == Gone(w, last).events
           IN  /\ after \in Seq(Event)
               /\ Len(after) = Len(events) + Len(last)
               /\ \A i \in 1..Len(events) : after[i] = events[i]
               /\ \A i \in 1..Len(after) : i > Len(events) => after[i].kind # "message"
<1> DEFINE events == worker[w].events
           more == [i \in DOMAIN last |-> [kind |-> last[i], found |-> {}]]
<1>1. DOMAIN last = 1..Len(last) /\ Len(last) \in Nat /\ Len(events) \in Nat
  BY LenProperties
<1>2. \A i \in 1..Len(last) : last[i] \in {"error", "exit"}
  BY ElementOfSeq
<1>3. \A i \in 1..Len(last) : more[i] \in Event /\ more[i].kind # "message"
  BY <1>1, <1>2 DEF Event
<1>4. more \in Seq(Event) /\ Len(more) = Len(last)
  <2>1. more \in [1..Len(last) -> Event]
    BY <1>1, <1>3
  <2> HIDE DEF more
  <2> QED
    BY <2>1, <1>1
<1>5. Gone(w, last).events = events \o more
  BY DEF Gone
<1> HIDE DEF more, events
<1>6. /\ events \o more \in Seq(Event)
      /\ Len(events \o more) = Len(events) + Len(more)
      /\ \A i \in 1..Len(events) + Len(more) : (events \o more)[i] =
            IF i <= Len(events) THEN events[i] ELSE more[i - Len(events)]
  BY <1>4, ConcatProperties DEF events
<1>7. \A i \in 1..Len(events) + Len(more) : i > Len(events) => i - Len(events) \in 1..Len(last)
  BY <1>1, <1>4
<1> QED
  BY <1>1, <1>3, <1>4, <1>5, <1>6, <1>7 DEF events

\* A thread that takes a message.
LEMMA Received ==
    ASSUME Typed, NEW w \in Workers, Receive(w)
    PROVE  /\ worker' \in [Workers -> ThreadState]
           /\ \A v \in Workers \ {w} : worker'[v] = worker[v]
           /\ worker[w].alive /\ worker[w].job = 0 /\ worker[w].inbox # << >>
           /\ worker'[w].alive /\ worker'[w].job = worker[w].inbox[1]
           /\ worker'[w].job \in 1..Calls
           /\ worker'[w].found = {} /\ worker'[w].events = worker[w].events
           /\ Len(worker[w].inbox) = 1 => worker'[w].inbox = << >>
<1>1. /\ worker \in [Workers -> ThreadState] /\ worker[w].inbox \in Seq(1..Calls)
      /\ worker[w].inbox # << >>
  BY DEF Typed, ThreadState, Receive
<1>2. /\ Head(worker[w].inbox) = worker[w].inbox[1] /\ Head(worker[w].inbox) \in 1..Calls
      /\ Tail(worker[w].inbox) \in Seq(1..Calls)
      /\ Len(worker[w].inbox) = 1 => Tail(worker[w].inbox) = << >>
  BY <1>1, FrontTaken
<1>3. worker' = [worker EXCEPT ![w] = [worker[w] EXCEPT !.job = Head(worker[w].inbox),
                                        !.inbox = Tail(worker[w].inbox), !.found = {}]]
  BY <1>1 DEF Receive
<1>4. /\ worker[w].alive /\ worker[w].job = 0
  BY DEF Receive
<1>5. Head(worker[w].inbox) \in 0..Calls
  BY <1>2, Parameters
<1> QED
  BY <1>1, <1>2, <1>3, <1>4, <1>5 DEF ThreadState

LEMMA InitIInv == Init => IInv
<1> SUFFICES ASSUME Init PROVE IInv
  OBVIOUS
<1>1. Typed
  <2>1. \A w \in Workers : worker[w] \in ThreadState
    BY Parameters DEF Init, ThreadState
  <2>2. worker \in [Workers -> ThreadState]
    BY <2>1 DEF Init
  <2> QED
    BY <2>2, Parameters DEF Init, Typed, NoMatches, Settled
<1>2. QueueInOrder
  BY DEF Init, QueueInOrder
<1>3. EventsInOrder
  BY DEF Init, EventsInOrder
<1>4. PoolSound
  BY DEF Init, PoolSound, Resting
<1>5. ResolvedExact
  BY DEF Init, ResolvedExact
<1> QED
  BY <1>1, <1>2, <1>3, <1>4, <1>5 DEF IInv

-----------------------------------------------------------------------------
(* Steps of a worker.                                                      *)

\* A step of one thread leaves the promises, the listeners and the other threads.
LEMMA OthersKept ==
    ASSUME NEW w \in Workers, NEW v \in Workers, v # w,
           worker'[v] = worker[v], UNCHANGED mainVars
    PROVE  /\ Lost(v)' = Lost(v) /\ Held(v)' = Held(v) /\ Resting(v)' = Resting(v)
           /\ Asked(v)' = Asked(v) /\ Scanning(v)' = Scanning(v)
           /\ counter \in Nat /\ counter' \in Nat /\ counter' >= counter =>
                (Replied(v) => Replied(v)') /\ (Posted(v) => Posted(v)')
<1> USE DEF mainVars, IsMessage
<1>1. Lost(v)' = Lost(v) /\ Held(v)' = Held(v) /\ Resting(v)' = Resting(v)
  BY DEF Lost, Held, Resting
<1>2. Asked(v)' = Asked(v) /\ Scanning(v)' = Scanning(v)
  BY DEF Asked, Scanning
<1>3. counter \in Nat /\ counter' \in Nat /\ counter' >= counter =>
        (Replied(v) => Replied(v)') /\ (Posted(v) => Posted(v)')
  BY Parameters DEF Replied, Posted
<1> QED
  BY <1>1, <1>2, <1>3

LEMMA ReceiveStep == ASSUME IInv, NEW w \in Workers, Receive(w) PROVE IInv'
<1>0. Typed /\ QueueInOrder /\ EventsInOrder /\ PoolSound /\ ResolvedExact
  BY DEF IInv
<1>a. UNCHANGED <<mainVars, counter>> /\ counter \in Nat
  BY <1>0 DEF Receive, Typed
<1>b. /\ worker' \in [Workers -> ThreadState]
      /\ \A v \in Workers \ {w} : worker'[v] = worker[v]
      /\ worker[w].alive /\ worker[w].job = 0 /\ worker[w].inbox # << >>
      /\ worker'[w].alive /\ worker'[w].job = worker[w].inbox[1] /\ worker'[w].job \in 1..Calls
      /\ worker'[w].found = {} /\ worker'[w].events = worker[w].events
      /\ Len(worker[w].inbox) = 1 => worker'[w].inbox = << >>
  BY <1>0, Received
<1>1. Typed'
  BY <1>0, <1>a, <1>b DEF Typed, mainVars
<1>2. QueueInOrder'
  BY <1>0, <1>a DEF QueueInOrder, mainVars
<1>3. EventsInOrder'
  BY <1>0, <1>b DEF EventsInOrder, IsMessage
<1>4. PoolSound'
  <2>1. ASSUME NEW v \in Workers, Lost(v) PROVE Lost(v)'
    <3>1. v # w
      BY <2>1, <1>b DEF Lost
    <3> QED
      BY <2>1, <3>1, <1>a, <1>b, OthersKept
  <2>2. ASSUME SharedOut, current # 0 PROVE SharedOut'
    <3>1. Asked(w)
      BY <2>2, <1>b DEF SharedOut, Replied, Asked, Scanning, Posted
    <3>2. Scanning(w)'
      BY <3>1, <1>a, <1>b DEF Asked, Scanning, mainVars
    <3>3. \A v \in Workers \ {w} : (Replied(v) \/ Asked(v) \/ Scanning(v) \/ Posted(v))'
      BY <2>2, <1>a, <1>b, OthersKept DEF SharedOut
    <3>4. Held(w)' = Held(w)
      BY <3>1, <1>0, <1>a, <1>b DEF Held, Asked, EventsInOrder, mainVars
    <3>5. \A v \in Workers : Held(v)' = Held(v)
      BY <3>4, <1>a, <1>b, OthersKept
    <3> QED
      BY <2>2, <3>2, <3>3, <3>5, <1>a DEF SharedOut, mainVars
  <2>3. ~ Resting(w)
    BY <1>b DEF Resting
  <2> QED
    BY <1>0, <1>a, <2>1, <2>2, <2>3 DEF PoolSound, mainVars, Typed
<1>5. ResolvedExact'
  BY <1>0, <1>a DEF ResolvedExact, mainVars
<1> QED
  BY <1>1, <1>2, <1>3, <1>4, <1>5 DEF IInv

\* A thread that claims a fact, and one that finds the cursor past the last.
LEMMA Claimed ==
    ASSUME Typed, NEW w \in Workers, Claim(w)
    PROVE  /\ worker' \in [Workers -> ThreadState]
           /\ \A v \in Workers \ {w} : worker'[v] = worker[v]
           /\ worker[w].alive /\ worker[w].job # 0 /\ worker'[w].alive
           /\ worker'[w].inbox = worker[w].inbox
           /\ counter < NumFacts =>
                /\ worker'[w].job = worker[w].job /\ worker'[w].events = worker[w].events
                /\ worker'[w].found = worker[w].found \cup ({counter} \cap Hits[worker[w].job])
           /\ ~ (counter < NumFacts) =>
                /\ worker'[w].job = 0 /\ worker'[w].found = {}
                /\ worker'[w].events = Append(worker[w].events, Message(worker[w].found))
<1>1. /\ worker \in [Workers -> ThreadState] /\ worker[w] \in ThreadState /\ worker[w].alive
      /\ worker[w].job \in 1..Calls /\ counter \in Nat
  BY Parameters DEF Typed, ThreadState, Claim
<1>2. Message(worker[w].found) \in Event
  BY <1>1 DEF Message, Event, ThreadState
<1>3. Append(worker[w].events, Message(worker[w].found)) \in Seq(Event)
  BY <1>1, <1>2, AppendProperties DEF ThreadState
<1>4. CASE counter < NumFacts
  <2>1. counter \in Facts /\ Hits[worker[w].job] \subseteq Facts
    BY <1>1, <1>4, Parameters DEF Facts
  <2> DEFINE found == worker[w].found \cup ({counter} \cap Hits[worker[w].job])
           thread == [worker[w] EXCEPT !.found = found]
  <2>2. worker' = [worker EXCEPT ![w] = thread]
    BY <1>1, <1>4 DEF Claim, Took
  <2>3. found \in SUBSET Facts
    BY <1>1, <2>1 DEF ThreadState
  <2> HIDE DEF found
  <2>4. /\ thread \in ThreadState /\ thread.alive /\ thread.job = worker[w].job
        /\ thread.events = worker[w].events /\ thread.inbox = worker[w].inbox /\ thread.found = found
    BY <1>1, <2>3 DEF ThreadState
  <2> HIDE DEF thread
  <2> QED
    BY <1>1, <1>4, <2>2, <2>4, Parameters DEF found
<1>5. CASE ~ (counter < NumFacts)
  <2>1. worker' = [worker EXCEPT ![w] =
                     [worker[w] EXCEPT !.job = 0, !.found = {},
                        !.events = Append(worker[w].events, Message(worker[w].found))]]
    BY <1>1, <1>5 DEF Claim, Post
  <2>2. 0 \in 0..Calls
    BY Parameters
  <2> DEFINE sent == Append(worker[w].events, Message(worker[w].found))
  <2>3. sent \in Seq(Event) /\ sent = Append(worker[w].events, Message(worker[w].found))
    BY <1>3
  <2> HIDE DEF sent
  <2> DEFINE thread == [worker[w] EXCEPT !.job = 0, !.found = {}, !.events = sent]
  <2>4. worker' = [worker EXCEPT ![w] = thread]
    BY <2>1, <2>3
  <2>5. /\ thread \in ThreadState /\ thread.alive /\ thread.job = 0 /\ thread.found = {}
        /\ thread.events = sent /\ thread.inbox = worker[w].inbox
    BY <1>1, <2>2, <2>3 DEF ThreadState
  <2> HIDE DEF thread
  <2> QED
    BY <1>1, <1>5, <2>3, <2>4, <2>5, Parameters
<1> QED
  BY <1>4, <1>5

LEMMA ClaimStep == ASSUME IInv, NEW w \in Workers, Claim(w) PROVE IInv'
<1>0. Typed /\ QueueInOrder /\ EventsInOrder /\ PoolSound /\ ResolvedExact
  BY DEF IInv
<1>a. UNCHANGED mainVars /\ counter \in Nat /\ counter' = counter + 1 /\ counter' \in Nat
  BY <1>0 DEF Claim, Typed
<1>b. /\ worker' \in [Workers -> ThreadState]
      /\ \A v \in Workers \ {w} : worker'[v] = worker[v]
      /\ worker[w].alive /\ worker[w].job # 0 /\ worker'[w].alive
      /\ worker'[w].inbox = worker[w].inbox
  BY <1>0, Claimed
<1>c. counter < NumFacts =>
        /\ worker'[w].job = worker[w].job /\ worker'[w].events = worker[w].events
        /\ worker'[w].found = worker[w].found \cup ({counter} \cap Hits[worker[w].job])
  BY <1>0, Claimed
<1>d. ~ (counter < NumFacts) =>
        /\ worker'[w].job = 0 /\ worker'[w].found = {}
        /\ worker'[w].events = Append(worker[w].events, Message(worker[w].found))
  BY <1>0, Claimed
<1>e. /\ worker[w].events \in Seq(Event) /\ Message(worker[w].found) \in Event
      /\ Message(worker[w].found).kind = "message" /\ Message(worker[w].found).found = worker[w].found
  BY <1>0 DEF Typed, ThreadState, Message, Event
<1>1. Typed'
  BY <1>0, <1>a, <1>b DEF Typed, mainVars
<1>2. QueueInOrder'
  BY <1>0, <1>a DEF QueueInOrder, mainVars
<1>3. EventsInOrder'
  <2>1. CASE counter < NumFacts
    BY <2>1, <1>0, <1>b, <1>c DEF EventsInOrder, IsMessage
  <2>2. CASE ~ (counter < NumFacts)
    <3>1. worker[w].alive /\ \A i \in 1..Len(worker[w].events) : worker[w].events[i].kind = "message"
      BY <1>0, <1>b, <1>e, LenProperties DEF EventsInOrder, IsMessage
    <3>2. /\ Len(worker'[w].events) = Len(worker[w].events) + 1
          /\ DOMAIN worker'[w].events = 1..Len(worker'[w].events)
          /\ \A i \in 1..Len(worker[w].events) : worker'[w].events[i] = worker[w].events[i]
          /\ worker'[w].events[Len(worker[w].events) + 1] = Message(worker[w].found)
          /\ Len(worker[w].events) \in Nat
      BY <2>2, <1>d, <1>e, AppendProperties, LenProperties
    <3>3. \A i \in 1..Len(worker'[w].events) :
             i \in 1..Len(worker[w].events) \/ i = Len(worker[w].events) + 1
      BY <3>2
    <3>4. \A i \in 1..Len(worker'[w].events) : worker'[w].events[i].kind = "message"
      BY <3>1, <3>2, <3>3, <1>e
    <3> QED
      BY <2>2, <3>2, <3>4, <1>0, <1>b, <1>d DEF EventsInOrder, IsMessage
  <2> QED
    BY <2>1, <2>2
<1>4. PoolSound'
  <2>1. ASSUME NEW v \in Workers, Lost(v) PROVE Lost(v)'
    <3>1. v # w
      BY <2>1, <1>b DEF Lost
    <3> QED
      BY <2>1, <3>1, <1>a, <1>b, OthersKept
  <2>2. ASSUME SharedOut, current # 0 PROVE SharedOut'
    <3>1. Scanning(w)
      BY <2>2, <1>b DEF SharedOut, Replied, Asked, Scanning, Posted
    <3>2. \A v \in Workers \ {w} : (Replied(v) \/ Asked(v) \/ Scanning(v) \/ Posted(v))'
      BY <2>2, <1>a, <1>b, OthersKept DEF SharedOut
    <3>3. \A v \in Workers \ {w} : Held(v)' = Held(v)
      BY <1>a, <1>b, OthersKept
    <3>4. Held(w) = worker[w].found /\ current' = current /\ awaited' = awaited
      BY <3>1, <1>a DEF Scanning, Held, mainVars
    <3>5. CASE counter < NumFacts
      <4>1. Scanning(w)'
        BY <3>1, <3>4, <3>5, <1>b, <1>c DEF Scanning
      <4>2. Held(w)' = Held(w) \cup ({counter} \cap Hits[current])
        BY <3>1, <3>4, <3>5, <1>b, <1>c DEF Scanning, Held
      <4>3. counter \in Facts /\ \A v \in Workers : counter \notin Held(v)
        BY <2>2, <3>5, <1>a, Parameters DEF SharedOut, Facts
      <4>4. \A f \in Facts : (\E v \in Workers : f \in Held(v)') <=> (f < counter' /\ f \in Hits[current])
        <5> TAKE f \in Facts
        <5>1. (\E v \in Workers : f \in Held(v)') <=>
                (\E v \in Workers : f \in Held(v)) \/ (f = counter /\ f \in Hits[current])
          BY <4>2, <3>3
        <5>2. f < counter' <=> f < counter \/ f = counter
          BY <1>a, Parameters
        <5> QED
          BY <5>1, <5>2, <2>2 DEF SharedOut
      <4>5. \A u, v \in Workers : u # v => Held(u)' \cap Held(v)' = {}
        BY <4>2, <4>3, <3>3, <2>2 DEF SharedOut
      <4> QED
        BY <3>2, <3>4, <4>1, <4>4, <4>5 DEF SharedOut
    <3>6. CASE ~ (counter < NumFacts)
      <4>1. worker'[w].events = <<Message(worker[w].found)>>
        BY <3>1, <3>6, <1>d DEF Scanning
      <4>2. Posted(w)'
        BY <3>1, <3>4, <3>6, <4>1, <1>a, <1>b, <1>d, <1>e, Parameters DEF Scanning, Posted, IsMessage
      <4>3. Held(w)' = Held(w)
        BY <3>1, <3>4, <4>1, <1>e DEF Scanning, Held
      <4>4. \A f \in Facts : (f < counter' <=> f < counter)
        BY <3>6, <1>a, Parameters
      <4> QED
        BY <3>2, <3>3, <3>4, <4>2, <4>3, <4>4, <2>2 DEF SharedOut
    <3> QED
      BY <3>5, <3>6
  <2>3. ~ Resting(w)
    BY <1>b DEF Resting
  <2> QED
    BY <1>0, <1>a, <2>1, <2>2, <2>3 DEF PoolSound, mainVars, Typed
<1>5. ResolvedExact'
  BY <1>0, <1>a DEF ResolvedExact, mainVars
<1> QED
  BY <1>1, <1>2, <1>3, <1>4, <1>5 DEF IInv

LEMMA EndedThread ==
    ASSUME NEW inbox \in Seq(1..Calls), NEW events \in Seq(Event)
    PROVE  [alive |-> FALSE, job |-> 0, found |-> {}, inbox |-> inbox, events |-> events] \in ThreadState
<1>1. 0 \in 0..Calls
  BY Parameters
<1> QED
  BY <1>1 DEF ThreadState

\* A thread that ends.
LEMMA EndStep ==
    ASSUME IInv, NEW w \in Workers, worker[w].alive,
           NEW last \in Seq({"error", "exit"}),
           worker' = [worker EXCEPT ![w] = Gone(w, last)],
           UNCHANGED <<mainVars, counter>>
    PROVE  IInv'
<1>0. Typed /\ QueueInOrder /\ EventsInOrder /\ PoolSound /\ ResolvedExact
  BY DEF IInv
<1>a. counter \in Nat /\ worker \in [Workers -> ThreadState] /\ worker[w].events \in Seq(Event)
  BY <1>0 DEF Typed, ThreadState
<1> DEFINE events == worker[w].events
           after == Gone(w, last).events
<1>b. /\ after \in Seq(Event)
      /\ Len(events) \in Nat /\ Len(last) \in Nat /\ Len(after) = Len(events) + Len(last)
      /\ \A i \in 1..Len(events) : after[i] = events[i]
      /\ \A i \in 1..Len(after) : i > Len(events) => after[i].kind # "message"
      /\ DOMAIN events = 1..Len(events) /\ DOMAIN after = 1..Len(after)
  BY <1>a, GoneEvents, LenProperties
<1>c. /\ \A v \in Workers \ {w} : worker'[v] = worker[v]
      /\ worker'[w] = [alive |-> FALSE, job |-> 0, found |-> {}, inbox |-> << >>, events |-> after]
  BY <1>a DEF Gone
<1> HIDE DEF after
<1>d. /\ ~ worker'[w].alive /\ worker'[w].job = 0 /\ worker'[w].found = {}
      /\ worker'[w].inbox = << >> /\ worker'[w].events = after
  BY <1>c
<1>1. Typed'
  <2>1. worker'[w] \in ThreadState
    <3>1. << >> \in Seq(1..Calls)
      BY EmptySeq
    <3> QED
      BY <1>b, <1>c, <3>1, EndedThread
  <2>2. worker' \in [Workers -> ThreadState]
    BY <1>a, <1>c, <2>1
  <2> QED
    BY <1>0, <2>2 DEF Typed, mainVars
<1>2. QueueInOrder'
  BY <1>0 DEF QueueInOrder, mainVars
<1>3. EventsInOrder'
  <2>1. \A i \in 1..Len(events) : events[i].kind = "message" => \A j \in 1..i : events[j].kind = "message"
    BY <1>0, <1>b DEF EventsInOrder, IsMessage
  <2>2. ASSUME NEW i \in 1..Len(after), after[i].kind = "message", NEW j \in 1..i
        PROVE  after[j].kind = "message"
    <3>1. i \in 1..Len(events) /\ j \in 1..Len(events)
      BY <2>2, <1>b
    <3> QED
      BY <2>1, <2>2, <3>1, <1>b
  <2>3. \A i \in DOMAIN worker'[w].events :
           worker'[w].events[i].kind = "message" => \A j \in 1..i : worker'[w].events[j].kind = "message"
    BY <2>2, <1>b, <1>d
  <2> QED
    BY <2>3, <1>0, <1>c, <1>d DEF EventsInOrder, IsMessage
<1>4. PoolSound'
  <2>1. ASSUME NEW v \in Workers, Lost(v) PROVE Lost(v)'
    <3>1. v # w
      BY <2>1 DEF Lost
    <3> QED
      BY <2>1, <3>1, <1>a, <1>c, OthersKept
  <2>2. ASSUME \A i \in DOMAIN events : events[i].kind # "message" PROVE Lost(w)'
    <3>1. \A i \in 1..Len(after) : i \in 1..Len(events) \/ i > Len(events)
      BY <1>b
    <3>2. \A i \in 1..Len(after) : after[i].kind # "message"
      BY <2>2, <3>1, <1>b
    <3>3. \A i \in DOMAIN worker'[w].events : worker'[w].events[i].kind # "message"
      BY <3>2, <1>b, <1>d
    <3> QED
      BY <3>3, <1>d DEF Lost, IsMessage
  <2>3. ASSUME SharedOut, current # 0, ~ Lost(w)' PROVE SharedOut'
    <3>1. events # << >>
      BY <2>2, <2>3
    <3>2. Replied(w) \/ Posted(w)
      BY <2>3, <3>1 DEF SharedOut, Asked, Scanning
    <3>3. Posted(w)
      BY <2>2, <2>3, <3>2 DEF Replied, IsMessage
    <3>4. 1 \in DOMAIN events /\ after[1] = events[1]
      BY <1>a, <1>b, <3>1, EmptySeq
    <3>5. \A i \in DOMAIN after : i > 1 => after[i].kind # "message"
      BY <1>b, <3>3 DEF Posted, IsMessage
    <3>6. after # << >>
      BY <3>4, <1>b
    <3>7. Posted(w)'
      BY <3>3, <3>4, <3>5, <3>6, <1>d DEF Posted, IsMessage, mainVars
    <3>8. Held(w)' = Held(w)
      BY <3>1, <3>4, <3>6, <1>d DEF Held, mainVars
    <3>9. \A v \in Workers \ {w} :
            /\ (Replied(v) \/ Asked(v) \/ Scanning(v) \/ Posted(v))'
            /\ Held(v)' = Held(v)
      BY <2>3, <1>a, <1>c, OthersKept DEF SharedOut
    <3> QED
      BY <3>7, <3>8, <3>9, <2>3 DEF SharedOut, mainVars
  <2>4. ASSUME SharedOut, current # 0, Lost(w)' PROVE w \in awaited' \/ SharedOut'
    <3>1. CASE w \notin awaited
      <4>1. Replied(w)
        BY <2>4, <3>1 DEF SharedOut, Asked, Scanning, Posted
      <4>2. Replied(w)'
        BY <4>1, <2>4, <1>d DEF Replied, Lost, mainVars
      <4>3. Held(w)' = Held(w)
        BY <3>1 DEF Held, mainVars
      <4>4. \A v \in Workers \ {w} :
              /\ (Replied(v) \/ Asked(v) \/ Scanning(v) \/ Posted(v))'
              /\ Held(v)' = Held(v)
        BY <2>4, <1>a, <1>c, OthersKept DEF SharedOut
      <4> QED
        BY <4>2, <4>3, <4>4, <2>4 DEF SharedOut, mainVars
    <3>2. CASE w \in awaited
      BY <3>2 DEF mainVars
    <3> QED
      BY <3>1, <3>2
  <2>5. Resting(w) => Lost(w)'
    BY <2>2 DEF Resting
  <2> QED
    BY <1>0, <2>1, <2>3, <2>4, <2>5 DEF PoolSound, mainVars, Typed
<1>5. ResolvedExact'
  BY <1>0 DEF ResolvedExact, mainVars
<1> QED
  BY <1>1, <1>2, <1>3, <1>4, <1>5 DEF IInv

LEMMA CrashStep == ASSUME IInv, NEW w \in Workers, Crash(w) PROVE IInv'
<1>1. <<"error", "exit">> \in Seq({"error", "exit"})
  OBVIOUS
<1> QED
  BY <1>1, EndStep DEF Crash

LEMMA TerminateStep == ASSUME IInv, NEW w \in Workers, Terminate(w) PROVE IInv'
<1>1. <<"exit">> \in Seq({"error", "exit"})
  OBVIOUS
<1> QED
  BY <1>1, EndStep DEF Terminate

-----------------------------------------------------------------------------
(* Steps of the main thread.                                               *)

LEMMA MatchStep == ASSUME IInv, Match PROVE IInv'
<1>0. Typed /\ QueueInOrder /\ EventsInOrder /\ PoolSound /\ ResolvedExact
  BY DEF IInv
<1>1. Typed'
  BY <1>0, Parameters DEF Match, Typed
<1>2. QueueInOrder'
  BY <1>0, Parameters DEF Match, Typed, QueueInOrder, Settled
<1>3. EventsInOrder'
  BY <1>0 DEF Match, EventsInOrder, IsMessage
<1>4. PoolSound'
  <2>1. SharedOut' = SharedOut
    BY DEF Match, SharedOut, Replied, Asked, Scanning, Posted, Held, IsMessage
  <2>2. \A w \in Workers : Lost(w)' = Lost(w) /\ Resting(w)' = Resting(w)
    BY DEF Match, Lost, Resting, IsMessage
  <2> QED
    BY <1>0, <2>1, <2>2 DEF Match, PoolSound, Typed
<1>5. ResolvedExact'
  BY <1>0, Parameters DEF Match, Typed, ResolvedExact
<1> QED
  BY <1>1, <1>2, <1>3, <1>4, <1>5 DEF IInv

\* A call whose pattern cannot match is answered in its turn.
LEMMA StartUnknown ==
    ASSUME IInv, NEW c \in 1..Calls, Start(c), c \in Unknown PROVE IInv'
<1>0. Typed /\ QueueInOrder /\ EventsInOrder /\ PoolSound /\ ResolvedExact
  BY DEF IInv
<1>a. /\ status[c] = "queued" /\ status' = [status EXCEPT ![c] = "resolved"]
      /\ UNCHANGED <<called, current, awaited, replies, result, counter, worker>>
  BY DEF Start
<1>1. Typed'
  BY <1>0, <1>a DEF Typed, Settled
<1>2. QueueInOrder'
  BY <1>0, <1>a DEF Typed, QueueInOrder, Settled
<1>3. EventsInOrder'
  BY <1>0, <1>a DEF EventsInOrder, IsMessage
<1>4. PoolSound'
  <2>1. SharedOut' = SharedOut
    BY <1>a DEF SharedOut, Replied, Asked, Scanning, Posted, Held, IsMessage
  <2>2. \A w \in Workers : Lost(w)' = Lost(w) /\ Resting(w)' = Resting(w)
    BY <1>a DEF Lost, Resting, IsMessage
  <2> QED
    BY <1>0, <1>a, <2>1, <2>2 DEF PoolSound, Typed
<1>5. ResolvedExact'
  <2>1. result[c] = NoMatches /\ Hits[c] = {}
    BY <1>0, <1>a, Parameters DEF QueueInOrder
  <2>2. UNION {result[c][w] : w \in Workers} = Hits[c]
    BY <2>1 DEF NoMatches
  <2>3. \A v, w \in Workers : v # w => result[c][v] \cap result[c][w] = {}
    BY <2>1 DEF NoMatches
  <2> QED
    BY <1>0, <1>a, <2>2, <2>3 DEF Typed, ResolvedExact
<1> QED
  BY <1>1, <1>2, <1>3, <1>4, <1>5 DEF IInv

\* The other calls are posted to every worker that lives.
LEMMA StartPosted ==
    ASSUME IInv, NEW c \in 1..Calls, Start(c), c \notin Unknown PROVE IInv'
<1>0. Typed /\ QueueInOrder /\ EventsInOrder /\ PoolSound /\ ResolvedExact
  BY DEF IInv
<1>a. /\ status[c] = "queued" /\ \A d \in 1..(c - 1) : status[d] \in Settled
      /\ status' = [status EXCEPT ![c] = "running"]
      /\ current' = c /\ awaited' = Workers /\ counter' = 0
      /\ worker' = [w \in Workers |->
                        IF worker[w].alive THEN [worker[w] EXCEPT !.inbox = Append(@, c)]
                                           ELSE worker[w]]
      /\ UNCHANGED <<called, replies, result>>
  BY DEF Start, Turn, Cursor
<1>b. current = 0
  <2> SUFFICES ASSUME current # 0 PROVE FALSE
    OBVIOUS
  <2>1. current \in 1..Calls /\ status[current] = "running"
    BY <1>0, Parameters DEF Typed, QueueInOrder
  <2>2. c # current /\ ~ (c < current)
    BY <1>0, <1>a, <2>1 DEF QueueInOrder, Settled
  <2>3. current \in 1..(c - 1)
    BY <2>1, <2>2
  <2> QED
    BY <1>a, <2>1, <2>3 DEF Settled
<1>c. /\ worker \in [Workers -> ThreadState]
      /\ \A w \in Workers : worker[w].inbox \in Seq(1..Calls)
  BY <1>0 DEF Typed, ThreadState
<1>d. \A w \in Workers :
        /\ worker'[w] \in ThreadState
        /\ worker'[w].alive = worker[w].alive /\ worker'[w].job = worker[w].job
        /\ worker'[w].found = worker[w].found /\ worker'[w].events = worker[w].events
        /\ worker[w].alive => worker'[w].inbox = Append(worker[w].inbox, c)
  <2> TAKE w \in Workers
  <2> DEFINE inbox == Append(worker[w].inbox, c)
  <2>1. inbox \in Seq(1..Calls)
    BY <1>c, AppendProperties
  <2>2. worker'[w] = IF worker[w].alive THEN [worker[w] EXCEPT !.inbox = inbox] ELSE worker[w]
    BY <1>a
  <2> HIDE DEF inbox
  <2>3. /\ worker'[w] \in ThreadState
        /\ worker'[w].alive = worker[w].alive /\ worker'[w].job = worker[w].job
        /\ worker'[w].found = worker[w].found /\ worker'[w].events = worker[w].events
        /\ worker[w].alive => worker'[w].inbox = inbox
    BY <1>c, <2>1, <2>2 DEF ThreadState
  <2> QED
    BY <2>3 DEF inbox
<1>1. Typed'
  <2>1. worker' \in [Workers -> ThreadState]
    BY <1>a, <1>d
  <2> QED
    BY <1>0, <1>a, <2>1 DEF Typed
<1>2. QueueInOrder'
  <2>1. \A d \in 1..Calls : d < c => d \in 1..(c - 1)
    OBVIOUS
  <2> QED
    BY <1>0, <1>a, <1>b, <2>1, Parameters DEF Typed, QueueInOrder, Settled
<1>3. EventsInOrder'
  BY <1>0, <1>d DEF EventsInOrder, IsMessage
<1>4. PoolSound'
  <2>1. ASSUME NEW w \in Workers, Lost(w) PROVE Lost(w)' /\ w \in awaited'
    BY <2>1, <1>a, <1>d DEF Lost, IsMessage
  <2>2. ASSUME \A w \in Workers : Resting(w) PROVE SharedOut'
    <3>1. \A w \in Workers : Asked(w)' /\ Held(w)' = {}
      <4> TAKE w \in Workers
      <4>1. worker[w].alive /\ worker[w].inbox = << >> /\ worker[w].events = << >>
            /\ worker[w].job = 0 /\ worker[w].found = {}
        BY <2>2, <1>0 DEF Resting, EventsInOrder
      <4>2. worker'[w].inbox = <<c>>
        BY <4>1, <1>d
      <4>3. Asked(w)'
        BY <4>1, <4>2, <1>a, <1>d DEF Asked
      <4>4. Held(w)' = {}
        BY <4>1, <1>a, <1>d DEF Held
      <4> QED
        BY <4>3, <4>4
    <3>2. \A f \in Facts : ~ (f < counter')
      BY <1>a, Parameters
    <3> QED
      BY <3>1, <3>2 DEF SharedOut
  <2> QED
    BY <1>0, <1>a, <1>b, <2>1, <2>2 DEF PoolSound
<1>5. ResolvedExact'
  BY <1>0, <1>a DEF Typed, ResolvedExact
<1> QED
  BY <1>1, <1>2, <1>3, <1>4, <1>5 DEF IInv

LEMMA StartStep == ASSUME IInv, NEW c \in 1..Calls, Start(c) PROVE IInv'
BY StartUnknown, StartPosted

\* matchOne after its await: the replies are those of the whole pool.
LEMMA CollectStep == ASSUME IInv, Collect PROVE IInv'
<1>0. Typed /\ QueueInOrder /\ EventsInOrder /\ PoolSound /\ ResolvedExact
  BY DEF IInv
<1>a. /\ current # 0 /\ current \in 1..Calls /\ awaited = {}
      /\ result' = [result EXCEPT ![current] = replies]
      /\ status' = [status EXCEPT ![current] = "resolved"]
      /\ current' = 0
      /\ UNCHANGED <<called, awaited, replies, counter, worker>>
  BY <1>0, Parameters DEF Collect, Typed
<1>b. SharedOut /\ \A w \in Workers : Replied(w) /\ Held(w) = replies[w]
  BY <1>0, <1>a DEF PoolSound, SharedOut, Asked, Scanning, Posted, Held
<1>1. Typed'
  BY <1>0, <1>a, Parameters DEF Typed, Settled
<1>2. QueueInOrder'
  BY <1>0, <1>a, Parameters DEF Typed, QueueInOrder, Settled
<1>3. EventsInOrder'
  BY <1>0, <1>a DEF EventsInOrder, IsMessage
<1>4. PoolSound'
  <2>1. ASSUME NEW w \in Workers, ~ Resting(w)' PROVE Lost(w)'
    <3>1. /\ worker[w].job = 0 /\ worker[w].inbox = << >> /\ worker[w].events \in Seq(Event)
          /\ \A i \in DOMAIN worker[w].events : ~ IsMessage(w, i)
      BY <1>0, <1>b DEF Replied, Typed, ThreadState
    <3>2. CASE worker[w].alive
      <4>1. DOMAIN worker[w].events = {}
        BY <3>1, <3>2, <1>0 DEF EventsInOrder
      <4>2. worker[w].events = << >>
        BY <3>1, <4>1, FrontTaken
      <4> QED
        BY <2>1, <3>1, <3>2, <4>2, <1>a DEF Resting
    <3>3. CASE ~ worker[w].alive
      BY <3>1, <3>3, <1>a DEF Lost, IsMessage
    <3> QED
      BY <3>2, <3>3
  <2> QED
    BY <1>a, <2>1 DEF PoolSound
<1>5. ResolvedExact'
  <2>1. counter >= NumFacts /\ counter \in Nat
    BY <1>0, <1>b, Parameters DEF Replied, Typed
  <2>2. \A f \in Facts : (\E w \in Workers : f \in replies[w]) <=> f \in Hits[current]
    BY <1>b, <2>1, Parameters DEF SharedOut
  <2>3. Hits[current] \subseteq Facts /\ \A w \in Workers : replies[w] \subseteq Facts
    BY <1>0, <1>a, Parameters DEF Typed
  <2>4. UNION {replies[w] : w \in Workers} = Hits[current]
    BY <2>2, <2>3
  <2>5. \A v, w \in Workers : v # w => replies[v] \cap replies[w] = {}
    BY <1>b DEF SharedOut
  <2>6. result'[current] = replies /\ \A c \in 1..Calls \ {current} : result'[c] = result[c] /\ status'[c] = status[c]
    BY <1>0, <1>a DEF Typed
  <2> QED
    BY <1>0, <1>a, <2>4, <2>5, <2>6 DEF ResolvedExact
<1> QED
  BY <1>1, <1>2, <1>3, <1>4, <1>5 DEF IInv

\* The front of a worker's events is taken.
LEMMA Delivered ==
    ASSUME Typed, EventsInOrder, NEW w \in Workers, Deliver(w)
    PROVE  /\ UNCHANGED <<called, result, counter>>
           /\ worker' \in [Workers -> ThreadState]
           /\ \A v \in Workers \ {w} : worker'[v] = worker[v]
           /\ worker'[w].alive = worker[w].alive /\ worker'[w].job = worker[w].job
           /\ worker'[w].found = worker[w].found /\ worker'[w].inbox = worker[w].inbox
           /\ \A i \in DOMAIN worker'[w].events :
                i + 1 \in DOMAIN worker[w].events /\ i + 1 > 1
                  /\ IsMessage(w, i)' = IsMessage(w, i + 1)
           /\ worker[w].events # << >> /\ 1 \in DOMAIN worker[w].events
           /\ worker[w].events[1] \in Event /\ Head(worker[w].events) = worker[w].events[1]
           /\ DOMAIN worker'[w].events \subseteq Nat \ {0}
<1>1. /\ worker \in [Workers -> ThreadState] /\ worker[w].events # << >>
      /\ worker[w].events \in Seq(Event)
  BY DEF Typed, ThreadState, Deliver
<1> DEFINE rest == Tail(worker[w].events)
           thread == [worker[w] EXCEPT !.events = rest]
<1>2. /\ rest \in Seq(Event) /\ Head(worker[w].events) = worker[w].events[1]
      /\ 1 \in DOMAIN worker[w].events /\ worker[w].events[1] \in Event
      /\ \A i \in DOMAIN rest : i + 1 \in DOMAIN worker[w].events /\ rest[i] = worker[w].events[i + 1]
  BY <1>1, FrontTaken
<1>3. DOMAIN rest = 1..Len(rest) /\ Len(rest) \in Nat
  BY <1>2, LenProperties
<1>4. worker' = [worker EXCEPT ![w] = thread] /\ UNCHANGED <<called, result, counter>>
  BY <1>1 DEF Deliver
<1> HIDE DEF rest
<1>5. /\ thread \in ThreadState /\ thread.events = rest
      /\ thread.alive = worker[w].alive /\ thread.job = worker[w].job
      /\ thread.found = worker[w].found /\ thread.inbox = worker[w].inbox
  BY <1>1, <1>2 DEF ThreadState
<1> HIDE DEF thread
<1>6. /\ worker' \in [Workers -> ThreadState] /\ worker'[w] = thread
      /\ \A v \in Workers \ {w} : worker'[v] = worker[v]
  BY <1>1, <1>4, <1>5
<1>7. \A i \in DOMAIN worker'[w].events :
        i + 1 \in DOMAIN worker[w].events /\ i + 1 > 1 /\ IsMessage(w, i)' = IsMessage(w, i + 1)
  BY <1>2, <1>3, <1>5, <1>6 DEF IsMessage
<1> QED
  BY <1>1, <1>2, <1>3, <1>4, <1>5, <1>6, <1>7

LEMMA DeliverStep == ASSUME IInv, NEW w \in Workers, Deliver(w) PROVE IInv'
<1>0. Typed /\ QueueInOrder /\ EventsInOrder /\ PoolSound /\ ResolvedExact
  BY DEF IInv
<1> DEFINE event == worker[w].events[1]
<1>a. /\ UNCHANGED <<called, result, counter>>
      /\ worker' \in [Workers -> ThreadState]
      /\ \A v \in Workers \ {w} : worker'[v] = worker[v]
      /\ worker'[w].alive = worker[w].alive /\ worker'[w].job = worker[w].job
      /\ worker'[w].found = worker[w].found /\ worker'[w].inbox = worker[w].inbox
      /\ worker[w].events # << >> /\ 1 \in DOMAIN worker[w].events
      /\ event \in Event /\ Head(worker[w].events) = event
  BY <1>0, Delivered
<1>b. \A i \in DOMAIN worker'[w].events :
        i \in Nat \ {0} /\ i + 1 \in DOMAIN worker[w].events /\ i + 1 > 1
          /\ IsMessage(w, i)' = IsMessage(w, i + 1)
  BY <1>0, Delivered
<1>c. event.found \in SUBSET Facts /\ event.kind \in {"message", "error", "exit"}
  BY <1>a DEF Event
<1>d. IsMessage(w, 1) <=> event.kind = "message"
  BY DEF IsMessage
<1>3. EventsInOrder'
  <2>1. ASSUME NEW i \in DOMAIN worker'[w].events, IsMessage(w, i)', NEW j \in 1..i PROVE IsMessage(w, j)'
    <3>1. i \in Nat \ {0} /\ IsMessage(w, i + 1) /\ i + 1 \in DOMAIN worker[w].events
      BY <2>1, <1>b
    <3>2. j + 1 \in 1..(i + 1)
      BY <3>1
    <3>3. IsMessage(w, j + 1)
      BY <3>1, <3>2, <1>0 DEF EventsInOrder
    <3>4. j \in DOMAIN worker'[w].events
      <4>1. worker'[w].events \in Seq(Event)
        BY <1>a DEF ThreadState
      <4>2. DOMAIN worker'[w].events = 1..Len(worker'[w].events) /\ Len(worker'[w].events) \in Nat
        BY <4>1, LenProperties
      <4> QED
        BY <2>1, <4>2
    <3> QED
      BY <3>3, <3>4, <1>b
  <2>2. \A i \in DOMAIN worker'[w].events : worker'[w].alive => IsMessage(w, i)'
    BY <1>0, <1>a, <1>b DEF EventsInOrder
  <2>3. worker'[w].job = 0 => worker'[w].found = {}
    BY <1>0, <1>a DEF EventsInOrder
  <2>4. \A v \in Workers \ {w} :
           (/\ worker[v].job = 0 => worker[v].found = {}
            /\ \A i \in DOMAIN worker[v].events :
                 /\ worker[v].alive => IsMessage(v, i)
                 /\ IsMessage(v, i) => \A j \in 1..i : IsMessage(v, j))'
    BY <1>0, <1>a DEF EventsInOrder, IsMessage
  <2> QED
    BY <2>1, <2>2, <2>3, <2>4 DEF EventsInOrder
<1>4. ASSUME NEW v \in Workers, v # w PROVE Lost(v)' = Lost(v)
  BY <1>4, <1>a DEF Lost, IsMessage
<1>5. Lost(w) => Lost(w)'
  BY <1>a, <1>b DEF Lost
<1>6. ~ Resting(w)
  BY <1>a DEF Resting
<1>7. CASE w \in awaited /\ event.kind = "message"
  <2>1. /\ replies' = [replies EXCEPT ![w] = event.found] /\ awaited' = awaited \ {w}
        /\ UNCHANGED <<status, current>>
    BY <1>7, <1>a DEF Deliver, Fatal
  <2>2. ~ Lost(w) /\ current # 0
    BY <1>0, <1>7, <1>a, <1>d DEF Lost, QueueInOrder
  <2>3. Typed'
    BY <1>0, <1>a, <1>c, <2>1 DEF Typed
  <2>4. QueueInOrder'
    BY <1>0, <1>a, <2>1, <2>2 DEF QueueInOrder
  <2>5. ASSUME SharedOut PROVE SharedOut'
    <3>1. Posted(w)
      BY <2>5, <1>7, <1>a DEF SharedOut, Replied, Asked, Scanning
    <3>2. Replied(w)'
      BY <3>1, <2>1, <1>a, <1>b DEF Posted, Replied
    <3>3. Held(w)' = Held(w)
      BY <1>0, <1>7, <1>a, <2>1 DEF Held, Typed
    <3>4. \A v \in Workers \ {w} : Held(v)' = Held(v)
      BY <1>0, <1>a, <2>1 DEF Held, Typed
    <3>5. \A v \in Workers \ {w} : (Replied(v) \/ Asked(v) \/ Scanning(v) \/ Posted(v))'
      BY <2>5, <1>a, <2>1 DEF SharedOut, Replied, Asked, Scanning, Posted, IsMessage
    <3> QED
      BY <2>5, <3>2, <3>3, <3>4, <3>5, <1>a, <2>1 DEF SharedOut
  <2>6. PoolSound'
    <3>1. ASSUME NEW v \in awaited, Lost(v) PROVE v \in awaited' /\ Lost(v)'
      <4>1. v # w /\ v \in Workers
        BY <1>0, <2>2, <3>1 DEF Typed
      <4> QED
        BY <1>4, <2>1, <3>1, <4>1
    <3> QED
      BY <1>0, <2>1, <2>2, <2>5, <3>1 DEF PoolSound
  <2>7. ResolvedExact'
    BY <1>0, <1>a, <2>1 DEF ResolvedExact
  <2> QED
    BY <1>3, <2>3, <2>4, <2>6, <2>7 DEF IInv
<1>8. CASE w \in awaited /\ event.kind # "message"
  <2>1. /\ status' = [status EXCEPT ![current] = "failed"] /\ current' = 0 /\ awaited' = {}
        /\ UNCHANGED replies
    BY <1>8, <1>a, <1>c DEF Deliver, Fatal
  <2>2. current # 0 /\ current \in 1..Calls
    BY <1>0, <1>8, Parameters DEF QueueInOrder, Typed
  <2>3. Lost(w)
    <3>1. ~ worker[w].alive
      BY <1>0, <1>8, <1>a, <1>d DEF EventsInOrder
    <3>2. \A i \in DOMAIN worker[w].events : 1 \in 1..i
      <4>1. worker[w].events \in Seq(Event)
        BY <1>0 DEF Typed, ThreadState
      <4>2. DOMAIN worker[w].events = 1..Len(worker[w].events) /\ Len(worker[w].events) \in Nat
        BY <4>1, LenProperties
      <4> QED
        BY <4>2
    <3>3. \A i \in DOMAIN worker[w].events : ~ IsMessage(w, i)
      BY <1>0, <1>8, <1>d, <3>2 DEF EventsInOrder
    <3> QED
      BY <3>1, <3>3 DEF Lost
  <2>4. Typed'
    BY <1>0, <1>a, <2>1, <2>2, Parameters DEF Typed, Settled
  <2>5. QueueInOrder'
    <3>1. status[current] = "running"
      BY <1>0, <2>2 DEF QueueInOrder
    <3>2. \A c \in 1..Calls : c # current => status'[c] = status[c]
      BY <1>0, <2>1 DEF Typed
    <3>3. status'[current] = "failed" /\ result' = result /\ called' = called
      BY <1>0, <1>a, <2>1, <2>2 DEF Typed
    <3>4. \A c \in 1..Calls : c # 0 /\ ~ (c < current')
      BY <2>1
    <3> QED
      BY <1>0, <2>1, <2>2, <3>1, <3>2, <3>3, <3>4 DEF QueueInOrder
  <2>6. PoolSound'
    BY <1>5, <2>1, <2>3 DEF PoolSound
  <2>7. ResolvedExact'
    BY <1>0, <1>a, <2>1, <2>2 DEF Typed, ResolvedExact
  <2> QED
    BY <1>3, <2>4, <2>5, <2>6, <2>7 DEF IInv
<1>9. CASE w \notin awaited
  <2>1. UNCHANGED <<status, current, awaited, replies>>
    BY <1>9 DEF Deliver
  <2>2. Typed'
    BY <1>0, <1>a, <2>1 DEF Typed
  <2>3. QueueInOrder'
    BY <1>0, <1>a, <2>1 DEF QueueInOrder
  <2>4. ASSUME SharedOut PROVE SharedOut'
    <3>1. Replied(w)
      BY <2>4, <1>9 DEF SharedOut, Asked, Scanning, Posted
    <3>2. Replied(w)'
      BY <3>1, <2>1, <1>a, <1>b DEF Replied
    <3>3. \A v \in Workers : Held(v)' = Held(v)
      BY <1>9, <1>a, <2>1 DEF Held
    <3>4. \A v \in Workers \ {w} : (Replied(v) \/ Asked(v) \/ Scanning(v) \/ Posted(v))'
      BY <2>4, <1>a, <2>1 DEF SharedOut, Replied, Asked, Scanning, Posted, IsMessage
    <3> QED
      BY <2>4, <3>2, <3>3, <3>4, <1>a, <2>1 DEF SharedOut
  <2>5. PoolSound'
    <3>1. \A v \in Workers : Lost(v) => Lost(v)'
      BY <1>4, <1>5
    <3>2. awaited \subseteq Workers
      BY <1>0 DEF Typed
    <3> QED
      BY <1>0, <1>6, <2>1, <2>4, <3>1, <3>2 DEF PoolSound
  <2>6. ResolvedExact'
    BY <1>0, <1>a, <2>1 DEF ResolvedExact
  <2> QED
    BY <1>3, <2>2, <2>3, <2>5, <2>6 DEF IInv
<1> QED
  BY <1>7, <1>8, <1>9

-----------------------------------------------------------------------------

LEMMA StepIInv == IInv /\ [Next]_vars => IInv'
<1> SUFFICES ASSUME IInv, [Next]_vars PROVE IInv'
  OBVIOUS
<1>1. CASE Next
  <2>1. CASE Match
    BY <2>1, MatchStep
  <2>2. CASE Main
    BY <2>2, StartStep, DeliverStep, CollectStep DEF Main
  <2>3. ASSUME NEW w \in Workers, Thread(w) \/ Crash(w) \/ Terminate(w) PROVE IInv'
    BY <2>3, ReceiveStep, ClaimStep, CrashStep, TerminateStep DEF Thread
  <2> QED
    BY <1>1, <2>1, <2>2, <2>3 DEF Next
<1>2. CASE UNCHANGED vars
  <2>1. SharedOut' = SharedOut
    BY <1>2 DEF vars, SharedOut, Replied, Asked, Scanning, Posted, Held, IsMessage
  <2>2. PoolSound'
    BY <1>2, <2>1 DEF IInv, vars, PoolSound, Lost, Resting, IsMessage
  <2>3. Typed' /\ QueueInOrder' /\ ResolvedExact'
    BY <1>2 DEF IInv, vars, Typed, QueueInOrder, ResolvedExact
  <2>4. EventsInOrder'
    BY <1>2 DEF IInv, vars, EventsInOrder, IsMessage
  <2> QED
    BY <2>2, <2>3, <2>4 DEF IInv
<1> QED
  BY <1>1, <1>2

\* The inductive invariant holds in every reachable state.
THEOREM Invariant == Spec => []IInv
BY InitIInv, StepIInv, PTL DEF Spec

\* The calls on one pool stay apart: while every worker lives no worker scans and no reply
\* is under way for another call than the current one, and a match that resolves,
\* behind whatever crashed or closed, has every fact its pattern matches once.
THEOREM MatchesExact == Spec => []CallsApart
<1>1. IInv => CallsApart
  <2> SUFFICES ASSUME IInv PROVE CallsApart
    OBVIOUS
  <2>0. Typed /\ QueueInOrder /\ EventsInOrder /\ PoolSound /\ ResolvedExact
    BY DEF IInv
  <2>1. ASSUME Dead = {} PROVE OneCallAtATime
    <3>1. \A w \in Workers : worker[w].alive /\ ~ Lost(w)
      BY <2>1 DEF Dead, Lost
    <3>2. ASSUME NEW w \in Workers
          PROVE  /\ worker[w].job \in {0, current}
                 /\ \A i \in DOMAIN worker[w].inbox : worker[w].inbox[i] = current
                 /\ worker[w].events # << >> => w \in awaited
      <4>1. CASE current = 0
        <5>1. Resting(w)
          BY <2>0, <3>1, <4>1 DEF PoolSound
        <5> QED
          BY <5>1 DEF Resting
      <4>2. CASE current # 0
        <5>1. Replied(w) \/ Asked(w) \/ Scanning(w) \/ Posted(w)
          BY <2>0, <3>1, <4>2 DEF PoolSound, SharedOut, Typed
        <5>2. CASE Replied(w)
          <6>1. DOMAIN worker[w].events = {}
            BY <2>0, <3>1, <5>2 DEF Replied, EventsInOrder
          <6>2. worker[w].events \in Seq(Event)
            BY <2>0 DEF Typed, ThreadState
          <6>3. worker[w].events = << >>
            BY <6>1, <6>2, FrontTaken
          <6> QED
            BY <5>2, <6>3 DEF Replied
        <5>3. CASE Asked(w)
          BY <5>3 DEF Asked
        <5>4. CASE Scanning(w)
          BY <5>4 DEF Scanning
        <5>5. CASE Posted(w)
          BY <5>5 DEF Posted
        <5> QED
          BY <5>1, <5>2, <5>3, <5>4, <5>5
      <4> QED
        BY <4>1, <4>2
    <3>3. \A c \in 1..Calls : status[c] = "running" <=> c = current
      BY <2>0 DEF QueueInOrder
    <3> QED
      BY <3>2, <3>3 DEF OneCallAtATime
  <2>2. OneCallAtATime
    BY <2>1 DEF OneCallAtATime
  <2> QED
    BY <2>0, <2>2 DEF CallsApart
<1> QED
  BY Invariant, <1>1, PTL

-----------------------------------------------------------------------------
(* How far the cursor overruns the facts.                                  *)

Waiting == {"new", "queued"}

\* The messages a thread has yet to leave its loop for.
Owed(w) ==
    IF worker[w].job = 0 THEN Len(worker[w].inbox) ELSE Len(worker[w].inbox) + 1
Exits == {e \in Workers \X (1..Calls) : e[2] <= Owed(e[1])}
Limit == Calls * Cardinality(Workers)

\* Calls start in order, and a thread owes no more than the calls that started, each of
\* which may cost one more turn of the cursor.
CursorSound ==
    /\ \A c, d \in 1..Calls : c < d /\ status[d] \notin Waiting => status[c] \in Settled
    /\ \A k \in 0..Calls :
         (\A c \in 1..Calls : c > k => status[c] \in Waiting) => \A w \in Workers : Owed(w) <= k
    /\ counter + Cardinality(Exits) <= NumFacts + Limit

\* Threads of any kind owe a number, and all together no more than the limit.
LEMMA OwedNumbers ==
    /\ Typed => \A w \in Workers : Owed(w) \in Nat
    /\ Typed' => \A w \in Workers : Owed(w)' \in Nat
<1>1. ASSUME NEW thread \in ThreadState PROVE Len(thread.inbox) \in Nat
  BY LenProperties DEF ThreadState
<1>2. Typed => \A w \in Workers : Owed(w) \in Nat
  BY <1>1 DEF Typed, Owed
<1>3. Typed' => \A w \in Workers : Owed(w)' \in Nat
  BY <1>1 DEF Typed, Owed
<1> QED
  BY <1>2, <1>3

LEMMA ExitsCounted ==
    ASSUME NEW E \in SUBSET (Workers \X (1..Calls))
    PROVE  IsFiniteSet(E) /\ Cardinality(E) \in Nat /\ Cardinality(E) <= Limit /\ Limit \in Nat
<1>1. IsFiniteSet(Workers) /\ Calls \in Nat
  BY MatcherAssumption
<1>2. IsFiniteSet(1..Calls) /\ Cardinality(1..Calls) = Calls
  BY <1>1, FS_Interval
<1>3. IsFiniteSet(Workers \X (1..Calls))
      /\ Cardinality(Workers \X (1..Calls)) = Cardinality(Workers) * Cardinality(1..Calls)
  BY <1>1, <1>2, FS_Product
<1>4. Cardinality(Workers) \in Nat
  BY <1>1, FS_CardinalityType
<1>5. Cardinality(Workers \X (1..Calls)) = Limit /\ Limit \in Nat
  BY <1>1, <1>2, <1>3, <1>4 DEF Limit
<1>6. IsFiniteSet(E) /\ Cardinality(E) <= Cardinality(Workers \X (1..Calls))
  BY <1>3, FS_Subset
<1>7. Cardinality(E) \in Nat
  BY <1>6, FS_CardinalityType
<1> QED
  BY <1>5, <1>6, <1>7

LEMMA InitCursor == Init => CursorSound
<1> SUFFICES ASSUME Init PROVE CursorSound
  OBVIOUS
<1>1. \A w \in Workers : Owed(w) = 0
  BY DEF Init, Owed
<1>2. Exits \in SUBSET (Workers \X (1..Calls)) /\ counter = 0 /\ NumFacts \in Nat
  BY MatcherAssumption DEF Exits, Init
<1>3. counter + Cardinality(Exits) <= NumFacts + Limit
  BY <1>2, ExitsCounted
<1>4. \A c, d \in 1..Calls : c < d /\ status[d] \notin Waiting => status[c] \in Settled
  BY DEF Init, Waiting
<1>5. \A k \in 0..Calls :
        (\A c \in 1..Calls : c > k => status[c] \in Waiting) => \A w \in Workers : Owed(w) <= k
  BY <1>1
<1> QED
  BY <1>3, <1>4, <1>5 DEF CursorSound

\* Promises move on, and a call leaves its place behind others in its turn.
Onward ==
    \A c \in 1..Calls :
        /\ status'[c] \in Waiting => status[c] \in Waiting
        /\ status[c] \in Settled => status'[c] \in Settled
        /\ status[c] \in Waiting /\ status'[c] \notin Waiting => Turn(c)

LEMMA InTurn ==
    ASSUME CursorSound, Onward
    PROVE  \A c, d \in 1..Calls : c < d /\ status'[d] \notin Waiting => status'[c] \in Settled
<1> SUFFICES ASSUME NEW c \in 1..Calls, NEW d \in 1..Calls, c < d, status'[d] \notin Waiting
             PROVE  status'[c] \in Settled
  OBVIOUS
<1>1. CASE status[d] \in Waiting
  <2>1. c \in 1..(d - 1) /\ Turn(d)
    BY <1>1 DEF Onward
  <2> QED
    BY <2>1 DEF Onward, Turn
<1>2. CASE status[d] \notin Waiting
  BY <1>2 DEF CursorSound, Onward
<1> QED
  BY <1>1, <1>2

\* A step that moves no cursor and posts no call.
LEMMA QuietStep ==
    ASSUME CursorSound, Onward, Typed, Typed', counter' = counter,
           \A w \in Workers : Owed(w)' <= Owed(w)
    PROVE  CursorSound'
<1>0. counter \in Nat /\ NumFacts \in Nat /\ Calls \in Nat
  BY MatcherAssumption DEF Typed
<1>1. \A w \in Workers : Owed(w) \in Nat /\ Owed(w)' \in Nat
  BY OwedNumbers
<1>2. Exits' \in SUBSET Exits
  BY <1>1 DEF Exits
<1>3. Exits \in SUBSET (Workers \X (1..Calls))
  BY DEF Exits
<1>4. IsFiniteSet(Exits) /\ Cardinality(Exits) \in Nat /\ Limit \in Nat
  BY <1>3, ExitsCounted
<1>5. Exits' \in SUBSET (Workers \X (1..Calls))
  BY <1>2, <1>3
<1>6. Cardinality(Exits') \in Nat
  BY <1>5, ExitsCounted
<1>7. Cardinality(Exits') <= Cardinality(Exits)
  BY <1>2, <1>4, FS_Subset
<1>8. counter' + Cardinality(Exits') <= NumFacts + Limit
  BY <1>0, <1>4, <1>6, <1>7 DEF CursorSound
<1>9. ASSUME NEW k \in 0..Calls, \A c \in 1..Calls : c > k => status'[c] \in Waiting,
             NEW w \in Workers
      PROVE  Owed(w)' <= k
  <2>1. \A c \in 1..Calls : c > k => status[c] \in Waiting
    BY <1>9 DEF Onward
  <2>2. Owed(w) <= k
    BY <2>1 DEF CursorSound
  <2> QED
    BY <1>1, <2>2
<1>10. Limit' = Limit
  BY DEF Limit
<1> QED
  BY <1>8, <1>9, <1>10, InTurn DEF CursorSound

\* A step of a thread keeps every promise.
LEMMA PromisesKept == ASSUME UNCHANGED status PROVE Onward
BY DEF Onward, Waiting

\* A turn past the last fact settles one message.
LEMMA ClaimCursor ==
    ASSUME IInv, Typed', CursorSound, NEW w \in Workers, Claim(w) PROVE CursorSound'
<1>0. /\ Typed /\ counter \in Nat /\ NumFacts \in Nat /\ Calls \in Nat
      /\ counter' = counter + 1 /\ UNCHANGED status
  BY MatcherAssumption DEF IInv, Typed, Claim, mainVars
<1>1. \A v \in Workers : Owed(v) \in Nat /\ Owed(v)' \in Nat
  BY <1>0, OwedNumbers
<1>2. /\ \A v \in Workers \ {w} : worker'[v] = worker[v]
      /\ worker[w].job # 0 /\ worker'[w].inbox = worker[w].inbox
      /\ counter < NumFacts => worker'[w].job = worker[w].job
      /\ ~ (counter < NumFacts) => worker'[w].job = 0
  BY <1>0, Claimed
<1>3. \A v \in Workers \ {w} : Owed(v)' = Owed(v)
  BY <1>2 DEF Owed
<1>4. Owed(w)' = IF counter < NumFacts THEN Owed(w) ELSE Owed(w) - 1
  <2>1. Len(worker[w].inbox) \in Nat
    BY <1>0, LenProperties DEF Typed, ThreadState
  <2> QED
    BY <1>2, <2>1 DEF Owed
<1>5. Exits \in SUBSET (Workers \X (1..Calls)) /\ Exits' \in SUBSET (Workers \X (1..Calls))
  BY DEF Exits
<1>6. IsFiniteSet(Exits) /\ Cardinality(Exits) \in Nat /\ Limit \in Nat
  BY <1>5, ExitsCounted
<1>7. Cardinality(Exits') \in Nat /\ Cardinality(Exits') <= Limit
  BY <1>5, ExitsCounted
<1>8. counter' + Cardinality(Exits') <= NumFacts + Limit
  <2>1. CASE counter < NumFacts
    BY <1>0, <1>6, <1>7, <2>1
  <2>2. CASE ~ (counter < NumFacts)
    <3>1. Owed(w) <= Calls
      BY <1>0 DEF CursorSound
    <3>2. Owed(w) >= 1
      BY <1>1, <1>4, <2>2
    <3> DEFINE turn == <<w, Owed(w)>>
    <3>3. turn \in Exits
      BY <1>0, <1>1, <3>1, <3>2 DEF Exits
    <3>4. Exits' = Exits \ {turn}
      BY <1>0, <1>1, <1>3, <1>4, <2>2 DEF Exits
    <3> HIDE DEF turn
    <3>5. Cardinality(Exits \ {turn}) = Cardinality(Exits) - 1
      BY <1>6, <3>3, FS_RemoveElement
    <3> QED
      BY <1>0, <1>6, <3>4, <3>5 DEF CursorSound
  <2> QED
    BY <2>1, <2>2
<1>9. \A v \in Workers : Owed(v)' <= Owed(v)
  BY <1>1, <1>3, <1>4
<1>10. ASSUME NEW k \in 0..Calls, \A c \in 1..Calls : c > k => status'[c] \in Waiting,
              NEW v \in Workers
       PROVE  Owed(v)' <= k
  <2>1. Owed(v) <= k
    BY <1>0, <1>10 DEF CursorSound
  <2> QED
    BY <1>1, <1>9, <2>1
<1>11. Limit' = Limit
  BY DEF Limit
<1>12. \A c, d \in 1..Calls : c < d /\ status'[d] \notin Waiting => status'[c] \in Settled
  BY <1>0, PromisesKept, InTurn
<1> QED
  BY <1>8, <1>10, <1>11, <1>12 DEF CursorSound

\* A call that starts takes the cursor back, and every thread owes one message more.
LEMMA StartCursor ==
    ASSUME IInv, Typed', CursorSound, NEW c \in 1..Calls, Start(c) PROVE CursorSound'
<1>0. Typed /\ NumFacts \in Nat /\ Calls \in Nat
  BY MatcherAssumption DEF IInv
<1>1. status[c] = "queued" /\ Turn(c)
  BY DEF Start
<1>2. Onward
  <2>1. /\ status' = [status EXCEPT ![c] = IF c \in Unknown THEN "resolved" ELSE "running"]
    BY DEF Start
  <2>2. \A d \in 1..Calls \ {c} : status'[d] = status[d]
    BY <1>0, <2>1 DEF Typed
  <2>3. status'[c] \notin Waiting /\ status[c] \in Waiting /\ status[c] \notin Settled
    BY <1>0, <1>1, <2>1 DEF Typed, Waiting, Settled
  <2> QED
    BY <1>1, <2>2, <2>3 DEF Onward
<1>3. CASE c \in Unknown
  <2>1. UNCHANGED <<counter, worker>>
    BY <1>3 DEF Start
  <2>2. \A w \in Workers : Owed(w)' <= Owed(w)
    BY <1>0, <2>1, OwedNumbers DEF Owed
  <2> QED
    BY <1>0, <1>2, <2>1, <2>2, QuietStep
<1>4. CASE c \notin Unknown
  <2>1. /\ counter' = 0 /\ status'[c] = "running"
        /\ worker' = [w \in Workers |->
                        IF worker[w].alive THEN [worker[w] EXCEPT !.inbox = Append(@, c)]
                                           ELSE worker[w]]
    BY <1>0, <1>4 DEF Start, Cursor, Typed
  <2>2. ASSUME NEW w \in Workers PROVE Owed(w)' <= Owed(w) + 1
    <3>1. worker[w] \in ThreadState /\ worker[w].inbox \in Seq(1..Calls)
      BY <1>0 DEF Typed, ThreadState
    <3>2. Len(Append(worker[w].inbox, c)) = Len(worker[w].inbox) + 1 /\ Len(worker[w].inbox) \in Nat
      BY <3>1, AppendProperties, LenProperties
    <3>3. worker'[w].job = worker[w].job /\ Len(worker'[w].inbox) <= Len(worker[w].inbox) + 1
          /\ Len(worker'[w].inbox) \in Nat
      <4>1. CASE worker[w].alive
        <5>1. worker'[w] = [worker[w] EXCEPT !.inbox = Append(worker[w].inbox, c)]
          BY <2>1, <4>1
        <5>2. worker'[w].job = worker[w].job /\ worker'[w].inbox = Append(worker[w].inbox, c)
          BY <3>1, <5>1 DEF ThreadState
        <5> QED
          BY <3>2, <5>2
      <4>2. CASE ~ worker[w].alive
        <5>1. worker'[w] = worker[w]
          BY <2>1, <4>2
        <5> QED
          BY <3>2, <5>1
      <4> QED
        BY <4>1, <4>2
    <3> QED
      BY <3>2, <3>3 DEF Owed
  <2>3. ASSUME NEW k \in 0..Calls, \A d \in 1..Calls : d > k => status'[d] \in Waiting,
               NEW w \in Workers
        PROVE  Owed(w)' <= k
    <3>1. c <= k
      BY <2>1, <2>3 DEF Waiting
    <3>2. c - 1 \in 0..Calls /\ \A d \in 1..Calls : d > c - 1 => status[d] \in Waiting
      <4>1. ASSUME NEW d \in 1..Calls, d > c - 1, status[d] \notin Waiting PROVE FALSE
        <5>1. CASE d = c
          BY <1>1, <4>1, <5>1 DEF Waiting
        <5>2. CASE c < d
          BY <1>1, <4>1, <5>2 DEF CursorSound, Settled
        <5> QED
          BY <4>1, <5>1, <5>2
      <4> QED
        BY <1>0, <4>1
    <3>3. Owed(w) <= c - 1
      BY <3>2 DEF CursorSound
    <3>4. Owed(w) \in Nat /\ Owed(w)' \in Nat
      BY <1>0, OwedNumbers
    <3> QED
      BY <2>2, <3>1, <3>3, <3>4
  <2>4. Exits' \in SUBSET (Workers \X (1..Calls))
    BY DEF Exits
  <2>5. Cardinality(Exits') \in Nat /\ Cardinality(Exits') <= Limit /\ Limit \in Nat
    BY <2>4, ExitsCounted
  <2>6. counter' + Cardinality(Exits') <= NumFacts + Limit /\ Limit' = Limit
    BY <1>0, <2>1, <2>5 DEF Limit
  <2>7. \A b, d \in 1..Calls : b < d /\ status'[d] \notin Waiting => status'[b] \in Settled
    BY <1>2, InTurn
  <2> QED
    BY <2>3, <2>6, <2>7 DEF CursorSound
<1> QED
  BY <1>3, <1>4

\* A thread that takes a message owes as much as before, one that ends owes nothing.
LEMMA ThreadCursor ==
    ASSUME IInv, Typed', CursorSound, NEW w \in Workers, Receive(w) \/ Crash(w) \/ Terminate(w)
    PROVE  CursorSound'
<1>0. Typed /\ worker[w] \in ThreadState /\ UNCHANGED <<status, counter>>
  BY DEF IInv, Typed, Receive, Crash, Terminate, mainVars
<1>1. \A v \in Workers : Owed(v) \in Nat /\ Owed(v)' \in Nat
  BY <1>0, OwedNumbers
<1>2. CASE Receive(w)
  <2>1. worker[w].inbox \in Seq(1..Calls) /\ worker[w].inbox # << >> /\ worker[w].job = 0
    BY <1>0, <1>2 DEF ThreadState, Receive
  <2>2. Len(Tail(worker[w].inbox)) = Len(worker[w].inbox) - 1 /\ Len(worker[w].inbox) \in Nat
        /\ Head(worker[w].inbox) \in 1..Calls
    BY <2>1, FrontTaken, LenProperties
  <2>3. worker' = [worker EXCEPT ![w] = [worker[w] EXCEPT !.job = Head(worker[w].inbox),
                                          !.inbox = Tail(worker[w].inbox), !.found = {}]]
    BY <1>0, <1>2 DEF Receive, Typed
  <2>4. worker'[w].inbox = Tail(worker[w].inbox) /\ worker'[w].job = Head(worker[w].inbox)
    BY <1>0, <2>3 DEF Typed, ThreadState
  <2>5. Owed(w)' = Owed(w)
    BY <2>1, <2>2, <2>4 DEF Owed
  <2>6. \A v \in Workers \ {w} : Owed(v)' = Owed(v)
    BY <1>0, <2>3 DEF Owed, Typed
  <2>7. \A v \in Workers : Owed(v)' <= Owed(v)
    BY <1>1, <2>5, <2>6
  <2> QED
    BY <1>0, <2>7, PromisesKept, QuietStep
<1>3. CASE Crash(w) \/ Terminate(w)
  <2>1. PICK last : worker' = [worker EXCEPT ![w] = Gone(w, last)]
    BY <1>3 DEF Crash, Terminate
  <2>2. worker'[w].inbox = << >> /\ worker'[w].job = 0
    BY <1>0, <2>1 DEF Typed, Gone
  <2>3. Owed(w)' = 0
    BY <2>2 DEF Owed
  <2>4. \A v \in Workers \ {w} : Owed(v)' = Owed(v)
    BY <1>0, <2>1 DEF Owed, Typed
  <2>5. \A v \in Workers : Owed(v)' <= Owed(v)
    BY <1>1, <2>3, <2>4
  <2> QED
    BY <1>0, <2>5, PromisesKept, QuietStep
<1> QED
  BY <1>2, <1>3

\* The steps of the main thread but the start of a call.
LEMMA MainCursor ==
    ASSUME IInv, Typed', CursorSound, Match \/ Collect \/ \E w \in Workers : Deliver(w)
    PROVE  CursorSound'
<1>0. Typed /\ QueueInOrder /\ EventsInOrder
  BY DEF IInv
<1>1. counter' = counter /\ \A w \in Workers : Owed(w)' = Owed(w)
  <2>1. CASE Match \/ Collect
    BY <2>1 DEF Match, Collect, Owed
  <2>2. ASSUME NEW w \in Workers, Deliver(w)
        PROVE  counter' = counter /\ \A v \in Workers : Owed(v)' = Owed(v)
    BY <1>0, <2>2, Delivered DEF Owed
  <2> QED
    BY <2>1, <2>2
<1>2. current # 0 => current \in 1..Calls /\ status[current] = "running"
  BY <1>0 DEF Typed, QueueInOrder
<1>3. Onward
  <2>1. CASE Match
    <3>1. called + 1 \in 1..Calls /\ status[called + 1] = "new"
      BY <1>0, <2>1, MatcherAssumption DEF Match, Typed, QueueInOrder
    <3>2. status'[called + 1] = "queued" /\ \A c \in 1..Calls \ {called + 1} : status'[c] = status[c]
      BY <1>0, <2>1, <3>1 DEF Match, Typed
    <3> QED
      BY <3>1, <3>2 DEF Onward, Waiting, Settled
  <2>2. CASE UNCHANGED status
    BY <2>2, PromisesKept
  <2>3. ASSUME current # 0, NEW end \in Settled, status' = [status EXCEPT ![current] = end]
        PROVE  Onward
    <3>1. status'[current] = end /\ \A c \in 1..Calls \ {current} : status'[c] = status[c]
      BY <1>0, <1>2, <2>3 DEF Typed
    <3> QED
      BY <1>2, <2>3, <3>1 DEF Onward, Waiting, Settled
  <2>4. CASE Collect
    BY <2>3, <2>4 DEF Collect, Settled
  <2>5. ASSUME NEW w \in Workers, Deliver(w), ~ UNCHANGED status
        PROVE  current # 0 /\ status' = [status EXCEPT ![current] = "failed"]
    <3>1. w \in awaited /\ status' = [status EXCEPT ![current] = "failed"]
      BY <2>5 DEF Deliver
    <3> QED
      BY <1>0, <3>1 DEF QueueInOrder
  <2> QED
    BY <2>1, <2>2, <2>3, <2>4, <2>5 DEF Settled
<1>4. \A w \in Workers : Owed(w)' <= Owed(w)
  BY <1>0, <1>1, OwedNumbers
<1> QED
  BY <1>0, <1>1, <1>3, <1>4, QuietStep

LEMMA StepCursor == IInv /\ CursorSound /\ [Next]_vars => CursorSound'
<1> SUFFICES ASSUME IInv, CursorSound, [Next]_vars PROVE CursorSound'
  OBVIOUS
<1>1. IInv'
  BY StepIInv
<1>2. Typed' /\ Typed
  BY <1>1 DEF IInv
<1>3. CASE UNCHANGED vars
  <2>1. counter' = counter /\ UNCHANGED status /\ \A w \in Workers : Owed(w)' = Owed(w)
    BY <1>3 DEF vars, Owed
  <2>2. \A w \in Workers : Owed(w)' <= Owed(w)
    BY <1>2, <2>1, OwedNumbers
  <2> QED
    BY <1>2, <2>1, <2>2, PromisesKept, QuietStep
<1>4. CASE Next
  <2>1. CASE Match \/ Collect \/ \E w \in Workers : Deliver(w)
    BY <1>2, <2>1, MainCursor
  <2>2. ASSUME NEW c \in 1..Calls, Start(c) PROVE CursorSound'
    BY <1>2, <2>2, StartCursor
  <2>3. ASSUME NEW w \in Workers, Claim(w) PROVE CursorSound'
    BY <1>2, <2>3, ClaimCursor
  <2>4. ASSUME NEW w \in Workers, Receive(w) \/ Crash(w) \/ Terminate(w) PROVE CursorSound'
    BY <1>2, <2>4, ThreadCursor
  <2> QED
    BY <1>4, <2>1, <2>2, <2>3, <2>4 DEF Next, Main, Thread
<1> QED
  BY <1>3, <1>4

\* The state is well formed; in particular the cursor workers share overruns the facts by
\* no more than one turn per worker and call, whatever crashed, closed or was left over
\* from a call that failed.
THEOREM Types == Spec => []TypeOK
<1>1. IInv /\ CursorSound => TypeOK
  <2> SUFFICES ASSUME IInv, CursorSound PROVE TypeOK
    OBVIOUS
  <2>1. Typed /\ counter \in Nat /\ NumFacts \in Nat
    BY MatcherAssumption DEF IInv, Typed
  <2>2. Exits \in SUBSET (Workers \X (1..Calls))
    BY DEF Exits
  <2>3. Cardinality(Exits) \in Nat /\ Limit \in Nat
    BY <2>2, ExitsCounted
  <2>4. counter \in 0..(NumFacts + Limit)
    BY <2>1, <2>3 DEF CursorSound
  <2>5. \A w \in Workers :
          /\ worker[w].alive \in BOOLEAN /\ worker[w].job \in 0..Calls
          /\ worker[w].inbox \in Seq(1..Calls) /\ worker[w].events \in Seq(Event)
    BY <2>1 DEF Typed, ThreadState
  <2> QED
    BY <2>1, <2>4, <2>5 DEF TypeOK, Typed, Limit
<1>2. IInv /\ CursorSound /\ [Next]_vars => (IInv /\ CursorSound)'
  BY StepIInv, StepCursor
<1>3. Init => IInv /\ CursorSound
  BY InitIInv, InitCursor
<1> QED
  BY <1>1, <1>2, <1>3, PTL DEF Spec
===============================================================================
