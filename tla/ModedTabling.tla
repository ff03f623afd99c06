---------------------------- MODULE ModedTabling ----------------------------
(***************************************************************************)
(* Tabled evaluation of calls: mettaEvalBodyG of packages/core/src/eval.ts *)
(* with the completed and active tables of table-space.ts and the depth    *)
(* accounting of eval-depth.ts.  A ground call is remembered when its      *)
(* evaluation ends; a moded call (one with free variables) is produced     *)
(* under an active table, which a call of the same variant inside it       *)
(* reads, and is evaluated again until it adds no answer.                  *)
(*                                                                         *)
(* A step is one call that is answered at once, one call that is entered,  *)
(* or the end of a pass over the clauses of the call on top.               *)
(***************************************************************************)
EXTENDS Clauses, FiniteSetsExt

CONSTANTS
    Programs,       \* the programs to evaluate
    MaxDepth,       \* max-stack-depth
    MaxActive,      \* active tables that fit the budget
    MaxKnown,       \* answers of active tables that fit the budget
    MaxQueries,     \* bound of the model: queries of one program
    MaxEvictions    \* bound of the model: tables lost to other functors

ASSUME TablingAssumption ==
    /\ Programs \subseteq Program
    /\ MaxDepth \in Nat \ {0} /\ MaxActive \in Nat /\ MaxKnown \in Nat
    /\ MaxQueries \in Nat /\ MaxEvictions \in Nat

VARIABLES
    program,        \* the equations
    meaning,        \* history: what the equations mean without tables
    query,          \* << >> or the query asked last
    stack,          \* calls entered and not returned from, by level
    active,         \* the active stack: tables being produced
    completed,      \* completed tables
    reply,          \* << >> or the results of the query
    asked, evicted  \* queries and evictions so far

vars == <<program, meaning, query, stack, active, completed, reply, asked, evicted>>

Level == Len(stack)
Top == stack[Level]
Clauses(f) == program.clauses[f.call]
TopActive == active[Len(active)]
Busy == query # << >> /\ reply = << >>

Init ==
    /\ program \in Programs
    /\ meaning = Meaning(program, MaxDepth)
    /\ query = << >> /\ stack = << >> /\ active = << >>
    /\ completed = << >>
    /\ reply = << >>
    /\ asked = 0 /\ evicted = 0

Ask(c) ==
    /\ ~Busy /\ asked < MaxQueries
    /\ query' = <<c>> /\ asked' = asked + 1 /\ reply' = << >>
    /\ UNCHANGED <<program, meaning, stack, active, completed, evicted>>

-----------------------------------------------------------------------------
(* Frames.  left: how often the current premise is still to be evaluated,  *)
(* once for each answer of the premise before it.                          *)

Frame(c, tabled, peak) ==
    [call |-> c, tabled |-> tabled, clause |-> 1, need |-> 1, left |-> 1, bag |-> Zero, peak |-> peak]

Body(f) == Clauses(f)[f.clause].needs
NextClause(f, bag) == [f EXCEPT !.bag = Plus(@, bag), !.clause = @ + 1, !.need = 1, !.left = 1]

(* What the frame does with the results of a premise that reached level    *)
(* peak.                                                                   *)
Take(f, bag, peak) ==
    LET deep == [f EXCEPT !.peak = IF peak > @ THEN peak ELSE @]
    IN  CASE f.need < Len(Body(f)) /\ NumAnswers(bag) > 0 ->
                [deep EXCEPT !.bag = Plus(@, OnlyErrors(bag)), !.need = @ + 1, !.left = NumAnswers(bag)]
          [] f.need < Len(Body(f)) /\ NumAnswers(bag) = 0 -> NextClause(deep, bag)
          [] f.need = Len(Body(f)) /\ f.left > 1 -> [deep EXCEPT !.bag = Plus(@, bag), !.left = @ - 1]
          [] OTHER -> NextClause(deep, bag)

(* The results go to the frame on top of s, or answer the query.           *)
ReplyTo(s, bag, peak) ==
    IF s = << >>
    THEN stack' = << >> /\ reply' = <<bag>> /\ UNCHANGED query
    ELSE /\ stack' = [s EXCEPT ![Len(s)] = Take(@, bag, peak)]
         /\ UNCHANGED <<query, reply>>

(* The call evaluated next, as a sequence of at most one call.             *)
PassEnded == stack # << >> /\ Top.clause > Len(Clauses(Top))

Pending ==
    CASE ~Busy \/ PassEnded -> << >>
      [] Busy /\ stack = << >> -> query
      [] stack # << >> /\ ~PassEnded -> IF Body(Top) = << >> THEN << >> ELSE <<Body(Top)[Top.need]>>

GiveFact ==
    /\ stack # << >> /\ ~PassEnded /\ Body(Top) = << >>
    /\ stack' = [stack EXCEPT ![Level] = NextClause(@, Single(Clauses(Top)[Top.clause].fact))]
    /\ UNCHANGED <<program, meaning, query, active, completed, reply, asked, evicted>>

-----------------------------------------------------------------------------
(* A call at the next level.                                               *)

\* Mutant: max-stack-depth is inclusive.
FitsInclusive(span) == Level + span < MaxDepth
Fits(span) == Level + 1 + span < MaxDepth
Hit(c) == c \in DOMAIN completed /\ program.kind[c] # "plain" /\ Fits(completed[c].span)
IsModed(c) == program.kind[c] = "moded"
IsActive(c) == \E i \in DOMAIN active : active[i].call = c
IsTop(c) == active # << >> /\ TopActive.call = c

(* tryEnterDepthCall fails: the call is cut.                               *)
CutOff(c) ==
    /\ ~Fits(0)
    /\ ReplyTo(stack, Single(Overflow), Level + 1)
    /\ UNCHANGED <<program, meaning, active, completed, asked, evicted>>

Replay(c) ==
    /\ Fits(0) /\ Hit(c)
    /\ ReplyTo(stack, completed[c].bag, Level + 1 + completed[c].span)
    /\ UNCHANGED <<program, meaning, active, completed, asked, evicted>>

(* A variant of the call whose table is being produced on top: the answers *)
(* known so far.                                                           *)
Reenter(c) ==
    /\ Fits(0) /\ ~Hit(c) /\ IsModed(c) /\ IsTop(c)
    /\ active' = [active EXCEPT ![Len(active)].cyclic = TRUE]
    /\ IF Fits(TopActive.span)
       THEN ReplyTo(stack, EachOnce(TopActive.known), Level + 1 + TopActive.span)
       ELSE ReplyTo(stack, Single(Overflow), Level + 1)
    /\ UNCHANGED <<program, meaning, completed, asked, evicted>>

TotalKnown == MapThenSumSet(LAMBDA i : Cardinality(active[i].known), DOMAIN active)

(* beginActive has no room.                                                *)
Refuse(c) ==
    /\ Fits(0) /\ ~Hit(c) /\ IsModed(c) /\ ~IsActive(c) /\ Len(active) >= MaxActive
    /\ ReplyTo(stack, Single(Refused), Level + 1)
    /\ UNCHANGED <<program, meaning, active, completed, asked, evicted>>

Begin(c) ==
    /\ Fits(0) /\ ~Hit(c) /\ IsModed(c) /\ ~IsActive(c) /\ Len(active) < MaxActive
    /\ active' = Append(active, [call |-> c, known |-> {}, span |-> 0, cyclic |-> FALSE])
    /\ stack' = Append(stack, Frame(c, TRUE, Level + 1))
    /\ UNCHANGED <<program, meaning, query, completed, reply, asked, evicted>>

(* A ground or plain call, or a moded one whose table is active further    *)
(* down: entered without a table of its own below it.                      *)
Enter(c) ==
    /\ Fits(0) /\ ~Hit(c) /\ (IsModed(c) => IsActive(c) /\ ~IsTop(c))
    /\ stack' = Append(stack, Frame(c, program.kind[c] = "ground", Level + 1))
    /\ UNCHANGED <<program, meaning, query, active, completed, reply, asked, evicted>>

Call(c) == Pending = <<c>> /\ (CutOff(c) \/ Replay(c) \/ Reenter(c) \/ Refuse(c) \/ Begin(c) \/ Enter(c))

-----------------------------------------------------------------------------
(* The end of a pass over the clauses.                                     *)

\* Mutant: a bag cut at the bound is remembered.
RememberedCut(c, bag, span) ==
    [d \in DOMAIN completed \cup {c} |-> IF d = c THEN [bag |-> bag, span |-> span] ELSE completed[d]]
Remembered(c, bag, span) ==
    IF bag[Overflow] > 0 THEN completed
    ELSE [d \in DOMAIN completed \cup {c} |-> IF d = c THEN [bag |-> bag, span |-> span] ELSE completed[d]]

Span == Top.peak - Level
Return(bag) == ReplyTo(SubSeq(stack, 1, Level - 1), bag, Top.peak)

EndPlain ==
    /\ PassEnded /\ (~IsModed(Top.call) \/ ~Top.tabled)
    /\ completed' = IF Top.tabled THEN Remembered(Top.call, Top.bag, Span) ELSE completed
    /\ Return(Top.bag)
    /\ UNCHANGED <<program, meaning, active, asked, evicted>>

Producing == PassEnded /\ IsModed(Top.call) /\ Top.tabled

\* Mutant: the producer does not repeat its pass when it has answers.
NewAtFirst == IF TopActive.known = {} THEN Support(Top.bag) ELSE {}
\* Mutant: answers known before count as added.
NewAgain == Support(Top.bag)
New == Support(Top.bag) \ TopActive.known
OverBudget == TotalKnown + Cardinality(New) > MaxKnown

\* Mutant: the table of a call that was refused stays.
EndIfComplete == active' = IF OverBudget THEN active ELSE SubSeq(active, 1, Len(active) - 1)
EndActive == active' = SubSeq(active, 1, Len(active) - 1)

EndAcyclic ==
    /\ Producing /\ ~TopActive.cyclic
    /\ completed' = Remembered(Top.call, Top.bag, Span)
    /\ Return(Top.bag) /\ EndActive
    /\ UNCHANGED <<program, meaning, asked, evicted>>

NextRound ==
    /\ Producing /\ TopActive.cyclic /\ New # {} /\ ~OverBudget
    /\ active' = [active EXCEPT ![Len(active)].known = @ \cup New, ![Len(active)].span = Span]
    /\ stack' = [stack EXCEPT ![Level] = Frame(@.call, TRUE, @.peak)]
    /\ UNCHANGED <<program, meaning, query, completed, reply, asked, evicted>>

GiveUp ==
    /\ Producing /\ TopActive.cyclic /\ New # {} /\ OverBudget
    /\ Return(Single(Refused)) /\ EndActive
    /\ UNCHANGED <<program, meaning, completed, asked, evicted>>

Complete ==
    /\ Producing /\ TopActive.cyclic /\ New = {}
    /\ completed' = Remembered(Top.call, EachOnce(TopActive.known), Span)
    /\ Return(EachOnce(TopActive.known)) /\ EndActive
    /\ UNCHANGED <<program, meaning, asked, evicted>>

EndPass == EndPlain \/ EndAcyclic \/ NextRound \/ GiveUp \/ Complete

(* A grounded operation throws: every frame is unwound through its finally.*)
Throw ==
    /\ stack # << >>
    /\ stack' = << >> /\ active' = << >> /\ query' = << >>
    /\ UNCHANGED <<program, meaning, completed, reply, asked, evicted>>

(* The store evicts a table for one of another functor.                    *)
Evict(c) ==
    /\ c \in DOMAIN completed /\ evicted < MaxEvictions
    /\ completed' = [d \in DOMAIN completed \ {c} |-> completed[d]]
    /\ evicted' = evicted + 1
    /\ UNCHANGED <<program, meaning, query, stack, active, reply, asked>>

Step == GiveFact \/ EndPass \/ \E c \in Calls : Call(c)

Next == Step \/ Throw \/ \E c \in Calls : Ask(c) \/ Evict(c)

Spec == Init /\ [][Next]_vars /\ WF_vars(Step)

-----------------------------------------------------------------------------
Bag == [Results -> Nat]

(* Type invariant: no call goes deeper than max-stack-depth, no span does, *)
(* and a frame stays on its clauses.                                       *)
TypeOK ==
    /\ program \in Program
    /\ query \in {<<c>> : c \in Calls} \cup {<< >>}
    /\ \A i \in DOMAIN stack :
            /\ stack[i].call \in Calls /\ stack[i].tabled \in BOOLEAN /\ stack[i].bag \in Bag
            /\ stack[i].clause \in 1..Len(Clauses(stack[i])) + 1
            /\ stack[i].need \in {1, 2} /\ stack[i].left \in Nat \ {0}
            /\ stack[i].peak \in i..MaxDepth
    /\ \A i \in DOMAIN active :
            /\ active[i].call \in Calls /\ active[i].known \subseteq Results
            /\ active[i].cyclic \in BOOLEAN /\ active[i].span \in 0..MaxDepth
    /\ \A c \in DOMAIN completed : c \in Calls /\ completed[c].bag \in Bag /\ completed[c].span \in 0..MaxDepth
    /\ reply = << >> \/ reply[1] \in Bag
    /\ asked \in 0..MaxQueries /\ evicted \in 0..MaxEvictions

(* The active tables are those of the moded calls being evaluated, in      *)
(* order: no call stays active after it returned, was refused or threw,    *)
(* and only the call on top of the active stack reads its own partial      *)
(* answers.                                                                *)
ProducersNested ==
    LET producers == {i \in DOMAIN stack : stack[i].tabled /\ IsModed(stack[i].call)}
    IN  /\ Len(active) = Cardinality(producers)
        /\ \A i \in producers : active[Cardinality(producers \cap 1..i)].call = stack[i].call

(* No table, partial answer or reply holds an answer that has no           *)
(* derivation.                                                             *)
AnswersDerivable ==
    LET Derivable(S, c) == S \cap Answers \subseteq meaning.least[c]
    IN  /\ \A c \in DOMAIN completed : Derivable(Support(completed[c].bag), c)
        /\ \A i \in DOMAIN active : Derivable(active[i].known, active[i].call)
        /\ reply # << >> => Derivable(Support(reply[1]), query[1])

(* Tables change nothing for a call that reaches no cycle with a moded call*)
(* on it: a table has the bag that evaluation without tables gives in as   *)
(* many levels as the span of the table claims, and a reply is the bag     *)
(* evaluation without tables gives, overflows included, unless an active   *)
(* table was refused.                                                      *)
TablesChangeNothing ==
    /\ \A c \in DOMAIN completed \cap meaning.plain :
            completed[c].bag[Refused] = 0 => completed[c].bag = meaning.untabled[completed[c].span + 1][c]
    /\ reply # << >> /\ query[1] \in meaning.plain /\ reply[1][Refused] = 0
            => reply[1] = meaning.untabled[MaxDepth - 1][query[1]]

(* In a program none of whose cycles goes through a moded and a ground     *)
(* call, a completed table and a reply that are free of errors hold every  *)
(* answer that has a derivation, also where calls recur without end.       *)
NoErrors(bag) == \A e \in Errors : bag[e] = 0

AnswersComplete ==
    ~meaning.mixed =>
        /\ \A c \in DOMAIN completed : NoErrors(completed[c].bag) => Support(completed[c].bag) = meaning.least[c]
        /\ reply # << >> /\ NoErrors(reply[1]) => Support(reply[1]) = meaning.least[query[1]]

(* Tables answer exactly: they give what has a derivation and, where they  *)
(* promise completeness, all of it.                                        *)
AnswersExact == AnswersDerivable /\ AnswersComplete

(* Every query comes to an end: the producer loop runs out of answers to   *)
(* add.                                                                    *)
QueriesEnd == Busy ~> ~Busy

(* tabling.ts:6-7, "caching that bag and replaying it preserves order and  *)
(* multiplicity exactly": a ground table free of errors has all answers of *)
(* its call.                                                               *)
GroundTablesComplete ==
    \A c \in DOMAIN completed :
        program.kind[c] = "ground" /\ NoErrors(completed[c].bag)
            => Support(completed[c].bag) = meaning.least[c]
=============================================================================
