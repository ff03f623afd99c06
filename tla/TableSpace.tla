----------------------------- MODULE TableSpace -----------------------------
(***************************************************************************)
(* The bounded memo store of the evaluator: completed answer tables in     *)
(* least-recently-used order, active tables of the calls being evaluated,  *)
(* one shared budget for both, and an interner whose growth forces a new   *)
(* generation (packages/core/src/table-space.ts).                          *)
(*                                                                         *)
(* The store is one record, table, and every private method of the class   *)
(* is an operator from records to records, so an operation is the          *)
(* composition the method body writes.  A call is abstracted to the        *)
(* (domain, version, variant) triple its key encodes; a bag of results to  *)
(* a sequence of answers, of which the store keeps the count and the size. *)
(***************************************************************************)
EXTENDS Integers, Sequences, FiniteSets, SequenceFunctions

CONSTANTS
    Calls,                \* call variants the evaluator tables
    Answers,              \* distinct results
    Bags,                 \* result bags a finished call may have
    Functors,             \* heads of the calls
    HeadOf,               \* Calls -> Functors
    CallVars,             \* Calls -> number of free variables of the call
    CallLeaves,           \* Calls -> leaves its key interns
    AnswerLeaves,         \* Answers -> leaves its exact key interns
    AnswerSize,           \* Answers -> atomSize
    MaxCompletedEntries, MaxCompletedAnswers, MaxApproxCells,
    MaxEntryCells, MaxInternerLeaves,
    UtilityRevokeAfter,   \* inserts without a hit before a functor is revoked
    MaxGeneration         \* bound of the model on generation

ASSUME BudgetAssumption ==
    /\ MaxCompletedEntries \in Nat /\ MaxCompletedAnswers \in Nat
    /\ MaxApproxCells \in Nat /\ MaxEntryCells \in Nat
    /\ MaxInternerLeaves \in Nat
    /\ UtilityRevokeAfter \in Nat \ {0} /\ MaxGeneration \in Nat

ASSUME CallAssumption ==
    /\ HeadOf \in [Calls -> Functors] /\ CallVars \in [Calls -> Nat]
    /\ \A c \in Calls : /\ IsFiniteSet(CallLeaves[c])
                        /\ Cardinality(CallLeaves[c]) <= MaxInternerLeaves

ASSUME AnswerAssumption ==
    /\ AnswerSize \in [Answers -> Nat \ {0}]
    /\ \A a \in Answers : IsFiniteSet(AnswerLeaves[a])
    /\ Bags \subseteq Seq(Answers)

VARIABLES
    table,      \* the store
    utility,    \* functor -> inserts (saturating) and whether it ever hit
    keys,       \* keys handed to the evaluator, stale ones included
    recency     \* history: variants by last use in this generation, latest first

vars == <<table, utility, keys, recency>>

Keys == [call : Calls, gen : Nat]

Leaves == UNION ({CallLeaves[c] : c \in Calls} \cup {AnswerLeaves[a] : a \in Answers})

-----------------------------------------------------------------------------
(* Private methods.                                                        *)

OverLimit(leaves) == Cardinality(leaves) > MaxInternerLeaves

EmptyTable(gen) ==
    [ interned |-> {}, generation |-> gen,
      completed |-> <<>>, entries |-> 0, answers |-> 0, cells |-> 0,
      active |-> <<>>, activeCount |-> 0, activeAnswers |-> 0, activeCells |-> 0 ]

\* Mutant: completed and active tables survive the interner.
ResetInternerOnly(t) == [t EXCEPT !.interned = {}, !.generation = @ + 1]

\* resetInternerAndTables: everything goes, and keys of the old generation die.
ResetInternerAndTables(t) == EmptyTable(t.generation + 1)

MaybeResetInterner(t) ==
    IF OverLimit(t.interned) /\ t.activeCount = 0
    THEN ResetInternerAndTables(t) ELSE t

IsCurrentKey(t, k) == k.gen = t.generation

Find(s, k) == {i \in DOMAIN s : s[i].key = k}

Without(s, i) == SubSeq(s, 1, i - 1) \o SubSeq(s, i + 1, Len(s))

\* Mutant: a hit does not count as a use.
TouchNothing(t, i) == t

\* touch: unlink the entry at i and insert it at the head.
Touch(t, i) ==
    [t EXCEPT !.completed = <<t.completed[i]>> \o Without(t.completed, i)]

\* Mutant: the answers of the removed table stay counted.
RemoveKeepingAnswers(t, i) ==
    [t EXCEPT !.completed = Without(t.completed, i),
              !.entries = @ - 1,
              !.cells = @ - t.completed[i].approxCells]

\* remove: unlink the entry at i and give back what it was charged.
Remove(t, i) ==
    [t EXCEPT !.completed = Without(t.completed, i),
              !.entries = @ - 1,
              !.answers = @ - t.completed[i].answerCount,
              !.cells = @ - t.completed[i].approxCells]

InsertHead(t, e) ==
    [t EXCEPT !.completed = <<e>> \o @,
              !.entries = @ + 1,
              !.answers = @ + e.answerCount,
              !.cells = @ + e.approxCells]

AnswersIn(s) == Total([i \in DOMAIN s |-> s[i].answerCount])
CellsIn(s) == Total([i \in DOMAIN s |-> s[i].approxCells])

\* The store after its victims from position n + 1 to the tail are removed.
KeepFirst(t, n) ==
    LET victims == SubSeq(t.completed, n + 1, Len(t.completed))
    IN  [t EXCEPT !.completed = SubSeq(@, 1, n),
                  !.entries = @ - Len(victims),
                  !.answers = @ - AnswersIn(victims),
                  !.cells = @ - CellsIn(victims)]

\* Mutant: completed tables are measured without the active ones.
FitsWithoutActive(t, newEntries, newAnswers, newCells) ==
    /\ t.entries + newEntries <= MaxCompletedEntries
    /\ t.answers + newAnswers <= MaxCompletedAnswers
    /\ t.cells + newCells <= MaxApproxCells

Fits(t, newEntries, newAnswers, newCells) ==
    /\ t.entries + t.activeCount + newEntries <= MaxCompletedEntries
    /\ t.answers + t.activeAnswers + newAnswers <= MaxCompletedAnswers
    /\ t.cells + t.activeCells + newCells <= MaxApproxCells

\* The loop of makeRoomForActive (and of evict, with nothing new): drop the tail
\* until the store fits or nothing completed is left.
MakeRoom(t, newEntries, newAnswers, newCells) ==
    LET enough(n) == n = 0 \/ Fits(KeepFirst(t, n), newEntries, newAnswers, newCells)
        kept == CHOOSE n \in 0..Len(t.completed) :
                    enough(n) /\ \A m \in (n + 1)..Len(t.completed) : ~ enough(m)
    IN  KeepFirst(t, kept)

Evict(t) == MakeRoom(t, 0, 0, 0)

BagSize(bag) == Total([i \in DOMAIN bag |-> AnswerSize[bag[i]]])

EntryCost(c, bag) == 1 + CallVars[c] + BagSize(bag)

-----------------------------------------------------------------------------
(* Operations.                                                             *)

\* Bound of the model: no step starts a generation past MaxGeneration.
GenerationBound == table'.generation <= MaxGeneration

\* admitsFunctor: a functor whose tables were never read back is revoked.
AdmitsFunctor(f) == utility[f].hit \/ utility[f].inserts < UtilityRevokeAfter

\* key: interning the call may itself start a new generation.
EncodeKey(t, c) ==
    LET first == MaybeResetInterner(t)
        grown == [first EXCEPT !.interned = @ \cup CallLeaves[c]]
        fresh == ResetInternerAndTables(first)
    IN  IF OverLimit(grown.interned) /\ grown.activeCount = 0
        THEN [fresh EXCEPT !.interned = CallLeaves[c]]
        ELSE grown

Used(k) ==
    LET before == {i \in DOMAIN recency : recency[i] = k}
    IN  <<k>> \o IF before = {} THEN recency
                 ELSE Without(recency, CHOOSE i \in before : TRUE)

\* admitsFunctor, key and getCompleted, which the evaluator always calls together.
Lookup(c) ==
    LET t == EncodeKey(table, c)
        k == [call |-> c, gen |-> t.generation]
        hits == Find(t.completed, k)
    IN  /\ AdmitsFunctor(HeadOf[c])
        /\ keys' = keys \cup {k}
        /\ \/ /\ hits = {}
              /\ table' = t
              /\ recency' = IF t.generation = table.generation THEN recency ELSE <<>>
              /\ UNCHANGED utility
           \/ \E i \in hits :
                /\ table' = Touch(t, i)
                /\ utility' = [utility EXCEPT ![HeadOf[c]].hit = TRUE]
                /\ recency' = Used(k)
        /\ GenerationBound

\* Mutant: the older table of the variant stays in the recency list.
ReplacedByNothing(t, k) == t

\* The store without the older table of a variant that is about to be stored.
WithoutOld(t, k) ==
    LET old == Find(t.completed, k)
    IN  IF old = {} THEN t ELSE Remove(t, CHOOSE i \in old : TRUE)

\* rememberCompleted: replaces an older table of the same variant.
RememberCompleted(k, bag) ==
    LET cost == EntryCost(k.call, bag)
        entry == [key |-> k, answerCount |-> Len(bag), approxCells |-> cost]
        f == HeadOf[k.call]
        stored == cost <= MaxEntryCells
    IN  /\ IsCurrentKey(table, k)
        /\ table' = MaybeResetInterner(IF stored THEN Evict(InsertHead(WithoutOld(table, k), entry)) ELSE table)
        /\ utility' = IF stored /\ utility[f].inserts < UtilityRevokeAfter
                      THEN [utility EXCEPT ![f].inserts = @ + 1] ELSE utility
        /\ recency' = IF table'.generation # table.generation THEN <<>>
                      ELSE IF stored THEN Used(k) ELSE recency
        /\ UNCHANGED keys
        /\ GenerationBound

\* beginActive: no table for a stale key or a variant already active; none either
\* (null) when the interner is over its limit or no room can be made, but the
\* victims of the attempt are gone.
BeginActive(k) ==
    LET charge == 1 + CallVars[k.call]
        room == MakeRoom(table, 1, 0, charge)
        entry == [key |-> k, results |-> <<>>, answerCount |-> 0, approxCells |-> charge,
                  overBudget |-> FALSE]
    IN  /\ IsCurrentKey(table, k)
        /\ Find(table.active, k) = {}
        /\ ~ OverLimit(table.interned)
        /\ table' = IF Fits(room, 1, 0, charge)
                    THEN [room EXCEPT !.active = Append(@, entry),
                                      !.activeCount = @ + 1,
                                      !.activeCells = @ + charge]
                    ELSE room
        /\ UNCHANGED <<utility, keys, recency>>

\* An active table takes in a new answer.
Take(e, a) ==
    [e EXCEPT !.results = Append(@, a), !.answerCount = @ + 1,
              !.approxCells = @ + AnswerSize[a]]

\* One turn of the loop of addActiveAnswers for the active table at i.
AddAnswer(t, i, a) ==
    LET grown == [t EXCEPT !.interned = @ \cup AnswerLeaves[a]]
        cost == AnswerSize[a]
        room == MakeRoom(grown, 0, 1, cost)
        known == \E j \in DOMAIN t.active[i].results : t.active[i].results[j] = a
        full == t.active[i].approxCells + cost > MaxEntryCells
    IN  IF OverLimit(grown.interned) \/ (~ known /\ full)
        THEN [grown EXCEPT !.active[i].overBudget = TRUE]
        ELSE IF known THEN grown
        ELSE IF Fits(room, 0, 1, cost)
        THEN [room EXCEPT !.active[i] = Take(@, a),
                          !.activeAnswers = @ + 1,
                          !.activeCells = @ + cost]
        ELSE [room EXCEPT !.active[i].overBudget = TRUE]

\* The loop of addActiveAnswers over a bag, which stops at the first answer that
\* does not fit.
AfterAnswers(t, i, bag) ==
    LET after[n \in 0..Len(bag)] ==
            IF n = 0 THEN t
            ELSE IF after[n - 1].active[i].overBudget THEN after[n - 1]
            ELSE AddAnswer(after[n - 1], i, bag[n])
    IN  after[Len(bag)]

\* addActiveAnswers: the producer adds no more answers once its table is over budget.
AddActiveAnswers(i, bag) ==
    /\ ~ table.active[i].overBudget
    /\ table' = AfterAnswers(table, i, bag)
    /\ UNCHANGED <<utility, keys, recency>>

\* endActive: the producer leaves, whatever happened to its evaluation.
EndActive(k) ==
    LET at == Find(table.active, k)
    IN  /\ IsCurrentKey(table, k)
        /\ \E i \in at :
             table' = MaybeResetInterner(
                        [table EXCEPT !.active = Without(@, i),
                                      !.activeCount = @ - 1,
                                      !.activeAnswers = @ - table.active[i].answerCount,
                                      !.activeCells = @ - table.active[i].approxCells])
        /\ recency' = IF table'.generation = table.generation THEN recency ELSE <<>>
        /\ UNCHANGED <<utility, keys>>
        /\ GenerationBound

\* Mutant: a clear forgets the utility of every functor too.
ClearUtilityToo ==
    /\ table' = ResetInternerAndTables(table)
    /\ utility' = [f \in Functors |-> [inserts |-> 0, hit |-> FALSE]]
    /\ recency' = <<>>
    /\ UNCHANGED keys
    /\ GenerationBound

\* clear: a rule was added or a host operation registered.
Clear ==
    /\ table' = ResetInternerAndTables(table)
    /\ recency' = <<>>
    /\ UNCHANGED <<utility, keys>>
    /\ GenerationBound

-----------------------------------------------------------------------------

Init ==
    /\ table = EmptyTable(0)
    /\ utility = [f \in Functors |-> [inserts |-> 0, hit |-> FALSE]]
    /\ keys = {}
    /\ recency = <<>>

Next ==
    \/ \E c \in Calls : Lookup(c)
    \/ \E k \in keys, bag \in Bags : RememberCompleted(k, bag)
    \/ \E k \in keys : BeginActive(k)
    \/ \E i \in DOMAIN table.active, bag \in Bags : AddActiveAnswers(i, bag)
    \/ \E k \in keys : EndActive(k)
    \/ Clear

Spec == Init /\ [][Next]_vars

-----------------------------------------------------------------------------
(* Properties.                                                             *)

CompletedEntry == [key : Keys, answerCount : Nat, approxCells : Nat]
ActiveEntry == [key : Keys, results : Seq(Answers), answerCount : Nat,
                approxCells : Nat, overBudget : BOOLEAN]

Store ==
    [ interned : SUBSET Leaves, generation : Nat,
      completed : Seq(CompletedEntry), entries : Nat, answers : Nat, cells : Nat,
      active : Seq(ActiveEntry), activeCount : Nat, activeAnswers : Nat, activeCells : Nat ]

\* Type invariant.  The counters are naturals: no removal gives back more than
\* was charged.
TypeOK ==
    /\ table \in Store
    /\ utility \in [Functors -> [inserts : 0..UtilityRevokeAfter, hit : BOOLEAN]]
    /\ keys \subseteq Keys
    /\ recency \in Seq(Keys)

\* The store is of its type, its six running counters natural numbers, and they are
\* exactly what the resident tables add up to, over every insertion, replacement,
\* eviction, answer and reset: a counter that drifted would make the store evict
\* everything, or never.
CountersAgree ==
    /\ TypeOK
    /\ table.entries = Len(table.completed)
    /\ table.answers = AnswersIn(table.completed)
    /\ table.cells = CellsIn(table.completed)
    /\ table.activeCount = Len(table.active)
    /\ table.activeAnswers = AnswersIn(table.active)
    /\ table.activeCells = CellsIn(table.active)

\* Completed and active tables together stay inside the three shared limits after
\* every operation: an active table is never admitted on the room of another.
BudgetRespected ==
    /\ table.entries + table.activeCount <= MaxCompletedEntries
    /\ table.answers + table.activeAnswers <= MaxCompletedAnswers
    /\ table.cells + table.activeCells <= MaxApproxCells

\* The interner outgrows its limit only while an active table pins it: as soon as
\* the last producer leaves, the limit holds again.
InternerBounded == table.active = <<>> => ~ OverLimit(table.interned)

\* The limits of the store hold: those of its tables always, that of its interner
\* whenever nothing is being produced (fits, ensureBudget, maybeResetInterner).
LimitsRespected == BudgetRespected /\ InternerBounded

\* The recency list and the trie agree: a variant has one completed table and one
\* active table at most.
NoVariantTwice ==
    /\ \A i, j \in DOMAIN table.completed :
           table.completed[i].key = table.completed[j].key => i = j
    /\ \A i, j \in DOMAIN table.active :
           table.active[i].key = table.active[j].key => i = j

\* Leaf ids are reused after the interner is replaced, so a resident key must be of
\* the current generation and all its leaves must still be interned: a survivor of
\* an older generation would answer for a call it does not encode.
ResidentKeysDecodable ==
    \A s \in {table.completed, table.active} : \A i \in DOMAIN s :
        /\ s[i].key.gen = table.generation
        /\ CallLeaves[s[i].key.call] \subseteq table.interned

\* A key the evaluator took before calls of any depth still decodes when it stores
\* the result under it, or is refused as stale: no key is of a generation to come.
CurrentKeysDecodable ==
    \A k \in keys : /\ k.gen <= table.generation
                    /\ IsCurrentKey(table, k) => CallLeaves[k.call] \subseteq table.interned

\* Every key that answers a lookup, resident or in the hands of the evaluator, encodes
\* the call it was made for (isCurrentKey, resetInternerAndTables).
KeysDecodable == ResidentKeysDecodable /\ CurrentKeysDecodable

\* Eviction takes the least recently used tables: what is resident are the most
\* recent uses, in order, whatever was replaced, touched or squeezed out by an
\* active table in between.
LeastRecentlyUsedEvicted ==
    LET n == Len(table.completed)
    IN  /\ n <= Len(recency)
        /\ \A i \in 1..n : table.completed[i].key = recency[i]

\* A functor revoked for storing tables nobody read is never admitted again, for
\* the rest of the run: no key taken before the revocation revives it.
RevocationIsFinal ==
    [][\A f \in Functors : ~ AdmitsFunctor(f) => ~ AdmitsFunctor(f)']_vars
=============================================================================
