-------------------------- MODULE ModedTablingProofs --------------------------
(***************************************************************************)
(* Proofs about ModedTabling, for every set of programs and all bounds:    *)
(* active tables are nested like the calls they belong to, tables hold     *)
(* what has a derivation and all of it where they promise so, and they     *)
(* change no result of a call that does not recur.                         *)
(***************************************************************************)
EXTENDS ModedTabling, SequenceFunctionsProofs

(***************************************************************************)
(* Bags.                                                                   *)
(***************************************************************************)

LEMMA ResultFacts ==
    /\ Overflow \in Results /\ Refused \in Results /\ Overflow \in Errors /\ Refused \in Errors
    /\ Overflow # Refused /\ Errors \subseteq Results /\ Answers \subseteq Results
    /\ \A r \in Results : r \in Answers <=> r \notin Errors
BY ResultAssumption DEF Results, Errors, Overflow, Refused

LEMMA BagTypes ==
    /\ Zero \in Bag
    /\ \A x : Single(x) \in Bag
    /\ \A S : EachOnce(S) \in Bag
    /\ \A b, d \in Bag : Plus(b, d) \in Bag
    /\ \A b \in Bag : OnlyErrors(b) \in Bag
    /\ \A b \in Bag : \A n \in Nat : Times(n, b) \in Bag
<1>1. \A b, d \in Bag : Plus(b, d) \in Bag
  BY DEF Plus, Bag
<1>2. \A b \in Bag : OnlyErrors(b) \in Bag
  BY DEF OnlyErrors, Bag
<1>3. \A b \in Bag : \A n \in Nat : Times(n, b) \in Bag
  BY DEF Times, Bag
<1> QED
  BY <1>1, <1>2, <1>3 DEF Zero, Single, EachOnce, Bag

\* The bags by what they give for each result.
LEMMA BagValues ==
    ASSUME NEW r \in Results
    PROVE  /\ Zero[r] = 0
           /\ \A x : Single(x)[r] = IF r = x THEN 1 ELSE 0
           /\ \A S : EachOnce(S)[r] = IF r \in S THEN 1 ELSE 0
           /\ \A b, d : Plus(b, d)[r] = b[r] + d[r]
           /\ \A b : OnlyErrors(b)[r] = IF r \in Errors THEN b[r] ELSE 0
           /\ \A n, b : Times(n, b)[r] = n * b[r]
BY DEF Zero, Single, EachOnce, Plus, OnlyErrors, Times

LEMMA BagsEqual ==
    ASSUME NEW b \in Bag, NEW d \in Bag, \A r \in Results : b[r] = d[r]
    PROVE  b = d
BY DEF Bag

LEMMA Supports ==
    /\ \A S \in SUBSET Results : Support(EachOnce(S)) = S
    /\ \A x \in Results : Support(Single(x)) = {x}
    /\ Support(Zero) = {}
    /\ \A b, d \in Bag : Support(Plus(b, d)) = Support(b) \cup Support(d)
    /\ \A b \in Bag : Support(OnlyErrors(b)) = Support(b) \cap Errors
    /\ \A b \in Bag : Support(b) \subseteq Results
<1>1. \A S \in SUBSET Results : Support(EachOnce(S)) = S
  BY DEF Support, EachOnce
<1>2. \A x \in Results : Support(Single(x)) = {x}
  BY DEF Support, Single
<1>3. Support(Zero) = {}
  BY DEF Support, Zero
<1>4. \A b, d \in Bag : Support(Plus(b, d)) = Support(b) \cup Support(d)
  <2> TAKE b, d \in Bag
  <2>1. \A r \in Results : b[r] \in Nat /\ d[r] \in Nat
    BY DEF Bag
  <2>2. \A r \in Results : Plus(b, d)[r] > 0 <=> b[r] > 0 \/ d[r] > 0
    BY <2>1, BagValues
  <2> QED
    BY <2>2 DEF Support
<1>5. \A b \in Bag : Support(OnlyErrors(b)) = Support(b) \cap Errors
  <2> TAKE b \in Bag
  <2>1. \A r \in Results : OnlyErrors(b)[r] > 0 <=> r \in Errors /\ b[r] > 0
    BY BagValues
  <2> QED
    BY <2>1 DEF Support
<1>6. \A b \in Bag : Support(b) \subseteq Results
  BY DEF Support
<1> QED
  BY <1>1, <1>2, <1>3, <1>4, <1>5, <1>6

\* A bag has no errors when none is in its support.
LEMMA ErrorsInSupport ==
    ASSUME NEW b \in Bag
    PROVE  /\ NoErrors(b) <=> Support(b) \cap Errors = {}
           /\ b[Overflow] \in Nat /\ b[Refused] \in Nat
           /\ NoErrors(b) <=> b[Overflow] = 0 /\ b[Refused] = 0
<1>1. \A r \in Results : b[r] \in Nat
  BY DEF Bag
<1>2. \A r \in Errors : b[r] = 0 <=> r \notin Support(b)
  BY <1>1, ResultFacts DEF Support
<1>3. NoErrors(b) <=> Support(b) \cap Errors = {}
  BY <1>2 DEF NoErrors
<1>4. NoErrors(b) <=> b[Overflow] = 0 /\ b[Refused] = 0
  BY DEF NoErrors, Errors
<1> QED
  BY <1>1, <1>3, <1>4, ResultFacts

\* The number of answers of a bag is a natural, zero when there is none.
LEMMA NumAnswersType ==
    ASSUME NEW b \in Bag
    PROVE  /\ NumAnswers(b) \in Nat
           /\ NumAnswers(b) = 0 <=> Support(b) \cap Answers = {}
<1> DEFINE part == [a \in Answers |-> {a} \X (1..b[a])]
           parts == {{a} \X (1..b[a]) : a \in Answers}
<1>1. \A a \in Answers : b[a] \in Nat
  BY ResultFacts DEF Bag
<1>2. part \in Surjection(Answers, parts)
  BY DEF Surjection
<1>3. IsFiniteSet(parts)
  <2>1. ASSUME NEW T, NEW f \in Surjection(Answers, T) PROVE IsFiniteSet(T)
    <3>1. IsFiniteSet(Answers)
      BY ResultAssumption
    <3> QED
      BY <3>1, FS_Surjection
  <2> HIDE DEF part, parts
  <2> QED
    BY <1>2, <2>1
<1>4. \A T \in parts : IsFiniteSet(T)
  <2> SUFFICES ASSUME NEW a \in Answers PROVE IsFiniteSet({a} \X (1..b[a]))
    OBVIOUS
  <2>1. IsFiniteSet({a})
    BY FS_Singleton
  <2>2. b[a] \in Int
    BY <1>1
  <2>3. IsFiniteSet(1..b[a])
    BY <2>2, FS_Interval
  <2> QED
    BY <2>1, <2>3, FS_Product
<1>5. IsFiniteSet(UNION parts)
  <2> HIDE DEF parts
  <2> QED
    BY <1>3, <1>4, FS_UNION
<1>6. UNION parts = {} <=> \A a \in Answers : ~ b[a] > 0
  <2>1. ASSUME NEW a \in Answers, b[a] > 0 PROVE UNION parts # {}
    <3>1. <<a, 1>> \in {a} \X (1..b[a])
      BY <1>1, <2>1
    <3> QED
      BY <3>1
  <2>2. ASSUME \A a \in Answers : ~ b[a] > 0 PROVE UNION parts = {}
    <3>1. \A a \in Answers : {a} \X (1..b[a]) = {}
      BY <1>1, <2>2
    <3> QED
      BY <3>1
  <2> QED
    BY <2>1, <2>2
<1>7. Support(b) \cap Answers = {} <=> \A a \in Answers : ~ b[a] > 0
  BY ResultFacts DEF Support
<1>8. NumAnswers(b) = Cardinality(UNION parts)
  BY DEF NumAnswers
<1> HIDE DEF parts
<1> QED
  BY <1>5, <1>6, <1>7, <1>8, FS_CardinalityType, FS_EmptySet

-----------------------------------------------------------------------------
(***************************************************************************)
(* Clauses, the least model and reachability.                              *)
(***************************************************************************)

\* A clause is a fact, or has one or two premises that are calls.
LEMMA ClauseFacts ==
    ASSUME NEW cl \in Clause
    PROVE  /\ cl.fact \in Answers
           /\ cl.needs \in Seq(Calls) /\ Len(cl.needs) \in 0..2
           /\ cl.needs = << >> <=> Len(cl.needs) = 0
           /\ Range(cl.needs) \subseteq Calls
           /\ \A i \in 1..Len(cl.needs) : cl.needs[i] \in Calls /\ cl.needs[i] \in Range(cl.needs)
<1>1. cl.fact \in Answers /\ cl.needs \in UNION {[1..n -> Calls] : n \in 0..2}
  BY DEF Clause
<1>2. PICK n \in 0..2 : cl.needs \in [1..n -> Calls]
  BY <1>1
<1> DEFINE s == cl.needs
<1>3. s \in Seq(Calls) /\ Len(s) = n /\ DOMAIN s = 1..n
  BY <1>2
<1> QED
  BY <1>1, <1>2, <1>3 DEF Range

LEMMA ProgramFacts ==
    ASSUME NEW p \in Program, NEW c \in Calls
    PROVE  /\ p.kind[c] \in Kinds
           /\ p.clauses[c] \in Seq(Clause) /\ Len(p.clauses[c]) \in Nat
           /\ DOMAIN p.clauses[c] = 1..Len(p.clauses[c])
           /\ \A i \in 1..Len(p.clauses[c]) : p.clauses[c][i] \in Clause
<1>1. p.clauses[c] \in Seq(Clause) /\ p.kind[c] \in Kinds
  BY DEF Program
<1> QED
  BY <1>1

LEMMA ClauseAnswersType ==
    ASSUME NEW cl \in Clause, NEW m \in Interpretation
    PROVE  ClauseAnswers(cl, m) \subseteq Answers
BY ClauseFacts DEF ClauseAnswers, Interpretation

\* A clause gives more when more is known of its premises.
LEMMA ClauseAnswersMonotone ==
    ASSUME NEW cl \in Clause, NEW m \in Interpretation, NEW k \in Interpretation,
           \A d \in Range(cl.needs) : m[d] \subseteq k[d]
    PROVE  ClauseAnswers(cl, m) \subseteq ClauseAnswers(cl, k)
<1>1. CASE Len(cl.needs) = 0
  BY <1>1, ClauseFacts DEF ClauseAnswers
<1>2. CASE Len(cl.needs) = 1
  <2>1. m[cl.needs[1]] \subseteq k[cl.needs[1]]
    BY <1>2, ClauseFacts
  <2> QED
    BY <1>2, <2>1, ClauseFacts DEF ClauseAnswers
<1>3. CASE Len(cl.needs) = 2
  <2>1. m[cl.needs[1]] \subseteq k[cl.needs[1]] /\ m[cl.needs[2]] \subseteq k[cl.needs[2]]
    BY <1>3, ClauseFacts
  <2> QED
    BY <1>3, <2>1, ClauseFacts DEF ClauseAnswers
<1> QED
  BY <1>1, <1>2, <1>3, ClauseFacts

LEMMA PremiseFacts ==
    ASSUME NEW p \in Program, NEW c \in Calls
    PROVE  /\ Premises(p, c) \subseteq Calls
           /\ \A i \in 1..Len(p.clauses[c]) : \A n \in 1..Len(p.clauses[c][i].needs) :
                    p.clauses[c][i].needs[n] \in Premises(p, c)
           /\ \A i \in 1..Len(p.clauses[c]) : Range(p.clauses[c][i].needs) \subseteq Premises(p, c)
<1>1. \A i \in 1..Len(p.clauses[c]) : Range(p.clauses[c][i].needs) \subseteq Calls
  <2> TAKE i \in 1..Len(p.clauses[c])
  <2>1. p.clauses[c][i] \in Clause
    BY ProgramFacts
  <2> QED
    BY <2>1, ClauseFacts
<1>2. Premises(p, c) = UNION {Range(p.clauses[c][i].needs) : i \in 1..Len(p.clauses[c])}
  BY ProgramFacts DEF Premises
<1>3. \A i \in 1..Len(p.clauses[c]) : Range(p.clauses[c][i].needs) \subseteq Premises(p, c)
  BY <1>2
<1>4. \A i \in 1..Len(p.clauses[c]) : \A n \in 1..Len(p.clauses[c][i].needs) :
            p.clauses[c][i].needs[n] \in Range(p.clauses[c][i].needs)
  BY ProgramFacts, ClauseFacts
<1> QED
  BY <1>1, <1>2, <1>3, <1>4

\* Members of the consequences, by the clause that gives them.
LEMMA ConsequencesIs ==
    ASSUME NEW p \in Program, NEW c \in Calls, NEW m
    PROVE  \A x : x \in Consequences(p, c, m)
                <=> \E i \in 1..Len(p.clauses[c]) : x \in ClauseAnswers(p.clauses[c][i], m)
BY ProgramFacts DEF Consequences

LEMMA ConsequencesType ==
    ASSUME NEW p \in Program, NEW c \in Calls, NEW m \in Interpretation
    PROVE  Consequences(p, c, m) \subseteq Answers
BY ConsequencesIs, ProgramFacts, ClauseAnswersType

LEMMA ConsequencesMonotone ==
    ASSUME NEW p \in Program, NEW c \in Calls, NEW m \in Interpretation, NEW k \in Interpretation,
           \A d \in Premises(p, c) : m[d] \subseteq k[d]
    PROVE  Consequences(p, c, m) \subseteq Consequences(p, c, k)
<1> SUFFICES ASSUME NEW i \in 1..Len(p.clauses[c])
             PROVE  ClauseAnswers(p.clauses[c][i], m) \subseteq ClauseAnswers(p.clauses[c][i], k)
  BY ConsequencesIs
<1>1. \A d \in Range(p.clauses[c][i].needs) : m[d] \subseteq k[d]
  BY PremiseFacts
<1>2. p.clauses[c][i] \in Clause
  BY ProgramFacts
<1> QED
  BY <1>1, <1>2, ClauseAnswersMonotone

LEMMA LeastBelow ==
    ASSUME NEW p \in Program, NEW m \in Interpretation, IsModel(p, m), NEW c \in Calls
    PROVE  LeastModel(p)[c] \subseteq m[c]
BY DEF LeastModel

\* The least model is a fixed point of the clauses.
LEMMA LeastFacts ==
    ASSUME NEW p \in Program
    PROVE  /\ LeastModel(p) \in Interpretation
           /\ \A c \in Calls : Consequences(p, c, LeastModel(p)) = LeastModel(p)[c]
<1> DEFINE L == LeastModel(p)
           F == [c \in Calls |-> Consequences(p, c, L)]
<1>1. L \in Interpretation
  BY DEF LeastModel, Interpretation
<1>2. \A c \in Calls : Consequences(p, c, L) \subseteq L[c]
  <2> SUFFICES ASSUME NEW c \in Calls, NEW a \in Consequences(p, c, L), NEW m \in Interpretation,
                      IsModel(p, m)
               PROVE  a \in m[c]
    <3>1. \A c \in Calls : Consequences(p, c, L) \subseteq Answers
      BY <1>1, ConsequencesType
    <3> QED
      BY <3>1 DEF LeastModel
  <2>1. \A d \in Calls : L[d] \subseteq m[d]
    BY LeastBelow
  <2>2. Consequences(p, c, L) \subseteq Consequences(p, c, m)
    <3>1. \A d \in Premises(p, c) : L[d] \subseteq m[d]
      BY <2>1, PremiseFacts
    <3> HIDE DEF L
    <3> QED
      BY <1>1, <3>1, ConsequencesMonotone
  <2> QED
    BY <2>2 DEF IsModel
<1> HIDE DEF L
<1>3. F \in Interpretation /\ \A c \in Calls : F[c] = Consequences(p, c, L)
  BY <1>1, ConsequencesType DEF Interpretation
<1> HIDE DEF F
<1>4. IsModel(p, F)
  <2> SUFFICES ASSUME NEW c \in Calls PROVE Consequences(p, c, F) \subseteq F[c]
    BY DEF IsModel
  <2>1. \A d \in Premises(p, c) : F[d] \subseteq L[d]
    BY <1>2, <1>3, PremiseFacts
  <2>2. Consequences(p, c, F) \subseteq Consequences(p, c, L)
    BY <1>1, <1>3, <2>1, ConsequencesMonotone
  <2> QED
    BY <1>3, <2>2
<1>5. \A c \in Calls : L[c] \subseteq F[c]
  BY <1>3, <1>4, LeastBelow DEF L
<1>6. \A c \in Calls : Consequences(p, c, L) = L[c]
  BY <1>2, <1>3, <1>5
<1> QED
  BY <1>1, <1>6 DEF L

\* Reachability has the premises and is transitive.
LEMMA ReachFacts ==
    ASSUME NEW p \in Program
    PROVE  /\ Reaches(p) \subseteq Calls \X Calls
           /\ \A c \in Calls : \A d \in Premises(p, c) : <<c, d>> \in Reaches(p)
           /\ \A c, d, e \in Calls :
                <<c, d>> \in Reaches(p) /\ <<d, e>> \in Reaches(p) => <<c, e>> \in Reaches(p)
<1> DEFINE Closed(S) == \A d \in S : Premises(p, d) \subseteq S
<1>1. \A c, d \in Calls :
        <<c, d>> \in Reaches(p) <=> \A S \in SUBSET Calls : Premises(p, c) \subseteq S /\ Closed(S) => d \in S
  BY DEF Reaches
<1>2. \A c \in Calls : Premises(p, c) \subseteq Calls
  BY PremiseFacts
<1> HIDE DEF Closed
<1>3. \A c \in Calls : \A d \in Premises(p, c) : <<c, d>> \in Reaches(p)
  BY <1>1, <1>2
<1>4. \A c, d, e \in Calls :
        <<c, d>> \in Reaches(p) /\ <<d, e>> \in Reaches(p) => <<c, e>> \in Reaches(p)
  <2> SUFFICES ASSUME NEW c \in Calls, NEW d \in Calls, NEW e \in Calls,
                      <<c, d>> \in Reaches(p), <<d, e>> \in Reaches(p),
                      NEW S \in SUBSET Calls, Premises(p, c) \subseteq S, Closed(S)
               PROVE  e \in S
    BY <1>1
  <2>1. d \in S
    BY <1>1
  <2>2. Premises(p, d) \subseteq S
    BY <2>1 DEF Closed
  <2> QED
    BY <1>1, <2>2
<1> QED
  BY <1>3, <1>4 DEF Reaches

-----------------------------------------------------------------------------
(***************************************************************************)
(* Sums of bags, and evaluation without tables.                            *)
(***************************************************************************)

\* The recursive definition of Sums defines a function: its equations hold.
LEMMA SumsFacts ==
    ASSUME NEW bags \in Seq(Bag)
    PROVE  /\ Sums(bags)[0] = Zero
           /\ \A i \in 1..Len(bags) : Sums(bags)[i] = Plus(Sums(bags)[i - 1], bags[i])
           /\ \A i \in 0..Len(bags) : Sums(bags)[i] \in Bag
<1> DEFINE Adds(g, n) == /\ g = [i \in 0..n |-> g[i]]
                         /\ g[0] = Zero
                         /\ \A i \in 1..n : g[i] = Plus(g[i - 1], bags[i])
           HasSums == {n \in Nat : \E g : Adds(g, n)}
<1>1. Len(bags) \in Nat /\ Len(bags) \in 0..Len(bags)
  OBVIOUS
<1>2. \A n \in 0..Len(bags) : n \in HasSums
  <2>1. 0 \in HasSums
    <3>1. Adds([i \in 0..0 |-> Zero], 0)
      OBVIOUS
    <3> QED
      BY <3>1
  <2>2. ASSUME NEW n \in 1..Len(bags), n - 1 \in HasSums
        PROVE  n \in HasSums
    <3>0. n \in Nat \ {0}
      BY <1>1
    <3>1. PICK g : Adds(g, n - 1)
      BY <2>2
    <3>2. Adds([i \in 0..n |-> IF i = n THEN Plus(g[n - 1], bags[n]) ELSE g[i]], n)
      BY <3>0, <3>1
    <3> QED
      BY <3>0, <3>2
  <2> HIDE DEF HasSums
  <2> QED
    BY <1>1, <2>1, <2>2, SetInduction
<1>3. PICK g : Adds(g, Len(bags))
  BY <1>1, <1>2
<1>4. g = [i \in 0..Len(bags) |-> IF i = 0 THEN Zero ELSE Plus(g[i - 1], bags[i])]
  BY <1>1, <1>3
<1> DEFINE Solves(f) == f = [i \in 0..Len(bags) |-> IF i = 0 THEN Zero ELSE Plus(f[i - 1], bags[i])]
<1>5. Solves(Sums(bags))
  BY <1>4 DEF Sums
<1> DEFINE f == Sums(bags)
<1>6. f = [i \in 0..Len(bags) |-> IF i = 0 THEN Zero ELSE Plus(f[i - 1], bags[i])]
  BY <1>5
<1> HIDE DEF f
<1>7. f[0] = Zero /\ \A i \in 1..Len(bags) : f[i] = Plus(f[i - 1], bags[i])
  <2>1. 0 \in 0..Len(bags) /\ \A i \in 1..Len(bags) : i \in 0..Len(bags) /\ i # 0
    BY <1>1
  <2> QED
    BY <1>6, <2>1
<1>8. \A i \in 0..Len(bags) : f[i] \in Bag
  <2> DEFINE T == {i \in Nat : f[i] \in Bag}
  <2>1. 0 \in T
    BY <1>7, BagTypes
  <2>2. ASSUME NEW n \in 1..Len(bags), n - 1 \in T
        PROVE  n \in T
    <3>1. bags[n] \in Bag /\ f[n - 1] \in Bag
      BY <2>2
    <3> QED
      BY <1>7, <3>1, BagTypes
  <2>3. \A i \in 0..Len(bags) : i \in T
    <3> HIDE DEF T
    <3> QED
      BY <1>1, <2>1, <2>2, SetInduction
  <2> QED
    BY <2>3
<1> QED
  BY <1>7, <1>8 DEF f

LEMMA ClauseBagType ==
    ASSUME NEW cl \in Clause, NEW m \in [Calls -> Bag]
    PROVE  ClauseBag(cl, m) \in Bag
<1>1. CASE Len(cl.needs) = 0
  BY <1>1, ClauseFacts, BagTypes DEF ClauseBag
<1>2. CASE Len(cl.needs) = 1
  BY <1>2, ClauseFacts DEF ClauseBag
<1>3. CASE Len(cl.needs) = 2
  <2> DEFINE first == m[cl.needs[1]]
             second == m[cl.needs[2]]
  <2>1. first \in Bag /\ second \in Bag
    BY <1>3, ClauseFacts
  <2>2. ClauseBag(cl, m) = Plus(OnlyErrors(first), Times(NumAnswers(first), second))
    BY <1>3, ClauseFacts DEF ClauseBag
  <2> HIDE DEF first, second
  <2>3. OnlyErrors(first) \in Bag /\ Times(NumAnswers(first), second) \in Bag
    BY <2>1, BagTypes, NumAnswersType
  <2> QED
    BY <2>2, <2>3, BagTypes
<1> QED
  BY <1>1, <1>2, <1>3, ClauseFacts

LEMMA ClauseBagsType ==
    ASSUME NEW p \in Program, NEW c \in Calls, NEW m \in [Calls -> Bag]
    PROVE  /\ ClauseBags(p, c, m) \in Seq(Bag)
           /\ Len(ClauseBags(p, c, m)) = Len(p.clauses[c])
           /\ \A i \in 1..Len(p.clauses[c]) : ClauseBags(p, c, m)[i] = ClauseBag(p.clauses[c][i], m)
<1> DEFINE n == Len(p.clauses[c])
           f == ClauseBags(p, c, m)
<1>1. n \in Nat /\ DOMAIN p.clauses[c] = 1..n
  BY ProgramFacts
<1>2. f = [i \in 1..n |-> ClauseBag(p.clauses[c][i], m)]
  BY <1>1 DEF ClauseBags
<1>3. \A i \in 1..n : ClauseBag(p.clauses[c][i], m) \in Bag
  BY ProgramFacts, ClauseBagType
<1> HIDE DEF f, n
<1>4. f \in [1..n -> Bag]
  BY <1>2, <1>3
<1>5. f \in Seq(Bag) /\ Len(f) = n
  BY <1>1, <1>4
<1>6. \A i \in 1..n : f[i] = ClauseBag(p.clauses[c][i], m)
  BY <1>2
<1> QED
  BY <1>5, <1>6 DEF f, n

LEMMA SumBagsType ==
    ASSUME NEW bags \in Seq(Bag)
    PROVE  SumBags(bags) \in Bag
<1>1. Len(bags) \in 0..Len(bags)
  OBVIOUS
<1> QED
  BY <1>1, SumsFacts DEF SumBags

\* The equations of evaluation without tables.
LEMMA UntabledFacts ==
    ASSUME NEW p \in Program, NEW depth \in Nat
    PROVE  /\ \A n \in 0..depth : Untabled(p, depth)[n] \in [Calls -> Bag]
           /\ \A c \in Calls : Untabled(p, depth)[0][c] = Single(Overflow)
           /\ \A n \in 1..depth : \A c \in Calls :
                Untabled(p, depth)[n][c] = SumBags(ClauseBags(p, c, Untabled(p, depth)[n - 1]))
<1> DEFINE Up(n, m) == [c \in Calls |-> IF n = 0 THEN Single(Overflow) ELSE SumBags(ClauseBags(p, c, m))]
           Evaluates(g, n) == /\ g = [i \in 0..n |-> g[i]]
                              /\ \A i \in 0..n : g[i] = Up(i, g[i - 1])
           HasBags == {n \in Nat : \E g : Evaluates(g, n)}
<1>2. \A n \in 0..depth : n \in HasBags
  <2> HIDE DEF Up
  <2>1. 0 \in HasBags
    <3> DEFINE g == [i \in 0..0 |-> Up(0, 0)]
    <3>1. \A i \in 0..0 : g[i] = Up(i, g[i - 1])
      BY DEF Up
    <3>2. Evaluates(g, 0)
      BY <3>1
    <3> QED
      BY <3>2
  <2>2. ASSUME NEW n \in 1..depth, n - 1 \in HasBags
        PROVE  n \in HasBags
    <3>0. n \in Nat \ {0}
      OBVIOUS
    <3>1. PICK g : Evaluates(g, n - 1)
      BY <2>2
    <3> DEFINE h == [i \in 0..n |-> IF i = n THEN Up(n, g[n - 1]) ELSE g[i]]
    <3>2. \A i \in 0..n : h[i] = Up(i, h[i - 1])
      <4>1. h[n] = Up(n, h[n - 1])
        BY <3>0
      <4>0. \A i \in 0..(n - 1) : g[i] = Up(i, g[i - 1]) /\ h[i] = g[i]
        <5>1. \A i \in 0..(n - 1) : g[i] = Up(i, g[i - 1])
          BY <3>1
        <5>2. \A i \in 0..(n - 1) : h[i] = g[i]
          BY <3>0
        <5> QED
          BY <5>1, <5>2
      <4>2. ASSUME NEW i \in 1..(n - 1) PROVE h[i] = Up(i, h[i - 1])
        <5>1. i \in 0..(n - 1) /\ i - 1 \in 0..(n - 1)
          BY <3>0
        <5>2. h[i - 1] = g[i - 1]
          BY <4>0, <5>1
        <5> QED
          BY <4>0, <5>1, <5>2
      <4>3. h[0] = Up(0, h[0 - 1])
        <5>0. 0 \in 0..(n - 1)
          BY <3>0
        <5>1. h[0] = g[0] /\ g[0] = Up(0, g[0 - 1])
          <6> HIDE DEF h
          <6> QED
            BY <4>0, <5>0
        <5>2. Up(0, g[0 - 1]) = Up(0, h[0 - 1])
          BY DEF Up
        <5> QED
          BY <5>1, <5>2
      <4> QED
        BY <3>0, <4>1, <4>2, <4>3
    <3>3. Evaluates(h, n)
      BY <3>2
    <3> QED
      BY <3>0, <3>3
  <2>3. depth \in 0..depth
    OBVIOUS
  <2> HIDE DEF HasBags
  <2> QED
    BY <2>1, <2>2, SetInduction
<1>3. PICK g : Evaluates(g, depth)
  BY <1>2
<1> DEFINE Solves(f) ==
        f = [n \in 0..depth |->
                [c \in Calls |->
                    IF n = 0 THEN Single(Overflow) ELSE SumBags(ClauseBags(p, c, f[n - 1]))]]
<1>4. Solves(g)
  BY <1>3
<1>5. Solves(Untabled(p, depth))
  BY <1>4 DEF Untabled
<1> DEFINE U == Untabled(p, depth)
<1>6. U = [n \in 0..depth |->
                [c \in Calls |->
                    IF n = 0 THEN Single(Overflow) ELSE SumBags(ClauseBags(p, c, U[n - 1]))]]
  BY <1>5
<1> HIDE DEF U
<1>7. /\ U[0] = [c \in Calls |-> Single(Overflow)]
      /\ \A n \in 1..depth : U[n] = [c \in Calls |-> SumBags(ClauseBags(p, c, U[n - 1]))]
  <2>1. 0 \in 0..depth /\ \A n \in 1..depth : n \in 0..depth /\ n # 0
    OBVIOUS
  <2> QED
    BY <1>6, <2>1
<1>8. \A n \in 0..depth : U[n] \in [Calls -> Bag]
  <2> DEFINE T == {n \in Nat : U[n] \in [Calls -> Bag]}
  <2>1. 0 \in T
    BY <1>7, BagTypes
  <2>2. ASSUME NEW n \in 1..depth, n - 1 \in T
        PROVE  n \in T
    <3>1. U[n - 1] \in [Calls -> Bag]
      BY <2>2
    <3>2. \A c \in Calls : SumBags(ClauseBags(p, c, U[n - 1])) \in Bag
      BY <3>1, ClauseBagsType, SumBagsType
    <3>3. U[n] = [c \in Calls |-> SumBags(ClauseBags(p, c, U[n - 1]))]
      BY <1>7
    <3>4. U[n] \in [Calls -> Bag]
      BY <3>2, <3>3
    <3> QED
      BY <3>4
  <2>3. \A n \in 0..depth : n \in T
    <3> HIDE DEF T
    <3> QED
      BY <2>1, <2>2, SetInduction
  <2> QED
    BY <2>3
<1> QED
  BY <1>7, <1>8 DEF U

\* No summand has more of a result than the sum.
LEMMA SumsAbove ==
    ASSUME NEW bags \in Seq(Bag), NEW r \in Results, NEW j \in 1..Len(bags)
    PROVE  bags[j][r] <= SumBags(bags)[r]
<1> DEFINE f == Sums(bags)
           T == {k \in Nat : \A i \in 1..k : bags[i][r] <= f[k][r]}
<1>1. Len(bags) \in Nat
  OBVIOUS
<1>2. /\ \A i \in 1..Len(bags) : f[i] = Plus(f[i - 1], bags[i]) /\ bags[i] \in Bag
      /\ \A i \in 0..Len(bags) : f[i] \in Bag
  BY SumsFacts
<1> HIDE DEF f
<1>3. \A b \in Bag : b[r] \in Nat
  BY DEF Bag
<1>4. 0 \in T
  OBVIOUS
<1>5. ASSUME NEW n \in 1..Len(bags), n - 1 \in T
      PROVE  n \in T
  <2>1. n \in Nat /\ n - 1 \in 0..Len(bags)
    BY <1>1
  <2>2. f[n - 1][r] \in Nat /\ bags[n][r] \in Nat
    BY <1>2, <1>3, <2>1
  <2>3. f[n][r] = f[n - 1][r] + bags[n][r]
    BY <1>2, BagValues
  <2>4. ASSUME NEW i \in 1..n PROVE bags[i][r] <= f[n][r]
    <3>1. CASE i = n
      BY <2>2, <2>3, <3>1
    <3>2. CASE i # n
      <4>1. i \in 1..(n - 1) /\ i \in 1..Len(bags)
        BY <1>1, <2>1, <3>2
      <4>2. bags[i][r] <= f[n - 1][r] /\ bags[i][r] \in Nat
        BY <1>2, <1>3, <1>5, <4>1
      <4> QED
        BY <2>2, <2>3, <4>2
    <3> QED
      BY <3>1, <3>2
  <2> QED
    BY <2>1, <2>4
<1>6. \A k \in 0..Len(bags) : k \in T
  <2> HIDE DEF T
  <2> QED
    BY <1>1, <1>4, <1>5, SetInduction
<1>7. Len(bags) \in T
  <2> HIDE DEF T
  <2> QED
    BY <1>1, <1>6
<1> QED
  BY <1>7 DEF f, SumBags

\* The bag of a clause with two premises, by results.
LEMMA JoinValues ==
    ASSUME NEW b \in Bag, NEW d \in Bag, NEW r \in Results
    PROVE  Plus(OnlyErrors(b), Times(NumAnswers(b), d))[r]
                = (IF r \in Errors THEN b[r] ELSE 0) + NumAnswers(b) * d[r]
BY BagValues

\* A clause that was not cut gives the same when its uncut premises do.
LEMMA ClauseStable ==
    ASSUME NEW cl \in Clause, NEW m \in [Calls -> Bag], NEW k \in [Calls -> Bag],
           \A d \in Range(cl.needs) : m[d][Overflow] = 0 => k[d] = m[d],
           ClauseBag(cl, m)[Overflow] = 0
    PROVE  ClauseBag(cl, k) = ClauseBag(cl, m)
<1>1. CASE Len(cl.needs) = 0
  BY <1>1, ClauseFacts DEF ClauseBag
<1>2. CASE Len(cl.needs) = 1
  <2>1. cl.needs[1] \in Range(cl.needs)
    BY <1>2, ClauseFacts
  <2> QED
    BY <1>2, <2>1, ClauseFacts DEF ClauseBag
<1>3. CASE Len(cl.needs) = 2
  <2> DEFINE d1 == cl.needs[1]
             d2 == cl.needs[2]
  <2>1. d1 \in Range(cl.needs) /\ d2 \in Range(cl.needs) /\ d1 \in Calls /\ d2 \in Calls
    BY <1>3, ClauseFacts
  <2>2. /\ ClauseBag(cl, m) = Plus(OnlyErrors(m[d1]), Times(NumAnswers(m[d1]), m[d2]))
        /\ ClauseBag(cl, k) = Plus(OnlyErrors(k[d1]), Times(NumAnswers(k[d1]), k[d2]))
    BY <1>3, ClauseFacts DEF ClauseBag
  <2> HIDE DEF d1, d2
  <2>3. m[d1] \in Bag /\ m[d2] \in Bag /\ k[d2] \in Bag
    BY <2>1
  <2>4. m[d1][Overflow] \in Nat /\ m[d2][Overflow] \in Nat /\ NumAnswers(m[d1]) \in Nat
    BY <2>3, ErrorsInSupport, NumAnswersType
  <2>5. ClauseBag(cl, m)[Overflow] = m[d1][Overflow] + NumAnswers(m[d1]) * m[d2][Overflow]
    BY <2>2, <2>3, JoinValues, ResultFacts
  <2>6. NumAnswers(m[d1]) * m[d2][Overflow] \in Nat
    BY <2>4
  <2>7. m[d1][Overflow] = 0 /\ NumAnswers(m[d1]) * m[d2][Overflow] = 0
    BY <2>4, <2>5, <2>6
  <2>8. k[d1] = m[d1]
    BY <2>1, <2>7
  <2>9. CASE m[d2][Overflow] = 0
    BY <2>1, <2>2, <2>8, <2>9
  <2>10. CASE m[d2][Overflow] # 0
    <3>1. NumAnswers(m[d1]) = 0
      BY <2>4, <2>7, <2>10
    <3>2. Times(0, m[d2]) = Times(0, k[d2])
      <4>1. Times(0, m[d2]) \in Bag /\ Times(0, k[d2]) \in Bag
        BY <2>3, BagTypes
      <4>2. \A r \in Results : Times(0, m[d2])[r] = Times(0, k[d2])[r]
        <5> TAKE r \in Results
        <5>1. m[d2][r] \in Nat /\ k[d2][r] \in Nat
          BY <2>3 DEF Bag
        <5> QED
          BY <5>1, BagValues
      <4> QED
        BY <4>1, <4>2, BagsEqual
    <3> QED
      BY <2>2, <2>8, <3>1, <3>2
  <2> QED
    BY <2>9, <2>10
<1> QED
  BY <1>1, <1>2, <1>3, ClauseFacts

Depths == 0..MaxDepth
Levels(p) == Untabled(p, MaxDepth)

\* The equations of evaluation without tables, up to the bound.
LEMMA LevelFacts ==
    ASSUME NEW p \in Program
    PROVE  /\ MaxDepth \in Nat /\ MaxDepth >= 1
           /\ \A n \in Depths : Levels(p)[n] \in [Calls -> Bag]
           /\ \A c \in Calls : Levels(p)[0][c] = Single(Overflow)
           /\ \A n \in 1..MaxDepth : \A c \in Calls :
                Levels(p)[n][c] = SumBags(ClauseBags(p, c, Levels(p)[n - 1]))
<1>1. MaxDepth \in Nat /\ MaxDepth >= 1
  BY TablingAssumption
<1> QED
  BY <1>1, UntabledFacts DEF Levels, Depths

\* A call that was not cut with k levels left gives the same with more.
LEMMA LevelsStable ==
    ASSUME NEW p \in Program, NEW k \in Depths, NEW n \in Depths, k <= n, NEW c \in Calls,
           Levels(p)[k][c][Overflow] = 0
    PROVE  Levels(p)[n][c] = Levels(p)[k][c]
<1> DEFINE U == Levels(p)
           Stable(i) == \A j \in Depths : \A d \in Calls :
                            i <= j /\ U[i][d][Overflow] = 0 => U[j][d] = U[i][d]
           T == {i \in Nat : Stable(i)}
<1>1. /\ MaxDepth \in Nat
      /\ \A i \in Depths : U[i] \in [Calls -> Bag]
      /\ \A d \in Calls : U[0][d] = Single(Overflow)
      /\ \A i \in 1..MaxDepth : \A d \in Calls : U[i][d] = SumBags(ClauseBags(p, d, U[i - 1]))
  BY LevelFacts
<1> HIDE DEF U
<1>2. 0 \in T
  <2>1. \A d \in Calls : U[0][d][Overflow] # 0
    BY <1>1, BagValues, ResultFacts
  <2> QED
    BY <2>1
<1>3. ASSUME NEW i \in 1..MaxDepth, i - 1 \in T
      PROVE  i \in T
  <2> SUFFICES ASSUME NEW j \in Depths, NEW d \in Calls, i <= j, U[i][d][Overflow] = 0
               PROVE  U[j][d] = U[i][d]
    OBVIOUS
  <2>1. /\ i \in Nat /\ j \in Nat /\ j \in 1..MaxDepth /\ i - 1 \in Depths /\ j - 1 \in Depths
        /\ i - 1 <= j - 1
    BY <1>1 DEF Depths
  <2> DEFINE m == U[i - 1]
             q == U[j - 1]
  <2>2. m \in [Calls -> Bag] /\ q \in [Calls -> Bag]
    BY <1>1, <2>1
  <2>3. \A e \in Calls : m[e][Overflow] = 0 => q[e] = m[e]
    BY <1>3, <2>1
  <2>4. U[i][d] = SumBags(ClauseBags(p, d, m)) /\ U[j][d] = SumBags(ClauseBags(p, d, q))
    BY <1>1, <2>1
  <2> HIDE DEF m, q
  <2>5. ASSUME NEW l \in 1..Len(p.clauses[d])
        PROVE  ClauseBag(p.clauses[d][l], q) = ClauseBag(p.clauses[d][l], m)
    <3> DEFINE bags == ClauseBags(p, d, m)
    <3>1. bags \in Seq(Bag) /\ l \in 1..Len(bags) /\ bags[l] = ClauseBag(p.clauses[d][l], m)
      BY <2>2, ClauseBagsType
    <3>2. SumBags(bags)[Overflow] = 0
      BY <2>4
    <3> HIDE DEF bags
    <3>3. bags[l][Overflow] <= 0
      BY <3>1, <3>2, SumsAbove, ResultFacts
    <3>4. bags[l][Overflow] \in Nat
      <4>1. bags[l] \in Bag
        BY <3>1
      <4> QED
        BY <4>1, ErrorsInSupport
    <3>5. ClauseBag(p.clauses[d][l], m)[Overflow] = 0
      BY <3>1, <3>3, <3>4
    <3>6. p.clauses[d][l] \in Clause
      BY ProgramFacts
    <3>7. \A e \in Range(p.clauses[d][l].needs) : m[e][Overflow] = 0 => q[e] = m[e]
      BY <2>3, <3>6, ClauseFacts
    <3> QED
      BY <2>2, <3>5, <3>6, <3>7, ClauseStable
  <2>6. ClauseBags(p, d, q) = ClauseBags(p, d, m)
    <3>1. DOMAIN p.clauses[d] = 1..Len(p.clauses[d])
      BY ProgramFacts
    <3> QED
      BY <2>5, <3>1 DEF ClauseBags
  <2> QED
    BY <2>4, <2>6
<1>4. \A i \in 0..MaxDepth : i \in T
  <2> HIDE DEF T
  <2> QED
    BY <1>1, <1>2, <1>3, SetInduction
<1>5. Stable(k)
  <2>1. k \in T
    <3> HIDE DEF T
    <3> QED
      BY <1>4 DEF Depths
  <2> QED
    BY <2>1
<1> QED
  BY <1>5 DEF U

-----------------------------------------------------------------------------
(***************************************************************************)
(* The inductive invariant.  Its parts take the program and the stacks as  *)
(* parameters, so that the lemmas speak of any stacks.                     *)
(***************************************************************************)

Least(p) == LeastModel(p)
Recurs(p) == {c \in Calls : p.kind[c] = "moded" /\ <<c, c>> \in Reaches(p)}
Plain(p) == {c \in Calls : c \notin Recurs(p) /\ \A d \in Recurs(p) : <<c, d>> \notin Reaches(p)}
Mixed(p) == \E c \in Recurs(p), d \in Calls :
                p.kind[d] = "ground" /\ <<c, d>> \in Reaches(p) /\ <<d, c>> \in Reaches(p)

\* A frame stays on the clauses of its call, and on the premises of one.
FrameSet == [call : Calls, tabled : BOOLEAN, clause : Nat, need : {1, 2}, left : Nat \ {0},
             bag : Bag, peak : Nat]
ClausesOf(p, f) == p.clauses[f.call]
BodyOf(p, f) == ClausesOf(p, f)[f.clause].needs

FrameOK(p, f) ==
    /\ f \in FrameSet
    /\ f.clause \in 1..Len(ClausesOf(p, f)) + 1
    /\ f.need = 1 => f.left = 1
    /\ f.need = 2 => f.clause <= Len(ClausesOf(p, f)) /\ Len(BodyOf(p, f)) = 2
    /\ f.tabled => p.kind[f.call] \in {"ground", "moded"}

Waits(p, f) == f.clause <= Len(ClausesOf(p, f)) /\ f.need <= Len(BodyOf(p, f))
PremiseOf(p, f) == BodyOf(p, f)[f.need]

\* What is at level i waits for the results of c.
Asks(p, q, s, i, c) == IF i = 0 THEN q = <<c>> ELSE Waits(p, s[i]) /\ c = PremiseOf(p, s[i])

\* Each call on the stack is the premise that the one below it waits for.
StackOK(p, q, s) ==
    /\ s \in Seq(FrameSet) /\ Len(s) < MaxDepth
    /\ \A i \in 1..Len(s) :
        /\ FrameOK(p, s[i]) /\ s[i].peak \in i..MaxDepth
        /\ Asks(p, q, s, i - 1, s[i].call)

\* The i-th frame works for the producer of the active table Rank(p, s, i).
Producer(p, f) == f.tabled /\ p.kind[f.call] = "moded"
ProducersTo(p, s, i) == {k \in 1..i : Producer(p, s[k])}
Rank(p, s, i) == Cardinality(ProducersTo(p, s, i))

TableSet == [call : Calls, known : SUBSET Results, span : 0..MaxDepth, cyclic : BOOLEAN]

NestOK(p, s, act) ==
    /\ act \in Seq(TableSet) /\ Len(act) = Rank(p, s, Len(s))
    /\ \A j \in 1..Len(act) : p.kind[act[j].call] = "moded"
    /\ \A i \in 1..Len(s) :
        IF Producer(p, s[i]) THEN act[Rank(p, s, i)].call = s[i].call
        ELSE Rank(p, s, i) = 0 \/ act[Rank(p, s, i)].call # s[i].call

\* A call reaches those above it, and a call whose table was read inside it itself.
ReachOK(p, s, act) ==
    /\ \A i, k \in 1..Len(s) : i < k => <<s[i].call, s[k].call>> \in Reaches(p)
    /\ \A j \in 1..Len(act) : act[j].cyclic => <<act[j].call, act[j].call>> \in Reaches(p)

\* Results that have a derivation.
Derived(p, c, S) == S \cap Answers \subseteq Least(p)[c]

FrameDerived(p, f) ==
    /\ Derived(p, f.call, Support(f.bag))
    /\ f.need = 2 => Least(p)[BodyOf(p, f)[1]] # {}

\* What may be derived while table j is produced: each answer from others, those of
\* the call of the table only from what it knows if the table was read.
Models(p, act, j) ==
    {m \in Interpretation :
        \A c \in Calls :
            /\ m[c] \subseteq Least(p)[c]
            /\ IF j > 0 /\ c = act[j].call THEN act[j].cyclic => m[c] \subseteq act[j].known
               ELSE m[c] \subseteq Consequences(p, c, m)}

\* Results of c free of errors hold all of that, and so do the clauses a frame is through with.
Whole(p, act, j, c, b) ==
    ~ Mixed(p) /\ NoErrors(b) => \A m \in Models(p, act, j) : m[c] \subseteq Support(b)

FrameWhole(p, act, j, f) ==
    ~ Mixed(p) /\ NoErrors(f.bag) =>
        \A m \in Models(p, act, j) : \A k \in 1..(f.clause - 1) :
            ClauseAnswers(ClausesOf(p, f)[k], m) \subseteq Support(f.bag)

\* Results of a call at level l + 1 are what evaluation without tables gives with the
\* levels left there and, if nothing was cut, with as many as it used.
Exact(p, c, l, b, peak) ==
    c \in Plain(p) /\ b[Refused] = 0 =>
        \A n \in Depths :
            n = MaxDepth - 1 - l \/ (b[Overflow] = 0 /\ n >= peak - l) => b = Levels(p)[n][c]

\* The results of a frame so far, with premises evaluated without tables in n levels.
FirstOf(p, f, n) == Levels(p)[n][BodyOf(p, f)[1]]
SecondOf(p, f, n) == Levels(p)[n][BodyOf(p, f)[2]]
Before(p, f, n) == Sums(ClauseBags(p, f.call, Levels(p)[n]))[f.clause - 1]
Joined(p, f, n) ==
    Plus(OnlyErrors(FirstOf(p, f, n)), Times(NumAnswers(FirstOf(p, f, n)) - f.left, SecondOf(p, f, n)))

Partial(p, f, n) ==
    IF f.need = 1 THEN f.bag = Before(p, f, n)
    ELSE /\ f.left <= NumAnswers(FirstOf(p, f, n))
         /\ f.bag = Plus(Before(p, f, n), Joined(p, f, n))

FrameExact(p, i, f) ==
    f.call \in Plain(p) /\ f.bag[Refused] = 0 =>
        \A n \in 0..(MaxDepth - 1) :
            n = MaxDepth - 1 - i \/ (f.bag[Overflow] = 0 /\ n >= f.peak - i) => Partial(p, f, n)

FrameGood(p, s, act, i) ==
    /\ FrameDerived(p, s[i])
    /\ FrameWhole(p, act, Rank(p, s, i), s[i])
    /\ FrameExact(p, i, s[i])

\* The results of call c at level l + 1, up to level peak, while table j is produced.
Good(p, act, j, c, l, b, peak) ==
    /\ b \in Bag /\ peak \in (l + 1)..MaxDepth
    /\ Derived(p, c, Support(b))
    /\ Whole(p, act, j, c, b)
    /\ Exact(p, c, l, b, peak)

RememberedSet == [bag : Bag, span : 0..MaxDepth]

TableGood(p, c, t) ==
    /\ c \in Calls /\ t \in RememberedSet
    /\ Derived(p, c, Support(t.bag))
    /\ ~ Mixed(p) /\ NoErrors(t.bag) => Least(p)[c] \subseteq Support(t.bag)
    /\ t.bag[Overflow] = 0
    /\ c \in Plain(p) /\ t.bag[Refused] = 0 =>
            t.span + 1 \in Depths /\ t.bag = Levels(p)[t.span + 1][c]

TablesGood(p, comp) == \A c \in DOMAIN comp : TableGood(p, c, comp[c])

ReplyGood(p, q, r) ==
    r # << >> =>
        /\ r = <<r[1]>>
        /\ \E c \in Calls, peak \in 1..MaxDepth : q = <<c>> /\ Good(p, << >>, 0, c, 0, r[1], peak)

FramesGood(p, s, act) ==
    /\ \A i \in 1..Len(s) : FrameGood(p, s, act, i)
    /\ \A j \in 1..Len(act) : Derived(p, act[j].call, act[j].known)

\* The stacks agree with each other and hold what they should.
StacksGood(p, q, s, act) ==
    StackOK(p, q, s) /\ NestOK(p, s, act) /\ ReachOK(p, s, act) /\ FramesGood(p, s, act)

Given ==
    /\ program \in Programs /\ meaning = Meaning(program, MaxDepth)
    /\ query = << >> \/ \E c \in Calls : query = <<c>>
    /\ asked \in 0..MaxQueries /\ evicted \in 0..MaxEvictions

Kept ==
    /\ StacksGood(program, query, stack, active)
    /\ TablesGood(program, completed)
    /\ ReplyGood(program, query, reply)
    /\ stack # << >> => reply = << >>

IInv == Given /\ Kept

-----------------------------------------------------------------------------
(***************************************************************************)
(* The active table a frame works for.                                     *)
(***************************************************************************)

LEMMA RankFacts ==
    ASSUME NEW p, NEW s, NEW i \in Nat
    PROVE  /\ Rank(p, s, i) \in 0..i
           /\ Rank(p, s, 0) = 0
           /\ i # 0 => Rank(p, s, i) = IF Producer(p, s[i]) THEN Rank(p, s, i - 1) + 1
                                       ELSE Rank(p, s, i - 1)
           /\ \A k \in i..(i + 1) : Rank(p, s, i) <= Rank(p, s, k)
<1>1. \A k \in Nat : /\ IsFiniteSet(ProducersTo(p, s, k)) /\ Cardinality(ProducersTo(p, s, k)) \in Nat
                     /\ Cardinality(ProducersTo(p, s, k)) <= k
  <2> TAKE k \in Nat
  <2>1. IsFiniteSet(1..k) /\ Cardinality(1..k) = k
    BY FS_Interval
  <2>2. ProducersTo(p, s, k) \subseteq 1..k
    BY DEF ProducersTo
  <2> QED
    BY <2>1, <2>2, FS_Subset, FS_CardinalityType
<1>2. Rank(p, s, i) \in 0..i
  BY <1>1 DEF Rank
<1>3. Rank(p, s, 0) = 0
  <2>1. ProducersTo(p, s, 0) = {}
    BY DEF ProducersTo
  <2> QED
    BY <2>1, FS_EmptySet DEF Rank
<1>4. ASSUME i # 0
      PROVE  Rank(p, s, i) = IF Producer(p, s[i]) THEN Rank(p, s, i - 1) + 1 ELSE Rank(p, s, i - 1)
  <2>1. i - 1 \in Nat /\ 1..i = 1..(i - 1) \cup {i} /\ i \notin 1..(i - 1)
    BY <1>4
  <2>2. CASE Producer(p, s[i])
    <3>1. ProducersTo(p, s, i) = ProducersTo(p, s, i - 1) \cup {i} /\ i \notin ProducersTo(p, s, i - 1)
      BY <2>1, <2>2 DEF ProducersTo
    <3>2. Cardinality(ProducersTo(p, s, i)) = Cardinality(ProducersTo(p, s, i - 1)) + 1
      BY <1>1, <2>1, <3>1, FS_AddElement
    <3> QED
      BY <2>2, <3>2 DEF Rank
  <2>3. CASE ~ Producer(p, s[i])
    <3>1. ProducersTo(p, s, i) = ProducersTo(p, s, i - 1)
      BY <2>1, <2>3 DEF ProducersTo
    <3> QED
      BY <2>3, <3>1 DEF Rank
  <2> QED
    BY <2>2, <2>3
<1>5. \A k \in i..(i + 1) : Rank(p, s, i) <= Rank(p, s, k)
  <2> TAKE k \in i..(i + 1)
  <2>1. k \in Nat /\ ProducersTo(p, s, i) \subseteq ProducersTo(p, s, k)
    BY DEF ProducersTo
  <2> QED
    BY <1>1, <2>1, FS_Subset DEF Rank
<1> QED
  BY <1>2, <1>3, <1>4, <1>5

LEMMA RankOrder ==
    ASSUME NEW p, NEW s, NEW i \in Nat, NEW k \in Nat, i <= k
    PROVE  Rank(p, s, i) <= Rank(p, s, k)
<1>1. ProducersTo(p, s, i) \subseteq ProducersTo(p, s, k)
  BY DEF ProducersTo
<1>2. IsFiniteSet(ProducersTo(p, s, k))
  <2>1. IsFiniteSet(1..k)
    BY FS_Interval
  <2>2. ProducersTo(p, s, k) \subseteq 1..k
    BY DEF ProducersTo
  <2> QED
    BY <2>1, <2>2, FS_Subset
<1> QED
  BY <1>1, <1>2, FS_Subset DEF Rank

\* The rank depends on the frames up to the level alone.
LEMMA RankSame ==
    ASSUME NEW p, NEW s, NEW t, NEW i \in Nat,
           \A k \in 1..i : Producer(p, s[k]) <=> Producer(p, t[k])
    PROVE  Rank(p, s, i) = Rank(p, t, i)
<1>1. ProducersTo(p, s, i) = ProducersTo(p, t, i)
  BY DEF ProducersTo
<1> QED
  BY <1>1 DEF Rank

LEMMA FrontFacts ==
    ASSUME NEW S, NEW s \in Seq(S), Len(s) > 0, NEW front, front = SubSeq(s, 1, Len(s) - 1)
    PROVE  /\ front \in Seq(S) /\ Len(front) = Len(s) - 1
           /\ \A i \in 1..(Len(s) - 1) : front[i] = s[i] /\ front[i] \in S
<1> DEFINE m == Len(s) - 1
<1>1. m \in Nat /\ m >= 0 /\ m + 1 = Len(s)
  OBVIOUS
<1>2. \A i \in 1..m : s[i] \in S
  BY <1>1
<1> HIDE DEF m
<1>3. /\ SubSeq(s, 1, m) \in Seq(S)
      /\ Len(SubSeq(s, 1, m)) = IF 1 <= m THEN m - 1 + 1 ELSE 0
      /\ \A i \in 1..(m - 1 + 1) : SubSeq(s, 1, m)[i] = s[1 + i - 1]
  BY <1>1, <1>2, SubSeqProperties
<1>4. Len(SubSeq(s, 1, m)) = m /\ \A i \in 1..m : SubSeq(s, 1, m)[i] = s[i]
  BY <1>1, <1>3
<1> QED
  BY <1>2, <1>3, <1>4 DEF m

\* A call returns: its frame goes, and its active table if it has one.
LEMMA PopNest ==
    ASSUME NEW p, NEW s \in Seq(FrameSet), NEW act, NestOK(p, s, act), Len(s) > 0,
           NEW rest, rest = SubSeq(s, 1, Len(s) - 1), NEW left,
           left = IF Producer(p, s[Len(s)]) THEN SubSeq(act, 1, Len(act) - 1) ELSE act
    PROVE  /\ NestOK(p, rest, left)
           /\ Producer(p, s[Len(s)]) => Len(act) > 0
           /\ \A i \in 0..(Len(s) - 1) : Rank(p, rest, i) = Rank(p, s, i)
           /\ \A j \in 1..Len(left) : left[j] = act[j]
           /\ Len(left) = Rank(p, s, Len(s) - 1)
<1> DEFINE n == Len(s)
<1>1. n \in Nat /\ n > 0 /\ n - 1 \in Nat
  OBVIOUS
<1>2. Len(rest) = n - 1 /\ \A i \in 1..(n - 1) : rest[i] = s[i]
  BY FrontFacts
<1>3. /\ act \in Seq(TableSet) /\ Len(act) = Rank(p, s, n)
      /\ \A j \in 1..Len(act) : p.kind[act[j].call] = "moded"
      /\ \A i \in 1..n :
            IF Producer(p, s[i]) THEN act[Rank(p, s, i)].call = s[i].call
            ELSE Rank(p, s, i) = 0 \/ act[Rank(p, s, i)].call # s[i].call
  BY DEF NestOK
<1> HIDE DEF n
<1>4. Rank(p, s, n) = IF Producer(p, s[n]) THEN Rank(p, s, n - 1) + 1 ELSE Rank(p, s, n - 1)
  BY <1>1, RankFacts
<1>5. Rank(p, s, n - 1) \in Nat
  BY <1>1, RankFacts
<1>6. Producer(p, s[n]) => Len(act) > 0
  BY <1>3, <1>4, <1>5
<1>7. left \in Seq(TableSet) /\ Len(left) = Rank(p, s, n - 1) /\ \A j \in 1..Len(left) : left[j] = act[j]
  <2>1. CASE Producer(p, s[n])
    <3>1. left = SubSeq(act, 1, Len(act) - 1) /\ Len(act) = Rank(p, s, n - 1) + 1
      BY <1>3, <1>4, <2>1 DEF n
    <3>2. Len(act) - 1 \in 0..Len(act)
      BY <1>5, <3>1
    <3>3. left \in Seq(TableSet) /\ Len(left) = Len(act) - 1 /\ \A j \in 1..(Len(act) - 1) : left[j] = act[j]
      BY <1>3, <3>1, <3>2
    <3> QED
      BY <1>5, <3>1, <3>3
  <2>2. CASE ~ Producer(p, s[n])
    BY <1>3, <1>4, <2>2 DEF n
  <2> QED
    BY <2>1, <2>2
<1>8. \A i \in 0..(n - 1) : Rank(p, rest, i) = Rank(p, s, i)
  <2> TAKE i \in 0..(n - 1)
  <2>1. i \in Nat /\ \A k \in 1..i : rest[k] = s[k]
    BY <1>1, <1>2
  <2> QED
    BY <2>1, RankSame
<1>9. ASSUME NEW i \in 1..(n - 1)
      PROVE  IF Producer(p, rest[i]) THEN left[Rank(p, rest, i)].call = rest[i].call
             ELSE Rank(p, rest, i) = 0 \/ left[Rank(p, rest, i)].call # rest[i].call
  <2>1. i \in Nat /\ i # 0 /\ i - 1 \in Nat /\ i \in 1..n /\ i <= n - 1
    BY <1>1
  <2>2. rest[i] = s[i] /\ Rank(p, rest, i) = Rank(p, s, i)
    BY <1>2, <1>8, <2>1
  <2>3. Rank(p, s, i) \in Nat /\ Rank(p, s, i) <= Len(left) /\ Rank(p, s, i - 1) \in Nat
    <3>1. Rank(p, s, i) \in Nat /\ Rank(p, s, i - 1) \in Nat
      BY <2>1, RankFacts
    <3>2. Rank(p, s, i) <= Rank(p, s, n - 1)
      BY <1>1, <2>1, RankOrder
    <3> QED
      BY <1>7, <3>1, <3>2
  <2>4. CASE Producer(p, s[i])
    <3>1. Rank(p, s, i) = Rank(p, s, i - 1) + 1
      BY <2>1, <2>4, RankFacts
    <3>2. Rank(p, s, i) \in 1..Len(left)
      BY <1>5, <1>7, <2>3, <3>1
    <3> QED
      BY <1>3, <1>7, <2>1, <2>2, <2>4, <3>2
  <2>5. CASE ~ Producer(p, s[i])
    <3>1. CASE Rank(p, s, i) = 0
      BY <2>2, <2>5, <3>1
    <3>2. CASE Rank(p, s, i) # 0
      <4>1. Rank(p, s, i) \in 1..Len(left)
        BY <1>5, <1>7, <2>3, <3>2
      <4> QED
        BY <1>3, <1>7, <2>1, <2>2, <2>5, <3>2, <4>1
    <3> QED
      BY <3>1, <3>2
  <2> QED
    BY <2>4, <2>5
<1>10. \A j \in 1..Len(left) : p.kind[left[j].call] = "moded"
  <2>1. Len(left) <= Len(act) /\ Len(left) \in Nat /\ Len(act) \in Nat
    BY <1>3, <1>4, <1>5, <1>7
  <2> QED
    BY <1>3, <1>7, <2>1
<1>11. Len(left) = Rank(p, rest, Len(rest))
  BY <1>1, <1>2, <1>7, <1>8
<1>12. NestOK(p, rest, left)
  BY <1>2, <1>7, <1>9, <1>10, <1>11 DEF NestOK
<1> QED
  BY <1>6, <1>7, <1>8, <1>12 DEF n

\* A call is entered: its frame works for a table of its own, or for the one on top.
LEMMA PushNest ==
    ASSUME NEW p, NEW s \in Seq(FrameSet), NEW act, NestOK(p, s, act),
           NEW up, Len(up) = Len(s) + 1, \A i \in 1..Len(s) : up[i] = s[i],
           NEW more \in Seq(TableSet), \A j \in 1..Len(act) : more[j] = act[j],
           Producer(p, up[Len(s) + 1]) => Len(more) = Len(act) + 1 /\ more[Len(more)].call = up[Len(s) + 1].call,
           ~ Producer(p, up[Len(s) + 1]) =>
                more = act /\ (Len(act) = 0 \/ act[Len(act)].call # up[Len(s) + 1].call)
    PROVE  NestOK(p, up, more)
<1> DEFINE n == Len(s)
           f == up[n + 1]
<1>1. n \in Nat /\ n + 1 \in Nat /\ n + 1 # 0 /\ (n + 1) - 1 = n
  OBVIOUS
<1>2. /\ Len(up) = n + 1 /\ up[n + 1] = f /\ \A i \in 1..n : up[i] = s[i]
      /\ Producer(p, f) => Len(more) = Len(act) + 1 /\ more[Len(more)].call = f.call
      /\ ~ Producer(p, f) => more = act /\ (Len(act) = 0 \/ act[Len(act)].call # f.call)
  OBVIOUS
<1>3. /\ act \in Seq(TableSet) /\ Len(act) = Rank(p, s, n)
      /\ \A j \in 1..Len(act) : p.kind[act[j].call] = "moded"
      /\ \A i \in 1..n :
            IF Producer(p, s[i]) THEN act[Rank(p, s, i)].call = s[i].call
            ELSE Rank(p, s, i) = 0 \/ act[Rank(p, s, i)].call # s[i].call
  BY DEF NestOK
<1> HIDE DEF n, f
<1>4. \A i \in 0..n : Rank(p, up, i) = Rank(p, s, i)
  <2> TAKE i \in 0..n
  <2>1. i \in Nat /\ \A k \in 1..i : up[k] = s[k]
    BY <1>1, <1>2
  <2> QED
    BY <2>1, RankSame
<1>5. Rank(p, up, n + 1) = IF Producer(p, f) THEN Len(act) + 1 ELSE Len(act)
  <2>1. Rank(p, up, n) = Len(act)
    BY <1>1, <1>3, <1>4
  <2>2. Rank(p, up, n + 1) = IF Producer(p, up[n + 1]) THEN Rank(p, up, (n + 1) - 1) + 1
                             ELSE Rank(p, up, (n + 1) - 1)
    BY <1>1, RankFacts
  <2> QED
    BY <1>1, <1>2, <2>1, <2>2
<1>6. Len(more) = Rank(p, up, n + 1)
  BY <1>2, <1>5
<1>7. Len(act) \in Nat
  BY <1>3
<1>8. ASSUME NEW i \in 1..(n + 1)
      PROVE  IF Producer(p, up[i]) THEN more[Rank(p, up, i)].call = up[i].call
             ELSE Rank(p, up, i) = 0 \/ more[Rank(p, up, i)].call # up[i].call
  <2>1. CASE i = n + 1
    BY <1>2, <1>5, <1>6, <1>7, <2>1
  <2>2. CASE i # n + 1
    <3>1. i \in 1..n /\ i \in 0..n /\ i \in Nat /\ i # 0 /\ i <= n /\ i - 1 \in Nat
      BY <1>1, <2>2
    <3>2. up[i] = s[i] /\ Rank(p, up, i) = Rank(p, s, i)
      BY <1>2, <1>4, <3>1
    <3>3. Rank(p, s, i) \in Nat /\ Rank(p, s, i) <= Len(act) /\ Rank(p, s, i - 1) \in Nat
      <4>1. Rank(p, s, i) \in Nat /\ Rank(p, s, i - 1) \in Nat
        BY <3>1, RankFacts
      <4>2. Rank(p, s, i) <= Rank(p, s, n)
        BY <1>1, <3>1, RankOrder
      <4> QED
        BY <1>3, <4>1, <4>2
    <3>4. CASE Producer(p, s[i])
      <4>1. Rank(p, s, i) = Rank(p, s, i - 1) + 1
        BY <3>1, <3>4, RankFacts
      <4>2. Rank(p, s, i) \in 1..Len(act)
        BY <1>7, <3>3, <4>1
      <4> QED
        BY <1>3, <1>6, <3>1, <3>2, <3>4, <4>2
    <3>5. CASE ~ Producer(p, s[i])
      <4>1. CASE Rank(p, s, i) = 0
        BY <3>2, <3>5, <4>1
      <4>2. CASE Rank(p, s, i) # 0
        <5>1. Rank(p, s, i) \in 1..Len(act)
          BY <1>7, <3>3, <4>2
        <5> QED
          BY <1>3, <1>6, <3>1, <3>2, <3>5, <4>2, <5>1
      <4> QED
        BY <4>1, <4>2
    <3> QED
      BY <3>4, <3>5
  <2> QED
    BY <2>1, <2>2
<1>9. ASSUME NEW j \in 1..Len(more) PROVE p.kind[more[j].call] = "moded"
  <2>1. CASE j \in 1..Len(act)
    BY <1>2, <1>3, <1>6, <2>1
  <2>2. CASE j \notin 1..Len(act)
    <3>1. Producer(p, f) /\ j = Len(more)
      BY <1>2, <1>6, <1>7, <2>2
    <3> QED
      BY <1>2, <1>6, <3>1 DEF Producer
  <2> QED
    BY <2>1, <2>2
<1> QED
  BY <1>2, <1>6, <1>8, <1>9 DEF NestOK

\* The frame on top and the table on top change, their calls do not.
LEMMA TopNest ==
    ASSUME NEW p, NEW s \in Seq(FrameSet), NEW act, NestOK(p, s, act), Len(s) > 0,
           NEW t \in Seq(FrameSet), Len(t) = Len(s),
           \A i \in 1..Len(s) : t[i].call = s[i].call /\ t[i].tabled = s[i].tabled,
           NEW now \in Seq(TableSet), Len(now) = Len(act),
           \A j \in 1..Len(act) : now[j].call = act[j].call
    PROVE  /\ NestOK(p, t, now)
           /\ \A i \in 0..Len(s) : Rank(p, t, i) = Rank(p, s, i)
<1> DEFINE n == Len(s)
<1>1. n \in Nat /\ n > 0 /\ n \in 1..n /\ n \in 0..n
  OBVIOUS
<1>2. Len(t) = n /\ \A i \in 1..n : t[i].call = s[i].call /\ t[i].tabled = s[i].tabled
  OBVIOUS
<1>3. /\ act \in Seq(TableSet) /\ Len(act) = Rank(p, s, n)
      /\ \A j \in 1..Len(act) : p.kind[act[j].call] = "moded"
      /\ \A i \in 1..n :
            IF Producer(p, s[i]) THEN act[Rank(p, s, i)].call = s[i].call
            ELSE Rank(p, s, i) = 0 \/ act[Rank(p, s, i)].call # s[i].call
  BY DEF NestOK
<1> HIDE DEF n
<1>4. \A i \in 1..n : Producer(p, t[i]) <=> Producer(p, s[i])
  BY <1>2 DEF Producer
<1>5. \A i \in 0..n : Rank(p, t, i) = Rank(p, s, i)
  <2> TAKE i \in 0..n
  <2>1. i \in Nat /\ \A k \in 1..i : Producer(p, t[k]) <=> Producer(p, s[k])
    BY <1>1, <1>4
  <2> QED
    BY <2>1, RankSame
<1>6. ASSUME NEW i \in 1..n
      PROVE  IF Producer(p, t[i]) THEN now[Rank(p, t, i)].call = t[i].call
             ELSE Rank(p, t, i) = 0 \/ now[Rank(p, t, i)].call # t[i].call
  <2>1. Rank(p, s, i) \in Nat /\ Rank(p, s, i) <= Len(act)
    <3>1. i \in Nat /\ i <= n
      BY <1>1
    <3>2. Rank(p, s, i) \in Nat
      BY <3>1, RankFacts
    <3>3. Rank(p, s, i) <= Rank(p, s, n)
      BY <1>1, <3>1, RankOrder
    <3> QED
      BY <1>3, <3>2, <3>3
  <2>2. Rank(p, t, i) = Rank(p, s, i) /\ t[i].call = s[i].call /\ (Producer(p, t[i]) <=> Producer(p, s[i]))
    <3>1. i \in 0..n
      BY <1>1
    <3> QED
      BY <1>2, <1>4, <1>5, <3>1
  <2>3. CASE Rank(p, s, i) = 0
    <3>1. ~ Producer(p, s[i])
      <4>1. i \in Nat /\ i # 0 /\ i - 1 \in Nat
        BY <1>1
      <4>2. Rank(p, s, i - 1) \in Nat
        BY <4>1, RankFacts
      <4>3. Producer(p, s[i]) => Rank(p, s, i) = Rank(p, s, i - 1) + 1
        BY <4>1, RankFacts
      <4> QED
        BY <2>3, <4>2, <4>3
    <3> QED
      BY <2>2, <2>3, <3>1
  <2>4. CASE Rank(p, s, i) # 0
    <3>1. Rank(p, s, i) \in 1..Len(act)
      BY <1>3, <2>1, <2>4
    <3> QED
      BY <1>3, <2>2, <3>1
  <2> QED
    BY <2>3, <2>4
<1>7. NestOK(p, t, now)
  <2>1. Len(now) = Rank(p, t, Len(t))
    BY <1>1, <1>2, <1>3, <1>5
  <2>2. \A j \in 1..Len(now) : p.kind[now[j].call] = "moded"
    BY <1>3
  <2> QED
    BY <1>2, <1>6, <2>1, <2>2 DEF NestOK
<1> QED
  BY <1>5, <1>7 DEF n

-----------------------------------------------------------------------------
(***************************************************************************)
(* A premise is answered: what Take does to the frame that waits for it.   *)
(***************************************************************************)

LEMMA FrameFacts ==
    ASSUME NEW p \in Program, NEW f, FrameOK(p, f)
    PROVE  /\ f.call \in Calls /\ f.tabled \in BOOLEAN /\ f.bag \in Bag /\ f.peak \in Nat
           /\ f.clause \in Nat /\ f.clause >= 1 /\ f.need \in {1, 2} /\ f.left \in Nat /\ f.left >= 1
           /\ ClausesOf(p, f) = p.clauses[f.call] /\ Len(ClausesOf(p, f)) \in Nat
           /\ f.clause <= Len(ClausesOf(p, f)) + 1
           /\ \A k \in 1..Len(ClausesOf(p, f)) : ClausesOf(p, f)[k] \in Clause
           /\ f.need = 1 => f.left = 1
           /\ f.need = 2 => f.clause <= Len(ClausesOf(p, f)) /\ Len(BodyOf(p, f)) = 2
<1>1. f \in FrameSet
  BY DEF FrameOK
<1>2. /\ f.call \in Calls /\ f.tabled \in BOOLEAN /\ f.bag \in Bag /\ f.peak \in Nat
      /\ f.clause \in Nat /\ f.need \in {1, 2} /\ f.left \in Nat /\ f.left >= 1
  BY <1>1 DEF FrameSet
<1>3. Len(ClausesOf(p, f)) \in Nat /\ \A k \in 1..Len(ClausesOf(p, f)) : ClausesOf(p, f)[k] \in Clause
  BY <1>2, ProgramFacts DEF ClausesOf
<1> HIDE DEF Bag
<1> QED
  BY <1>2, <1>3 DEF FrameOK, ClausesOf

LEMMA BodyFacts ==
    ASSUME NEW p \in Program, NEW f, FrameOK(p, f), f.clause <= Len(ClausesOf(p, f))
    PROVE  /\ ClausesOf(p, f)[f.clause] \in Clause /\ ClausesOf(p, f)[f.clause].needs = BodyOf(p, f)
           /\ Len(BodyOf(p, f)) \in 0..2
           /\ BodyOf(p, f) = << >> <=> Len(BodyOf(p, f)) = 0
           /\ \A i \in 1..Len(BodyOf(p, f)) :
                BodyOf(p, f)[i] \in Calls /\ BodyOf(p, f)[i] \in Premises(p, f.call)
           /\ ClausesOf(p, f)[f.clause].fact \in Answers
<1>1. f.clause \in 1..Len(p.clauses[f.call]) /\ f.call \in Calls
  BY FrameFacts
<1>2. p.clauses[f.call][f.clause] \in Clause
  BY <1>1, ProgramFacts
<1>3. \A i \in 1..Len(p.clauses[f.call][f.clause].needs) :
        p.clauses[f.call][f.clause].needs[i] \in Premises(p, f.call)
  BY <1>1, PremiseFacts
<1> QED
  BY <1>2, <1>3, ClauseFacts DEF BodyOf, ClausesOf

\* The results b are added, and the frame moves to the next clause or evaluates the
\* second premise of the clause (again).
Moved(f, b, g) == g.bag = Plus(f.bag, b) /\ g.clause = f.clause + 1 /\ g.need = 1 /\ g.left = 1
Stayed(f, b, g, left) == g.bag = Plus(f.bag, b) /\ g.clause = f.clause /\ g.need = 2 /\ g.left = left

\* The first premise of two has answers, it has none, the second is evaluated again,
\* or the clause is done.
HasFirst(p, f, b, g) ==
    f.need = 1 /\ Len(BodyOf(p, f)) = 2 /\ NumAnswers(b) > 0 /\ Stayed(f, OnlyErrors(b), g, NumAnswers(b))
NoFirst(p, f, b, g) == f.need = 1 /\ Len(BodyOf(p, f)) = 2 /\ NumAnswers(b) = 0 /\ Moved(f, b, g)
AgainSecond(p, f, b, g) == f.need = 2 /\ Len(BodyOf(p, f)) = 2 /\ f.left > 1 /\ Stayed(f, b, g, f.left - 1)
ClauseDone(p, f, b, g) == f.need = Len(BodyOf(p, f)) /\ f.left = 1 /\ Moved(f, b, g)

Took(p, f, b, peak, g) ==
    /\ g \in FrameSet /\ g.call = f.call /\ g.tabled = f.tabled
    /\ g.peak = IF peak > f.peak THEN peak ELSE f.peak
    /\ HasFirst(p, f, b, g) \/ NoFirst(p, f, b, g) \/ AgainSecond(p, f, b, g) \/ ClauseDone(p, f, b, g)

LEMMA TakeCases ==
    ASSUME program \in Program, NEW f, FrameOK(program, f), Waits(program, f), NEW b \in Bag, NEW peak \in Nat,
           NEW g, g = Take(f, b, peak)
    PROVE  Took(program, f, b, peak, g)
<1> DEFINE deep == [f EXCEPT !.peak = IF peak > @ THEN peak ELSE @]
           n == NumAnswers(b)
           body == BodyOf(program, f)
<1>1. f \in FrameSet
  BY DEF FrameOK
<1>2. /\ f.clause \in Nat /\ f.need \in {1, 2} /\ f.left \in Nat /\ f.left >= 1 /\ f.bag \in Bag
      /\ f.need = 1 => f.left = 1
      /\ f.need = 2 => Len(body) = 2
  BY FrameFacts
<1>3. n \in Nat
  BY NumAnswersType
<1>4. Len(body) \in 0..2 /\ f.need <= Len(body)
  BY BodyFacts DEF Waits
<1>5. Plus(f.bag, b) \in Bag /\ Plus(f.bag, OnlyErrors(b)) \in Bag
  BY <1>2, BagTypes
<1>6. /\ deep \in FrameSet /\ deep.call = f.call /\ deep.tabled = f.tabled /\ deep.clause = f.clause
      /\ deep.need = f.need /\ deep.left = f.left /\ deep.bag = f.bag
      /\ deep.peak = IF peak > f.peak THEN peak ELSE f.peak
  BY <1>1 DEF FrameSet
<1>7. Take(f, b, peak) =
        CASE f.need < Len(body) /\ n > 0 ->
                [deep EXCEPT !.bag = Plus(@, OnlyErrors(b)), !.need = @ + 1, !.left = n]
          [] f.need < Len(body) /\ n = 0 -> NextClause(deep, b)
          [] f.need = Len(body) /\ f.left > 1 -> [deep EXCEPT !.bag = Plus(@, b), !.left = @ - 1]
          [] OTHER -> NextClause(deep, b)
  BY DEF Take, Body, Clauses, BodyOf, ClausesOf
<1> HIDE DEF deep, n, body, FrameSet
<1> DEFINE some == Plus(f.bag, OnlyErrors(b))
           all == Plus(f.bag, b)
           next == f.clause + 1
           less == f.left - 1
<1>8. some \in Bag /\ all \in Bag /\ next \in Nat /\ (f.left > 1 => less \in Nat \ {0}) /\ (n > 0 => n \in Nat \ {0})
  BY <1>2, <1>3, <1>5
<1>9. deep \in FrameSet
  BY <1>6
<1>10. f.need = 1 /\ Len(body) = 2 /\ n > 0 => Take(f, b, peak) = [deep EXCEPT !.bag = some, !.need = 2, !.left = n]
  BY <1>6, <1>7
<1>11. f.need = 2 /\ f.left > 1 => Take(f, b, peak) = [deep EXCEPT !.bag = all, !.left = less]
  BY <1>2, <1>6, <1>7
<1>12. (f.need = 1 /\ Len(body) = 2 /\ n = 0) \/ (f.need = Len(body) /\ f.left = 1) =>
            Take(f, b, peak) = [deep EXCEPT !.bag = all, !.clause = next, !.need = 1, !.left = 1]
  <2>1. NextClause(deep, b) = [deep EXCEPT !.bag = all, !.clause = next, !.need = 1, !.left = 1]
    BY <1>6 DEF NextClause
  <2>2. CASE f.need = 1 /\ Len(body) = 2 /\ n = 0
    BY <1>7, <2>1, <2>2
  <2>3. CASE f.need = Len(body) /\ f.left = 1
    BY <1>4, <1>7, <2>1, <2>3
  <2> QED
    BY <2>2, <2>3
<1> HIDE DEF some, all, next, less
<1>13. CASE f.need = 1 /\ Len(body) = 2 /\ n > 0
  <2>1. g = [deep EXCEPT !.bag = some, !.need = 2, !.left = n] /\ n \in Nat \ {0}
    BY <1>8, <1>10, <1>13
  <2>2. /\ g \in FrameSet /\ g.call = deep.call /\ g.tabled = deep.tabled /\ g.peak = deep.peak
        /\ g.bag = some /\ g.clause = deep.clause /\ g.need = 2 /\ g.left = n
    BY <1>8, <1>9, <2>1 DEF FrameSet
  <2> QED
    BY <1>6, <1>13, <2>2 DEF n, body, some, Took, HasFirst, Stayed
<1>14. ASSUME g = [deep EXCEPT !.bag = all, !.clause = next, !.need = 1, !.left = 1]
       PROVE  /\ g \in FrameSet /\ g.call = f.call /\ g.tabled = f.tabled /\ g.peak = deep.peak
              /\ g.bag = all /\ g.clause = next /\ g.need = 1 /\ g.left = 1
  <2>1. g = [call |-> deep.call, tabled |-> deep.tabled, clause |-> next, need |-> 1, left |-> 1,
             bag |-> all, peak |-> deep.peak]
    BY <1>14, <1>9 DEF FrameSet
  <2>2. /\ deep.call \in Calls /\ deep.tabled \in BOOLEAN /\ deep.peak \in Nat
        /\ 1 \in {1, 2} /\ 1 \in Nat \ {0}
    BY <1>9 DEF FrameSet
  <2>3. g \in FrameSet
    BY <1>8, <2>1, <2>2 DEF FrameSet
  <2> QED
    BY <1>6, <2>1, <2>3
<1>15. CASE f.need = 1 /\ Len(body) = 2 /\ n = 0
  BY <1>6, <1>12, <1>14, <1>15 DEF n, body, all, next, Took, NoFirst, Moved
<1>16. CASE f.need = Len(body) /\ f.left = 1
  BY <1>6, <1>12, <1>14, <1>16 DEF n, body, all, next, Took, ClauseDone, Moved
<1>17. CASE f.need = 2 /\ f.left > 1
  <2>1. g = [deep EXCEPT !.bag = all, !.left = less] /\ less \in Nat \ {0}
    BY <1>8, <1>11, <1>17
  <2>2. /\ g \in FrameSet /\ g.call = deep.call /\ g.tabled = deep.tabled /\ g.peak = deep.peak
        /\ g.bag = all /\ g.clause = deep.clause /\ g.need = deep.need /\ g.left = less
    BY <1>8, <1>9, <2>1 DEF FrameSet
  <2> QED
    BY <1>2, <1>6, <1>17, <2>2 DEF body, all, less, Took, AgainSecond, Stayed
<1> QED
  <2>1. f.need = 1 => Len(body) = 1 \/ Len(body) = 2
    BY <1>4
  <2>2. n = 0 \/ n > 0
    BY <1>3
  <2>3. \/ f.need = 1 /\ Len(body) = 2 /\ n > 0
        \/ f.need = 1 /\ Len(body) = 2 /\ n = 0
        \/ f.need = 2 /\ f.left > 1
        \/ f.need = Len(body) /\ f.left = 1
    <3>1. CASE f.need = 1
      BY <1>2, <2>1, <2>2, <3>1
    <3>2. CASE f.need = 2
      BY <1>2, <3>2
    <3> QED
      BY <1>2, <3>1, <3>2
  <2> QED
    BY <1>13, <1>15, <1>16, <1>17, <2>3

\* The premise a frame waits for, and what it stands for in its clause.
LEMMA WaitFacts ==
    ASSUME NEW p \in Program, NEW f, FrameOK(p, f), Waits(p, f)
    PROVE  /\ f.clause \in 1..Len(ClausesOf(p, f)) /\ Len(BodyOf(p, f)) \in {1, 2}
           /\ PremiseOf(p, f) \in Calls /\ PremiseOf(p, f) \in Premises(p, f.call)
           /\ f.need = 1 => PremiseOf(p, f) = BodyOf(p, f)[1]
           /\ f.need = 2 => PremiseOf(p, f) = BodyOf(p, f)[2] /\ BodyOf(p, f)[1] \in Calls
<1>1. /\ f.clause \in Nat /\ f.clause >= 1 /\ f.need \in {1, 2} /\ Len(ClausesOf(p, f)) \in Nat
      /\ f.need = 2 => Len(BodyOf(p, f)) = 2
  BY FrameFacts
<1>2. f.clause <= Len(ClausesOf(p, f)) /\ f.need <= Len(BodyOf(p, f))
  BY DEF Waits
<1>3. /\ Len(BodyOf(p, f)) \in 0..2
      /\ \A i \in 1..Len(BodyOf(p, f)) :
            BodyOf(p, f)[i] \in Calls /\ BodyOf(p, f)[i] \in Premises(p, f.call)
  BY <1>2, BodyFacts
<1>4. f.need \in 1..Len(BodyOf(p, f))
  BY <1>1, <1>2, <1>3
<1> QED
  BY <1>1, <1>2, <1>3, <1>4 DEF PremiseOf

LEMMA TakeShape ==
    ASSUME NEW p \in Program, NEW f, FrameOK(p, f), Waits(p, f), NEW b \in Bag,
           NEW i \in Nat, f.peak \in i..MaxDepth, NEW peak \in i..MaxDepth,
           NEW g, Took(p, f, b, peak, g)
    PROVE  FrameOK(p, g) /\ g.peak \in i..MaxDepth
<1>1. /\ g \in FrameSet /\ g.call = f.call /\ g.tabled = f.tabled
      /\ g.peak = IF peak > f.peak THEN peak ELSE f.peak
      /\ HasFirst(p, f, b, g) \/ NoFirst(p, f, b, g) \/ AgainSecond(p, f, b, g) \/ ClauseDone(p, f, b, g)
  BY DEF Took
<1>2. g.peak \in i..MaxDepth
  BY <1>1
<1>3. /\ f.clause \in Nat /\ f.clause >= 1 /\ f.clause <= Len(ClausesOf(p, f)) /\ Len(ClausesOf(p, f)) \in Nat
      /\ f.tabled => p.kind[f.call] \in {"ground", "moded"}
  BY FrameFacts DEF Waits, FrameOK
<1>4. ClausesOf(p, g) = ClausesOf(p, f) /\ (g.clause = f.clause => BodyOf(p, g) = BodyOf(p, f))
  BY <1>1 DEF ClausesOf, BodyOf
<1>5. CASE HasFirst(p, f, b, g) \/ AgainSecond(p, f, b, g)
  <2>1. g.clause = f.clause /\ g.need = 2 /\ Len(BodyOf(p, f)) = 2
    BY <1>5 DEF HasFirst, AgainSecond, Stayed
  <2>2. g.clause \in 1..Len(ClausesOf(p, g)) + 1
    BY <1>3, <1>4, <2>1
  <2> QED
    BY <1>1, <1>2, <1>3, <1>4, <2>1, <2>2 DEF FrameOK
<1>6. CASE NoFirst(p, f, b, g) \/ ClauseDone(p, f, b, g)
  <2>1. g.clause = f.clause + 1 /\ g.need = 1 /\ g.left = 1
    BY <1>6 DEF NoFirst, ClauseDone, Moved
  <2>2. g.clause \in 1..Len(ClausesOf(p, g)) + 1
    BY <1>3, <1>4, <2>1
  <2> QED
    BY <1>1, <1>2, <1>3, <2>1, <2>2 DEF FrameOK
<1> QED
  BY <1>1, <1>5, <1>6

\* The answers of a clause whose premises are answered by derivations have one.
LEMMA ClauseDerived ==
    ASSUME NEW p \in Program, NEW f, FrameOK(p, f), f.clause <= Len(ClausesOf(p, f)), FrameDerived(p, f),
           NEW b \in Bag, NEW g, g.call = f.call, Moved(f, b, g),
           Support(b) \cap Answers \subseteq ClauseAnswers(ClausesOf(p, f)[f.clause], Least(p))
    PROVE  FrameDerived(p, g)
<1>1. f.call \in Calls /\ f.clause \in 1..Len(p.clauses[f.call]) /\ f.bag \in Bag
  BY FrameFacts
<1>2. \A x \in ClauseAnswers(ClausesOf(p, f)[f.clause], Least(p)) : x \in Consequences(p, f.call, Least(p))
  BY <1>1, ConsequencesIs DEF ClausesOf
<1>3. Consequences(p, f.call, Least(p)) = Least(p)[f.call]
  BY <1>1, LeastFacts DEF Least
<1>4. Support(g.bag) = Support(f.bag) \cup Support(b)
  BY <1>1, Supports DEF Moved
<1>5. Support(f.bag) \cap Answers \subseteq Least(p)[f.call]
  BY DEF FrameDerived, Derived
<1>6. Support(g.bag) \cap Answers \subseteq Least(p)[g.call]
  BY <1>2, <1>3, <1>4, <1>5
<1> QED
  BY <1>6 DEF FrameDerived, Derived, Moved

LEMMA TakeDerived ==
    ASSUME NEW p \in Program, NEW f, FrameOK(p, f), Waits(p, f), FrameDerived(p, f),
           NEW b \in Bag, Derived(p, PremiseOf(p, f), Support(b)),
           NEW peak, NEW g, Took(p, f, b, peak, g)
    PROVE  FrameDerived(p, g)
<1> DEFINE body == BodyOf(p, f)
           cl == ClausesOf(p, f)[f.clause]
           least == Least(p)
<1>1. /\ f.call \in Calls /\ f.bag \in Bag /\ f.clause \in 1..Len(p.clauses[f.call])
      /\ f.need \in {1, 2} /\ Len(body) \in {1, 2}
  BY FrameFacts, WaitFacts DEF ClausesOf
<1>2. g.call = f.call
  BY DEF Took
<1>3. Support(b) \cap Answers \subseteq least[PremiseOf(p, f)]
  BY DEF Derived
<1>4. /\ Support(f.bag) \cap Answers \subseteq least[f.call]
      /\ f.need = 2 => least[body[1]] # {}
  BY DEF FrameDerived, Derived
<1>5. cl.needs = body /\ cl \in Clause /\ (body = << >> <=> Len(body) = 0)
  BY BodyFacts DEF Waits
<1>6. f.clause <= Len(ClausesOf(p, f))
  BY DEF Waits
<1>7. \A x \in ClauseAnswers(cl, least) : x \in least[f.call]
  <2>1. \A x \in ClauseAnswers(cl, least) : x \in Consequences(p, f.call, least)
    BY <1>1, ConsequencesIs DEF ClausesOf
  <2> QED
    BY <1>1, <2>1, LeastFacts DEF Least
<1>8. f.need = Len(body) => ClauseAnswers(cl, least) = least[PremiseOf(p, f)]
  <2>1. CASE f.need = 1 /\ Len(body) = 1
    BY <1>5, <2>1, WaitFacts DEF ClauseAnswers
  <2>2. CASE f.need = 2 /\ Len(body) = 2
    BY <1>4, <1>5, <2>2, WaitFacts DEF ClauseAnswers
  <2> QED
    BY <1>1, <2>1, <2>2
<1> HIDE DEF body, cl, least
<1>9. CASE HasFirst(p, f, b, g)
  <2>1. /\ f.need = 1 /\ NumAnswers(b) > 0 /\ g.bag = Plus(f.bag, OnlyErrors(b))
        /\ g.clause = f.clause
    BY <1>9 DEF HasFirst, Stayed
  <2>2. Support(g.bag) = Support(f.bag) \cup (Support(b) \cap Errors)
    <3>1. OnlyErrors(b) \in Bag
      BY BagTypes
    <3>2. Support(g.bag) = Support(f.bag) \cup Support(OnlyErrors(b))
      BY <1>1, <2>1, <3>1, Supports
    <3> QED
      BY <3>2, Supports
  <2>3. Support(g.bag) \cap Answers \subseteq least[g.call]
    BY <1>2, <1>4, <2>2, ResultAssumption
  <2>4. Support(b) \cap Answers # {}
    BY <2>1, NumAnswersType
  <2>5. least[body[1]] # {}
    BY <1>3, <2>1, <2>4, WaitFacts DEF body
  <2>6. BodyOf(p, g) = body
    BY <1>2, <2>1 DEF BodyOf, ClausesOf, body
  <2> QED
    BY <2>3, <2>5, <2>6 DEF FrameDerived, Derived, least
<1>10. CASE NoFirst(p, f, b, g)
  <2>1. NumAnswers(b) = 0 /\ Moved(f, b, g)
    BY <1>10 DEF NoFirst
  <2>2. Support(b) \cap Answers = {}
    BY <2>1, NumAnswersType
  <2> QED
    BY <1>2, <1>6, <2>1, <2>2, ClauseDerived
<1>11. CASE AgainSecond(p, f, b, g)
  <2>1. f.need = 2 /\ Len(body) = 2 /\ g.bag = Plus(f.bag, b) /\ g.clause = f.clause
    BY <1>11 DEF AgainSecond, Stayed, body
  <2>2. Support(g.bag) = Support(f.bag) \cup Support(b)
    BY <1>1, <2>1, Supports
  <2>3. Support(g.bag) \cap Answers \subseteq least[g.call]
    BY <1>2, <1>3, <1>4, <1>7, <1>8, <2>1, <2>2
  <2>4. BodyOf(p, g) = body
    BY <1>2, <2>1 DEF BodyOf, ClausesOf, body
  <2> QED
    BY <1>4, <2>1, <2>3, <2>4 DEF FrameDerived, Derived, least
<1>12. CASE ClauseDone(p, f, b, g)
  <2>1. f.need = Len(body) /\ Moved(f, b, g)
    BY <1>12 DEF ClauseDone, body
  <2>2. Support(b) \cap Answers \subseteq ClauseAnswers(cl, least)
    BY <1>3, <1>8, <2>1
  <2> QED
    BY <1>2, <1>6, <2>1, <2>2, ClauseDerived DEF cl, least
<1> QED
  BY <1>9, <1>10, <1>11, <1>12 DEF Took

LEMMA ModelFacts ==
    ASSUME NEW p, NEW act, NEW j, NEW m \in Models(p, act, j), NEW c \in Calls
    PROVE  /\ m \in Interpretation /\ m[c] \subseteq Answers /\ m[c] \subseteq Least(p)[c]
           /\ ~ (j > 0 /\ c = act[j].call) => m[c] \subseteq Consequences(p, c, m)
           /\ j > 0 /\ c = act[j].call /\ act[j].cyclic => m[c] \subseteq act[j].known
<1>1. m \in Interpretation
  BY DEF Models
<1>2. m[c] \subseteq Answers
  BY <1>1 DEF Interpretation
<1> QED
  BY <1>1, <1>2 DEF Models

\* Errors are not forgotten.
LEMMA ErrorsOfPlus ==
    ASSUME NEW b \in Bag, NEW d \in Bag
    PROVE  /\ Plus(b, d)[Refused] = b[Refused] + d[Refused]
           /\ Plus(b, d)[Overflow] = b[Overflow] + d[Overflow]
           /\ OnlyErrors(d)[Refused] = d[Refused] /\ OnlyErrors(d)[Overflow] = d[Overflow]
           /\ Plus(b, d)[Refused] = 0 => b[Refused] = 0 /\ d[Refused] = 0
           /\ Plus(b, d)[Overflow] = 0 => b[Overflow] = 0 /\ d[Overflow] = 0
           /\ NoErrors(Plus(b, d)) => NoErrors(b) /\ NoErrors(d)
<1>1. /\ b[Overflow] \in Nat /\ b[Refused] \in Nat /\ d[Overflow] \in Nat /\ d[Refused] \in Nat
      /\ NoErrors(b) <=> b[Overflow] = 0 /\ b[Refused] = 0
      /\ NoErrors(d) <=> d[Overflow] = 0 /\ d[Refused] = 0
  BY ErrorsInSupport
<1>2. /\ Plus(b, d)[Refused] = b[Refused] + d[Refused] /\ Plus(b, d)[Overflow] = b[Overflow] + d[Overflow]
      /\ OnlyErrors(d)[Refused] = d[Refused] /\ OnlyErrors(d)[Overflow] = d[Overflow]
  BY BagValues, ResultFacts
<1>3. Plus(b, d) \in Bag
  BY BagTypes
<1>4. NoErrors(Plus(b, d)) <=> Plus(b, d)[Overflow] = 0 /\ Plus(b, d)[Refused] = 0
  BY <1>3, ErrorsInSupport
<1> HIDE DEF Bag
<1> QED
  BY <1>1, <1>2, <1>4

\* A frame moves on with results that hold what its clause gives.
LEMMA ClauseWhole ==
    ASSUME NEW p \in Program, NEW f, FrameOK(p, f), NEW act, NEW j, FrameWhole(p, act, j, f),
           NEW b \in Bag, NEW g, g.call = f.call, Moved(f, b, g),
           ~ Mixed(p) /\ NoErrors(b) =>
                \A m \in Models(p, act, j) : ClauseAnswers(ClausesOf(p, f)[f.clause], m) \subseteq Support(b)
    PROVE  FrameWhole(p, act, j, g)
<1> SUFFICES ASSUME ~ Mixed(p), NoErrors(g.bag), NEW m \in Models(p, act, j), NEW k \in 1..(g.clause - 1)
             PROVE  ClauseAnswers(ClausesOf(p, g)[k], m) \subseteq Support(g.bag)
  BY DEF FrameWhole
<1>1. f.bag \in Bag /\ f.clause \in Nat /\ f.clause >= 1
  BY FrameFacts
<1>2. g.bag = Plus(f.bag, b) /\ g.clause = f.clause + 1 /\ ClausesOf(p, g) = ClausesOf(p, f)
  BY DEF Moved, ClausesOf
<1>3. NoErrors(f.bag) /\ NoErrors(b)
  BY <1>1, <1>2, ErrorsOfPlus
<1>4. Support(g.bag) = Support(f.bag) \cup Support(b)
  BY <1>1, <1>2, Supports
<1>5. CASE k = f.clause
  BY <1>2, <1>3, <1>4, <1>5
<1>6. CASE k # f.clause
  <2>1. k \in 1..(f.clause - 1)
    BY <1>1, <1>2, <1>6
  <2>2. ClauseAnswers(ClausesOf(p, f)[k], m) \subseteq Support(f.bag)
    BY <1>3, <2>1 DEF FrameWhole
  <2> QED
    BY <1>2, <1>4, <2>2
<1> QED
  BY <1>5, <1>6

LEMMA TakeWhole ==
    ASSUME NEW p \in Program, NEW f, FrameOK(p, f), Waits(p, f), NEW act, NEW j, FrameWhole(p, act, j, f),
           NEW b \in Bag, Whole(p, act, j, PremiseOf(p, f), b),
           NEW peak, NEW g, Took(p, f, b, peak, g)
    PROVE  FrameWhole(p, act, j, g)
<1> DEFINE body == BodyOf(p, f)
           cl == ClausesOf(p, f)[f.clause]
<1>1. f.need \in {1, 2} /\ f.bag \in Bag /\ Len(body) \in {1, 2} /\ OnlyErrors(b) \in Bag
  BY FrameFacts, WaitFacts, BagTypes
<1>2. g.call = f.call
  BY DEF Took
<1>3. cl.needs = body /\ cl \in Clause /\ (body = << >> <=> Len(body) = 0)
  BY BodyFacts DEF Waits
<1>4. PremiseOf(p, f) \in Calls /\ body[1] \in Calls
  BY <1>1, WaitFacts
<1> HIDE DEF body, cl
<1>5. CASE HasFirst(p, f, b, g) \/ AgainSecond(p, f, b, g)
  <2>1. PICK d \in {b, OnlyErrors(b)} : g.bag = Plus(f.bag, d) /\ g.clause = f.clause
    BY <1>5 DEF HasFirst, AgainSecond, Stayed
  <2>2. d \in Bag
    BY <1>1, <2>1
  <2>3. ClausesOf(p, g) = ClausesOf(p, f)
    BY <1>2 DEF ClausesOf
  <2>4. Support(g.bag) = Support(f.bag) \cup Support(d)
    BY <1>1, <2>1, <2>2, Supports
  <2>5. NoErrors(g.bag) => NoErrors(f.bag)
    BY <1>1, <2>1, <2>2, ErrorsOfPlus
  <2> QED
    BY <2>1, <2>3, <2>4, <2>5 DEF FrameWhole
<1>6. CASE NoFirst(p, f, b, g)
  <2>1. f.need = 1 /\ Len(body) = 2 /\ NumAnswers(b) = 0 /\ Moved(f, b, g)
    BY <1>6 DEF NoFirst, body
  <2>2. ASSUME ~ Mixed(p), NoErrors(b), NEW m \in Models(p, act, j)
        PROVE  ClauseAnswers(cl, m) \subseteq Support(b)
    <3>1. Support(b) \cap Answers = {}
      BY <2>1, NumAnswersType
    <3>2. m[body[1]] \subseteq Support(b)
      BY <2>1, <2>2, WaitFacts DEF Whole, body
    <3>3. m[body[1]] \subseteq Answers
      BY <1>4, ModelFacts
    <3>4. m[body[1]] = {}
      BY <3>1, <3>2, <3>3
    <3> QED
      BY <1>3, <2>1, <3>4 DEF ClauseAnswers
  <2> QED
    BY <1>2, <2>1, <2>2, ClauseWhole DEF cl
<1>7. CASE ClauseDone(p, f, b, g)
  <2>1. f.need = Len(body) /\ Moved(f, b, g)
    BY <1>7 DEF ClauseDone, body
  <2>2. ASSUME ~ Mixed(p), NoErrors(b), NEW m \in Models(p, act, j)
        PROVE  ClauseAnswers(cl, m) \subseteq Support(b)
    <3>1. m[PremiseOf(p, f)] \subseteq Support(b)
      BY <2>2 DEF Whole
    <3>2. CASE Len(body) = 1
      BY <1>1, <1>3, <2>1, <3>1, <3>2, WaitFacts DEF ClauseAnswers, body
    <3>3. CASE Len(body) = 2
      BY <1>1, <1>3, <2>1, <3>1, <3>3, WaitFacts DEF ClauseAnswers, body
    <3> QED
      BY <1>1, <3>2, <3>3
  <2> QED
    BY <1>2, <2>1, <2>2, ClauseWhole DEF cl
<1> QED
  BY <1>5, <1>6, <1>7 DEF Took

\* The sum of the clauses before the frame's.
LEMMA BeforeFacts ==
    ASSUME NEW p \in Program, NEW f, FrameOK(p, f), NEW n \in Depths
    PROVE  /\ Before(p, f, n) \in Bag
           /\ f.clause <= Len(ClausesOf(p, f)) =>
                /\ ClauseBag(ClausesOf(p, f)[f.clause], Levels(p)[n]) \in Bag
                /\ Sums(ClauseBags(p, f.call, Levels(p)[n]))[f.clause]
                      = Plus(Before(p, f, n), ClauseBag(ClausesOf(p, f)[f.clause], Levels(p)[n]))
<1> DEFINE bags == ClauseBags(p, f.call, Levels(p)[n])
<1>1. /\ f.call \in Calls /\ f.clause \in Nat /\ f.clause >= 1 /\ f.clause <= Len(p.clauses[f.call]) + 1
      /\ Len(p.clauses[f.call]) \in Nat /\ ClausesOf(p, f) = p.clauses[f.call]
  BY FrameFacts
<1>2. Levels(p)[n] \in [Calls -> Bag]
  BY LevelFacts
<1>3. /\ bags \in Seq(Bag) /\ Len(bags) = Len(p.clauses[f.call])
      /\ \A i \in 1..Len(p.clauses[f.call]) : bags[i] = ClauseBag(p.clauses[f.call][i], Levels(p)[n])
  BY <1>1, <1>2, ClauseBagsType
<1> HIDE DEF bags
<1>4. /\ \A i \in 1..Len(bags) : Sums(bags)[i] = Plus(Sums(bags)[i - 1], bags[i])
      /\ \A i \in 0..Len(bags) : Sums(bags)[i] \in Bag
  BY <1>3, SumsFacts
<1>5. f.clause - 1 \in 0..Len(bags)
  BY <1>1, <1>3
<1>6. Before(p, f, n) = Sums(bags)[f.clause - 1]
  BY DEF Before, bags
<1>7. ASSUME f.clause <= Len(ClausesOf(p, f))
      PROVE  /\ ClauseBag(ClausesOf(p, f)[f.clause], Levels(p)[n]) \in Bag
             /\ Sums(bags)[f.clause] = Plus(Before(p, f, n), ClauseBag(ClausesOf(p, f)[f.clause], Levels(p)[n]))
  <2>1. f.clause \in 1..Len(bags) /\ bags[f.clause] \in Bag
    BY <1>1, <1>3, <1>7
  <2>2. bags[f.clause] = ClauseBag(ClausesOf(p, f)[f.clause], Levels(p)[n])
    BY <1>1, <1>3, <2>1
  <2>3. Sums(bags)[f.clause] = Plus(Sums(bags)[f.clause - 1], bags[f.clause])
    BY <1>4, <2>1
  <2> QED
    BY <1>6, <2>1, <2>2, <2>3
<1> QED
  BY <1>4, <1>5, <1>6, <1>7 DEF bags

\* With the results of a clause added, a frame is at the sum of one clause more.
LEMMA ClausePartial ==
    ASSUME NEW p \in Program, NEW f, FrameOK(p, f), f.clause <= Len(ClausesOf(p, f)), NEW n \in Depths,
           NEW b \in Bag, NEW g, g.call = f.call, Moved(f, b, g),
           \A r \in Results : f.bag[r] + b[r]
                = Before(p, f, n)[r] + ClauseBag(ClausesOf(p, f)[f.clause], Levels(p)[n])[r]
    PROVE  Partial(p, g, n)
<1> DEFINE cb == ClauseBag(ClausesOf(p, f)[f.clause], Levels(p)[n])
           before == Before(p, f, n)
           sum == Sums(ClauseBags(p, f.call, Levels(p)[n]))[f.clause]
<1>1. before \in Bag /\ cb \in Bag /\ sum = Plus(before, cb)
  BY BeforeFacts
<1>2. f.bag \in Bag /\ f.clause \in Nat
  BY FrameFacts
<1>3. g.bag = Plus(f.bag, b) /\ g.clause - 1 = f.clause /\ g.need = 1
  BY <1>2 DEF Moved
<1> HIDE DEF cb, before, sum
<1>4. \A r \in Results : f.bag[r] + b[r] = before[r] + cb[r]
  BY DEF cb, before
<1>5. Plus(f.bag, b) = Plus(before, cb)
  BY <1>4 DEF Plus
<1>6. Before(p, g, n) = sum
  BY <1>3 DEF Before, sum
<1> QED
  BY <1>1, <1>3, <1>5, <1>6 DEF Partial

\* One evaluation of the second premise more.
LEMMA OnceMore ==
    ASSUME NEW u \in Nat, NEW l \in Nat, l <= u, l >= 1, NEW x \in Nat
    PROVE  (u - (l - 1)) * x = (u - l) * x + x
<1> DEFINE k == u - l
<1>1. k \in Nat /\ u - (l - 1) = k + 1
  OBVIOUS
<1> HIDE DEF k
<1>2. (k + 1) * x = k * x + x
  BY <1>1
<1> QED
  BY <1>1, <1>2 DEF k

\* What a clause with two premises gives.
LEMMA ClauseBagOf ==
    ASSUME NEW p \in Program, NEW f, FrameOK(p, f), Waits(p, f), NEW n \in Depths, NEW r \in Results
    PROVE  /\ FirstOf(p, f, n) \in Bag
           /\ Len(BodyOf(p, f)) = 1 => ClauseBag(ClausesOf(p, f)[f.clause], Levels(p)[n]) = FirstOf(p, f, n)
           /\ Len(BodyOf(p, f)) = 2 =>
                /\ SecondOf(p, f, n) \in Bag
                /\ ClauseBag(ClausesOf(p, f)[f.clause], Levels(p)[n])[r]
                     = (IF r \in Errors THEN FirstOf(p, f, n)[r] ELSE 0)
                         + NumAnswers(FirstOf(p, f, n)) * SecondOf(p, f, n)[r]
<1>1. f.clause <= Len(ClausesOf(p, f))
  BY DEF Waits
<1>2. /\ ClausesOf(p, f)[f.clause].needs = BodyOf(p, f) /\ Len(BodyOf(p, f)) \in 0..2
      /\ BodyOf(p, f) = << >> <=> Len(BodyOf(p, f)) = 0
      /\ \A i \in 1..Len(BodyOf(p, f)) : BodyOf(p, f)[i] \in Calls
  BY <1>1, BodyFacts
<1>3. Len(BodyOf(p, f)) \in {1, 2}
  BY WaitFacts
<1>4. Levels(p)[n] \in [Calls -> Bag]
  BY LevelFacts
<1>5. FirstOf(p, f, n) \in Bag /\ (Len(BodyOf(p, f)) = 2 => SecondOf(p, f, n) \in Bag)
  BY <1>2, <1>3, <1>4 DEF FirstOf, SecondOf
<1>6. ASSUME Len(BodyOf(p, f)) = 1
      PROVE  ClauseBag(ClausesOf(p, f)[f.clause], Levels(p)[n]) = FirstOf(p, f, n)
  BY <1>2, <1>6 DEF ClauseBag, FirstOf
<1>7. ASSUME Len(BodyOf(p, f)) = 2
      PROVE  ClauseBag(ClausesOf(p, f)[f.clause], Levels(p)[n])
                = Plus(OnlyErrors(FirstOf(p, f, n)), Times(NumAnswers(FirstOf(p, f, n)), SecondOf(p, f, n)))
  BY <1>2, <1>7 DEF ClauseBag, FirstOf, SecondOf
<1> QED
  BY <1>5, <1>6, <1>7, JoinValues

LEMMA JoinedValue ==
    ASSUME NEW p, NEW f, NEW n, NEW r \in Results
    PROVE  Joined(p, f, n)[r] = (IF r \in Errors THEN FirstOf(p, f, n)[r] ELSE 0)
                                  + (NumAnswers(FirstOf(p, f, n)) - f.left) * SecondOf(p, f, n)[r]
BY BagValues DEF Joined

\* A premise answered as without tables leaves the frame as without tables.
LEMMA TakePartial ==
    ASSUME NEW p \in Program, NEW f, FrameOK(p, f), Waits(p, f), NEW n \in Depths, Partial(p, f, n),
           NEW b \in Bag, b = Levels(p)[n][PremiseOf(p, f)],
           NEW peak, NEW g, Took(p, f, b, peak, g)
    PROVE  Partial(p, g, n)
<1> DEFINE first == FirstOf(p, f, n)
           second == SecondOf(p, f, n)
           before == Before(p, f, n)
           cb == ClauseBag(ClausesOf(p, f)[f.clause], Levels(p)[n])
           u == NumAnswers(FirstOf(p, f, n))
           body == BodyOf(p, f)
<1>1. /\ f.need \in {1, 2} /\ f.bag \in Bag /\ Len(body) \in {1, 2} /\ f.left \in Nat /\ f.left >= 1
      /\ f.need = 2 => Len(body) = 2
      /\ f.clause <= Len(ClausesOf(p, f))
  BY FrameFacts, WaitFacts DEF Waits
<1>2. g.call = f.call
  BY DEF Took
<1>3. /\ f.need = 1 => b = first
      /\ f.need = 2 => b = second
  BY WaitFacts DEF FirstOf, SecondOf
<1>4. before \in Bag /\ cb \in Bag
  BY <1>1, BeforeFacts
<1>5. first \in Bag /\ (Len(body) = 2 => second \in Bag)
  BY ClauseBagOf, ResultFacts
<1>6. u \in Nat
  BY <1>5, NumAnswersType
<1>7. \A r \in Results : /\ before[r] \in Nat /\ cb[r] \in Nat /\ first[r] \in Nat /\ b[r] \in Nat /\ f.bag[r] \in Nat
                         /\ Len(body) = 2 => second[r] \in Nat
  BY <1>1, <1>4, <1>5 DEF Bag
<1>8. \A r \in Results :
        /\ Len(body) = 1 => cb[r] = first[r]
        /\ Len(body) = 2 => cb[r] = (IF r \in Errors THEN first[r] ELSE 0) + u * second[r]
  BY ClauseBagOf
<1>9. f.need = 1 => f.bag = before
  BY DEF Partial
<1>10. f.need = 2 => f.left <= u
  BY DEF Partial
<1>11. f.need = 2 => \A r \in Results :
        f.bag[r] = before[r] + ((IF r \in Errors THEN first[r] ELSE 0) + (u - f.left) * second[r])
  <2>1. f.need = 2 => f.bag = Plus(before, Joined(p, f, n))
    BY DEF Partial
  <2> QED
    BY <2>1, BagValues, JoinedValue
<1>12. g.clause = f.clause => /\ FirstOf(p, g, n) = first /\ SecondOf(p, g, n) = second
                              /\ Before(p, g, n) = before
  BY <1>2 DEF FirstOf, SecondOf, Before, BodyOf, ClausesOf
<1>13. g.clause = f.clause => \A r \in Results :
         Joined(p, g, n)[r] = (IF r \in Errors THEN first[r] ELSE 0) + (u - g.left) * second[r]
  BY <1>12, JoinedValue
<1>14. ASSUME g.clause = f.clause, g.need = 2, g.left <= u, NEW d, g.bag = Plus(f.bag, d),
              \A r \in Results : f.bag[r] + d[r] = before[r] + Joined(p, g, n)[r]
       PROVE  Partial(p, g, n)
  <2>1. Plus(f.bag, d) = Plus(before, Joined(p, g, n))
    BY <1>14 DEF Plus
  <2> QED
    BY <1>12, <1>14, <2>1 DEF Partial
<1>15. ASSUME Moved(f, b, g), \A r \in Results : f.bag[r] + b[r] = before[r] + cb[r]
       PROVE  Partial(p, g, n)
  BY <1>1, <1>2, <1>15, ClausePartial
<1> HIDE DEF first, second, before, cb, u, body
<1>16. CASE HasFirst(p, f, b, g)
  <2>1. f.need = 1 /\ Len(body) = 2 /\ g.bag = Plus(f.bag, OnlyErrors(b)) /\ g.clause = f.clause /\ g.need = 2
        /\ g.left = u
    BY <1>3, <1>16 DEF HasFirst, Stayed, body, first, u
  <2>2. ASSUME NEW r \in Results
        PROVE  f.bag[r] + OnlyErrors(b)[r] = before[r] + Joined(p, g, n)[r]
    <3>1. (u - g.left) * second[r] = 0
      BY <1>6, <1>7, <2>1
    <3>2. Joined(p, g, n)[r] = IF r \in Errors THEN first[r] ELSE 0
      BY <1>7, <1>13, <2>1, <3>1
    <3> QED
      BY <1>3, <1>9, <2>1, <3>2, BagValues
  <2> QED
    BY <1>6, <1>14, <2>1, <2>2
<1>17. CASE NoFirst(p, f, b, g)
  <2>1. f.need = 1 /\ Len(body) = 2 /\ Moved(f, b, g) /\ u = 0
    BY <1>3, <1>17 DEF NoFirst, body, first, u
  <2>2. \A r \in Answers : b[r] = 0
    <3>1. NumAnswers(b) = 0
      BY <1>17 DEF NoFirst
    <3>2. Support(b) \cap Answers = {}
      BY <3>1, NumAnswersType
    <3> QED
      BY <1>7, <3>2, ResultFacts DEF Support
  <2>3. ASSUME NEW r \in Results
        PROVE  f.bag[r] + b[r] = before[r] + cb[r]
    <3>1. u * second[r] = 0
      BY <1>7, <2>1
    <3>2. cb[r] = IF r \in Errors THEN first[r] ELSE 0
      BY <1>7, <1>8, <2>1, <3>1
    <3> QED
      BY <1>3, <1>9, <2>1, <2>2, <3>2, ResultFacts
  <2> QED
    BY <1>15, <2>1, <2>3
<1>18. CASE AgainSecond(p, f, b, g)
  <2>1. f.need = 2 /\ Len(body) = 2 /\ f.left > 1 /\ g.bag = Plus(f.bag, b) /\ g.clause = f.clause /\ g.need = 2
        /\ g.left = f.left - 1
    BY <1>18 DEF AgainSecond, Stayed, body
  <2>2. ASSUME NEW r \in Results
        PROVE  f.bag[r] + b[r] = before[r] + Joined(p, g, n)[r]
    <3> DEFINE e == IF r \in Errors THEN first[r] ELSE 0
               less == (u - f.left) * second[r]
               more == (u - (f.left - 1)) * second[r]
    <3>1. more = less + second[r]
      BY <1>1, <1>6, <1>7, <1>10, <2>1, OnceMore
    <3>2. f.bag[r] = before[r] + (e + less)
      BY <1>11, <2>1
    <3>3. Joined(p, g, n)[r] = e + more
      BY <1>13, <2>1
    <3>4. e \in Nat /\ b[r] = second[r] /\ second[r] \in Nat /\ before[r] \in Nat
      BY <1>3, <1>7, <2>1
    <3>5. less \in Int
      BY <1>1, <1>6, <3>4
    <3> HIDE DEF e, less, more
    <3> QED
      BY <3>1, <3>2, <3>3, <3>4, <3>5
  <2> QED
    BY <1>1, <1>6, <1>10, <1>14, <2>1, <2>2
<1>19. CASE ClauseDone(p, f, b, g) /\ f.need = 1
  <2>1. Len(body) = 1 /\ Moved(f, b, g)
    BY <1>19 DEF ClauseDone, body
  <2>2. \A r \in Results : f.bag[r] + b[r] = before[r] + cb[r]
    BY <1>3, <1>8, <1>9, <1>19, <2>1
  <2> QED
    BY <1>15, <2>1, <2>2
<1>20. CASE ClauseDone(p, f, b, g) /\ f.need = 2
  <2>1. Len(body) = 2 /\ Moved(f, b, g) /\ f.left = 1
    BY <1>1, <1>20 DEF ClauseDone
  <2>2. ASSUME NEW r \in Results
        PROVE  f.bag[r] + b[r] = before[r] + cb[r]
    <3> DEFINE e == IF r \in Errors THEN first[r] ELSE 0
               less == (u - 1) * second[r]
               more == u * second[r]
    <3>1. more = less + second[r]
      <4>1. (u - (1 - 1)) * second[r] = (u - 1) * second[r] + second[r]
        BY <1>6, <1>7, <1>10, <1>20, <2>1, OnceMore
      <4> QED
        BY <1>6, <4>1
    <3>2. f.bag[r] = before[r] + (e + less)
      BY <1>11, <1>20, <2>1
    <3>3. cb[r] = e + more
      BY <1>8, <2>1
    <3>4. e \in Nat /\ b[r] = second[r] /\ second[r] \in Nat /\ before[r] \in Nat
      BY <1>3, <1>7, <1>20, <2>1
    <3>5. less \in Int
      BY <1>6, <3>4
    <3> HIDE DEF e, less, more
    <3> QED
      BY <3>1, <3>2, <3>3, <3>4, <3>5
  <2> QED
    BY <1>15, <2>1, <2>2
<1> QED
  BY <1>1, <1>16, <1>17, <1>18, <1>19, <1>20 DEF Took

\* What was taken keeps every error, and nothing less was cut.
LEMMA TookErrors ==
    ASSUME NEW p, NEW f, f.bag \in Bag, f.peak \in Nat, NEW b \in Bag, NEW peak \in Nat, NEW g, Took(p, f, b, peak, g)
    PROVE  /\ g.bag[Refused] = 0 => f.bag[Refused] = 0 /\ b[Refused] = 0
           /\ g.bag[Overflow] = 0 => f.bag[Overflow] = 0 /\ b[Overflow] = 0
           /\ g.peak \in Nat /\ f.peak <= g.peak /\ peak <= g.peak
<1>1. PICK d \in {b, OnlyErrors(b)} : g.bag = Plus(f.bag, d)
  BY DEF Took, HasFirst, NoFirst, AgainSecond, ClauseDone, Stayed, Moved
<1>2. d \in Bag
  BY <1>1, BagTypes
<1>3. d[Refused] = b[Refused] /\ d[Overflow] = b[Overflow]
  BY <1>1, ErrorsOfPlus
<1>4. /\ g.bag[Refused] = 0 => f.bag[Refused] = 0 /\ d[Refused] = 0
      /\ g.bag[Overflow] = 0 => f.bag[Overflow] = 0 /\ d[Overflow] = 0
  BY <1>1, <1>2, ErrorsOfPlus
<1>5. g.peak \in Nat /\ f.peak <= g.peak /\ peak <= g.peak
  BY DEF Took
<1> QED
  BY <1>3, <1>4, <1>5

\* A call that reaches no cycle with a moded call has no premise that does.
LEMMA PlainPremise ==
    ASSUME NEW p \in Program, NEW c \in Plain(p), NEW d \in Premises(p, c)
    PROVE  d \in Plain(p)
<1>1. c \in Calls /\ c \notin Recurs(p) /\ \A e \in Recurs(p) : <<c, e>> \notin Reaches(p)
  BY DEF Plain
<1>2. d \in Calls /\ <<c, d>> \in Reaches(p)
  BY <1>1, ReachFacts, PremiseFacts
<1>3. \A e \in Calls : <<d, e>> \in Reaches(p) => <<c, e>> \in Reaches(p)
  BY <1>1, <1>2, ReachFacts
<1>4. \A e \in Recurs(p) : e \in Calls
  BY DEF Recurs
<1> QED
  BY <1>1, <1>2, <1>3, <1>4 DEF Plain

LEMMA TakeExact ==
    ASSUME NEW p \in Program, NEW f, FrameOK(p, f), Waits(p, f), NEW i \in Nat, i < MaxDepth, FrameExact(p, i, f),
           NEW b \in Bag, NEW peak \in Nat, Exact(p, PremiseOf(p, f), i, b, peak),
           NEW g, Took(p, f, b, peak, g)
    PROVE  FrameExact(p, i, g)
<1> SUFFICES ASSUME g.call \in Plain(p), g.bag[Refused] = 0, NEW n \in 0..(MaxDepth - 1),
                    n = MaxDepth - 1 - i \/ (g.bag[Overflow] = 0 /\ n >= g.peak - i)
             PROVE  Partial(p, g, n)
  BY DEF FrameExact
<1>1. f.bag \in Bag /\ f.peak \in Nat
  BY FrameFacts
<1>2. /\ f.bag[Refused] = 0 /\ b[Refused] = 0
      /\ g.bag[Overflow] = 0 => f.bag[Overflow] = 0 /\ b[Overflow] = 0
      /\ g.peak \in Nat /\ f.peak <= g.peak /\ peak <= g.peak
  BY <1>1, TookErrors
<1>3. f.call \in Plain(p)
  BY DEF Took
<1>4. PremiseOf(p, f) \in Plain(p)
  BY <1>3, WaitFacts, PlainPremise
<1>5. n \in Depths /\ n \in Nat /\ MaxDepth \in Nat
  BY LevelFacts DEF Depths
<1>6. n = MaxDepth - 1 - i \/ (f.bag[Overflow] = 0 /\ n >= f.peak - i)
  BY <1>1, <1>2, <1>5
<1>7. n = MaxDepth - 1 - i \/ (b[Overflow] = 0 /\ n >= peak - i)
  BY <1>2, <1>5
<1>8. Partial(p, f, n)
  BY <1>2, <1>3, <1>6 DEF FrameExact
<1>9. b = Levels(p)[n][PremiseOf(p, f)]
  BY <1>2, <1>4, <1>5, <1>7 DEF Exact
<1> QED
  BY <1>5, <1>8, <1>9, TakePartial

-----------------------------------------------------------------------------
(***************************************************************************)
(* The results of a call are given to the frame below it.                  *)
(***************************************************************************)

LEMMA StackFacts ==
    ASSUME NEW p, NEW q, NEW s, StackOK(p, q, s)
    PROVE  /\ s \in Seq(FrameSet) /\ Len(s) \in Nat /\ Len(s) < MaxDepth /\ MaxDepth \in Nat
           /\ \A i \in 1..Len(s) : /\ i \in Nat /\ i - 1 \in Nat /\ i < MaxDepth
                                   /\ FrameOK(p, s[i]) /\ s[i].peak \in i..MaxDepth
                                   /\ Asks(p, q, s, i - 1, s[i].call)
<1>1. s \in Seq(FrameSet) /\ Len(s) < MaxDepth
  BY DEF StackOK
<1>2. Len(s) \in Nat
  BY <1>1
<1>3. MaxDepth \in Nat
  BY TablingAssumption
<1> QED
  BY <1>1, <1>2, <1>3 DEF StackOK

LEMMA FrameKept ==
    ASSUME NEW p, NEW s, NEW act, NEW t, NEW now, NEW i, FrameGood(p, s, act, i),
           t[i] = s[i], Rank(p, t, i) = Rank(p, s, i),
           \A m \in Models(p, now, Rank(p, s, i)) : m \in Models(p, act, Rank(p, s, i))
    PROVE  FrameGood(p, t, now, i)
BY DEF FrameGood, FrameWhole

\* What may be derived depends on one table alone, and shrinks when it is read.
LEMMA ModelsOfTable ==
    ASSUME NEW p, NEW act, NEW now, NEW j,
           j > 0 => now[j].call = act[j].call /\ now[j].known = act[j].known /\ (act[j].cyclic => now[j].cyclic)
    PROVE  \A m \in Models(p, now, j) : m \in Models(p, act, j)
BY DEF Models

\* The frame on top changes, its call does not.
LEMMA ChangeTop ==
    ASSUME NEW p \in Program, NEW q, NEW s, NEW act, StackOK(p, q, s), NestOK(p, s, act), ReachOK(p, s, act),
           Len(s) > 0,
           NEW t, t \in Seq(FrameSet), Len(t) = Len(s), \A i \in 1..(Len(s) - 1) : t[i] = s[i],
           FrameOK(p, t[Len(s)]), t[Len(s)].peak \in Len(s)..MaxDepth,
           t[Len(s)].call = s[Len(s)].call, t[Len(s)].tabled = s[Len(s)].tabled,
           NEW now \in Seq(TableSet), Len(now) = Len(act),
           \A j \in 1..Len(act) : now[j].call = act[j].call /\ (now[j].cyclic => act[j].cyclic)
    PROVE  /\ StackOK(p, q, t) /\ NestOK(p, t, now) /\ ReachOK(p, t, now)
           /\ \A i \in 0..Len(s) : Rank(p, t, i) = Rank(p, s, i)
<1> DEFINE n == Len(s)
<1>1. /\ s \in Seq(FrameSet) /\ n \in Nat /\ n < MaxDepth /\ n \in 1..n
      /\ \A i \in 1..n : /\ FrameOK(p, s[i]) /\ s[i].peak \in i..MaxDepth
                         /\ Asks(p, q, s, i - 1, s[i].call)
  BY StackFacts
<1>2. \A i \in 1..n : i # n => i \in 1..(n - 1)
  BY <1>1
<1>3. /\ t \in Seq(FrameSet) /\ Len(t) = n /\ FrameOK(p, t[n]) /\ t[n].peak \in n..MaxDepth
      /\ \A i \in 1..n : i # n => t[i] = s[i]
      /\ \A i \in 1..n : t[i].call = s[i].call /\ t[i].tabled = s[i].tabled
  BY <1>2
<1>4. NestOK(p, t, now) /\ \A i \in 0..n : Rank(p, t, i) = Rank(p, s, i)
  <2>1. \A j \in 1..Len(act) : now[j].call = act[j].call
    OBVIOUS
  <2> QED
    BY <1>1, <1>3, <2>1, TopNest
<1> HIDE DEF n
<1>6. \A i \in 1..n : t[i].call = s[i].call
  BY <1>3
<1>7. \A i \in 1..n : FrameOK(p, t[i]) /\ t[i].peak \in i..MaxDepth
  BY <1>1, <1>3
<1>8. ASSUME NEW i \in 1..n
      PROVE  Asks(p, q, t, i - 1, t[i].call)
  <2>1. i - 1 = 0 \/ i - 1 \in 1..(n - 1)
    BY <1>1
  <2>2. i - 1 # 0 => t[i - 1] = s[i - 1]
    BY <1>1, <1>3, <2>1
  <2>3. Asks(p, q, s, i - 1, s[i].call)
    BY <1>1
  <2> QED
    BY <1>6, <2>2, <2>3 DEF Asks
<1>9. StackOK(p, q, t)
  BY <1>1, <1>3, <1>7, <1>8 DEF StackOK
<1>10. ReachOK(p, t, now)
  <2>1. \A j \in 1..Len(now) : now[j].cyclic => <<now[j].call, now[j].call>> \in Reaches(p)
    BY DEF ReachOK
  <2>2. \A i, k \in 1..n : i < k => <<t[i].call, t[k].call>> \in Reaches(p)
    BY <1>6 DEF ReachOK, n
  <2> QED
    BY <1>3, <2>1, <2>2 DEF ReachOK
<1> QED
  BY <1>4, <1>9, <1>10 DEF n

\* So does what it should hold.
LEMMA TopStacks ==
    ASSUME NEW p \in Program, NEW q, NEW s, NEW act, StacksGood(p, q, s, act), Len(s) > 0,
           NEW t, t \in Seq(FrameSet), Len(t) = Len(s), \A i \in 1..(Len(s) - 1) : t[i] = s[i],
           FrameOK(p, t[Len(s)]), t[Len(s)].peak \in Len(s)..MaxDepth,
           t[Len(s)].call = s[Len(s)].call, t[Len(s)].tabled = s[Len(s)].tabled,
           NEW now \in Seq(TableSet), Len(now) = Len(act),
           \A j \in 1..Len(act) : /\ now[j].call = act[j].call /\ (now[j].cyclic => act[j].cyclic)
                                  /\ Derived(p, now[j].call, now[j].known),
           now = act \/ (Producer(p, s[Len(s)]) /\ \A j \in 1..(Len(act) - 1) : now[j] = act[j]),
           FrameDerived(p, t[Len(s)]), FrameWhole(p, now, Len(act), t[Len(s)]), FrameExact(p, Len(s), t[Len(s)])
    PROVE  StacksGood(p, q, t, now)
<1> DEFINE n == Len(s)
<1>1. StackOK(p, q, s) /\ NestOK(p, s, act) /\ ReachOK(p, s, act) /\ FramesGood(p, s, act)
  BY DEF StacksGood
<1>2. n \in Nat /\ n > 0 /\ n \in 1..n /\ n \in 0..n /\ n # 0 /\ n - 1 \in Nat
  BY <1>1, StackFacts
<1>3. Rank(p, s, n) = Len(act) /\ Len(act) \in Nat
  BY <1>1 DEF NestOK
<1>4. StackOK(p, q, t) /\ NestOK(p, t, now) /\ ReachOK(p, t, now)
  <2>1. \A j \in 1..Len(act) : now[j].call = act[j].call /\ (now[j].cyclic => act[j].cyclic)
    OBVIOUS
  <2> QED
    BY <1>1, <2>1, ChangeTop
<1>5. \A i \in 0..n : Rank(p, t, i) = Rank(p, s, i)
  <2> TAKE i \in 0..n
  <2>1. t[n].call = s[n].call /\ t[n].tabled = s[n].tabled /\ \A k \in 1..(n - 1) : t[k] = s[k]
    OBVIOUS
  <2>2. i \in Nat /\ \A k \in 1..i : k = n \/ k \in 1..(n - 1)
    BY <1>2
  <2> HIDE DEF n
  <2>3. \A k \in 1..i : Producer(p, s[k]) <=> Producer(p, t[k])
    BY <2>1, <2>2 DEF Producer
  <2> QED
    BY <2>2, <2>3, RankSame
<1>6. ASSUME NEW i \in 1..n
      PROVE  FrameGood(p, t, now, i)
  <2>1. CASE i = n
    <3>1. Rank(p, t, n) = Len(act)
      BY <1>2, <1>3, <1>5
    <3> QED
      BY <2>1, <3>1 DEF FrameGood
  <2>2. CASE i # n
    <3>1. i \in 1..(n - 1) /\ i \in 0..n /\ i \in Nat /\ i <= n - 1
      BY <1>2, <2>2
    <3>2. t[i] = s[i] /\ Rank(p, t, i) = Rank(p, s, i) /\ Rank(p, s, i) \in Nat
      BY <1>5, <3>1, RankFacts
    <3>3. FrameGood(p, s, act, i)
      BY <1>1 DEF FramesGood
    <3>4. Rank(p, s, i) <= Rank(p, s, n - 1)
      BY <1>2, <3>1, RankOrder
    <3>5. Rank(p, s, n - 1) \in Nat /\ (Producer(p, s[n]) => Rank(p, s, n) = Rank(p, s, n - 1) + 1)
      BY <1>2, RankFacts
    <3>6. Rank(p, s, i) > 0 => now[Rank(p, s, i)] = act[Rank(p, s, i)]
      <4>1. CASE now = act
        BY <4>1
      <4>2. CASE Producer(p, s[n]) /\ \A j \in 1..(Len(act) - 1) : now[j] = act[j]
        <5>1. Rank(p, s, i) <= Len(act) - 1
          BY <1>3, <3>2, <3>4, <3>5, <4>2
        <5> QED
          BY <1>3, <3>2, <4>2, <5>1
      <4> QED
        BY <4>1, <4>2
    <3>7. \A m \in Models(p, now, Rank(p, s, i)) : m \in Models(p, act, Rank(p, s, i))
      BY <3>6, ModelsOfTable
    <3> QED
      BY <3>2, <3>3, <3>7, FrameKept
  <2> QED
    BY <2>1, <2>2
<1>7. FramesGood(p, t, now)
  <2>1. \A j \in 1..Len(now) : Derived(p, now[j].call, now[j].known)
    OBVIOUS
  <2>2. Len(t) = n
    OBVIOUS
  <2> QED
    BY <1>6, <2>1, <2>2 DEF FramesGood
<1> QED
  BY <1>4, <1>7 DEF StacksGood

\* The results of the premise that the frame on top waits for.
LEMMA AnswerTop ==
    ASSUME program \in Program, NEW q, NEW s, NEW act, StacksGood(program, q, s, act), Len(s) > 0,
           NEW c, Asks(program, q, s, Len(s), c),
           NEW b, NEW peak, Good(program, act, Len(act), c, Len(s), b, peak),
           NEW t, t = [s EXCEPT ![Len(s)] = Take(@, b, peak)]
    PROVE  StacksGood(program, q, t, act)
<1> DEFINE p == program
           n == Len(s)
           f == s[n]
           g == Take(f, b, peak)
<1>1. StackOK(p, q, s) /\ NestOK(p, s, act) /\ ReachOK(p, s, act) /\ FramesGood(p, s, act)
  BY DEF StacksGood
<1>2. /\ n \in Nat /\ n \in 1..n /\ n < MaxDepth /\ MaxDepth \in Nat /\ n # 0
      /\ FrameOK(p, f) /\ f.peak \in n..MaxDepth
  BY <1>1, StackFacts
<1>3. Waits(p, f) /\ c = PremiseOf(p, f)
  BY <1>2 DEF Asks
<1>4. /\ b \in Bag /\ peak \in (n + 1)..MaxDepth
      /\ Derived(p, c, Support(b)) /\ Whole(p, act, Len(act), c, b) /\ Exact(p, c, n, b, peak)
  BY DEF Good
<1>5. peak \in Nat /\ peak \in n..MaxDepth
  BY <1>2, <1>4
<1>6. Took(p, f, b, peak, g)
  BY <1>2, <1>3, <1>4, <1>5, TakeCases
<1>7. FrameGood(p, s, act, n) /\ Rank(p, s, n) = Len(act) /\ act \in Seq(TableSet)
  BY <1>1, <1>2 DEF FramesGood, NestOK
<1>8. FrameDerived(p, f) /\ FrameWhole(p, act, Len(act), f) /\ FrameExact(p, n, f)
  BY <1>7 DEF FrameGood
<1>9. p \in Program
  OBVIOUS
<1>10. t = [s EXCEPT ![n] = g]
  OBVIOUS
<1> HIDE DEF p, f, g
<1>11. FrameOK(p, g) /\ g.peak \in n..MaxDepth
  BY <1>2, <1>3, <1>4, <1>5, <1>6, <1>9, TakeShape
<1>12. FrameDerived(p, g)
  BY <1>2, <1>3, <1>4, <1>6, <1>8, <1>9, TakeDerived
<1>13. FrameWhole(p, act, Len(act), g)
  BY <1>2, <1>3, <1>4, <1>6, <1>8, <1>9, TakeWhole
<1>14. FrameExact(p, n, g)
  BY <1>2, <1>3, <1>4, <1>5, <1>6, <1>8, <1>9, TakeExact
<1>15. g.call = f.call /\ g.tabled = f.tabled
  BY <1>6 DEF Took
<1>16. t \in Seq(FrameSet) /\ Len(t) = n /\ t[n] = g /\ \A i \in 1..(n - 1) : t[i] = s[i]
  <2>1. s \in Seq(FrameSet) /\ g \in FrameSet
    BY <1>1, <1>11 DEF StackOK, FrameOK
  <2> QED
    BY <1>2, <1>10, <2>1
<1> QED
  <2>1. /\ t[n].call = s[n].call /\ t[n].tabled = s[n].tabled /\ Len(s) > 0
        /\ FrameOK(p, t[n]) /\ t[n].peak \in n..MaxDepth
        /\ FrameDerived(p, t[n]) /\ FrameWhole(p, act, Len(act), t[n]) /\ FrameExact(p, n, t[n])
    BY <1>11, <1>12, <1>13, <1>14, <1>15, <1>16 DEF f
  <2>2. \A j \in 1..Len(act) : /\ act[j].call = act[j].call /\ (act[j].cyclic => act[j].cyclic)
                               /\ Derived(p, act[j].call, act[j].known)
    BY <1>1 DEF FramesGood
  <2>3. StacksGood(p, q, s, act)
    BY DEF p
  <2>4. StacksGood(p, q, t, act)
    BY ONLY <1>7, <1>9, <1>16, <2>1, <2>2, <2>3, TopStacks
  <2> QED
    BY <2>4 DEF p

\* The results of a call, and what ReplyTo makes of them.
LEMMA Answered ==
    ASSUME program \in Program, NEW s, NEW act, StacksGood(program, query, s, act), active' = act,
           s # << >> => reply = << >>,
           NEW c \in Calls, Asks(program, query, s, Len(s), c),
           NEW b, NEW peak, Good(program, act, Len(act), c, Len(s), b, peak),
           ReplyTo(s, b, peak), ReplyGood(program, query, reply)
    PROVE  /\ StacksGood(program, query', stack', active')
           /\ ReplyGood(program, query', reply') /\ query' = query
           /\ stack' # << >> => reply' = << >>
<1>1. s \in Seq(FrameSet) /\ NestOK(program, s, act)
  BY DEF StacksGood, StackOK
<1>2. CASE s = << >>
  <2>1. stack' = << >> /\ reply' = <<b>> /\ query' = query /\ Len(s) = 0
    BY <1>2 DEF ReplyTo
  <2>2. Len(act) = 0 /\ act \in Seq(TableSet)
    BY <1>1, <2>1, RankFacts DEF NestOK
  <2>3. act = << >>
    BY <2>2
  <2>4. query = <<c>>
    BY <2>1 DEF Asks
  <2>5. Good(program, << >>, 0, c, 0, b, peak)
    BY <2>1, <2>2, <2>3
  <2>6. peak \in 1..MaxDepth
    BY <2>5 DEF Good
  <2> QED
    BY <1>2, <2>1, <2>4, <2>5, <2>6 DEF ReplyGood
<1>3. CASE s # << >>
  <2>1. stack' = [s EXCEPT ![Len(s)] = Take(@, b, peak)] /\ query' = query /\ reply' = reply
    BY <1>3 DEF ReplyTo
  <2>2. Len(s) > 0
    BY <1>1, <1>3
  <2> QED
    BY <1>3, <2>1, <2>2, AnswerTop
<1> QED
  BY <1>2, <1>3

-----------------------------------------------------------------------------
(***************************************************************************)
(* A call is entered.                                                      *)
(***************************************************************************)

\* A frame that has done nothing holds what it should, whatever is asked of it.
LEMMA FreshFrame ==
    ASSUME NEW p \in Program, NEW c \in Calls, NEW tabled \in BOOLEAN, tabled => p.kind[c] \in {"ground", "moded"},
           NEW peak \in Nat, NEW f, f = Frame(c, tabled, peak)
    PROVE  /\ FrameOK(p, f) /\ f.call = c /\ f.tabled = tabled /\ f.peak = peak
           /\ FrameDerived(p, f)
           /\ \A act, j : FrameWhole(p, act, j, f)
           /\ \A i : FrameExact(p, i, f)
<1>1. f.call = c /\ f.tabled = tabled /\ f.peak = peak /\ f.clause = 1 /\ f.need = 1 /\ f.left = 1 /\ f.bag = Zero
  BY DEF Frame
<1>2. Zero \in Bag
  BY BagTypes
<1>3. f \in FrameSet
  BY <1>2 DEF Frame, FrameSet
<1>4. Len(ClausesOf(p, f)) \in Nat /\ p.clauses[c] \in Seq(Clause)
  BY <1>1, ProgramFacts DEF ClausesOf
<1>5. FrameOK(p, f)
  <2>1. f.clause \in 1..Len(ClausesOf(p, f)) + 1
    BY <1>1, <1>4
  <2> QED
    BY <1>1, <1>3, <2>1 DEF FrameOK
<1>6. FrameDerived(p, f)
  BY <1>1, Supports DEF FrameDerived, Derived
<1>7. \A act, j : FrameWhole(p, act, j, f)
  BY <1>1 DEF FrameWhole
<1>8. ASSUME NEW n \in 0..(MaxDepth - 1)
      PROVE  Partial(p, f, n)
  <2>1. n \in Depths
    BY TablingAssumption DEF Depths
  <2>2. Levels(p)[n] \in [Calls -> Bag]
    BY <2>1, LevelFacts
  <2> DEFINE bags == ClauseBags(p, c, Levels(p)[n])
  <2>3. bags \in Seq(Bag)
    BY <2>2, ClauseBagsType
  <2> HIDE DEF bags
  <2>4. Sums(bags)[0] = Zero
    BY <2>3, SumsFacts
  <2> QED
    BY <1>1, <2>4 DEF Partial, Before, bags
<1>9. \A i : FrameExact(p, i, f)
  BY <1>8 DEF FrameExact
<1> QED
  BY <1>1, <1>5, <1>6, <1>7, <1>9

\* Every call on the stack reaches the call that is asked for.
LEMMA AskReach ==
    ASSUME NEW p \in Program, NEW q, NEW s, NEW act, StackOK(p, q, s), ReachOK(p, s, act),
           NEW c, Asks(p, q, s, Len(s), c), NEW i \in 1..Len(s)
    PROVE  <<s[i].call, c>> \in Reaches(p)
<1> DEFINE n == Len(s)
<1>1. n \in Nat /\ n \in 1..n /\ i \in 1..n /\ n # 0
  BY StackFacts
<1>2. FrameOK(p, s[n]) /\ FrameOK(p, s[i])
  BY <1>1, StackFacts
<1>3. s[n].call \in Calls /\ s[i].call \in Calls
  BY <1>2, FrameFacts
<1>4. Waits(p, s[n]) /\ c = PremiseOf(p, s[n])
  BY <1>1 DEF Asks
<1>5. c \in Calls /\ c \in Premises(p, s[n].call)
  BY <1>2, <1>4, WaitFacts
<1>6. <<s[n].call, c>> \in Reaches(p)
  BY <1>3, <1>5, ReachFacts
<1>7. CASE i = n
  BY <1>6, <1>7
<1>8. CASE i # n
  <2>1. <<s[i].call, s[n].call>> \in Reaches(p)
    BY <1>1, <1>8 DEF ReachOK
  <2> QED
    BY <1>3, <1>5, <1>6, <2>1, ReachFacts
<1> QED
  BY <1>7, <1>8

LEMMA PushStacks ==
    ASSUME NEW p \in Program, NEW q, NEW s, NEW act, StacksGood(p, q, s, act), Len(s) + 1 < MaxDepth,
           NEW c \in Calls, Asks(p, q, s, Len(s), c),
           NEW tabled \in BOOLEAN, tabled => p.kind[c] \in {"ground", "moded"},
           NEW f, f = Frame(c, tabled, Len(s) + 1), NEW up, up = Append(s, f),
           NEW more,
           IF Producer(p, f)
           THEN more = Append(act, [call |-> c, known |-> {}, span |-> 0, cyclic |-> FALSE])
           ELSE more = act /\ (Len(act) = 0 \/ act[Len(act)].call # c)
    PROVE  StacksGood(p, q, up, more)
<1> DEFINE n == Len(s)
           table == [call |-> c, known |-> {}, span |-> 0, cyclic |-> FALSE]
<1>1. StackOK(p, q, s) /\ NestOK(p, s, act) /\ ReachOK(p, s, act) /\ FramesGood(p, s, act)
  BY DEF StacksGood
<1>2. /\ s \in Seq(FrameSet) /\ n \in Nat /\ MaxDepth \in Nat /\ n + 1 \in Nat
      /\ \A i \in 1..n : FrameOK(p, s[i]) /\ s[i].peak \in i..MaxDepth /\ Asks(p, q, s, i - 1, s[i].call)
  BY <1>1, StackFacts
<1>3. /\ FrameOK(p, f) /\ f.call = c /\ f.tabled = tabled /\ f.peak = n + 1
      /\ FrameDerived(p, f) /\ (\A a, j : FrameWhole(p, a, j, f)) /\ (\A i : FrameExact(p, i, f))
  BY <1>2, FreshFrame
<1>4. f \in FrameSet
  BY <1>3 DEF FrameOK
<1>5. up \in Seq(FrameSet) /\ Len(up) = n + 1 /\ up[n + 1] = f /\ \A i \in 1..n : up[i] = s[i]
  BY <1>2, <1>4
<1>6. table \in TableSet /\ table.call = c /\ table.known = {} /\ ~ table.cyclic
  BY <1>2 DEF TableSet
<1>8. act \in Seq(TableSet) /\ Len(act) \in Nat /\ Len(act) = Rank(p, s, n)
  BY <1>1 DEF NestOK
<1>9. /\ \A j \in 1..Len(act) : more[j] = act[j]
      /\ \A j \in 1..Len(more) : j \in 1..Len(act) \/ more[j] = table
  <2>1. CASE Producer(p, f)
    <3>1. more = Append(act, table)
      BY <2>1
    <3> HIDE DEF table
    <3> QED
      BY <1>6, <1>8, <3>1
  <2>2. CASE ~ Producer(p, f)
    BY <2>2
  <2> QED
    BY <2>1, <2>2
<1>7. /\ NestOK(p, up, more)
      /\ \A i \in 0..n : Rank(p, up, i) = Rank(p, s, i)
      /\ Rank(p, up, n + 1) = Len(more)
  <2>1. /\ more \in Seq(TableSet)
        /\ Producer(p, up[n + 1]) => Len(more) = Len(act) + 1 /\ more[Len(more)].call = up[n + 1].call
    <3>1. CASE Producer(p, f)
      <4>1. more = Append(act, table)
        BY <3>1
      <4> HIDE DEF table
      <4> QED
        BY <1>3, <1>5, <1>6, <1>8, <4>1
    <3>2. CASE ~ Producer(p, f)
      BY <1>5, <1>8, <3>2
    <3> QED
      BY <3>1, <3>2
  <2>2. ~ Producer(p, up[n + 1]) => more = act /\ (Len(act) = 0 \/ act[Len(act)].call # up[n + 1].call)
    BY <1>3, <1>5
  <2>3. \A j \in 1..Len(act) : more[j] = act[j]
    BY <1>9
  <2>4. NestOK(p, s, act) /\ s \in Seq(FrameSet) /\ Len(up) = Len(s) + 1 /\ \A i \in 1..Len(s) : up[i] = s[i]
    BY <1>1, <1>2, <1>5
  <2>5. /\ Producer(p, up[Len(s) + 1]) => Len(more) = Len(act) + 1 /\ more[Len(more)].call = up[Len(s) + 1].call
        /\ ~ Producer(p, up[Len(s) + 1]) =>
                more = act /\ (Len(act) = 0 \/ act[Len(act)].call # up[Len(s) + 1].call)
    BY <2>1, <2>2
  <2>6. NestOK(p, up, more)
    BY ONLY <2>1, <2>3, <2>4, <2>5, PushNest
  <2>7. \A i \in 0..n : Rank(p, up, i) = Rank(p, s, i)
    <3> TAKE i \in 0..n
    <3>1. i \in Nat /\ \A k \in 1..i : up[k] = s[k]
      BY <1>2, <1>5
    <3> QED
      BY <3>1, RankSame
  <2>8. Rank(p, up, n + 1) = Len(more)
    BY <1>5, <2>6 DEF NestOK
  <2> QED
    BY <2>6, <2>7, <2>8
<1> HIDE DEF n, table
<1>10. StackOK(p, q, up)
  <2>1. ASSUME NEW i \in 1..(n + 1)
        PROVE  FrameOK(p, up[i]) /\ up[i].peak \in i..MaxDepth /\ Asks(p, q, up, i - 1, up[i].call)
    <3>1. CASE i = n + 1
      <4>1. Asks(p, q, up, n, c)
        <5>1. Asks(p, q, s, n, c)
          BY DEF n
        <5>2. n # 0 => up[n] = s[n]
          BY <1>2, <1>5
        <5> QED
          BY <5>1, <5>2 DEF Asks
      <4>2. f.peak \in (n + 1)..MaxDepth
        BY <1>2, <1>3 DEF n
      <4>3. i - 1 = n
        BY <1>2, <3>1
      <4> QED
        BY <1>3, <1>5, <3>1, <4>1, <4>2, <4>3
    <3>2. CASE i # n + 1
      <4>1. i \in 1..n /\ i - 1 \in 0..n /\ (i - 1 # 0 => i - 1 \in 1..n)
        BY <1>2, <3>2
      <4>2. up[i] = s[i] /\ (i - 1 # 0 => up[i - 1] = s[i - 1])
        BY <1>5, <4>1
      <4>3. FrameOK(p, s[i]) /\ s[i].peak \in i..MaxDepth /\ Asks(p, q, s, i - 1, s[i].call)
        BY <1>2, <4>1
      <4>4. Asks(p, q, up, i - 1, up[i].call)
        BY <4>2, <4>3 DEF Asks
      <4> QED
        BY <4>2, <4>3, <4>4
    <3> QED
      BY <3>1, <3>2
  <2>2. Len(up) < MaxDepth
    BY <1>5 DEF n
  <2> QED
    BY <1>5, <2>1, <2>2 DEF StackOK
<1>11. ReachOK(p, up, more)
  <2>1. ASSUME NEW i \in 1..(n + 1), NEW k \in 1..(n + 1), i < k
        PROVE  <<up[i].call, up[k].call>> \in Reaches(p)
    <3>1. i \in 1..n
      BY <1>2, <2>1
    <3>2. CASE k = n + 1
      <4>1. <<s[i].call, c>> \in Reaches(p)
        BY <1>1, <3>1, AskReach DEF n
      <4> QED
        BY <1>3, <1>5, <3>1, <3>2, <4>1
    <3>3. CASE k # n + 1
      <4>1. k \in 1..n
        BY <1>2, <3>3
      <4>2. <<s[i].call, s[k].call>> \in Reaches(p)
        BY <1>1, <2>1, <3>1, <4>1 DEF ReachOK, n
      <4> QED
        BY <1>5, <3>1, <4>1, <4>2
    <3> QED
      BY <3>2, <3>3
  <2>2. \A j \in 1..Len(more) : more[j].cyclic => <<more[j].call, more[j].call>> \in Reaches(p)
    BY <1>1, <1>6, <1>9 DEF ReachOK
  <2> QED
    BY <1>5, <2>1, <2>2 DEF ReachOK
<1>12. ASSUME NEW i \in 1..(n + 1)
       PROVE  FrameGood(p, up, more, i)
  <2>1. CASE i = n + 1
    BY <1>3, <1>5, <2>1 DEF FrameGood
  <2>2. CASE i # n + 1
    <3>1. i \in 1..n /\ i \in 0..n /\ i \in Nat /\ i <= n
      BY <1>2, <2>2
    <3>2. FrameGood(p, s, act, i) /\ up[i] = s[i] /\ Rank(p, up, i) = Rank(p, s, i)
      BY <1>1, <1>5, <1>7, <3>1 DEF FramesGood, n
    <3>3. Rank(p, s, i) \in 0..Len(act)
      <4>1. Rank(p, s, i) \in Nat
        BY <3>1, RankFacts
      <4>2. Rank(p, s, i) <= Rank(p, s, n)
        BY <1>2, <3>1, RankOrder
      <4> QED
        BY <1>8, <4>1, <4>2
    <3>4. Rank(p, s, i) > 0 => more[Rank(p, s, i)] = act[Rank(p, s, i)]
      BY <1>8, <1>9, <3>3
    <3>5. \A m \in Models(p, more, Rank(p, s, i)) : m \in Models(p, act, Rank(p, s, i))
      BY <3>4, ModelsOfTable
    <3> QED
      BY <3>2, <3>5, FrameKept
  <2> QED
    BY <2>1, <2>2
<1>13. \A j \in 1..Len(more) : Derived(p, more[j].call, more[j].known)
  BY <1>1, <1>6, <1>9 DEF FramesGood, Derived
<1>14. FramesGood(p, up, more)
  BY <1>5, <1>12, <1>13 DEF FramesGood
<1> QED
  BY <1>7, <1>10, <1>11, <1>14 DEF StacksGood

-----------------------------------------------------------------------------
(***************************************************************************)
(* A clause that is a fact.                                                *)
(***************************************************************************)

LEMMA FactFrame ==
    ASSUME program \in Program, NEW f, FrameOK(program, f), f.clause <= Len(ClausesOf(program, f)),
           BodyOf(program, f) = << >>,
           NEW g, g = NextClause(f, Single(ClausesOf(program, f)[f.clause].fact))
    PROVE  /\ FrameOK(program, g) /\ g.call = f.call /\ g.tabled = f.tabled /\ g.peak = f.peak
           /\ FrameDerived(program, f) => FrameDerived(program, g)
           /\ \A act, j : FrameWhole(program, act, j, f) => FrameWhole(program, act, j, g)
           /\ \A i \in Nat : i < MaxDepth /\ FrameExact(program, i, f) => FrameExact(program, i, g)
<1> DEFINE p == program
           cl == ClausesOf(p, f)[f.clause]
           b == Single(cl.fact)
<1>1. /\ f.call \in Calls /\ f.bag \in Bag /\ f.clause \in Nat /\ f.clause >= 1 /\ Len(ClausesOf(p, f)) \in Nat
      /\ f \in FrameSet /\ f.need \in {1, 2} /\ (f.need = 2 => Len(BodyOf(p, f)) = 2)
      /\ f.peak \in Nat
  BY FrameFacts DEF FrameOK
<1>2. f.need = 1
  BY <1>1
<1>3. cl \in Clause /\ cl.needs = << >> /\ cl.fact \in Answers /\ cl.fact \in Results
  BY BodyFacts, ResultFacts
<1>4. b \in Bag /\ Support(b) = {cl.fact}
  BY <1>3, BagTypes, Supports
<1> HIDE DEF cl
<1>5. Plus(f.bag, b) \in Bag /\ f.clause + 1 \in Nat
  BY <1>1, <1>4, BagTypes
<1>6. Moved(f, b, g) /\ g.call = f.call /\ g.tabled = f.tabled /\ g.peak = f.peak /\ g \in FrameSet
  <2>1. g = [f EXCEPT !.bag = Plus(f.bag, b), !.clause = f.clause + 1, !.need = 1, !.left = 1]
    BY DEF NextClause, cl
  <2> DEFINE all == Plus(f.bag, b)
             next == f.clause + 1
  <2>2. /\ f.call \in Calls /\ f.tabled \in BOOLEAN /\ f.peak \in Nat
        /\ all \in Bag /\ next \in Nat /\ 1 \in {1, 2} /\ 1 \in Nat \ {0}
    BY <1>1, <1>5 DEF FrameSet
  <2>3. f \in FrameSet
    BY <1>1
  <2> HIDE DEF b, all, next
  <2>4. g = [call |-> f.call, tabled |-> f.tabled, clause |-> next, need |-> 1, left |-> 1, bag |-> all, peak |-> f.peak]
    BY <2>1, <2>3 DEF FrameSet, all, next
  <2>5. g \in FrameSet
    BY <2>2, <2>4 DEF FrameSet
  <2> QED
    BY <2>4, <2>5 DEF Moved, all, next
<1>7. \A m : ClauseAnswers(cl, m) = {cl.fact}
  BY <1>3 DEF ClauseAnswers
<1>8. FrameOK(p, g)
  <2>1. ClausesOf(p, g) = ClausesOf(p, f) /\ g.clause = f.clause + 1 /\ g.need = 1 /\ g.left = 1
    BY <1>6 DEF ClausesOf, Moved
  <2>2. g.clause \in 1..Len(ClausesOf(p, g)) + 1
    BY <1>1, <2>1
  <2> QED
    BY <1>6, <2>1, <2>2 DEF FrameOK
<1> HIDE DEF b
<1>9. ASSUME FrameDerived(p, f) PROVE FrameDerived(p, g)
  BY <1>4, <1>6, <1>7, <1>9, ClauseDerived DEF cl
<1>10. ASSUME NEW act, NEW j, FrameWhole(p, act, j, f) PROVE FrameWhole(p, act, j, g)
  BY <1>4, <1>6, <1>7, <1>10, ClauseWhole DEF cl
<1>11. ASSUME NEW i \in Nat, i < MaxDepth, FrameExact(p, i, f)
       PROVE  FrameExact(p, i, g)
  <2> SUFFICES ASSUME g.call \in Plain(p), g.bag[Refused] = 0, NEW n \in 0..(MaxDepth - 1),
                      n = MaxDepth - 1 - i \/ (g.bag[Overflow] = 0 /\ n >= g.peak - i)
               PROVE  Partial(p, g, n)
    BY DEF FrameExact
  <2>1. g.bag = Plus(f.bag, b)
    BY <1>6 DEF Moved
  <2>2. f.bag[Refused] = 0 /\ (g.bag[Overflow] = 0 => f.bag[Overflow] = 0)
    BY <1>1, <1>4, <2>1, ErrorsOfPlus
  <2>3. Partial(p, f, n)
    BY <1>6, <1>11, <2>2 DEF FrameExact
  <2>4. f.bag = Before(p, f, n)
    BY <1>2, <2>3 DEF Partial
  <2>5. ClauseBag(cl, Levels(p)[n]) = b
    BY <1>3 DEF ClauseBag, b
  <2>6. n \in Depths
    BY TablingAssumption DEF Depths
  <2> QED
    BY <1>4, <1>6, <2>4, <2>5, <2>6, ClausePartial DEF cl
<1> QED
  BY <1>6, <1>8, <1>9, <1>10, <1>11

LEMMA GiveFactStacks ==
    ASSUME program \in Program, StacksGood(program, query, stack, active), GiveFact
    PROVE  StacksGood(program, query, stack', active)
<1> DEFINE p == program
           n == Len(stack)
           f == stack[n]
           g == NextClause(f, Single(ClausesOf(p, f)[f.clause].fact))
<1>1. StackOK(p, query, stack) /\ NestOK(p, stack, active) /\ FramesGood(p, stack, active)
  BY DEF StacksGood
<1>2. stack # << >> /\ ~ (f.clause > Len(ClausesOf(p, f))) /\ BodyOf(p, f) = << >>
  BY DEF GiveFact, PassEnded, Top, Level, Clauses, ClausesOf, Body, BodyOf
<1>3. stack' = [stack EXCEPT ![n] = g]
  BY DEF GiveFact, Level, Clauses, ClausesOf, Top
<1>4. /\ stack \in Seq(FrameSet) /\ n \in Nat /\ n > 0 /\ n \in 1..n /\ n < MaxDepth
      /\ FrameOK(p, f) /\ f.peak \in n..MaxDepth
  <2>1. stack \in Seq(FrameSet) /\ n \in Nat /\ n < MaxDepth
    BY <1>1, StackFacts
  <2>2. n > 0 /\ n \in 1..n
    BY <1>2, <2>1
  <2> QED
    BY <1>1, <2>1, <2>2, StackFacts
<1>5. FrameGood(p, stack, active, n) /\ Rank(p, stack, n) = Len(active) /\ active \in Seq(TableSet)
  BY <1>1, <1>4 DEF FramesGood, NestOK
<1>6. f.clause <= Len(ClausesOf(p, f))
  <2>1. f.clause \in Nat /\ Len(ClausesOf(p, f)) \in Nat
    BY <1>4, FrameFacts
  <2> QED
    BY <1>2, <2>1
<1>7. /\ FrameOK(p, g) /\ g.call = f.call /\ g.tabled = f.tabled /\ g.peak = f.peak
      /\ FrameDerived(p, g) /\ FrameWhole(p, active, Len(active), g) /\ FrameExact(p, n, g)
  <2>1. FrameDerived(p, f) /\ FrameWhole(p, active, Len(active), f) /\ FrameExact(p, n, f)
    BY <1>5 DEF FrameGood
  <2> QED
    BY <1>2, <1>4, <1>6, <2>1, FactFrame
<1>8. g \in FrameSet
  BY <1>7 DEF FrameOK
<1>9. p \in Program /\ StacksGood(p, query, stack, active)
  OBVIOUS
<1> HIDE DEF p, g
<1>10. /\ stack' \in Seq(FrameSet) /\ Len(stack') = n /\ stack'[n] = g
       /\ \A i \in 1..(n - 1) : stack'[i] = stack[i]
  BY <1>3, <1>4, <1>8
<1>11. \A j \in 1..Len(active) : /\ active[j].call = active[j].call /\ (active[j].cyclic => active[j].cyclic)
                                 /\ Derived(p, active[j].call, active[j].known)
  BY <1>1 DEF FramesGood
<1>12. /\ stack'[n].call = stack[n].call /\ stack'[n].tabled = stack[n].tabled
       /\ FrameOK(p, stack'[n]) /\ stack'[n].peak \in n..MaxDepth
       /\ FrameDerived(p, stack'[n]) /\ FrameWhole(p, active, Len(active), stack'[n])
       /\ FrameExact(p, n, stack'[n])
  BY <1>4, <1>7, <1>10
<1>13. StacksGood(p, query, stack', active)
  BY ONLY <1>4, <1>5, <1>9, <1>10, <1>11, <1>12, TopStacks
<1> QED
  BY <1>13 DEF p

-----------------------------------------------------------------------------
(***************************************************************************)
(* The end of a pass.                                                      *)
(***************************************************************************)

\* The call on top has been through its clauses, and the call below waits for it.
LEMMA EndedFacts ==
    ASSUME program \in Program, StacksGood(program, query, stack, active), PassEnded
    PROVE  /\ stack \in Seq(FrameSet) /\ Level \in Nat /\ Level >= 1 /\ Level < MaxDepth /\ Level \in 1..Len(stack)
           /\ FrameOK(program, Top) /\ Top.peak \in Level..MaxDepth /\ Top.call \in Calls /\ Top.bag \in Bag
           /\ Top.clause = Len(ClausesOf(program, Top)) + 1 /\ Top.need = 1
           /\ FrameDerived(program, Top) /\ FrameWhole(program, active, Len(active), Top)
           /\ FrameExact(program, Level, Top)
           /\ Asks(program, query, stack, Level - 1, Top.call)
           /\ Rank(program, stack, Level) = Len(active) /\ active \in Seq(TableSet) /\ Len(active) \in Nat
<1>1. StackOK(program, query, stack) /\ NestOK(program, stack, active) /\ FramesGood(program, stack, active)
  BY DEF StacksGood
<1>2. stack # << >> /\ Top.clause > Len(ClausesOf(program, Top))
  BY DEF PassEnded, Clauses, ClausesOf
<1>3. /\ stack \in Seq(FrameSet) /\ Level \in Nat /\ Level < MaxDepth
      /\ \A i \in 1..Level : /\ FrameOK(program, stack[i]) /\ stack[i].peak \in i..MaxDepth
                             /\ Asks(program, query, stack, i - 1, stack[i].call)
  BY <1>1, StackFacts DEF Level
<1>4. Level >= 1 /\ Level \in 1..Level
  BY <1>2, <1>3 DEF Level
<1>5. FrameOK(program, Top) /\ Top.peak \in Level..MaxDepth /\ Asks(program, query, stack, Level - 1, Top.call)
  BY <1>3, <1>4 DEF Top
<1>6. Top.call \in Calls /\ Top.bag \in Bag /\ Top.clause = Len(ClausesOf(program, Top)) + 1 /\ Top.need = 1
  <2>1. /\ Top.call \in Calls /\ Top.bag \in Bag /\ Top.clause \in Nat /\ Top.need \in {1, 2}
        /\ Top.clause <= Len(ClausesOf(program, Top)) + 1 /\ Len(ClausesOf(program, Top)) \in Nat
        /\ Top.need = 2 => Top.clause <= Len(ClausesOf(program, Top))
    BY <1>5, FrameFacts
  <2> QED
    BY <1>2, <2>1
<1>7. Rank(program, stack, Level) = Len(active) /\ active \in Seq(TableSet) /\ Len(active) \in Nat
  BY <1>1 DEF NestOK, Level
<1>8. FrameGood(program, stack, active, Level)
  BY <1>1, <1>4 DEF FramesGood, Level
<1>9. /\ FrameDerived(program, Top) /\ FrameWhole(program, active, Len(active), Top)
      /\ FrameExact(program, Level, Top)
  BY <1>7, <1>8 DEF FrameGood, Top
<1> QED
  BY <1>3, <1>4, <1>5, <1>6, <1>7, <1>9 DEF Level

\* The call on top of the stack is the one whose table is on top of the active stack.
LEMMA ProducingFacts ==
    ASSUME program \in Program, StacksGood(program, query, stack, active), Producing
    PROVE  /\ PassEnded /\ Producer(program, Top) /\ Top.tabled /\ program.kind[Top.call] = "moded"
           /\ Len(active) >= 1 /\ Len(active) \in Nat /\ Len(active) \in 1..Len(active)
           /\ TopActive \in TableSet /\ TopActive.call = Top.call
           /\ Derived(program, TopActive.call, TopActive.known)
           /\ TopActive.cyclic => <<Top.call, Top.call>> \in Reaches(program)
<1>1. PassEnded /\ Producer(program, Top) /\ Top.tabled /\ program.kind[Top.call] = "moded"
  BY DEF Producing, IsModed, Producer
<1>2. /\ Level \in Nat /\ Level >= 1 /\ Level \in 1..Len(stack)
      /\ Rank(program, stack, Level) = Len(active) /\ active \in Seq(TableSet)
  BY <1>1, EndedFacts
<1>3. Rank(program, stack, Level) = Rank(program, stack, Level - 1) + 1 /\ Rank(program, stack, Level - 1) \in Nat
  <2>1. Level # 0 /\ Level - 1 \in Nat
    BY <1>2
  <2> QED
    BY <1>1, <1>2, <2>1, RankFacts DEF Top
<1>4. Len(active) >= 1 /\ Len(active) \in Nat /\ Len(active) \in 1..Len(active)
  BY <1>2, <1>3
<1>5. NestOK(program, stack, active) /\ ReachOK(program, stack, active) /\ FramesGood(program, stack, active)
  BY DEF StacksGood
<1>6. TopActive \in TableSet
  BY <1>2, <1>4 DEF TopActive
<1>7. TopActive.call = Top.call
  BY <1>1, <1>2, <1>5 DEF NestOK, Top, TopActive
<1> QED
  BY <1>1, <1>4, <1>5, <1>6, <1>7 DEF TopActive, FramesGood, ReachOK

LEMMA NextRoundStacks ==
    ASSUME program \in Program, StacksGood(program, query, stack, active), NextRound
    PROVE  StacksGood(program, query, stack', active')
<1> DEFINE p == program
           n == Len(stack)
           k == Len(active)
           f == Frame(Top.call, TRUE, Top.peak)
           known == TopActive.known \cup New
           span == Top.peak - Level
<1>1. Producing /\ PassEnded
  BY DEF NextRound, Producing
<1>2. /\ stack \in Seq(FrameSet) /\ n \in Nat /\ n >= 1 /\ n < MaxDepth /\ n \in 1..n
      /\ FrameOK(p, Top) /\ Top.peak \in n..MaxDepth /\ Top.call \in Calls /\ Top.bag \in Bag /\ FrameDerived(p, Top)
      /\ active \in Seq(TableSet)
  BY <1>1, EndedFacts DEF Level
<1>3. /\ Producer(p, Top) /\ Top.tabled /\ p.kind[Top.call] = "moded" /\ k \in Nat /\ k >= 1 /\ k \in 1..k
      /\ TopActive \in TableSet /\ TopActive.call = Top.call /\ Derived(p, TopActive.call, TopActive.known)
  BY <1>1, ProducingFacts
<1>11. p \in Program /\ StacksGood(p, query, stack, active) /\ FramesGood(p, stack, active)
  BY DEF StacksGood
<1>4. stack' = [stack EXCEPT ![n] = f]
  BY DEF NextRound, Level, Top
<1>5. active' = [active EXCEPT ![k] = [TopActive EXCEPT !.known = known, !.span = span]]
  <2>1. active' = [active EXCEPT ![k].known = @ \cup New, ![k].span = Span]
    BY DEF NextRound
  <2>2. \A x : x = active[k] => [active EXCEPT ![k] = [x EXCEPT !.known = @ \cup New, !.span = Span]] = active'
    BY <1>2, <1>3, <2>1
  <2> QED
    BY <2>2 DEF TopActive, Span
<1>6. known \subseteq Results /\ Derived(p, Top.call, known)
  <2>1. New \subseteq Support(Top.bag) /\ Support(Top.bag) \subseteq Results
    BY <1>2, Supports DEF New
  <2>2. TopActive.known \subseteq Results
    BY <1>3 DEF TableSet
  <2> QED
    BY <1>2, <1>3, <2>1, <2>2 DEF Derived, FrameDerived
<1>7. span \in 0..MaxDepth
  <2>1. MaxDepth \in Nat
    BY TablingAssumption
  <2> QED
    BY <1>2, <2>1 DEF Level
<1> DEFINE table == [TopActive EXCEPT !.known = known, !.span = span]
<1>8. table \in TableSet /\ table.call = Top.call /\ table.cyclic = TopActive.cyclic /\ table.known = known
  <2>1. TopActive \in TableSet /\ known \in SUBSET Results /\ span \in 0..MaxDepth
    BY <1>3, <1>6, <1>7
  <2> HIDE DEF known, span
  <2>3. table = [TopActive EXCEPT !.known = known, !.span = span]
    OBVIOUS
  <2> HIDE DEF table
  <2>4. table \in TableSet /\ table.call = TopActive.call /\ table.cyclic = TopActive.cyclic /\ table.known = known
    <3>1. table \in TableSet
      BY <2>1, <2>3 DEF TableSet
    <3>2. table.call = TopActive.call /\ table.cyclic = TopActive.cyclic /\ table.known = known
      BY <2>1, <2>3 DEF TableSet
    <3> QED
      BY <3>1, <3>2
  <2> QED
    BY <1>3, <2>4
<1>9. /\ FrameOK(p, f) /\ f.call = Top.call /\ f.tabled = Top.tabled /\ f.peak = Top.peak
      /\ FrameDerived(p, f) /\ (\A a, j : FrameWhole(p, a, j, f)) /\ (\A i : FrameExact(p, i, f))
  <2>1. /\ Top.peak \in Nat /\ TRUE \in BOOLEAN /\ Top.call \in Calls /\ p \in Program
        /\ p.kind[Top.call] \in {"ground", "moded"}
    BY <1>2, <1>3
  <2>5. Top.tabled \in BOOLEAN /\ (Top.tabled = TRUE)
    <3>1. Top.tabled \in BOOLEAN
      BY <1>2, <1>11, FrameFacts
    <3> QED
      BY <1>3, <3>1
  <2>6. f = Frame(Top.call, Top.tabled, Top.peak)
    BY <2>5
  <2> HIDE DEF f, p
  <2>2. /\ FrameOK(p, f) /\ f.call = Top.call /\ f.tabled = Top.tabled /\ f.peak = Top.peak
        /\ FrameDerived(p, f)
    BY <2>1, <2>5, <2>6, FreshFrame
  <2>3. \A a, j : FrameWhole(p, a, j, f)
    BY <2>1, <2>5, <2>6, FreshFrame
  <2>4. \A i : FrameExact(p, i, f)
    BY <2>1, <2>5, <2>6, FreshFrame
  <2> QED
    BY <2>2, <2>3, <2>4
<1>10. f \in FrameSet
  BY <1>9 DEF FrameOK
<1>12. Top = stack[n] /\ TopActive = active[k]
  BY DEF Top, Level, TopActive
<1> HIDE DEF p, f, table, known, span
<1>13. /\ stack' \in Seq(FrameSet) /\ Len(stack') = n /\ stack'[n] = f
       /\ \A i \in 1..(n - 1) : stack'[i] = stack[i]
  BY <1>2, <1>4, <1>10
<1>14. /\ active' \in Seq(TableSet) /\ Len(active') = k /\ active'[k] = table
       /\ \A j \in 1..(k - 1) : active'[j] = active[j]
  <2>1. active' = [active EXCEPT ![k] = table]
    BY <1>5 DEF table
  <2> QED
    BY <1>2, <1>3, <1>8, <2>1
<1>15. \A j \in 1..k : /\ active'[j].call = active[j].call /\ (active'[j].cyclic => active[j].cyclic)
                       /\ Derived(p, active'[j].call, active'[j].known)
  <2> TAKE j \in 1..k
  <2>1. CASE j = k
    BY <1>3, <1>6, <1>8, <1>12, <1>14, <2>1
  <2>2. CASE j # k
    <3>1. j \in 1..(k - 1)
      BY <1>3, <2>2
    <3> QED
      BY <1>11, <1>14, <3>1 DEF FramesGood
  <2> QED
    BY <2>1, <2>2
<1>16. /\ stack'[n].call = stack[n].call /\ stack'[n].tabled = stack[n].tabled
       /\ FrameOK(p, stack'[n]) /\ stack'[n].peak \in n..MaxDepth
       /\ FrameDerived(p, stack'[n]) /\ FrameWhole(p, active', k, stack'[n])
       /\ FrameExact(p, n, stack'[n])
  BY <1>2, <1>3, <1>9, <1>12, <1>13
<1>17. Producer(p, stack[n]) /\ Len(stack) > 0
  BY <1>2, <1>3, <1>12
<1>18. StacksGood(p, query, stack', active')
  BY ONLY <1>2, <1>11, <1>13, <1>14, <1>15, <1>16, <1>17, TopStacks
<1> QED
  BY <1>18 DEF p

-----------------------------------------------------------------------------
(***************************************************************************)
(* Results that are given at once.                                         *)
(***************************************************************************)

\* The table on top belongs to a call on the stack.
LEMMA RankWitness ==
    ASSUME NEW p, NEW s, NEW n \in Nat, Rank(p, s, n) > 0
    PROVE  \E i \in 1..n : Producer(p, s[i]) /\ Rank(p, s, i) = Rank(p, s, n)
<1> DEFINE T == {k \in Nat : Rank(p, s, k) > 0 =>
                    \E i \in 1..k : Producer(p, s[i]) /\ Rank(p, s, i) = Rank(p, s, k)}
<1>1. 0 \in T
  <2>1. Rank(p, s, 0) = 0
    BY RankFacts
  <2> QED
    BY <2>1
<1>2. ASSUME NEW k \in 1..n, k - 1 \in T
      PROVE  k \in T
  <2>1. k \in Nat /\ k # 0 /\ k - 1 \in Nat /\ k \in 1..k /\ \A i \in 1..(k - 1) : i \in 1..k
    OBVIOUS
  <2>2. CASE Producer(p, s[k])
    BY <2>1, <2>2
  <2>3. CASE ~ Producer(p, s[k])
    <3>1. Rank(p, s, k) = Rank(p, s, k - 1)
      BY <2>1, <2>3, RankFacts
    <3> QED
      BY <1>2, <2>1, <3>1
  <2> QED
    BY <2>2, <2>3
<1>3. \A k \in 0..n : k \in T
  <2> HIDE DEF T
  <2> QED
    BY <1>1, <1>2, SetInduction
<1>4. n \in T
  <2> HIDE DEF T
  <2>1. n \in 0..n
    OBVIOUS
  <2> QED
    BY <1>3, <2>1
<1> QED
  BY <1>4

\* The producer on top reaches the call that is asked for.
LEMMA ProducerReaches ==
    ASSUME NEW p \in Program, NEW q, NEW s, NEW act, StackOK(p, q, s), NestOK(p, s, act), ReachOK(p, s, act),
           Len(act) > 0
    PROVE  /\ act[Len(act)].call \in Calls /\ p.kind[act[Len(act)].call] = "moded"
           /\ \A c : Asks(p, q, s, Len(s), c) => <<act[Len(act)].call, c>> \in Reaches(p)
           /\ ~ Producer(p, s[Len(s)]) => <<act[Len(act)].call, s[Len(s)].call>> \in Reaches(p)
<1> DEFINE n == Len(s)
<1>1. n \in Nat /\ Rank(p, s, n) = Len(act) /\ act \in Seq(TableSet)
  BY StackFacts DEF NestOK
<1>2. PICK i \in 1..n : Producer(p, s[i]) /\ Rank(p, s, i) = Len(act)
  BY <1>1, RankWitness
<1>3. act[Len(act)].call = s[i].call
  BY <1>2 DEF NestOK
<1>4. act[Len(act)].call \in Calls /\ p.kind[act[Len(act)].call] = "moded"
  <2>1. Len(act) \in 1..Len(act)
    BY <1>1
  <2>2. act[Len(act)] \in TableSet
    BY <1>1, <2>1
  <2> QED
    BY <2>1, <2>2 DEF NestOK, TableSet
<1>5. ASSUME NEW c, Asks(p, q, s, Len(s), c)
      PROVE  <<act[Len(act)].call, c>> \in Reaches(p)
  BY <1>2, <1>3, <1>5, AskReach
<1>6. ASSUME ~ Producer(p, s[n])
      PROVE  <<act[Len(act)].call, s[n].call>> \in Reaches(p)
  <2>1. i \in 1..n /\ n \in 1..n /\ i < n
    BY <1>1, <1>2, <1>6
  <2> QED
    BY <1>3, <2>1 DEF ReachOK
<1> QED
  BY <1>4, <1>5, <1>6

LEMMA RecursNotPlain ==
    ASSUME NEW p, NEW c \in Calls, p.kind[c] = "moded", <<c, c>> \in Reaches(p)
    PROVE  c \in Recurs(p) /\ c \notin Plain(p)
BY DEF Recurs, Plain

\* An error promises nothing.
LEMMA ErrorResult ==
    ASSUME NEW p, NEW c, NEW e \in Errors, NEW act, NEW j
    PROVE  /\ Single(e) \in Bag /\ Single(e)[e] = 1
           /\ Derived(p, c, Support(Single(e)))
           /\ Whole(p, act, j, c, Single(e))
<1>1. e \in Results /\ e \notin Answers
  BY ResultFacts
<1>2. Single(e) \in Bag /\ Single(e)[e] = 1 /\ Support(Single(e)) = {e}
  BY <1>1, BagTypes, BagValues, Supports
<1>3. ~ NoErrors(Single(e))
  BY <1>2 DEF NoErrors
<1> QED
  BY <1>1, <1>2, <1>3 DEF Derived, Whole

\* A call at the bound is cut, as without tables.
LEMMA CutGood ==
    ASSUME NEW p \in Program, NEW c \in Calls, NEW act, NEW j, NEW n \in Nat, n + 1 = MaxDepth
    PROVE  Good(p, act, j, c, n, Single(Overflow), n + 1)
<1>1. /\ Single(Overflow) \in Bag /\ Single(Overflow)[Overflow] = 1
      /\ Derived(p, c, Support(Single(Overflow))) /\ Whole(p, act, j, c, Single(Overflow))
  BY ErrorResult, ResultFacts
<1>2. n + 1 \in (n + 1)..MaxDepth
  OBVIOUS
<1>3. Levels(p)[0][c] = Single(Overflow) /\ MaxDepth - 1 - n = 0
  BY LevelFacts
<1>4. Exact(p, c, n, Single(Overflow), n + 1)
  BY <1>1, <1>3 DEF Exact
<1> QED
  BY <1>1, <1>2, <1>4 DEF Good

LEMMA RefusedGood ==
    ASSUME NEW p, NEW c, NEW act, NEW j, NEW n, NEW peak \in (n + 1)..MaxDepth
    PROVE  Good(p, act, j, c, n, Single(Refused), peak)
<1>1. /\ Single(Refused) \in Bag /\ Single(Refused)[Refused] = 1
      /\ Derived(p, c, Support(Single(Refused))) /\ Whole(p, act, j, c, Single(Refused))
  BY ErrorResult, ResultFacts
<1>2. Exact(p, c, n, Single(Refused), peak)
  BY <1>1 DEF Exact
<1> QED
  BY <1>1, <1>2 DEF Good

\* A completed table answers as its call would, if its span fits.
LEMMA ReplayGood ==
    ASSUME NEW p \in Program, NEW c, NEW t, TableGood(p, c, t), NEW act, NEW j,
           NEW n \in Nat, n + 1 + t.span < MaxDepth
    PROVE  Good(p, act, j, c, n, t.bag, n + 1 + t.span)
<1>1. c \in Calls /\ t.bag \in Bag /\ t.span \in Nat /\ MaxDepth \in Nat
  <2>1. t \in RememberedSet /\ c \in Calls
    BY DEF TableGood
  <2> QED
    BY <2>1, TablingAssumption DEF RememberedSet
<1>2. n + 1 + t.span \in (n + 1)..MaxDepth
  BY <1>1
<1>3. Derived(p, c, Support(t.bag))
  BY DEF TableGood
<1>4. Whole(p, act, j, c, t.bag)
  <2> SUFFICES ASSUME ~ Mixed(p), NoErrors(t.bag), NEW m \in Models(p, act, j)
               PROVE  m[c] \subseteq Support(t.bag)
    BY DEF Whole
  <2>1. m[c] \subseteq Least(p)[c]
    BY <1>1, ModelFacts
  <2>2. Least(p)[c] \subseteq Support(t.bag)
    BY DEF TableGood
  <2> QED
    BY <2>1, <2>2
<1>5. Exact(p, c, n, t.bag, n + 1 + t.span)
  <2> SUFFICES ASSUME c \in Plain(p), t.bag[Refused] = 0, NEW i \in Depths,
                      i = MaxDepth - 1 - n \/ (t.bag[Overflow] = 0 /\ i >= (n + 1 + t.span) - n)
               PROVE  t.bag = Levels(p)[i][c]
    BY DEF Exact
  <2>1. t.bag[Overflow] = 0 /\ t.span + 1 \in Depths /\ t.bag = Levels(p)[t.span + 1][c]
    BY DEF TableGood
  <2>2. i \in Nat /\ t.span + 1 <= i
    BY <1>1 DEF Depths
  <2>3. Levels(p)[i][c] = Levels(p)[t.span + 1][c]
    BY <1>1, <2>1, <2>2, LevelsStable
  <2> QED
    BY <2>1, <2>3
<1> QED
  BY <1>1, <1>2, <1>3, <1>4, <1>5 DEF Good

-----------------------------------------------------------------------------
(***************************************************************************)
(* The calls of the program.                                               *)
(***************************************************************************)

\* There are calls only while a query is evaluated.
LEMMA StackBusy ==
    ASSUME Kept
    PROVE  stack # << >> => Busy
<1> SUFFICES ASSUME stack # << >> PROVE Busy
  OBVIOUS
<1>1. StackOK(program, query, stack) /\ stack \in Seq(FrameSet)
  BY DEF Kept, StacksGood, StackOK
<1>2. 1 \in 1..Len(stack)
  BY <1>1
<1>3. Asks(program, query, stack, 1 - 1, stack[1].call)
  BY <1>1, <1>2, StackFacts
<1>4. query = <<stack[1].call>>
  BY <1>3 DEF Asks
<1>5. query # << >>
  BY <1>4
<1> QED
  BY <1>5 DEF Busy, Kept

\* The call evaluated next is what the frame on top, or the query, waits for.
LEMMA PendingAsks ==
    ASSUME program \in Program, Kept, NEW c \in Calls, Pending = <<c>>
    PROVE  Asks(program, query, stack, Level, c) /\ reply = << >>
<1>1. stack \in Seq(FrameSet) /\ Level \in Nat /\ \A i \in 1..Level : FrameOK(program, stack[i])
  <2>1. StackOK(program, query, stack)
    BY DEF Kept, StacksGood
  <2> QED
    BY <2>1, StackFacts DEF Level
<1>2. <<c>> # << >>
  OBVIOUS
<1>6. stack # << >> => Busy
  BY StackBusy
<1>3. Busy /\ ~ PassEnded
  <2>1. ~ Busy \/ PassEnded => Pending = << >>
    BY <1>6 DEF Pending, PassEnded
  <2> QED
    BY <1>2, <2>1
<1>4. CASE stack = << >>
  <2>1. Level = 0 /\ ~ PassEnded
    BY <1>4 DEF Level, PassEnded
  <2>2. Pending = query
    BY <1>3, <1>4 DEF Pending
  <2> QED
    BY <1>3, <2>1, <2>2 DEF Asks, Busy
<1>5. CASE stack # << >>
  <2>1. Level >= 1 /\ Level # 0 /\ Level \in 1..Level
    BY <1>1, <1>5 DEF Level
  <2>2. FrameOK(program, Top)
    BY <1>1, <2>1 DEF Top
  <2>3. Top.clause <= Len(ClausesOf(program, Top))
    <3>1. ~ (Top.clause > Len(ClausesOf(program, Top)))
      BY <1>3, <1>5 DEF PassEnded, Clauses, ClausesOf
    <3>2. Top.clause \in Nat /\ Len(ClausesOf(program, Top)) \in Nat
      BY <2>2, FrameFacts
    <3> QED
      BY <3>1, <3>2
  <2>4. Pending = IF BodyOf(program, Top) = << >> THEN << >> ELSE <<BodyOf(program, Top)[Top.need]>>
    BY <1>3, <1>5 DEF Pending, Body, BodyOf, Clauses, ClausesOf
  <2>5. BodyOf(program, Top) # << >> /\ <<BodyOf(program, Top)[Top.need]>> = <<c>>
    BY <1>2, <2>4
  <2>6. c = PremiseOf(program, Top)
    BY <2>5 DEF PremiseOf
  <2>7. Top.need <= Len(BodyOf(program, Top))
    <3>1. Len(BodyOf(program, Top)) \in 0..2 /\ Len(BodyOf(program, Top)) # 0
      BY <2>2, <2>3, <2>5, BodyFacts
    <3>2. Top.need \in {1, 2} /\ (Top.need = 2 => Len(BodyOf(program, Top)) = 2)
      BY <2>2, FrameFacts
    <3> QED
      BY <3>1, <3>2
  <2> QED
    BY <1>3, <2>1, <2>3, <2>6, <2>7 DEF Asks, Waits, Top, Busy
<1> QED
  BY <1>4, <1>5

-----------------------------------------------------------------------------
(***************************************************************************)
(* A call returns.                                                         *)
(***************************************************************************)

\* The stacks without the call on top.
Popped(p, s, act, front, left) ==
    /\ front = SubSeq(s, 1, Len(s) - 1)
    /\ left = IF Producer(p, s[Len(s)]) THEN SubSeq(act, 1, Len(act) - 1) ELSE act

LEMMA PopStacks ==
    ASSUME NEW p \in Program, NEW q, NEW s, NEW act, StacksGood(p, q, s, act), Len(s) > 0,
           NEW front, NEW left, Popped(p, s, act, front, left)
    PROVE  /\ StacksGood(p, q, front, left) /\ Len(front) = Len(s) - 1
           /\ Asks(p, q, front, Len(front), s[Len(s)].call)
<1> DEFINE n == Len(s)
<1>1. StackOK(p, q, s) /\ NestOK(p, s, act) /\ ReachOK(p, s, act) /\ FramesGood(p, s, act)
  BY DEF StacksGood
<1>2. /\ s \in Seq(FrameSet) /\ n \in Nat /\ n < MaxDepth /\ MaxDepth \in Nat /\ n > 0 /\ n - 1 \in Nat
      /\ \A i \in 1..n : /\ FrameOK(p, s[i]) /\ s[i].peak \in i..MaxDepth
                         /\ Asks(p, q, s, i - 1, s[i].call)
  BY <1>1, StackFacts
<1>20. /\ front = SubSeq(s, 1, Len(s) - 1)
       /\ left = IF Producer(p, s[Len(s)]) THEN SubSeq(act, 1, Len(act) - 1) ELSE act
  BY DEF Popped
<1>3. front \in Seq(FrameSet) /\ Len(front) = n - 1 /\ \A i \in 1..(n - 1) : front[i] = s[i]
  BY <1>2, <1>20, FrontFacts
<1>4. /\ NestOK(p, front, left)
      /\ \A i \in 0..(n - 1) : Rank(p, front, i) = Rank(p, s, i)
      /\ \A j \in 1..Len(left) : left[j] = act[j]
      /\ Len(left) = Rank(p, s, n - 1)
  <2>1. /\ s \in Seq(FrameSet) /\ NestOK(p, s, act) /\ Len(s) > 0 /\ front = SubSeq(s, 1, Len(s) - 1)
        /\ left = IF Producer(p, s[Len(s)]) THEN SubSeq(act, 1, Len(act) - 1) ELSE act
    BY <1>1, <1>2, <1>20
  <2>2. NestOK(p, front, left)
    BY ONLY <2>1, PopNest
  <2>3. \A i \in 0..(n - 1) : Rank(p, front, i) = Rank(p, s, i)
    <3> TAKE i \in 0..(n - 1)
    <3>1. i \in Nat /\ \A k \in 1..i : k \in 1..(n - 1)
      BY <1>2
    <3>2. \A k \in 1..i : Producer(p, s[k]) <=> Producer(p, front[k])
      BY <1>3, <3>1
    <3> QED
      BY ONLY <3>1, <3>2, RankSame
  <2>4. \A j \in 1..Len(left) : left[j] = act[j]
    BY ONLY <2>1, PopNest
  <2>5. Len(left) = Rank(p, s, Len(s) - 1)
    BY ONLY <2>1, PopNest
  <2> QED
    BY <2>2, <2>3, <2>4, <2>5
<1>5. Producer(p, s[n]) => Len(act) > 0
  BY <1>1, <1>2, <1>20, PopNest
<1>6. act \in Seq(TableSet) /\ Len(act) \in Nat
  BY <1>1 DEF NestOK
<1>7. Len(left) \in Nat /\ Len(left) <= Len(act)
  <2>1. CASE Producer(p, s[n])
    BY <1>5, <1>6, <1>20, <2>1, FrontFacts
  <2>2. CASE ~ Producer(p, s[n])
    BY <1>6, <1>20, <2>2
  <2> QED
    BY <2>1, <2>2
<1>8. \A i \in 1..(n - 1) : i \in 1..n /\ i \in 0..(n - 1) /\ i \in Nat /\ i <= n - 1
  BY <1>2
<1>9. \A i \in 1..n : Asks(p, q, front, i - 1, s[i].call)
  <2> TAKE i \in 1..n
  <2>1. Asks(p, q, s, i - 1, s[i].call)
    BY <1>2
  <2>2. i - 1 = 0 \/ i - 1 \in 1..(n - 1)
    BY <1>2
  <2>3. i - 1 = 0 \/ front[i - 1] = s[i - 1]
    BY <1>3, <2>2
  <2> QED
    BY <2>1, <2>3 DEF Asks
<1> HIDE DEF n
<1>10. StackOK(p, q, front)
  <2>1. Len(front) < MaxDepth
    BY <1>2, <1>3
  <2>2. \A i \in 1..(n - 1) : FrameOK(p, front[i]) /\ front[i].peak \in i..MaxDepth
    BY <1>2, <1>3, <1>8
  <2>3. \A i \in 1..(n - 1) : Asks(p, q, front, i - 1, front[i].call)
    BY <1>3, <1>8, <1>9
  <2> QED
    BY <1>3, <2>1, <2>2, <2>3 DEF StackOK
<1>11. ReachOK(p, front, left)
  <2>1. \A i, k \in 1..(n - 1) : i < k => <<front[i].call, front[k].call>> \in Reaches(p)
    BY <1>1, <1>3, <1>8 DEF ReachOK, n
  <2>2. \A j \in 1..Len(left) : left[j].cyclic => <<left[j].call, left[j].call>> \in Reaches(p)
    BY <1>1, <1>4, <1>6, <1>7 DEF ReachOK
  <2> QED
    BY <1>3, <2>1, <2>2 DEF ReachOK
<1>12. ASSUME NEW i \in 1..(n - 1)
       PROVE  FrameGood(p, front, left, i)
  <2>1. i \in 1..n /\ i \in Nat /\ i <= n - 1 /\ front[i] = s[i] /\ Rank(p, front, i) = Rank(p, s, i)
    BY <1>3, <1>4, <1>8
  <2>2. FrameGood(p, s, act, i)
    BY <1>1, <2>1 DEF FramesGood, n
  <2>3. Rank(p, s, i) \in Nat
    BY <2>1, RankFacts
  <2>4. Rank(p, s, i) <= Len(left)
    BY <1>2, <1>4, <2>1, RankOrder
  <2>5. Rank(p, s, i) > 0 => left[Rank(p, s, i)] = act[Rank(p, s, i)]
    BY <1>4, <1>7, <2>3, <2>4
  <2>6. \A m \in Models(p, left, Rank(p, s, i)) : m \in Models(p, act, Rank(p, s, i))
    BY <2>5, ModelsOfTable
  <2> QED
    BY ONLY <2>1, <2>2, <2>6, FrameKept
<1>13. \A j \in 1..Len(left) : Derived(p, left[j].call, left[j].known)
  BY <1>1, <1>4, <1>6, <1>7 DEF FramesGood
<1>14. FramesGood(p, front, left)
  BY <1>3, <1>12, <1>13 DEF FramesGood
<1>15. Asks(p, q, front, Len(front), s[n].call)
  <2>1. n \in 1..n
    BY <1>2
  <2> QED
    BY <1>3, <1>9, <2>1
<1> QED
  BY <1>3, <1>4, <1>10, <1>11, <1>14, <1>15 DEF StacksGood, n

\* The results of an ended pass over all clauses are those without tables.
LEMMA EndExact ==
    ASSUME NEW p \in Program, NEW f, FrameOK(p, f), f.clause = Len(ClausesOf(p, f)) + 1,
           NEW i \in Nat, i >= 1, i < MaxDepth, f.peak \in i..MaxDepth, FrameExact(p, i, f)
    PROVE  Exact(p, f.call, i - 1, f.bag, f.peak)
<1> SUFFICES ASSUME f.call \in Plain(p), f.bag[Refused] = 0, NEW n \in Depths,
                    n = MaxDepth - 1 - (i - 1) \/ (f.bag[Overflow] = 0 /\ n >= f.peak - (i - 1))
             PROVE  f.bag = Levels(p)[n][f.call]
  BY DEF Exact
<1>1. MaxDepth \in Nat /\ n \in Nat /\ n <= MaxDepth /\ f.peak \in Nat /\ f.peak >= i
  BY LevelFacts DEF Depths
<1> DEFINE l == n - 1
<1>2. n >= 1 /\ n \in 1..MaxDepth /\ l \in 0..(MaxDepth - 1) /\ l \in Depths
  BY <1>1 DEF Depths
<1>3. l = MaxDepth - 1 - i \/ (f.bag[Overflow] = 0 /\ l >= f.peak - i)
  BY <1>1
<1> HIDE DEF l
<1>4. Partial(p, f, l)
  BY <1>2, <1>3 DEF FrameExact
<1>5. f.need = 1 /\ f.call \in Calls /\ f.clause - 1 = Len(p.clauses[f.call]) /\ Len(p.clauses[f.call]) \in Nat
  BY FrameFacts
<1>6. f.bag = Sums(ClauseBags(p, f.call, Levels(p)[l]))[Len(p.clauses[f.call])]
  BY <1>4, <1>5 DEF Partial, Before
<1>7. Len(ClauseBags(p, f.call, Levels(p)[l])) = Len(p.clauses[f.call])
  <2>1. Levels(p)[l] \in [Calls -> Bag]
    BY <1>2, LevelFacts
  <2> QED
    BY <1>5, <2>1, ClauseBagsType
<1>8. Levels(p)[n][f.call] = SumBags(ClauseBags(p, f.call, Levels(p)[l]))
  BY <1>2, <1>5, LevelFacts DEF l
<1> QED
  BY <1>6, <1>7, <1>8 DEF SumBags

LEMMA ReturnStacks ==
    ASSUME program \in Program, StacksGood(program, query, stack, active), PassEnded,
           stack # << >> => reply = << >>, ReplyGood(program, query, reply),
           active' = IF Producer(program, Top) THEN SubSeq(active, 1, Len(active) - 1) ELSE active,
           NEW b, Good(program, active', Len(active'), Top.call, Level - 1, b, Top.peak), Return(b)
    PROVE  /\ StacksGood(program, query', stack', active')
           /\ ReplyGood(program, query', reply') /\ query' = query
           /\ stack' # << >> => reply' = << >>
<1> DEFINE front == SubSeq(stack, 1, Len(stack) - 1)
<1>1. Level >= 1 /\ Level \in Nat /\ Top.call \in Calls /\ stack # << >>
  BY EndedFacts DEF PassEnded
<1>2. Top = stack[Len(stack)] /\ Level = Len(stack)
  BY DEF Top, Level
<1>3. /\ StacksGood(program, query, front, active') /\ Len(front) = Len(stack) - 1
      /\ Asks(program, query, front, Len(front), Top.call)
  <2>1. Len(stack) > 0 /\ active' = IF Producer(program, stack[Len(stack)]) THEN SubSeq(active, 1, Len(active) - 1)
                                    ELSE active
    BY <1>1, <1>2
  <2> DEFINE left == active'
  <2>2. Popped(program, stack, active, front, left)
    BY <2>1 DEF Popped
  <2>7. program \in Program /\ StacksGood(program, query, stack, active) /\ Len(stack) > 0
    BY <2>1
  <2> HIDE DEF front, left
  <2>3. StacksGood(program, query, front, left)
    BY ONLY <2>2, <2>7, PopStacks
  <2>4. Len(front) = Len(stack) - 1
    BY ONLY <2>2, <2>7, PopStacks
  <2>5. Asks(program, query, front, Len(front), stack[Len(stack)].call)
    BY ONLY <2>2, <2>7, PopStacks
  <2> USE DEF left
  <2> QED
    BY <1>2, <2>3, <2>4, <2>5
<1>4. Good(program, active', Len(active'), Top.call, Len(front), b, Top.peak)
  BY <1>2, <1>3
<1>5. ReplyTo(front, b, Top.peak)
  BY <1>2 DEF Return
<1>6. reply = << >>
  BY <1>1
<1> HIDE DEF front
<1> DEFINE now == active'
<1>7. now = active'
  OBVIOUS
<1>8. StacksGood(program, query, front, now) /\ Good(program, now, Len(now), Top.call, Len(front), b, Top.peak)
  BY <1>3, <1>4
<1> HIDE DEF now
<1>9. active' = now /\ (front # << >> => reply = << >>)
  BY <1>6, <1>7
<1>10. /\ StacksGood(program, query', stack', active')
       /\ ReplyGood(program, query', reply') /\ query' = query
       /\ stack' # << >> => reply' = << >>
  BY <1>1, <1>3, <1>5, <1>8, <1>9, Answered
<1> QED
  BY <1>10

\* What the clauses of an ended pass give is in its results.
LEMMA EndedWhole ==
    ASSUME NEW p \in Program, NEW f, FrameOK(p, f), f.clause = Len(ClausesOf(p, f)) + 1,
           NEW act, NEW j, FrameWhole(p, act, j, f), ~ Mixed(p), NoErrors(f.bag), NEW m \in Models(p, act, j)
    PROVE  Consequences(p, f.call, m) \subseteq Support(f.bag)
<1>1. f.call \in Calls /\ f.clause - 1 = Len(p.clauses[f.call]) /\ ClausesOf(p, f) = p.clauses[f.call]
  BY FrameFacts
<1>2. DOMAIN p.clauses[f.call] = 1..Len(p.clauses[f.call])
  BY <1>1, ProgramFacts
<1>3. \A k \in 1..Len(p.clauses[f.call]) : ClauseAnswers(p.clauses[f.call][k], m) \subseteq Support(f.bag)
  BY <1>1 DEF FrameWhole
<1> QED
  BY <1>2, <1>3 DEF Consequences

\* Unless its table was read inside it, a call has its answers from those of the calls
\* it reaches.
LEMMA LeastModels ==
    ASSUME NEW p \in Program, NEW act, NEW j, NEW c \in Calls,
           j > 0 /\ act[j].cyclic => act[j].call # c /\ <<c, act[j].call>> \notin Reaches(p)
    PROVE  \E m \in Models(p, act, j) : Least(p)[c] \subseteq Consequences(p, c, m)
<1> DEFINE L == Least(p)
           Below(d) == d = c \/ <<c, d>> \in Reaches(p)
           m == [d \in Calls |-> IF Below(d) THEN L[d] ELSE {}]
<1>1. L \in Interpretation /\ \A d \in Calls : Consequences(p, d, L) = L[d]
  BY LeastFacts DEF Least
<1> HIDE DEF L
<1>2. \A d \in Calls : L[d] \in SUBSET Answers
  BY <1>1 DEF Interpretation
<1>3. m \in Interpretation
  <2>1. \A d \in Calls : (IF Below(d) THEN L[d] ELSE {}) \in SUBSET Answers
    BY <1>2
  <2> QED
    BY <2>1 DEF Interpretation
<1>4. \A d \in Calls : m[d] = IF Below(d) THEN L[d] ELSE {}
  OBVIOUS
<1>5. ASSUME NEW d \in Calls, Below(d)
      PROVE  L[d] \subseteq Consequences(p, d, m)
  <2>1. \A e \in Premises(p, d) : e \in Calls /\ Below(e)
    <3>1. \A e \in Premises(p, d) : e \in Calls /\ <<d, e>> \in Reaches(p)
      BY PremiseFacts, ReachFacts
    <3> QED
      BY <1>5, <3>1, ReachFacts
  <2>2. \A e \in Premises(p, d) : L[e] \subseteq m[e]
    BY <1>4, <2>1
  <2> HIDE DEF m
  <2>3. Consequences(p, d, L) \subseteq Consequences(p, d, m)
    BY <1>1, <1>3, <2>2, ConsequencesMonotone
  <2> QED
    BY <1>1, <2>3
<1>6. ASSUME NEW d \in Calls
      PROVE  /\ m[d] \subseteq L[d]
             /\ IF j > 0 /\ d = act[j].call THEN act[j].cyclic => m[d] \subseteq act[j].known
                ELSE m[d] \subseteq Consequences(p, d, m)
  <2>1. m[d] \subseteq L[d] /\ m[d] \subseteq Consequences(p, d, m)
    <3>1. CASE Below(d)
      BY <1>4, <1>5, <3>1
    <3>2. CASE ~ Below(d)
      BY <1>4, <3>2
    <3> QED
      BY <3>1, <3>2
  <2>2. ASSUME j > 0, d = act[j].call, act[j].cyclic
        PROVE  m[d] = {}
    BY <1>4, <2>2
  <2> HIDE DEF m
  <2> QED
    BY <2>1, <2>2
<1>7. m \in Models(p, act, j)
  <2> HIDE DEF m
  <2> QED
    BY <1>3, <1>6 DEF Models, L
<1>8. L[c] \subseteq Consequences(p, c, m)
  BY <1>5
<1> HIDE DEF m
<1> QED
  BY <1>7, <1>8 DEF L

\* What may be remembered of the results of a call at level n + 1.
LEMMA Remembers ==
    ASSUME NEW p, NEW c \in Calls, NEW act, NEW j, NEW n \in Nat, NEW b, NEW peak, Good(p, act, j, c, n, b, peak),
           ~ Mixed(p) /\ NoErrors(b) => Least(p)[c] \subseteq Support(b),
           b[Overflow] = 0, NEW t, t = [bag |-> b, span |-> peak - (n + 1)]
    PROVE  TableGood(p, c, t)
<1>1. b \in Bag /\ peak \in (n + 1)..MaxDepth /\ Derived(p, c, Support(b)) /\ Exact(p, c, n, b, peak)
  BY DEF Good
<1>2. MaxDepth \in Nat
  BY TablingAssumption
<1>3. t.bag = b /\ t.span = peak - (n + 1) /\ t \in RememberedSet
  BY <1>1, <1>2 DEF RememberedSet
<1>4. t.span + 1 = peak - n /\ peak - n \in Depths
  BY <1>1, <1>2, <1>3 DEF Depths
<1>5. c \in Plain(p) /\ b[Refused] = 0 => b = Levels(p)[peak - n][c]
  <2> SUFFICES ASSUME c \in Plain(p), b[Refused] = 0 PROVE b = Levels(p)[peak - n][c]
    OBVIOUS
  <2> DEFINE l == peak - n
  <2>1. l \in Depths /\ l >= peak - n
    BY <1>1, <1>2, <1>4
  <2> HIDE DEF l
  <2>2. b = Levels(p)[l][c]
    BY <1>1, <2>1 DEF Exact
  <2> QED
    BY <2>2 DEF l
<1> QED
  BY <1>1, <1>3, <1>4, <1>5 DEF TableGood

LEMMA RememberedGood ==
    ASSUME NEW p, TablesGood(p, completed), NEW c \in Calls, NEW b \in Bag, NEW span,
           NEW t, t = [bag |-> b, span |-> span], b[Overflow] = 0 => TableGood(p, c, t)
    PROVE  TablesGood(p, Remembered(c, b, span))
<1>1. b[Overflow] \in Nat
  BY ErrorsInSupport
<1>2. CASE b[Overflow] > 0
  BY <1>2 DEF Remembered
<1>3. CASE ~ (b[Overflow] > 0)
  <2>1. Remembered(c, b, span) = [d \in DOMAIN completed \cup {c} |-> IF d = c THEN t ELSE completed[d]]
    BY <1>3 DEF Remembered
  <2>2. TableGood(p, c, t)
    BY <1>1, <1>3
  <2> QED
    BY <2>1, <2>2 DEF TablesGood
<1> QED
  BY <1>2, <1>3

LEMMA LeastWhole ==
    ASSUME NEW p, NEW c \in Calls, NEW b, ~ Mixed(p) /\ NoErrors(b) => Least(p)[c] \subseteq Support(b),
           NEW act, NEW j
    PROVE  Whole(p, act, j, c, b)
<1> SUFFICES ASSUME ~ Mixed(p), NoErrors(b), NEW m \in Models(p, act, j)
             PROVE  m[c] \subseteq Support(b)
  BY DEF Whole
<1>1. m[c] \subseteq Least(p)[c]
  BY ModelFacts
<1> QED
  BY <1>1

\* The results of an ended pass hold all answers, unless they wait for those of a table.
LEMMA EndLeast ==
    ASSUME program \in Program, StacksGood(program, query, stack, active), PassEnded,
           Len(active) > 0 /\ TopActive.cyclic =>
                TopActive.call # Top.call /\ <<Top.call, TopActive.call>> \notin Reaches(program)
    PROVE  ~ Mixed(program) /\ NoErrors(Top.bag) => Least(program)[Top.call] \subseteq Support(Top.bag)
<1> SUFFICES ASSUME ~ Mixed(program), NoErrors(Top.bag)
             PROVE  Least(program)[Top.call] \subseteq Support(Top.bag)
  OBVIOUS
<1> DEFINE k == Len(active)
<1>1. /\ FrameOK(program, Top) /\ Top.call \in Calls /\ Top.clause = Len(ClausesOf(program, Top)) + 1
      /\ FrameWhole(program, active, k, Top)
  BY EndedFacts
<1>2. k > 0 /\ active[k].cyclic => active[k].call # Top.call /\ <<Top.call, active[k].call>> \notin Reaches(program)
  BY DEF TopActive
<1> HIDE DEF k
<1>3. PICK m \in Models(program, active, k) : Least(program)[Top.call] \subseteq Consequences(program, Top.call, m)
  BY <1>1, <1>2, LeastModels
<1>4. Consequences(program, Top.call, m) \subseteq Support(Top.bag)
  BY <1>1, EndedWhole
<1> QED
  BY <1>3, <1>4

\* A pass ends with what its call should return, if that holds enough.
LEMMA EndGood ==
    ASSUME program \in Program, StacksGood(program, query, stack, active), PassEnded,
           NEW act, NEW j, Whole(program, act, j, Top.call, Top.bag)
    PROVE  Good(program, act, j, Top.call, Level - 1, Top.bag, Top.peak)
<1>1. /\ FrameOK(program, Top) /\ Top.call \in Calls /\ Top.clause = Len(ClausesOf(program, Top)) + 1
      /\ Level \in Nat /\ Level >= 1 /\ Level < MaxDepth /\ Top.peak \in Level..MaxDepth /\ Top.bag \in Bag
      /\ FrameDerived(program, Top) /\ FrameExact(program, Level, Top)
  BY EndedFacts
<1>2. Derived(program, Top.call, Support(Top.bag))
  BY <1>1 DEF FrameDerived
<1>3. Exact(program, Top.call, Level - 1, Top.bag, Top.peak)
  BY <1>1, EndExact
<1>4. Top.peak \in (Level - 1 + 1)..MaxDepth
  BY <1>1
<1> QED
  BY <1>1, <1>2, <1>3, <1>4 DEF Good

\* A call without a table of its own.
LEMMA EndPlainWhole ==
    ASSUME program \in Program, StacksGood(program, query, stack, active), PassEnded, ~ Producer(program, Top)
    PROVE  /\ Whole(program, active, Len(active), Top.call, Top.bag)
           /\ Top.tabled /\ ~ Mixed(program) /\ NoErrors(Top.bag) =>
                Least(program)[Top.call] \subseteq Support(Top.bag)
<1> DEFINE k == Len(active)
<1>1. /\ FrameOK(program, Top) /\ Top.call \in Calls /\ Top.clause = Len(ClausesOf(program, Top)) + 1
      /\ Level \in 1..Len(stack) /\ Rank(program, stack, Level) = k /\ k \in Nat
      /\ FrameWhole(program, active, k, Top) /\ active \in Seq(TableSet)
  BY EndedFacts
<1>2. StackOK(program, query, stack) /\ NestOK(program, stack, active) /\ ReachOK(program, stack, active)
  BY DEF StacksGood
<1>3. k = 0 \/ active[k].call # Top.call
  BY <1>1, <1>2 DEF NestOK, Top
<1> HIDE DEF k
<1>4. Whole(program, active, k, Top.call, Top.bag)
  <2> SUFFICES ASSUME ~ Mixed(program), NoErrors(Top.bag), NEW m \in Models(program, active, k)
               PROVE  m[Top.call] \subseteq Support(Top.bag)
    BY DEF Whole
  <2>1. m[Top.call] \subseteq Consequences(program, Top.call, m)
    BY <1>1, <1>3, ModelFacts
  <2>2. Consequences(program, Top.call, m) \subseteq Support(Top.bag)
    BY <1>1, EndedWhole
  <2> QED
    BY <2>1, <2>2
<1>5. ASSUME Top.tabled, ~ Mixed(program), NoErrors(Top.bag)
      PROVE  Least(program)[Top.call] \subseteq Support(Top.bag)
  <2>1. program.kind[Top.call] = "ground"
    BY <1>1, <1>5 DEF Producer, FrameOK
  <2>2. ASSUME k > 0, active[k].cyclic
        PROVE  <<Top.call, active[k].call>> \notin Reaches(program)
    <3>1. /\ active[k].call \in Calls /\ program.kind[active[k].call] = "moded"
          /\ <<active[k].call, Top.call>> \in Reaches(program)
      BY <1>2, <2>2, ProducerReaches DEF k, Top, Level
    <3>2. k \in 1..Len(active)
      BY <1>1, <2>2 DEF k
    <3>3. <<active[k].call, active[k].call>> \in Reaches(program)
      BY <1>2, <2>2, <3>2 DEF ReachOK
    <3>4. active[k].call \in Recurs(program)
      BY <3>1, <3>3 DEF Recurs
    <3> QED
      BY <1>1, <1>5, <2>1, <3>1, <3>4 DEF Mixed
  <2>3. Len(active) > 0 /\ TopActive.cyclic =>
            TopActive.call # Top.call /\ <<Top.call, TopActive.call>> \notin Reaches(program)
    BY <1>3, <2>2 DEF TopActive, k
  <2> QED
    BY <1>5, <2>3, EndLeast
<1> QED
  BY <1>4, <1>5 DEF k

LEMMA EndPlainKept ==
    ASSUME program \in Program, Kept, EndPlain
    PROVE  Kept'
<1>1. PassEnded /\ ~ Producer(program, Top) /\ active' = active /\ program' = program /\ Return(Top.bag)
  BY DEF EndPlain, IsModed, Producer
<1>2. StacksGood(program, query, stack, active)
  BY DEF Kept
<1>3. /\ Level \in Nat /\ Level >= 1 /\ Level - 1 \in Nat /\ Top.call \in Calls /\ Top.bag \in Bag
      /\ Top.tabled \in BOOLEAN
  BY <1>1, <1>2, EndedFacts, FrameFacts
<1>4. Good(program, active, Len(active), Top.call, Level - 1, Top.bag, Top.peak)
  BY <1>1, <1>2, EndPlainWhole, EndGood
<1>5. TablesGood(program, completed')
  <2>1. CASE ~ Top.tabled
    BY <2>1 DEF EndPlain, Kept
  <2>2. CASE Top.tabled
    <3> DEFINE t == [bag |-> Top.bag, span |-> Span]
    <3>1. completed' = Remembered(Top.call, Top.bag, Span)
      BY <2>2 DEF EndPlain
    <3>2. t = [bag |-> Top.bag, span |-> Top.peak - ((Level - 1) + 1)]
      BY <1>3 DEF Span
    <3>3. ~ Mixed(program) /\ NoErrors(Top.bag) => Least(program)[Top.call] \subseteq Support(Top.bag)
      BY <1>1, <1>2, <2>2, EndPlainWhole
    <3>5. t = [bag |-> Top.bag, span |-> Span]
      OBVIOUS
    <3> HIDE DEF t
    <3>4. Top.bag[Overflow] = 0 => TableGood(program, Top.call, t)
      BY <1>3, <1>4, <3>2, <3>3, Remembers
    <3> QED
      BY <1>3, <3>1, <3>4, <3>5, RememberedGood DEF Kept
  <2> QED
    BY <1>3, <2>1, <2>2
<1>6. /\ StacksGood(program, query', stack', active') /\ ReplyGood(program, query', reply')
      /\ (stack' # << >> => reply' = << >>)
  <2>1. /\ active' = IF Producer(program, Top) THEN SubSeq(active, 1, Len(active) - 1) ELSE active
        /\ Good(program, active', Len(active'), Top.call, Level - 1, Top.bag, Top.peak)
    BY <1>1, <1>4
  <2>2. program \in Program /\ ReplyGood(program, query, reply) /\ (stack # << >> => reply = << >>)
    BY DEF Kept
  <2> QED
    BY ONLY <1>1, <1>2, <2>1, <2>2, ReturnStacks
<1> QED
  BY <1>1, <1>5, <1>6 DEF Kept

\* When the clauses of a call give nothing that its table does not know, whatever is
\* derived from what the table knows, then the table knows all answers.
LEMMA KnownIsAll ==
    ASSUME NEW p \in Program, NEW c \in Calls, NEW act, NEW j, j > 0, act[j].call = c, act[j].cyclic,
           \A m \in Models(p, act, j) : Consequences(p, c, m) \subseteq act[j].known
    PROVE  Least(p)[c] \subseteq act[j].known
<1> DEFINE L == Least(p)
           Ms == Models(p, act, j)
           known == act[j].known
           M == [d \in Calls |-> {a \in Answers : \E m \in Ms : a \in m[d]}]
           N == [d \in Calls |-> IF d = c THEN Consequences(p, d, M) \cup M[d] ELSE Consequences(p, d, M)]
<1>1. L \in Interpretation /\ \A d \in Calls : Consequences(p, d, L) = L[d]
  BY LeastFacts DEF Least
<1>2. \A m \in Ms : /\ m \in Interpretation /\ m[c] \subseteq known
                    /\ \A d \in Calls : m[d] \subseteq L[d] /\ m[d] \subseteq Answers
                    /\ \A d \in Calls : d # c => m[d] \subseteq Consequences(p, d, m)
  BY ModelFacts
<1>3. \A m : m \in Ms <=> /\ m \in Interpretation /\ m[c] \subseteq known
                          /\ \A d \in Calls : m[d] \subseteq L[d]
                          /\ \A d \in Calls : d # c => m[d] \subseteq Consequences(p, d, m)
  BY DEF Models
<1>4. \A m \in Ms : Consequences(p, c, m) \subseteq known
  OBVIOUS
<1> HIDE DEF L, Ms, known
<1>5. /\ M \in Interpretation
      /\ \A d \in Calls : \A a : a \in M[d] <=> a \in Answers /\ \E m \in Ms : a \in m[d]
  BY DEF Interpretation
<1> HIDE DEF M
<1>6. /\ \A m \in Ms : \A d \in Calls : m[d] \subseteq M[d]
      /\ \A d \in Calls : M[d] \subseteq L[d]
      /\ M[c] \subseteq known
  BY <1>2, <1>5
<1>7. \A d \in Calls : d # c => M[d] \subseteq Consequences(p, d, M)
  <2> SUFFICES ASSUME NEW d \in Calls, d # c, NEW a \in M[d] PROVE a \in Consequences(p, d, M)
    OBVIOUS
  <2>1. PICK m \in Ms : a \in m[d]
    BY <1>5
  <2>2. m \in Interpretation /\ a \in Consequences(p, d, m)
    BY <1>2, <2>1
  <2>3. \A e \in Premises(p, d) : m[e] \subseteq M[e]
    BY <1>6, PremiseFacts
  <2>4. Consequences(p, d, m) \subseteq Consequences(p, d, M)
    BY <1>5, <2>2, <2>3, ConsequencesMonotone
  <2> QED
    BY <2>2, <2>4
<1>8. M \in Ms
  BY <1>3, <1>5, <1>6, <1>7
<1>9. \A d \in Calls : Consequences(p, d, M) \subseteq Answers /\ Consequences(p, d, M) \subseteq L[d]
  <2> TAKE d \in Calls
  <2>1. \A e \in Premises(p, d) : M[e] \subseteq L[e]
    BY <1>6, PremiseFacts
  <2>2. Consequences(p, d, M) \subseteq Consequences(p, d, L)
    BY <1>1, <1>5, <2>1, ConsequencesMonotone
  <2>3. Consequences(p, d, M) \subseteq Answers
    BY <1>5, ConsequencesType
  <2> QED
    BY <1>1, <2>2, <2>3
<1>10. /\ N \in Interpretation
       /\ \A d \in Calls : N[d] = IF d = c THEN Consequences(p, d, M) \cup M[d] ELSE Consequences(p, d, M)
  <2>1. \A d \in Calls : M[d] \subseteq Answers
    BY <1>5
  <2> QED
    BY <1>9, <2>1 DEF Interpretation
<1> HIDE DEF N
<1>11. \A d \in Calls : M[d] \subseteq N[d]
  BY <1>7, <1>10
<1>12. \A d \in Calls : Consequences(p, d, M) \subseteq Consequences(p, d, N)
  <2> TAKE d \in Calls
  <2>1. \A e \in Premises(p, d) : M[e] \subseteq N[e]
    BY <1>11, PremiseFacts
  <2> QED
    BY <1>5, <1>10, <2>1, ConsequencesMonotone
<1>13. N \in Ms
  <2>1. N[c] \subseteq known
    BY <1>4, <1>6, <1>8, <1>10
  <2>2. \A d \in Calls : N[d] \subseteq L[d]
    BY <1>6, <1>9, <1>10
  <2>3. \A d \in Calls : d # c => N[d] \subseteq Consequences(p, d, N)
    BY <1>10, <1>12
  <2> QED
    BY <1>3, <1>10, <2>1, <2>2, <2>3
<1>14. IsModel(p, M)
  <2>1. \A d \in Calls : Consequences(p, d, M) \subseteq N[d]
    BY <1>10
  <2>2. \A d \in Calls : N[d] \subseteq M[d]
    BY <1>6, <1>13
  <2> QED
    BY <2>1, <2>2 DEF IsModel
<1>15. L[c] \subseteq M[c]
  BY <1>5, <1>14, LeastBelow DEF L, Least
<1>16. L[c] \subseteq known
  BY <1>6, <1>15
<1> QED
  BY <1>16 DEF L, known

LEMMA ProducerKept ==
    ASSUME program \in Program, Kept, Producing, EndActive, program' = program, TablesGood(program, completed'),
           NEW b, Good(program, active', Len(active'), Top.call, Level - 1, b, Top.peak), Return(b)
    PROVE  Kept'
<1>1. PassEnded /\ Producer(program, Top) /\ StacksGood(program, query, stack, active)
  BY ProducingFacts DEF Kept
<1>2. active' = IF Producer(program, Top) THEN SubSeq(active, 1, Len(active) - 1) ELSE active
  BY <1>1 DEF EndActive
<1>3. program \in Program /\ ReplyGood(program, query, reply) /\ (stack # << >> => reply = << >>)
  BY DEF Kept
<1>4. Good(program, active', Len(active'), Top.call, Level - 1, b, Top.peak) /\ Return(b)
  OBVIOUS
<1>5. /\ StacksGood(program, query', stack', active') /\ ReplyGood(program, query', reply')
      /\ (stack' # << >> => reply' = << >>)
  BY ONLY <1>1, <1>2, <1>3, <1>4, ReturnStacks
<1> QED
  BY <1>5 DEF Kept

\* What is remembered of results that hold all answers.
LEMMA RememberedKept ==
    ASSUME program \in Program, Kept, PassEnded,
           NEW act, NEW j, NEW b, Good(program, act, j, Top.call, Level - 1, b, Top.peak),
           ~ Mixed(program) /\ NoErrors(b) => Least(program)[Top.call] \subseteq Support(b)
    PROVE  TablesGood(program, Remembered(Top.call, b, Span))
<1> DEFINE t == [bag |-> b, span |-> Span]
<1>1. Level \in Nat /\ Level >= 1 /\ Level - 1 \in Nat /\ Top.call \in Calls
  BY EndedFacts DEF Kept
<1>2. t = [bag |-> b, span |-> Top.peak - ((Level - 1) + 1)]
  BY <1>1 DEF Span
<1>3. t = [bag |-> b, span |-> Span] /\ b \in Bag
  BY DEF Good
<1> HIDE DEF t
<1>4. b[Overflow] = 0 => TableGood(program, Top.call, t)
  BY <1>1, <1>2, Remembers
<1> QED
  BY <1>1, <1>3, <1>4, RememberedGood DEF Kept

LEMMA EndAcyclicKept ==
    ASSUME program \in Program, Kept, EndAcyclic
    PROVE  Kept'
<1>1. /\ Producing /\ PassEnded /\ EndActive /\ program' = program /\ Return(Top.bag)
      /\ completed' = Remembered(Top.call, Top.bag, Span) /\ ~ TopActive.cyclic
  BY DEF EndAcyclic, Producing
<1>2. StacksGood(program, query, stack, active)
  BY DEF Kept
<1>3. Top.call \in Calls
  BY <1>1, <1>2, EndedFacts
<1>4. ~ Mixed(program) /\ NoErrors(Top.bag) => Least(program)[Top.call] \subseteq Support(Top.bag)
  BY <1>1, <1>2, EndLeast
<1> DEFINE left == active'
<1>5. Good(program, left, Len(left), Top.call, Level - 1, Top.bag, Top.peak)
  <2> HIDE DEF left
  <2>1. Whole(program, left, Len(left), Top.call, Top.bag)
    BY <1>3, <1>4, LeastWhole
  <2> QED
    BY <1>1, <1>2, <2>1, EndGood
<1>6. TablesGood(program, completed')
  <2> HIDE DEF left
  <2> QED
    BY <1>1, <1>4, <1>5, RememberedKept
<1> QED
  BY <1>1, <1>5, <1>6, ProducerKept

LEMMA GiveUpKept ==
    ASSUME program \in Program, Kept, GiveUp
    PROVE  Kept'
<1>1. /\ Producing /\ PassEnded /\ EndActive /\ program' = program /\ Return(Single(Refused))
      /\ completed' = completed
  BY DEF GiveUp, Producing
<1>2. Top.peak \in (Level - 1 + 1)..MaxDepth
  <2>1. Top.peak \in Level..MaxDepth /\ Level \in Nat
    BY <1>1, EndedFacts DEF Kept
  <2> QED
    BY <2>1
<1> DEFINE left == active'
<1>3. Good(program, left, Len(left), Top.call, Level - 1, Single(Refused), Top.peak)
  <2> HIDE DEF left
  <2> QED
    BY <1>2, RefusedGood
<1>4. TablesGood(program, completed')
  BY <1>1 DEF Kept
<1> QED
  BY <1>1, <1>3, <1>4, ProducerKept

LEMMA CompleteKept ==
    ASSUME program \in Program, Kept, Complete
    PROVE  Kept'
<1> DEFINE k == Len(active)
           known == TopActive.known
           b == EachOnce(known)
<1>1. /\ Producing /\ PassEnded /\ EndActive /\ program' = program /\ Return(b)
      /\ completed' = Remembered(Top.call, b, Span) /\ TopActive.cyclic /\ New = {}
  BY DEF Complete, Producing
<1>2. StacksGood(program, query, stack, active)
  BY DEF Kept
<1>3. /\ FrameOK(program, Top) /\ Top.clause = Len(ClausesOf(program, Top)) + 1
      /\ Top.call \in Calls /\ Top.bag \in Bag /\ Level \in Nat /\ Level >= 1 /\ Top.peak \in Level..MaxDepth
      /\ FrameWhole(program, active, k, Top)
  BY <1>1, <1>2, EndedFacts
<1>4. /\ k > 0 /\ active[k].call = Top.call /\ active[k].cyclic /\ active[k].known = known /\ known \subseteq Results
      /\ Derived(program, Top.call, known)
      /\ Top.call \notin Plain(program)
  <2>1. /\ k >= 1 /\ k \in Nat /\ TopActive \in TableSet /\ TopActive.call = Top.call
        /\ Derived(program, Top.call, known) /\ <<Top.call, Top.call>> \in Reaches(program)
        /\ program.kind[Top.call] = "moded"
    BY <1>1, <1>2, ProducingFacts
  <2>2. known \subseteq Results
    BY <2>1 DEF TableSet
  <2>3. Top.call \notin Plain(program)
    BY <1>3, <2>1, RecursNotPlain
  <2>4. k > 0
    BY <2>1
  <2> QED
    BY <1>1, <2>1, <2>2, <2>3, <2>4 DEF TopActive
<1>5. b \in Bag /\ Support(b) = known
  BY <1>4, BagTypes, Supports
<1>6. Support(Top.bag) \subseteq known
  BY <1>1 DEF New
<1> HIDE DEF k, known, b
<1>7. ASSUME ~ Mixed(program), NoErrors(b)
      PROVE  Least(program)[Top.call] \subseteq Support(b)
  <2>1. NoErrors(Top.bag)
    BY <1>3, <1>5, <1>6, <1>7, ErrorsInSupport
  <2>2. \A m \in Models(program, active, k) : Consequences(program, Top.call, m) \subseteq Support(Top.bag)
    BY <1>3, <1>7, <2>1, EndedWhole
  <2>3. \A m \in Models(program, active, k) : Consequences(program, Top.call, m) \subseteq active[k].known
    BY <1>4, <1>6, <2>2
  <2>4. Least(program)[Top.call] \subseteq active[k].known
    BY <1>3, <1>4, <2>3, KnownIsAll
  <2> QED
    BY <1>4, <1>5, <2>4
<1> DEFINE left == active'
<1>8. Good(program, left, Len(left), Top.call, Level - 1, b, Top.peak)
  <2> HIDE DEF left
  <2>1. Whole(program, left, Len(left), Top.call, b)
    BY <1>3, <1>7, LeastWhole
  <2>2. Derived(program, Top.call, Support(b))
    BY <1>4, <1>5
  <2>3. Exact(program, Top.call, Level - 1, b, Top.peak)
    BY <1>4 DEF Exact
  <2>4. Top.peak \in (Level - 1 + 1)..MaxDepth
    BY <1>3
  <2> QED
    BY <1>5, <2>1, <2>2, <2>3, <2>4 DEF Good
<1>9. TablesGood(program, completed')
  <2> HIDE DEF left
  <2> QED
    BY <1>1, <1>7, <1>8, RememberedKept
<1> QED
  BY <1>1, <1>8, <1>9, ProducerKept

-----------------------------------------------------------------------------
(***************************************************************************)
(* The steps keep the invariant.                                           *)
(***************************************************************************)

LEMMA AnsweredKept ==
    ASSUME program \in Program, Kept, NEW c \in Calls, Asks(program, query, stack, Level, c),
           active' = active, program' = program, completed' = completed,
           NEW b, NEW peak, Good(program, active, Len(active), c, Level, b, peak), ReplyTo(stack, b, peak)
    PROVE  Kept'
<1>1. /\ StacksGood(program, query, stack, active) /\ ReplyGood(program, query, reply)
      /\ (stack # << >> => reply = << >>) /\ program \in Program
  BY DEF Kept
<1>2. /\ Asks(program, query, stack, Len(stack), c) /\ c \in Calls /\ active' = active
      /\ Good(program, active, Len(active), c, Len(stack), b, peak) /\ ReplyTo(stack, b, peak)
  BY DEF Level
<1>3. /\ StacksGood(program, query', stack', active')
      /\ ReplyGood(program, query', reply') /\ (stack' # << >> => reply' = << >>)
  BY ONLY <1>1, <1>2, Answered
<1> QED
  BY <1>3 DEF Kept

\* A premise at the next level.
LEMMA LevelOfCall ==
    ASSUME program \in Program, Kept, NEW c \in Calls, Pending = <<c>>
    PROVE  /\ Asks(program, query, stack, Level, c) /\ reply = << >>
           /\ Level \in Nat /\ Level < MaxDepth /\ MaxDepth \in Nat /\ stack \in Seq(FrameSet)
<1>1. StacksGood(program, query, stack, active) /\ StackOK(program, query, stack)
  BY DEF Kept, StacksGood
<1> QED
  BY <1>1, PendingAsks, StackFacts DEF Level

LEMMA CutOffKept ==
    ASSUME program \in Program, Kept, NEW c \in Calls, Pending = <<c>>, CutOff(c)
    PROVE  Kept'
<1>1. /\ Asks(program, query, stack, Level, c) /\ Level \in Nat /\ Level < MaxDepth /\ MaxDepth \in Nat
  BY LevelOfCall
<1>2. Level + 1 = MaxDepth
  BY <1>1 DEF CutOff, Fits
<1>3. Good(program, active, Len(active), c, Level, Single(Overflow), Level + 1)
  BY <1>1, <1>2, CutGood
<1>4. /\ active' = active /\ program' = program /\ completed' = completed
      /\ ReplyTo(stack, Single(Overflow), Level + 1)
  BY DEF CutOff
<1> QED
  BY <1>1, <1>3, <1>4, AnsweredKept

LEMMA ReplayKept ==
    ASSUME program \in Program, Kept, NEW c \in Calls, Pending = <<c>>, Replay(c)
    PROVE  Kept'
<1>1. Asks(program, query, stack, Level, c) /\ Level \in Nat
  BY LevelOfCall
<1> DEFINE t == completed[c]
<1>2. c \in DOMAIN completed /\ Level + 1 + t.span < MaxDepth
  BY DEF Replay, Hit, Fits
<1>3. TableGood(program, c, t)
  BY <1>2 DEF Kept, TablesGood
<1>4. /\ active' = active /\ program' = program /\ completed' = completed
      /\ ReplyTo(stack, t.bag, Level + 1 + t.span)
  BY DEF Replay
<1> HIDE DEF t
<1>5. Good(program, active, Len(active), c, Level, t.bag, Level + 1 + t.span)
  BY <1>1, <1>2, <1>3, ReplayGood
<1> QED
  BY <1>1, <1>4, <1>5, AnsweredKept

LEMMA RefuseKept ==
    ASSUME program \in Program, Kept, NEW c \in Calls, Pending = <<c>>, Refuse(c)
    PROVE  Kept'
<1>1. /\ Asks(program, query, stack, Level, c) /\ Level \in Nat /\ Level < MaxDepth /\ MaxDepth \in Nat
  BY LevelOfCall
<1>2. Level + 1 \in (Level + 1)..MaxDepth
  BY <1>1
<1>3. Good(program, active, Len(active), c, Level, Single(Refused), Level + 1)
  BY <1>2, RefusedGood
<1>4. /\ active' = active /\ program' = program /\ completed' = completed
      /\ ReplyTo(stack, Single(Refused), Level + 1)
  BY DEF Refuse
<1> QED
  BY <1>1, <1>3, <1>4, AnsweredKept

\* A call is entered, with a table of its own or without.
LEMMA PushKept ==
    ASSUME program \in Program, Kept, NEW c \in Calls, Pending = <<c>>, Fits(0),
           NEW tabled \in BOOLEAN, tabled => program.kind[c] \in {"ground", "moded"},
           NEW f, f = Frame(c, tabled, Level + 1), stack' = Append(stack, f),
           IF Producer(program, f)
           THEN active' = Append(active, [call |-> c, known |-> {}, span |-> 0, cyclic |-> FALSE])
           ELSE active' = active /\ (Len(active) = 0 \/ active[Len(active)].call # c),
           program' = program, query' = query, completed' = completed, reply' = reply
    PROVE  Kept'
<1>1. Asks(program, query, stack, Len(stack), c) /\ reply = << >> /\ Len(stack) \in Nat /\ MaxDepth \in Nat
  BY LevelOfCall DEF Level
<1>2. Len(stack) + 1 < MaxDepth
  BY <1>1 DEF Fits, Level
<1> DEFINE up == stack'
           more == active'
<1>3. /\ up = Append(stack, f) /\ f = Frame(c, tabled, Len(stack) + 1)
      /\ IF Producer(program, f)
         THEN more = Append(active, [call |-> c, known |-> {}, span |-> 0, cyclic |-> FALSE])
         ELSE more = active /\ (Len(active) = 0 \/ active[Len(active)].call # c)
  BY DEF Level
<1>4. StacksGood(program, query, stack, active)
  BY DEF Kept
<1> HIDE DEF up, more
<1>5. StacksGood(program, query, up, more)
  BY <1>1, <1>2, <1>3, <1>4, PushStacks
<1> QED
  BY <1>1, <1>5 DEF Kept, up, more

LEMMA BeginKept ==
    ASSUME program \in Program, Kept, NEW c \in Calls, Pending = <<c>>, Begin(c)
    PROVE  Kept'
<1> DEFINE tabled == program.kind[c] = "moded"
           f == Frame(c, tabled, Level + 1)
<1>1. /\ Fits(0) /\ program.kind[c] = "moded" /\ program' = program /\ query' = query
      /\ completed' = completed /\ reply' = reply
      /\ stack' = Append(stack, Frame(c, TRUE, Level + 1))
      /\ active' = Append(active, [call |-> c, known |-> {}, span |-> 0, cyclic |-> FALSE])
  BY DEF Begin, IsModed
<1>2. tabled = TRUE /\ tabled \in BOOLEAN
  BY <1>1
<1>3. stack' = Append(stack, f) /\ f = Frame(c, tabled, Level + 1)
  BY <1>1, <1>2
<1>4. Producer(program, f)
  BY <1>1 DEF Producer, Frame
<1>5. tabled => program.kind[c] \in {"ground", "moded"}
  OBVIOUS
<1> HIDE DEF tabled, f
<1> QED
  BY <1>1, <1>2, <1>3, <1>4, <1>5, PushKept

LEMMA EnterKept ==
    ASSUME program \in Program, Kept, NEW c \in Calls, Pending = <<c>>, Enter(c)
    PROVE  Kept'
<1> DEFINE tabled == program.kind[c] = "ground"
           f == Frame(c, tabled, Level + 1)
<1>1. /\ Fits(0) /\ (IsModed(c) => ~ IsTop(c)) /\ program' = program /\ query' = query
      /\ completed' = completed /\ reply' = reply /\ active' = active
      /\ stack' = Append(stack, f)
  BY DEF Enter
<1>2. tabled \in BOOLEAN /\ (tabled => program.kind[c] \in {"ground", "moded"}) /\ f = Frame(c, tabled, Level + 1)
  OBVIOUS
<1>3. ~ Producer(program, f)
  BY DEF Producer, Frame
<1>4. Len(active) = 0 \/ active[Len(active)].call # c
  <2>1. NestOK(program, stack, active)
    BY DEF Kept, StacksGood
  <2>2. active \in Seq(TableSet) /\ \A j \in 1..Len(active) : program.kind[active[j].call] = "moded"
    BY <2>1 DEF NestOK
  <2>3. Len(active) = 0 \/ (Len(active) \in 1..Len(active) /\ active # << >>)
    BY <2>2
  <2> QED
    BY <1>1, <2>2, <2>3 DEF IsModed, IsTop, TopActive
<1> HIDE DEF tabled, f
<1> QED
  BY <1>1, <1>2, <1>3, <1>4, PushKept

\* The table on top is read: what is derived inside it now depends on what it knows.
LEMMA ReadStacks ==
    ASSUME NEW p \in Program, NEW q, NEW s, NEW act, StacksGood(p, q, s, act), Len(act) > 0,
           Asks(p, q, s, Len(s), act[Len(act)].call),
           NEW now \in Seq(TableSet), Len(now) = Len(act),
           \A j \in 1..Len(act) : j # Len(act) => now[j] = act[j],
           now[Len(act)].call = act[Len(act)].call, now[Len(act)].known = act[Len(act)].known,
           now[Len(act)].cyclic
    PROVE  StacksGood(p, q, s, now)
<1> DEFINE k == Len(act)
<1>1. StackOK(p, q, s) /\ NestOK(p, s, act) /\ ReachOK(p, s, act) /\ FramesGood(p, s, act)
  BY DEF StacksGood
<1>2. act \in Seq(TableSet) /\ k \in Nat /\ k > 0 /\ k \in 1..k /\ s \in Seq(FrameSet)
  BY <1>1 DEF NestOK, StackOK
<1>3. /\ Len(now) = k /\ now[k].cyclic
      /\ \A j \in 1..k : now[j].call = act[j].call /\ now[j].known = act[j].known
      /\ \A j \in 1..k : j # k => now[j] = act[j]
  BY <1>2
<1>4. <<act[k].call, act[k].call>> \in Reaches(p)
  BY <1>1, <1>2, ProducerReaches
<1> HIDE DEF k
<1>5. NestOK(p, s, now)
  <2>1. CASE Len(s) > 0
    <3>1. \A i \in 1..Len(s) : s[i].call = s[i].call /\ s[i].tabled = s[i].tabled
      OBVIOUS
    <3>2. \A j \in 1..Len(act) : now[j].call = act[j].call
      BY <1>3 DEF k
    <3> QED
      BY <1>1, <1>2, <2>1, <3>1, <3>2, TopNest
  <2>2. CASE ~ (Len(s) > 0)
    <3>1. Len(s) = 0
      BY <1>2, <2>2
    <3>2. Rank(p, s, 0) = 0
      BY RankFacts
    <3> QED
      BY <1>1, <1>2, <3>1, <3>2 DEF NestOK, k
  <2> QED
    BY <2>1, <2>2
<1>6. ReachOK(p, s, now)
  <2>1. \A j \in 1..k : now[j].cyclic => <<now[j].call, now[j].call>> \in Reaches(p)
    <3> SUFFICES ASSUME NEW j \in 1..k, now[j].cyclic PROVE <<now[j].call, now[j].call>> \in Reaches(p)
      OBVIOUS
    <3>1. CASE j = k
      BY <1>3, <1>4, <3>1
    <3>2. CASE j # k
      BY <1>1, <1>3, <3>2 DEF ReachOK, k
    <3> QED
      BY <3>1, <3>2
  <2>2. \A i, l \in 1..Len(s) : i < l => <<s[i].call, s[l].call>> \in Reaches(p)
    BY <1>1 DEF ReachOK
  <2> QED
    BY <1>3, <2>1, <2>2 DEF ReachOK
<1>7. ASSUME NEW i \in 1..Len(s)
      PROVE  FrameGood(p, s, now, i)
  <2>1. FrameGood(p, s, act, i)
    BY <1>1 DEF FramesGood
  <2>2. Rank(p, s, i) \in Nat /\ Rank(p, s, i) <= k
    <3>1. i \in Nat /\ i <= Len(s) /\ Len(s) \in Nat
      BY <1>2
    <3>2. Rank(p, s, i) \in Nat
      BY <3>1, RankFacts
    <3>3. Rank(p, s, i) <= Rank(p, s, Len(s))
      BY <3>1, RankOrder
    <3> QED
      BY <1>1, <3>2, <3>3 DEF NestOK, k
  <2>3. Rank(p, s, i) > 0 => Rank(p, s, i) \in 1..k
    BY <1>2, <2>2
  <2>4. \A j \in 1..k : act[j].cyclic => now[j].cyclic
    BY <1>3
  <2>5. Rank(p, s, i) > 0 => /\ now[Rank(p, s, i)].call = act[Rank(p, s, i)].call
                             /\ now[Rank(p, s, i)].known = act[Rank(p, s, i)].known
                             /\ act[Rank(p, s, i)].cyclic => now[Rank(p, s, i)].cyclic
    BY <1>3, <2>3, <2>4
  <2>6. \A m \in Models(p, now, Rank(p, s, i)) : m \in Models(p, act, Rank(p, s, i))
    BY <2>5, ModelsOfTable
  <2>7. s[i] = s[i] /\ Rank(p, s, i) = Rank(p, s, i)
    OBVIOUS
  <2> QED
    BY ONLY <2>1, <2>6, <2>7, FrameKept
<1>8. \A j \in 1..Len(now) : Derived(p, now[j].call, now[j].known)
  BY <1>1, <1>3 DEF FramesGood, k
<1> QED
  BY <1>1, <1>5, <1>6, <1>7, <1>8 DEF StacksGood, FramesGood

\* What a table knows is an answer to its call while it is produced.
LEMMA KnownGood ==
    ASSUME NEW p \in Program, NEW c \in Calls, NEW act, NEW j, j > 0, act[j].call = c, act[j].cyclic,
           act[j].known \subseteq Results, Derived(p, c, act[j].known), c \notin Plain(p),
           NEW n \in Nat, NEW peak \in (n + 1)..MaxDepth, NEW b, b = EachOnce(act[j].known)
    PROVE  Good(p, act, j, c, n, b, peak)
<1>1. b \in Bag /\ Support(b) = act[j].known
  BY BagTypes, Supports
<1>2. Whole(p, act, j, c, b)
  BY <1>1, ModelFacts DEF Whole
<1>3. Exact(p, c, n, b, peak)
  BY DEF Exact
<1> QED
  BY <1>1, <1>2, <1>3 DEF Good

LEMMA CutNotPlain ==
    ASSUME NEW p \in Program, NEW c \in Calls, c \notin Plain(p), NEW act, NEW j, NEW n \in Nat,
           NEW peak \in (n + 1)..MaxDepth
    PROVE  Good(p, act, j, c, n, Single(Overflow), peak)
<1>1. /\ Single(Overflow) \in Bag /\ Derived(p, c, Support(Single(Overflow)))
      /\ Whole(p, act, j, c, Single(Overflow))
  BY ErrorResult, ResultFacts
<1>2. Exact(p, c, n, Single(Overflow), peak)
  BY DEF Exact
<1> QED
  BY <1>1, <1>2 DEF Good

LEMMA ReenterKept ==
    ASSUME program \in Program, Kept, NEW c \in Calls, Pending = <<c>>, Reenter(c)
    PROVE  Kept'
<1> DEFINE k == Len(active)
           now == active'
           n == Len(stack)
<1>1. /\ Asks(program, query, stack, n, c) /\ n \in Nat /\ n < MaxDepth /\ MaxDepth \in Nat
      /\ reply = << >>
  BY LevelOfCall DEF Level
<1>2. StacksGood(program, query, stack, active) /\ ReplyGood(program, query, reply)
  BY DEF Kept
<1>3. /\ StackOK(program, query, stack) /\ NestOK(program, stack, active)
      /\ ReachOK(program, stack, active) /\ FramesGood(program, stack, active)
  BY <1>2 DEF StacksGood
<1>4. /\ active \in Seq(TableSet) /\ k \in Nat /\ k > 0 /\ k \in 1..k
      /\ active[k] \in TableSet /\ active[k].call = c
  <2>1. active # << >> /\ TopActive.call = c /\ active \in Seq(TableSet)
    BY <1>3 DEF Reenter, IsTop, NestOK
  <2>2. k \in Nat /\ k > 0 /\ k \in 1..k
    BY <2>1
  <2> QED
    BY <2>1, <2>2 DEF TopActive
<1>5. /\ program' = program /\ completed' = completed /\ now = [active EXCEPT ![k].cyclic = TRUE]
      /\ IF Fits(active[k].span)
         THEN ReplyTo(stack, EachOnce(active[k].known), n + 1 + active[k].span)
         ELSE ReplyTo(stack, Single(Overflow), n + 1)
  BY DEF Reenter, TopActive, Level
<1> DEFINE table == [active[k] EXCEPT !.cyclic = TRUE]
<1>6. now = [active EXCEPT ![k] = table]
  BY <1>4, <1>5
<1>7. table \in TableSet /\ table.call = c /\ table.known = active[k].known /\ table.cyclic
  BY <1>4 DEF TableSet
<1> HIDE DEF table
<1>8. /\ now \in Seq(TableSet) /\ Len(now) = k /\ now[k] = table
      /\ \A j \in 1..k : j # k => now[j] = active[j]
  <2> HIDE DEF now
  <2> QED
    BY <1>4, <1>6, <1>7
<1>9. active' = now
  OBVIOUS
<1> HIDE DEF now, k
<1>10. StacksGood(program, query, stack, now)
  <2>1. /\ now[k].call = active[k].call /\ now[k].known = active[k].known /\ now[k].cyclic
        /\ Asks(program, query, stack, Len(stack), active[k].call)
    BY <1>1, <1>4, <1>7, <1>8
  <2> QED
    BY <1>2, <1>4, <1>8, <2>1, ReadStacks DEF k
<1>11. /\ Derived(program, c, active[k].known) /\ active[k].known \subseteq Results /\ active[k].span \in Nat
  <2>1. Derived(program, c, active[k].known)
    BY <1>3, <1>4 DEF FramesGood, k
  <2>2. MaxDepth \in Nat
    BY <1>1
  <2> QED
    BY <1>4, <2>1, <2>2 DEF TableSet
<1>12. c \notin Plain(program)
  <2>1. Len(active) > 0 /\ active[Len(active)].call = c
    BY <1>4 DEF k
  <2>2. program.kind[c] = "moded" /\ <<c, c>> \in Reaches(program)
    BY <1>1, <1>3, <2>1, ProducerReaches
  <2> QED
    BY <2>2, RecursNotPlain
<1>13. PICK b, peak : Good(program, now, Len(now), c, n, b, peak) /\ ReplyTo(stack, b, peak)
  <2>1. CASE Fits(active[k].span)
    <3>1. n + 1 + active[k].span \in (n + 1)..MaxDepth
      BY <1>1, <1>11, <2>1 DEF Fits, Level
    <3>2. /\ now[k].call = c /\ now[k].cyclic /\ now[k].known = active[k].known /\ k > 0
      BY <1>4, <1>7, <1>8
    <3> DEFINE b == EachOnce(now[k].known)
               peak == n + 1 + active[k].span
    <3>3. b = EachOnce(now[k].known) /\ peak \in (n + 1)..MaxDepth
      BY <3>1
    <3>4. ReplyTo(stack, b, peak)
      BY <1>5, <2>1, <3>2
    <3> HIDE DEF b, peak
    <3>5. Good(program, now, k, c, n, b, peak)
      BY <1>1, <1>11, <1>12, <3>2, <3>3, KnownGood
    <3> QED
      BY <1>8, <3>4, <3>5
  <2>2. CASE ~ Fits(active[k].span)
    <3>1. n + 1 \in (n + 1)..MaxDepth
      BY <1>1
    <3>2. Good(program, now, k, c, n, Single(Overflow), n + 1)
      BY <1>1, <1>12, <3>1, CutNotPlain
    <3> QED
      BY <1>5, <1>8, <2>2, <3>2
  <2> QED
    BY <2>1, <2>2
<1>14. /\ StacksGood(program, query', stack', active')
       /\ ReplyGood(program, query', reply') /\ (stack' # << >> => reply' = << >>)
  <2>1. /\ Asks(program, query, stack, Len(stack), c) /\ (stack # << >> => reply = << >>)
        /\ Good(program, now, Len(now), c, Len(stack), b, peak)
    BY <1>1, <1>13
  <2> QED
    BY <1>2, <1>9, <1>10, <1>13, <2>1, Answered
<1> QED
  BY <1>5, <1>14 DEF Kept

LEMMA NextRoundKept ==
    ASSUME program \in Program, Kept, NextRound
    PROVE  Kept'
<1>1. /\ program' = program /\ query' = query /\ completed' = completed /\ reply' = reply
      /\ Producing
  BY DEF NextRound
<1>2. StacksGood(program, query, stack', active')
  BY NextRoundStacks DEF Kept
<1>3. stack # << >>
  BY <1>1 DEF Producing, PassEnded
<1> QED
  BY <1>1, <1>2, <1>3 DEF Kept

LEMMA GiveFactKept ==
    ASSUME program \in Program, Kept, GiveFact
    PROVE  Kept'
<1>1. /\ program' = program /\ query' = query /\ completed' = completed /\ reply' = reply /\ active' = active
      /\ stack # << >>
  BY DEF GiveFact
<1>2. StacksGood(program, query, stack', active)
  BY GiveFactStacks DEF Kept
<1> QED
  BY <1>1, <1>2 DEF Kept

LEMMA CallKept ==
    ASSUME program \in Program, Kept, NEW c \in Calls, Call(c)
    PROVE  Kept'
<1>1. Pending = <<c>>
  BY DEF Call
<1> QED
  BY <1>1, CutOffKept, ReplayKept, ReenterKept, RefuseKept, BeginKept, EnterKept DEF Call

LEMMA StepKept ==
    ASSUME program \in Program, Kept, Step
    PROVE  Kept'
BY GiveFactKept, EndPlainKept, EndAcyclicKept, NextRoundKept, GiveUpKept, CompleteKept, CallKept
   DEF Step, EndPass

\* There is nothing on empty stacks.
LEMMA EmptyStacks ==
    ASSUME NEW p, NEW q
    PROVE  StacksGood(p, q, << >>, << >>)
<1>1. StackOK(p, q, << >>)
  BY TablingAssumption DEF StackOK
<1>2. NestOK(p, << >>, << >>)
  BY RankFacts DEF NestOK
<1>3. ReachOK(p, << >>, << >>) /\ FramesGood(p, << >>, << >>)
  BY DEF ReachOK, FramesGood
<1> QED
  BY <1>1, <1>2, <1>3 DEF StacksGood

LEMMA AskKept ==
    ASSUME program \in Program, Kept, NEW c \in Calls, Ask(c)
    PROVE  Kept'
<1>1. /\ ~ Busy /\ reply' = << >> /\ program' = program /\ stack' = stack /\ active' = active
      /\ completed' = completed
  BY DEF Ask
<1>2. stack = << >>
  BY <1>1, StackBusy
<1>3. active = << >>
  <2>1. active \in Seq(TableSet) /\ Len(active) = Rank(program, stack, Len(stack))
    BY DEF Kept, StacksGood, NestOK
  <2>2. Rank(program, stack, 0) = 0
    BY RankFacts
  <2>3. Len(active) = 0
    BY <1>2, <2>1, <2>2
  <2> QED
    BY <2>1, <2>3
<1>4. StacksGood(program, query', << >>, << >>)
  BY EmptyStacks
<1>5. ReplyGood(program, query', reply')
  BY <1>1 DEF ReplyGood
<1> QED
  BY <1>1, <1>2, <1>3, <1>4, <1>5 DEF Kept

\* A reply is there only when its query was answered: a query that threw has none.
LEMMA ThrowKept ==
    ASSUME program \in Program, Kept, Throw
    PROVE  Kept'
<1>1. /\ stack # << >> /\ stack' = << >> /\ active' = << >> /\ reply' = reply /\ program' = program
      /\ completed' = completed
  BY DEF Throw
<1>2. reply = << >>
  BY <1>1 DEF Kept
<1>3. StacksGood(program, query', << >>, << >>)
  BY EmptyStacks
<1>4. ReplyGood(program, query', reply')
  BY <1>1, <1>2 DEF ReplyGood
<1> QED
  BY <1>1, <1>3, <1>4 DEF Kept

LEMMA EvictKept ==
    ASSUME program \in Program, Kept, NEW c \in Calls, Evict(c)
    PROVE  Kept'
<1>1. /\ completed' = [d \in DOMAIN completed \ {c} |-> completed[d]]
      /\ program' = program /\ query' = query /\ stack' = stack /\ active' = active /\ reply' = reply
  BY DEF Evict
<1>2. TablesGood(program, completed')
  BY <1>1 DEF Kept, TablesGood
<1> QED
  BY <1>1, <1>2 DEF Kept

\* The program and its meaning stay, the query is a call.
LEMMA GivenNext ==
    ASSUME Given, Next
    PROVE  Given'
<1>1. CASE \E c \in Calls : Ask(c)
  <2>1. PICK c \in Calls : Ask(c)
    BY <1>1
  <2>2. /\ query' = <<c>> /\ asked < MaxQueries /\ asked' = asked + 1 /\ program' = program /\ meaning' = meaning
        /\ evicted' = evicted
    BY <2>1 DEF Ask
  <2> QED
    BY <2>2, TablingAssumption DEF Given
<1>2. CASE Throw
  BY <1>2 DEF Throw, Given
<1>3. CASE \E c \in Calls : Evict(c)
  <2>1. /\ evicted < MaxEvictions /\ evicted' = evicted + 1 /\ program' = program /\ meaning' = meaning
        /\ asked' = asked /\ query' = query
    BY <1>3 DEF Evict
  <2> QED
    BY <2>1, TablingAssumption DEF Given
<1>4. CASE Step
  <2>1. program' = program /\ meaning' = meaning /\ query' = query /\ asked' = asked /\ evicted' = evicted
    BY <1>4 DEF Step, GiveFact, EndPass, EndPlain, EndAcyclic, NextRound, GiveUp, Complete, Return, Call, CutOff,
                Replay, Reenter, Refuse, Begin, Enter, ReplyTo
  <2> QED
    BY <2>1 DEF Given
<1> QED
  BY <1>1, <1>2, <1>3, <1>4 DEF Next

LEMMA InitIInv ==
    ASSUME Init
    PROVE  IInv
<1>1. Given
  BY TablingAssumption DEF Init, Given
<1>2. StacksGood(program, query, stack, active)
  BY EmptyStacks DEF Init
<1>3. TablesGood(program, completed)
  <2>1. DOMAIN completed = {}
    BY DEF Init
  <2> QED
    BY <2>1 DEF TablesGood
<1>4. ReplyGood(program, query, reply) /\ (stack # << >> => reply = << >>)
  BY DEF Init, ReplyGood
<1> QED
  BY <1>1, <1>2, <1>3, <1>4 DEF IInv, Kept

LEMMA NextIInv ==
    ASSUME IInv, [Next]_vars
    PROVE  IInv'
<1>1. Given /\ Kept /\ program \in Program
  BY TablingAssumption DEF IInv, Given
<1>2. CASE Next
  <2>1. Given'
    BY <1>1, <1>2, GivenNext
  <2>2. Kept'
    BY <1>1, <1>2, StepKept, AskKept, ThrowKept, EvictKept DEF Next
  <2> QED
    BY <2>1, <2>2 DEF IInv
<1>3. CASE UNCHANGED vars
  BY <1>1, <1>3 DEF vars, IInv, Given, Kept
<1> QED
  BY <1>2, <1>3

-----------------------------------------------------------------------------
(***************************************************************************)
(* The properties.                                                         *)
(***************************************************************************)

\* The history variable holds what the parts of the invariant speak of.
LEMMA MeaningFacts ==
    ASSUME meaning = Meaning(program, MaxDepth)
    PROVE  /\ meaning.least = Least(program) /\ meaning.plain = Plain(program)
           /\ meaning.mixed <=> Mixed(program)
           /\ \A n \in Depths : meaning.untabled[n] = Levels(program)[n]
<1> DEFINE reaches == Reaches(program)
<1>1. /\ meaning.least = LeastModel(program)
      /\ meaning.untabled = [n \in 0..MaxDepth |-> Untabled(program, MaxDepth)[n]]
  BY DEF Meaning
<1>2. meaning.plain = Plain(program)
  BY DEF Meaning, Plain, Recurs
<1>3. meaning.mixed <=> Mixed(program)
  BY DEF Meaning, Mixed, Recurs
<1> QED
  BY <1>1, <1>2, <1>3 DEF Least, Levels, Depths

LEMMA IInvTypeOK ==
    ASSUME IInv
    PROVE  TypeOK
<1>1. Given /\ Kept /\ program \in Program
  BY TablingAssumption DEF IInv, Given
<1>2. StackOK(program, query, stack) /\ NestOK(program, stack, active)
  BY <1>1 DEF Kept, StacksGood
<1>3. query \in {<<c>> : c \in Calls} \cup {<< >>}
  BY <1>1 DEF Given
<1>4. \A i \in DOMAIN stack :
            /\ stack[i].call \in Calls /\ stack[i].tabled \in BOOLEAN /\ stack[i].bag \in Bag
            /\ stack[i].clause \in 1..Len(Clauses(stack[i])) + 1
            /\ stack[i].need \in {1, 2} /\ stack[i].left \in Nat \ {0}
            /\ stack[i].peak \in i..MaxDepth
  <2> TAKE i \in DOMAIN stack
  <2>1. FrameOK(program, stack[i]) /\ stack[i].peak \in i..MaxDepth
    BY <1>2, StackFacts
  <2>2. stack[i].clause \in 1..Len(Clauses(stack[i])) + 1
    BY <2>1 DEF FrameOK, Clauses, ClausesOf
  <2> QED
    BY <1>1, <2>1, <2>2, FrameFacts
<1>5. \A i \in DOMAIN active :
            /\ active[i].call \in Calls /\ active[i].known \subseteq Results
            /\ active[i].cyclic \in BOOLEAN /\ active[i].span \in 0..MaxDepth
  <2> TAKE i \in DOMAIN active
  <2>1. active[i] \in TableSet
    BY <1>2 DEF NestOK
  <2> QED
    BY <2>1 DEF TableSet
<1>6. \A c \in DOMAIN completed : c \in Calls /\ completed[c].bag \in Bag /\ completed[c].span \in 0..MaxDepth
  <2> TAKE c \in DOMAIN completed
  <2>1. c \in Calls /\ completed[c] \in RememberedSet
    BY <1>1 DEF Kept, TablesGood, TableGood
  <2> QED
    BY <2>1 DEF RememberedSet
<1>7. reply = << >> \/ reply[1] \in Bag
  BY <1>1 DEF Kept, ReplyGood, Good
<1>8. asked \in 0..MaxQueries /\ evicted \in 0..MaxEvictions
  BY <1>1 DEF Given
<1> QED
  BY <1>1, <1>3, <1>4, <1>5, <1>6, <1>7, <1>8 DEF TypeOK

LEMMA IInvNested ==
    ASSUME IInv
    PROVE  ProducersNested
<1>1. NestOK(program, stack, active) /\ stack \in Seq(FrameSet)
  BY DEF IInv, Kept, StacksGood, StackOK
<1> DEFINE producers == {i \in DOMAIN stack : stack[i].tabled /\ IsModed(stack[i].call)}
<1>2. \A i \in 0..Len(stack) : producers \cap 1..i = ProducersTo(program, stack, i)
  BY <1>1 DEF ProducersTo, Producer, IsModed
<1>3. producers = ProducersTo(program, stack, Len(stack))
  BY <1>1 DEF ProducersTo, Producer, IsModed
<1>4. \A i \in producers : i \in 1..Len(stack) /\ i \in 0..Len(stack) /\ Producer(program, stack[i])
  BY <1>1 DEF Producer, IsModed
<1>5. ProducersNested <=> /\ Len(active) = Cardinality(producers)
                          /\ \A i \in producers : active[Cardinality(producers \cap 1..i)].call = stack[i].call
  BY DEF ProducersNested
<1> HIDE DEF producers
<1>6. Len(active) = Cardinality(producers)
  BY <1>1, <1>3 DEF NestOK, Rank
<1>7. ASSUME NEW i \in producers
      PROVE  active[Cardinality(producers \cap 1..i)].call = stack[i].call
  <2>1. Cardinality(producers \cap 1..i) = Rank(program, stack, i)
    BY <1>2, <1>4 DEF Rank
  <2> QED
    BY <1>1, <1>4, <2>1 DEF NestOK
<1> QED
  BY <1>5, <1>6, <1>7

\* Results free of errors are answers.
LEMMA OnlyAnswers ==
    ASSUME NEW b \in Bag, NoErrors(b)
    PROVE  Support(b) \cap Answers = Support(b)
<1>1. Support(b) \cap Errors = {} /\ Support(b) \subseteq Results
  BY ErrorsInSupport, Supports
<1> QED
  BY <1>1, ResultFacts

LEMMA IInvExact ==
    ASSUME IInv
    PROVE  AnswersExact
<1>1. Given /\ Kept /\ program \in Program
  BY TablingAssumption DEF IInv, Given
<1>2. meaning.least = Least(program) /\ (meaning.mixed <=> Mixed(program))
  BY <1>1, MeaningFacts DEF Given
<1>3. \A c \in DOMAIN completed : c \in Calls /\ completed[c].bag \in Bag /\ TableGood(program, c, completed[c])
  BY <1>1 DEF Kept, TablesGood, TableGood, RememberedSet
<1>4. ASSUME reply # << >>
      PROVE  /\ query[1] \in Calls /\ reply[1] \in Bag /\ Derived(program, query[1], Support(reply[1]))
             /\ Whole(program, << >>, 0, query[1], reply[1])
  BY <1>1, <1>4 DEF Kept, ReplyGood, Good
<1>5. AnswersDerivable
  <2>1. \A c \in DOMAIN completed : Support(completed[c].bag) \cap Answers \subseteq Least(program)[c]
    BY <1>3 DEF TableGood, Derived
  <2>2. \A i \in DOMAIN active : active[i].known \cap Answers \subseteq Least(program)[active[i].call]
    <3>1. active \in Seq(TableSet) /\ FramesGood(program, stack, active)
      BY <1>1 DEF Kept, StacksGood, NestOK
    <3> QED
      BY <3>1 DEF FramesGood, Derived
  <2>3. reply # << >> => Support(reply[1]) \cap Answers \subseteq Least(program)[query[1]]
    BY <1>4 DEF Derived
  <2> QED
    BY <1>2, <2>1, <2>2, <2>3 DEF AnswersDerivable
<1>6. ASSUME ~ Mixed(program), NEW c \in DOMAIN completed, NoErrors(completed[c].bag)
      PROVE  Support(completed[c].bag) = Least(program)[c]
  <2>1. Support(completed[c].bag) \cap Answers \subseteq Least(program)[c]
    BY <1>3 DEF TableGood, Derived
  <2>2. Least(program)[c] \subseteq Support(completed[c].bag)
    BY <1>3, <1>6 DEF TableGood
  <2> QED
    BY <1>3, <1>6, <2>1, <2>2, OnlyAnswers
<1>7. ASSUME ~ Mixed(program), reply # << >>, NoErrors(reply[1])
      PROVE  Support(reply[1]) = Least(program)[query[1]]
  <2> DEFINE L == Least(program)
             none == << >>
  <2>1. L \in Interpretation /\ \A c \in Calls : Consequences(program, c, L) = L[c]
    BY <1>1, LeastFacts DEF Least
  <2>2. L \in Models(program, none, 0)
    BY <2>1 DEF Models
  <2>3. Whole(program, none, 0, query[1], reply[1])
    BY <1>4, <1>7
  <2> HIDE DEF L, none
  <2>4. L[query[1]] \subseteq Support(reply[1])
    BY <1>7, <2>2, <2>3 DEF Whole
  <2>5. Support(reply[1]) \cap Answers \subseteq L[query[1]]
    BY <1>4, <1>7 DEF Derived, L
  <2> QED
    BY <1>4, <1>7, <2>4, <2>5, OnlyAnswers DEF L
<1>8. AnswersComplete
  BY <1>2, <1>6, <1>7 DEF AnswersComplete
<1> QED
  BY <1>5, <1>8 DEF AnswersExact

LEMMA IInvChangeNothing ==
    ASSUME IInv
    PROVE  TablesChangeNothing
<1>1. Given /\ Kept /\ program \in Program
  BY TablingAssumption DEF IInv, Given
<1>2. meaning.plain = Plain(program) /\ \A n \in Depths : meaning.untabled[n] = Levels(program)[n]
  BY <1>1, MeaningFacts DEF Given
<1>3. ASSUME NEW c \in DOMAIN completed \cap meaning.plain, completed[c].bag[Refused] = 0
      PROVE  completed[c].bag = meaning.untabled[completed[c].span + 1][c]
  <2>1. TableGood(program, c, completed[c]) /\ c \in Plain(program)
    BY <1>1, <1>2 DEF Kept, TablesGood
  <2>2. /\ completed[c].span + 1 \in Depths
        /\ completed[c].bag = Levels(program)[completed[c].span + 1][c]
    BY <1>3, <2>1 DEF TableGood
  <2> QED
    BY <1>2, <2>2
<1>4. ASSUME reply # << >>, query[1] \in meaning.plain, reply[1][Refused] = 0
      PROVE  reply[1] = meaning.untabled[MaxDepth - 1][query[1]]
  <2>1. PICK c \in Calls, peak \in 1..MaxDepth : query = <<c>> /\ Good(program, << >>, 0, c, 0, reply[1], peak)
    BY <1>1, <1>4 DEF Kept, ReplyGood
  <2>2. query[1] = c /\ c \in Plain(program)
    BY <1>2, <1>4, <2>1
  <2>3. MaxDepth - 1 \in Depths /\ MaxDepth - 1 = MaxDepth - 1 - 0
    BY LevelFacts, <1>1 DEF Depths
  <2>4. Exact(program, c, 0, reply[1], peak)
    BY <2>1 DEF Good
  <2>5. reply[1] = Levels(program)[MaxDepth - 1][c]
    BY <1>4, <2>2, <2>3, <2>4 DEF Exact
  <2> QED
    BY <1>2, <2>2, <2>3, <2>5
<1> QED
  BY <1>3, <1>4 DEF TablesChangeNothing

\* The inductive invariant, from which the four properties follow.
THEOREM Inductive == Spec => []IInv
<1>1. Init => IInv
  BY InitIInv
<1>2. IInv /\ [Next]_vars => IInv'
  BY NextIInv
<1> QED
  BY <1>1, <1>2, PTL DEF Spec

\* No call goes deeper than max-stack-depth, no span does, and a frame stays on its
\* clauses (tryEnterDepthCall and the recursion of mettaEvalBodyG).
THEOREM TypeCorrect == Spec => []TypeOK
<1>1. IInv => TypeOK
  BY IInvTypeOK
<1> QED
  BY <1>1, Inductive, PTL

\* The active tables are those of the moded calls being evaluated, in order: beginActive
\* and endActive stay in step whatever returns, is refused or throws.
THEOREM Nested == Spec => []ProducersNested
<1>1. IInv => ProducersNested
  BY IInvNested
<1> QED
  BY <1>1, Inductive, PTL

\* Tables and replies give only answers with a derivation; free of errors, and in a
\* program none of whose cycles goes through a moded and a ground call, they give all.
THEOREM TabledExactly == Spec => []AnswersExact
<1>1. IInv => AnswersExact
  BY IInvExact
<1> QED
  BY <1>1, Inductive, PTL

\* For a call that reaches no cycle with a moded call on it, replaying a table in place of
\* evaluating gives the same bag, overflows included, at every depth.
THEOREM ChangesNothing == Spec => []TablesChangeNothing
<1>1. IInv => TablesChangeNothing
  BY IInvChangeNothing
<1> QED
  BY <1>1, Inductive, PTL
=============================================================================
