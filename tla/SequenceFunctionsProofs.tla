---------------------- MODULE SequenceFunctionsProofs -----------------------
(***************************************************************************)
(* Facts about sums and about the elements kept of a sequence, for every   *)
(* sequence.  The provers cannot                                           *)
(* instantiate the library's induction theorems, which take an operator,   *)
(* so induction is derived here in terms of sets, from the                 *)
(* well-foundedness of < on the naturals.                                  *)
(***************************************************************************)
EXTENDS SequenceFunctions, TLAPS, WellFoundedInduction, SequenceTheorems, FiniteSetTheorems

\* A nonempty set of naturals has a least element.
LEMMA LeastElement ==
    ASSUME NEW T, T \subseteq Nat, T # {}
    PROVE  \E x \in T : \A y \in T : x <= y
<1> DEFINE R == OpToRel(<, Nat)
<1>1. IsWellFoundedOn(R, Nat)
  BY NatLessThanWellFounded
<1>2. \A x, y \in Nat : y < x => <<y, x>> \in R
  BY DEF OpToRel
<1> HIDE DEF R
<1>3. \E x \in T : \A y \in T : ~ (<<y, x>> \in R)
  BY <1>1, WFMin
<1>4. \A x, y \in Nat : <<y, x>> \notin R => x <= y
  BY <1>2
<1> QED
  BY <1>3, <1>4

\* Induction on 0..m: a set that holds 0 and is closed under successor up to m
\* holds all of 0..m.
LEMMA SetInduction ==
    ASSUME NEW m \in Nat, NEW T, 0 \in T,
           \A n \in 1..m : n - 1 \in T => n \in T
    PROVE  \A n \in 0..m : n \in T
<1> DEFINE Missing == {n \in 0..m : n \notin T}
<1>1. SUFFICES ASSUME Missing # {} PROVE FALSE
  OBVIOUS
<1>2. Missing \subseteq Nat
  OBVIOUS
<1> HIDE DEF Missing
<1>3. PICK n \in Missing : \A k \in Missing : n <= k
  BY <1>1, <1>2, LeastElement
<1>4. n \in 0..m /\ n \notin T /\ n # 0
  BY <1>3 DEF Missing
<1>5. n - 1 \in 0..m /\ n - 1 \notin Missing
  BY <1>3, <1>4
<1> QED
  BY <1>4, <1>5 DEF Missing

\* The recursive definition of PrefixSums defines a function: its equations hold.
LEMMA PrefixSumsEquations ==
    ASSUME NEW ws \in Seq(Nat)
    PROVE  /\ PrefixSums(ws) \in [0..Len(ws) -> Nat]
           /\ PrefixSums(ws)[0] = 0
           /\ \A i \in 1..Len(ws) : PrefixSums(ws)[i] = PrefixSums(ws)[i - 1] + ws[i]
<1> DEFINE Sums(g, n) == /\ g \in [0..n -> Nat]
                         /\ g[0] = 0
                         /\ \A i \in 1..n : g[i] = g[i - 1] + ws[i]
           HasSums == {n \in Nat : \E g : Sums(g, n)}
<1>1. Len(ws) \in Nat /\ Len(ws) \in 0..Len(ws)
  OBVIOUS
<1>2. \A n \in 0..Len(ws) : n \in HasSums
  <2>1. 0 \in HasSums
    <3>1. Sums([i \in 0..0 |-> 0], 0)
      OBVIOUS
    <3> QED
      BY <3>1
  <2>2. ASSUME NEW n \in 1..Len(ws), n - 1 \in HasSums
        PROVE  n \in HasSums
    <3>0. n \in Nat \ {0} /\ ws[n] \in Nat
      BY <1>1
    <3>1. PICK g : Sums(g, n - 1)
      BY <2>2
    <3>2. Sums([i \in 0..n |-> IF i = n THEN g[n - 1] + ws[n] ELSE g[i]], n)
      BY <3>0, <3>1
    <3> QED
      BY <3>0, <3>2
  <2> HIDE DEF HasSums
  <2> QED
    BY <1>1, <2>1, <2>2, SetInduction
<1>3. PICK g : Sums(g, Len(ws))
  BY <1>1, <1>2
<1>4. g = [i \in 0..Len(ws) |-> IF i = 0 THEN 0 ELSE g[i - 1] + ws[i]]
  BY <1>3
<1> DEFINE Solves(p) == p = [i \in 0..Len(ws) |-> IF i = 0 THEN 0 ELSE p[i - 1] + ws[i]]
<1>5. Solves(PrefixSums(ws))
  BY <1>4 DEF PrefixSums
<1>6. ASSUME NEW p, Solves(p)
      PROVE  p = g
  <2>1. p[0] = 0 /\ \A i \in 1..Len(ws) : p[i] = p[i - 1] + ws[i]
    <3>1. 0 \in 0..Len(ws) /\ \A i \in 1..Len(ws) : i \in 0..Len(ws) /\ i # 0
      BY <1>1
    <3> QED
      BY <1>6, <3>1
  <2> DEFINE Same == {n \in Nat : p[n] = g[n]}
  <2>2. 0 \in Same
    BY <2>1, <1>3
  <2>3. ASSUME NEW n \in 1..Len(ws), n - 1 \in Same
        PROVE  n \in Same
    BY <2>1, <2>3, <1>3
  <2>4. \A n \in 0..Len(ws) : n \in Same
    <3> HIDE DEF Same
    <3> QED
      BY <1>1, <2>2, <2>3, SetInduction
  <2> QED
    BY <1>3, <1>6, <2>4
<1>7. PrefixSums(ws) = g
  BY <1>5, <1>6
<1> QED
  BY <1>3, <1>7

\* Sums are naturals.
LEMMA TotalType ==
    ASSUME NEW ws \in Seq(Nat)
    PROVE  Total(ws) \in Nat
BY PrefixSumsEquations DEF Total

LEMMA TotalEmpty == Total(<<>>) = 0
<1>1. <<>> \in Seq(Nat) /\ Len(<<>>) = 0
  OBVIOUS
<1> QED
  BY <1>1, PrefixSumsEquations DEF Total

LEMMA TotalSingleton ==
    ASSUME NEW w \in Nat
    PROVE  Total(<<w>>) = w
<1> DEFINE ws == <<w>>
<1>1. ws \in Seq(Nat) /\ Len(ws) = 1 /\ ws[1] = w
  OBVIOUS
<1> HIDE DEF ws
<1>2. PrefixSums(ws)[0] = 0 /\ PrefixSums(ws)[1] = PrefixSums(ws)[1 - 1] + ws[1]
  BY <1>1, PrefixSumsEquations
<1>3. Total(ws) = w
  BY <1>1, <1>2 DEF Total
<1> QED
  BY <1>3 DEF ws

\* The sum of a concatenation, from which every other fact about the counters
\* of the store follows.
LEMMA TotalConcat ==
    ASSUME NEW us \in Seq(Nat), NEW ws \in Seq(Nat)
    PROVE  Total(us \o ws) = Total(us) + Total(ws)
<1> DEFINE xs == us \o ws
           m == Len(us)
           k == Len(ws)
<1>1. /\ xs \in Seq(Nat) /\ m \in Nat /\ k \in Nat /\ Len(xs) = m + k
      /\ \A i \in 1..m : xs[i] = us[i]
      /\ \A i \in 1..k : xs[m + i] = ws[i]
  OBVIOUS
<1> HIDE DEF xs, m, k
<1> DEFINE P == PrefixSums(xs)
           U == PrefixSums(us)
           W == PrefixSums(ws)
<1>2. /\ P \in [0..(m + k) -> Nat] /\ P[0] = 0
      /\ \A i \in 1..(m + k) : P[i] = P[i - 1] + xs[i]
  BY <1>1, PrefixSumsEquations
<1>3. /\ U \in [0..m -> Nat] /\ U[0] = 0
      /\ \A i \in 1..m : U[i] = U[i - 1] + us[i]
  BY PrefixSumsEquations DEF m
<1>4. /\ W \in [0..k -> Nat] /\ W[0] = 0
      /\ \A i \in 1..k : W[i] = W[i - 1] + ws[i]
  BY PrefixSumsEquations DEF k
<1> HIDE DEF P, U, W
<1>5. \A n \in 0..m : n \in {i \in Nat : P[i] = U[i]}
  <2> DEFINE Same == {i \in Nat : P[i] = U[i]}
  <2>1. 0 \in Same
    BY <1>2, <1>3
  <2>2. ASSUME NEW n \in 1..m, n - 1 \in Same
        PROVE  n \in Same
    BY <1>1, <1>2, <1>3, <2>2
  <2> HIDE DEF Same
  <2>3. \A n \in 0..m : n \in Same
    BY <1>1, <2>1, <2>2, SetInduction
  <2> QED
    BY <2>3 DEF Same
<1>6. \A n \in 0..k : n \in {i \in Nat : P[m + i] = U[m] + W[i]}
  <2> DEFINE Same == {i \in Nat : P[m + i] = U[m] + W[i]}
  <2>1. 0 \in Same
    BY <1>1, <1>3, <1>4, <1>5
  <2>2. ASSUME NEW n \in 1..k, n - 1 \in Same
        PROVE  n \in Same
    <3>1. P[m + n] = P[m + n - 1] + xs[m + n] /\ xs[m + n] = ws[n]
      BY <1>1, <1>2
    <3>2. P[m + (n - 1)] = U[m] + W[n - 1]
      BY <2>2
    <3>3. m + n - 1 = m + (n - 1) /\ W[n] = W[n - 1] + ws[n]
      BY <1>1, <1>4
    <3>4. ws[n] \in Nat
      BY DEF k
    <3>5. W[n - 1] \in Nat /\ U[m] \in Nat
      BY <1>1, <1>3, <1>4
    <3> QED
      BY <3>1, <3>2, <3>3, <3>4, <3>5
  <2> HIDE DEF Same
  <2>3. \A n \in 0..k : n \in Same
    BY <1>1, <2>1, <2>2, SetInduction
  <2> QED
    BY <2>3 DEF Same
<1>7. P[m + k] = U[m] + W[k]
  BY <1>1, <1>6
<1> QED
  BY <1>1, <1>7 DEF Total, P, U, W, m, k, xs

-----------------------------------------------------------------------------
(* Filtered.                                                               *)

Filterings(k, s, S, T) ==
    /\ k \in [0..Len(s) -> Seq(T)]
    /\ k[0] = << >>
    /\ \A i \in 1..Len(s) : k[i] = IF s[i] \in S THEN Append(k[i - 1], s[i]) ELSE k[i - 1]

\* The recursive definition of Filtered defines a function: its equations hold.
LEMMA FilteredEquations ==
    ASSUME NEW T, NEW s \in Seq(T), NEW S
    PROVE  \E k : Filterings(k, s, S, T) /\ Filtered(s, S) = k[Len(s)]
<1> DEFINE Keeps(g, n) == /\ g \in [0..n -> Seq(T)]
                          /\ g[0] = << >>
                          /\ \A i \in 1..n : g[i] = IF s[i] \in S THEN Append(g[i - 1], s[i]) ELSE g[i - 1]
           HasKept == {n \in Nat : \E g : Keeps(g, n)}
<1>1. Len(s) \in Nat /\ Len(s) \in 0..Len(s)
  OBVIOUS
<1>2. \A n \in 0..Len(s) : n \in HasKept
  <2>1. 0 \in HasKept
    <3>1. Keeps([i \in 0..0 |-> << >>], 0)
      OBVIOUS
    <3> QED
      BY <3>1
  <2>2. ASSUME NEW n \in 1..Len(s), n - 1 \in HasKept
        PROVE  n \in HasKept
    <3>0. n \in Nat \ {0} /\ s[n] \in T
      BY <1>1
    <3>1. PICK g : Keeps(g, n - 1)
      BY <2>2
    <3> DEFINE last == IF s[n] \in S THEN Append(g[n - 1], s[n]) ELSE g[n - 1]
    <3>2. last \in Seq(T)
      BY <3>0, <3>1
    <3> HIDE DEF last
    <3>3. Keeps([i \in 0..n |-> IF i = n THEN last ELSE g[i]], n)
      <4> DEFINE h == [i \in 0..n |-> IF i = n THEN last ELSE g[i]]
      <4>1. h \in [0..n -> Seq(T)] /\ h[0] = << >>
        BY <3>0, <3>1, <3>2
      <4>2. h[n] = last /\ \A i \in 0..n - 1 : h[i] = g[i]
        BY <3>0
      <4>3. ASSUME NEW i \in 1..n PROVE h[i] = IF s[i] \in S THEN Append(h[i - 1], s[i]) ELSE h[i - 1]
        <5>1. CASE i = n
          BY <3>0, <4>2, <5>1 DEF last
        <5>2. CASE i # n
          BY <3>0, <3>1, <4>2, <5>2
        <5> QED
          BY <5>1, <5>2
      <4> QED
        BY <4>1, <4>3
    <3> QED
      BY <3>0, <3>3
  <2> HIDE DEF HasKept
  <2> QED
    BY <1>1, <2>1, <2>2, SetInduction
<1>3. PICK g : Keeps(g, Len(s))
  BY <1>1, <1>2
<1> DEFINE Solves(p) ==
        p = [i \in 0..Len(s) |-> IF i = 0 THEN << >> ELSE IF s[i] \in S THEN Append(p[i - 1], s[i]) ELSE p[i - 1]]
<1>4. Solves(g)
  <2>1. ASSUME NEW i \in 0..Len(s)
        PROVE  g[i] = IF i = 0 THEN << >> ELSE IF s[i] \in S THEN Append(g[i - 1], s[i]) ELSE g[i - 1]
    <3>1. CASE i = 0
      BY <1>3, <3>1
    <3>2. CASE i # 0
      <4>1. i \in 1..Len(s)
        BY <1>1, <3>2
      <4> QED
        BY <1>3, <3>2, <4>1
    <3> QED
      BY <3>1, <3>2
  <2>2. g = [i \in 0..Len(s) |-> g[i]]
    BY <1>3
  <2> HIDE DEF Keeps
  <2> QED
    BY <2>1, <2>2
<1> DEFINE q == CHOOSE p : Solves(p)
<1>5. Solves(q)
  BY <1>4
<1>6. Filtered(s, S) = q[Len(s)]
  BY DEF Filtered
<1> HIDE DEF q
<1>7. q[0] = << >> /\ \A i \in 1..Len(s) : q[i] = IF s[i] \in S THEN Append(q[i - 1], s[i]) ELSE q[i - 1]
  <2>1. 0 \in 0..Len(s) /\ \A i \in 1..Len(s) : i \in 0..Len(s) /\ i # 0
    BY <1>1
  <2> QED
    BY <1>5, <2>1
<1>8. q = g
  <2> DEFINE Same == {n \in Nat : q[n] = g[n]}
  <2>1. 0 \in Same
    BY <1>3, <1>7
  <2>2. ASSUME NEW n \in 1..Len(s), n - 1 \in Same
        PROVE  n \in Same
    BY <1>3, <1>7, <2>2
  <2>3. \A n \in 0..Len(s) : n \in Same
    <3> HIDE DEF Same
    <3> QED
      BY <1>1, <2>1, <2>2, SetInduction
  <2> QED
    BY <1>3, <1>5, <2>3
<1>9. Filterings(g, s, S, T)
  BY <1>3 DEF Filterings
<1> QED
  BY <1>6, <1>8, <1>9

-----------------------------------------------------------------------------
(* Sets of naturals listed in increasing order.                            *)

Increasing(e) == \A i, j \in 1..Len(e) : i < j => e[i] < e[j]

Enumerates(e, I) == e \in Seq(Nat) /\ Increasing(e) /\ I = {e[i] : i \in 1..Len(e)}

LEMMA FunctionIsSeq ==
    ASSUME NEW S, NEW n \in Nat, NEW f \in [1..n -> S]
    PROVE  f \in Seq(S) /\ Len(f) = n
<1>1. f \in Seq(S)
  OBVIOUS
<1>2. Len(f) \in Nat /\ DOMAIN f = 1..Len(f) /\ DOMAIN f = 1..n
  BY <1>1, LenProperties
<1>3. Len(f) = n
  BY <1>2
<1> QED
  BY <1>1, <1>3

LEMMA EnumFacts ==
    ASSUME NEW e, NEW I, Enumerates(e, I)
    PROVE  /\ I \subseteq Nat
           /\ Len(e) \in Nat /\ DOMAIN e = 1..Len(e) /\ e \in [1..Len(e) -> Nat]
           /\ \A i \in 1..Len(e) : e[i] \in I /\ e[i] \in Nat
           /\ \A x \in I : \E i \in 1..Len(e) : e[i] = x
           /\ \A i, j \in 1..Len(e) : i < j <=> e[i] < e[j]
           /\ \A i, j \in 1..Len(e) : i = j <=> e[i] = e[j]
<1>1. e \in Seq(Nat) /\ Increasing(e) /\ I = {e[i] : i \in 1..Len(e)}
  BY DEF Enumerates
<1>2. Len(e) \in Nat /\ DOMAIN e = 1..Len(e) /\ e \in [1..Len(e) -> Nat]
  BY <1>1, LenProperties
<1>3. \A i \in 1..Len(e) : e[i] \in I /\ e[i] \in Nat
  BY <1>1, <1>2
<1>4. \A i, j \in 1..Len(e) : i < j => e[i] < e[j]
  BY <1>1 DEF Increasing
<1>5. \A i, j \in 1..Len(e) : i < j <=> e[i] < e[j]
  <2> SUFFICES ASSUME NEW i \in 1..Len(e), NEW j \in 1..Len(e), e[i] < e[j], ~ (i < j) PROVE FALSE
    BY <1>4
  <2>1. i = j \/ j < i
    BY <1>2
  <2> QED
    BY <1>3, <1>4, <2>1
<1>6. \A i, j \in 1..Len(e) : i = j <=> e[i] = e[j]
  <2> SUFFICES ASSUME NEW i \in 1..Len(e), NEW j \in 1..Len(e), e[i] = e[j], i # j PROVE FALSE
    OBVIOUS
  <2>1. i < j \/ j < i
    BY <1>2
  <2> QED
    BY <1>3, <1>4, <2>1
<1> QED
  BY <1>1, <1>2, <1>3, <1>5, <1>6

\* A set has one enumeration.
LEMMA EnumUnique ==
    ASSUME NEW e, NEW f, NEW I, Enumerates(e, I), Enumerates(f, I)
    PROVE  e = f
<1>1. /\ Len(e) \in Nat /\ e \in [1..Len(e) -> Nat]
      /\ \A i \in 1..Len(e) : e[i] \in I /\ e[i] \in Nat
      /\ \A x \in I : \E i \in 1..Len(e) : e[i] = x
      /\ \A i, j \in 1..Len(e) : i < j => e[i] < e[j]
  BY EnumFacts
<1>2. /\ Len(f) \in Nat /\ f \in [1..Len(f) -> Nat]
      /\ \A i \in 1..Len(f) : f[i] \in I /\ f[i] \in Nat
      /\ \A x \in I : \E i \in 1..Len(f) : f[i] = x
      /\ \A i, j \in 1..Len(f) : i < j => f[i] < f[j]
  BY EnumFacts
<1> DEFINE Wrong == {i \in Nat \ {0} : ~ (i \in 1..Len(e) <=> i \in 1..Len(f)) \/ (i \in 1..Len(e) /\ e[i] # f[i])}
<1>3. Wrong = {}
  <2> SUFFICES ASSUME Wrong # {} PROVE FALSE
    OBVIOUS
  <2>1. Wrong \subseteq Nat
    OBVIOUS
  <2> HIDE DEF Wrong
  <2>2. PICK n \in Wrong : \A y \in Wrong : n <= y
    BY <2>1, LeastElement
  <2>3. n \in Nat \ {0} /\ (~ (n \in 1..Len(e) <=> n \in 1..Len(f)) \/ (n \in 1..Len(e) /\ e[n] # f[n]))
    BY <2>2 DEF Wrong
  <2>4. ASSUME NEW i \in Nat \ {0}, i < n
        PROVE  (i \in 1..Len(e) <=> i \in 1..Len(f)) /\ (i \in 1..Len(e) => e[i] = f[i])
    <3>1. i \notin Wrong
      BY <2>2, <2>3, <2>4
    <3> QED
      BY <3>1 DEF Wrong
  <2>5. ASSUME n \in 1..Len(e) PROVE n \in 1..Len(f) /\ f[n] <= e[n]
    <3>1. PICK k \in 1..Len(f) : f[k] = e[n]
      BY <1>1, <1>2, <2>5
    <3>2. ~ (k < n)
      <4> SUFFICES ASSUME k < n PROVE FALSE
        OBVIOUS
      <4>1. k \in Nat \ {0}
        BY <1>2
      <4>2. k \in 1..Len(e) /\ e[k] = f[k]
        BY <2>4, <4>1
      <4> QED
        BY <1>1, <2>5, <3>1, <4>2
    <3>3. n \in 1..Len(f)
      BY <1>2, <2>3, <3>2
    <3>4. f[n] <= f[k]
      <4>1. n = k \/ n < k
        BY <2>3, <3>2
      <4> QED
        BY <1>2, <3>3, <4>1
    <3> QED
      BY <3>1, <3>3, <3>4
  <2>6. ASSUME n \in 1..Len(f) PROVE n \in 1..Len(e) /\ e[n] <= f[n]
    <3>1. PICK k \in 1..Len(e) : e[k] = f[n]
      BY <1>1, <1>2, <2>6
    <3>2. ~ (k < n)
      <4> SUFFICES ASSUME k < n PROVE FALSE
        OBVIOUS
      <4>1. k \in Nat \ {0}
        BY <1>1
      <4>2. k \in 1..Len(f) /\ e[k] = f[k]
        BY <2>4, <4>1
      <4>3. f[k] < f[n] /\ f[k] \in Nat /\ f[k] = f[n]
        BY <1>2, <2>6, <3>1, <4>2
      <4> QED
        BY <4>3
    <3>3. n \in 1..Len(e)
      BY <1>1, <2>3, <3>2
    <3>4. e[n] <= e[k]
      <4>1. n = k \/ n < k
        BY <2>3, <3>2
      <4> QED
        BY <1>1, <3>3, <4>1
    <3> QED
      BY <3>1, <3>3, <3>4
  <2>7. n \in 1..Len(e) /\ n \in 1..Len(f) /\ e[n] # f[n]
    BY <2>3, <2>5, <2>6
  <2> QED
    BY <1>1, <1>2, <2>5, <2>6, <2>7
<1>4. \A i \in Nat \ {0} : (i \in 1..Len(e) <=> i \in 1..Len(f)) /\ (i \in 1..Len(e) => e[i] = f[i])
  BY <1>3
<1>5. Len(e) = Len(f)
  <2>0. Len(e) \in Nat /\ Len(f) \in Nat
    BY <1>1, <1>2
  <2>1. ASSUME Len(e) > 0 PROVE Len(e) <= Len(f)
    <3>1. Len(e) \in Nat \ {0} /\ Len(e) \in 1..Len(e)
      BY <2>0, <2>1
    <3>2. Len(e) \in 1..Len(f)
      BY <1>4, <3>1
    <3> QED
      BY <2>0, <3>2
  <2>2. ASSUME Len(f) > 0 PROVE Len(f) <= Len(e)
    <3>1. Len(f) \in Nat \ {0} /\ Len(f) \in 1..Len(f)
      BY <2>0, <2>2
    <3>2. Len(f) \in 1..Len(e)
      BY <1>4, <3>1
    <3> QED
      BY <2>0, <3>2
  <2> QED
    BY <2>0, <2>1, <2>2
<1>6. \A i \in 1..Len(e) : e[i] = f[i]
  BY <1>1, <1>4
<1> QED
  BY <1>1, <1>2, <1>5, <1>6

\* The elements above all others go behind them.
LEMMA EnumConcat ==
    ASSUME NEW e, NEW f, NEW I, NEW J, Enumerates(e, I), Enumerates(f, J), \A x \in I, y \in J : x < y
    PROVE  Enumerates(e \o f, I \cup J)
<1> DEFINE g == e \o f
<1>1. /\ Len(e) \in Nat
      /\ \A i \in 1..Len(e) : e[i] \in I /\ e[i] \in Nat
      /\ \A x \in I : \E i \in 1..Len(e) : e[i] = x
      /\ \A i, j \in 1..Len(e) : i < j => e[i] < e[j]
  BY EnumFacts
<1>2. /\ Len(f) \in Nat
      /\ \A i \in 1..Len(f) : f[i] \in J /\ f[i] \in Nat
      /\ \A x \in J : \E i \in 1..Len(f) : f[i] = x
      /\ \A i, j \in 1..Len(f) : i < j => f[i] < f[j]
  BY EnumFacts
<1>3. e \in Seq(Nat) /\ f \in Seq(Nat)
  BY DEF Enumerates
<1>4. /\ g \in Seq(Nat) /\ Len(g) = Len(e) + Len(f)
      /\ \A i \in 1..Len(g) : g[i] = IF i <= Len(e) THEN e[i] ELSE f[i - Len(e)]
  BY <1>3, ConcatProperties
<1> HIDE DEF g
<1>5. ASSUME NEW i \in 1..Len(g) PROVE \/ i \in 1..Len(e) /\ g[i] = e[i]
                                       \/ i > Len(e) /\ i - Len(e) \in 1..Len(f) /\ g[i] = f[i - Len(e)]
  BY <1>1, <1>2, <1>4
<1>6. Increasing(g)
  <2> SUFFICES ASSUME NEW i \in 1..Len(g), NEW j \in 1..Len(g), i < j PROVE g[i] < g[j]
    BY DEF Increasing
  <2>1. CASE j \in 1..Len(e) /\ g[j] = e[j]
    <3>1. i \in 1..Len(e) /\ g[i] = e[i]
      BY <1>1, <1>5, <2>1
    <3> QED
      BY <1>1, <2>1, <3>1
  <2>2. CASE j > Len(e) /\ j - Len(e) \in 1..Len(f) /\ g[j] = f[j - Len(e)]
    <3>1. CASE i \in 1..Len(e) /\ g[i] = e[i]
      BY <1>1, <1>2, <2>2, <3>1
    <3>2. CASE i > Len(e) /\ i - Len(e) \in 1..Len(f) /\ g[i] = f[i - Len(e)]
      <4>1. i - Len(e) < j - Len(e)
        BY <1>1, <1>2, <1>4
      <4> QED
        BY <1>2, <2>2, <3>2, <4>1
    <3> QED
      BY <1>5, <3>1, <3>2
  <2> QED
    BY <1>5, <2>1, <2>2
<1>7. I \cup J = {g[i] : i \in 1..Len(g)}
  <2>1. ASSUME NEW x \in I PROVE \E i \in 1..Len(g) : g[i] = x
    <3>1. PICK i \in 1..Len(e) : e[i] = x
      BY <1>1
    <3>2. i \in 1..Len(g) /\ g[i] = e[i]
      BY <1>1, <1>2, <1>4
    <3> QED
      BY <3>1, <3>2
  <2>2. ASSUME NEW x \in J PROVE \E i \in 1..Len(g) : g[i] = x
    <3>1. PICK i \in 1..Len(f) : f[i] = x
      BY <1>2
    <3> DEFINE j == i + Len(e)
    <3>2. j \in 1..Len(g) /\ ~ (j <= Len(e)) /\ j - Len(e) = i
      BY <1>1, <1>2, <1>4
    <3>3. g[j] = f[j - Len(e)]
      BY <1>4, <3>2
    <3> QED
      BY <3>1, <3>2, <3>3
  <2>3. \A i \in 1..Len(g) : g[i] \in I \cup J
    BY <1>1, <1>2, <1>5
  <2> QED
    BY <2>1, <2>2, <2>3
<1>8. Enumerates(g, I \cup J)
  BY <1>4, <1>6, <1>7 DEF Enumerates
<1> QED
  BY <1>8 DEF g

LEMMA EnumSingle ==
    ASSUME NEW n \in Nat PROVE Enumerates(<<n>>, {n})
BY DEF Enumerates, Increasing

LEMMA EnumEmpty == Enumerates(<< >>, {})
BY DEF Enumerates, Increasing

LEMMA EnumAppend ==
    ASSUME NEW e, NEW I, Enumerates(e, I), NEW n \in Nat, \A x \in I : x < n
    PROVE  Enumerates(Append(e, n), I \cup {n})
<1>1. Enumerates(e \o <<n>>, I \cup {n})
  BY EnumSingle, EnumConcat
<1>2. Append(e, n) = e \o <<n>>
  BY AppendIsConcat DEF Enumerates
<1> QED
  BY <1>1, <1>2

\* An element leaves.
LEMMA EnumRemove ==
    ASSUME NEW e, NEW I, Enumerates(e, I), NEW k \in 1..Len(e),
           NEW g \in Seq(Nat), Len(g) = Len(e) - 1,
           \A i \in 1..Len(g) : g[i] = IF i < k THEN e[i] ELSE e[i + 1]
    PROVE  Enumerates(g, I \ {e[k]})
<1>0. Enumerates(e, I)
  OBVIOUS
<1>1. /\ Len(e) \in Nat
      /\ \A i \in 1..Len(e) : e[i] \in I /\ e[i] \in Nat
      /\ \A x \in I : \E i \in 1..Len(e) : e[i] = x
      /\ \A i, j \in 1..Len(e) : i < j => e[i] < e[j]
      /\ \A i, j \in 1..Len(e) : i = j <=> e[i] = e[j]
  BY ONLY <1>0, EnumFacts
<1> DEFINE Old(i) == IF i < k THEN i ELSE i + 1
<1>2. \A i \in 1..Len(g) : g[i] = e[Old(i)] /\ Old(i) \in 1..Len(e) /\ Old(i) # k
  BY <1>1
<1>3. \A i, j \in 1..Len(g) : i < j => Old(i) < Old(j)
  OBVIOUS
<1>4. \A i \in 1..Len(e) : i # k => \E j \in 1..Len(g) : Old(j) = i
  <2> SUFFICES ASSUME NEW i \in 1..Len(e), i # k PROVE \E j \in 1..Len(g) : Old(j) = i
    OBVIOUS
  <2>1. CASE i < k
    <3>1. i \in 1..Len(g) /\ Old(i) = i
      BY <1>1, <2>1
    <3> QED
      BY <3>1
  <2>2. CASE i > k
    <3>1. i - 1 \in 1..Len(g) /\ Old(i - 1) = i
      BY <1>1, <2>2
    <3> QED
      BY <3>1
  <2> QED
    BY <1>1, <2>1, <2>2
<1> HIDE DEF Old
<1>5. Increasing(g)
  <2> SUFFICES ASSUME NEW i \in 1..Len(g), NEW j \in 1..Len(g), i < j PROVE g[i] < g[j]
    BY DEF Increasing
  <2>1. Old(i) < Old(j) /\ Old(i) \in 1..Len(e) /\ Old(j) \in 1..Len(e) /\ g[i] = e[Old(i)] /\ g[j] = e[Old(j)]
    BY <1>2, <1>3
  <2> QED
    BY <1>1, <2>1
<1>6. I \ {e[k]} = {g[i] : i \in 1..Len(g)}
  <2>1. ASSUME NEW x \in I \ {e[k]} PROVE \E j \in 1..Len(g) : g[j] = x
    <3>1. PICK i \in 1..Len(e) : e[i] = x
      BY <1>1
    <3>2. PICK j \in 1..Len(g) : Old(j) = i
      BY <1>4, <2>1, <3>1
    <3> QED
      BY <1>2, <3>1, <3>2
  <2>2. ASSUME NEW i \in 1..Len(g) PROVE g[i] \in I \ {e[k]}
    <3>1. g[i] = e[Old(i)] /\ Old(i) \in 1..Len(e) /\ Old(i) # k
      BY <1>2
    <3>2. e[Old(i)] \in I /\ e[Old(i)] # e[k]
      BY <1>1, <3>1
    <3> QED
      BY <3>1, <3>2
  <2> QED
    BY <2>1, <2>2
<1> QED
  BY <1>5, <1>6 DEF Enumerates

LEMMA EnumCardinality ==
    ASSUME NEW e, NEW I, Enumerates(e, I)
    PROVE  IsFiniteSet(I) /\ Cardinality(I) = Len(e)
<1>1. /\ Len(e) \in Nat /\ e \in [1..Len(e) -> Nat]
      /\ \A i \in 1..Len(e) : e[i] \in I
      /\ \A x \in I : \E i \in 1..Len(e) : e[i] = x
      /\ \A i, j \in 1..Len(e) : i = j <=> e[i] = e[j]
  BY EnumFacts
<1>2. e \in Bijection(1..Len(e), I)
  <2>1. e \in [1..Len(e) -> I]
    BY <1>1
  <2> QED
    BY <1>1, <2>1 DEF Bijection, Injection, Surjection, IsInjective
<1>3. ExistsBijection(1..Len(e), I)
  BY <1>2 DEF ExistsBijection
<1> QED
  BY <1>1, <1>3, FS_CountingElements, FS_NatBijection

\* What f has at the places e lists.
Listing(e, f) == [j \in 1..Len(e) |-> f[e[j]]]

Image(f, D) == {f[i] : i \in D}

\* An enumeration picked from by an increasing choice of positions.
LEMMA EnumCompose ==
    ASSUME NEW e, NEW I, Enumerates(e, I), NEW d, NEW D, Enumerates(d, D), D \subseteq 1..Len(e)
    PROVE  Enumerates(Listing(d, e), Image(e, D)) /\ Len(Listing(d, e)) = Len(d)
<1> DEFINE g == [j \in 1..Len(d) |-> e[d[j]]]
<1>0. Enumerates(e, I) /\ Enumerates(d, D)
  OBVIOUS
<1>1. \A i, j \in 1..Len(e) : i < j <=> e[i] < e[j]
  BY ONLY <1>0, EnumFacts
<1>2. \A i \in 1..Len(e) : e[i] \in Nat
  BY ONLY <1>0, EnumFacts
<1>3. /\ Len(d) \in Nat
      /\ \A i \in 1..Len(d) : d[i] \in D
      /\ \A x \in D : \E i \in 1..Len(d) : d[i] = x
      /\ \A i, j \in 1..Len(d) : i < j <=> d[i] < d[j]
  BY ONLY <1>0, EnumFacts
<1>4. \A j \in 1..Len(d) : g[j] = e[d[j]] /\ d[j] \in 1..Len(e)
  BY <1>3
<1>5. g \in Seq(Nat) /\ Len(g) = Len(d)
  <2>1. g \in [1..Len(d) -> Nat]
    BY <1>2, <1>4
  <2> QED
    BY <1>3, <2>1, FunctionIsSeq
<1> HIDE DEF g
<1>6. Increasing(g)
  <2> SUFFICES ASSUME NEW i \in 1..Len(g), NEW j \in 1..Len(g), i < j PROVE g[i] < g[j]
    BY DEF Increasing
  <2>1. d[i] < d[j] /\ d[i] \in 1..Len(e) /\ d[j] \in 1..Len(e) /\ g[i] = e[d[i]] /\ g[j] = e[d[j]]
    BY <1>3, <1>4, <1>5
  <2> QED
    BY <1>1, <2>1
<1>7. Image(e, D) = Image(g, 1..Len(g))
  <2>1. ASSUME NEW i \in D PROVE \E j \in 1..Len(g) : g[j] = e[i]
    <3>1. PICK j \in 1..Len(d) : d[j] = i
      BY <1>3
    <3> QED
      BY <1>4, <1>5, <3>1
  <2>2. ASSUME NEW j \in 1..Len(g) PROVE \E i \in D : g[j] = e[i]
    <3>1. j \in 1..Len(d) /\ d[j] \in D /\ g[j] = e[d[j]]
      BY <1>3, <1>4, <1>5
    <3> QED
      BY <3>1
  <2>3. \A y : y \in Image(e, D) <=> y \in Image(g, 1..Len(g))
    BY <2>1, <2>2 DEF Image
  <2> QED
    BY <2>3
<1>8. Enumerates(g, Image(e, D))
  BY <1>5, <1>6, <1>7 DEF Enumerates, Image
<1> QED
  BY <1>5, <1>8 DEF g, Listing

Positions(s, S) == {i \in 1..Len(s) : s[i] \in S}

\* What is kept of a sequence is what is at the positions that hold an element of the set.
LEMMA FilteredIs ==
    ASSUME NEW T, NEW s \in Seq(T), NEW S
    PROVE  \E e : Enumerates(e, Positions(s, S)) /\ Filtered(s, S) = Listing(e, s)
<1>0. PICK k : Filterings(k, s, S, T) /\ Filtered(s, S) = k[Len(s)]
  BY FilteredEquations
<1>1. /\ k \in [0..Len(s) -> Seq(T)]
      /\ k[0] = << >>
      /\ \A i \in 1..Len(s) : k[i] = IF s[i] \in S THEN Append(k[i - 1], s[i]) ELSE k[i - 1]
      /\ Filtered(s, S) = k[Len(s)]
  BY <1>0 DEF Filterings
<1> DEFINE In(n) == {i \in 1..n : s[i] \in S}
           Known(n) == \E e : Enumerates(e, In(n)) /\ k[n] = [j \in 1..Len(e) |-> s[e[j]]]
           Good == {n \in Nat : Known(n)}
<1>2. 0 \in Good
  <2>1. In(0) = {} /\ Len(<< >>) = 0
    OBVIOUS
  <2>2. k[0] = [j \in 1..Len(<< >>) |-> s[<< >>[j]]]
    BY <1>1
  <2> QED
    BY <2>1, <2>2, EnumEmpty
<1>3. ASSUME NEW n \in 1..Len(s), n - 1 \in Good PROVE n \in Good
  <2>1. PICK e : Enumerates(e, In(n - 1)) /\ k[n - 1] = [j \in 1..Len(e) |-> s[e[j]]]
    BY <1>3
  <2>2. n \in Nat /\ n - 1 \in Nat
    OBVIOUS
  <2>3. CASE s[n] \in S
    <3>1. In(n) = In(n - 1) \cup {n} /\ \A x \in In(n - 1) : x < n
      BY <2>2, <2>3
    <3> DEFINE g == Append(e, n)
               h == [j \in 1..Len(g) |-> s[g[j]]]
    <3>2. Enumerates(g, In(n))
      <4> HIDE DEF In
      <4> QED
        BY <2>1, <2>2, <3>1, EnumAppend
    <3>3. e \in Seq(Nat) /\ Len(e) \in Nat
      BY <2>1 DEF Enumerates
    <3>4. Len(g) = Len(e) + 1 /\ g[Len(e) + 1] = n /\ \A j \in 1..Len(e) : g[j] = e[j]
      BY <2>2, <3>3
    <3>5. k[n - 1] \in Seq(T) /\ Len(k[n - 1]) = Len(e) /\ s[n] \in T
      <4>0. n - 1 \in 0..Len(s)
        BY <2>2
      <4>1. k[n - 1] \in Seq(T) /\ DOMAIN k[n - 1] = 1..Len(e)
        BY <1>1, <2>1, <4>0
      <4> QED
        BY <3>3, <4>1
    <3>6. k[n] = Append(k[n - 1], s[n])
      BY <1>1, <2>3
    <3>7. k[n] = h
      <4>1. /\ k[n] \in Seq(T) /\ Len(k[n]) = Len(e) + 1 /\ k[n][Len(e) + 1] = s[n]
            /\ \A j \in 1..Len(e) : k[n][j] = k[n - 1][j]
        BY <3>5, <3>6, AppendProperties
      <4>2. DOMAIN k[n] = 1..Len(g) /\ k[n] = [j \in 1..Len(g) |-> k[n][j]]
        BY <3>3, <3>4, <4>1
      <4>3. ASSUME NEW j \in 1..Len(g) PROVE k[n][j] = s[g[j]]
        <5>1. CASE j = Len(e) + 1
          BY <3>4, <4>1, <5>1
        <5>2. CASE j # Len(e) + 1
          <6>1. j \in 1..Len(e)
            BY <3>3, <3>4, <5>2
          <6> QED
            BY <2>1, <3>4, <4>1, <6>1
        <5> QED
          BY <5>1, <5>2
      <4> HIDE DEF g
      <4> QED
        BY <4>2, <4>3
    <3> HIDE DEF g
    <3> QED
      BY <2>2, <3>2, <3>7
  <2>4. CASE s[n] \notin S
    <3>1. In(n) = In(n - 1)
      BY <2>2, <2>4
    <3>2. k[n] = k[n - 1]
      BY <1>1, <2>4
    <3> HIDE DEF In
    <3> QED
      BY <2>1, <2>2, <3>1, <3>2
  <2> QED
    BY <2>3, <2>4
<1>4. Len(s) \in Nat /\ Len(s) \in 0..Len(s)
  OBVIOUS
<1>5. \A n \in 0..Len(s) : n \in Good
  <2> HIDE DEF Good
  <2> QED
    BY <1>2, <1>3, <1>4, SetInduction
<1>6. Len(s) \in Good
  BY <1>4, <1>5
<1> QED
  BY <1>1, <1>6 DEF Positions, Listing

LEMMA FilteredEnum ==
    ASSUME NEW e, NEW I, Enumerates(e, I), NEW S
    PROVE  Enumerates(Filtered(e, S), I \cap S)
<1> DEFINE D == Positions(e, S)
<1>0. e \in Seq(Nat)
  BY DEF Enumerates
<1>1. PICK d : Enumerates(d, D) /\ Filtered(e, S) = Listing(d, e)
  BY <1>0, FilteredIs
<1>2. Enumerates(Filtered(e, S), Image(e, D))
  <2>1. D \subseteq 1..Len(e)
    BY DEF Positions
  <2> QED
    BY <1>1, <2>1, EnumCompose
<1>3. Image(e, D) = I \cap S
  BY DEF Enumerates, Image, Positions
<1> QED
  BY <1>2, <1>3

-----------------------------------------------------------------------------
(* Sequences as listings: x lists what f has at I, in the order of I.      *)

Lists(x, I, f) == \E e : Enumerates(e, I) /\ x = Listing(e, f)

LEMMA ListingIs ==
    ASSUME NEW x, NEW I, NEW f, Lists(x, I, f)
    PROVE  \E e : Enumerates(e, I) /\ x = Listing(e, f) /\ x = [j \in 1..Len(e) |-> f[e[j]]]
BY DEF Lists, Listing

LEMMA ListsFacts ==
    ASSUME NEW x, NEW I, NEW f, Lists(x, I, f), NEW T, \A i \in I : f[i] \in T
    PROVE  /\ x \in Seq(T) /\ I \subseteq Nat /\ IsFiniteSet(I) /\ Len(x) = Cardinality(I)
           /\ \A j \in 1..Len(x) : \E i \in I : x[j] = f[i]
           /\ \A i \in I : \E j \in 1..Len(x) : x[j] = f[i]
<1>1. PICK e : Enumerates(e, I) /\ x = Listing(e, f) /\ x = [j \in 1..Len(e) |-> f[e[j]]]
  BY ListingIs
<1>2. /\ I \subseteq Nat /\ Len(e) \in Nat
      /\ \A i \in 1..Len(e) : e[i] \in I /\ e[i] \in Nat
      /\ \A y \in I : \E i \in 1..Len(e) : e[i] = y
  BY ONLY <1>1, EnumFacts
<1>3. x \in Seq(T) /\ Len(x) = Len(e)
  <2>1. x \in [1..Len(e) -> T]
    BY <1>1, <1>2
  <2> QED
    BY <1>2, <2>1, FunctionIsSeq
<1>4. IsFiniteSet(I) /\ Cardinality(I) = Len(e)
  BY ONLY <1>1, EnumCardinality
<1> QED
  BY <1>1, <1>2, <1>3, <1>4

LEMMA ListsUnique ==
    ASSUME NEW x, NEW y, NEW I, NEW f, NEW g, Lists(x, I, f), Lists(y, I, g), \A i \in I : f[i] = g[i]
    PROVE  x = y
<1>1. PICK e : Enumerates(e, I) /\ x = Listing(e, f) /\ x = [j \in 1..Len(e) |-> f[e[j]]]
  BY ListingIs
<1>2. PICK d : Enumerates(d, I) /\ y = Listing(d, g) /\ y = [j \in 1..Len(d) |-> g[d[j]]]
  BY ListingIs
<1>3. d = e
  BY ONLY <1>1, <1>2, EnumUnique
<1>4. \A j \in 1..Len(e) : e[j] \in I
  BY ONLY <1>1, EnumFacts
<1>5. \A j \in 1..Len(e) : f[e[j]] = g[e[j]]
  BY <1>4
<1> QED
  BY <1>1, <1>2, <1>3, <1>5

LEMMA ListsOther ==
    ASSUME NEW x, NEW I, NEW f, NEW g, Lists(x, I, f), \A i \in I : f[i] = g[i]
    PROVE  Lists(x, I, g)
<1>1. PICK e : Enumerates(e, I) /\ x = Listing(e, f) /\ x = [j \in 1..Len(e) |-> f[e[j]]]
  BY ListingIs
<1>2. \A j \in 1..Len(e) : e[j] \in I
  BY ONLY <1>1, EnumFacts
<1>3. Listing(e, f) = Listing(e, g)
  BY <1>2 DEF Listing
<1> QED
  BY <1>1, <1>3 DEF Lists

LEMMA ListsEmpty == \A f : Lists(<< >>, {}, f)
<1>1. ASSUME NEW f PROVE << >> = Listing(<< >>, f)
  BY DEF Listing
<1> QED
  BY <1>1, EnumEmpty DEF Lists

\* A sequence lists itself.
LEMMA ListsSelf ==
    ASSUME NEW T, NEW s \in Seq(T)
    PROVE  Lists(s, 1..Len(s), s)
<1> DEFINE e == [i \in 1..Len(s) |-> i]
<1>1. Len(s) \in Nat /\ s = [i \in 1..Len(s) |-> s[i]]
  OBVIOUS
<1>2. e \in Seq(Nat) /\ Len(e) = Len(s)
  <2>1. e \in [1..Len(s) -> Nat]
    BY <1>1
  <2> QED
    BY <1>1, <2>1, FunctionIsSeq
<1>3. \A i \in 1..Len(e) : e[i] = i
  BY <1>2
<1> HIDE DEF e
<1>4. Enumerates(e, 1..Len(s))
  BY <1>2, <1>3 DEF Enumerates, Increasing
<1>5. s = Listing(e, s)
  BY <1>1, <1>2, <1>3 DEF Listing
<1> QED
  BY <1>4, <1>5 DEF Lists

LEMMA ListsConcat ==
    ASSUME NEW x, NEW y, NEW I, NEW J, NEW f, Lists(x, I, f), Lists(y, J, f), \A i \in I, j \in J : i < j,
           NEW T, \A i \in I \cup J : f[i] \in T
    PROVE  Lists(x \o y, I \cup J, f)
<1>1. PICK e : Enumerates(e, I) /\ x = Listing(e, f) /\ x = [j \in 1..Len(e) |-> f[e[j]]]
  BY ListingIs
<1>2. PICK d : Enumerates(d, J) /\ y = Listing(d, f) /\ y = [j \in 1..Len(d) |-> f[d[j]]]
  BY ListingIs
<1> DEFINE g == e \o d
<1>3. Enumerates(g, I \cup J)
  BY <1>1, <1>2, EnumConcat
<1>4. e \in Seq(Nat) /\ d \in Seq(Nat) /\ Len(e) \in Nat /\ Len(d) \in Nat
  BY <1>1, <1>2 DEF Enumerates
<1>5. /\ Len(g) = Len(e) + Len(d)
      /\ \A i \in 1..Len(g) : g[i] = IF i <= Len(e) THEN e[i] ELSE d[i - Len(e)]
  BY <1>4, ConcatProperties
<1>6. x \in Seq(T) /\ y \in Seq(T) /\ Len(x) = Len(e) /\ Len(y) = Len(d)
  <2>0. (\A i \in 1..Len(e) : e[i] \in I) /\ (\A i \in 1..Len(d) : d[i] \in J)
    <3>1. \A i \in 1..Len(e) : e[i] \in I
      BY ONLY <1>1, EnumFacts
    <3>2. \A i \in 1..Len(d) : d[i] \in J
      BY ONLY <1>2, EnumFacts
    <3> QED
      BY <3>1, <3>2
  <2>1. x \in [1..Len(e) -> T] /\ y \in [1..Len(d) -> T]
    BY <1>1, <1>2, <2>0
  <2> QED
    BY <1>4, <2>1, FunctionIsSeq
<1> HIDE DEF g
<1>7. x \o y = Listing(g, f)
  <2>1. /\ x \o y \in Seq(T) /\ Len(x \o y) = Len(g)
        /\ \A i \in 1..Len(g) : (x \o y)[i] = IF i <= Len(e) THEN x[i] ELSE y[i - Len(e)]
    BY <1>5, <1>6, ConcatProperties
  <2>2. x \o y = [i \in 1..Len(g) |-> (x \o y)[i]]
    BY <2>1, LenProperties
  <2>3. ASSUME NEW i \in 1..Len(g) PROVE (x \o y)[i] = f[g[i]]
    <3>1. CASE i <= Len(e)
      <4>1. i \in 1..Len(e)
        BY <1>4, <1>5, <3>1
      <4> QED
        BY <1>1, <1>5, <2>1, <3>1, <4>1
    <3>2. CASE ~ (i <= Len(e))
      <4>1. i - Len(e) \in 1..Len(d)
        BY <1>4, <1>5, <3>2
      <4> QED
        BY <1>2, <1>5, <2>1, <3>2, <4>1
    <3> QED
      BY <3>1, <3>2
  <2> QED
    BY <2>2, <2>3 DEF Listing
<1> QED
  BY <1>3, <1>7 DEF Lists

\* Filtering a listing lists what is at fewer places.
LEMMA ListsFiltered ==
    ASSUME NEW x, NEW I, NEW f, Lists(x, I, f), NEW S
    PROVE  Lists(Filtered(x, S), {i \in I : f[i] \in S}, f)
<1>1. PICK e : Enumerates(e, I) /\ x = Listing(e, f) /\ x = [j \in 1..Len(e) |-> f[e[j]]]
  BY ListingIs
<1> DEFINE T == {f[i] : i \in I}
           D == Positions(x, S)
<1>2. /\ Len(e) \in Nat
      /\ \A i \in 1..Len(e) : e[i] \in I /\ e[i] \in Nat
      /\ \A y \in I : \E i \in 1..Len(e) : e[i] = y
  BY ONLY <1>1, EnumFacts
<1>3. x \in Seq(T) /\ Len(x) = Len(e)
  <2>1. x \in [1..Len(e) -> T]
    BY <1>1, <1>2
  <2> HIDE DEF T
  <2> QED
    BY <1>2, <2>1, FunctionIsSeq
<1> HIDE DEF T
<1>4. PICK d : Enumerates(d, D) /\ Filtered(x, S) = Listing(d, x)
  BY <1>3, FilteredIs
<1> DEFINE g == Listing(d, e)
<1>5. D \subseteq 1..Len(e)
  BY <1>3 DEF Positions
<1>6. Enumerates(g, Image(e, D)) /\ Len(g) = Len(d)
  BY <1>1, <1>4, <1>5, EnumCompose
<1>7. Image(e, D) = {i \in I : f[i] \in S}
  <2>1. \A i \in 1..Len(e) : x[i] = f[e[i]]
    BY <1>1
  <2> QED
    BY <1>2, <1>3, <2>1 DEF Image, Positions
<1>8. \A j \in 1..Len(d) : d[j] \in 1..Len(e)
  <2>1. \A j \in 1..Len(d) : d[j] \in D
    BY ONLY <1>4, EnumFacts
  <2> QED
    BY <1>5, <2>1
<1>9. Filtered(x, S) = Listing(g, f)
  <2>1. \A j \in 1..Len(d) : x[d[j]] = f[e[d[j]]]
    BY <1>1, <1>8
  <2>2. \A j \in 1..Len(d) : g[j] = e[d[j]]
    BY DEF Listing
  <2> HIDE DEF g
  <2> QED
    BY <1>4, <1>6, <2>1, <2>2 DEF Listing
<1> QED
  BY <1>6, <1>7, <1>9 DEF Lists
=============================================================================
