-------------------------- MODULE TableSpaceProofs --------------------------
(***************************************************************************)
(* Proofs about TableSpace, for every set of calls and answers and every   *)
(* budget.  Each private method gets a lemma saying that it keeps the      *)
(* store sound; the step theorem then has one case per operation.          *)
(***************************************************************************)
EXTENDS TableSpace, SequenceFunctionsProofs, SequenceTheorems, FiniteSetTheorems

\* What a step relies on in the sequences of entries: both charges are naturals.
Charged(e) == e.answerCount \in Nat /\ e.approxCells \in Nat

\* A sequence that starts like a and goes on like b is their concatenation.
LEMMA ConcatIs ==
    ASSUME NEW E, NEW a \in Seq(E), NEW b \in Seq(E), NEW c \in Seq(E),
           Len(c) = Len(a) + Len(b),
           \A i \in 1..Len(a) : c[i] = a[i],
           \A i \in 1..Len(b) : c[Len(a) + i] = b[i]
    PROVE  c = a \o b
<1>1. Len(a) \in Nat /\ Len(b) \in Nat
  OBVIOUS
<1>2. a \o b \in Seq(E) /\ Len(a \o b) = Len(c)
  OBVIOUS
<1>3. ASSUME NEW i \in 1..Len(c)
      PROVE  c[i] = (a \o b)[i]
  <2>1. CASE i <= Len(a)
    <3>1. (a \o b)[i] = a[i] /\ i \in 1..Len(a)
      BY <1>1, <2>1
    <3> QED
      BY <3>1
  <2>2. CASE i > Len(a)
    <3>1. (a \o b)[i] = b[i - Len(a)] /\ i - Len(a) \in 1..Len(b) /\ Len(a) + (i - Len(a)) = i
      BY <1>1, <2>2
    <3> QED
      BY <3>1
  <2> QED
    BY <1>1, <2>1, <2>2
<1> QED
  BY <1>2, <1>3, SeqEqual

\* Sums over entries: empty, one entry, concatenation.
LEMMA SumsOfEntries ==
    ASSUME NEW E, \A e \in E : Charged(e)
    PROVE  /\ AnswersIn(<<>>) = 0 /\ CellsIn(<<>>) = 0
           /\ \A e \in E : AnswersIn(<<e>>) = e.answerCount /\ CellsIn(<<e>>) = e.approxCells
           /\ \A s \in Seq(E) : AnswersIn(s) \in Nat /\ CellsIn(s) \in Nat
           /\ \A s, r \in Seq(E) : /\ AnswersIn(s \o r) = AnswersIn(s) + AnswersIn(r)
                                   /\ CellsIn(s \o r) = CellsIn(s) + CellsIn(r)
<1> DEFINE A(s) == [i \in DOMAIN s |-> s[i].answerCount]
           C(s) == [i \in DOMAIN s |-> s[i].approxCells]
<1>1. A(<<>>) = <<>> /\ C(<<>>) = <<>>
  OBVIOUS
<1>2. \A e \in E : A(<<e>>) = <<e.answerCount>> /\ C(<<e>>) = <<e.approxCells>>
  OBVIOUS
<1>3. ASSUME NEW s \in Seq(E)
      PROVE  /\ A(s) \in Seq(Nat) /\ C(s) \in Seq(Nat)
             /\ Len(A(s)) = Len(s) /\ Len(C(s)) = Len(s)
  <2>1. \A i \in DOMAIN s : s[i] \in E
    OBVIOUS
  <2>2. A(s) \in [1..Len(s) -> Nat] /\ C(s) \in [1..Len(s) -> Nat]
    BY <2>1 DEF Charged
  <2> QED
    BY <2>2, SeqDef
<1>4. ASSUME NEW s \in Seq(E), NEW r \in Seq(E)
      PROVE  A(s \o r) = A(s) \o A(r) /\ C(s \o r) = C(s) \o C(r)
  <2>1. Len(s) \in Nat /\ Len(r) \in Nat /\ s \o r \in Seq(E) /\ Len(s \o r) = Len(s) + Len(r)
    OBVIOUS
  <2>2. /\ A(s) \in Seq(Nat) /\ A(r) \in Seq(Nat) /\ A(s \o r) \in Seq(Nat)
        /\ C(s) \in Seq(Nat) /\ C(r) \in Seq(Nat) /\ C(s \o r) \in Seq(Nat)
    BY <1>3, <2>1
  <2>3. \A w \in Seq(E) : Len(A(w)) = Len(w) /\ Len(C(w)) = Len(w)
    BY <1>3
  <2>4. ASSUME NEW i \in 1..Len(s)
        PROVE  A(s \o r)[i] = A(s)[i] /\ C(s \o r)[i] = C(s)[i]
    <3>1. (s \o r)[i] = s[i] /\ i \in DOMAIN (s \o r) /\ i \in DOMAIN s
      BY <2>1
    <3> QED
      BY <3>1
  <2>5. ASSUME NEW i \in 1..Len(r)
        PROVE  A(s \o r)[Len(s) + i] = A(r)[i] /\ C(s \o r)[Len(s) + i] = C(r)[i]
    <3>1. (s \o r)[Len(s) + i] = r[i] /\ Len(s) + i \in DOMAIN (s \o r) /\ i \in DOMAIN r
      BY <2>1
    <3> QED
      BY <3>1
  <2>6. /\ Len(A(s)) = Len(s) /\ Len(A(r)) = Len(r) /\ Len(A(s \o r)) = Len(s) + Len(r)
        /\ Len(C(s)) = Len(s) /\ Len(C(r)) = Len(r) /\ Len(C(s \o r)) = Len(s) + Len(r)
    BY <2>1, <2>3
  <2>7. A(s \o r) = A(s) \o A(r)
    <3> DEFINE a == A(s)
               b == A(r)
               c == A(s \o r)
    <3>1. /\ a \in Seq(Nat) /\ b \in Seq(Nat) /\ c \in Seq(Nat) /\ Len(c) = Len(a) + Len(b)
          /\ \A i \in 1..Len(a) : c[i] = a[i]
          /\ \A i \in 1..Len(b) : c[Len(a) + i] = b[i]
      BY <2>2, <2>4, <2>5, <2>6
    <3> HIDE DEF a, b, c
    <3>2. c = a \o b
      BY <3>1, ConcatIs
    <3> QED
      BY <3>2 DEF a, b, c
  <2>8. C(s \o r) = C(s) \o C(r)
    <3> DEFINE a == C(s)
               b == C(r)
               c == C(s \o r)
    <3>1. /\ a \in Seq(Nat) /\ b \in Seq(Nat) /\ c \in Seq(Nat) /\ Len(c) = Len(a) + Len(b)
          /\ \A i \in 1..Len(a) : c[i] = a[i]
          /\ \A i \in 1..Len(b) : c[Len(a) + i] = b[i]
      BY <2>2, <2>4, <2>5, <2>6
    <3> HIDE DEF a, b, c
    <3>2. c = a \o b
      BY <3>1, ConcatIs
    <3> QED
      BY <3>2 DEF a, b, c
  <2> QED
    BY <2>7, <2>8
<1> HIDE DEF A, C
<1>5. \A s : AnswersIn(s) = Total(A(s)) /\ CellsIn(s) = Total(C(s))
  BY DEF AnswersIn, CellsIn, A, C
<1>6. \A e \in E : e.answerCount \in Nat /\ e.approxCells \in Nat
  BY DEF Charged
<1>7. \A s, r \in Seq(E) : /\ AnswersIn(s \o r) = AnswersIn(s) + AnswersIn(r)
                           /\ CellsIn(s \o r) = CellsIn(s) + CellsIn(r)
  BY <1>3, <1>4, <1>5, TotalConcat
<1>8. \A s \in Seq(E) : AnswersIn(s) \in Nat /\ CellsIn(s) \in Nat
  BY <1>3, <1>5, TotalType
<1>9. \A e \in E : AnswersIn(<<e>>) = e.answerCount /\ CellsIn(<<e>>) = e.approxCells
  BY <1>2, <1>5, <1>6, TotalSingleton
<1>10. AnswersIn(<<>>) = 0 /\ CellsIn(<<>>) = 0
  BY <1>1, <1>5, TotalEmpty
<1> QED
  BY <1>7, <1>8, <1>9, <1>10

\* Taking the entry at i out of a list.
LEMMA WithoutEntry ==
    ASSUME NEW E, NEW s \in Seq(E), NEW i \in DOMAIN s
    PROVE  /\ Without(s, i) \in Seq(E) /\ Len(Without(s, i)) = Len(s) - 1
           /\ \A j \in 1..(Len(s) - 1) :
                  Without(s, i)[j] = IF j < i THEN s[j] ELSE s[j + 1]
           /\ s = SubSeq(s, 1, i - 1) \o (<<s[i]>> \o SubSeq(s, i + 1, Len(s)))
           /\ SubSeq(s, 1, i - 1) \in Seq(E) /\ SubSeq(s, i + 1, Len(s)) \in Seq(E)
<1>1. i \in 1..Len(s) /\ Len(s) \in Nat /\ s[i] \in E
  OBVIOUS
<1>2. /\ SubSeq(s, 1, i - 1) \in Seq(E) /\ Len(SubSeq(s, 1, i - 1)) = i - 1
      /\ \A j \in 1..(i - 1) : SubSeq(s, 1, i - 1)[j] = s[j]
  BY <1>1
<1>3. /\ SubSeq(s, i + 1, Len(s)) \in Seq(E) /\ Len(SubSeq(s, i + 1, Len(s))) = Len(s) - i
      /\ \A j \in 1..(Len(s) - i) : SubSeq(s, i + 1, Len(s))[j] = s[i + j]
  BY <1>1
<1>4. /\ Without(s, i) \in Seq(E) /\ Len(Without(s, i)) = Len(s) - 1
      /\ \A j \in 1..(Len(s) - 1) :
             Without(s, i)[j] = IF j < i THEN s[j] ELSE s[j + 1]
  <2>1. /\ Without(s, i) \in Seq(E) /\ Len(Without(s, i)) = (i - 1) + (Len(s) - i)
        /\ \A j \in 1..(Len(s) - 1) :
               Without(s, i)[j] = IF j <= i - 1 THEN SubSeq(s, 1, i - 1)[j]
                                  ELSE SubSeq(s, i + 1, Len(s))[j - (i - 1)]
    BY <1>1, <1>2, <1>3 DEF Without
  <2>2. ASSUME NEW j \in 1..(Len(s) - 1)
        PROVE  Without(s, i)[j] = IF j < i THEN s[j] ELSE s[j + 1]
    <3>1. CASE j < i
      <4>1. j \in 1..(i - 1) /\ j <= i - 1
        BY <1>1, <3>1
      <4> QED
        BY <1>2, <2>1, <3>1, <4>1
    <3>2. CASE ~ (j < i)
      <4>1. /\ j - (i - 1) \in 1..(Len(s) - i) /\ ~ (j <= i - 1)
            /\ i + (j - (i - 1)) = j + 1
        BY <1>1, <3>2
      <4> QED
        BY <1>3, <2>1, <3>2, <4>1
    <3> QED
      BY <3>1, <3>2
  <2> QED
    BY <1>1, <2>1, <2>2
<1>5. s = SubSeq(s, 1, i - 1) \o (<<s[i]>> \o SubSeq(s, i + 1, Len(s)))
  <2> DEFINE p == SubSeq(s, 1, i - 1)
             q == SubSeq(s, i + 1, Len(s))
             u == <<s[i]>> \o q
  <2>1. /\ p \in Seq(E) /\ Len(p) = i - 1 /\ \A j \in 1..(i - 1) : p[j] = s[j]
        /\ q \in Seq(E) /\ Len(q) = Len(s) - i /\ \A j \in 1..(Len(s) - i) : q[j] = s[i + j]
    BY <1>2, <1>3
  <2> HIDE DEF p, q
  <2>2. <<s[i]>> \in Seq(E) /\ Len(<<s[i]>>) = 1 /\ <<s[i]>>[1] = s[i]
    BY <1>1
  <2>3. /\ u \in Seq(E) /\ Len(u) = 1 + Len(q)
        /\ u[1] = s[i] /\ \A j \in 1..Len(q) : u[j + 1] = q[j]
    BY <2>1, <2>2
  <2> HIDE DEF u
  <2>4. ASSUME NEW j \in 1..Len(u)
        PROVE  s[Len(p) + j] = u[j]
    <3>1. CASE j = 1
      BY <1>1, <2>1, <2>3, <3>1
    <3>2. CASE j # 1
      <4>1. j - 1 \in 1..Len(q) /\ (j - 1) + 1 = j /\ i + (j - 1) = Len(p) + j
        BY <1>1, <2>1, <2>3, <3>2
      <4>2. u[(j - 1) + 1] = q[j - 1] /\ q[j - 1] = s[i + (j - 1)]
        BY <2>1, <2>3, <4>1
      <4> QED
        BY <4>1, <4>2
    <3> QED
      BY <3>1, <3>2
  <2>5. Len(s) = Len(p) + Len(u)
    <3>1. Len(p) = i - 1 /\ Len(q) = Len(s) - i /\ Len(u) = 1 + Len(q)
      BY <2>1, <2>3
    <3>2. Len(s) = (i - 1) + (1 + (Len(s) - i))
      BY <1>1
    <3>3. Len(p) + Len(u) = (i - 1) + (1 + (Len(s) - i))
      BY <3>1
    <3> QED
      BY <3>2, <3>3
  <2>6. \A j \in 1..Len(p) : s[j] = p[j]
    BY <1>1, <2>1
  <2>7. s = p \o u
    BY <2>1, <2>3, <2>4, <2>5, <2>6, ConcatIs
  <2> QED
    BY <2>7 DEF p, q, u
<1> QED
  BY <1>2, <1>3, <1>4, <1>5

\* Taking an entry out of a list takes its charges out of the sums.
LEMMA WithoutSums ==
    ASSUME NEW E, \A e \in E : Charged(e), NEW s \in Seq(E), NEW i \in DOMAIN s
    PROVE  /\ AnswersIn(Without(s, i)) = AnswersIn(s) - s[i].answerCount
           /\ CellsIn(Without(s, i)) = CellsIn(s) - s[i].approxCells
<1> DEFINE p == SubSeq(s, 1, i - 1)
           q == SubSeq(s, i + 1, Len(s))
<1>1. p \in Seq(E) /\ q \in Seq(E) /\ s[i] \in E /\ <<s[i]>> \in Seq(E)
      /\ s = p \o (<<s[i]>> \o q) /\ <<s[i]>> \o q \in Seq(E)
  <2>1. p \in Seq(E) /\ q \in Seq(E) /\ s = p \o (<<s[i]>> \o q)
    BY WithoutEntry
  <2>2. s[i] \in E
    OBVIOUS
  <2> HIDE DEF p, q
  <2> QED
    BY <2>1, <2>2
<1>2. Without(s, i) = p \o q
  BY DEF Without
<1> HIDE DEF p, q
<1>3. /\ AnswersIn(s) = AnswersIn(p) + (AnswersIn(<<s[i]>>) + AnswersIn(q))
      /\ CellsIn(s) = CellsIn(p) + (CellsIn(<<s[i]>>) + CellsIn(q))
  <2>1. /\ AnswersIn(<<s[i]>> \o q) = AnswersIn(<<s[i]>>) + AnswersIn(q)
        /\ CellsIn(<<s[i]>> \o q) = CellsIn(<<s[i]>>) + CellsIn(q)
    BY <1>1, SumsOfEntries
  <2>2. /\ AnswersIn(p \o (<<s[i]>> \o q)) = AnswersIn(p) + AnswersIn(<<s[i]>> \o q)
        /\ CellsIn(p \o (<<s[i]>> \o q)) = CellsIn(p) + CellsIn(<<s[i]>> \o q)
    BY <1>1, SumsOfEntries
  <2> QED
    BY <1>1, <2>1, <2>2
<1>4. /\ AnswersIn(Without(s, i)) = AnswersIn(p) + AnswersIn(q)
      /\ CellsIn(Without(s, i)) = CellsIn(p) + CellsIn(q)
  BY <1>1, <1>2, SumsOfEntries
<1>5. /\ AnswersIn(<<s[i]>>) = s[i].answerCount /\ CellsIn(<<s[i]>>) = s[i].approxCells
      /\ AnswersIn(p) \in Nat /\ AnswersIn(q) \in Nat /\ CellsIn(p) \in Nat /\ CellsIn(q) \in Nat
      /\ s[i].answerCount \in Nat /\ s[i].approxCells \in Nat
  BY <1>1, SumsOfEntries DEF Charged
<1> QED
  BY <1>3, <1>4, <1>5

-----------------------------------------------------------------------------
(* Lists of tables: one table per variant, every key decodable.            *)

ListOK(s, leaves, gen) ==
    /\ \A i, j \in DOMAIN s : s[i].key = s[j].key => i = j
    /\ \A i \in DOMAIN s : s[i].key.gen = gen /\ CallLeaves[s[i].key.call] \subseteq leaves

LEMMA WithoutOK ==
    ASSUME NEW E, NEW s \in Seq(E), NEW i \in DOMAIN s, NEW leaves, NEW gen,
           ListOK(s, leaves, gen)
    PROVE  /\ ListOK(Without(s, i), leaves, gen)
           /\ \A j \in DOMAIN Without(s, i) : Without(s, i)[j].key # s[i].key
<1> DEFINE w == Without(s, i)
           at(j) == IF j < i THEN j ELSE j + 1
<1>1. i \in 1..Len(s) /\ Len(s) \in Nat /\ DOMAIN s = 1..Len(s)
  OBVIOUS
<1>2. /\ w \in Seq(E) /\ Len(w) = Len(s) - 1
      /\ \A j \in 1..(Len(s) - 1) : w[j] = IF j < i THEN s[j] ELSE s[j + 1]
  BY WithoutEntry
<1> HIDE DEF w
<1>3. DOMAIN w = 1..(Len(s) - 1)
  BY <1>1, <1>2
<1>4. \A j \in DOMAIN w : at(j) \in DOMAIN s /\ at(j) # i /\ w[j] = s[at(j)]
  BY <1>1, <1>2, <1>3
<1>5. \A j, k \in DOMAIN w : at(j) = at(k) => j = k
  BY <1>1, <1>3
<1> HIDE DEF at
<1>6. /\ \A j \in DOMAIN w : w[j].key # s[i].key
      /\ ListOK(w, leaves, gen)
  BY <1>4, <1>5 DEF ListOK
<1> QED
  BY <1>6 DEF w

LEMMA HeadOK ==
    ASSUME NEW E, NEW s \in Seq(E), NEW e \in E, NEW leaves, NEW gen,
           ListOK(s, leaves, gen), \A i \in DOMAIN s : s[i].key # e.key,
           e.key.gen = gen, CallLeaves[e.key.call] \subseteq leaves
    PROVE  <<e>> \o s \in Seq(E) /\ ListOK(<<e>> \o s, leaves, gen)
<1> DEFINE w == <<e>> \o s
<1>1. /\ w \in Seq(E) /\ Len(w) = Len(s) + 1 /\ DOMAIN w = 1..(Len(s) + 1)
      /\ DOMAIN s = 1..Len(s) /\ Len(s) \in Nat
      /\ \A i \in DOMAIN w : w[i] = IF i = 1 THEN e ELSE s[i - 1]
  OBVIOUS
<1> HIDE DEF w
<1>2. \A i \in DOMAIN w : i # 1 => i - 1 \in DOMAIN s /\ w[i] = s[i - 1]
  BY <1>1
<1>3. \A i, j \in DOMAIN w : i # 1 /\ j # 1 /\ i - 1 = j - 1 => i = j
  BY <1>1
<1>4. 1 \in DOMAIN w /\ w[1] = e
  BY <1>1
<1>5. ASSUME NEW i \in DOMAIN w, NEW j \in DOMAIN w, w[i].key = w[j].key
      PROVE  i = j
  <2>1. CASE i = 1 \/ j = 1
    BY <1>2, <1>4, <1>5, <2>1
  <2>2. CASE i # 1 /\ j # 1
    BY <1>2, <1>3, <1>5, <2>2 DEF ListOK
  <2> QED
    BY <2>1, <2>2
<1>6. \A i \in DOMAIN w : w[i].key.gen = gen /\ CallLeaves[w[i].key.call] \subseteq leaves
  BY <1>2, <1>4 DEF ListOK
<1>7. ListOK(w, leaves, gen)
  BY <1>5, <1>6 DEF ListOK
<1> QED
  BY <1>1, <1>7 DEF w

LEMMA LastOK ==
    ASSUME NEW E, NEW s \in Seq(E), NEW e \in E, NEW leaves, NEW gen,
           ListOK(s, leaves, gen), \A i \in DOMAIN s : s[i].key # e.key,
           e.key.gen = gen, CallLeaves[e.key.call] \subseteq leaves
    PROVE  Append(s, e) \in Seq(E) /\ ListOK(Append(s, e), leaves, gen)
<1> DEFINE w == Append(s, e)
           last == Len(s) + 1
<1>1. /\ w \in Seq(E) /\ Len(w) = last /\ DOMAIN w = 1..last
      /\ DOMAIN s = 1..Len(s) /\ Len(s) \in Nat
      /\ \A i \in DOMAIN w : w[i] = IF i = last THEN e ELSE s[i]
  OBVIOUS
<1> HIDE DEF w
<1>2. \A i \in DOMAIN w : i # last => i \in DOMAIN s /\ w[i] = s[i]
  BY <1>1
<1>3. last \in DOMAIN w /\ w[last] = e
  BY <1>1
<1> HIDE DEF last
<1>4. ListOK(w, leaves, gen)
  BY <1>2, <1>3 DEF ListOK
<1> QED
  BY <1>1, <1>4 DEF w

LEMMA FirstOK ==
    ASSUME NEW E, NEW s \in Seq(E), NEW n \in 0..Len(s), NEW leaves, NEW gen,
           ListOK(s, leaves, gen)
    PROVE  /\ SubSeq(s, 1, n) \in Seq(E) /\ Len(SubSeq(s, 1, n)) = n
           /\ ListOK(SubSeq(s, 1, n), leaves, gen)
           /\ SubSeq(s, n + 1, Len(s)) \in Seq(E)
           /\ Len(SubSeq(s, n + 1, Len(s))) = Len(s) - n
           /\ s = SubSeq(s, 1, n) \o SubSeq(s, n + 1, Len(s))
<1> DEFINE p == SubSeq(s, 1, n)
           q == SubSeq(s, n + 1, Len(s))
<1>1. n \in Nat /\ Len(s) \in Nat /\ n <= Len(s) /\ DOMAIN s = 1..Len(s)
  OBVIOUS
<1>2. /\ p \in Seq(E) /\ Len(p) = n /\ DOMAIN p = 1..n /\ \A i \in 1..n : p[i] = s[i]
  BY <1>1
<1>3. /\ q \in Seq(E) /\ Len(q) = Len(s) - n /\ \A i \in 1..(Len(s) - n) : q[i] = s[n + i]
  <2>1. CASE n = Len(s)
    <3>1. q = <<>>
      BY <1>1, <2>1
    <3> QED
      BY <1>1, <2>1, <3>1
  <2>2. CASE n < Len(s)
    <3>1. n + 1 \in 1..Len(s)
      BY <1>1, <2>2
    <3>2. \A j \in 1..Len(s) :
             /\ SubSeq(s, j, Len(s)) \in Seq(E) /\ Len(SubSeq(s, j, Len(s))) = Len(s) - j + 1
             /\ \A i \in 1..(Len(s) - j + 1) : SubSeq(s, j, Len(s))[i] = s[j + i - 1]
      BY <1>1
    <3> QED
      BY <1>1, <3>1, <3>2
  <2>3. n = Len(s) \/ n < Len(s)
    OBVIOUS
  <2> HIDE DEF q
  <2> QED
    BY <2>1, <2>2, <2>3
<1> HIDE DEF p, q
<1>4. \A i \in DOMAIN p : i \in DOMAIN s /\ p[i] = s[i]
  BY <1>1, <1>2
<1>5. ListOK(p, leaves, gen)
  BY <1>4 DEF ListOK
<1>6. s = p \o q
  <2>1. Len(s) = Len(p) + Len(q)
    BY <1>1, <1>2, <1>3
  <2>2. /\ \A i \in 1..Len(p) : s[i] = p[i]
        /\ \A i \in 1..Len(q) : s[Len(p) + i] = q[i]
    BY <1>1, <1>2, <1>3
  <2> QED
    BY <1>2, <1>3, <2>1, <2>2, ConcatIs
<1> QED
  BY <1>2, <1>3, <1>5, <1>6 DEF p, q

-----------------------------------------------------------------------------
(* The store: what every method keeps.                                     *)

Sound(t) ==
    /\ t \in Store
    /\ /\ t.entries = Len(t.completed)
       /\ t.answers = AnswersIn(t.completed)
       /\ t.cells = CellsIn(t.completed)
    /\ /\ t.activeCount = Len(t.active)
       /\ t.activeAnswers = AnswersIn(t.active)
       /\ t.activeCells = CellsIn(t.active)
    /\ ListOK(t.completed, t.interned, t.generation)
    /\ ListOK(t.active, t.interned, t.generation)

\* The limits hold for the active tables alone.
ActiveFits(t) ==
    /\ t.activeCount <= MaxCompletedEntries
    /\ t.activeAnswers <= MaxCompletedAnswers
    /\ t.activeCells <= MaxApproxCells

\* Two stores that differ in their completed tables at most.
SameActive(t, u) ==
    /\ u.interned = t.interned /\ u.generation = t.generation
    /\ u.active = t.active /\ u.activeCount = t.activeCount
    /\ u.activeAnswers = t.activeAnswers /\ u.activeCells = t.activeCells

LEMMA EntriesCharged ==
    /\ \A e \in CompletedEntry : Charged(e)
    /\ \A e \in ActiveEntry : Charged(e)
BY DEF CompletedEntry, ActiveEntry, Charged

LEMMA SumsType ==
    /\ \A s \in Seq(CompletedEntry) : AnswersIn(s) \in Nat /\ CellsIn(s) \in Nat
    /\ \A s \in Seq(ActiveEntry) : AnswersIn(s) \in Nat /\ CellsIn(s) \in Nat
BY EntriesCharged, SumsOfEntries

\* A store whose completed tables are replaced by a sound list, counted, is sound.
LEMMA NewCompletedSound ==
    ASSUME NEW t, Sound(t), NEW u, NEW s \in Seq(CompletedEntry),
           ListOK(s, t.interned, t.generation),
           u = [t EXCEPT !.completed = s, !.entries = Len(s),
                         !.answers = AnswersIn(s), !.cells = CellsIn(s)]
    PROVE  Sound(u) /\ SameActive(t, u) /\ u.completed = s
<1>1. /\ Len(s) \in Nat /\ AnswersIn(s) \in Nat /\ CellsIn(s) \in Nat
  BY SumsType
<1>2. t \in Store
  BY DEF Sound
<1>3. u \in Store
  BY <1>1, <1>2 DEF Store
<1>4. /\ u.completed = s /\ u.entries = Len(s)
      /\ u.answers = AnswersIn(s) /\ u.cells = CellsIn(s)
  BY <1>2 DEF Store
<1>5. SameActive(t, u)
  BY <1>2 DEF Store, SameActive
<1>6. Sound(u)
  BY <1>3, <1>4, <1>5 DEF Sound, SameActive
<1> QED
  BY <1>4, <1>5, <1>6

LEMMA EmptyTableSound ==
    ASSUME NEW gen \in Nat
    PROVE  /\ Sound(EmptyTable(gen)) /\ Fits(EmptyTable(gen), 0, 0, 0)
           /\ ~ OverLimit({})
<1> DEFINE t == EmptyTable(gen)
<1>1. /\ t.interned = {} /\ t.generation = gen /\ t.completed = <<>> /\ t.active = <<>>
      /\ t.entries = 0 /\ t.answers = 0 /\ t.cells = 0
      /\ t.activeCount = 0 /\ t.activeAnswers = 0 /\ t.activeCells = 0
  BY DEF EmptyTable
<1>2. t \in Store
  BY DEF EmptyTable, Store
<1> HIDE DEF t
<1>3. AnswersIn(<<>>) = 0 /\ CellsIn(<<>>) = 0
  BY EntriesCharged, SumsOfEntries
<1>4. ListOK(<<>>, {}, gen)
  BY DEF ListOK
<1>5. Sound(t)
  BY <1>1, <1>2, <1>3, <1>4 DEF Sound
<1>6. Fits(t, 0, 0, 0)
  BY <1>1, BudgetAssumption DEF Fits
<1>7. ~ OverLimit({})
  BY FS_EmptySet, BudgetAssumption DEF OverLimit
<1> QED
  BY <1>5, <1>6, <1>7 DEF t

LEMMA RemoveSound ==
    ASSUME NEW t, Sound(t), NEW i \in DOMAIN t.completed
    PROVE  /\ Sound(Remove(t, i)) /\ SameActive(t, Remove(t, i))
           /\ Remove(t, i).completed = Without(t.completed, i)
           /\ \A j \in DOMAIN Remove(t, i).completed :
                  Remove(t, i).completed[j].key # t.completed[i].key
<1> DEFINE s == t.completed
           w == Without(s, i)
<1>1. t \in Store /\ s \in Seq(CompletedEntry) /\ ListOK(s, t.interned, t.generation)
  BY DEF Sound, Store
<1>2. /\ w \in Seq(CompletedEntry) /\ Len(w) = t.entries - 1
      /\ AnswersIn(w) = t.answers - s[i].answerCount
      /\ CellsIn(w) = t.cells - s[i].approxCells
  BY <1>1, EntriesCharged, WithoutEntry, WithoutSums DEF Sound
<1>3. /\ ListOK(w, t.interned, t.generation)
      /\ \A j \in DOMAIN w : w[j].key # s[i].key
  BY <1>1, WithoutOK
<1>4. Remove(t, i) = [t EXCEPT !.completed = w, !.entries = Len(w),
                              !.answers = AnswersIn(w), !.cells = CellsIn(w)]
  BY <1>2 DEF Remove
<1> HIDE DEF s, w
<1>5. Sound(Remove(t, i)) /\ SameActive(t, Remove(t, i)) /\ Remove(t, i).completed = w
  BY <1>2, <1>3, <1>4, NewCompletedSound
<1> QED
  BY <1>3, <1>5 DEF s, w

LEMMA InsertHeadSound ==
    ASSUME NEW t, Sound(t), NEW e \in CompletedEntry,
           \A j \in DOMAIN t.completed : t.completed[j].key # e.key,
           e.key.gen = t.generation, CallLeaves[e.key.call] \subseteq t.interned
    PROVE  /\ Sound(InsertHead(t, e)) /\ SameActive(t, InsertHead(t, e))
           /\ InsertHead(t, e).completed = <<e>> \o t.completed
<1> DEFINE s == t.completed
           w == <<e>> \o s
<1>1. t \in Store /\ s \in Seq(CompletedEntry) /\ ListOK(s, t.interned, t.generation)
  BY DEF Sound, Store
<1>2. w \in Seq(CompletedEntry) /\ ListOK(w, t.interned, t.generation)
  BY <1>1, HeadOK
<1>3. /\ Len(w) = t.entries + 1
      /\ AnswersIn(w) = t.answers + e.answerCount
      /\ CellsIn(w) = t.cells + e.approxCells
  <2>1. <<e>> \in Seq(CompletedEntry) /\ Len(w) = 1 + Len(s)
    BY <1>1
  <2>2. /\ AnswersIn(w) = AnswersIn(<<e>>) + AnswersIn(s)
        /\ CellsIn(w) = CellsIn(<<e>>) + CellsIn(s)
        /\ AnswersIn(<<e>>) = e.answerCount /\ CellsIn(<<e>>) = e.approxCells
    BY <1>1, <2>1, EntriesCharged, SumsOfEntries
  <2>3. /\ AnswersIn(s) \in Nat /\ CellsIn(s) \in Nat /\ Len(s) \in Nat
        /\ e.answerCount \in Nat /\ e.approxCells \in Nat
    BY <1>1, SumsType, EntriesCharged DEF Charged
  <2>4. t.entries = Len(s) /\ t.answers = AnswersIn(s) /\ t.cells = CellsIn(s)
    BY DEF Sound
  <2> HIDE DEF s, w
  <2> QED
    BY <2>1, <2>2, <2>3, <2>4
<1>4. InsertHead(t, e) = [t EXCEPT !.completed = w, !.entries = Len(w),
                                  !.answers = AnswersIn(w), !.cells = CellsIn(w)]
  BY <1>3 DEF InsertHead
<1> HIDE DEF w
<1>5. Sound(InsertHead(t, e)) /\ SameActive(t, InsertHead(t, e)) /\ InsertHead(t, e).completed = w
  BY <1>2, <1>4, NewCompletedSound
<1> QED
  BY <1>5 DEF w

LEMMA TouchSound ==
    ASSUME NEW t, Sound(t), NEW i \in DOMAIN t.completed
    PROVE  /\ Sound(Touch(t, i)) /\ SameActive(t, Touch(t, i))
           /\ Touch(t, i).entries = t.entries /\ Touch(t, i).answers = t.answers
           /\ Touch(t, i).cells = t.cells
<1> DEFINE s == t.completed
           e == s[i]
           r == Remove(t, i)
           u == InsertHead(r, e)
<1>1. t \in Store /\ s \in Seq(CompletedEntry) /\ e \in CompletedEntry
  BY DEF Sound, Store
<1>2. Sound(r) /\ SameActive(t, r) /\ \A j \in DOMAIN r.completed : r.completed[j].key # e.key
  BY RemoveSound
<1>3. e.key.gen = r.generation /\ CallLeaves[e.key.call] \subseteq r.interned
  BY <1>2 DEF Sound, ListOK, SameActive
<1>4. Sound(u) /\ SameActive(r, u)
  <2> HIDE DEF r, e
  <2> QED
    BY <1>1, <1>2, <1>3, InsertHeadSound
<1>5. /\ t.entries \in Nat /\ t.answers \in Nat /\ t.cells \in Nat
      /\ e.answerCount \in Nat /\ e.approxCells \in Nat
  BY <1>1 DEF Store, CompletedEntry
<1>6. /\ (t.entries - 1) + 1 = t.entries
      /\ (t.answers - e.answerCount) + e.answerCount = t.answers
      /\ (t.cells - e.approxCells) + e.approxCells = t.cells
  <2> HIDE DEF e
  <2> QED
    BY <1>5
<1>7. u = Touch(t, i)
  BY <1>1, <1>6 DEF Store, Remove, InsertHead, Touch
<1>8. SameActive(t, u)
  BY <1>2, <1>4 DEF SameActive
<1>9. /\ Touch(t, i).entries = t.entries /\ Touch(t, i).answers = t.answers
      /\ Touch(t, i).cells = t.cells
  BY <1>1 DEF Store, Touch
<1> QED
  BY <1>4, <1>7, <1>8, <1>9

LEMMA KeepFirstSound ==
    ASSUME NEW t, Sound(t), NEW n \in 0..Len(t.completed)
    PROVE  /\ Sound(KeepFirst(t, n)) /\ SameActive(t, KeepFirst(t, n))
           /\ KeepFirst(t, n).completed = SubSeq(t.completed, 1, n)
<1> DEFINE s == t.completed
           p == SubSeq(s, 1, n)
           q == SubSeq(s, n + 1, Len(s))
<1>1. t \in Store /\ s \in Seq(CompletedEntry) /\ ListOK(s, t.interned, t.generation)
  BY DEF Sound, Store
<1>2. /\ p \in Seq(CompletedEntry) /\ q \in Seq(CompletedEntry) /\ s = p \o q
      /\ ListOK(p, t.interned, t.generation)
      /\ Len(p) = n /\ Len(q) = Len(s) - n
  BY <1>1, FirstOK
<1>3. /\ Len(p) = t.entries - Len(q)
      /\ AnswersIn(p) = t.answers - AnswersIn(q)
      /\ CellsIn(p) = t.cells - CellsIn(q)
  <2>1. t.entries = Len(s) /\ t.answers = AnswersIn(s) /\ t.cells = CellsIn(s)
    BY DEF Sound
  <2>2. Len(s) \in Nat /\ n \in Nat
    BY <1>1
  <2> HIDE DEF s, p, q
  <2>3. AnswersIn(s) = AnswersIn(p) + AnswersIn(q) /\ CellsIn(s) = CellsIn(p) + CellsIn(q)
    BY <1>2, EntriesCharged, SumsOfEntries
  <2>4. /\ AnswersIn(p) \in Nat /\ CellsIn(p) \in Nat
        /\ AnswersIn(q) \in Nat /\ CellsIn(q) \in Nat
    BY <1>2, SumsType
  <2>5. Len(s) - (Len(s) - n) = n
    BY <2>2
  <2> QED
    BY <1>2, <2>1, <2>3, <2>4, <2>5
<1>4. KeepFirst(t, n) = [t EXCEPT !.completed = p, !.entries = Len(p),
                                 !.answers = AnswersIn(p), !.cells = CellsIn(p)]
  BY <1>3 DEF KeepFirst
<1> HIDE DEF p
<1>5. /\ Sound(KeepFirst(t, n)) /\ SameActive(t, KeepFirst(t, n))
      /\ KeepFirst(t, n).completed = p
  BY <1>2, <1>4, NewCompletedSound
<1> QED
  BY <1>5 DEF p

\* What is left of a sequence when its tail is dropped.
Shortened(s, p) == \E n \in 0..Len(s) : p = SubSeq(s, 1, n)

LEMMA ShortenedFacts ==
    ASSUME NEW E, NEW s \in Seq(E)
    PROVE  /\ Shortened(s, s)
           /\ \A p : Shortened(s, p) => /\ p \in Seq(E) /\ Len(p) <= Len(s)
                                       /\ \A i \in 1..Len(p) : p[i] = s[i]
           /\ \A p, q : Shortened(s, p) /\ Shortened(p, q) => Shortened(s, q)
<1>1. ASSUME NEW n \in 0..Len(s)
      PROVE  /\ SubSeq(s, 1, n) \in Seq(E) /\ Len(SubSeq(s, 1, n)) = n
             /\ \A i \in 1..n : SubSeq(s, 1, n)[i] = s[i]
  OBVIOUS
<1>2. Len(s) \in Nat
  OBVIOUS
<1>3. SubSeq(s, 1, Len(s)) = s
  <2>1. Len(s) \in 0..Len(s)
    BY <1>2
  <2> QED
    BY <1>1, <2>1, SeqEqual
<1>4. ASSUME NEW p, Shortened(s, p), NEW q, Shortened(p, q)
      PROVE  Shortened(s, q)
  <2>1. PICK n \in 0..Len(s) : p = SubSeq(s, 1, n)
    BY <1>4 DEF Shortened
  <2>2. p \in Seq(E) /\ Len(p) = n /\ \A i \in 1..n : p[i] = s[i]
    BY <1>1, <2>1
  <2>3. PICK m \in 0..n : q = SubSeq(p, 1, m)
    BY <1>4, <2>2 DEF Shortened
  <2>4. q \in Seq(E) /\ Len(q) = m /\ \A i \in 1..m : q[i] = p[i]
    BY <2>2, <2>3
  <2>5. m \in 0..Len(s) /\ \A i \in 1..m : i \in 1..n
    BY <1>2
  <2>6. q = SubSeq(s, 1, m)
    <3>1. /\ SubSeq(s, 1, m) \in Seq(E) /\ Len(SubSeq(s, 1, m)) = m
          /\ \A i \in 1..m : SubSeq(s, 1, m)[i] = s[i]
      BY <1>1, <2>5
    <3>2. \A i \in 1..m : q[i] = SubSeq(s, 1, m)[i]
      BY <2>2, <2>4, <2>5, <3>1
    <3> QED
      BY <2>4, <3>1, <3>2, SeqEqual
  <2> QED
    BY <2>5, <2>6 DEF Shortened
<1>5. Shortened(s, s)
  <2>1. Len(s) \in 0..Len(s) /\ s = SubSeq(s, 1, Len(s))
    BY <1>2, <1>3
  <2> QED
    BY ONLY <2>1 DEF Shortened
<1>6. ASSUME NEW p, Shortened(s, p)
      PROVE  /\ p \in Seq(E) /\ Len(p) <= Len(s)
             /\ \A i \in 1..Len(p) : p[i] = s[i]
  BY <1>1, <1>2, <1>6 DEF Shortened
<1> QED
  BY <1>4, <1>5, <1>6

\* The eviction loop stops with room made, or with nothing completed left.
LEMMA MakeRoomSound ==
    ASSUME NEW t, Sound(t), NEW ne \in Nat, NEW na \in Nat, NEW nc \in Nat
    PROVE  LET room == MakeRoom(t, ne, na, nc)
           IN  /\ Sound(room) /\ SameActive(t, room) /\ Shortened(t.completed, room.completed)
               /\ Fits(room, ne, na, nc) \/ room.completed = <<>>
<1> DEFINE m == Len(t.completed)
           enough(n) == n = 0 \/ Fits(KeepFirst(t, n), ne, na, nc)
           last(n) == enough(n) /\ \A k \in (n + 1)..m : ~ enough(k)
           gaps == {g \in 0..m : enough(m - g)}
           kept == CHOOSE n \in 0..m : last(n)
<1>1. m \in Nat
  BY DEF Sound, Store
<1>2. enough(0)
  OBVIOUS
<1>3. MakeRoom(t, ne, na, nc) = KeepFirst(t, kept)
  BY DEF MakeRoom
<1> HIDE DEF enough, m
<1>4. \E n \in 0..m : last(n)
  <2>1. m \in gaps
    BY <1>1, <1>2
  <2>2. PICK g \in gaps : \A h \in gaps : g <= h
    <3>1. gaps \subseteq Nat /\ gaps # {}
      BY <1>1, <2>1
    <3> HIDE DEF gaps
    <3> QED
      BY <3>1, LeastElement
  <2>3. m - g \in 0..m /\ enough(m - g) /\ g \in 0..m
    BY <1>1
  <2>4. ASSUME NEW k \in ((m - g) + 1)..m, enough(k)
        PROVE  FALSE
    <3>1. m - k \in 0..m /\ m - (m - k) = k /\ ~ (g <= m - k)
      BY <1>1, <2>3, <2>4
    <3>2. m - k \in gaps
      BY <2>4, <3>1
    <3> QED
      BY <2>2, <3>1, <3>2
  <2>5. last(m - g)
    BY <2>3, <2>4
  <2> QED
    BY <2>3, <2>5
<1>5. kept \in 0..m /\ last(kept)
  <2> HIDE DEF last
  <2> QED
    BY <1>4
<1> HIDE DEF kept
<1>6. /\ Sound(KeepFirst(t, kept)) /\ SameActive(t, KeepFirst(t, kept))
      /\ KeepFirst(t, kept).completed = SubSeq(t.completed, 1, kept)
      /\ Shortened(t.completed, KeepFirst(t, kept).completed)
  BY <1>5, KeepFirstSound DEF m, Shortened
<1>7. CASE kept = 0
  <2>1. SubSeq(t.completed, 1, 0) = <<>>
    BY DEF Sound, Store
  <2> QED
    BY <1>3, <1>6, <1>7, <2>1
<1>8. CASE kept # 0
  <2>1. Fits(KeepFirst(t, kept), ne, na, nc)
    BY <1>5, <1>8 DEF enough
  <2> QED
    BY <1>3, <1>6, <2>1
<1> QED
  BY <1>7, <1>8

\* Room made on active tables that fit by themselves is room for all tables.
LEMMA RoomFits ==
    ASSUME NEW t, Sound(t), ActiveFits(t), NEW ne \in Nat, NEW na \in Nat, NEW nc \in Nat
    PROVE  Fits(MakeRoom(t, ne, na, nc), 0, 0, 0)
<1> DEFINE room == MakeRoom(t, ne, na, nc)
<1>1. Sound(room) /\ SameActive(t, room) /\ (Fits(room, ne, na, nc) \/ room.completed = <<>>)
  BY MakeRoomSound
<1> HIDE DEF room
<1>2. /\ room.entries \in Nat /\ room.answers \in Nat /\ room.cells \in Nat
      /\ room.activeCount \in Nat /\ room.activeAnswers \in Nat /\ room.activeCells \in Nat
  BY <1>1 DEF Sound, Store
<1>3. Fits(room, ne, na, nc) => Fits(room, 0, 0, 0)
  BY <1>2, BudgetAssumption DEF Fits
<1>4. ASSUME room.completed = <<>>
      PROVE  Fits(room, 0, 0, 0)
  <2>1. room.entries = 0 /\ room.answers = 0 /\ room.cells = 0
    BY <1>1, <1>4, EntriesCharged, SumsOfEntries DEF Sound
  <2> QED
    BY <1>1, <1>2, <2>1 DEF Fits, ActiveFits, SameActive
<1> QED
  BY <1>1, <1>3, <1>4 DEF room

\* Fewer completed tables never stop a store from fitting, and a store that fits
\* has active tables that fit.
LEMMA FitsActive ==
    ASSUME NEW t, Sound(t), Fits(t, 0, 0, 0)
    PROVE  ActiveFits(t)
<1>1. /\ t.entries \in Nat /\ t.answers \in Nat /\ t.cells \in Nat
      /\ t.activeCount \in Nat /\ t.activeAnswers \in Nat /\ t.activeCells \in Nat
  BY DEF Sound, Store
<1> QED
  BY <1>1, BudgetAssumption DEF Fits, ActiveFits

\* A larger interner decodes what the smaller one did.
LEMMA GrowSound ==
    ASSUME NEW t, Sound(t), NEW more \in SUBSET Leaves
    PROVE  LET u == [t EXCEPT !.interned = @ \cup more]
           IN  /\ Sound(u) /\ u.interned = t.interned \cup more
               /\ u.generation = t.generation /\ u.activeCount = t.activeCount
               /\ u.active = t.active /\ u.completed = t.completed
               /\ ActiveFits(t) => ActiveFits(u)
               /\ Fits(t, 0, 0, 0) => Fits(u, 0, 0, 0)
<1> DEFINE u == [t EXCEPT !.interned = @ \cup more]
<1>1. t \in Store
  BY DEF Sound
<1>2. u \in Store
  BY <1>1 DEF Store
<1>3. /\ u.interned = t.interned \cup more /\ u.generation = t.generation
      /\ u.completed = t.completed /\ u.entries = t.entries
      /\ u.answers = t.answers /\ u.cells = t.cells
      /\ u.active = t.active /\ u.activeCount = t.activeCount
      /\ u.activeAnswers = t.activeAnswers /\ u.activeCells = t.activeCells
  BY <1>1 DEF Store
<1> HIDE DEF u
<1>4. \A s : ListOK(s, t.interned, t.generation) => ListOK(s, u.interned, u.generation)
  BY <1>3 DEF ListOK
<1>5. Sound(u)
  BY <1>2, <1>3, <1>4 DEF Sound
<1>6. ActiveFits(t) => ActiveFits(u)
  BY <1>3 DEF ActiveFits
<1>7. Fits(t, 0, 0, 0) => Fits(u, 0, 0, 0)
  BY <1>3 DEF Fits
<1> QED
  BY <1>3, <1>5, <1>6, <1>7 DEF u

LEMMA MaybeResetSound ==
    ASSUME NEW t, Sound(t)
    PROVE  LET u == MaybeResetInterner(t)
           IN  /\ Sound(u)
               /\ u = t \/ u = EmptyTable(t.generation + 1)
               /\ Fits(t, 0, 0, 0) => Fits(u, 0, 0, 0)
               /\ u.activeCount = 0 => ~ OverLimit(u.interned)
<1>1. t.generation + 1 \in Nat
  BY DEF Sound, Store
<1>2. /\ Sound(EmptyTable(t.generation + 1)) /\ Fits(EmptyTable(t.generation + 1), 0, 0, 0)
      /\ ~ OverLimit({})
  BY <1>1, EmptyTableSound
<1>3. EmptyTable(t.generation + 1).interned = {}
  BY DEF EmptyTable
<1>4. CASE OverLimit(t.interned) /\ t.activeCount = 0
  BY <1>2, <1>3, <1>4 DEF MaybeResetInterner, ResetInternerAndTables
<1>5. CASE ~ (OverLimit(t.interned) /\ t.activeCount = 0)
  BY <1>5 DEF MaybeResetInterner
<1> QED
  BY <1>4, <1>5

LEMMA EncodeKeySound ==
    ASSUME NEW t, Sound(t), Fits(t, 0, 0, 0), NEW c \in Calls
    PROVE  LET u == EncodeKey(t, c)
           IN  /\ Sound(u) /\ Fits(u, 0, 0, 0)
               /\ CallLeaves[c] \subseteq u.interned
               /\ u.generation >= t.generation
               /\ u.generation = t.generation => t.interned \subseteq u.interned
               /\ u.completed = IF u.generation = t.generation THEN t.completed ELSE <<>>
               /\ u.activeCount = 0 => ~ OverLimit(u.interned)
<1> DEFINE first == MaybeResetInterner(t)
           grown == [first EXCEPT !.interned = @ \cup CallLeaves[c]]
           fresh == EmptyTable(first.generation + 1)
           refilled == [fresh EXCEPT !.interned = CallLeaves[c]]
<1>1. /\ Sound(first) /\ Fits(first, 0, 0, 0)
      /\ first = t \/ first = EmptyTable(t.generation + 1)
  BY MaybeResetSound
<1>2. t.generation \in Nat /\ first.generation \in Nat
  BY <1>1 DEF Sound, Store
<1>3. /\ first.generation >= t.generation
      /\ first.generation = t.generation => first.interned = t.interned
      /\ first.completed = IF first.generation = t.generation THEN t.completed ELSE <<>>
  <2>1. /\ EmptyTable(t.generation + 1).generation = t.generation + 1
        /\ EmptyTable(t.generation + 1).completed = <<>>
    BY DEF EmptyTable
  <2> HIDE DEF first
  <2> QED
    BY <1>1, <1>2, <2>1
<1> HIDE DEF first
<1>4. CallLeaves[c] \in SUBSET Leaves
  BY DEF Leaves
<1>5. /\ Sound(grown) /\ Fits(grown, 0, 0, 0)
      /\ grown.interned = first.interned \cup CallLeaves[c]
      /\ grown.generation = first.generation /\ grown.activeCount = first.activeCount
      /\ grown.completed = first.completed
  BY <1>1, <1>4, GrowSound
<1>6. /\ Sound(refilled) /\ Fits(refilled, 0, 0, 0)
      /\ refilled.interned = CallLeaves[c] /\ refilled.generation = first.generation + 1
      /\ refilled.completed = <<>>
  <2>1. Sound(fresh) /\ Fits(fresh, 0, 0, 0)
    BY <1>2, EmptyTableSound
  <2>2. fresh.interned = {} /\ fresh.generation = first.generation + 1 /\ fresh.completed = <<>>
    BY DEF EmptyTable
  <2>3. refilled = [fresh EXCEPT !.interned = @ \cup CallLeaves[c]]
    BY <2>2 DEF EmptyTable
  <2> HIDE DEF fresh, refilled
  <2>4. /\ Sound(refilled) /\ Fits(refilled, 0, 0, 0)
        /\ refilled.interned = fresh.interned \cup CallLeaves[c]
        /\ refilled.generation = fresh.generation /\ refilled.completed = fresh.completed
    BY <1>4, <2>1, <2>3, GrowSound
  <2> QED
    BY <2>2, <2>4
<1>7. ~ OverLimit(CallLeaves[c])
  <2>1. /\ Cardinality(CallLeaves[c]) \in Nat
        /\ Cardinality(CallLeaves[c]) <= MaxInternerLeaves
    BY CallAssumption, FS_CardinalityType
  <2> QED
    BY <2>1, BudgetAssumption DEF OverLimit
<1>8. EncodeKey(t, c) = IF OverLimit(grown.interned) /\ grown.activeCount = 0
                        THEN refilled ELSE grown
  BY DEF EncodeKey, ResetInternerAndTables, first
<1> HIDE DEF grown, refilled
<1>9. CASE OverLimit(grown.interned) /\ grown.activeCount = 0
  <2>1. EncodeKey(t, c) = refilled
    BY <1>8, <1>9
  <2>2. refilled.generation > t.generation
    BY <1>2, <1>3, <1>6
  <2> QED
    BY <1>2, <1>6, <1>7, <2>1, <2>2
<1>10. CASE ~ (OverLimit(grown.interned) /\ grown.activeCount = 0)
  BY <1>3, <1>5, <1>8, <1>10
<1> QED
  BY <1>9, <1>10

-----------------------------------------------------------------------------
(* Active tables.                                                          *)

\* Charging one entry of a list differently moves the sums by the difference.
LEMMA ReplaceEntry ==
    ASSUME NEW E, \A e \in E : Charged(e),
           NEW s \in Seq(E), NEW i \in DOMAIN s, NEW e \in E
    PROVE  LET w == [s EXCEPT ![i] = e]
           IN  /\ w \in Seq(E) /\ Len(w) = Len(s)
               /\ AnswersIn(w) = (AnswersIn(s) - s[i].answerCount) + e.answerCount
               /\ CellsIn(w) = (CellsIn(s) - s[i].approxCells) + e.approxCells
<1> DEFINE w == [s EXCEPT ![i] = e]
<1>1. w \in Seq(E) /\ Len(w) = Len(s) /\ w[i] = e /\ i \in DOMAIN w
  OBVIOUS
<1>2. \A j \in DOMAIN s : j # i => w[j] = s[j]
  OBVIOUS
<1> HIDE DEF w
<1>3. i \in 1..Len(s) /\ Len(s) \in Nat /\ DOMAIN s = 1..Len(s)
  OBVIOUS
<1>4. /\ Without(s, i) \in Seq(E) /\ Len(Without(s, i)) = Len(s) - 1
      /\ \A j \in 1..(Len(s) - 1) : Without(s, i)[j] = IF j < i THEN s[j] ELSE s[j + 1]
  BY WithoutEntry
<1>5. /\ Without(w, i) \in Seq(E) /\ Len(Without(w, i)) = Len(s) - 1
      /\ \A j \in 1..(Len(s) - 1) : Without(w, i)[j] = IF j < i THEN w[j] ELSE w[j + 1]
  BY <1>1, WithoutEntry
<1>6. ASSUME NEW j \in 1..(Len(s) - 1)
      PROVE  Without(w, i)[j] = Without(s, i)[j]
  <2>1. CASE j < i
    <3>1. j \in DOMAIN s /\ j # i
      BY <1>3, <2>1
    <3> QED
      BY <1>2, <1>4, <1>5, <2>1, <3>1
  <2>2. CASE ~ (j < i)
    <3>1. j + 1 \in DOMAIN s /\ j + 1 # i
      BY <1>3, <2>2
    <3> QED
      BY <1>2, <1>4, <1>5, <2>2, <3>1
  <2> QED
    BY <2>1, <2>2
<1>7. Without(w, i) = Without(s, i)
  BY <1>4, <1>5, <1>6, SeqEqual
<1>8. /\ AnswersIn(Without(s, i)) = AnswersIn(s) - s[i].answerCount
      /\ CellsIn(Without(s, i)) = CellsIn(s) - s[i].approxCells
  BY WithoutSums
<1>9. /\ AnswersIn(Without(w, i)) = AnswersIn(w) - w[i].answerCount
      /\ CellsIn(Without(w, i)) = CellsIn(w) - w[i].approxCells
  BY <1>1, WithoutSums
<1>10. AnswersIn(w) \in Nat /\ CellsIn(w) \in Nat /\ e.answerCount \in Nat /\ e.approxCells \in Nat
  BY <1>1, SumsOfEntries DEF Charged
<1>11. /\ AnswersIn(w) = (AnswersIn(s) - s[i].answerCount) + e.answerCount
       /\ CellsIn(w) = (CellsIn(s) - s[i].approxCells) + e.approxCells
  BY <1>1, <1>7, <1>8, <1>9, <1>10
<1> QED
  BY <1>1, <1>11 DEF w

\* A store whose active tables are replaced by a sound list, counted, is sound.
LEMMA NewActiveSound ==
    ASSUME NEW t, Sound(t), NEW u, NEW s \in Seq(ActiveEntry),
           ListOK(s, t.interned, t.generation),
           u = [t EXCEPT !.active = s, !.activeCount = Len(s),
                         !.activeAnswers = AnswersIn(s), !.activeCells = CellsIn(s)]
    PROVE  /\ Sound(u) /\ u.active = s
           /\ u.interned = t.interned /\ u.generation = t.generation
           /\ u.completed = t.completed /\ u.entries = t.entries
           /\ u.answers = t.answers /\ u.cells = t.cells
<1>1. /\ Len(s) \in Nat /\ AnswersIn(s) \in Nat /\ CellsIn(s) \in Nat
  BY SumsType
<1>2. t \in Store
  BY DEF Sound
<1>3. u \in Store
  BY <1>1, <1>2 DEF Store
<1>4. /\ u.active = s /\ u.activeCount = Len(s)
      /\ u.activeAnswers = AnswersIn(s) /\ u.activeCells = CellsIn(s)
  BY <1>2 DEF Store
<1>5. /\ u.interned = t.interned /\ u.generation = t.generation
      /\ u.completed = t.completed /\ u.entries = t.entries
      /\ u.answers = t.answers /\ u.cells = t.cells
  BY <1>2 DEF Store
<1>6. Sound(u)
  BY <1>3, <1>4, <1>5 DEF Sound
<1> QED
  BY <1>4, <1>5, <1>6

\* The active table at i takes in answers of a given number and size, or is marked.
LEMMA ChargeActiveSound ==
    ASSUME NEW t, Sound(t), NEW i \in DOMAIN t.active, NEW e \in ActiveEntry,
           NEW na \in Nat, NEW nc \in Nat, Fits(t, 0, na, nc),
           e.key = t.active[i].key,
           e.answerCount = t.active[i].answerCount + na,
           e.approxCells = t.active[i].approxCells + nc,
           NEW u \in Store, u.active = [t.active EXCEPT ![i] = e],
           u.activeCount = t.activeCount, u.activeAnswers = t.activeAnswers + na,
           u.activeCells = t.activeCells + nc,
           u.interned = t.interned, u.generation = t.generation, u.completed = t.completed,
           u.entries = t.entries, u.answers = t.answers, u.cells = t.cells
    PROVE  Sound(u) /\ Fits(u, 0, 0, 0) /\ DOMAIN u.active = DOMAIN t.active
<1> DEFINE s == t.active
           w == u.active
<1>1. t \in Store /\ s \in Seq(ActiveEntry) /\ ListOK(s, t.interned, t.generation)
  BY DEF Sound, Store
<1>2. /\ w \in Seq(ActiveEntry) /\ Len(w) = Len(s)
      /\ AnswersIn(w) = (AnswersIn(s) - s[i].answerCount) + e.answerCount
      /\ CellsIn(w) = (CellsIn(s) - s[i].approxCells) + e.approxCells
  <2> HIDE DEF s
  <2> QED
    BY <1>1, EntriesCharged, ReplaceEntry DEF s
<1>3. DOMAIN w = DOMAIN s /\ \A j \in DOMAIN s : w[j].key = s[j].key
  BY <1>1
<1>4. ListOK(w, t.interned, t.generation)
  <2> HIDE DEF s, w
  <2> QED
    BY <1>1, <1>3 DEF ListOK
<1>5. s[i] \in ActiveEntry
  BY <1>1
<1>6. /\ s[i].answerCount \in Nat /\ s[i].approxCells \in Nat
      /\ AnswersIn(s) \in Nat /\ CellsIn(s) \in Nat
  BY <1>1, <1>5, SumsType, EntriesCharged DEF Charged
<1>7. /\ t.activeCount = Len(s) /\ t.activeAnswers = AnswersIn(s)
      /\ t.activeCells = CellsIn(s)
  BY DEF Sound
<1>8. AnswersIn(w) = u.activeAnswers /\ CellsIn(w) = u.activeCells /\ Len(w) = u.activeCount
  <2>1. e.answerCount = s[i].answerCount + na /\ e.approxCells = s[i].approxCells + nc
    OBVIOUS
  <2> HIDE DEF s, w
  <2> QED
    BY <1>2, <1>6, <1>7, <2>1
<1>9. Sound(u)
  BY <1>4, <1>8 DEF Sound
<1>10. /\ t.entries \in Nat /\ t.answers \in Nat /\ t.cells \in Nat
       /\ t.activeCount \in Nat /\ t.activeAnswers \in Nat /\ t.activeCells \in Nat
  BY <1>1 DEF Store
<1>11. Fits(u, 0, 0, 0)
  BY <1>10, BudgetAssumption DEF Fits
<1> QED
  BY <1>3, <1>9, <1>11

\* What a call of addActiveAnswers keeps of the store t it started from.
Kept(t, u) ==
    /\ Sound(u) /\ Fits(u, 0, 0, 0) /\ Shortened(t.completed, u.completed)
    /\ DOMAIN u.active = DOMAIN t.active
    /\ u.generation = t.generation /\ t.interned \subseteq u.interned

\* An active table after it took in an answer, field by field.
LEMMA TakeFields ==
    ASSUME NEW r \in ActiveEntry, NEW a \in Answers
    PROVE  LET e == Take(r, a)
           IN  /\ AnswerSize[a] \in Nat /\ e \in ActiveEntry /\ e.key = r.key
               /\ e.answerCount = r.answerCount + 1
               /\ e.approxCells = r.approxCells + AnswerSize[a]
<1>1. /\ r.results \in Seq(Answers) /\ r.answerCount \in Nat /\ r.approxCells \in Nat
      /\ AnswerSize[a] \in Nat
  BY AnswerAssumption DEF ActiveEntry
<1>2. /\ Append(r.results, a) \in Seq(Answers)
      /\ r.answerCount + 1 \in Nat /\ r.approxCells + AnswerSize[a] \in Nat
  BY <1>1
<1> QED
  BY <1>1, <1>2 DEF ActiveEntry, Take

LEMMA MarkKept ==
    ASSUME NEW t, Sound(t), Fits(t, 0, 0, 0), NEW i \in DOMAIN t.active
    PROVE  Kept(t, [t EXCEPT !.active[i].overBudget = TRUE])
<1> DEFINE r == t.active[i]
           e == [r EXCEPT !.overBudget = TRUE]
           u == [t EXCEPT !.active[i].overBudget = TRUE]
<1>1. /\ t \in Store /\ r \in ActiveEntry /\ t.active \in Seq(ActiveEntry)
      /\ t.activeAnswers \in Nat /\ t.activeCells \in Nat
  BY DEF Sound, Store
<1>2. /\ e \in ActiveEntry /\ e.key = r.key
      /\ e.answerCount = r.answerCount + 0 /\ e.approxCells = r.approxCells + 0
  <2>1. /\ r.answerCount \in Nat /\ r.approxCells \in Nat
    BY <1>1 DEF ActiveEntry
  <2> HIDE DEF r
  <2>2. /\ e \in ActiveEntry /\ e.key = r.key
        /\ e.answerCount = r.answerCount /\ e.approxCells = r.approxCells
    BY <1>1 DEF ActiveEntry
  <2> HIDE DEF e
  <2> QED
    BY <2>1, <2>2
<1>3. u = [t EXCEPT !.active = [t.active EXCEPT ![i] = e]]
  BY DEF e, r
<1>4. [t.active EXCEPT ![i] = e] \in Seq(ActiveEntry)
  <2> HIDE DEF e
  <2> QED
    BY <1>1, <1>2
<1> HIDE DEF e
<1>5. /\ u \in Store /\ u.active = [t.active EXCEPT ![i] = e]
      /\ u.interned = t.interned /\ u.generation = t.generation
      /\ u.completed = t.completed /\ u.entries = t.entries
      /\ u.answers = t.answers /\ u.cells = t.cells
      /\ u.activeCount = t.activeCount /\ u.activeAnswers = t.activeAnswers
      /\ u.activeCells = t.activeCells
  <2> HIDE DEF u
  <2> QED
    BY <1>1, <1>3, <1>4 DEF Store
<1> HIDE DEF u
<1>6. u.activeAnswers = t.activeAnswers + 0 /\ u.activeCells = t.activeCells + 0
  BY <1>1, <1>5
<1>7. Sound(u) /\ Fits(u, 0, 0, 0) /\ DOMAIN u.active = DOMAIN t.active
  BY <1>2, <1>5, <1>6, ChargeActiveSound
<1>8. Kept(t, u)
  BY <1>1, <1>5, <1>7, ShortenedFacts DEF Kept, Store
<1> QED
  BY <1>8 DEF u

LEMMA TakeKept ==
    ASSUME NEW t, Sound(t), NEW i \in DOMAIN t.active, NEW a \in Answers,
           Fits(t, 0, 1, AnswerSize[a])
    PROVE  Kept(t, [t EXCEPT !.active[i] = Take(@, a),
                             !.activeAnswers = @ + 1,
                             !.activeCells = @ + AnswerSize[a]])
<1> DEFINE r == t.active[i]
           e == Take(r, a)
           cost == AnswerSize[a]
           u == [t EXCEPT !.active[i] = Take(@, a),
                          !.activeAnswers = @ + 1,
                          !.activeCells = @ + cost]
<1>1. /\ t \in Store /\ r \in ActiveEntry /\ t.active \in Seq(ActiveEntry)
      /\ t.activeAnswers \in Nat /\ t.activeCells \in Nat
  BY DEF Sound, Store
<1>2. /\ cost \in Nat /\ e \in ActiveEntry /\ e.key = r.key
      /\ e.answerCount = r.answerCount + 1 /\ e.approxCells = r.approxCells + cost
  <2> HIDE DEF r
  <2> QED
    BY <1>1, TakeFields
<1>3. u = [t EXCEPT !.active = [t.active EXCEPT ![i] = e],
                    !.activeAnswers = @ + 1, !.activeCells = @ + cost]
  BY DEF e, r
<1>4. /\ [t.active EXCEPT ![i] = e] \in Seq(ActiveEntry)
      /\ t.activeAnswers + 1 \in Nat /\ t.activeCells + cost \in Nat
  <2> HIDE DEF e, cost
  <2> QED
    BY <1>1, <1>2
<1>6. Fits(t, 0, 1, cost)
  OBVIOUS
<1> HIDE DEF e, cost
<1>5. /\ u \in Store /\ u.active = [t.active EXCEPT ![i] = e]
      /\ u.interned = t.interned /\ u.generation = t.generation
      /\ u.completed = t.completed /\ u.entries = t.entries
      /\ u.answers = t.answers /\ u.cells = t.cells
      /\ u.activeCount = t.activeCount /\ u.activeAnswers = t.activeAnswers + 1
      /\ u.activeCells = t.activeCells + cost
  <2> DEFINE w == [t.active EXCEPT ![i] = e]
             n == t.activeAnswers + 1
             c == t.activeCells + cost
  <2>1. u = [t EXCEPT !.active = w, !.activeAnswers = n, !.activeCells = c]
    BY <1>3
  <2>2. w \in Seq(ActiveEntry) /\ n \in Nat /\ c \in Nat
    BY <1>4
  <2> HIDE DEF u, w, n, c
  <2>3. /\ u \in Store /\ u.active = w
        /\ u.interned = t.interned /\ u.generation = t.generation
        /\ u.completed = t.completed /\ u.entries = t.entries
        /\ u.answers = t.answers /\ u.cells = t.cells
        /\ u.activeCount = t.activeCount /\ u.activeAnswers = n /\ u.activeCells = c
    BY <1>1, <2>1, <2>2 DEF Store
  <2> QED
    BY <2>3 DEF w, n, c
<1> HIDE DEF u
<1>7. Sound(u) /\ Fits(u, 0, 0, 0) /\ DOMAIN u.active = DOMAIN t.active
  BY <1>2, <1>5, <1>6, ChargeActiveSound
<1>8. Kept(t, u)
  BY <1>1, <1>5, <1>7, ShortenedFacts DEF Kept, Store
<1> QED
  BY <1>8 DEF u, cost

LEMMA AddAnswerKept ==
    ASSUME NEW t, Sound(t), Fits(t, 0, 0, 0), NEW i \in DOMAIN t.active, NEW a \in Answers
    PROVE  Kept(t, AddAnswer(t, i, a))
<1> DEFINE grown == [t EXCEPT !.interned = @ \cup AnswerLeaves[a]]
           cost == AnswerSize[a]
           room == MakeRoom(grown, 0, 1, cost)
           full == t.active[i].approxCells + cost > MaxEntryCells
           known == \E j \in DOMAIN t.active[i].results : t.active[i].results[j] = a
           marked(v) == [v EXCEPT !.active[i].overBudget = TRUE]
           taken == [room EXCEPT !.active[i] = Take(@, a),
                                 !.activeAnswers = @ + 1,
                                 !.activeCells = @ + cost]
<1>1. /\ Sound(grown) /\ Fits(grown, 0, 0, 0) /\ grown.active = t.active /\ grown.completed = t.completed
      /\ grown.generation = t.generation /\ t.interned \subseteq grown.interned
  <2>1. AnswerLeaves[a] \in SUBSET Leaves
    BY DEF Leaves
  <2> QED
    BY <2>1, GrowSound
<1>2. cost \in Nat
  BY AnswerAssumption
<1> HIDE DEF grown, cost
<1>3. /\ Sound(room) /\ SameActive(grown, room) /\ Fits(room, 0, 0, 0)
      /\ Shortened(t.completed, room.completed)
  <2>1. ActiveFits(grown)
    BY <1>1, FitsActive
  <2> QED
    BY <1>1, <1>2, <2>1, MakeRoomSound, RoomFits
<1> HIDE DEF room
<1>4. room.active = t.active /\ room.generation = t.generation /\ t.interned \subseteq room.interned
  BY <1>1, <1>3 DEF SameActive
<1>10. /\ Shortened(t.completed, t.completed)
       /\ \A q : Shortened(room.completed, q) => Shortened(t.completed, q)
  <2>1. t.completed \in Seq(CompletedEntry)
    BY DEF Sound, Store
  <2> QED
    BY <1>3, <2>1, ShortenedFacts
<1>5. Kept(t, marked(grown))
  BY <1>1, MarkKept DEF Kept
<1>6. Kept(t, grown)
  BY <1>1, <1>10 DEF Kept
<1>7. Kept(t, marked(room))
  <2> HIDE DEF marked
  <2>1. Kept(room, marked(room))
    BY <1>3, <1>4, MarkKept DEF marked
  <2> QED
    BY <1>4, <1>10, <2>1 DEF Kept
<1>8. ASSUME Fits(room, 0, 1, cost)
      PROVE  Kept(t, taken)
  <2> HIDE DEF taken
  <2>1. Kept(room, taken)
    BY <1>2, <1>3, <1>4, <1>8, TakeKept DEF taken, cost
  <2> QED
    BY <1>4, <1>10, <2>1 DEF Kept
<1>9. AddAnswer(t, i, a) =
         IF OverLimit(grown.interned) \/ (~ known /\ full) THEN marked(grown)
         ELSE IF known THEN grown
         ELSE IF Fits(room, 0, 1, cost) THEN taken
         ELSE marked(room)
  BY DEF AddAnswer, grown, room, cost
<1> HIDE DEF known, full, marked, taken
<1> QED
  BY <1>5, <1>6, <1>7, <1>8, <1>9

\* The whole loop, by induction on the answers added.
LEMMA AfterAnswersKept ==
    ASSUME NEW t, Sound(t), Fits(t, 0, 0, 0), NEW i \in DOMAIN t.active, NEW bag \in Seq(Answers)
    PROVE  Kept(t, AfterAnswers(t, i, bag))
<1> DEFINE m == Len(bag)
           Turn(u, n) == IF u.active[i].overBudget THEN u ELSE AddAnswer(u, i, bag[n])
           Run(g, n) == /\ DOMAIN g = 0..n /\ g[0] = t
                        /\ \A k \in 1..n : g[k] = Turn(g[k - 1], k)
           HasRun == {n \in Nat : \E g : Run(g, n)}
           Solves(p) == p = [n \in 0..m |-> IF n = 0 THEN t ELSE Turn(p[n - 1], n)]
           after == CHOOSE p : Solves(p)
<1>1. m \in Nat
  OBVIOUS
<1>2. ASSUME NEW u, Kept(t, u), NEW n \in 1..m
      PROVE  Kept(t, Turn(u, n))
  <2>1. bag[n] \in Answers /\ i \in DOMAIN u.active
    BY <1>2 DEF Kept
  <2>2. Kept(u, AddAnswer(u, i, bag[n]))
    BY <1>2, <2>1, AddAnswerKept DEF Kept
  <2>3. Kept(t, AddAnswer(u, i, bag[n]))
    <3>1. t.completed \in Seq(CompletedEntry)
      BY DEF Sound, Store
    <3>2. \A q : Shortened(u.completed, q) => Shortened(t.completed, q)
      BY <1>2, <3>1, ShortenedFacts DEF Kept
    <3> QED
      BY <1>2, <2>2, <3>2 DEF Kept
  <2> QED
    BY <1>2, <2>3
<1>3. AfterAnswers(t, i, bag) = after[m]
  BY DEF AfterAnswers
<1> HIDE DEF m, Turn
<1>4. m \in HasRun
  <2>1. 0 \in HasRun
    <3>1. Run([k \in 0..0 |-> t], 0)
      OBVIOUS
    <3> QED
      BY <3>1
  <2>2. ASSUME NEW n \in 1..m, n - 1 \in HasRun
        PROVE  n \in HasRun
    <3>1. n \in Nat \ {0}
      BY <1>1
    <3>2. PICK g : Run(g, n - 1)
      BY <2>2
    <3> DEFINE h == [k \in 0..n |-> IF k = n THEN Turn(g[n - 1], n) ELSE g[k]]
    <3>3. /\ DOMAIN h = 0..n /\ h[n] = Turn(g[n - 1], n)
          /\ \A k \in 0..(n - 1) : h[k] = g[k]
      BY <3>1
    <3> HIDE DEF h
    <3>4. ASSUME NEW k \in 1..n
          PROVE  h[k] = Turn(h[k - 1], k)
      <4>1. h[k - 1] = g[k - 1]
        BY <3>1, <3>3
      <4>2. CASE k = n
        BY <3>3, <4>1, <4>2
      <4>3. CASE k # n
        <5>1. k \in 0..(n - 1) /\ k \in 1..(n - 1)
          BY <3>1, <4>3
        <5> QED
          BY <3>2, <3>3, <4>1, <5>1
      <4> QED
        BY <4>2, <4>3
    <3>5. h[0] = t
      BY <3>1, <3>2, <3>3
    <3> QED
      BY <3>1, <3>3, <3>4, <3>5
  <2> HIDE DEF HasRun
  <2>3. \A n \in 0..m : n \in HasRun
    BY <1>1, <2>1, <2>2, SetInduction
  <2> QED
    BY <1>1, <2>3
<1>5. PICK g : Run(g, m) /\ g = [n \in 0..m |-> g[n]]
  <2>1. PICK g : Run(g, m)
    BY <1>4
  <2>2. Run([n \in 0..m |-> g[n]], m)
    BY <1>1, <2>1
  <2> QED
    BY <2>2
<1>6. Solves(g)
  <2> DEFINE h == [n \in 0..m |-> IF n = 0 THEN t ELSE Turn(g[n - 1], n)]
  <2>1. ASSUME NEW n \in 0..m
        PROVE  g[n] = h[n]
    <3>1. CASE n = 0
      BY <1>5, <3>1
    <3>2. CASE n # 0
      <4>1. n \in 1..m
        BY <1>1, <3>2
      <4>2. h[n] = Turn(g[n - 1], n)
        BY <3>2
      <4> QED
        BY <1>5, <4>1, <4>2
    <3> QED
      BY <3>1, <3>2
  <2>2. h = [n \in 0..m |-> h[n]]
    OBVIOUS
  <2> HIDE DEF h
  <2>3. g = h
    BY <1>5, <2>1, <2>2
  <2> QED
    BY <2>3 DEF h
<1>7. Solves(after)
  <2> HIDE DEF Solves
  <2> QED
    BY <1>6
<1> HIDE DEF after
<1>8. after[0] = t /\ \A n \in 1..m : after[n] = Turn(after[n - 1], n)
  <2>1. 0 \in 0..m /\ \A n \in 1..m : n \in 0..m /\ n # 0
    BY <1>1
  <2> QED
    BY <1>7, <2>1
<1> DEFINE Good == {n \in 0..m : Kept(t, after[n])}
<1>9. 0 \in Good
  <2>1. Shortened(t.completed, t.completed)
    BY ShortenedFacts DEF Sound, Store
  <2> QED
    BY <1>1, <1>8, <2>1 DEF Kept
<1>10. ASSUME NEW n \in 1..m, n - 1 \in Good
       PROVE  n \in Good
  BY <1>1, <1>2, <1>8, <1>10
<1>11. \A n \in 0..m : n \in Good
  <2> HIDE DEF Good
  <2> QED
    BY <1>1, <1>9, <1>10, SetInduction
<1> QED
  BY <1>1, <1>3, <1>11

-----------------------------------------------------------------------------
(* The inductive invariant and one lemma per operation.                    *)

StoreInv(t) ==
    /\ Sound(t) /\ Fits(t, 0, 0, 0)
    /\ t.active = <<>> => ~ OverLimit(t.interned)

HistoryOK ==
    /\ utility \in [Functors -> [inserts : 0..UtilityRevokeAfter, hit : BOOLEAN]]
    /\ keys \subseteq Keys
    /\ recency \in Seq(Keys)

IInv == StoreInv(table) /\ HistoryOK /\ CurrentKeysDecodable

\* What a step does to the interner: a key that was current decodes afterwards or
\* is stale.
Advances(t, u) ==
    /\ u.generation >= t.generation
    /\ u.generation = t.generation => t.interned \subseteq u.interned

LEMMA NoneActive ==
    ASSUME NEW t, Sound(t)
    PROVE  t.active = <<>> <=> t.activeCount = 0
<1>1. t.active \in Seq(ActiveEntry) /\ t.activeCount = Len(t.active)
  BY DEF Sound, Store
<1> DEFINE s == t.active
<1>2. s \in Seq(ActiveEntry) /\ t.activeCount = Len(s)
  BY <1>1
<1> HIDE DEF s
<1>3. s = <<>> <=> Len(s) = 0
  BY <1>2
<1> QED
  BY <1>2, <1>3 DEF s

LEMMA UsedType ==
    ASSUME NEW k \in Keys, recency \in Seq(Keys)
    PROVE  Used(k) \in Seq(Keys)
<1> DEFINE before == {i \in DOMAIN recency : recency[i] = k}
           rest == IF before = {} THEN recency
                   ELSE Without(recency, CHOOSE i \in before : TRUE)
<1>1. rest \in Seq(Keys)
  <2>1. CASE before = {}
    BY <2>1
  <2>2. CASE before # {}
    <3>1. (CHOOSE i \in before : TRUE) \in DOMAIN recency
      BY <2>2
    <3>2. Without(recency, CHOOSE i \in before : TRUE) \in Seq(Keys)
      BY <3>1, WithoutEntry
    <3> HIDE DEF before
    <3> QED
      BY <2>2, <3>2
  <2> QED
    BY <2>1, <2>2
<1>2. Used(k) = <<k>> \o rest
  BY DEF Used
<1> HIDE DEF rest
<1> QED
  BY <1>1, <1>2

LEMMA KeysAdvance ==
    ASSUME CurrentKeysDecodable, keys \subseteq Keys, keys' = keys,
           table.generation \in Nat, table'.generation \in Nat, Advances(table, table')
    PROVE  CurrentKeysDecodable'
BY DEF CurrentKeysDecodable, Keys, Advances, IsCurrentKey

LEMMA LookupStep ==
    ASSUME IInv, NEW c \in Calls, Lookup(c)
    PROVE  IInv'
<1> DEFINE t == EncodeKey(table, c)
           k == [call |-> c, gen |-> t.generation]
<1>1. /\ Sound(t) /\ Fits(t, 0, 0, 0) /\ CallLeaves[c] \subseteq t.interned
      /\ Advances(table, t)
      /\ t.activeCount = 0 => ~ OverLimit(t.interned)
  BY EncodeKeySound DEF IInv, StoreInv, Advances
<1>2. k \in Keys /\ t.generation \in Nat /\ table.generation \in Nat
  BY <1>1 DEF Keys, Sound, Store, IInv, StoreInv
<1>3. \/ table' = t /\ UNCHANGED utility /\ recency' \in {recency, <<>>}
      \/ \E i \in DOMAIN t.completed :
            /\ table' = Touch(t, i) /\ recency' = Used(k)
            /\ utility' = [utility EXCEPT ![HeadOf[c]].hit = TRUE]
  BY DEF Lookup, Find
<1>4. keys' = keys \cup {k} /\ k.call = c /\ k.gen = t.generation
  BY DEF Lookup
<1> HIDE DEF t, k
<1>5. /\ Sound(table') /\ Fits(table', 0, 0, 0) /\ table'.interned = t.interned
      /\ table'.generation = t.generation /\ table'.activeCount = t.activeCount
  <2>1. ASSUME NEW i \in DOMAIN t.completed
        PROVE  /\ Sound(Touch(t, i)) /\ SameActive(t, Touch(t, i))
               /\ Fits(Touch(t, i), 0, 0, 0)
    BY <1>1, TouchSound DEF Fits, SameActive
  <2> QED
    BY <1>1, <1>3, <2>1 DEF SameActive
<1>6. StoreInv(table')
  BY <1>1, <1>5, NoneActive DEF StoreInv
<1>7. HistoryOK'
  <2>1. HeadOf[c] \in Functors
    BY CallAssumption
  <2>2. Used(k) \in Seq(Keys) /\ <<>> \in Seq(Keys) /\ recency \in Seq(Keys)
    BY <1>2, UsedType DEF IInv, HistoryOK
  <2>3. recency' \in Seq(Keys)
    BY <1>3, <2>2
  <2>4. utility' \in [Functors -> [inserts : 0..UtilityRevokeAfter, hit : BOOLEAN]]
    BY <1>3, <2>1 DEF IInv, HistoryOK
  <2> QED
    BY <1>2, <1>4, <2>3, <2>4 DEF IInv, HistoryOK
<1>8. CurrentKeysDecodable'
  <2>1. \A j \in keys :
           /\ j.gen \in Nat /\ j.gen <= table.generation
           /\ j.gen = table.generation => CallLeaves[j.call] \subseteq table.interned
    BY DEF IInv, HistoryOK, CurrentKeysDecodable, IsCurrentKey, Keys
  <2>2. ASSUME NEW j \in keys'
        PROVE  /\ j.gen <= table'.generation
               /\ j.gen = table'.generation => CallLeaves[j.call] \subseteq table'.interned
    <3>1. CASE j \in keys
      <4>0. t.generation >= table.generation
        BY <1>1 DEF Advances
      <4>1. j.gen \in Nat /\ j.gen <= table.generation
        BY <2>1, <3>1
      <4>2. /\ j.gen <= t.generation
            /\ j.gen = t.generation => t.generation = table.generation
        BY <1>2, <4>0, <4>1
      <4> QED
        BY <1>1, <1>2, <1>5, <2>1, <3>1, <4>1, <4>2 DEF Advances
    <3>2. CASE j = k
      BY <1>1, <1>2, <1>4, <1>5, <3>2
    <3> QED
      BY <1>4, <3>1, <3>2
  <2> QED
    BY <2>2 DEF CurrentKeysDecodable, IsCurrentKey
<1> QED
  BY <1>6, <1>7, <1>8 DEF IInv

LEMMA ClearStep ==
    ASSUME IInv, Clear
    PROVE  IInv'
<1>1. table.generation + 1 \in Nat /\ table.generation \in Nat
  BY DEF IInv, StoreInv, Sound, Store
<1>2. table' = EmptyTable(table.generation + 1)
  BY DEF Clear, ResetInternerAndTables
<1>3. /\ Sound(table') /\ Fits(table', 0, 0, 0) /\ ~ OverLimit({})
  BY <1>1, <1>2, EmptyTableSound
<1>4. table'.interned = {} /\ table'.generation = table.generation + 1
  BY <1>2 DEF EmptyTable
<1>5. StoreInv(table')
  BY <1>3, <1>4 DEF StoreInv
<1>6. Advances(table, table')
  BY <1>1, <1>4 DEF Advances
<1>7. CurrentKeysDecodable'
  BY <1>1, <1>4, <1>6, KeysAdvance DEF IInv, HistoryOK, Clear
<1>8. HistoryOK'
  BY DEF IInv, HistoryOK, Clear
<1> QED
  BY <1>5, <1>7, <1>8 DEF IInv

\* What a finished call is stored as.
LEMMA EntryTyped ==
    ASSUME NEW k \in Keys, NEW bag \in Bags
    PROVE  LET cost == EntryCost(k.call, bag)
               entry == [key |-> k, answerCount |-> Len(bag), approxCells |-> cost]
           IN  entry \in CompletedEntry /\ entry.key = k
<1> DEFINE cost == EntryCost(k.call, bag)
           entry == [key |-> k, answerCount |-> Len(bag), approxCells |-> cost]
<1>2. k.call \in Calls /\ bag \in Seq(Answers)
  BY AnswerAssumption DEF Keys
<1>3. cost \in Nat
  <2> DEFINE sizes == [i \in DOMAIN bag |-> AnswerSize[bag[i]]]
  <2>1. CallVars[k.call] \in Nat
    BY <1>2, CallAssumption
  <2>2. \A i \in DOMAIN bag : AnswerSize[bag[i]] \in Nat
    BY <1>2, AnswerAssumption
  <2>3. sizes \in [1..Len(bag) -> Nat] /\ Len(bag) \in Nat
    BY <1>2, <2>2
  <2>4. sizes \in Seq(Nat)
    BY <2>3, SeqDef
  <2>5. BagSize(bag) \in Nat
    BY <2>4, TotalType DEF BagSize
  <2> QED
    BY <2>1, <2>5 DEF EntryCost
<1> QED
  BY <1>2, <1>3 DEF CompletedEntry

LEMMA RememberStep ==
    ASSUME IInv, NEW k \in keys, NEW bag \in Bags, RememberCompleted(k, bag)
    PROVE  IInv'
<1> DEFINE cost == EntryCost(k.call, bag)
           entry == [key |-> k, answerCount |-> Len(bag), approxCells |-> cost]
           old == Find(table.completed, k)
           base == WithoutOld(table, k)
           put == InsertHead(base, entry)
           fits == Evict(put)
           stored == cost <= MaxEntryCells
           next == IF stored THEN fits ELSE table
<1>1. /\ Sound(table) /\ Fits(table, 0, 0, 0) /\ k \in Keys
      /\ k.gen = table.generation /\ CallLeaves[k.call] \subseteq table.interned
      /\ table.generation \in Nat
  BY DEF IInv, StoreInv, HistoryOK, RememberCompleted, CurrentKeysDecodable, IsCurrentKey,
         Sound, Store
<1>2. k.call \in Calls /\ bag \in Seq(Answers)
  BY <1>1, AnswerAssumption DEF Keys
<1>4. entry \in CompletedEntry /\ entry.key = k
  BY <1>1, EntryTyped
<1>5. /\ Sound(base) /\ SameActive(table, base)
      /\ \A j \in DOMAIN base.completed : base.completed[j].key # k
  <2>1. CASE old = {}
    BY <1>1, <2>1 DEF Find, SameActive, WithoutOld
  <2>2. CASE old # {}
    <3> DEFINE i == CHOOSE n \in old : TRUE
    <3>1. i \in DOMAIN table.completed /\ table.completed[i].key = k
      BY <2>2 DEF Find
    <3>2. base = Remove(table, i)
      BY <2>2 DEF WithoutOld
    <3> HIDE DEF i, base
    <3> QED
      BY <1>1, <3>1, <3>2, RemoveSound
  <2> QED
    BY <2>1, <2>2
<1> HIDE DEF base, entry, cost
<1>6. Sound(put) /\ SameActive(table, put)
  <2>1. k.gen = base.generation /\ CallLeaves[k.call] \subseteq base.interned
    BY <1>1, <1>5 DEF SameActive
  <2>2. Sound(put) /\ SameActive(base, put)
    BY <1>4, <1>5, <2>1, InsertHeadSound
  <2> HIDE DEF put
  <2> QED
    BY <1>5, <2>2 DEF SameActive
<1> HIDE DEF put
<1>7. Sound(fits) /\ Fits(fits, 0, 0, 0) /\ SameActive(table, fits)
  <2>1. ActiveFits(put)
    <3>1. ActiveFits(table)
      BY <1>1, FitsActive
    <3> QED
      BY <1>6, <3>1 DEF ActiveFits, SameActive
  <2>2. Sound(fits) /\ SameActive(put, fits) /\ Fits(fits, 0, 0, 0)
    BY <1>6, <2>1, MakeRoomSound, RoomFits DEF Evict
  <2> HIDE DEF fits
  <2> QED
    BY <1>6, <2>2 DEF SameActive
<1> HIDE DEF fits, stored
<1>8. Sound(next) /\ Fits(next, 0, 0, 0) /\ SameActive(table, next)
  BY <1>1, <1>7 DEF SameActive
<1>9. table' = MaybeResetInterner(next)
  BY DEF RememberCompleted, next, stored, fits, put, base, entry, cost
<1> HIDE DEF next
<1>10. /\ Sound(table') /\ Fits(table', 0, 0, 0)
       /\ table' = next \/ table' = EmptyTable(next.generation + 1)
       /\ table'.activeCount = 0 => ~ OverLimit(table'.interned)
  BY <1>8, <1>9, MaybeResetSound
<1>11. StoreInv(table')
  BY <1>10, NoneActive DEF StoreInv
<1>12. Advances(table, table')
  <2>1. EmptyTable(next.generation + 1).generation = next.generation + 1
    BY DEF EmptyTable
  <2>2. next.generation = table.generation /\ next.interned = table.interned
    BY <1>8 DEF SameActive
  <2> QED
    BY <1>1, <1>10, <2>1, <2>2 DEF Advances
<1>13. table'.generation \in Nat
  BY <1>10 DEF Sound, Store
<1>14. CurrentKeysDecodable'
  BY <1>1, <1>12, <1>13, KeysAdvance DEF IInv, HistoryOK, RememberCompleted
<1>15. HistoryOK'
  <2>1. recency' \in {recency, <<>>, Used(k)}
    BY DEF RememberCompleted
  <2>2. recency' \in Seq(Keys)
    <3>1. recency \in Seq(Keys) /\ <<>> \in Seq(Keys)
      BY DEF IInv, HistoryOK
    <3>2. Used(k) \in Seq(Keys)
      BY <1>1, <3>1, UsedType
    <3> QED
      BY <2>1, <3>1, <3>2
  <2> DEFINE f == HeadOf[k.call]
             Pair == [inserts : 0..UtilityRevokeAfter, hit : BOOLEAN]
  <2>3. f \in Functors
    BY <1>2, CallAssumption
  <2>4. \/ utility' = utility
        \/ /\ utility[f].inserts < UtilityRevokeAfter
           /\ utility' = [utility EXCEPT ![f].inserts = @ + 1]
    BY DEF RememberCompleted
  <2> HIDE DEF f
  <2>5. utility \in [Functors -> Pair]
    BY DEF IInv, HistoryOK
  <2>6. utility[f].inserts < UtilityRevokeAfter => [utility[f] EXCEPT !.inserts = @ + 1] \in Pair
    <3>1. utility[f] \in Pair
      BY <2>3, <2>5
    <3>2. utility[f].inserts \in 0..UtilityRevokeAfter
      BY <3>1
    <3>3. utility[f].inserts < UtilityRevokeAfter => utility[f].inserts + 1 \in 0..UtilityRevokeAfter
      BY <3>2, BudgetAssumption
    <3> QED
      BY <3>1, <3>3
  <2>7. utility' \in [Functors -> Pair]
    <3> HIDE DEF Pair
    <3> QED
      BY <2>3, <2>4, <2>5, <2>6
  <2> QED
    BY <2>2, <2>7 DEF IInv, HistoryOK, RememberCompleted
<1> QED
  BY <1>11, <1>14, <1>15 DEF IInv

LEMMA BeginStep ==
    ASSUME IInv, NEW k \in keys, BeginActive(k)
    PROVE  IInv'
<1> DEFINE charge == 1 + CallVars[k.call]
           room == MakeRoom(table, 1, 0, charge)
           e == [key |-> k, results |-> <<>>, answerCount |-> 0, approxCells |-> charge,
                 overBudget |-> FALSE]
           s == Append(room.active, e)
           n == room.activeCount + 1
           c == room.activeCells + charge
<1>1. /\ Sound(table) /\ Fits(table, 0, 0, 0) /\ k \in Keys
      /\ k.gen = table.generation /\ CallLeaves[k.call] \subseteq table.interned
      /\ table.generation \in Nat /\ ~ OverLimit(table.interned)
      /\ \A i \in DOMAIN table.active : table.active[i].key # k
  BY DEF IInv, StoreInv, HistoryOK, BeginActive, CurrentKeysDecodable, IsCurrentKey,
         Sound, Store, Find
<1>2. charge \in Nat /\ e \in ActiveEntry /\ e.key = k /\ e.answerCount = 0 /\ e.approxCells = charge
  <2>1. CallVars[k.call] \in Nat
    BY <1>1, CallAssumption DEF Keys
  <2>2. charge \in Nat
    BY <2>1
  <2> HIDE DEF charge
  <2> QED
    BY <1>1, <2>2 DEF ActiveEntry
<1>3. table' = IF Fits(room, 1, 0, charge)
               THEN [room EXCEPT !.active = s, !.activeCount = n, !.activeCells = c]
               ELSE room
  BY DEF BeginActive
<1> HIDE DEF charge, e
<1>4. Sound(room) /\ SameActive(table, room) /\ Fits(room, 0, 0, 0)
  <2>1. ActiveFits(table)
    BY <1>1, FitsActive
  <2>2. 1 \in Nat /\ 0 \in Nat /\ charge \in Nat
    BY <1>2
  <2>3. Sound(room) /\ SameActive(table, room)
    BY <1>1, <2>2, MakeRoomSound
  <2>4. Fits(room, 0, 0, 0)
    BY <1>1, <2>1, <2>2, RoomFits
  <2> QED
    BY <2>3, <2>4
<1> HIDE DEF room
<1>5. /\ room \in Store /\ room.active \in Seq(ActiveEntry)
      /\ room.activeCount \in Nat /\ room.activeAnswers \in Nat /\ room.activeCells \in Nat
      /\ room.entries \in Nat /\ room.answers \in Nat /\ room.cells \in Nat
  BY <1>4 DEF Sound, Store
<1>6. s \in Seq(ActiveEntry) /\ ListOK(s, room.interned, room.generation)
  <2>1. /\ ListOK(room.active, room.interned, room.generation)
        /\ \A i \in DOMAIN room.active : room.active[i].key # e.key
        /\ e.key.gen = room.generation /\ CallLeaves[e.key.call] \subseteq room.interned
    BY <1>1, <1>2, <1>4 DEF Sound, SameActive
  <2> QED
    BY <1>2, <1>5, <2>1, LastOK
<1>7. Len(s) = n /\ AnswersIn(s) = room.activeAnswers /\ CellsIn(s) = c
  <2> DEFINE r == room.active
             one == <<e>>
  <2>1. /\ r \in Seq(ActiveEntry) /\ room.activeCount = Len(r)
        /\ room.activeAnswers = AnswersIn(r) /\ room.activeCells = CellsIn(r)
    BY <1>4, <1>5 DEF Sound
  <2>2. one \in Seq(ActiveEntry)
    BY <1>2
  <2> HIDE DEF r
  <2>3. Append(r, e) = r \o one /\ Len(Append(r, e)) = Len(r) + 1
    BY <1>2, <2>1
  <2> HIDE DEF one
  <2>4. /\ AnswersIn(r \o one) = AnswersIn(r) + AnswersIn(one)
        /\ CellsIn(r \o one) = CellsIn(r) + CellsIn(one)
    BY <2>1, <2>2, EntriesCharged, SumsOfEntries
  <2>5. AnswersIn(one) = 0 /\ CellsIn(one) = charge
    BY <1>2, EntriesCharged, SumsOfEntries DEF one
  <2>6. AnswersIn(r) \in Nat
    BY <2>1, SumsType
  <2>7. s = Append(r, e)
    BY DEF r
  <2> QED
    BY <2>1, <2>3, <2>4, <2>5, <2>6, <2>7
<1>8. n \in Nat /\ c \in Nat
  BY <1>2, <1>5
<1>9. CASE Fits(room, 1, 0, charge)
  <2>1. table' = [room EXCEPT !.active = s, !.activeCount = n, !.activeCells = c]
    BY <1>3, <1>9
  <2> HIDE DEF s, n, c
  <2>2. /\ table' \in Store /\ table'.active = s /\ table'.activeCount = n
        /\ table'.activeCells = c /\ table'.activeAnswers = room.activeAnswers
        /\ table'.interned = room.interned /\ table'.generation = room.generation
        /\ table'.completed = room.completed /\ table'.entries = room.entries
        /\ table'.answers = room.answers /\ table'.cells = room.cells
    BY <1>5, <1>6, <1>8, <2>1 DEF Store
  <2>3. Sound(table')
    BY <1>4, <1>6, <1>7, <2>2 DEF Sound
  <2>4. Fits(table', 0, 0, 0)
    <3>1. /\ room.entries + room.activeCount + 1 <= MaxCompletedEntries
          /\ room.answers + room.activeAnswers + 0 <= MaxCompletedAnswers
          /\ room.cells + room.activeCells + charge <= MaxApproxCells
      BY <1>9 DEF Fits
    <3>2. n = room.activeCount + 1 /\ c = room.activeCells + charge
      BY DEF n, c
    <3>3. room.entries + n + 0 <= MaxCompletedEntries
      BY <1>5, <3>1, <3>2, BudgetAssumption
    <3>4. room.cells + c + 0 <= MaxApproxCells
      BY <1>2, <1>5, <3>1, <3>2, BudgetAssumption
    <3> QED
      BY <2>2, <3>1, <3>3, <3>4 DEF Fits
  <2> QED
    BY <1>1, <1>4, <2>2, <2>3, <2>4 DEF StoreInv, SameActive, IInv, HistoryOK, BeginActive,
       CurrentKeysDecodable, IsCurrentKey
<1>10. CASE ~ Fits(room, 1, 0, charge)
  <2>1. table' = room
    BY <1>3, <1>10
  <2> QED
    BY <1>1, <1>4, <2>1 DEF StoreInv, SameActive, IInv, HistoryOK, BeginActive,
       CurrentKeysDecodable, IsCurrentKey
<1> QED
  BY <1>9, <1>10

LEMMA AddStep ==
    ASSUME IInv, NEW i \in DOMAIN table.active, NEW bag \in Bags, AddActiveAnswers(i, bag)
    PROVE  IInv'
<1>1. /\ Sound(table) /\ Fits(table, 0, 0, 0) /\ bag \in Seq(Answers)
      /\ table' = AfterAnswers(table, i, bag)
      /\ UNCHANGED <<utility, keys, recency>>
  BY AnswerAssumption DEF IInv, StoreInv, AddActiveAnswers
<1>2. Kept(table, table')
  BY <1>1, AfterAnswersKept
<1>3. i \in DOMAIN table'.active /\ Advances(table, table')
      /\ Sound(table') /\ Fits(table', 0, 0, 0)
      /\ table.generation \in Nat /\ table'.generation \in Nat
  BY <1>1, <1>2 DEF Kept, Advances, Sound, Store
<1>4. table'.active # <<>>
  BY <1>3
<1>5. StoreInv(table')
  BY <1>3, <1>4 DEF StoreInv
<1>6. CurrentKeysDecodable'
  BY <1>1, <1>3, KeysAdvance DEF IInv, HistoryOK
<1>7. HistoryOK'
  BY <1>1 DEF IInv, HistoryOK
<1> QED
  BY <1>5, <1>6, <1>7 DEF IInv

LEMMA EndStep ==
    ASSUME IInv, NEW k \in keys, EndActive(k)
    PROVE  IInv'
<1>1. /\ Sound(table) /\ Fits(table, 0, 0, 0) /\ table.generation \in Nat
      /\ keys' = keys /\ utility' = utility /\ recency' \in {recency, <<>>}
  BY DEF IInv, StoreInv, EndActive, Sound, Store
<1>2. PICK i \in DOMAIN table.active :
         table' = MaybeResetInterner(
                    [table EXCEPT !.active = Without(@, i),
                                  !.activeCount = @ - 1,
                                  !.activeAnswers = @ - table.active[i].answerCount,
                                  !.activeCells = @ - table.active[i].approxCells])
  BY DEF EndActive, Find
<1> DEFINE s == table.active
           w == Without(s, i)
           u == [table EXCEPT !.active = w, !.activeCount = Len(w),
                              !.activeAnswers = AnswersIn(w), !.activeCells = CellsIn(w)]
<1>3. /\ table \in Store /\ s \in Seq(ActiveEntry) /\ ListOK(s, table.interned, table.generation)
      /\ s[i] \in ActiveEntry
      /\ table.activeCount = Len(s) /\ table.activeAnswers = AnswersIn(s)
      /\ table.activeCells = CellsIn(s)
  BY <1>1 DEF Sound, Store
<1>4. /\ w \in Seq(ActiveEntry) /\ Len(w) = table.activeCount - 1
      /\ AnswersIn(w) = table.activeAnswers - s[i].answerCount
      /\ CellsIn(w) = table.activeCells - s[i].approxCells
  BY <1>3, EntriesCharged, WithoutEntry, WithoutSums
<1>5. ListOK(w, table.interned, table.generation)
  BY <1>3, WithoutOK
<1>6. table' = MaybeResetInterner(u)
  BY <1>2, <1>4
<1>7. s[i].answerCount \in Nat /\ s[i].approxCells \in Nat
  BY <1>3 DEF ActiveEntry
<1> HIDE DEF s, w
<1>8. /\ Sound(u) /\ u.interned = table.interned /\ u.generation = table.generation
      /\ u.entries = table.entries /\ u.answers = table.answers /\ u.cells = table.cells
      /\ u.active = w
  <2>1. \A x : x = [table EXCEPT !.active = w, !.activeCount = Len(w),
                                 !.activeAnswers = AnswersIn(w), !.activeCells = CellsIn(w)]
               => /\ Sound(x) /\ x.active = w
                  /\ x.interned = table.interned /\ x.generation = table.generation
                  /\ x.completed = table.completed /\ x.entries = table.entries
                  /\ x.answers = table.answers /\ x.cells = table.cells
    BY <1>1, <1>4, <1>5, NewActiveSound
  <2> QED
    BY <2>1
<1> HIDE DEF u
<1>9. Fits(u, 0, 0, 0)
  <2>1. /\ u.activeCount = table.activeCount - 1
        /\ u.activeAnswers = table.activeAnswers - s[i].answerCount
        /\ u.activeCells = table.activeCells - s[i].approxCells
    BY <1>4, <1>8 DEF Sound
  <2>2. /\ table.entries \in Nat /\ table.answers \in Nat /\ table.cells \in Nat
        /\ table.activeCount \in Nat /\ table.activeAnswers \in Nat /\ table.activeCells \in Nat
    BY <1>1 DEF Sound, Store
  <2>3. /\ table.entries + table.activeCount + 0 <= MaxCompletedEntries
        /\ table.answers + table.activeAnswers + 0 <= MaxCompletedAnswers
        /\ table.cells + table.activeCells + 0 <= MaxApproxCells
    BY <1>1 DEF Fits
  <2>4. /\ u.entries + u.activeCount + 0 <= MaxCompletedEntries
        /\ u.answers + u.activeAnswers + 0 <= MaxCompletedAnswers
        /\ u.cells + u.activeCells + 0 <= MaxApproxCells
    <3>1. u.entries = table.entries /\ u.answers = table.answers /\ u.cells = table.cells
      BY <1>8
    <3> QED
      BY <1>7, <2>1, <2>2, <2>3, <3>1, BudgetAssumption
  <2> QED
    BY <2>4 DEF Fits
<1>10. /\ Sound(table') /\ Fits(table', 0, 0, 0)
       /\ table' = u \/ table' = EmptyTable(u.generation + 1)
       /\ table'.activeCount = 0 => ~ OverLimit(table'.interned)
  BY <1>6, <1>8, <1>9, MaybeResetSound
<1>11. StoreInv(table')
  BY <1>10, NoneActive DEF StoreInv
<1>12. Advances(table, table')
  <2>1. EmptyTable(u.generation + 1).generation = u.generation + 1
    BY DEF EmptyTable
  <2> QED
    BY <1>1, <1>8, <1>10, <2>1 DEF Advances
<1>13. table'.generation \in Nat
  BY <1>10 DEF Sound, Store
<1>14. CurrentKeysDecodable'
  BY <1>1, <1>12, <1>13, KeysAdvance DEF IInv, HistoryOK
<1>15. HistoryOK'
  <2>1. recency \in Seq(Keys) /\ <<>> \in Seq(Keys)
    BY DEF IInv, HistoryOK
  <2>2. recency' \in Seq(Keys)
    BY <1>1, <2>1
  <2> QED
    BY <1>1, <2>2 DEF IInv, HistoryOK
<1> QED
  BY <1>11, <1>14, <1>15 DEF IInv

-----------------------------------------------------------------------------
(* Recency: the completed tables are the latest uses, each variant once.   *)

OnceEach(r) == \A i, j \in DOMAIN r : r[i] = r[j] => i = j

Leads(s, r) == Len(s) <= Len(r) /\ \A i \in 1..Len(s) : s[i].key = r[i]

RecencyOK == OnceEach(recency) /\ Leads(table.completed, recency)

\* What dropping the tail leaves still leads.
LEMMA ShortenedLeads ==
    ASSUME NEW s \in Seq(CompletedEntry), NEW p, Shortened(s, p), Leads(s, recency), recency \in Seq(Keys)
    PROVE  Leads(p, recency)
<1>1. /\ p \in Seq(CompletedEntry) /\ Len(p) <= Len(s)
      /\ \A i \in 1..Len(p) : p[i] = s[i]
  BY ShortenedFacts
<1> QED
  BY <1>1 DEF Leads

\* A sequence with one element before it.
LEMMA HeadOn ==
    ASSUME NEW E, NEW x \in E, NEW s \in Seq(E), NEW n \in Nat, Len(s) = n - 1
    PROVE  /\ <<x>> \o s \in Seq(E) /\ Len(<<x>> \o s) = n /\ (<<x>> \o s)[1] = x
           /\ \A i \in 2..n : (<<x>> \o s)[i] = s[i - 1]
<1>1. <<x>> \in Seq(E) /\ Len(<<x>>) = 1 /\ <<x>>[1] = x
  OBVIOUS
<1>2. /\ <<x>> \o s \in Seq(E) /\ Len(<<x>> \o s) = 1 + Len(s) /\ (<<x>> \o s)[1] = x
      /\ \A i \in 2..(1 + Len(s)) : (<<x>> \o s)[i] = s[i - 1]
  OBVIOUS
<1>3. 1 + Len(s) = n
  OBVIOUS
<1> QED
  BY <1>2, <1>3

\* A use moves a variant to the front, of the tables and of the history alike.
LEMMA UsedLeads ==
    ASSUME recency \in Seq(Keys), OnceEach(recency),
           NEW s \in Seq(CompletedEntry), Leads(s, recency),
           NEW e \in CompletedEntry, NEW rest,
           \/ rest = s /\ \A i \in DOMAIN s : s[i].key # e.key
           \/ \E i \in DOMAIN s : s[i].key = e.key /\ rest = Without(s, i)
    PROVE  OnceEach(Used(e.key)) /\ Leads(<<e>> \o rest, Used(e.key))
<1> DEFINE k == e.key
           before == {i \in DOMAIN recency : recency[i] = k}
           p == CHOOSE i \in before : TRUE
           r == IF before = {} THEN recency ELSE Without(recency, p)
<1>1. k \in Keys
  BY DEF CompletedEntry
<1>2. Used(k) = <<k>> \o r
  BY DEF Used
<1>3. /\ Len(s) \in Nat /\ Len(recency) \in Nat /\ DOMAIN s = 1..Len(s)
      /\ DOMAIN recency = 1..Len(recency)
      /\ Len(s) <= Len(recency) /\ \A i \in 1..Len(s) : s[i].key = recency[i]
  BY DEF Leads
<1>4. before # {} => p \in DOMAIN recency /\ recency[p] = k
  OBVIOUS
<1>5. CASE before = {}
  <2>1. r = recency /\ rest = s /\ \A i \in DOMAIN recency : recency[i] # k
    BY <1>3, <1>5
  <2>2. Used(k) = <<k>> \o recency
    BY <1>2, <2>1
  <2> HIDE DEF k, before, p, r
  <2>3. /\ Used(k) \in Seq(Keys) /\ Len(Used(k)) = Len(recency) + 1 /\ Used(k)[1] = k
        /\ \A i \in 2..(Len(recency) + 1) : Used(k)[i] = recency[i - 1]
    BY <1>1, <1>3, <2>2
  <2>4. /\ <<e>> \o s \in Seq(CompletedEntry) /\ Len(<<e>> \o s) = Len(s) + 1
        /\ (<<e>> \o s)[1] = e
        /\ \A i \in 2..(Len(s) + 1) : (<<e>> \o s)[i] = s[i - 1]
    BY <1>3
  <2>5. OnceEach(Used(k))
    <3> SUFFICES ASSUME NEW i \in 1..(Len(recency) + 1), NEW j \in 1..(Len(recency) + 1),
                        Used(k)[i] = Used(k)[j]
                 PROVE  i = j
      BY <2>3 DEF OnceEach
    <3>1. ASSUME NEW m \in 2..(Len(recency) + 1)
          PROVE  m - 1 \in DOMAIN recency /\ Used(k)[m] = recency[m - 1] /\ Used(k)[m] # k
      BY <1>3, <2>1, <2>3
    <3>2. CASE i = 1 \/ j = 1
      BY <1>3, <2>3, <3>1, <3>2
    <3>3. CASE i # 1 /\ j # 1
      <4>1. i \in 2..(Len(recency) + 1) /\ j \in 2..(Len(recency) + 1)
        BY <1>3, <3>3
      <4>2. recency[i - 1] = recency[j - 1] /\ i - 1 \in DOMAIN recency /\ j - 1 \in DOMAIN recency
        BY <3>1, <4>1
      <4>3. i - 1 = j - 1
        BY <4>2 DEF OnceEach
      <4> QED
        BY <1>3, <4>3
    <3> QED
      BY <3>2, <3>3
  <2>6. ASSUME NEW i \in 1..(Len(s) + 1)
        PROVE  (<<e>> \o s)[i].key = Used(k)[i]
    <3>1. CASE i = 1
      BY <2>3, <2>4, <3>1 DEF k
    <3>2. CASE i # 1
      <4>1. i \in 2..(Len(s) + 1) /\ i \in 2..(Len(recency) + 1) /\ i - 1 \in 1..Len(s)
        BY <1>3, <3>2
      <4> QED
        BY <1>3, <2>3, <2>4, <4>1
    <3> QED
      BY <3>1, <3>2
  <2>7. Leads(<<e>> \o rest, Used(k))
    <3>1. rest = s /\ Len(<<e>> \o s) <= Len(Used(k))
      BY <1>3, <2>1, <2>3, <2>4
    <3> QED
      BY <2>4, <2>6, <3>1 DEF Leads
  <2> QED
    BY <2>5, <2>7 DEF k
<1>6. CASE before # {}
  <2>1. r = Without(recency, p) /\ p \in DOMAIN recency /\ recency[p] = k
    BY <1>4, <1>6
  <2> HIDE DEF before, p, r
  <2>2. /\ r \in Seq(Keys) /\ Len(r) = Len(recency) - 1
        /\ \A j \in 1..(Len(recency) - 1) : r[j] = IF j < p THEN recency[j] ELSE recency[j + 1]
    BY <2>1, WithoutEntry
  <2>3. \A j \in DOMAIN recency : recency[j] = k => j = p
    BY <2>1 DEF OnceEach
  <2> HIDE DEF k
  <2>4. /\ Used(k) \in Seq(Keys) /\ Len(Used(k)) = Len(recency) /\ Used(k)[1] = k
        /\ \A i \in 2..Len(recency) : Used(k)[i] = r[i - 1]
    <3>1. Used(k) = <<k>> \o r /\ Len(recency) \in Nat
      BY <1>2, <1>3
    <3>2. /\ <<k>> \o r \in Seq(Keys) /\ Len(<<k>> \o r) = Len(recency) /\ (<<k>> \o r)[1] = k
          /\ \A i \in 2..Len(recency) : (<<k>> \o r)[i] = r[i - 1]
      BY ONLY <1>1, <2>2, <3>1, HeadOn
    <3> QED
      BY <3>1, <3>2
  <2> DEFINE At(i) == IF i - 1 < p THEN i - 1 ELSE i
  <2>5. ASSUME NEW i \in 2..Len(recency)
        PROVE  At(i) \in DOMAIN recency /\ At(i) # p /\ Used(k)[i] = recency[At(i)]
    <3>1. i - 1 \in 1..(Len(recency) - 1) /\ (i - 1) + 1 = i /\ p \in 1..Len(recency)
      BY <1>3, <2>1
    <3>2. At(i) \in DOMAIN recency /\ At(i) # p
      BY <1>3, <3>1
    <3> QED
      BY <2>2, <2>4, <3>1, <3>2
  <2>6. OnceEach(Used(k))
    <3> SUFFICES ASSUME NEW i \in 1..Len(recency), NEW j \in 1..Len(recency), Used(k)[i] = Used(k)[j]
                 PROVE  i = j
      BY <2>4 DEF OnceEach
    <3>1. CASE i = 1 /\ j = 1
      BY <3>1
    <3>2. CASE (i = 1) # (j = 1)
      <4>1. PICK m \in 2..Len(recency) : Used(k)[m] = k
        BY <1>3, <2>4, <3>2
      <4> QED
        BY <2>3, <2>5, <4>1
    <3>3. CASE i # 1 /\ j # 1
      <4>1. i \in 2..Len(recency) /\ j \in 2..Len(recency)
        BY <1>3, <3>3
      <4>2. recency[At(i)] = recency[At(j)] /\ At(i) \in DOMAIN recency /\ At(j) \in DOMAIN recency
        BY <2>5, <4>1
      <4>3. At(i) = At(j)
        <5> HIDE DEF At
        <5> QED
          BY <4>2 DEF OnceEach
      <4>4. p \in Nat
        BY <1>3, <2>1
      <4> QED
        BY <4>1, <4>3, <4>4, <2>5
    <3> QED
      BY <3>1, <3>2, <3>3
  <2>7. Leads(<<e>> \o rest, Used(k))
    <3>1. CASE rest = s /\ \A i \in DOMAIN s : s[i].key # k
      <4>1. p > Len(s)
        <5>1. p \notin DOMAIN s
          BY <1>3, <2>1, <3>1
        <5> QED
          BY <1>3, <2>1, <5>1
      <4>2. /\ <<e>> \o s \in Seq(CompletedEntry) /\ Len(<<e>> \o s) = Len(s) + 1
            /\ (<<e>> \o s)[1] = e
            /\ \A i \in 2..(Len(s) + 1) : (<<e>> \o s)[i] = s[i - 1]
        BY <1>3
      <4>3. Len(s) + 1 <= Len(recency)
        BY <1>3, <2>1, <4>1
      <4>4. ASSUME NEW i \in 1..(Len(s) + 1)
            PROVE  (<<e>> \o s)[i].key = Used(k)[i]
        <5>1. CASE i = 1
          BY <2>4, <4>2, <5>1 DEF k
        <5>2. CASE i # 1
          <6>1. i \in 2..(Len(s) + 1) /\ i \in 2..Len(recency) /\ i - 1 \in 1..Len(s) /\ i - 1 < p
            BY <1>3, <2>1, <4>1, <4>3, <5>2
          <6> QED
            BY <1>3, <2>5, <4>2, <6>1
        <5> QED
          BY <5>1, <5>2
      <4> QED
        BY <2>4, <3>1, <4>2, <4>3, <4>4 DEF Leads
    <3>2. ASSUME NEW q \in DOMAIN s, s[q].key = k, rest = Without(s, q)
          PROVE  Leads(<<e>> \o rest, Used(k))
      <4>1. q = p
        BY <1>3, <2>3, <3>2
      <4>2. /\ rest \in Seq(CompletedEntry) /\ Len(rest) = Len(s) - 1
            /\ \A j \in 1..(Len(s) - 1) : rest[j] = IF j < q THEN s[j] ELSE s[j + 1]
        BY <3>2, WithoutEntry
      <4>3. /\ <<e>> \o rest \in Seq(CompletedEntry) /\ Len(<<e>> \o rest) = Len(s)
            /\ (<<e>> \o rest)[1] = e
            /\ \A i \in 2..Len(s) : (<<e>> \o rest)[i] = rest[i - 1]
        <5>1. e \in CompletedEntry /\ Len(s) \in Nat
          BY <1>3
        <5> QED
          BY ONLY <4>2, <5>1, HeadOn
      <4>4. ASSUME NEW i \in 1..Len(s)
            PROVE  (<<e>> \o rest)[i].key = Used(k)[i]
        <5>1. CASE i = 1
          BY <2>4, <4>3, <5>1 DEF k
        <5>2. CASE i # 1
          <6>1. /\ i \in 2..Len(s) /\ i \in 2..Len(recency) /\ i - 1 \in 1..(Len(s) - 1)
                /\ (i - 1) + 1 = i
            BY <1>3, <5>2
          <6>2. (<<e>> \o rest)[i] = IF i - 1 < p THEN s[i - 1] ELSE s[i]
            BY <4>1, <4>2, <4>3, <6>1
          <6>3. s[i - 1].key = recency[i - 1] /\ s[i].key = recency[i]
            BY <1>3, <6>1
          <6>4. Used(k)[i] = recency[At(i)]
            BY <2>5, <6>1
          <6> QED
            BY <6>2, <6>3, <6>4
        <5> QED
          BY <5>1, <5>2
      <4>5. Len(s) <= Len(Used(k))
        BY <1>3, <2>4
      <4> QED
        BY <4>3, <4>4, <4>5 DEF Leads
    <3> QED
      BY <3>1, <3>2 DEF k
  <2> QED
    BY <2>6, <2>7 DEF k
<1> QED
  BY <1>5, <1>6

-----------------------------------------------------------------------------
(* The theorems.                                                           *)

LEMMA InitIInv == Init => IInv
<1> SUFFICES ASSUME Init PROVE IInv
  OBVIOUS
<1>1. Sound(table) /\ Fits(table, 0, 0, 0) /\ ~ OverLimit({})
  BY EmptyTableSound DEF Init
<1>2. table.interned = {}
  BY DEF Init, EmptyTable
<1>3. HistoryOK
  BY BudgetAssumption DEF Init, HistoryOK
<1> QED
  BY <1>1, <1>2, <1>3 DEF IInv, StoreInv, Init, CurrentKeysDecodable

LEMMA NextIInv == IInv /\ [Next]_vars => IInv'
<1> SUFFICES ASSUME IInv, [Next]_vars PROVE IInv'
  OBVIOUS
<1>1. ASSUME NEW c \in Calls, Lookup(c) PROVE IInv'
  BY <1>1, LookupStep
<1>2. ASSUME NEW k \in keys, NEW bag \in Bags, RememberCompleted(k, bag) PROVE IInv'
  BY <1>2, RememberStep
<1>3. ASSUME NEW k \in keys, BeginActive(k) PROVE IInv'
  BY <1>3, BeginStep
<1>4. ASSUME NEW i \in DOMAIN table.active, NEW bag \in Bags, AddActiveAnswers(i, bag) PROVE IInv'
  BY <1>4, AddStep
<1>5. ASSUME NEW k \in keys, EndActive(k) PROVE IInv'
  BY <1>5, EndStep
<1>6. CASE Clear
  BY <1>6, ClearStep
<1>7. CASE UNCHANGED vars
  BY <1>7 DEF vars, IInv, HistoryOK, CurrentKeysDecodable, IsCurrentKey
<1> QED
  BY <1>1, <1>2, <1>3, <1>4, <1>5, <1>6, <1>7 DEF Next

LEMMA Invariance == Spec => []IInv
BY InitIInv, NextIInv, PTL DEF Spec

LEMMA NothingLeads == OnceEach(<<>>) /\ Leads(<<>>, <<>>)
BY DEF OnceEach, Leads

LEMMA StoreParts ==
    ASSUME IInv, RecencyOK
    PROVE  /\ Sound(table) /\ Fits(table, 0, 0, 0) /\ table \in Store
           /\ table.completed \in Seq(CompletedEntry) /\ recency \in Seq(Keys)
           /\ OnceEach(recency) /\ Leads(table.completed, recency) /\ keys \subseteq Keys
BY DEF IInv, StoreInv, HistoryOK, RecencyOK, Sound, Store

LEMMA LookupRecency ==
    ASSUME IInv, RecencyOK, NEW c \in Calls, Lookup(c)
    PROVE  RecencyOK'
<1> DEFINE t == EncodeKey(table, c)
           k == [call |-> c, gen |-> t.generation]
<1>1. /\ Sound(t)
      /\ t.completed = IF t.generation = table.generation THEN table.completed ELSE <<>>
  BY StoreParts, EncodeKeySound
<1>2. \/ table' = t /\ recency' = IF t.generation = table.generation THEN recency ELSE <<>>
      \/ \E i \in DOMAIN t.completed :
            t.completed[i].key = k /\ table' = Touch(t, i) /\ recency' = Used(k)
  BY DEF Lookup, Find
<1> HIDE DEF t, k
<1>3. CASE table' = t /\ recency' = IF t.generation = table.generation THEN recency ELSE <<>>
  BY <1>1, <1>3, StoreParts, NothingLeads DEF RecencyOK
<1>4. ASSUME NEW i \in DOMAIN t.completed,
             t.completed[i].key = k, table' = Touch(t, i), recency' = Used(k)
      PROVE  RecencyOK'
  <2> DEFINE s == table.completed
             e == s[i]
             rest == Without(s, i)
  <2>1. t.completed = s
    BY <1>1, <1>4
  <2>2. s \in Seq(CompletedEntry) /\ i \in DOMAIN s /\ e \in CompletedEntry /\ e.key = k
    BY <1>4, <2>1, StoreParts
  <2>3. table'.completed = <<e>> \o rest
    BY <1>1, <1>4, <2>1 DEF Touch, Sound, Store
  <2> HIDE DEF e, rest, s
  <2>4. recency \in Seq(Keys) /\ OnceEach(recency) /\ Leads(s, recency)
    BY StoreParts DEF s
  <2>5. \E j \in DOMAIN s : s[j].key = e.key /\ rest = Without(s, j)
    BY <2>2 DEF e, rest
  <2>6. OnceEach(Used(k)) /\ Leads(<<e>> \o rest, Used(k))
    BY <2>2, <2>4, <2>5, UsedLeads
  <2> QED
    BY <1>4, <2>3, <2>6 DEF RecencyOK
<1> QED
  BY <1>2, <1>3, <1>4

LEMMA RememberRecency ==
    ASSUME IInv, RecencyOK, NEW k \in keys, NEW bag \in Bags, RememberCompleted(k, bag)
    PROVE  RecencyOK'
<1> DEFINE cost == EntryCost(k.call, bag)
           entry == [key |-> k, answerCount |-> Len(bag), approxCells |-> cost]
           old == Find(table.completed, k)
           base == WithoutOld(table, k)
           put == InsertHead(base, entry)
           fits == Evict(put)
           stored == cost <= MaxEntryCells
           next == IF stored THEN fits ELSE table
<1>1. table' = MaybeResetInterner(next)
  BY DEF RememberCompleted
<1>2. recency' = IF table'.generation # table.generation THEN <<>>
                 ELSE IF stored THEN Used(k) ELSE recency
  BY DEF RememberCompleted
<1>3. Sound(table) /\ k \in Keys /\ k.gen = table.generation /\ CallLeaves[k.call] \subseteq table.interned
  BY StoreParts DEF RememberCompleted, IInv, CurrentKeysDecodable, IsCurrentKey
<1>4. entry \in CompletedEntry /\ entry.key = k
  BY <1>3, EntryTyped
<1>5. /\ Sound(base) /\ SameActive(table, base)
      /\ \A j \in DOMAIN base.completed : base.completed[j].key # k
      /\ \/ base.completed = table.completed /\ \A i \in DOMAIN table.completed : table.completed[i].key # k
         \/ \E i \in DOMAIN table.completed :
               table.completed[i].key = k /\ base.completed = Without(table.completed, i)
  <2>1. CASE old = {}
    BY <1>3, <2>1 DEF Find, SameActive, WithoutOld
  <2>2. CASE old # {}
    <3> DEFINE i == CHOOSE n \in old : TRUE
    <3>1. i \in DOMAIN table.completed /\ table.completed[i].key = k
      BY <2>2 DEF Find
    <3>2. base = Remove(table, i)
      BY <2>2 DEF WithoutOld
    <3> HIDE DEF i, base
    <3> QED
      BY <1>3, <3>1, <3>2, RemoveSound
  <2> QED
    BY <2>1, <2>2
<1> HIDE DEF base, entry, cost
<1>6. Sound(put) /\ SameActive(table, put) /\ put.completed = <<entry>> \o base.completed
  <2>1. k.gen = base.generation /\ CallLeaves[k.call] \subseteq base.interned
    BY <1>3, <1>5 DEF SameActive
  <2>2. Sound(put) /\ SameActive(base, put) /\ put.completed = <<entry>> \o base.completed
    BY <1>4, <1>5, <2>1, InsertHeadSound
  <2> HIDE DEF put
  <2> QED
    BY <1>5, <2>2 DEF SameActive
<1> HIDE DEF put
<1>7. Sound(fits) /\ SameActive(table, fits) /\ Shortened(put.completed, fits.completed)
  <2>1. Sound(fits) /\ SameActive(put, fits) /\ Shortened(put.completed, fits.completed)
    BY <1>6, MakeRoomSound DEF Evict
  <2> HIDE DEF fits
  <2> QED
    BY <1>6, <2>1 DEF SameActive
<1>8. OnceEach(Used(k)) /\ Leads(fits.completed, Used(k))
  <2> DEFINE s == table.completed
             rest == base.completed
             p == fits.completed
  <2>1. s \in Seq(CompletedEntry) /\ recency \in Seq(Keys) /\ OnceEach(recency) /\ Leads(s, recency)
    BY StoreParts
  <2>2. \/ rest = s /\ \A i \in DOMAIN s : s[i].key # entry.key
        \/ \E i \in DOMAIN s : s[i].key = entry.key /\ rest = Without(s, i)
    BY <1>4, <1>5
  <2>3. put.completed = <<entry>> \o rest /\ Shortened(put.completed, p) /\ put.completed \in Seq(CompletedEntry)
    BY <1>6, <1>7 DEF Sound, Store
  <2> HIDE DEF s, rest, p
  <2>4. OnceEach(Used(k)) /\ Leads(<<entry>> \o rest, Used(k))
    <3>1. OnceEach(Used(entry.key)) /\ Leads(<<entry>> \o rest, Used(entry.key))
      BY <1>4, <2>1, <2>2, UsedLeads
    <3> QED
      BY <1>4, <3>1
  <2>5. Leads(put.completed, Used(k))
    BY <2>3, <2>4
  <2>6. /\ Len(p) <= Len(put.completed) /\ \A i \in 1..Len(p) : p[i] = put.completed[i]
        /\ p \in Seq(CompletedEntry)
    <3> DEFINE q == put.completed
    <3>1. q \in Seq(CompletedEntry) /\ Shortened(q, p)
      BY <2>3
    <3> HIDE DEF q
    <3>2. Len(p) <= Len(q) /\ (\A i \in 1..Len(p) : p[i] = q[i]) /\ p \in Seq(CompletedEntry)
      BY <3>1, ShortenedFacts
    <3> QED
      BY <3>2 DEF q
  <2>7. Used(k) \in Seq(Keys)
    BY <1>3, <2>1, UsedType
  <2>8. Leads(p, Used(k))
    BY <2>3, <2>5, <2>6, <2>7 DEF Leads
  <2> QED
    BY <2>4, <2>8 DEF p
<1> HIDE DEF fits, stored
<1>9. Sound(next) /\ SameActive(table, next)
  BY <1>3, <1>7 DEF SameActive
<1>12. next = IF stored THEN fits ELSE table
  OBVIOUS
<1> HIDE DEF next
<1>10. CASE table' = next
  <2>1. table'.generation = table.generation
    BY <1>9, <1>10 DEF SameActive
  <2>2. CASE stored
    BY <1>2, <1>8, <1>10, <1>12, <2>1, <2>2 DEF RecencyOK
  <2>3. CASE ~ stored
    BY <1>2, <1>10, <1>12, <2>1, <2>3, StoreParts DEF RecencyOK
  <2> QED
    BY <2>2, <2>3
<1>11. CASE table' # next
  <2>1. table' = EmptyTable(next.generation + 1)
    BY <1>1, <1>9, <1>11, MaybeResetSound
  <2>2. next.generation = table.generation /\ table.generation \in Nat
    BY <1>3, <1>9 DEF SameActive, Sound, Store
  <2>3. table'.generation # table.generation /\ table'.completed = <<>>
    <3>1. table'.generation = next.generation + 1 /\ table'.completed = <<>>
      BY <2>1 DEF EmptyTable
    <3> QED
      BY <2>2, <3>1
  <2>4. recency' = <<>>
    BY <1>2, <2>3
  <2> QED
    BY <2>3, <2>4, NothingLeads DEF RecencyOK
<1> QED
  BY <1>10, <1>11

LEMMA BeginRecency ==
    ASSUME IInv, RecencyOK, NEW k \in keys, BeginActive(k)
    PROVE  RecencyOK'
<1> DEFINE charge == 1 + CallVars[k.call]
           room == MakeRoom(table, 1, 0, charge)
<1>1. charge \in Nat
  BY StoreParts, CallAssumption DEF Keys
<1>2. recency' = recency /\ table'.completed = room.completed
  <2>1. Sound(room)
    BY <1>1, StoreParts, MakeRoomSound
  <2>2. room \in Store
    BY <2>1 DEF Sound
  <2>3. recency' = recency /\ \/ table' = room
                              \/ \E e : table' = [room EXCEPT !.active = Append(@, e), !.activeCount = @ + 1,
                                                              !.activeCells = @ + charge]
    BY DEF BeginActive
  <2> HIDE DEF room, charge
  <2> QED
    BY <2>2, <2>3 DEF Store
<1>3. Shortened(table.completed, room.completed)
  BY <1>1, StoreParts, MakeRoomSound
<1> HIDE DEF room
<1> QED
  BY <1>2, <1>3, StoreParts, ShortenedLeads DEF RecencyOK

LEMMA AddRecency ==
    ASSUME IInv, RecencyOK, NEW i \in DOMAIN table.active, NEW bag \in Bags, AddActiveAnswers(i, bag)
    PROVE  RecencyOK'
<1>1. bag \in Seq(Answers) /\ table' = AfterAnswers(table, i, bag) /\ recency' = recency
  BY AnswerAssumption DEF AddActiveAnswers
<1>2. Shortened(table.completed, table'.completed)
  BY <1>1, StoreParts, AfterAnswersKept DEF Kept
<1> QED
  BY <1>1, <1>2, StoreParts, ShortenedLeads DEF RecencyOK

LEMMA EndRecency ==
    ASSUME IInv, RecencyOK, NEW k \in keys, EndActive(k)
    PROVE  RecencyOK'
<1>1. PICK i \in DOMAIN table.active :
         table' = MaybeResetInterner(
                    [table EXCEPT !.active = Without(@, i),
                                  !.activeCount = @ - 1,
                                  !.activeAnswers = @ - table.active[i].answerCount,
                                  !.activeCells = @ - table.active[i].approxCells])
  BY DEF EndActive, Find
<1> DEFINE u == [table EXCEPT !.active = Without(@, i),
                              !.activeCount = @ - 1,
                              !.activeAnswers = @ - table.active[i].answerCount,
                              !.activeCells = @ - table.active[i].approxCells]
<1>2. u.completed = table.completed /\ u.generation = table.generation /\ table.generation \in Nat
  BY StoreParts DEF Store
<1>3. recency' = IF table'.generation = table.generation THEN recency ELSE <<>>
  BY DEF EndActive
<1>4. table' = u \/ table' = EmptyTable(u.generation + 1)
  BY <1>1 DEF MaybeResetInterner, ResetInternerAndTables
<1> HIDE DEF u
<1>5. CASE table' = u
  BY <1>2, <1>3, <1>5, StoreParts DEF RecencyOK
<1>6. CASE table' = EmptyTable(u.generation + 1)
  <2>1. table'.generation = table.generation + 1 /\ table'.completed = <<>>
    BY <1>2, <1>6 DEF EmptyTable
  <2> QED
    BY <1>2, <1>3, <2>1, NothingLeads DEF RecencyOK
<1> QED
  BY <1>4, <1>5, <1>6

LEMMA ClearRecency ==
    ASSUME Clear
    PROVE  RecencyOK'
BY NothingLeads DEF Clear, ResetInternerAndTables, EmptyTable, RecencyOK

LEMMA RecencyInvariance == Spec => [](IInv /\ RecencyOK)
<1>1. Init => RecencyOK
  BY NothingLeads DEF Init, EmptyTable, RecencyOK
<1>2. IInv /\ RecencyOK /\ [Next]_vars => RecencyOK'
  <2> SUFFICES ASSUME IInv, RecencyOK, [Next]_vars PROVE RecencyOK'
    OBVIOUS
  <2>1. ASSUME NEW c \in Calls, Lookup(c) PROVE RecencyOK'
    BY <2>1, LookupRecency
  <2>2. ASSUME NEW k \in keys, NEW bag \in Bags, RememberCompleted(k, bag) PROVE RecencyOK'
    BY <2>2, RememberRecency
  <2>3. ASSUME NEW k \in keys, BeginActive(k) PROVE RecencyOK'
    BY <2>3, BeginRecency
  <2>4. ASSUME NEW i \in DOMAIN table.active, NEW bag \in Bags, AddActiveAnswers(i, bag) PROVE RecencyOK'
    BY <2>4, AddRecency
  <2>5. ASSUME NEW k \in keys, EndActive(k) PROVE RecencyOK'
    BY <2>5, EndRecency
  <2>6. CASE Clear
    BY <2>6, ClearRecency
  <2>7. CASE UNCHANGED vars
    BY <2>7 DEF vars, RecencyOK
  <2> QED
    BY <2>1, <2>2, <2>3, <2>4, <2>5, <2>6, <2>7 DEF Next
<1> QED
  BY <1>1, <1>2, InitIInv, NextIInv, PTL DEF Spec

\* What the store holds is always of its type: no counter ever goes below zero.
THEOREM TypeCorrect == Spec => []TypeOK
<1>1. IInv => TypeOK
  BY DEF IInv, StoreInv, Sound, HistoryOK, TypeOK
<1> QED
  BY <1>1, Invariance, PTL

\* The store is of its type, and the running counters of completed and active tables
\* are exact, whatever the calls, the answers and the limits.
THEOREM CountersExact == Spec => []CountersAgree
<1>1. IInv /\ TypeOK => CountersAgree
  BY DEF IInv, StoreInv, Sound, CountersAgree
<1> QED
  BY <1>1, Invariance, TypeCorrect, PTL

\* No sequence of operations takes the tables past any of the three limits.
LEMMA WithinBudget == Spec => []BudgetRespected
<1>1. IInv => BudgetRespected
  <2> SUFFICES ASSUME IInv PROVE BudgetRespected
    OBVIOUS
  <2>1. /\ table.entries \in Nat /\ table.answers \in Nat /\ table.cells \in Nat
        /\ table.activeCount \in Nat /\ table.activeAnswers \in Nat /\ table.activeCells \in Nat
    BY DEF IInv, StoreInv, Sound, Store
  <2> QED
    BY <2>1, BudgetAssumption DEF IInv, StoreInv, Fits, BudgetRespected
<1> QED
  BY <1>1, Invariance, PTL

\* A variant never has two completed tables, nor two active ones.
THEOREM OneTablePerVariant == Spec => []NoVariantTwice
<1>1. IInv => NoVariantTwice
  BY DEF IInv, StoreInv, Sound, ListOK, NoVariantTwice
<1> QED
  BY <1>1, Invariance, PTL

\* Every resident table is keyed by leaf ids the present interner gave out.
LEMMA ResidentDecodable == Spec => []ResidentKeysDecodable
<1>1. IInv => ResidentKeysDecodable
  BY DEF IInv, StoreInv, Sound, ListOK, ResidentKeysDecodable
<1> QED
  BY <1>1, Invariance, PTL

\* So is every key the evaluator still holds, unless it is stale and refused.
LEMMA CurrentDecodable == Spec => []CurrentKeysDecodable
<1>1. IInv => CurrentKeysDecodable
  BY DEF IInv
<1> QED
  BY <1>1, Invariance, PTL

\* The interner is over its limit only while a producer pins it.
LEMMA InternerWithinLimit == Spec => []InternerBounded
<1>1. IInv => InternerBounded
  BY DEF IInv, StoreInv, InternerBounded
<1> QED
  BY <1>1, Invariance, PTL

\* The limits of the store hold after every sequence of operations, whatever they are.
THEOREM WithinLimits == Spec => []LimitsRespected
<1>1. BudgetRespected /\ InternerBounded => LimitsRespected
  BY DEF LimitsRespected
<1> QED
  BY <1>1, WithinBudget, InternerWithinLimit, PTL

\* A key that answers a lookup encodes the call it was made for, over every reset of the
\* interner.
THEOREM KeysDecode == Spec => []KeysDecodable
<1>1. ResidentKeysDecodable /\ CurrentKeysDecodable => KeysDecodable
  BY DEF KeysDecodable
<1> QED
  BY <1>1, ResidentDecodable, CurrentDecodable, PTL

\* What is evicted are the least recently used tables: those that stay are the latest uses in
\* their order, through replacements, hits, active tables that squeeze them out and resets.
THEOREM LeastRecentEvicted == Spec => []LeastRecentlyUsedEvicted
<1>1. RecencyOK => LeastRecentlyUsedEvicted
  BY DEF RecencyOK, Leads, LeastRecentlyUsedEvicted
<1> QED
  BY <1>1, RecencyInvariance, PTL

\* A revoked functor stays revoked: counting stops at the threshold and only a hit,
\* which needs an admitted lookup, sets the flag.
THEOREM RevocationFinal == Spec => RevocationIsFinal
<1>1. TypeOK /\ [Next]_vars =>
        \A f \in Functors : ~ AdmitsFunctor(f) => ~ AdmitsFunctor(f)'
  <2> SUFFICES ASSUME TypeOK, [Next]_vars, NEW f \in Functors, ~ AdmitsFunctor(f)
               PROVE  ~ AdmitsFunctor(f)'
    OBVIOUS
  <2>1. \A c \in Calls : Lookup(c) => utility'[f] = utility[f]
    BY DEF Lookup, AdmitsFunctor, TypeOK
  <2>2. \A k \in keys, bag \in Bags : RememberCompleted(k, bag) => utility'[f] = utility[f]
    BY DEF RememberCompleted, AdmitsFunctor, TypeOK
  <2>3. utility'[f] = utility[f]
    BY <2>1, <2>2 DEF Next, BeginActive, AddActiveAnswers, EndActive, Clear, vars
  <2> QED
    BY <2>3 DEF AdmitsFunctor
<1> QED
  BY <1>1, TypeCorrect, PTL DEF Spec, RevocationIsFinal
=============================================================================
