------------------------- MODULE EdslTransactionsProofs -------------------------
(***************************************************************************)
(* Proofs about EdslTransactions, for any atoms, listeners and bounds and  *)
(* whatever watch callbacks do while the space is put back: recording is   *)
(* consistent, reports list what their bodies did, no listener is lost,    *)
(* and what is put back is what was found.                                 *)
(***************************************************************************)
EXTENDS EdslTransactions, SequenceTheorems, FiniteSetTheorems, SequenceFunctionsProofs

Entry == Changes \cup {Hole}

\* A restore that nothing disturbed is the innermost frame, outside an evaluation, and
\* the space is as far back as it got.
Undisturbed(frames) == {i \in 1..Len(frames) : frames[i].phase # "body" /\ frames[i].quiet}
RestoreSound ==
    /\ \A i \in Undisturbed(stack) : i = Level /\ eval = << >>
    /\ Level \in Undisturbed(stack) =>
         /\ Top.phase = "cleared" => kb = << >> /\ world = NoEffects
         /\ Top.phase = "refilled" => kb = Top.before /\ world = NoEffects

Watched == watching = (recordDepth > 0 \/ changeListeners # {})
Reported == reports # << >> => reports[1].before \in Seq(Atoms)

IInv ==
    /\ TypeOK /\ Reported /\ Watched
    /\ DepthsNested(stack, recordDepth)
    /\ ~emptied => LogOfFrames(stack, changeLog)
    /\ ListenersKept /\ ReportExact /\ RestoreSound

-----------------------------------------------------------------------------
(* Sequences of frames.                                                    *)

LEMMA FrameFields ==
    \A f \in Frames :
        /\ f.kind \in {"transaction", "dryRun", "undo"}
        /\ f.phase \in {"body", "clear", "cleared", "refilled"}
        /\ f.mark \in Nat /\ f.own \in Seq(Changes) /\ f.depth \in Nat
        /\ f.before \in Seq(Atoms) /\ f.shelf \in Seq(Atoms)
        /\ f.listeners \subseteq Listeners /\ f.quiet \in BOOLEAN
BY DEF Frames

LEMMA FramesOf ==
    ASSUME NEW fs \in Seq(Frames)
    PROVE  /\ Len(fs) \in Nat /\ DOMAIN fs = 1..Len(fs)
           /\ \A i \in 1..Len(fs) : fs[i] \in Frames
           /\ fs # << >> <=> Len(fs) > 0
           /\ fs # << >> => Len(fs) \in 1..Len(fs) /\ fs[Len(fs)] \in Frames
<1>1. Len(fs) \in Nat /\ DOMAIN fs = 1..Len(fs)
  BY LenProperties
<1>2. \A i \in 1..Len(fs) : fs[i] \in Frames
  BY ElementOfSeq
<1>3. fs # << >> <=> Len(fs) > 0
  BY <1>1, EmptySeq
<1> QED
  BY <1>1, <1>2, <1>3

LEMMA TopReplaced ==
    ASSUME NEW fs \in Seq(Frames), fs # << >>, NEW f \in Frames
    PROVE  LET gs == [fs EXCEPT ![Len(fs)] = f]
           IN  /\ gs \in Seq(Frames) /\ gs # << >> /\ Len(gs) = Len(fs) /\ gs[Len(fs)] = f
               /\ \A i \in 1..Len(fs) : gs[i] = IF i = Len(fs) THEN f ELSE fs[i]
<1> DEFINE gs == [fs EXCEPT ![Len(fs)] = f]
<1>1. Len(fs) \in 1..Len(fs)
  BY FramesOf
<1>2. /\ gs \in Seq(Frames) /\ Len(gs) = Len(fs)
      /\ \A i \in 1..Len(fs) : gs[i] = IF i = Len(fs) THEN f ELSE fs[i]
  BY <1>1, ExceptSeq
<1> HIDE DEF gs
<1>3. gs # << >>
  BY <1>1, <1>2, FramesOf
<1>4. gs[Len(fs)] = f
  BY <1>1, <1>2
<1> QED
  BY <1>2, <1>3, <1>4 DEF gs

LEMMA FrontOf ==
    ASSUME NEW fs \in Seq(Frames), fs # << >>
    PROVE  /\ Front(fs) \in Seq(Frames) /\ Len(Front(fs)) = Len(fs) - 1
           /\ \A i \in 1..Len(fs) - 1 : i \in 1..Len(fs) /\ Front(fs)[i] = fs[i]
<1>1. Len(fs) \in Nat /\ Len(fs) >= 1 /\ \A i \in 1..Len(fs) - 1 : fs[i] \in Frames
  BY FramesOf
<1> DEFINE n == Len(fs) - 1
<1>2. n \in Int /\ n >= 0 /\ \A i \in 1..n : fs[i] \in Frames
  BY <1>1
<1> HIDE DEF n
<1>3. /\ SubSeq(fs, 1, n) \in Seq(Frames)
      /\ Len(SubSeq(fs, 1, n)) = IF 1 <= n THEN n - 1 + 1 ELSE 0
      /\ \A i \in 1..n - 1 + 1 : SubSeq(fs, 1, n)[i] = fs[1 + i - 1]
  BY <1>2, SubSeqProperties
<1>4. Len(SubSeq(fs, 1, n)) = n /\ \A i \in 1..n : SubSeq(fs, 1, n)[i] = fs[i]
  BY <1>2, <1>3
<1> QED
  BY <1>1, <1>3, <1>4 DEF n, Front

\* What is said of the log looks at the marks and the changes only.
LEMMA LogRelabelled ==
    ASSUME NEW fs, NEW gs, NEW l, LogOfFrames(fs, l), Len(gs) = Len(fs), Len(fs) \in Nat,
           \A i \in 1..Len(fs) : gs[i].mark = fs[i].mark /\ gs[i].own = fs[i].own
    PROVE  LogOfFrames(gs, l)
BY DEF LogOfFrames

LEMMA LogPushed ==
    ASSUME NEW fs \in Seq(Frames), NEW l \in Seq(Entry), LogOfFrames(fs, l),
           NEW f \in Frames, f.mark = Len(l), f.own = << >>
    PROVE  LogOfFrames(Append(fs, f), l)
<1> DEFINE gs == Append(fs, f)
<1>1. /\ Len(gs) = Len(fs) + 1 /\ gs[Len(fs) + 1] = f
      /\ \A i \in 1..Len(fs) : gs[i] = fs[i]
      /\ Len(fs) \in Nat
  BY AppendProperties, FramesOf
<1> HIDE DEF gs
<1>2. ASSUME NEW i \in 1..Len(gs), i # Len(gs)
      PROVE  /\ gs[i].mark + Len(gs[i].own) = gs[i + 1].mark
             /\ \A n \in 1..Len(gs[i].own) : l[gs[i].mark + n] = gs[i].own[n]
  <2>1. i \in 1..Len(fs) /\ gs[i] = fs[i]
    BY <1>1, <1>2
  <2>2. gs[i + 1].mark = IF i = Len(fs) THEN Len(l) ELSE fs[i + 1].mark
    <3>1. CASE i = Len(fs)
      BY <1>1, <3>1
    <3>2. CASE i # Len(fs)
      <4>1. i + 1 \in 1..Len(fs)
        BY <1>1, <2>1, <3>2
      <4> QED
        BY <1>1, <3>2, <4>1
    <3> QED
      BY <3>1, <3>2
  <2> QED
    BY <2>1, <2>2 DEF LogOfFrames
<1>3. f.mark + Len(f.own) = Len(l) /\ \A n \in 1..Len(f.own) : l[f.mark + n] = f.own[n]
  <2>1. Len(<< >>) = 0 /\ Len(l) \in Nat
    BY EmptySeq, LenProperties
  <2> QED
    BY <2>1
<1> QED
  BY <1>1, <1>2, <1>3 DEF LogOfFrames, gs

\* What a frame logged ends before the marks of those above it, by induction downwards.
LEMMA MarksInOrder ==
    ASSUME NEW fs \in Seq(Frames), NEW l \in Seq(Entry), LogOfFrames(fs, l)
    PROVE  \A i \in 1..Len(fs) :
             /\ fs[i].mark + Len(fs[i].own) <= Len(l)
             /\ fs[i].mark + Len(fs[i].own) <= fs[Len(fs)].mark \/ i = Len(fs)
<1> DEFINE m == Len(fs)
           EndAt(i) == fs[i].mark + Len(fs[i].own)
           Bounded(i) == EndAt(i) <= Len(l) /\ (EndAt(i) <= fs[m].mark \/ i = m)
           T == {n \in 0..m : n < m => Bounded(m - n)}
<1>1. m \in Nat /\ Len(l) \in Nat
  BY FramesOf, LenProperties
<1>2. \A i \in 1..m : fs[i].mark \in Nat /\ Len(fs[i].own) \in Nat
  BY FramesOf, FrameFields, LenProperties
<1>3. \A i \in 1..m : EndAt(i) = IF i = m THEN Len(l) ELSE fs[i + 1].mark
  BY DEF LogOfFrames
<1>4. \A i \in 1..m : EndAt(i) \in Nat /\ fs[i].mark \in Nat /\ fs[i].mark <= EndAt(i)
  BY <1>2
<1> HIDE DEF EndAt, m
<1>5. 0 \in T
  <2>1. m > 0 => Bounded(m)
    BY <1>1, <1>3
  <2> QED
    BY <1>1, <2>1
<1>6. ASSUME NEW n \in 1..m, n - 1 \in T PROVE n \in T
  <2>1. CASE n < m
    <3> DEFINE i == m - n
    <3>1. i \in 1..m /\ i # m /\ i + 1 \in 1..m /\ m - (n - 1) = i + 1 /\ n - 1 < m
      BY <1>1, <2>1
    <3>2. Bounded(i + 1) /\ EndAt(i) = fs[i + 1].mark
      BY <1>3, <1>6, <3>1
    <3> HIDE DEF i
    <3>3. Bounded(i)
      <4>1. EndAt(i) <= EndAt(i + 1) /\ EndAt(i) \in Nat /\ EndAt(i + 1) \in Nat
        BY <1>4, <3>1, <3>2
      <4>2. EndAt(i) <= Len(l)
        BY <1>1, <3>2, <4>1
      <4>3. EndAt(i) <= fs[m].mark
        <5>1. CASE i + 1 = m
          BY <3>2, <4>1, <5>1
        <5>2. CASE i + 1 # m
          <6>1. m \in 1..m
            BY <1>1, <3>1
          <6>2. fs[m].mark \in Nat
            BY <1>4, <6>1
          <6> QED
            BY <3>2, <4>1, <5>2, <6>2
        <5> QED
          BY <5>1, <5>2
      <4> QED
        BY <4>2, <4>3
    <3> QED
      BY <1>1, <2>1, <3>3 DEF i
  <2>2. CASE ~(n < m)
    BY <1>1, <2>2
  <2> QED
    BY <2>1, <2>2
<1>7. \A n \in 0..m : n \in T
  BY <1>1, <1>5, <1>6, SetInduction
<1>8. ASSUME NEW i \in 1..m PROVE Bounded(i)
  <2>1. m - i \in 0..m /\ m - i < m /\ m - (m - i) = i
    BY <1>1
  <2> QED
    BY <1>7, <2>1
<1> QED
  BY <1>8 DEF EndAt, m

\* A span at the end of the log that grows with it: a is the length of the log, b that
\* of the span and c that of what is added.
SpanAt(l, k, o, b) == \A n \in 1..b : l[k + n] = o[n]
Joins(L, l, a, cs, c) == \A i \in 1..a + c : L[i] = IF i <= a THEN l[i] ELSE cs[i - a]

LEMMA SpanGrown ==
    ASSUME NEW l, NEW L, NEW o, NEW O, NEW cs, NEW k \in Nat, NEW a \in Nat, NEW b \in Nat, NEW c \in Nat,
           k + b = a, SpanAt(l, k, o, b), Joins(L, l, a, cs, c), Joins(O, o, b, cs, c)
    PROVE  SpanAt(L, k, O, b + c)
<1> USE DEF SpanAt, Joins
<1>1. ASSUME NEW n \in 1..b + c PROVE L[k + n] = O[n]
  <2>1. k + n \in 1..a + c /\ (k + n <= a <=> n <= b) /\ k + n - a = n - b
    OBVIOUS
  <2>2. CASE n <= b
    <3>1. n \in 1..b
      BY <2>2
    <3> QED
      BY <2>1, <2>2, <3>1
  <2>3. CASE ~(n <= b)
    <3>1. O[n] = cs[n - b]
      BY <2>3
    <3>2. L[k + n] = cs[k + n - a]
      BY <2>1, <2>3
    <3> QED
      BY <2>1, <3>1, <3>2
  <2> QED
    BY <2>2, <2>3
<1> QED
  BY <1>1

\* Changes the innermost frame adds to the log.
LEMMA LogGrown ==
    ASSUME NEW fs \in Seq(Frames), fs # << >>, NEW l \in Seq(Entry), LogOfFrames(fs, l),
           NEW cs \in Seq(Changes), NEW f \in Frames,
           f.mark = fs[Len(fs)].mark, f.own = fs[Len(fs)].own \o cs
    PROVE  LogOfFrames([fs EXCEPT ![Len(fs)] = f], l \o cs)
<1> DEFINE gs == [fs EXCEPT ![Len(fs)] = f]
           m == Len(fs)
           o == fs[m].own
           k == fs[m].mark
           L == l \o cs
           O == f.own
<1>1. /\ m \in Nat /\ m \in 1..m /\ fs[m] \in Frames /\ \A i \in 1..m : fs[i] \in Frames
      /\ Len(gs) = m /\ \A i \in 1..m : gs[i] = IF i = m THEN f ELSE fs[i]
  BY FramesOf, TopReplaced
<1>2. o \in Seq(Changes) /\ k \in Nat /\ Len(o) \in Nat /\ Len(cs) \in Nat /\ Len(l) \in Nat
  BY <1>1, FrameFields, LenProperties
<1>3. cs \in Seq(Entry)
  BY SeqMonotonic DEF Entry
<1>4. /\ Len(L) = Len(l) + Len(cs)
      /\ \A i \in 1..Len(l) + Len(cs) : L[i] = IF i <= Len(l) THEN l[i] ELSE cs[i - Len(l)]
  BY <1>3, ConcatProperties
<1>5. /\ Len(O) = Len(o) + Len(cs)
      /\ \A i \in 1..Len(o) + Len(cs) : O[i] = IF i <= Len(o) THEN o[i] ELSE cs[i - Len(o)]
  BY <1>2, ConcatProperties
<1>6. /\ k + Len(o) = Len(l)
      /\ \A n \in 1..Len(o) : l[k + n] = o[n]
  BY <1>1 DEF LogOfFrames
<1>7. f.mark = k /\ f.own = O
  OBVIOUS
<1>8. \A i \in 1..m : fs[i].mark \in Nat /\ Len(fs[i].own) \in Nat
  BY <1>1, FrameFields, LenProperties
<1>9. \A i \in 1..m : /\ fs[i].mark + Len(fs[i].own) = IF i = m THEN Len(l) ELSE fs[i + 1].mark
                      /\ fs[i].mark + Len(fs[i].own) <= Len(l)
                      /\ \A n \in 1..Len(fs[i].own) : l[fs[i].mark + n] = fs[i].own[n]
  BY MarksInOrder DEF LogOfFrames
<1> HIDE DEF gs, m, o, k, L, O
<1>10. k + Len(O) = Len(L) /\ \A n \in 1..Len(O) : L[k + n] = O[n]
  <2> DEFINE a == Len(l)
             b == Len(o)
             c == Len(cs)
  <2>1. /\ a \in Nat /\ b \in Nat /\ c \in Nat /\ k \in Nat /\ k + b = a
        /\ Len(L) = a + c /\ Len(O) = b + c
        /\ SpanAt(l, k, o, b) /\ Joins(L, l, a, cs, c) /\ Joins(O, o, b, cs, c)
    BY <1>2, <1>4, <1>5, <1>6 DEF SpanAt, Joins
  <2> HIDE DEF a, b, c
  <2>2. SpanAt(L, k, O, b + c)
    BY <2>1, SpanGrown
  <2>3. k + Len(O) = Len(L)
    BY <2>1
  <2> QED
    BY <2>1, <2>2, <2>3 DEF SpanAt
<1>11. ASSUME NEW i \in 1..m, i # m
       PROVE  /\ gs[i].mark + Len(gs[i].own) = gs[i + 1].mark
              /\ \A n \in 1..Len(gs[i].own) : L[gs[i].mark + n] = gs[i].own[n]
  <2>1. i + 1 \in 1..m /\ gs[i] = fs[i]
    BY <1>1, <1>11
  <2>2. gs[i + 1].mark = fs[i + 1].mark
    BY <1>1, <1>7, <2>1 DEF k
  <2> DEFINE a == fs[i].mark
             b == fs[i].own
  <2>3. a \in Nat /\ Len(b) \in Nat /\ a + Len(b) <= Len(l) /\ \A n \in 1..Len(b) : l[a + n] = b[n]
    BY <1>8, <1>9
  <2>4. a + Len(b) = fs[i + 1].mark
    BY <1>9, <1>11
  <2>5. gs[i].mark = a /\ gs[i].own = b
    BY <2>1
  <2> HIDE DEF a, b
  <2>6. ASSUME NEW n \in 1..Len(b) PROVE L[a + n] = b[n]
    <3>1. a + n \in 1..Len(l) + Len(cs) /\ a + n <= Len(l)
      BY <1>2, <2>3
    <3> QED
      BY <1>4, <2>3, <3>1
  <2> QED
    BY <2>2, <2>4, <2>5, <2>6
<1>12. Len(gs) = m /\ gs[m].mark = k /\ gs[m].own = O
  BY <1>1, <1>7
<1>13. LogOfFrames(gs, L)
  BY <1>10, <1>11, <1>12 DEF LogOfFrames
<1> QED
  BY <1>13 DEF gs, L

\* Removing an atom leaves a sequence of atoms.
LEMMA RemoveFirstTyped ==
    ASSUME NEW S, NEW s \in Seq(S), NEW e PROVE RemoveFirst(s, e) \in Seq(S)
<1> DEFINE I == {i \in 1..Len(s) : s[i] = e}
<1>1. CASE I # {}
  <2>1. I \subseteq Nat /\ I \subseteq 1..Len(s)
    BY LenProperties
  <2>2. PICK m \in I : \A y \in I : m <= y
    BY <1>1, <2>1, LeastElement
  <2>3. Min(I) \in I
    <3> HIDE DEF I
    <3> QED
      BY <2>2 DEF Min
  <2>4. SelectInSeq(s, LAMBDA v : v = e) = Min(I)
    BY <1>1 DEF SelectInSeq
  <2>5. RemoveFirst(s, e) = RemoveAt(s, Min(I))
    BY <1>1, <2>4 DEF RemoveFirst
  <2>6. \A i \in 1..Len(s) : RemoveAt(s, i) \in Seq(S)
    <3>1. ASSUME NEW i \in 1..Len(s)
          PROVE  SubSeq(s, 1, i - 1) \in Seq(S) /\ SubSeq(s, i + 1, Len(s)) \in Seq(S)
      <4>1. Len(s) \in Nat /\ \A j \in 1..Len(s) : s[j] \in S
        BY LenProperties, ElementOfSeq
      <4>2. \A j \in 1..(i - 1) : s[j] \in S
        BY <4>1
      <4>3. \A j \in (i + 1)..Len(s) : s[j] \in S
        BY <4>1
      <4> QED
        BY <4>1, <4>2, <4>3, SubSeqProperties
    <3> QED
      BY <3>1, ConcatProperties DEF RemoveAt
  <2> QED
    BY <2>1, <2>3, <2>5, <2>6
<1>2. CASE I = {}
  BY <1>2 DEF RemoveFirst
<1> QED
  BY <1>1, <1>2

LEMMA CutAt ==
    ASSUME NEW l \in Seq(Entry), NEW n \in Nat
    PROVE  Cut(l, n) \in Seq(Entry) /\ Len(Cut(l, n)) = n
<1>1. \A i \in 1..Len(l) : l[i] \in Entry
  BY ElementOfSeq
<1>2. Len(l) \in Nat /\ Hole \in Entry
  BY LenProperties DEF Entry
<1>3. ASSUME NEW i \in 1..n PROVE (IF i <= Len(l) THEN l[i] ELSE Hole) \in Entry
  <2>1. CASE i <= Len(l)
    <3>1. i \in 1..Len(l)
      BY <1>2, <2>1
    <3> QED
      BY <1>1, <2>1, <3>1
  <2>2. CASE ~ (i <= Len(l))
    BY <1>2, <2>2
  <2> QED
    BY <2>1, <2>2
<1>4. Cut(l, n) \in [1..n -> Entry]
  BY <1>3 DEF Cut
<1> QED
  BY <1>4, FunctionIsSeq

-----------------------------------------------------------------------------
(* Frames taken off the log.                                               *)

\* The part of the log below a mark is as it was.
LEMMA SpanCut ==
    ASSUME NEW l \in Seq(Entry), NEW n \in Nat, n <= Len(l),
           NEW k \in Nat, NEW o, NEW b \in Nat, k + b <= n, SpanAt(l, k, o, b)
    PROVE  SpanAt(Cut(l, n), k, o, b)
<1>1. Len(l) \in Nat
  BY LenProperties
<1>2. ASSUME NEW i \in 1..b PROVE Cut(l, n)[k + i] = l[k + i]
  <2>1. k + i \in 1..n /\ k + i <= Len(l)
    BY <1>1
  <2> QED
    BY <2>1 DEF Cut
<1> QED
  BY <1>2 DEF SpanAt

\* The same with spans named.
LEMMA LogSpans ==
    ASSUME NEW fs \in Seq(Frames), NEW l \in Seq(Entry), LogOfFrames(fs, l)
    PROVE  \A i \in 1..Len(fs) :
             /\ fs[i].mark \in Nat /\ Len(fs[i].own) \in Nat
             /\ fs[i].mark + Len(fs[i].own) = IF i = Len(fs) THEN Len(l) ELSE fs[i + 1].mark
             /\ fs[i].mark + Len(fs[i].own) <= fs[Len(fs)].mark \/ i = Len(fs)
             /\ SpanAt(l, fs[i].mark, fs[i].own, Len(fs[i].own))
<1>1. \A i \in 1..Len(fs) : fs[i].mark \in Nat /\ Len(fs[i].own) \in Nat
  BY FramesOf, FrameFields, LenProperties
<1> QED
  BY <1>1, MarksInOrder DEF LogOfFrames, SpanAt

\* The log is cut to the mark of the innermost frame, which goes or lost its changes.
LEMMA LogCut ==
    ASSUME NEW fs \in Seq(Frames), fs # << >>, NEW l \in Seq(Entry), LogOfFrames(fs, l)
    PROVE  LET m == Len(fs)
               k == fs[m].mark
           IN  /\ k <= Len(l)
               /\ LogOfFrames(Front(fs), Cut(l, k))
               /\ \A f \in Frames : f.mark = k /\ f.own = << >>
                    => LogOfFrames([fs EXCEPT ![m] = f], Cut(l, k))
<1> DEFINE m == Len(fs)
           k == fs[m].mark
           c == Cut(l, k)
<1>1. m \in Nat /\ m \in 1..m /\ fs[m] \in Frames
  BY FramesOf
<1>2. k \in Nat /\ Len(l) \in Nat /\ k <= Len(l)
  <2>1. /\ fs[m].mark \in Nat /\ Len(fs[m].own) \in Nat
        /\ fs[m].mark + Len(fs[m].own) = Len(l)
    BY <1>1, LogSpans
  <2> QED
    BY <2>1, LenProperties
<1>3. Len(c) = k
  BY <1>2, CutAt
<1>4. ASSUME NEW i \in 1..m, i # m
      PROVE  /\ fs[i].mark + Len(fs[i].own) = fs[i + 1].mark
             /\ SpanAt(c, fs[i].mark, fs[i].own, Len(fs[i].own))
  <2>1. /\ fs[i].mark \in Nat /\ Len(fs[i].own) \in Nat
        /\ fs[i].mark + Len(fs[i].own) = fs[i + 1].mark
        /\ fs[i].mark + Len(fs[i].own) <= k
        /\ SpanAt(l, fs[i].mark, fs[i].own, Len(fs[i].own))
    BY <1>4, LogSpans
  <2> QED
    BY <1>2, <2>1, SpanCut
<1>5. /\ Front(fs) \in Seq(Frames) /\ Len(Front(fs)) = m - 1
      /\ \A i \in 1..m - 1 : i \in 1..m /\ Front(fs)[i] = fs[i]
  BY FrontOf
<1> HIDE DEF m, c
<1>6. LogOfFrames(Front(fs), c)
  <2> DEFINE gs == Front(fs)
  <2> HIDE DEF gs
  <2>1. Len(gs) = m - 1 /\ \A i \in 1..m - 1 : i \in 1..m /\ gs[i] = fs[i]
    BY <1>5 DEF gs
  <2>2. ASSUME NEW i \in 1..m - 1
        PROVE  /\ gs[i].mark + Len(gs[i].own) = IF i = m - 1 THEN Len(c) ELSE gs[i + 1].mark
               /\ \A n \in 1..Len(gs[i].own) : c[gs[i].mark + n] = gs[i].own[n]
    <3>1. i \in 1..m /\ i # m /\ gs[i] = fs[i]
      BY <1>1, <2>1
    <3>2. fs[i].mark + Len(fs[i].own) = fs[i + 1].mark
      BY <1>4, <3>1
    <3>3. CASE i = m - 1
      <4>1. i + 1 = m
        BY <1>1, <3>3
      <4> QED
        BY <1>3, <1>4, <3>1, <3>2, <3>3, <4>1 DEF SpanAt
    <3>4. CASE i # m - 1
      <4>1. i + 1 \in 1..m - 1
        BY <1>1, <3>4
      <4> QED
        BY <1>4, <2>1, <3>1, <3>2, <3>4, <4>1 DEF SpanAt
    <3> QED
      BY <3>3, <3>4
  <2>3. LogOfFrames(gs, c)
    BY <2>1, <2>2 DEF LogOfFrames
  <2> QED
    BY <2>3 DEF gs
<1>7. ASSUME NEW f \in Frames, f.mark = k, f.own = << >>
      PROVE  LogOfFrames([fs EXCEPT ![m] = f], c)
  <2> DEFINE gs == [fs EXCEPT ![m] = f]
  <2>1. Len(gs) = m /\ \A i \in 1..m : gs[i] = IF i = m THEN f ELSE fs[i]
    BY TopReplaced DEF m
  <2> HIDE DEF gs
  <2>2. Len(f.own) = 0
    BY <1>7, EmptySeq
  <2>3. f.mark + Len(f.own) = Len(c) /\ \A n \in 1..Len(f.own) : c[f.mark + n] = f.own[n]
    BY <1>2, <1>3, <1>7, <2>2
  <2>4. ASSUME NEW i \in 1..m, i # m
        PROVE  /\ gs[i].mark + Len(gs[i].own) = gs[i + 1].mark
               /\ \A n \in 1..Len(gs[i].own) : c[gs[i].mark + n] = gs[i].own[n]
    <3>1. i + 1 \in 1..m /\ gs[i] = fs[i] /\ gs[i + 1].mark = fs[i + 1].mark
      BY <1>1, <1>7, <2>1, <2>4
    <3> QED
      BY <1>4, <2>4, <3>1 DEF SpanAt
  <2>5. gs[m] = f
    BY <1>1, <2>1
  <2>6. LogOfFrames(gs, c)
    BY <2>1, <2>3, <2>4, <2>5 DEF LogOfFrames
  <2> QED
    BY <2>6 DEF gs
<1> QED
  BY <1>2, <1>6, <1>7 DEF m, c

\* Closed, for any frames.
Merged(fs) ==
    IF Front(fs) = << >> THEN << >>
    ELSE [Front(fs) EXCEPT ![Len(Front(fs))].own = @ \o fs[Len(fs)].own]

LEMMA MergedIs ==
    ASSUME NEW fs \in Seq(Frames), fs # << >>
    PROVE  LET m == Len(fs)
               gs == Merged(fs)
           IN  /\ gs \in Seq(Frames) /\ Len(gs) = m - 1
               /\ \A i \in 1..m - 1 :
                    /\ i \in 1..m /\ gs[i].mark = fs[i].mark /\ gs[i].phase = fs[i].phase
                    /\ gs[i].depth = fs[i].depth /\ gs[i].listeners = fs[i].listeners
                    /\ gs[i].quiet = fs[i].quiet
                    /\ gs[i].own = IF i = m - 1 THEN fs[i].own \o fs[m].own ELSE fs[i].own
<1> DEFINE m == Len(fs)
           fr == Front(fs)
           n == m - 1
           f == [fr[n] EXCEPT !.own = @ \o fs[m].own]
<1>1. /\ fr \in Seq(Frames) /\ Len(fr) = n
      /\ \A i \in 1..n : i \in 1..m /\ fr[i] = fs[i]
      /\ m \in Nat /\ m \in 1..m /\ fs[m] \in Frames
  BY FrontOf, FramesOf
<1>2. CASE fr = << >>
  <2>1. n = 0 /\ Merged(fs) = << >>
    BY <1>1, <1>2, EmptySeq DEF Merged
  <2>2. Merged(fs) \in Seq(Frames) /\ Len(Merged(fs)) = n
    BY <2>1, EmptySeq
  <2>3. \A i : i \notin 1..n
    BY <1>1, <2>1
  <2> HIDE DEF f, fr
  <2> QED
    BY <2>2, <2>3, Zenon
<1>3. CASE fr # << >>
  <2>1. Len(fr) \in 1..Len(fr) /\ fr[n] \in Frames
    BY <1>1, <1>3, FramesOf
  <2>2. n \in 1..n /\ fr[n] = fs[n]
    BY <1>1, <2>1
  <2>3. fr[n].own \o fs[m].own \in Seq(Changes)
    BY <1>1, <2>1, FrameFields, ConcatProperties
  <2>4. f \in Frames
    BY <2>1, <2>3 DEF Frames
  <2>5. Merged(fs) = [fr EXCEPT ![n] = f]
    BY <1>1, <1>3 DEF Merged
  <2>6. /\ f.mark = fr[n].mark /\ f.phase = fr[n].phase /\ f.depth = fr[n].depth
        /\ f.listeners = fr[n].listeners /\ f.quiet = fr[n].quiet
        /\ f.own = fr[n].own \o fs[m].own
    BY <2>1 DEF Frames
  <2> DEFINE gs == [fr EXCEPT ![n] = f]
  <2>7. gs \in Seq(Frames) /\ Len(gs) = n /\ \A i \in 1..n : gs[i] = IF i = n THEN f ELSE fr[i]
    <3>1. /\ [fr EXCEPT ![Len(fr)] = f] \in Seq(Frames) /\ Len([fr EXCEPT ![Len(fr)] = f]) = Len(fr)
          /\ \A i \in 1..Len(fr) : [fr EXCEPT ![Len(fr)] = f][i] = IF i = Len(fr) THEN f ELSE fr[i]
      BY <1>1, <1>3, <2>4, TopReplaced
    <3> QED
      BY <1>1, <3>1
  <2>8. Merged(fs) = gs
    BY <2>5
  <2> HIDE DEF f, fr, gs
  <2>9. ASSUME NEW i \in 1..n
        PROVE  /\ i \in 1..m /\ gs[i].mark = fs[i].mark /\ gs[i].phase = fs[i].phase
               /\ gs[i].depth = fs[i].depth /\ gs[i].listeners = fs[i].listeners
               /\ gs[i].quiet = fs[i].quiet
               /\ gs[i].own = IF i = n THEN fs[i].own \o fs[m].own ELSE fs[i].own
    <3>1. i \in 1..m /\ fr[i] = fs[i]
      BY <1>1
    <3>2. CASE i = n
      BY <2>2, <2>6, <2>7, <3>1, <3>2
    <3>3. CASE i # n
      BY <2>7, <3>1, <3>3
    <3> QED
      BY <3>2, <3>3
  <2> QED
    BY <2>7, <2>8, <2>9
<1> QED
  BY <1>2, <1>3

\* The changes of the innermost frame become those of the frame below it.
LEMMA SpanJoined ==
    ASSUME NEW l, NEW o, NEW O, NEW cs, NEW k \in Nat, NEW b \in Nat, NEW c \in Nat,
           SpanAt(l, k, o, b), SpanAt(l, k + b, cs, c), Joins(O, o, b, cs, c)
    PROVE  SpanAt(l, k, O, b + c)
<1>1. ASSUME NEW n \in 1..b + c PROVE l[k + n] = O[n]
  <2>1. CASE n <= b
    <3>1. n \in 1..b
      BY <2>1
    <3> QED
      BY <2>1, <3>1 DEF SpanAt, Joins
  <2>2. CASE ~(n <= b)
    <3>1. n - b \in 1..c /\ k + b + (n - b) = k + n
      BY <2>2
    <3>2. l[k + b + (n - b)] = cs[n - b]
      BY <3>1 DEF SpanAt
    <3>3. O[n] = cs[n - b]
      BY <2>2 DEF Joins
    <3> QED
      BY <3>1, <3>2, <3>3
  <2> QED
    BY <2>1, <2>2
<1> QED
  BY <1>1 DEF SpanAt

LEMMA LogMerged ==
    ASSUME NEW fs \in Seq(Frames), fs # << >>, NEW l \in Seq(Entry), LogOfFrames(fs, l)
    PROVE  LogOfFrames(Merged(fs), l)
<1> DEFINE m == Len(fs)
           n == m - 1
           gs == Merged(fs)
<1>1. /\ m \in Nat /\ m \in 1..m /\ \A i \in 1..m : fs[i] \in Frames
  BY FramesOf
<1>2. /\ Len(gs) = n
      /\ \A i \in 1..n : /\ i \in 1..m /\ gs[i].mark = fs[i].mark
                         /\ gs[i].own = IF i = n THEN fs[i].own \o fs[m].own ELSE fs[i].own
  BY MergedIs
<1>3. \A i \in 1..m :
        /\ fs[i].mark \in Nat /\ Len(fs[i].own) \in Nat
        /\ fs[i].mark + Len(fs[i].own) = IF i = m THEN Len(l) ELSE fs[i + 1].mark
        /\ SpanAt(l, fs[i].mark, fs[i].own, Len(fs[i].own))
  BY LogSpans
<1>4. \A i \in 1..m : fs[i].own \in Seq(Changes)
  BY <1>1, FrameFields
<1> HIDE DEF gs, m
<1>5. ASSUME NEW i \in 1..n
      PROVE  /\ gs[i].mark + Len(gs[i].own) = IF i = n THEN Len(l) ELSE gs[i + 1].mark
             /\ SpanAt(l, gs[i].mark, gs[i].own, Len(gs[i].own))
  <2>1. i \in 1..m /\ i # m /\ gs[i].mark = fs[i].mark
    BY <1>1, <1>2
  <2>2. CASE i # n
    <3>1. i + 1 \in 1..n
      BY <1>1, <2>2
    <3>2. gs[i].own = fs[i].own /\ gs[i + 1].mark = fs[i + 1].mark
      BY <1>2, <2>2, <3>1
    <3> QED
      BY <1>3, <2>1, <2>2, <3>2
  <2>3. CASE i = n
    <3> DEFINE o == fs[i].own
               cs == fs[m].own
               O == o \o cs
               k == fs[i].mark
               b == Len(o)
               c == Len(cs)
    <3>1. i + 1 = m /\ gs[i].own = O /\ gs[i].mark = k
      <4>1. i + 1 = m
        BY <1>1, <2>3
      <4>2. gs[i].own = fs[i].own \o fs[m].own
        BY <1>2, <2>3
      <4> QED
        BY <2>1, <4>1, <4>2
    <3>2. /\ k \in Nat /\ b \in Nat /\ c \in Nat /\ k + b = fs[m].mark /\ fs[m].mark + c = Len(l)
          /\ SpanAt(l, k, o, b) /\ SpanAt(l, fs[m].mark, cs, c)
      BY <1>1, <1>3, <2>1, <3>1
    <3>3. Len(O) = b + c /\ Joins(O, o, b, cs, c)
      <4>1. o \in Seq(Changes) /\ cs \in Seq(Changes)
        BY <1>1, <1>4, <2>1
      <4>2. /\ Len(o \o cs) = Len(o) + Len(cs)
            /\ \A j \in 1..Len(o) + Len(cs) : (o \o cs)[j] = IF j <= Len(o) THEN o[j] ELSE cs[j - Len(o)]
        BY <4>1, ConcatProperties
      <4> QED
        BY <4>2 DEF Joins
    <3> HIDE DEF o, cs, O, k, b, c
    <3>4. SpanAt(l, k + b, cs, c)
      BY <3>2
    <3>5. SpanAt(l, k, O, b + c)
      BY <3>2, <3>3, <3>4, SpanJoined
    <3>6. k + Len(O) = Len(l)
      BY <3>2, <3>3
    <3> QED
      BY <2>3, <3>1, <3>3, <3>5, <3>6
  <2> QED
    BY <2>2, <2>3
<1>6. LogOfFrames(gs, l)
  BY <1>2, <1>5 DEF LogOfFrames, SpanAt
<1> QED
  BY <1>6 DEF gs

-----------------------------------------------------------------------------
(* The depths behind frames, and the listeners restores hold.              *)

LEMMA DepthsPushed ==
    ASSUME NEW fs \in Seq(Frames), NEW d, DepthsNested(fs, d), NEW f \in Frames, f.depth = d
    PROVE  DepthsNested(Append(fs, f), IF f.phase = "body" THEN d + 1 ELSE 0)
<1> DEFINE gs == Append(fs, f)
           n == Len(fs) + 1
<1>1. /\ n \in Nat /\ n > 0 /\ Len(fs) \in Nat
      /\ Len(gs) = n /\ gs[n] = f
      /\ \A i \in 1..Len(fs) : gs[i] = fs[i]
  BY AppendProperties, FramesOf
<1>2. d = DepthAt(fs, Len(fs)) /\ \A i \in 1..Len(fs) : fs[i].depth = DepthAt(fs, i - 1)
  BY DEF DepthsNested
<1> HIDE DEF gs
<1>3. \A i \in 0..Len(fs) : DepthAt(gs, i) = DepthAt(fs, i)
  BY <1>1 DEF DepthAt
<1>4. DepthAt(gs, n) = IF f.phase = "body" THEN d + 1 ELSE 0
  BY <1>1 DEF DepthAt
<1>5. ASSUME NEW i \in 1..n PROVE gs[i].depth = DepthAt(gs, i - 1)
  <2>1. i - 1 \in 0..Len(fs)
    BY <1>1
  <2>2. CASE i = n
    <3>1. i - 1 = Len(fs) /\ Len(fs) \in 0..Len(fs)
      BY <1>1, <2>2
    <3> QED
      BY <1>1, <1>2, <1>3, <2>2, <3>1
  <2>3. CASE i # n
    <3>1. i \in 1..Len(fs)
      BY <1>1, <2>3
    <3> QED
      BY <1>1, <1>2, <1>3, <2>1, <3>1
  <2> QED
    BY <2>2, <2>3
<1>6. DepthsNested(gs, IF f.phase = "body" THEN d + 1 ELSE 0)
  BY <1>1, <1>4, <1>5 DEF DepthsNested
<1> QED
  BY <1>6 DEF gs

LEMMA DepthsTop ==
    ASSUME NEW fs \in Seq(Frames), fs # << >>, NEW d, DepthsNested(fs, d),
           NEW f \in Frames, f.depth = fs[Len(fs)].depth
    PROVE  DepthsNested([fs EXCEPT ![Len(fs)] = f], IF f.phase = "body" THEN f.depth + 1 ELSE 0)
<1> DEFINE m == Len(fs)
           gs == [fs EXCEPT ![m] = f]
<1>1. m \in Nat /\ m \in 1..m /\ Len(gs) = m /\ \A i \in 1..m : gs[i] = IF i = m THEN f ELSE fs[i]
  BY FramesOf, TopReplaced
<1>2. \A i \in 1..m : fs[i].depth = DepthAt(fs, i - 1)
  BY DEF DepthsNested
<1>3. f.depth = fs[m].depth
  OBVIOUS
<1> HIDE DEF gs, m
<1>4. \A i \in 0..m - 1 : DepthAt(gs, i) = DepthAt(fs, i)
  <2>1. \A i \in 1..m - 1 : gs[i] = fs[i]
    BY <1>1
  <2> QED
    BY <1>1, <2>1 DEF DepthAt
<1>5. DepthAt(gs, m) = IF f.phase = "body" THEN f.depth + 1 ELSE 0
  BY <1>1 DEF DepthAt
<1>6. ASSUME NEW i \in 1..m PROVE gs[i].depth = DepthAt(gs, i - 1)
  <2>1. i - 1 \in 0..m - 1 /\ gs[i].depth = fs[i].depth
    BY <1>1, <1>3
  <2> QED
    BY <1>2, <1>4, <2>1
<1>7. DepthsNested(gs, IF f.phase = "body" THEN f.depth + 1 ELSE 0)
  BY <1>1, <1>5, <1>6 DEF DepthsNested
<1> QED
  BY <1>7 DEF gs, m

LEMMA DepthsTaken ==
    ASSUME NEW fs \in Seq(Frames), fs # << >>, NEW d, DepthsNested(fs, d),
           NEW gs, Len(gs) = Len(fs) - 1,
           \A i \in 1..Len(fs) - 1 : gs[i].depth = fs[i].depth /\ gs[i].phase = fs[i].phase
    PROVE  DepthsNested(gs, fs[Len(fs)].depth)
<1> DEFINE m == Len(fs)
<1>1. m \in Nat /\ m \in 1..m
  BY FramesOf
<1>2. \A i \in 1..m : fs[i].depth = DepthAt(fs, i - 1)
  BY DEF DepthsNested
<1>3. \A i \in 0..m - 1 : DepthAt(gs, i) = DepthAt(fs, i)
  BY <1>1 DEF DepthAt
<1>4. fs[m].depth = DepthAt(gs, m - 1)
  BY <1>1, <1>2, <1>3
<1>5. ASSUME NEW i \in 1..m - 1 PROVE gs[i].depth = DepthAt(gs, i - 1)
  <2>1. i \in 1..m /\ i - 1 \in 0..m - 1
    BY <1>1
  <2> QED
    BY <1>2, <1>3, <2>1
<1> QED
  BY <1>4, <1>5 DEF DepthsNested

Held(f) == IF f.phase = "body" THEN {} ELSE f.listeners

LEMMA SavedIs ==
    ASSUME NEW fs \in Seq(Frames)
    PROVE  /\ Saved(fs) \subseteq Listeners
           /\ \A l : l \in Saved(fs) <=> \E i \in 1..Len(fs) : l \in Held(fs[i])
<1>1. DOMAIN fs = 1..Len(fs) /\ \A i \in 1..Len(fs) : fs[i].listeners \subseteq Listeners
  BY FramesOf, FrameFields
<1> QED
  BY <1>1 DEF Saved, Held

LEMMA SavedPushed ==
    ASSUME NEW fs \in Seq(Frames), NEW f \in Frames
    PROVE  Saved(Append(fs, f)) = Saved(fs) \cup Held(f)
<1> DEFINE gs == Append(fs, f)
<1>1. /\ gs \in Seq(Frames) /\ Len(gs) = Len(fs) + 1 /\ gs[Len(fs) + 1] = f /\ Len(fs) \in Nat
      /\ \A i \in 1..Len(fs) : gs[i] = fs[i]
  BY AppendProperties, FramesOf
<1> HIDE DEF gs
<1>2. \A l : l \in Saved(gs) <=> \E i \in 1..Len(fs) + 1 : l \in Held(gs[i])
  BY <1>1, SavedIs
<1>3. ASSUME NEW l PROVE (\E i \in 1..Len(fs) + 1 : l \in Held(gs[i]))
                           <=> (\E i \in 1..Len(fs) : l \in Held(fs[i])) \/ l \in Held(f)
  <2>1. \A i \in 1..Len(fs) + 1 : i = Len(fs) + 1 \/ i \in 1..Len(fs)
    BY <1>1
  <2>2. Len(fs) + 1 \in 1..Len(fs) + 1 /\ \A i \in 1..Len(fs) : i \in 1..Len(fs) + 1
    BY <1>1
  <2> QED
    BY <1>1, <2>1, <2>2
<1>4. \A l : l \in Saved(gs) <=> l \in Saved(fs) \cup Held(f)
  BY <1>2, <1>3, SavedIs
<1> QED
  BY <1>4 DEF gs

LEMMA SavedTop ==
    ASSUME NEW fs \in Seq(Frames), fs # << >>, NEW f \in Frames, Held(fs[Len(fs)]) \subseteq Held(f)
    PROVE  Saved([fs EXCEPT ![Len(fs)] = f]) = Saved(fs) \cup Held(f)
<1> DEFINE m == Len(fs)
           gs == [fs EXCEPT ![m] = f]
<1>1. /\ m \in Nat /\ m \in 1..m /\ gs \in Seq(Frames) /\ Len(gs) = m
      /\ \A i \in 1..m : gs[i] = IF i = m THEN f ELSE fs[i]
  BY FramesOf, TopReplaced
<1>2. Held(fs[m]) \subseteq Held(f)
  OBVIOUS
<1> HIDE DEF gs
<1>3. \A l : l \in Saved(gs) <=> \E i \in 1..m : l \in Held(gs[i])
  BY <1>1, SavedIs
<1>4. \A l : l \in Saved(fs) <=> \E i \in 1..m : l \in Held(fs[i])
  BY SavedIs
<1> HIDE DEF m
<1>5. ASSUME NEW l PROVE l \in Saved(gs) <=> l \in Saved(fs) \cup Held(f)
  <2>1. ASSUME l \in Saved(gs) PROVE l \in Saved(fs) \cup Held(f)
    <3>1. PICK i \in 1..m : l \in Held(gs[i])
      BY <1>3, <2>1
    <3> QED
      BY <1>1, <1>4, <3>1
  <2>2. ASSUME l \in Saved(fs) PROVE l \in Saved(gs)
    <3>1. PICK i \in 1..m : l \in Held(fs[i])
      BY <1>4, <2>2
    <3> QED
      BY <1>1, <1>2, <1>3, <3>1
  <2>3. l \in Held(f) => l \in Saved(gs)
    BY <1>1, <1>3
  <2> QED
    BY <2>1, <2>2, <2>3
<1> QED
  BY <1>5 DEF gs, m

LEMMA SavedTaken ==
    ASSUME NEW fs \in Seq(Frames), fs # << >>, NEW gs \in Seq(Frames), Len(gs) = Len(fs) - 1,
           \A i \in 1..Len(fs) - 1 : gs[i].listeners = fs[i].listeners /\ gs[i].phase = fs[i].phase
    PROVE  Saved(fs) = Saved(gs) \cup Held(fs[Len(fs)])
<1> DEFINE m == Len(fs)
<1>1. m \in Nat /\ m \in 1..m /\ \A i \in 1..m : i = m \/ i \in 1..m - 1
  BY FramesOf
<1>2. \A i \in 1..m - 1 : i \in 1..m /\ Held(gs[i]) = Held(fs[i])
  BY <1>1 DEF Held
<1>3. \A l : l \in Saved(gs) <=> \E i \in 1..m - 1 : l \in Held(gs[i])
  BY SavedIs
<1>4. \A l : l \in Saved(fs) <=> \E i \in 1..m : l \in Held(fs[i])
  BY SavedIs
<1> HIDE DEF m
<1>5. ASSUME NEW l PROVE l \in Saved(fs) <=> l \in Saved(gs) \cup Held(fs[m])
  <2>1. ASSUME l \in Saved(fs) PROVE l \in Saved(gs) \cup Held(fs[m])
    <3>1. PICK i \in 1..m : l \in Held(fs[i])
      BY <1>4, <2>1
    <3> QED
      BY <1>1, <1>2, <1>3, <3>1
  <2>2. ASSUME l \in Saved(gs) PROVE l \in Saved(fs)
    <3>1. PICK i \in 1..m - 1 : l \in Held(gs[i])
      BY <1>3, <2>2
    <3> QED
      BY <1>2, <1>4, <3>1
  <2> QED
    BY <1>1, <1>4, <2>1, <2>2
<1> QED
  BY <1>5 DEF m

-----------------------------------------------------------------------------
(* The state.                                                              *)

LEMMA TypesOf ==
    ASSUME TypeOK
    PROVE  /\ kb \in Seq(Atoms) /\ world \in Worlds /\ shelf \in Seq(Atoms)
           /\ world.extra \in Seq(Atoms) /\ world.removed \subseteq Atoms
           /\ changeLog \in Seq(Entry) /\ recordDepth \in Nat
           /\ stack \in Seq(Frames) /\ Level = Len(stack) /\ Level \in Nat
           /\ stack = << >> <=> Level = 0
           /\ stack # << >> => Level \in 1..Level /\ Top \in Frames /\ Top = stack[Level]
<1>1. /\ kb \in Seq(Atoms) /\ world \in Worlds /\ shelf \in Seq(Atoms)
      /\ changeLog \in Seq(Entry) /\ recordDepth \in Nat /\ stack \in Seq(Frames)
  BY DEF TypeOK, Entry
<1>2. world.extra \in Seq(Atoms) /\ world.removed \subseteq Atoms
  BY <1>1 DEF Worlds
<1>3. /\ Len(stack) \in Nat /\ (stack # << >> <=> Len(stack) > 0)
      /\ stack # << >> => Len(stack) \in 1..Len(stack) /\ stack[Len(stack)] \in Frames
  BY <1>1, FramesOf
<1> QED
  BY <1>1, <1>2, <1>3 DEF Level, Top

LEMMA FilteredTyped ==
    ASSUME NEW T, NEW s \in Seq(T), NEW S
    PROVE  Filtered(s, S) \in Seq(T)
<1>1. PICK k : Filterings(k, s, S, T) /\ Filtered(s, S) = k[Len(s)]
  BY FilteredEquations
<1>2. Len(s) \in 0..Len(s)
  BY LenProperties
<1> QED
  BY <1>1, <1>2 DEF Filterings

LEMMA VisibleTyped ==
    ASSUME TypeOK PROVE Visible \in Seq(Atoms)
<1>1. kb \in Seq(Atoms) /\ world.extra \in Seq(Atoms)
  BY TypesOf
<1>2. Filtered(kb, Atoms \ world.removed) \in Seq(Atoms)
  BY <1>1, FilteredTyped
<1> DEFINE kept == IF world.removed = {} THEN kb ELSE Filtered(kb, Atoms \ world.removed)
<1>3. kept \in Seq(Atoms)
  BY <1>1, <1>2
<1> HIDE DEF kept
<1>4. kept \o world.extra \in Seq(Atoms)
  BY <1>1, <1>3, ConcatProperties
<1> QED
  BY <1>4 DEF Visible, kept

LEMMA NoEffectsTyped == NoEffects \in Worlds
BY EmptySeq DEF NoEffects, Worlds

\* What a restore that nothing disturbed refilled is what &self shows.
LEMMA NothingHidden ==
    ASSUME kb \in Seq(Atoms), world = NoEffects PROVE Visible = kb
<1>1. world.removed = {} /\ world.extra = << >>
  BY DEF NoEffects
<1>2. kb \o << >> = kb
  BY ConcatEmptySeq
<1> QED
  BY <1>1, <1>2 DEF Visible

\* The depth is zero in a restore and not in a body, where the hook is installed.
LEMMA DepthHere ==
    ASSUME IInv
    PROVE  /\ stack = << >> \/ Restoring => recordDepth = 0
           /\ stack # << >> /\ ~Restoring =>
                Top.phase = "body" /\ recordDepth = Top.depth + 1 /\ recordDepth > 0 /\ watching
<1>1. TypeOK /\ recordDepth = DepthAt(stack, Level) /\ Watched
  BY DEF IInv, DepthsNested, Level
<1>2. stack = << >> => Level = 0
  BY <1>1, TypesOf
<1>3. stack # << >> => Level # 0 /\ Level \in Nat /\ Top \in Frames /\ Top = stack[Level]
  BY <1>1, TypesOf
<1>4. stack # << >> => Top.depth \in Nat
  BY <1>3, FrameFields
<1>5. stack # << >> /\ ~Restoring => Top.phase = "body"
  BY DEF Restoring
<1>6. stack = << >> \/ Restoring => recordDepth = 0
  BY <1>1, <1>2, <1>3 DEF DepthAt, Restoring
<1>7. stack # << >> /\ ~Restoring => recordDepth = Top.depth + 1
  BY <1>1, <1>3, <1>5 DEF DepthAt
<1>8. ASSUME stack # << >>, ~Restoring PROVE recordDepth > 0 /\ watching
  <2>1. Top.depth \in Nat /\ recordDepth = Top.depth + 1
    BY <1>4, <1>7, <1>8
  <2>2. recordDepth > 0
    BY <2>1
  <2> QED
    BY <1>1, <2>2, Zenon DEF Watched
<1> QED
  BY <1>5, <1>6, <1>7, <1>8

\* A call of user code or a change keeps all that is said of stack and log, and nothing
\* is undisturbed after it.
LEMMA ActedFacts ==
    ASSUME IInv, NEW cs \in Seq(Changes)
    PROVE  /\ Acted(cs) \in Seq(Frames) /\ Logged(cs) \in Seq(Entry) /\ Len(Acted(cs)) = Level
           /\ DepthsNested(Acted(cs), recordDepth)
           /\ ~emptied => LogOfFrames(Acted(cs), Logged(cs))
           /\ Saved(Acted(cs)) = Saved(stack)
           /\ Undisturbed(Acted(cs)) = {}
           /\ cs = << >> => Logged(cs) = changeLog
<1> DEFINE gs == Acted(cs)
           l == Logged(cs)
<1>1. /\ TypeOK /\ DepthsNested(stack, recordDepth) /\ (~emptied => LogOfFrames(stack, changeLog))
      /\ RestoreSound
  BY DEF IInv
<1>2. /\ stack \in Seq(Frames) /\ changeLog \in Seq(Entry) /\ Level = Len(stack) /\ Level \in Nat
      /\ stack = << >> <=> Level = 0
      /\ stack # << >> => Level \in 1..Level /\ Top \in Frames /\ Top = stack[Level]
  BY <1>1, TypesOf
<1>3. cs \in Seq(Entry)
  BY SeqMonotonic DEF Entry
<1>4. l \in Seq(Entry) /\ (cs = << >> => l = changeLog)
  <2>1. changeLog \o cs \in Seq(Entry) /\ changeLog \o << >> = changeLog
    BY <1>2, <1>3, ConcatProperties, ConcatEmptySeq
  <2> QED
    BY <1>2, <2>1 DEF Logged
<1>5. \A i \in 1..Level : stack[i].phase # "body" /\ stack[i].quiet => i = Level
  BY <1>1, <1>2 DEF RestoreSound, Undisturbed
<1>6. CASE stack = << >>
  <2>1. gs = stack /\ Len(gs) = 0
    BY <1>2, <1>6 DEF Acted
  <2>2. \A i : i \notin 1..Len(gs)
    BY <2>1
  <2>3. LogOfFrames(gs, l) /\ Undisturbed(gs) = {}
    BY <2>2 DEF LogOfFrames, Undisturbed
  <2> QED
    BY <1>1, <1>2, <1>4, <2>1, <2>3
<1>7. ASSUME stack # << >>, NEW f \in Frames, gs = [stack EXCEPT ![Level] = f],
             f.depth = Top.depth, f.phase = Top.phase, f.listeners = Top.listeners,
             f.phase = "body" \/ ~f.quiet
      PROVE  /\ gs \in Seq(Frames) /\ Len(gs) = Level /\ DepthsNested(gs, recordDepth)
             /\ Saved(gs) = Saved(stack) /\ Undisturbed(gs) = {}
  <2>1. /\ gs \in Seq(Frames) /\ Len(gs) = Level
        /\ \A i \in 1..Level : gs[i] = IF i = Level THEN f ELSE stack[i]
    BY <1>2, <1>7, TopReplaced
  <2>2. recordDepth = IF f.phase = "body" THEN f.depth + 1 ELSE 0
    BY <1>1, <1>2, <1>7 DEF DepthsNested, DepthAt
  <2>3. DepthsNested(gs, recordDepth)
    BY <1>1, <1>2, <1>7, <2>2, DepthsTop
  <2>4. Saved(gs) = Saved(stack)
    <3>1. Held(f) = Held(Top)
      BY <1>7 DEF Held
    <3>2. Saved(gs) = Saved(stack) \cup Held(f)
      BY <1>2, <1>7, <3>1, SavedTop
    <3>3. Held(Top) \subseteq Saved(stack)
      BY <1>2, <1>7, SavedIs
    <3> QED
      BY <3>1, <3>2, <3>3
  <2>5. \A i \in 1..Level : ~(gs[i].phase # "body" /\ gs[i].quiet)
    BY <1>5, <1>7, <2>1
  <2>6. Undisturbed(gs) = {}
    BY <2>1, <2>5 DEF Undisturbed
  <2> QED
    BY <2>1, <2>3, <2>4, <2>6
<1>8. CASE stack # << >> /\ Restoring
  <2> DEFINE f == [Top EXCEPT !.quiet = FALSE]
  <2>1. f \in Frames
    BY <1>2, <1>8 DEF Frames
  <2>2. /\ f.depth = Top.depth /\ f.phase = Top.phase /\ f.listeners = Top.listeners /\ ~f.quiet
        /\ f.mark = Top.mark /\ f.own = Top.own
    BY <1>2, <1>8 DEF Frames
  <2>3. gs = [stack EXCEPT ![Level] = f]
    BY <1>8 DEF Acted, Top
  <2>4. l = changeLog
    BY <1>8, DepthHere DEF Logged
  <2>5. LogOfFrames(stack, changeLog) => LogOfFrames(gs, l)
    <3>1. /\ Len(gs) = Level
          /\ \A i \in 1..Level : gs[i] = IF i = Level THEN f ELSE stack[i]
      BY <1>2, <1>8, <2>1, <2>3, TopReplaced
    <3>2. \A i \in 1..Level : gs[i].mark = stack[i].mark /\ gs[i].own = stack[i].own
      BY <1>2, <1>8, <2>2, <3>1
    <3> QED
      BY <1>2, <2>4, <3>1, <3>2, LogRelabelled
  <2> HIDE DEF f
  <2> QED
    BY <1>1, <1>4, <1>7, <1>8, <2>1, <2>2, <2>3, <2>5
<1>9. CASE stack # << >> /\ ~Restoring
  <2> DEFINE f == [Top EXCEPT !.own = @ \o cs]
  <2>1. Top.phase = "body" /\ l = changeLog \o cs
    BY <1>9, DepthHere DEF Logged
  <2>2. Top.own \o cs \in Seq(Changes)
    BY <1>2, <1>9, FrameFields, ConcatProperties
  <2>3. f \in Frames
    BY <1>2, <1>9, <2>2 DEF Frames
  <2>4. /\ f.depth = Top.depth /\ f.phase = Top.phase /\ f.listeners = Top.listeners
        /\ f.mark = Top.mark /\ f.own = Top.own \o cs
    BY <1>2, <1>9 DEF Frames
  <2>5. gs = [stack EXCEPT ![Level] = f]
    BY <1>9 DEF Acted, Top
  <2> HIDE DEF f
  <2>6. LogOfFrames(stack, changeLog) => LogOfFrames(gs, l)
    <3>1. ASSUME LogOfFrames(stack, changeLog) PROVE LogOfFrames([stack EXCEPT ![Len(stack)] = f], changeLog \o cs)
      BY <1>2, <1>9, <2>3, <2>4, <3>1, LogGrown
    <3> QED
      BY <1>2, <2>1, <2>5, <3>1
  <2> QED
    BY <1>1, <1>4, <1>7, <1>9, <2>1, <2>3, <2>4, <2>5, <2>6
<1> QED
  BY <1>6, <1>8, <1>9

LEMMA NothingToPutBack == ASSUME Undisturbed(stack') = {} PROVE RestoreSound'
BY DEF RestoreSound

\* A change that is told, whatever it does to the spaces.
LEMMA HookStep ==
    ASSUME IInv, NEW cs \in Seq(Changes), Hook(cs),
           kb' \in Seq(Atoms), world' \in Worlds, shelf' \in Seq(Atoms), eval' \in Seq(Worlds),
           UNCHANGED <<recordDepth, changeListeners, watching, reports, subscribed, stoppedLate, emptied>>
    PROVE  IInv'
<1>1. /\ stack' \in Seq(Frames) /\ changeLog' \in Seq(Entry)
      /\ DepthsNested(stack', recordDepth)
      /\ ~emptied => LogOfFrames(stack', changeLog')
      /\ Saved(stack') = Saved(stack)
      /\ Undisturbed(stack') = {}
  BY ActedFacts DEF Hook
<1>2. TypeOK /\ Reported /\ Watched /\ ListenersKept /\ ReportExact
  BY DEF IInv
<1>3. TypeOK'
  BY <1>1, <1>2 DEF TypeOK, Entry
<1>4. ListenersKept'
  BY <1>1, <1>2 DEF ListenersKept
<1>5. Reported' /\ Watched' /\ ReportExact'
  BY <1>2 DEF Reported, Watched, ReportExact
<1>6. RestoreSound'
  BY <1>1, NothingToPutBack
<1> QED
  BY <1>1, <1>3, <1>4, <1>5, <1>6 DEF IInv

LEMMA OneChange ==
    ASSUME NEW op \in {"add", "remove"}, NEW where \in {"self", "shelf"}, NEW a \in Atoms
    PROVE  <<Change(op, where, a)>> \in Seq(Changes)
<1>1. Change(op, where, a) \in Changes
  BY DEF Change, Changes
<1> QED
  BY <1>1, SMT

LEMMA HostAddStep == ASSUME IInv, NEW a \in Atoms, HostAdd(a) PROVE IInv'
<1>1. TypeOK
  BY DEF IInv
<1>2. kb' \in Seq(Atoms) /\ world' \in Worlds /\ shelf' \in Seq(Atoms) /\ eval' \in Seq(Worlds)
  BY <1>1, AppendProperties DEF HostAdd, TypeOK
<1>3. <<Change("add", "self", a)>> \in Seq(Changes) /\ Hook(<<Change("add", "self", a)>>)
  BY OneChange DEF HostAdd
<1> QED
  BY <1>2, <1>3, HookStep DEF HostAdd

LEMMA HostDeleteStep == ASSUME IInv, NEW a \in Atoms, HostDelete(a) PROVE IInv'
<1>1. TypeOK /\ world.extra \in Seq(Atoms)
  BY TypesOf DEF IInv
<1>2. RemoveFirst(kb, a) \in Seq(Atoms) /\ RemoveFirst(world.extra, a) \in Seq(Atoms)
  BY <1>1, RemoveFirstTyped DEF TypeOK
<1>3. [world EXCEPT !.extra = RemoveFirst(@, a)] \in Worlds
  BY <1>1, <1>2 DEF TypeOK, Worlds
<1>4. kb' \in Seq(Atoms) /\ world' \in Worlds /\ shelf' \in Seq(Atoms) /\ eval' \in Seq(Worlds)
  BY <1>1, <1>2, <1>3 DEF HostDelete, TypeOK
<1>5. <<Change("remove", "self", a)>> \in Seq(Changes) /\ Hook(<<Change("remove", "self", a)>>)
  BY OneChange DEF HostDelete
<1> QED
  BY <1>4, <1>5, HookStep DEF HostDelete

LEMMA HostClearStep == ASSUME IInv, HostClear PROVE IInv'
<1>1. TypeOK /\ Visible \in Seq(Atoms)
  BY VisibleTyped DEF IInv
<1>2. Len(Visible) \in Nat /\ \A i \in 1..Len(Visible) : Visible[i] \in Atoms
  BY <1>1, LenProperties, ElementOfSeq
<1>3. ASSUME NEW n \in Nat, n <= Len(Visible) PROVE Removals(n) \in Seq(Changes)
  <2>1. \A i \in 1..n : Change("remove", "self", Visible[i]) \in Changes
    BY <1>2, <1>3 DEF Change, Changes
  <2>2. Removals(n) \in [1..n -> Changes]
    BY <2>1 DEF Removals
  <2> QED
    BY <2>2, FunctionIsSeq
<1>4. PICK n \in Nat : n <= Len(Visible) /\ Hook(Removals(n))
  BY <1>2 DEF HostClear
<1>5. kb' \in Seq(Atoms) /\ world' \in Worlds /\ shelf' \in Seq(Atoms) /\ eval' \in Seq(Worlds)
  BY <1>1, NoEffectsTyped, EmptySeq DEF HostClear, TypeOK, ClearSelfSpace
<1>6. Removals(n) \in Seq(Changes)
  BY <1>3, <1>4
<1> QED
  BY <1>4, <1>5, <1>6, HookStep DEF HostClear

LEMMA BeginEvalStep == ASSUME IInv, BeginEval PROVE IInv'
<1>1. TypeOK
  BY DEF IInv
<1>2. << >> \in Seq(Changes)
  BY EmptySeq
<1>3. Hook(<< >>)
  <2>1. Logged(<< >>) = changeLog
    BY <1>2, ActedFacts
  <2> QED
    BY <2>1 DEF Hook, BeginEval, log
<1>4. kb' \in Seq(Atoms) /\ world' \in Worlds /\ shelf' \in Seq(Atoms)
  BY <1>1 DEF BeginEval, TypeOK, space
<1>5. eval' \in Seq(Worlds)
  <2>1. world \in Worlds
    BY <1>1 DEF TypeOK
  <2>2. <<world>> \in Seq(Worlds)
    BY <2>1, SMT
  <2> QED
    BY <2>2 DEF BeginEval
<1>6. UNCHANGED <<recordDepth, changeListeners, watching, reports, subscribed, stoppedLate, emptied>>
  BY DEF BeginEval, log, history
<1> QED
  BY <1>2, <1>3, <1>4, <1>5, <1>6, HookStep

-----------------------------------------------------------------------------
(* Steps of an evaluation.                                                 *)

LEMMA EvalTypes ==
    ASSUME TypeOK, eval # << >>
    PROVE  /\ Len(eval) \in Nat /\ Len(eval) \in 1..Len(eval)
           /\ \A i \in 1..Len(eval) : eval[i] \in Worlds
<1>1. eval \in Seq(Worlds)
  BY DEF TypeOK
<1>2. Len(eval) \in Nat /\ Len(eval) # 0
  BY <1>1, LenProperties, EmptySeq
<1> QED
  BY <1>1, <1>2, ElementOfSeq

LEMMA EvalWriteStep ==
    ASSUME IInv, NEW op \in {"add", "remove"}, NEW where \in {"self", "shelf"}, NEW a \in Atoms,
           EvalWrite(op, where, a)
    PROVE  IInv'
<1>1. TypeOK
  BY DEF IInv
<1>2. ASSUME NEW w \in Worlds PROVE Written(op, w, a) \in Worlds
  <2>1. w.extra \in Seq(Atoms) /\ w.removed \subseteq Atoms
    BY DEF Worlds
  <2>2. Append(w.extra, a) \in Seq(Atoms) /\ RemoveFirst(w.extra, a) \in Seq(Atoms)
    BY <2>1, AppendProperties, RemoveFirstTyped
  <2>3. /\ [w EXCEPT !.extra = Append(@, a)] \in Worlds
        /\ [w EXCEPT !.extra = RemoveFirst(@, a)] \in Worlds
        /\ [w EXCEPT !.removed = @ \cup {a}] \in Worlds
    BY <2>1, <2>2 DEF Worlds
  <2> QED
    BY <2>3 DEF Written, EraseSpace
<1>3. kb' \in Seq(Atoms) /\ world' \in Worlds
  BY <1>1 DEF EvalWrite, TypeOK
<1>4. shelf' \in Seq(Atoms)
  <2>1. Append(shelf, a) \in Seq(Atoms) /\ RemoveFirst(shelf, a) \in Seq(Atoms)
    BY <1>1, AppendProperties, RemoveFirstTyped DEF TypeOK
  <2> QED
    BY <1>1, <2>1 DEF EvalWrite, TypeOK
<1>5. eval' \in Seq(Worlds)
  <2>1. eval # << >> /\ eval \in Seq(Worlds)
    BY <1>1 DEF EvalWrite, TypeOK
  <2>2. Len(eval) \in 1..Len(eval) /\ eval[Len(eval)] \in Worlds
    BY <1>1, <2>1, EvalTypes
  <2>3. [eval EXCEPT ![Len(eval)] = Written(op, @, a)] \in Seq(Worlds)
    BY <1>2, <2>1, <2>2, ExceptSeq
  <2>4. << >> \in Seq(Worlds)
    BY EmptySeq
  <2> QED
    BY <2>1, <2>3, <2>4 DEF EvalWrite
<1>6. Hook(<<Change(op, where, a)>>) /\ <<Change(op, where, a)>> \in Seq(Changes)
  BY OneChange DEF EvalWrite
<1> QED
  BY <1>3, <1>4, <1>5, <1>6, HookStep DEF EvalWrite

\* In an evaluation nothing waits to be put back undisturbed.
LEMMA EvalStep ==
    ASSUME IInv, eval # << >>, eval' \in Seq(Worlds), world' \in Worlds,
           UNCHANGED <<kb, shelf, log, stack, reports, history>>
    PROVE  IInv'
<1>1. TypeOK /\ Reported /\ Watched /\ ListenersKept /\ ReportExact /\ RestoreSound
      /\ DepthsNested(stack, recordDepth) /\ (~emptied => LogOfFrames(stack, changeLog))
  BY DEF IInv
<1>2. Undisturbed(stack') = {}
  BY <1>1 DEF RestoreSound
<1>3. RestoreSound'
  BY <1>2, NothingToPutBack
<1>4. TypeOK' /\ Reported' /\ Watched' /\ ListenersKept' /\ ReportExact'
  BY <1>1 DEF TypeOK, Reported, Watched, ListenersKept, ReportExact, log, history
<1>5. DepthsNested(stack', recordDepth') /\ (~emptied' => LogOfFrames(stack', changeLog'))
  BY <1>1 DEF log, history
<1> QED
  BY <1>3, <1>4, <1>5 DEF IInv

LEMMA OpenFormStep == ASSUME IInv, OpenForm PROVE IInv'
<1>1. TypeOK /\ eval # << >>
  BY DEF IInv, OpenForm
<1>2. eval \in Seq(Worlds) /\ Current \in Worlds
  BY <1>1, EvalTypes DEF TypeOK, Current
<1>3. eval' \in Seq(Worlds)
  BY <1>2, AppendProperties DEF OpenForm
<1>4. world' \in Worlds /\ UNCHANGED <<kb, shelf, log, stack, reports, history>>
  BY <1>1 DEF OpenForm, space, TypeOK
<1> QED
  BY <1>1, <1>3, <1>4, EvalStep

LEMMA CloseFormStep == ASSUME IInv, CloseForm PROVE IInv'
<1>1. TypeOK /\ eval # << >> /\ Len(eval) > 1
  BY EmptySeq DEF IInv, CloseForm
<1>2. /\ eval \in Seq(Worlds) /\ Current \in Worlds /\ Len(eval) \in Nat
      /\ \A i \in 1..Len(eval) : eval[i] \in Worlds
  BY <1>1, EvalTypes DEF TypeOK, Current
<1>3. ASSUME NEW n \in Int, n < Len(eval) PROVE SubSeq(eval, 1, n) \in Seq(Worlds)
  <2>1. \A i \in 1..n : eval[i] \in Worlds
    BY <1>2, <1>3
  <2> QED
    BY <2>1, SubSeqProperties
<1>4. SubSeq(eval, 1, Len(eval) - 2) \in Seq(Worlds) /\ Front(eval) \in Seq(Worlds)
  BY <1>2, <1>3 DEF Front
<1>5. eval' \in Seq(Worlds)
  <2>1. CASE eval' = Append(SubSeq(eval, 1, Len(eval) - 2), Current)
    BY <1>2, <1>4, <2>1, AppendProperties
  <2>2. CASE eval' = Front(eval)
    BY <1>4, <2>2
  <2> QED
    BY <2>1, <2>2 DEF CloseForm
<1>6. world' \in Worlds /\ UNCHANGED <<kb, shelf, log, stack, reports, history>>
  BY <1>1 DEF CloseForm, space, TypeOK
<1> QED
  BY <1>1, <1>5, <1>6, EvalStep

LEMMA EndEvalStep == ASSUME IInv, EndEval PROVE IInv'
<1>1. TypeOK /\ eval # << >>
  BY DEF IInv, EndEval
<1>2. Len(eval) = 1 => eval[1] \in Worlds
  BY <1>1, EvalTypes
<1>3. eval' \in Seq(Worlds) /\ world' \in Worlds
  BY <1>1, <1>2, EmptySeq DEF EndEval, TypeOK
<1>4. UNCHANGED <<kb, shelf, log, stack, reports, history>>
  BY DEF EndEval
<1> QED
  BY <1>1, <1>3, <1>4, EvalStep

-----------------------------------------------------------------------------
(* Frames that begin.                                                      *)

\* What can be undisturbed is the innermost frame, outside an evaluation, and the space
\* is as far back as its phase says.
LEMMA PutBackSoFar ==
    ASSUME stack' \in Seq(Frames), Undisturbed(stack') \subseteq {Len(stack')}, eval' = << >>,
           Len(stack') \in Undisturbed(stack') =>
             /\ Top'.phase = "cleared" => kb' = << >> /\ world' = NoEffects
             /\ Top'.phase = "refilled" => kb' = Top'.before /\ world' = NoEffects
    PROVE  RestoreSound'
<1>1. Level' = Len(stack')
  BY DEF Level
<1>2. \A i \in Undisturbed(stack') : i = Level'
  BY <1>1
<1> QED
  BY <1>1, <1>2 DEF RestoreSound

LEMMA FrameIs ==
    ASSUME TypeOK, NEW kind \in {"transaction", "dryRun", "undo"}, NEW phase \in {"body", "clear"},
           NEW before \in Seq(Atoms)
    PROVE  LET f == Frame(kind, phase, before)
           IN  /\ f \in Frames /\ f.mark = Len(changeLog) /\ f.own = << >> /\ f.depth = recordDepth
               /\ f.phase = phase /\ f.listeners = changeListeners
<1>1. Len(changeLog) \in Nat /\ << >> \in Seq(Changes)
  BY LenProperties, EmptySeq DEF TypeOK
<1>2. shelf \in Seq(Atoms) /\ recordDepth \in Nat /\ changeListeners \subseteq Listeners
  BY DEF TypeOK
<1> QED
  BY <1>1, <1>2 DEF Frame, Frames

LEMMA PushStep ==
    ASSUME IInv, NEW f \in Frames, f.mark = Len(changeLog), f.own = << >>, f.depth = recordDepth,
           f.listeners = changeListeners, f.phase \in {"body", "clear"}, UserCode,
           stack' = Append(Acted(<< >>), f),
           recordDepth' = IF f.phase = "body" THEN recordDepth + 1 ELSE 0,
           changeListeners' = IF f.phase = "body" THEN changeListeners ELSE {},
           Watched', watching' \in BOOLEAN,
           UNCHANGED <<space, changeLog, eval, reports, history>>
    PROVE  IInv'
<1> DEFINE fs == Acted(<< >>)
<1>1. /\ TypeOK /\ Reported /\ ListenersKept /\ ReportExact /\ recordDepth \in Nat
      /\ changeLog \in Seq(Entry) /\ changeListeners \subseteq Listeners
  BY TypesOf DEF IInv, TypeOK
<1>2. << >> \in Seq(Changes)
  BY EmptySeq
<1>3. /\ fs \in Seq(Frames) /\ DepthsNested(fs, recordDepth)
      /\ ~emptied => LogOfFrames(fs, changeLog)
      /\ Saved(fs) = Saved(stack) /\ Undisturbed(fs) = {}
  BY <1>2, ActedFacts
<1>4. stack' = Append(fs, f)
  OBVIOUS
<1> HIDE DEF fs
<1>5. /\ stack' \in Seq(Frames) /\ Len(stack') = Len(fs) + 1 /\ Len(fs) \in Nat
      /\ stack'[Len(fs) + 1] = f /\ \A i \in 1..Len(fs) : stack'[i] = fs[i]
  <2> DEFINE gs == Append(fs, f)
  <2>1. /\ gs \in Seq(Frames) /\ Len(gs) = Len(fs) + 1 /\ Len(fs) \in Nat
        /\ gs[Len(fs) + 1] = f /\ \A i \in 1..Len(fs) : gs[i] = fs[i]
    BY <1>3, AppendProperties, FramesOf
  <2>2. stack' = gs
    BY <1>4
  <2> HIDE DEF gs
  <2> QED
    BY <2>1, <2>2, Zenon
<1>6. recordDepth' \in Nat /\ changeListeners' \subseteq Listeners
  BY <1>1
<1>7. TypeOK'
  BY <1>1, <1>5, <1>6 DEF TypeOK, space, history
<1>8. DepthsNested(stack', recordDepth')
  BY <1>3, <1>4, DepthsPushed
<1>9. ~emptied' => LogOfFrames(stack', changeLog')
  BY <1>1, <1>3, <1>4, LogPushed DEF history
<1>10. ListenersKept'
  <2>1. Saved(stack') = Saved(stack) \cup Held(f)
    BY <1>3, <1>4, SavedPushed
  <2>2. changeListeners' \cup Held(f) = changeListeners
    BY DEF Held
  <2>3. changeListeners' \cup Saved(stack') = changeListeners \cup Saved(stack)
    BY <2>1, <2>2
  <2> QED
    BY <1>1, <2>3 DEF ListenersKept, history
<1>11. RestoreSound'
  <2>1. ASSUME NEW i \in Undisturbed(stack') PROVE i = Len(stack')
    <3>1. i \in 1..Len(fs) + 1 /\ stack'[i].phase # "body" /\ stack'[i].quiet
      BY <1>5 DEF Undisturbed
    <3>2. ASSUME i # Len(fs) + 1 PROVE FALSE
      <4>1. i \in 1..Len(fs)
        BY <1>5, <3>1, <3>2
      <4>2. i \in Undisturbed(fs)
        BY <1>5, <3>1, <4>1 DEF Undisturbed
      <4> QED
        BY <1>3, <4>2
    <3> QED
      BY <1>5, <3>2
  <2>2. eval' = << >>
    BY DEF UserCode
  <2>3. Top' = f
    BY <1>5 DEF Top, Level
  <2> QED
    BY <1>5, <2>1, <2>2, <2>3, PutBackSoFar
<1>12. Reported' /\ ReportExact'
  BY <1>1 DEF Reported, ReportExact, history
<1> QED
  BY <1>7, <1>8, <1>9, <1>10, <1>11, <1>12 DEF IInv

LEMMA BeginStep == ASSUME IInv, NEW kind \in {"transaction", "dryRun"}, Begin(kind) PROVE IInv'
<1> DEFINE f == Frame(kind, "body", Visible)
<1>1. TypeOK /\ Visible \in Seq(Atoms)
  BY VisibleTyped DEF IInv
<1>2. /\ f \in Frames /\ f.mark = Len(changeLog) /\ f.own = << >> /\ f.depth = recordDepth
      /\ f.phase = "body" /\ f.listeners = changeListeners
  BY <1>1, FrameIs
<1>3. /\ UserCode /\ stack' = Append(Acted(<< >>), f) /\ recordDepth' = recordDepth + 1
      /\ Sync(recordDepth + 1, changeListeners)
      /\ UNCHANGED <<space, changeLog, changeListeners, eval, reports, history>>
  BY DEF Begin
<1> HIDE DEF f
<1>4. Watched' /\ watching' \in BOOLEAN
  BY <1>3, Zenon DEF Watched, Sync
<1> QED
  BY <1>2, <1>3, <1>4, PushStep

LEMMA UndoStep == ASSUME IInv, Undo PROVE IInv'
<1> DEFINE f == Frame("undo", "clear", reports[1].before)
<1>1. TypeOK /\ reports[1].before \in Seq(Atoms)
  BY DEF IInv, Reported, Undo
<1>2. /\ f \in Frames /\ f.mark = Len(changeLog) /\ f.own = << >> /\ f.depth = recordDepth
      /\ f.phase = "clear" /\ f.listeners = changeListeners
  BY <1>1, FrameIs
<1>3. /\ UserCode /\ stack' = Append(Acted(<< >>), f) /\ recordDepth' = 0
      /\ changeListeners' = {} /\ Sync(0, {})
      /\ UNCHANGED <<space, changeLog, eval, reports, history>>
  BY DEF Undo, Silence
<1> HIDE DEF f
<1>4. Watched' /\ watching' \in BOOLEAN
  BY <1>3, Zenon DEF Watched, Sync
<1> QED
  BY <1>2, <1>3, <1>4, PushStep

-----------------------------------------------------------------------------
(* Bodies that are put back.                                               *)

\* The innermost frame is replaced by f, with the log and the listeners as they stand.
LEMMA TopStep ==
    ASSUME IInv, stack # << >>, NEW f \in Frames, stack' = [stack EXCEPT ![Level] = f],
           f.depth = Top.depth, f.phase # "body", eval' = << >>,
           Held(Top) \subseteq f.listeners
    PROVE  /\ stack' \in Seq(Frames) /\ stack' # << >> /\ Len(stack') = Level /\ Top' = f
           /\ DepthsNested(stack', 0)
           /\ Saved(stack') = Saved(stack) \cup f.listeners
           /\ \A i \in 1..Level : stack'[i] = IF i = Level THEN f ELSE stack[i]
           /\ (f.phase = "cleared" /\ f.quiet => kb' = << >> /\ world' = NoEffects)
              /\ (f.phase = "refilled" /\ f.quiet => kb' = f.before /\ world' = NoEffects)
                => RestoreSound'
<1> DEFINE gs == [stack EXCEPT ![Level] = f]
<1>1. TypeOK /\ DepthsNested(stack, recordDepth) /\ RestoreSound
  BY DEF IInv
<1>2. /\ stack \in Seq(Frames) /\ Level = Len(stack) /\ Level \in Nat
      /\ Level \in 1..Level /\ Top \in Frames /\ Top = stack[Level]
  BY <1>1, TypesOf
<1>3. /\ gs \in Seq(Frames) /\ gs # << >> /\ Len(gs) = Level
      /\ \A i \in 1..Level : gs[i] = IF i = Level THEN f ELSE stack[i]
  BY <1>2, TopReplaced
<1>4. DepthsNested(gs, 0)
  BY <1>1, <1>2, DepthsTop
<1>5. Saved(gs) = Saved(stack) \cup f.listeners
  <2>1. Held(f) = f.listeners
    BY DEF Held
  <2>2. Held(stack[Len(stack)]) \subseteq Held(f)
    BY <1>2, <2>1
  <2> QED
    BY <1>2, <2>1, <2>2, SavedTop
<1>6. stack' = gs
  OBVIOUS
<1> HIDE DEF gs
<1>7. Top' = f
  BY <1>2, <1>3, <1>6 DEF Top, Level
<1>8. ASSUME NEW i \in Undisturbed(stack') PROVE i = Len(stack')
  <2>1. i \in 1..Level /\ stack'[i].phase # "body" /\ stack'[i].quiet
    BY <1>3, <1>6, <1>8 DEF Undisturbed
  <2>2. CASE i # Level
    <3>1. i \in Undisturbed(stack)
      BY <1>2, <1>3, <1>6, <2>1, <2>2 DEF Undisturbed
    <3> QED
      BY <1>1, <2>2, <3>1 DEF RestoreSound
  <2> QED
    BY <1>3, <1>6, <2>2
<1>9. ASSUME f.phase = "cleared" /\ f.quiet => kb' = << >> /\ world' = NoEffects,
             f.phase = "refilled" /\ f.quiet => kb' = f.before /\ world' = NoEffects
      PROVE  RestoreSound'
  <2>1. Len(stack') \in Undisturbed(stack') => Top'.quiet
    BY <1>2, <1>3, <1>6, <1>7 DEF Undisturbed
  <2> QED
    BY <1>3, <1>6, <1>7, <1>8, <1>9, <2>1, PutBackSoFar
<1> QED
  BY <1>3, <1>4, <1>5, <1>6, <1>7, <1>9

LEMMA RestoreStep ==
    ASSUME IInv, InBody("transaction") \/ InBody("dryRun"), NEW own \in Seq(Changes), Restore(own),
           changeLog' \in Seq(Entry),
           ~emptied => \A f \in Frames : f.mark = Top.mark /\ f.own = own
                         => LogOfFrames([stack EXCEPT ![Level] = f], changeLog'),
           UNCHANGED <<space, eval, history>>, Reported', ReportExact'
    PROVE  IInv'
<1> DEFINE f == [Top EXCEPT !.phase = "clear", !.own = own, !.listeners = changeListeners]
<1>1. TypeOK /\ ListenersKept /\ stack # << >> /\ eval = << >> /\ Top.phase = "body"
  BY DEF IInv, InBody
<1>2. /\ Top \in Frames /\ stack \in Seq(Frames) /\ Level = Len(stack) /\ Top = stack[Level]
      /\ Level \in 1..Level
  BY <1>1, TypesOf
<1>3. changeListeners \subseteq Listeners
  BY <1>1 DEF TypeOK
<1>4. f \in Frames
  BY <1>2, <1>3 DEF Frames
<1>5. /\ f.depth = Top.depth /\ f.phase = "clear" /\ f.listeners = changeListeners
      /\ f.mark = Top.mark /\ f.own = own
  BY <1>2 DEF Frames
<1>6. /\ stack' = [stack EXCEPT ![Level] = f]
      /\ recordDepth' = 0 /\ changeListeners' = {} /\ Sync(0, {})
  BY DEF Restore, Silence, Top
<1> HIDE DEF f
<1>7. Held(Top) \subseteq f.listeners
  BY <1>1 DEF Held
<1>8. /\ stack' \in Seq(Frames) /\ DepthsNested(stack', 0) /\ RestoreSound'
      /\ Saved(stack') = Saved(stack) \cup changeListeners
  BY <1>1, <1>4, <1>5, <1>6, <1>7, TopStep
<1>9. Watched' /\ watching' \in BOOLEAN
  BY <1>6, Zenon DEF Watched, Sync
<1>10. TypeOK'
  BY <1>1, <1>6, <1>8, <1>9 DEF TypeOK, Entry, space, history
<1>11. ListenersKept'
  <2>1. changeListeners' \cup Saved(stack') = changeListeners \cup Saved(stack)
    BY <1>6, <1>8
  <2> QED
    BY <1>1, <2>1 DEF ListenersKept, history
<1>12. ~emptied' => LogOfFrames(stack', changeLog')
  BY <1>4, <1>5, <1>6 DEF history
<1> QED
  BY <1>6, <1>8, <1>9, <1>10, <1>11, <1>12 DEF IInv

\* What a body reports is what the hook told of it.
LEMMA ReportIs ==
    ASSUME IInv, stack # << >>
    PROVE  /\ Report[1].before \in Seq(Atoms)
           /\ ~Report[1].emptied => Report[1].changes = Report[1].own
           /\ Report[1].emptied = emptied
<1>1. TypeOK /\ (~emptied => LogOfFrames(stack, changeLog))
  BY DEF IInv
<1>2. /\ changeLog \in Seq(Entry) /\ Top \in Frames /\ Top = stack[Level] /\ Level = Len(stack)
      /\ Level \in 1..Level
  BY <1>1, TypesOf
<1>3. /\ Top.before \in Seq(Atoms) /\ Top.mark \in Nat /\ Top.own \in Seq(Changes)
      /\ Len(Top.own) \in Nat /\ Len(changeLog) \in Nat
  BY <1>2, FrameFields, LenProperties
<1>4. /\ Report[1].before = Top.before /\ Report[1].emptied = emptied
      /\ Report[1].changes = SubSeq(changeLog, Top.mark + 1, Len(changeLog))
      /\ Report[1].own = Top.own
  BY DEF Report
<1>5. ASSUME ~emptied PROVE SubSeq(changeLog, Top.mark + 1, Len(changeLog)) = Top.own
  <2> DEFINE l == changeLog
             o == Top.own
             k == Top.mark
             n == Len(o)
             s == SubSeq(l, k + 1, k + n)
  <2>1. k + n = Len(l) /\ \A i \in 1..n : l[k + i] = o[i]
    BY <1>1, <1>2, <1>5 DEF LogOfFrames
  <2>2. n \in Nat /\ k \in Nat /\ l \in Seq(Entry) /\ o \in Seq(Changes)
    BY <1>2, <1>3
  <2>3. \A i \in 1..Len(l) : l[i] \in Entry
    BY <2>2, ElementOfSeq
  <2> HIDE DEF l, o, k, n
  <2>4. \A i \in k + 1 .. k + n : l[i] \in Entry
    BY <2>1, <2>2, <2>3
  <2>5. /\ s \in Seq(Entry)
        /\ Len(s) = IF k + 1 <= k + n THEN k + n - (k + 1) + 1 ELSE 0
        /\ \A i \in 1..k + n - (k + 1) + 1 : s[i] = l[k + 1 + i - 1]
    BY <2>2, <2>4, SubSeqProperties
  <2> HIDE DEF s
  <2>6. Len(s) = n
    BY <2>2, <2>5
  <2>7. ASSUME NEW i \in 1..n PROVE s[i] = o[i]
    <3>1. i \in 1..k + n - (k + 1) + 1 /\ k + 1 + i - 1 = k + i
      BY <2>2
    <3>2. s[i] = l[k + i]
      BY <2>5, <3>1
    <3> QED
      BY <2>1, <3>2
  <2>8. Len(o) = n
    BY DEF n
  <2>9. o \in Seq(Entry)
    BY <2>2, SeqMonotonic DEF Entry
  <2>10. s = o
    BY <2>5, <2>6, <2>7, <2>8, <2>9, SeqEqual
  <2> QED
    BY <2>1, <2>10 DEF l, o, k, n, s
<1> QED
  BY <1>3, <1>4, <1>5

LEMMA ReportStep ==
    ASSUME IInv, stack # << >>, reports' = Report PROVE Reported' /\ ReportExact'
BY ReportIs DEF Reported, ReportExact

LEMMA EndDryRunStep == ASSUME IInv, EndDryRun PROVE IInv'
<1>1. /\ TypeOK /\ InBody("dryRun") /\ stack # << >> /\ (~emptied => LogOfFrames(stack, changeLog))
      /\ Restore(Top.own) /\ reports' = Report /\ UNCHANGED <<space, changeLog, eval, history>>
  BY DEF IInv, EndDryRun, InBody
<1>2. /\ Top \in Frames /\ Top = stack[Level] /\ Level = Len(stack) /\ stack \in Seq(Frames)
      /\ changeLog \in Seq(Entry) /\ Level \in Nat
  BY <1>1, TypesOf
<1>3. Top.own \in Seq(Changes)
  BY <1>2, FrameFields
<1>4. ASSUME ~emptied, NEW f \in Frames, f.mark = Top.mark, f.own = Top.own
      PROVE  LogOfFrames([stack EXCEPT ![Level] = f], changeLog)
  <2>1. /\ Len([stack EXCEPT ![Level] = f]) = Level
        /\ \A i \in 1..Level : [stack EXCEPT ![Level] = f][i] = IF i = Level THEN f ELSE stack[i]
    BY <1>1, <1>2, TopReplaced
  <2>2. \A i \in 1..Len(stack) : /\ [stack EXCEPT ![Level] = f][i].mark = stack[i].mark
                                 /\ [stack EXCEPT ![Level] = f][i].own = stack[i].own
    BY <1>2, <1>4, <2>1
  <2> QED
    BY <1>1, <1>2, <1>4, <2>1, <2>2, LogRelabelled
<1>5. Reported' /\ ReportExact'
  BY <1>1, ReportStep
<1> QED
  BY <1>1, <1>2, <1>3, <1>4, <1>5, RestoreStep

LEMMA ThrowStep == ASSUME IInv, Throw PROVE IInv'
<1>1. /\ TypeOK /\ Reported /\ ReportExact
      /\ InBody("transaction") /\ stack # << >> /\ (~emptied => LogOfFrames(stack, changeLog))
      /\ Restore(<< >>) /\ changeLog' = Cut(changeLog, Top.mark) /\ UNCHANGED <<space, eval, reports, history>>
  BY DEF IInv, Throw, InBody, CutAtThrow
<1>2. /\ Top \in Frames /\ Top = stack[Level] /\ Level = Len(stack) /\ stack \in Seq(Frames)
      /\ changeLog \in Seq(Entry)
  BY <1>1, TypesOf
<1>3. Top.mark \in Nat /\ << >> \in Seq(Changes)
  BY <1>2, FrameFields, EmptySeq
<1>4. changeLog' \in Seq(Entry)
  BY <1>1, <1>2, <1>3, CutAt
<1>5. ~emptied => \A f \in Frames : f.mark = Top.mark /\ f.own = << >>
                    => LogOfFrames([stack EXCEPT ![Level] = f], changeLog')
  BY <1>1, <1>2, LogCut
<1>6. Reported' /\ ReportExact'
  BY <1>1 DEF Reported, ReportExact
<1> QED
  BY <1>1, <1>3, <1>4, <1>5, <1>6, RestoreStep

-----------------------------------------------------------------------------
(* Restores.                                                               *)

LEMMA PhaseStep ==
    ASSUME IInv, Restoring, eval = << >>, NEW phase \in {"cleared", "refilled"},
           stack' = [stack EXCEPT ![Level].phase = phase],
           kb' \in Seq(Atoms), world' \in Worlds,
           phase = "cleared" => kb' = << >> /\ world' = NoEffects,
           phase = "refilled" /\ Top.quiet => kb' = Top.before /\ world' = NoEffects,
           UNCHANGED <<shelf, log, eval, reports, history>>
    PROVE  IInv'
<1> DEFINE f == [Top EXCEPT !.phase = phase]
<1>1. TypeOK /\ Reported /\ Watched /\ ListenersKept /\ ReportExact /\ stack # << >> /\ Top.phase # "body"
      /\ (~emptied => LogOfFrames(stack, changeLog)) /\ recordDepth = 0
  BY DepthHere DEF IInv, Restoring
<1>2. /\ Top \in Frames /\ stack \in Seq(Frames) /\ Level = Len(stack) /\ Top = stack[Level]
      /\ Level \in 1..Level /\ Level \in Nat
  BY <1>1, TypesOf
<1>3. f \in Frames
  BY <1>2 DEF Frames
<1>4. /\ f.depth = Top.depth /\ f.phase = phase /\ f.listeners = Top.listeners
      /\ f.mark = Top.mark /\ f.own = Top.own /\ f.before = Top.before /\ f.quiet = Top.quiet
  BY <1>2 DEF Frames
<1>5. stack' = [stack EXCEPT ![Level] = f]
  BY DEF Top
<1> HIDE DEF f
<1>6. Held(Top) = f.listeners /\ eval' = << >>
  BY <1>1, <1>4 DEF Held
<1>7. /\ stack' \in Seq(Frames) /\ Len(stack') = Level /\ DepthsNested(stack', 0) /\ RestoreSound'
      /\ Saved(stack') = Saved(stack) \cup f.listeners
      /\ \A i \in 1..Level : stack'[i] = IF i = Level THEN f ELSE stack[i]
  BY <1>1, <1>3, <1>4, <1>5, <1>6, TopStep
<1>8. TypeOK' /\ Reported' /\ Watched' /\ ReportExact'
  BY <1>1, <1>7 DEF TypeOK, Reported, Watched, ReportExact, log, history
<1>9. ListenersKept'
  <2>1. f.listeners \subseteq Saved(stack)
    BY <1>2, <1>6, SavedIs
  <2>2. Saved(stack') = Saved(stack)
    BY <1>7, <2>1
  <2> QED
    BY <1>1, <2>2 DEF ListenersKept, log, history
<1>10. ~emptied' => LogOfFrames(stack', changeLog')
  <2>1. \A i \in 1..Len(stack) : stack'[i].mark = stack[i].mark /\ stack'[i].own = stack[i].own
    BY <1>2, <1>4, <1>7
  <2>2. ASSUME ~emptied PROVE LogOfFrames(stack', changeLog)
    BY <1>1, <1>2, <1>7, <2>1, <2>2, LogRelabelled
  <2> QED
    BY <2>2 DEF log, history
<1>11. DepthsNested(stack', recordDepth')
  BY <1>1, <1>7 DEF log
<1> QED
  BY <1>7, <1>8, <1>9, <1>10, <1>11 DEF IInv

LEMMA ClearSpaceStep == ASSUME IInv, ClearSpace PROVE IInv'
<1>1. /\ Restoring /\ eval = << >> /\ stack' = [stack EXCEPT ![Level].phase = "cleared"]
      /\ kb' = << >> /\ world' = NoEffects
      /\ UNCHANGED <<shelf, log, eval, reports, history>>
  BY DEF ClearSpace, ClearSelfSpace
<1>2. kb' \in Seq(Atoms) /\ world' \in Worlds
  BY <1>1, EmptySeq, NoEffectsTyped
<1> QED
  BY <1>1, <1>2, PhaseStep

\* An undisturbed restore is in phase with the space.
LEMMA UndisturbedTop ==
    ASSUME IInv, Restoring, Top.quiet
    PROVE  /\ Top.phase = "cleared" => kb = << >> /\ world = NoEffects
           /\ Top.phase = "refilled" => kb = Top.before /\ world = NoEffects
<1>1. TypeOK /\ RestoreSound /\ stack # << >> /\ Top.phase # "body"
  BY DEF IInv, Restoring
<1>2. Level = Len(stack) /\ Level \in 1..Level /\ Top = stack[Level]
  BY <1>1, TypesOf
<1>3. Level \in Undisturbed(stack)
  BY <1>1, <1>2 DEF Undisturbed
<1> QED
  BY <1>1, <1>3 DEF RestoreSound

LEMMA RefillStep == ASSUME IInv, Refill PROVE IInv'
<1>1. /\ TypeOK /\ stack # << >> /\ Restoring /\ eval = << >> /\ Top.phase = "cleared"
      /\ stack' = [stack EXCEPT ![Level].phase = "refilled"]
      /\ kb' = kb \o Top.before
      /\ UNCHANGED <<world, shelf, log, eval, reports, history>>
  BY DEF IInv, Refill, Restoring
<1>2. Top.before \in Seq(Atoms) /\ kb \in Seq(Atoms) /\ world \in Worlds
  BY <1>1, TypesOf, FrameFields
<1>3. kb' \in Seq(Atoms)
  BY <1>1, <1>2, ConcatProperties
<1>4. Top.quiet => kb' = Top.before /\ world' = NoEffects
  <2>1. << >> \o Top.before = Top.before
    BY <1>2, ConcatEmptySeq
  <2> QED
    BY <1>1, <2>1, UndisturbedTop
<1> QED
  BY <1>1, <1>2, <1>3, <1>4, PhaseStep

-----------------------------------------------------------------------------
(* Frames that end.                                                        *)

LEMMA NoFrames == ASSUME NEW l PROVE LogOfFrames(<< >>, l)
<1>1. \A i : i \notin 1..Len(<< >>)
  BY EmptySeq
<1> QED
  BY <1>1 DEF LogOfFrames

\* A frame that began at the start of the log takes the log with it.
LEMMA LogForgotten ==
    ASSUME NEW fs \in Seq(Frames), fs # << >>, NEW l \in Seq(Entry), LogOfFrames(fs, l),
           fs[Len(fs)].mark = 0
    PROVE  LogOfFrames(Front(fs), << >>)
<1>1. LogOfFrames(Front(fs), Cut(l, 0))
  BY LogCut
<1>2. Cut(l, 0) = << >>
  BY CutAt, EmptySeq
<1> QED
  BY <1>1, <1>2

\* The frames without the innermost one, with its changes or not.
LEMMA FramesTaken ==
    ASSUME TypeOK, stack # << >>
    PROVE  \A gs : gs = Below \/ gs = Closed
             => /\ gs \in Seq(Frames) /\ Len(gs) = Level - 1
                /\ \A i \in 1..Level - 1 :
                     /\ i \in 1..Level /\ gs[i].phase = stack[i].phase /\ gs[i].depth = stack[i].depth
                     /\ gs[i].listeners = stack[i].listeners /\ gs[i].quiet = stack[i].quiet
<1>1. stack \in Seq(Frames) /\ Level = Len(stack)
  BY TypesOf
<1>2. Closed = Merged(stack)
  BY DEF Closed, Below, Merged, Top, Level
<1>3. Below = Front(stack)
  BY DEF Below
<1>4. /\ Below \in Seq(Frames) /\ Len(Below) = Level - 1
      /\ \A i \in 1..Level - 1 : i \in 1..Level /\ Below[i] = stack[i]
  BY <1>1, <1>3, FrontOf
<1>5. /\ Closed \in Seq(Frames) /\ Len(Closed) = Level - 1
      /\ \A i \in 1..Level - 1 :
           /\ i \in 1..Level /\ Closed[i].phase = stack[i].phase /\ Closed[i].depth = stack[i].depth
           /\ Closed[i].listeners = stack[i].listeners /\ Closed[i].quiet = stack[i].quiet
  BY <1>1, <1>2, MergedIs
<1> QED
  BY <1>4, <1>5, Zenon

\* The innermost frame goes and the depth and the listeners are what it put by.
LEMMA TakeStep ==
    ASSUME IInv, stack # << >>, stack' = Below \/ stack' = Closed,
           recordDepth' = Top.depth, changeListeners' = changeListeners \cup Held(Top),
           Sync(recordDepth', changeListeners'),
           kb' \in Seq(Atoms), changeLog' \in Seq(Entry), emptied' \in BOOLEAN,
           ~emptied' => LogOfFrames(stack', changeLog'),
           UNCHANGED <<world, shelf, eval, subscribed, stoppedLate>>, Reported', ReportExact'
    PROVE  IInv'
<1>1. TypeOK /\ ListenersKept /\ RestoreSound /\ DepthsNested(stack, recordDepth)
  BY DEF IInv
<1>2. /\ stack \in Seq(Frames) /\ Level = Len(stack) /\ Level \in Nat /\ Top \in Frames
      /\ Top = stack[Level]
  BY <1>1, TypesOf
<1>3. /\ stack' \in Seq(Frames) /\ Len(stack') = Level - 1
      /\ \A i \in 1..Level - 1 :
           /\ i \in 1..Level /\ stack'[i].phase = stack[i].phase /\ stack'[i].depth = stack[i].depth
           /\ stack'[i].listeners = stack[i].listeners /\ stack'[i].quiet = stack[i].quiet
  BY <1>1, FramesTaken
<1>4. Top.depth \in Nat /\ Held(Top) \subseteq Listeners
  BY <1>2, FrameFields DEF Held
<1>5. DepthsNested(stack', recordDepth')
  BY <1>1, <1>2, <1>3, DepthsTaken
<1>6. Saved(stack) = Saved(stack') \cup Held(Top)
  BY <1>2, <1>3, SavedTaken
<1>7. Undisturbed(stack') = {}
  <2>1. ASSUME NEW i \in Undisturbed(stack') PROVE FALSE
    <3>1. i \in 1..Level - 1 /\ stack'[i].phase # "body" /\ stack'[i].quiet
      BY <1>3, <2>1 DEF Undisturbed
    <3>2. i \in Undisturbed(stack)
      BY <1>2, <1>3, <3>1 DEF Undisturbed
    <3>3. i = Level
      BY <1>1, <3>2 DEF RestoreSound
    <3> QED
      BY <1>2, <3>1, <3>3
  <2> QED
    BY <2>1
<1>8. RestoreSound'
  BY <1>7, NothingToPutBack
<1>9. Watched' /\ watching' \in BOOLEAN
  BY Zenon DEF Watched, Sync
<1>10. TypeOK'
  <2>1. recordDepth' \in Nat /\ changeListeners' \subseteq Listeners
    BY <1>1, <1>4 DEF TypeOK
  <2> QED
    BY <1>1, <1>3, <1>9, <2>1 DEF TypeOK, Entry
<1>11. ListenersKept'
  <2>1. changeListeners' \cup Saved(stack') = changeListeners \cup Saved(stack)
    BY <1>6
  <2> QED
    BY <1>1, <2>1 DEF ListenersKept
<1> QED
  BY <1>5, <1>8, <1>9, <1>10, <1>11 DEF IInv

\* What the log says of the frames that remain.
LEMMA LogTaken ==
    ASSUME IInv, stack # << >>
    PROVE  /\ EmptiedBy(FALSE) /\ ~emptied' => LogOfFrames(Closed, changeLog)
           /\ EmptiedBy(TRUE) /\ ~emptied' => LogOfFrames(Below, << >>)
           /\ EmptiedBy(FALSE) /\ ~emptied' => LogOfFrames(Below, Cut(changeLog, Top.mark))
           /\ EmptiedBy(TRUE) \/ EmptiedBy(FALSE) => emptied' \in BOOLEAN
<1>1. TypeOK /\ (~emptied => LogOfFrames(stack, changeLog)) /\ emptied \in BOOLEAN
  BY DEF IInv, TypeOK
<1>2. /\ stack \in Seq(Frames) /\ Level = Len(stack) /\ Top \in Frames
      /\ Top = stack[Level] /\ changeLog \in Seq(Entry)
  BY <1>1, TypesOf
<1>3. Top.mark \in Nat
  BY <1>2, FrameFields
<1>4. Closed = Merged(stack) /\ Below = Front(stack)
  BY DEF Closed, Below, Merged, Top, Level
<1>5. CASE Below = << >>
  <2>1. Closed = << >>
    BY <1>5 DEF Closed
  <2>2. EmptiedBy(TRUE) \/ EmptiedBy(FALSE) => emptied' \in BOOLEAN
    BY <1>5 DEF EmptiedBy
  <2> QED
    BY <1>5, <2>1, <2>2, NoFrames
<1>6. CASE Below # << >>
  <2>1. EmptiedBy(FALSE) /\ ~emptied' => LogOfFrames(stack, changeLog)
    BY <1>1, <1>6 DEF EmptiedBy
  <2>2. EmptiedBy(TRUE) /\ ~emptied' => LogOfFrames(stack, changeLog) /\ Top.mark = 0
    <3>1. EmptiedBy(TRUE) /\ ~emptied' => ~emptied /\ ~(Top.mark > 0)
      BY <1>6, Zenon DEF EmptiedBy
    <3>2. ~(Top.mark > 0) => Top.mark = 0
      BY <1>3
    <3> QED
      BY <1>1, <3>1, <3>2
  <2>3. EmptiedBy(TRUE) \/ EmptiedBy(FALSE) => emptied' \in BOOLEAN
    BY Zenon DEF EmptiedBy
  <2> QED
    BY <1>2, <1>4, <2>1, <2>2, <2>3, LogMerged, LogForgotten, LogCut
<1> QED
  BY <1>5, <1>6

LEMMA ReturnStep == ASSUME IInv, Return PROVE IInv'
<1>1. /\ TypeOK /\ stack # << >> /\ Top.phase = "body"
      /\ recordDepth' = recordDepth - 1 /\ Sync(recordDepth - 1, changeListeners)
      /\ reports' = Report /\ changeLog' = Kept(recordDepth - 1, changeLog)
      /\ stack' = IF recordDepth = 1 THEN Below ELSE Closed
      /\ EmptiedBy(recordDepth = 1)
      /\ UNCHANGED <<space, changeListeners, eval, subscribed, stoppedLate>>
  BY DEF IInv, Return, InBody
<1>2. recordDepth = Top.depth + 1 /\ Top \in Frames /\ changeLog \in Seq(Entry) /\ kb \in Seq(Atoms)
  BY <1>1, DepthHere, TypesOf DEF Restoring
<1>3. Top.depth \in Nat
  BY <1>2, FrameFields
<1>4. recordDepth' = Top.depth /\ changeListeners' = changeListeners \cup Held(Top)
  BY <1>1, <1>2, <1>3 DEF Held
<1>5. Sync(recordDepth', changeListeners')
  BY <1>1 DEF Sync
<1>6. CASE recordDepth = 1
  <2>1. stack' = Below /\ changeLog' = << >> /\ EmptiedBy(TRUE)
    BY <1>1, <1>6 DEF Kept, EmptiedBy
  <2>2. emptied' \in BOOLEAN /\ (~emptied' => LogOfFrames(stack', changeLog')) /\ changeLog' \in Seq(Entry)
    BY <1>1, <2>1, LogTaken, EmptySeq
  <2> QED
    BY <1>1, <1>2, <1>4, <1>5, <2>1, <2>2, ReportStep, TakeStep DEF space
<1>7. CASE recordDepth # 1
  <2>1. stack' = Closed /\ changeLog' = changeLog /\ EmptiedBy(FALSE)
    BY <1>1, <1>2, <1>3, <1>7 DEF Kept, EmptiedBy
  <2>2. emptied' \in BOOLEAN /\ (~emptied' => LogOfFrames(stack', changeLog')) /\ changeLog' \in Seq(Entry)
    BY <1>1, <1>2, <2>1, LogTaken
  <2> QED
    BY <1>1, <1>2, <1>4, <1>5, <2>1, <2>2, ReportStep, TakeStep DEF space
<1> QED
  BY <1>6, <1>7

\* The finally of withoutRecording.
LEMMA AgainIs ==
    ASSUME Restoring, RecordAgain
    PROVE  /\ recordDepth' = Top.depth /\ changeListeners' = changeListeners \cup Held(Top)
           /\ Sync(recordDepth', changeListeners')
BY DEF Restoring, RecordAgain, ListenersBack, Held, Sync

LEMMA EndRestoreStep == ASSUME IInv, EndRestore PROVE IInv'
<1>1. /\ TypeOK /\ Reported /\ ReportExact /\ Restoring /\ stack # << >> /\ RecordAgain
      /\ UNCHANGED <<space, eval, reports, subscribed, stoppedLate>>
  BY DEF IInv, EndRestore, Restoring
<1>2. Top \in Frames /\ changeLog \in Seq(Entry) /\ kb \in Seq(Atoms)
  BY <1>1, TypesOf
<1>3. Top.mark \in Nat
  BY <1>2, FrameFields
<1>4. Reported' /\ ReportExact'
  BY <1>1 DEF Reported, ReportExact
<1>5. ASSUME stack' = Below \/ stack' = Closed, emptied' \in BOOLEAN, changeLog' \in Seq(Entry),
             ~emptied' => LogOfFrames(stack', changeLog')
      PROVE  IInv'
  BY <1>1, <1>2, <1>4, <1>5, AgainIs, TakeStep DEF space
<1>6. CASE Top.kind # "dryRun"
  <2>1. stack' = Closed /\ changeLog' = changeLog /\ EmptiedBy(FALSE)
    BY <1>6 DEF EndRestore
  <2> QED
    BY <1>1, <1>2, <1>5, <2>1, LogTaken
<1>7. CASE Top.kind = "dryRun"
  <2>1. /\ stack' = Below /\ changeLog' = Kept(Top.depth, Cut(changeLog, Top.mark))
        /\ EmptiedBy(Top.depth = 0)
    BY <1>7 DEF EndRestore
  <2>2. CASE Top.depth = 0
    <3>1. changeLog' = << >> /\ EmptiedBy(TRUE)
      BY <2>1, <2>2 DEF Kept, EmptiedBy
    <3> QED
      BY <1>1, <1>5, <2>1, <3>1, LogTaken, EmptySeq
  <2>3. CASE Top.depth # 0
    <3>1. changeLog' = Cut(changeLog, Top.mark) /\ EmptiedBy(FALSE)
      BY <2>1, <2>3 DEF Kept, EmptiedBy
    <3>2. changeLog' \in Seq(Entry)
      BY <1>2, <1>3, <3>1, CutAt
    <3> QED
      BY <1>1, <1>5, <2>1, <3>1, <3>2, LogTaken
  <2> QED
    BY <2>2, <2>3
<1> QED
  BY <1>6, <1>7

\* A restore that a callback or a listener ends.
LEMMA AbandonStep == ASSUME IInv, Restoring, Abandon, kb' \in Seq(Atoms) PROVE IInv'
<1>1. /\ TypeOK /\ Reported /\ ReportExact /\ stack # << >> /\ RecordAgain
      /\ stack' = Closed /\ EmptiedBy(FALSE)
      /\ UNCHANGED <<world, shelf, changeLog, eval, reports, subscribed, stoppedLate>>
  BY DEF IInv, Abandon, Restoring
<1>2. changeLog \in Seq(Entry)
  BY <1>1, TypesOf
<1>3. Reported' /\ ReportExact'
  BY <1>1 DEF Reported, ReportExact
<1>4. emptied' \in BOOLEAN /\ (~emptied' => LogOfFrames(stack', changeLog'))
  BY <1>1, LogTaken
<1> QED
  BY <1>1, <1>2, <1>3, <1>4, AgainIs, TakeStep

LEMMA ThrowInCallbackStep == ASSUME IInv, ThrowInCallback PROVE IInv'
<1>1. kb' \in Seq(Atoms)
  BY TypesOf DEF IInv, ThrowInCallback
<1> QED
  BY <1>1, AbandonStep DEF ThrowInCallback

LEMMA ThrowInRefillStep == ASSUME IInv, ThrowInRefill PROVE IInv'
<1>1. TypeOK /\ stack # << >> /\ Restoring /\ Abandon
  BY DEF IInv, ThrowInRefill, Restoring
<1>2. kb \in Seq(Atoms) /\ Top.before \in Seq(Atoms)
  BY <1>1, TypesOf, FrameFields
<1>3. PICK n \in 1..Len(Top.before) : kb' = kb \o SubSeq(Top.before, 1, n)
  BY DEF ThrowInRefill
<1>4. Len(Top.before) \in Nat /\ \A i \in 1..Len(Top.before) : Top.before[i] \in Atoms
  BY <1>2, LenProperties, ElementOfSeq
<1>5. SubSeq(Top.before, 1, n) \in Seq(Atoms)
  <2>1. n \in Int /\ \A i \in 1..n : Top.before[i] \in Atoms
    BY <1>4
  <2> QED
    BY <2>1, SubSeqProperties
<1>6. kb' \in Seq(Atoms)
  BY <1>2, <1>3, <1>5, ConcatProperties
<1> QED
  BY <1>1, <1>6, AbandonStep

-----------------------------------------------------------------------------
(* Listeners, and the theorems.                                            *)

LEMMA ListenersStep ==
    ASSUME IInv, changeListeners' \subseteq Listeners, subscribed' \subseteq Listeners,
           stoppedLate' \subseteq Listeners, Sync(recordDepth, changeListeners'),
           UNCHANGED <<space, changeLog, recordDepth, eval, stack, reports, emptied>>,
           ListenersKept'
    PROVE  IInv'
<1>1. TypeOK /\ Reported /\ ReportExact /\ RestoreSound
      /\ DepthsNested(stack, recordDepth) /\ (~emptied => LogOfFrames(stack, changeLog))
  BY DEF IInv
<1>2. Watched' /\ watching' \in BOOLEAN
  BY Zenon DEF Watched, Sync
<1>3. TypeOK'
  BY <1>1, <1>2 DEF TypeOK, space
<1>4. Reported' /\ ReportExact'
  BY <1>1 DEF Reported, ReportExact
<1>5. RestoreSound'
  BY <1>1 DEF RestoreSound, Undisturbed, Level, Top, space
<1>6. DepthsNested(stack', recordDepth') /\ (~emptied' => LogOfFrames(stack', changeLog'))
  BY <1>1
<1> QED
  BY <1>2, <1>3, <1>4, <1>5, <1>6 DEF IInv

LEMMA OnChangeStep == ASSUME IInv, NEW l \in Listeners, OnChange(l) PROVE IInv'
<1>1. TypeOK /\ ListenersKept
  BY DEF IInv
<1>2. /\ subscribed' = subscribed \cup {l} /\ stoppedLate' = stoppedLate \ {l}
      /\ changeListeners' = changeListeners \cup {l} /\ Sync(recordDepth, changeListeners')
      /\ UNCHANGED <<space, changeLog, recordDepth, eval, stack, reports, emptied>>
  BY DEF OnChange, Sync
<1>3. ListenersKept'
  BY <1>1, <1>2 DEF ListenersKept
<1>4. /\ changeListeners' \subseteq Listeners /\ subscribed' \subseteq Listeners
      /\ stoppedLate' \subseteq Listeners
  BY <1>1, <1>2 DEF TypeOK
<1> QED
  BY <1>2, <1>3, <1>4, ListenersStep

LEMMA StopStep == ASSUME IInv, NEW l \in Listeners, Stop(l) PROVE IInv'
<1>1. TypeOK /\ ListenersKept
  BY DEF IInv
<1>2. /\ subscribed' = subscribed \ {l}
      /\ stoppedLate' = IF l \in Saved(stack) THEN stoppedLate \cup {l} ELSE stoppedLate \ {l}
      /\ changeListeners' = changeListeners \ {l} /\ Sync(recordDepth, changeListeners')
      /\ UNCHANGED <<space, changeLog, recordDepth, eval, stack, reports, emptied>>
  BY DEF Stop, Sync
<1>3. ListenersKept'
  BY <1>1, <1>2 DEF ListenersKept
<1>4. /\ changeListeners' \subseteq Listeners /\ subscribed' \subseteq Listeners
      /\ stoppedLate' \subseteq Listeners
  BY <1>1, <1>2 DEF TypeOK
<1> QED
  BY <1>2, <1>3, <1>4, ListenersStep

LEMMA InitIInv == Init => IInv
<1> SUFFICES ASSUME Init PROVE IInv
  OBVIOUS
<1>1. /\ kb = << >> /\ world = NoEffects /\ shelf = << >> /\ changeLog = << >> /\ recordDepth = 0
      /\ changeListeners = {} /\ watching = FALSE /\ eval = << >> /\ stack = << >> /\ reports = << >>
      /\ subscribed = {} /\ stoppedLate = {} /\ emptied = FALSE
  BY DEF Init
<1>2. TypeOK
  <2>1. /\ << >> \in Seq(Atoms) /\ << >> \in Seq(Changes \cup {Hole}) /\ << >> \in Seq(Worlds)
        /\ << >> \in Seq(Frames)
    BY EmptySeq
  <2> QED
    BY <1>1, <2>1, NoEffectsTyped DEF TypeOK
<1>3. Len(stack) = 0 /\ \A i : i \notin 1..Len(stack)
  BY <1>1, EmptySeq
<1>4. Watched /\ Reported /\ ReportExact
  <2>1. ~(recordDepth > 0 \/ changeListeners # {})
    BY <1>1
  <2>2. Watched
    BY <1>1, <2>1, Zenon DEF Watched
  <2> QED
    BY <1>1, <2>2 DEF Reported, ReportExact
<1>5. DepthsNested(stack, recordDepth)
  BY <1>1, <1>3 DEF DepthsNested, DepthAt
<1>6. LogOfFrames(stack, changeLog)
  BY <1>1, NoFrames
<1>7. ListenersKept
  <2>1. \A l : l \notin Saved(stack)
    BY <1>2, <1>3, SavedIs DEF TypeOK
  <2> QED
    BY <1>1, <2>1 DEF ListenersKept
<1>8. RestoreSound
  BY <1>3 DEF RestoreSound, Undisturbed, Level
<1> QED
  BY <1>2, <1>4, <1>5, <1>6, <1>7, <1>8 DEF IInv

LEMMA Unchanged == IInv /\ UNCHANGED vars => IInv'
<1> SUFFICES ASSUME IInv, UNCHANGED vars PROVE IInv'
  OBVIOUS
<1>1. /\ TypeOK /\ ListenersKept /\ subscribed' \subseteq Listeners /\ stoppedLate' \subseteq Listeners
      /\ changeListeners' \subseteq Listeners
  BY DEF IInv, TypeOK, vars, log, history
<1>2. Sync(recordDepth, changeListeners')
  BY DEF IInv, Watched, Sync, vars, log
<1>3. ListenersKept'
  BY <1>1 DEF ListenersKept, vars, log, history
<1> QED
  BY <1>1, <1>2, <1>3, ListenersStep DEF vars, space, log, history

LEMMA StepIInv == IInv /\ [Next]_vars => IInv'
<1> SUFFICES ASSUME IInv, [Next]_vars PROVE IInv'
  OBVIOUS
<1>1. ASSUME NEW a \in Atoms, HostAdd(a) PROVE IInv'
  BY <1>1, HostAddStep
<1>2. ASSUME NEW a \in Atoms, HostDelete(a) PROVE IInv'
  BY <1>2, HostDeleteStep
<1>3. ASSUME NEW op \in {"add", "remove"}, NEW where \in {"self", "shelf"}, NEW a \in Atoms,
             EvalWrite(op, where, a)
      PROVE  IInv'
  BY <1>3, EvalWriteStep
<1>4. CASE HostClear
  BY <1>4, HostClearStep
<1>5. CASE BeginEval
  BY <1>5, BeginEvalStep
<1>6. CASE OpenForm
  BY <1>6, OpenFormStep
<1>7. CASE CloseForm
  BY <1>7, CloseFormStep
<1>8. CASE EndEval
  BY <1>8, EndEvalStep
<1>9. ASSUME NEW kind \in {"transaction", "dryRun"}, Begin(kind) PROVE IInv'
  BY <1>9, BeginStep
<1>10. CASE Return
  BY <1>10, ReturnStep
<1>11. CASE EndDryRun
  BY <1>11, EndDryRunStep
<1>12. CASE Throw
  BY <1>12, ThrowStep
<1>13. CASE Undo
  BY <1>13, UndoStep
<1>14. CASE ClearSpace
  BY <1>14, ClearSpaceStep
<1>15. CASE Refill
  BY <1>15, RefillStep
<1>16. CASE EndRestore
  BY <1>16, EndRestoreStep
<1>17. CASE ThrowInCallback
  BY <1>17, ThrowInCallbackStep
<1>18. CASE ThrowInRefill
  BY <1>18, ThrowInRefillStep
<1>19. ASSUME NEW l \in Listeners, OnChange(l) PROVE IInv'
  BY <1>19, OnChangeStep
<1>20. ASSUME NEW l \in Listeners, Stop(l) PROVE IInv'
  BY <1>20, StopStep
<1>21. CASE UNCHANGED vars
  BY <1>21, Unchanged
<1> QED
  BY <1>1, <1>2, <1>3, <1>4, <1>5, <1>6, <1>7, <1>8, <1>9, <1>10, <1>11, <1>12, <1>13, <1>14,
     <1>15, <1>16, <1>17, <1>18, <1>19, <1>20, <1>21 DEF Next

LEMMA IInvIsEnough == IInv => RecordingConsistent /\ ReportExact /\ ListenersKept /\ RestoredExactly
<1> SUFFICES ASSUME IInv PROVE RecordingConsistent /\ RestoredExactly /\ ReportExact /\ ListenersKept
  OBVIOUS
<1>1. RecordingConsistent
  BY DEF IInv, RecordingConsistent, Watched
<1>2. ReportExact /\ ListenersKept
  BY DEF IInv
<1>3. RestoredExactly
  <2> SUFFICES ASSUME Restoring, Top.phase = "refilled", Top.quiet PROVE Visible = Top.before
    BY DEF RestoredExactly
  <2>1. kb = Top.before /\ world = NoEffects
    BY UndisturbedTop
  <2>2. kb \in Seq(Atoms)
    BY TypesOf DEF IInv
  <2> QED
    BY <2>1, <2>2, NothingHidden
<1> QED
  BY <1>1, <1>2, <1>3

LEMMA InvariantHolds == Spec => []IInv
<1> QED
  BY InitIInv, StepIInv, PTL DEF Spec

(* At every point of every nesting of transactions, dry runs and undos, with *)
(* evaluations and watch callbacks that do whatever user code may, the hook  *)
(* is installed exactly while somebody records or listens, the depth counts  *)
(* the bodies open since the innermost restore, and the log is the changes   *)
(* of the open bodies in order unless a body in a callback emptied it        *)
(* (db.ts, syncSpaceWatch, transaction, dryRun, withoutRecording).           *)
THEOREM RecordingStaysConsistent == Spec => []RecordingConsistent
BY InvariantHolds, IInvIsEnough, PTL

(* A report lists the changes the hook reported of its body and of the kept  *)
(* bodies nested in it, over &self and named spaces alike, and no others,    *)
(* whenever the log was not emptied under it (db.ts, reportSince and the     *)
(* truncations of transaction and dryRun).                                   *)
THEOREM ReportsStayExact == Spec => []ReportExact
BY InvariantHolds, IInvIsEnough, PTL

(* However restores nest and whatever their callbacks subscribe or stop, a   *)
(* listener that asked and did not stop is told or held by a restore that    *)
(* will put it back, and nobody else is but those that stopped while a       *)
(* restore held them (db.ts, withoutRecording and onChange).                 *)
THEOREM NoListenerLost == Spec => []ListenersKept
BY InvariantHolds, IInvIsEnough, PTL

(* Once a rollback, a dry run or an undo has refilled &self, it holds what   *)
(* it held when the body began, in order, whatever evaluations added and     *)
(* retracted in between, unless a callback acted during the restore (db.ts,  *)
(* restore; base.ts, clearSelfSpace).                                        *)
THEOREM PutBackExactly == Spec => []RestoredExactly
BY InvariantHolds, IInvIsEnough, PTL
=============================================================================
