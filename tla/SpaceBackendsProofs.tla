-------------------------- MODULE SpaceBackendsProofs --------------------------
(***************************************************************************)
(* Proofs about SpaceBackends, for any atoms, batches, patterns and        *)
(* holders: that each store implements the abstract space, that queries by *)
(* index, bucket or count find what a scan finds, and that a scan for      *)
(* suspect facts misses none.                                              *)
(*                                                                         *)
(* A store holds atoms under ids or facts, and every sequence it yields    *)
(* lists what it has at a set of them, in their order: two listings of the *)
(* same set are equal, so each claim about a sequence becomes one about    *)
(* sets.                                                                   *)
(***************************************************************************)
EXTENDS SpaceBackends, SequenceFunctionsProofs

-----------------------------------------------------------------------------
(* Listings.                                                               *)

\* The first element an enumeration lists is the least.
LEMMA EnumFirst ==
    ASSUME NEW e, NEW I, Enumerates(e, I)
    PROVE  /\ e = << >> <=> I = {}
           /\ I # {} => e[1] \in I /\ \A x \in I : e[1] <= x
<1>0. Enumerates(e, I)
  OBVIOUS
<1>1. /\ Len(e) \in Nat /\ e \in Seq(Nat)
      /\ \A i \in 1..Len(e) : e[i] \in I /\ e[i] \in Nat
      /\ \A x \in I : \E i \in 1..Len(e) : e[i] = x
      /\ \A i, j \in 1..Len(e) : i < j <=> e[i] < e[j]
  <2>1. e \in Seq(Nat)
    BY DEF Enumerates
  <2> QED
    BY ONLY <1>0, <2>1, EnumFacts
<1>2. e = << >> <=> Len(e) = 0
  BY <1>1, EmptySeq
<1>3. Len(e) = 0 => I = {}
  BY <1>1
<1>4. ASSUME Len(e) # 0 PROVE e[1] \in I /\ \A x \in I : e[1] <= x
  <2>1. 1 \in 1..Len(e)
    BY <1>1, <1>4
  <2>2. ASSUME NEW x \in I PROVE e[1] <= x
    <3>1. PICK i \in 1..Len(e) : e[i] = x
      BY <1>1
    <3>2. i = 1 \/ 1 < i
      BY <1>1
    <3> QED
      BY <1>1, <2>1, <3>1, <3>2
  <2> QED
    BY <1>1, <2>1, <2>2
<1> QED
  BY <1>2, <1>3, <1>4

LEMMA MinIs ==
    ASSUME NEW S, S \subseteq Nat, S # {}
    PROVE  Min(S) \in S /\ \A x \in S : Min(S) <= x
<1>1. PICK m \in S : \A x \in S : m <= x
  BY LeastElement
<1> QED
  BY <1>1 DEF Min

LEMMA RemoveAtIs ==
    ASSUME NEW S, NEW s \in Seq(S), NEW k \in 1..Len(s)
    PROVE  /\ RemoveAt(s, k) \in Seq(S) /\ Len(RemoveAt(s, k)) = Len(s) - 1
           /\ \A i \in 1..Len(s) - 1 : RemoveAt(s, k)[i] = IF i < k THEN s[i] ELSE s[i + 1]
<1> DEFINE x == SubSeq(s, 1, k - 1)
           y == SubSeq(s, k + 1, Len(s))
<1>1. Len(s) \in Nat /\ k \in Nat /\ \A j \in 1..Len(s) : s[j] \in S
  BY LenProperties, ElementOfSeq
<1>2. x \in Seq(S) /\ Len(x) = k - 1 /\ \A i \in 1..k - 1 : x[i] = s[i]
  <2>1. \A j \in 1..k - 1 : s[j] \in S
    BY <1>1
  <2> QED
    BY <1>1, <2>1, SubSeqProperties
<1>3. y \in Seq(S) /\ Len(y) = Len(s) - k /\ \A i \in 1..Len(s) - k : y[i] = s[k + i]
  <2>1. \A j \in (k + 1)..Len(s) : s[j] \in S
    BY <1>1
  <2> QED
    BY <1>1, <2>1, SubSeqProperties
<1> HIDE DEF x, y
<1>4. x \o y \in Seq(S) /\ Len(x \o y) = Len(s) - 1
      /\ \A i \in 1..Len(s) - 1 : (x \o y)[i] = IF i <= k - 1 THEN x[i] ELSE y[i - (k - 1)]
  <2>1. /\ x \o y \in Seq(S) /\ Len(x \o y) = Len(x) + Len(y)
        /\ \A i \in 1..Len(x) + Len(y) : (x \o y)[i] = IF i <= Len(x) THEN x[i] ELSE y[i - Len(x)]
    BY <1>2, <1>3, ConcatProperties
  <2>2. Len(x) + Len(y) = Len(s) - 1
    BY <1>1, <1>2, <1>3
  <2> QED
    BY <1>2, <2>1, <2>2
<1>5. ASSUME NEW i \in 1..Len(s) - 1 PROVE (x \o y)[i] = IF i < k THEN s[i] ELSE s[i + 1]
  <2>1. CASE i < k
    BY <1>1, <1>2, <1>4, <2>1
  <2>2. CASE ~ (i < k)
    <3>1. i - (k - 1) \in 1..Len(s) - k /\ k + (i - (k - 1)) = i + 1
      BY <1>1, <2>2
    <3> QED
      BY <1>1, <1>3, <1>4, <2>2, <3>1
  <2> QED
    BY <2>1, <2>2
<1>6. RemoveAt(s, k) = x \o y
  BY DEF RemoveAt, x, y
<1> QED
  BY <1>4, <1>5, <1>6

\* The first of the atoms alike leaves a listing.
LEMMA ListsRemoved ==
    ASSUME NEW x, NEW I, NEW f, Lists(x, I, f), NEW by, NEW a
    PROVE  LET M == {i \in I : Alike(by, f[i], a)}
           IN  /\ M = {} => RemoveFirstAlike(by, x, a) = x
               /\ \A m \in M : (\A y \in M : m <= y) => Lists(RemoveFirstAlike(by, x, a), I \ {m}, f)
<1> DEFINE M == {i \in I : Alike(by, f[i], a)}
           K == {j \in 1..Len(x) : Alike(by, x[j], a)}
<1>1. PICK e : Enumerates(e, I) /\ x = Listing(e, f) /\ x = [j \in 1..Len(e) |-> f[e[j]]]
  BY ListingIs
<1>2. /\ Len(e) \in Nat /\ I \subseteq Nat
      /\ \A i \in 1..Len(e) : e[i] \in I /\ e[i] \in Nat
      /\ \A y \in I : \E i \in 1..Len(e) : e[i] = y
      /\ \A i, j \in 1..Len(e) : i < j <=> e[i] < e[j]
  BY ONLY <1>1, EnumFacts
<1> DEFINE T == {f[i] : i \in I}
<1>3. x \in Seq(T) /\ Len(x) = Len(e) /\ \A j \in 1..Len(e) : x[j] = f[e[j]]
  <2>1. x \in [1..Len(e) -> T]
    BY <1>1, <1>2
  <2> HIDE DEF T
  <2> QED
    BY <1>1, <1>2, <2>1, FunctionIsSeq
<1> HIDE DEF T
<1>4. M = {} => RemoveFirstAlike(by, x, a) = x
  <2>1. M = {} => ~ \E i \in 1..Len(x) : Alike(by, x[i], a)
    BY <1>2, <1>3
  <2> QED
    BY <2>1 DEF RemoveFirstAlike, RemoveFirstMatch
<1>5. ASSUME NEW m \in M, \A y \in M : m <= y
      PROVE  Lists(RemoveFirstAlike(by, x, a), I \ {m}, f)
  <2>1. PICK j \in 1..Len(e) : e[j] = m
    BY <1>2
  <2>2. j \in K
    BY <1>3, <2>1
  <2>3. Min(K) \in K /\ \A i \in K : Min(K) <= i
    <3>1. K \subseteq Nat /\ K # {}
      BY <2>2
    <3> HIDE DEF K
    <3> QED
      BY <3>1, MinIs
  <2> DEFINE k == Min(K)
  <2>4. k \in 1..Len(e) /\ e[k] = m
    <3>1. k \in 1..Len(e) /\ k <= j /\ e[k] \in M
      BY <1>2, <1>3, <2>2, <2>3
    <3>2. m <= e[k] /\ m \in Nat /\ e[k] \in Nat
      BY <1>2, <1>5, <3>1
    <3>3. ~ (k < j)
      BY <1>2, <2>1, <3>1, <3>2
    <3> QED
      BY <2>1, <3>1, <3>3
  <2>5. RemoveFirstAlike(by, x, a) = RemoveAt(x, k)
    <3>1. \E i \in 1..Len(x) : Alike(by, x[i], a)
      BY <2>2
    <3>2. SelectInSeq(x, LAMBDA b : Alike(by, b, a)) = k
      BY <2>2 DEF SelectInSeq
    <3> HIDE DEF k
    <3> QED
      BY <3>1, <3>2 DEF RemoveFirstAlike, RemoveFirstMatch
  <2> HIDE DEF k, K, M
  <2> DEFINE g == RemoveAt(e, k)
             z == RemoveAt(x, k)
  <2>6. e \in Seq(Nat)
    BY <1>1 DEF Enumerates
  <2>7. /\ g \in Seq(Nat) /\ Len(g) = Len(e) - 1
        /\ \A i \in 1..Len(e) - 1 : g[i] = IF i < k THEN e[i] ELSE e[i + 1]
    BY <2>4, <2>6, RemoveAtIs
  <2>8. /\ z \in Seq(T) /\ Len(z) = Len(e) - 1
        /\ \A i \in 1..Len(e) - 1 : z[i] = IF i < k THEN x[i] ELSE x[i + 1]
    BY <1>3, <2>4, RemoveAtIs
  <2> HIDE DEF g, z
  <2>9. Enumerates(g, I \ {m})
    BY <1>1, <2>4, <2>7, EnumRemove
  <2>10. z = Listing(g, f)
    <3>1. ASSUME NEW i \in 1..Len(g) PROVE z[i] = f[g[i]]
      <4>1. i \in 1..Len(e) /\ i + 1 \in 1..Len(e)
        BY <1>2, <2>7
      <4> QED
        BY <1>3, <2>7, <2>8, <4>1
    <3>2. z = [i \in 1..Len(g) |-> z[i]]
      BY <2>7, <2>8, LenProperties
    <3> QED
      BY <3>1, <3>2 DEF Listing
  <2> QED
    BY <2>5, <2>9, <2>10 DEF Lists, z
<1> QED
  BY <1>4, <1>5

LEMMA ListsRemovedByValue ==
    ASSUME NEW x, NEW I, NEW f, Lists(x, I, f), NEW a
    PROVE  LET M == {i \in I : Same(f[i], a)}
           IN  /\ M = {} => RemoveFirstAlike("value", x, a) = x
               /\ \A m \in M : (\A y \in M : m <= y) => Lists(RemoveFirstAlike("value", x, a), I \ {m}, f)
<1>1. {i \in I : Alike("value", f[i], a)} = {i \in I : Same(f[i], a)}
  BY DEF Alike
<1> QED
  BY <1>1, ListsRemoved

LEMMA ListsRemovedByTerm ==
    ASSUME NEW x, NEW I, NEW f, Lists(x, I, f), NEW a
    PROVE  LET M == {i \in I : f[i] = a}
           IN  /\ M = {} => RemoveFirstAlike("term", x, a) = x
               /\ \A m \in M : (\A y \in M : m <= y) => Lists(RemoveFirstAlike("term", x, a), I \ {m}, f)
<1>1. {i \in I : Alike("term", f[i], a)} = {i \in I : f[i] = a}
  BY DEF Alike
<1> QED
  BY <1>1, ListsRemoved

\* One more is listed behind all others.
LEMMA ListsAppend ==
    ASSUME NEW x, NEW I, NEW f, Lists(x, I, f), NEW n \in Nat, \A i \in I : i < n
    PROVE  Lists(Append(x, f[n]), I \cup {n}, f)
<1> DEFINE y == [j \in 1..1 |-> f[n]]
           T == {f[i] : i \in I \cup {n}}
<1>1. Lists(<<f[n]>>, {n}, f)
  <2>1. Len(<<n>>) = 1 /\ <<n>>[1] = n
    OBVIOUS
  <2>2. <<f[n]>> = Listing(<<n>>, f)
    BY <2>1 DEF Listing
  <2> QED
    BY <2>2, EnumSingle DEF Lists
<1>2. \A i \in I \cup {n} : f[i] \in T
  OBVIOUS
<1>3. x \in Seq(T)
  <2> HIDE DEF T
  <2> QED
    BY <1>2, ListsFacts
<1>4. Append(x, f[n]) = x \o <<f[n]>>
  <2>1. f[n] \in T
    OBVIOUS
  <2> HIDE DEF T
  <2> QED
    BY <1>3, <2>1, AppendIsConcat
<1> HIDE DEF T
<1>5. Lists(x \o <<f[n]>>, I \cup {n}, f)
  <2>1. \A i \in I, j \in {n} : i < j
    OBVIOUS
  <2> QED
    BY <1>1, <1>2, <2>1, ListsConcat
<1> QED
  BY <1>4, <1>5

\* As many elements of a listing are in a set as places hold one.
LEMMA ListsCount ==
    ASSUME NEW x, NEW I, NEW f, Lists(x, I, f), NEW S
    PROVE  /\ Len(Filtered(x, S)) = Cardinality({i \in I : f[i] \in S})
           /\ Cardinality({j \in 1..Len(x) : x[j] \in S}) = Cardinality({i \in I : f[i] \in S})
<1> DEFINE T == {f[i] : i \in I}
           J == {i \in I : f[i] \in S}
           P == {j \in 1..Len(x) : x[j] \in S}
<1>1. \A i \in I : f[i] \in T
  OBVIOUS
<1>2. x \in Seq(T)
  <2> HIDE DEF T
  <2> QED
    BY <1>1, ListsFacts
<1>3. Lists(Filtered(x, S), J, f) /\ Lists(Filtered(x, S), P, x)
  <2>1. Lists(x, 1..Len(x), x)
    <3> HIDE DEF T
    <3> QED
      BY <1>2, ListsSelf
  <2>2. Lists(Filtered(x, S), J, f)
    BY ListsFiltered
  <2>3. Lists(Filtered(x, S), P, x)
    BY ONLY <2>1, ListsFiltered
  <2> QED
    BY <2>2, <2>3
<1>4. (\A i \in J : f[i] \in T) /\ \A j \in P : x[j] \in T
  BY <1>2
<1> HIDE DEF T, J, P
<1>5. Len(Filtered(x, S)) = Cardinality(J) /\ Len(Filtered(x, S)) = Cardinality(P)
  <2>1. Len(Filtered(x, S)) = Cardinality(J)
    BY ONLY <1>3, <1>4, ListsFacts
  <2>2. Len(Filtered(x, S)) = Cardinality(P)
    BY ONLY <1>3, <1>4, ListsFacts
  <2> QED
    BY <2>1, <2>2
<1> QED
  BY <1>5 DEF J, P

-----------------------------------------------------------------------------
(* Tables of a persistent version.                                         *)

AtomMaps == UNION {[D -> Atom] : D \in SUBSET Nat}
TableSet == [root : AtomMaps, size : Nat, keys : Seq(Nat)]

LEMMA AtomMapFacts ==
    ASSUME NEW f
    PROVE  f \in AtomMaps <=> DOMAIN f \subseteq Nat /\ f \in [DOMAIN f -> Atom]
BY DEF AtomMaps

\* A table of ids below n: keys were pushed in increasing order, the live ones among them.
TableSound(t, n) ==
    /\ t \in TableSet
    /\ \E I : Enumerates(t.keys, I) /\ DOMAIN t.root \subseteq I /\ \A id \in I : id < n
    /\ IsFiniteSet(DOMAIN t.root) /\ t.size = Cardinality(DOMAIN t.root)

LEMMA EmptyTableSound ==
    ASSUME NEW n \in Nat
    PROVE  TableSound(EmptyTable, n) /\ DOMAIN EmptyTable.root = {}
<1>1. DOMAIN << >> = {} /\ << >> \in AtomMaps
  <2>1. DOMAIN << >> = {} /\ << >> \in [{} -> Atom]
    OBVIOUS
  <2> QED
    BY <2>1, AtomMapFacts
<1>2. EmptyTable \in TableSet /\ EmptyTable.root = << >> /\ EmptyTable.size = 0 /\ EmptyTable.keys = << >>
  <2>1. << >> \in Seq(Nat)
    OBVIOUS
  <2> QED
    BY <1>1, <2>1 DEF EmptyTable, TableSet
<1>3. IsFiniteSet({}) /\ Cardinality({}) = 0
  BY FS_EmptySet
<1> QED
  BY <1>1, <1>2, <1>3, EnumEmpty DEF TableSound

\* The next id enters a table.
LEMMA PtSetSound ==
    ASSUME NEW t, NEW n \in Nat, TableSound(t, n), NEW a \in Atom
    PROVE  /\ TableSound(PtSet(t, n, a), n + 1)
           /\ DOMAIN PtSet(t, n, a).root = DOMAIN t.root \cup {n}
           /\ PtSet(t, n, a).root[n] = a
           /\ \A id \in DOMAIN t.root : PtSet(t, n, a).root[id] = t.root[id]
           /\ n \notin DOMAIN t.root
<1> DEFINE u == PtSet(t, n, a)
<1>1. /\ t.root \in AtomMaps /\ t.size \in Nat /\ t.keys \in Seq(Nat)
      /\ IsFiniteSet(DOMAIN t.root) /\ t.size = Cardinality(DOMAIN t.root)
  BY DEF TableSound, TableSet
<1>2. PICK I : Enumerates(t.keys, I) /\ DOMAIN t.root \subseteq I /\ \A id \in I : id < n
  BY DEF TableSound
<1>3. I \subseteq Nat
  BY ONLY <1>2, EnumFacts
<1>4. n \notin DOMAIN t.root
  BY <1>2
<1>5. u = [root |-> Put(t.root, n, a), size |-> t.size + 1, keys |-> Append(t.keys, n)]
  BY <1>4 DEF PtSet
<1> HIDE DEF u
<1>6. /\ DOMAIN u.root = DOMAIN t.root \cup {n} /\ u.root[n] = a
      /\ \A id \in DOMAIN t.root : u.root[id] = t.root[id]
      /\ u.root = [id \in DOMAIN u.root |-> u.root[id]]
  BY <1>4, <1>5 DEF Put
<1>7. u.root \in AtomMaps
  <2>1. DOMAIN t.root \subseteq Nat /\ \A id \in DOMAIN t.root : t.root[id] \in Atom
    BY <1>1, AtomMapFacts
  <2>2. \A id \in DOMAIN u.root : u.root[id] \in Atom
    BY <1>6, <2>1
  <2>3. DOMAIN u.root \subseteq Nat /\ u.root \in [DOMAIN u.root -> Atom]
    BY <1>6, <2>1, <2>2
  <2> QED
    BY <2>3, AtomMapFacts
<1>8. u \in TableSet
  <2>1. Append(t.keys, n) \in Seq(Nat) /\ t.size + 1 \in Nat
    BY <1>1
  <2> QED
    BY <1>5, <1>7, <2>1 DEF TableSet
<1>9. Enumerates(u.keys, I \cup {n}) /\ DOMAIN u.root \subseteq I \cup {n} /\ \A id \in I \cup {n} : id < n + 1
  <2>1. Enumerates(Append(t.keys, n), I \cup {n})
    BY <1>2, EnumAppend
  <2>2. u.keys = Append(t.keys, n)
    BY <1>5
  <2>3. \A id \in I \cup {n} : id < n + 1
    BY <1>2, <1>3
  <2> QED
    BY <1>2, <1>6, <2>1, <2>2, <2>3
<1>10. IsFiniteSet(DOMAIN u.root) /\ u.size = Cardinality(DOMAIN u.root)
  <2>1. u.size = t.size + 1
    BY <1>5
  <2>2. IsFiniteSet(DOMAIN t.root \cup {n}) /\ Cardinality(DOMAIN t.root \cup {n}) = Cardinality(DOMAIN t.root) + 1
    <3> DEFINE D == DOMAIN t.root
    <3>1. IsFiniteSet(D) /\ n \notin D
      BY <1>1, <1>4
    <3> HIDE DEF D
    <3>2. IsFiniteSet(D \cup {n}) /\ Cardinality(D \cup {n}) = Cardinality(D) + 1
      BY <3>1, FS_AddElement
    <3> QED
      BY <3>2 DEF D
  <2> QED
    BY <1>1, <1>6, <2>1, <2>2
<1>11. TableSound(u, n + 1)
  BY <1>8, <1>9, <1>10 DEF TableSound
<1> QED
  BY <1>4, <1>6, <1>11 DEF u

LEMMA PtDeleteSound ==
    ASSUME NEW t, NEW n \in Nat, TableSound(t, n), NEW k \in DOMAIN t.root
    PROVE  /\ TableSound(PtDelete(t, k), n)
           /\ DOMAIN PtDelete(t, k).root = DOMAIN t.root \ {k}
           /\ \A id \in DOMAIN t.root \ {k} : PtDelete(t, k).root[id] = t.root[id]
<1> DEFINE u == PtDelete(t, k)
<1>1. /\ t.root \in AtomMaps /\ t.size \in Nat /\ t.keys \in Seq(Nat)
      /\ IsFiniteSet(DOMAIN t.root) /\ t.size = Cardinality(DOMAIN t.root)
  BY DEF TableSound, TableSet
<1>2. PICK I : Enumerates(t.keys, I) /\ DOMAIN t.root \subseteq I /\ \A id \in I : id < n
  BY DEF TableSound
<1>3. u = [root |-> Restrict(t.root, DOMAIN t.root \ {k}), size |-> t.size - 1, keys |-> t.keys]
  BY DEF PtDelete
<1> HIDE DEF u
<1>4. /\ DOMAIN u.root = DOMAIN t.root \ {k}
      /\ \A id \in DOMAIN t.root \ {k} : u.root[id] = t.root[id]
      /\ u.root = [id \in DOMAIN u.root |-> u.root[id]]
  BY <1>3 DEF Restrict
<1>5. u.root \in AtomMaps
  <2>1. DOMAIN t.root \subseteq Nat /\ \A id \in DOMAIN t.root : t.root[id] \in Atom
    BY <1>1, AtomMapFacts
  <2>2. \A id \in DOMAIN u.root : u.root[id] \in Atom
    BY <1>4, <2>1
  <2>3. DOMAIN u.root \subseteq Nat /\ u.root \in [DOMAIN u.root -> Atom]
    BY <1>4, <2>1, <2>2
  <2> QED
    BY <2>3, AtomMapFacts
<1>6. /\ IsFiniteSet(DOMAIN u.root) /\ u.size = Cardinality(DOMAIN u.root) /\ u.size \in Nat
  <2>1. u.size = t.size - 1
    BY <1>3
  <2>2. IsFiniteSet(DOMAIN u.root) /\ Cardinality(DOMAIN u.root) = Cardinality(DOMAIN t.root) - 1
    BY <1>1, <1>4, FS_RemoveElement
  <2>3. Cardinality(DOMAIN u.root) \in Nat
    BY <2>2, FS_CardinalityType
  <2> QED
    BY <1>1, <2>1, <2>2, <2>3
<1>7. u \in TableSet /\ u.keys = t.keys
  <2>1. u.size = t.size - 1 /\ u.keys = t.keys
    BY <1>3
  <2> QED
    BY <1>1, <1>3, <1>5, <1>6, <2>1 DEF TableSet
<1>8. TableSound(u, n)
  BY <1>2, <1>4, <1>6, <1>7 DEF TableSound
<1> QED
  BY <1>4, <1>8 DEF u

LEMMA PtKeysEnum ==
    ASSUME NEW t, NEW n, TableSound(t, n)
    PROVE  Enumerates(PtKeys(t), DOMAIN t.root) /\ Len(PtKeys(t)) = t.size
<1>1. PICK I : Enumerates(t.keys, I) /\ DOMAIN t.root \subseteq I
  BY DEF TableSound
<1>2. Enumerates(PtKeys(t), I \cap DOMAIN t.root)
  BY <1>1, FilteredEnum DEF PtKeys
<1>3. Enumerates(PtKeys(t), DOMAIN t.root)
  <2>1. I \cap DOMAIN t.root = DOMAIN t.root
    BY <1>1
  <2> QED
    BY <1>2, <2>1
<1>4. Len(PtKeys(t)) = Cardinality(DOMAIN t.root)
  BY ONLY <1>3, EnumCardinality
<1> QED
  BY <1>3, <1>4 DEF TableSound

LEMMA TableFacts ==
    ASSUME NEW t, NEW n, TableSound(t, n)
    PROVE  /\ t.root \in AtomMaps /\ DOMAIN t.root \subseteq Nat /\ \A id \in DOMAIN t.root : t.root[id] \in Atom /\ id < n
           /\ t.size = Cardinality(DOMAIN t.root)
<1>1. t.root \in AtomMaps /\ t.size = Cardinality(DOMAIN t.root)
  BY DEF TableSound, TableSet
<1>2. PICK I : Enumerates(t.keys, I) /\ DOMAIN t.root \subseteq I /\ \A id \in I : id < n
  BY DEF TableSound
<1> QED
  BY <1>1, <1>2, AtomMapFacts

LEMMA TableLater ==
    ASSUME NEW t, NEW n \in Nat, TableSound(t, n)
    PROVE  TableSound(t, n + 1)
<1>1. PICK I : Enumerates(t.keys, I) /\ DOMAIN t.root \subseteq I /\ \A id \in I : id < n
  BY DEF TableSound
<1>2. I \subseteq Nat
  BY ONLY <1>1, EnumFacts
<1>3. \A id \in I : id < n + 1
  BY <1>1, <1>2
<1> QED
  BY <1>1, <1>3 DEF TableSound

-----------------------------------------------------------------------------
(* Persistent versions.                                                    *)

Keys == Heads \cup {NoHead}
HeadMaps == UNION {[D -> TableSet] : D \in SUBSET Heads}
VersionSet == [entries : TableSet, byHead : HeadMaps, unindexed : TableSet, nextId : Nat]

\* An atom is under its id in the table of all atoms and in that of its head, and in no other.
VersionSound(v) ==
    /\ v \in VersionSet
    /\ TableSound(v.entries, v.nextId)
    /\ \A key \in Keys :
         /\ TableSound(Bucket(v, key), v.nextId)
         /\ DOMAIN Bucket(v, key).root = {id \in DOMAIN v.entries.root : HeadKey(v.entries.root[id]) = key}
         /\ \A id \in DOMAIN Bucket(v, key).root : Bucket(v, key).root[id] = v.entries.root[id]

LEMMA HeadKeyType ==
    ASSUME NEW a \in Atom
    PROVE  HeadKey(a) \in Keys
BY DEF Atom, HeadKey, Keys

LEMMA HeadMapFacts ==
    ASSUME NEW f
    PROVE  f \in HeadMaps <=> DOMAIN f \subseteq Heads /\ f \in [DOMAIN f -> TableSet]
BY DEF HeadMaps

LEMMA NoHeadIsNone == NoHead \notin Heads
BY AtomsAssumption

LEMMA BucketOf ==
    ASSUME NEW v, NEW w, w.byHead = v.byHead, w.unindexed = v.unindexed
    PROVE  \A key : Bucket(w, key) = Bucket(v, key)
BY DEF Bucket

LEMMA WithBucketIs ==
    ASSUME NEW v \in VersionSet, NEW key \in Keys, NEW t \in TableSet
    PROVE  /\ WithBucket(v, key, t) \in VersionSet
           /\ WithBucket(v, key, t).entries = v.entries /\ WithBucket(v, key, t).nextId = v.nextId
           /\ \A k \in Keys : Bucket(WithBucket(v, key, t), k) = IF k = key THEN t ELSE Bucket(v, k)
<1>1. CASE key = NoHead
  <2>1. WithBucket(v, key, t) = [v EXCEPT !.unindexed = t]
    BY <1>1 DEF WithBucket
  <2> QED
    BY <1>1, <2>1 DEF VersionSet, Bucket
<1>2. CASE key # NoHead
  <2> DEFINE m == Put(v.byHead, key, t)
  <2>1. WithBucket(v, key, t) = [v EXCEPT !.byHead = m]
    BY <1>2 DEF WithBucket
  <2>2. v.byHead \in HeadMaps
    BY DEF VersionSet
  <2>3. DOMAIN v.byHead \subseteq Heads /\ \A k \in DOMAIN v.byHead : v.byHead[k] \in TableSet
    BY <2>2, HeadMapFacts
  <2>4. /\ DOMAIN m = DOMAIN v.byHead \cup {key} /\ m = [k \in DOMAIN m |-> m[k]]
        /\ \A k \in DOMAIN m : m[k] = IF k = key THEN t ELSE v.byHead[k]
    BY DEF Put
  <2> HIDE DEF m
  <2>5. m \in HeadMaps
    <3>1. DOMAIN m \subseteq Heads
      BY <1>2, <2>3, <2>4 DEF Keys
    <3>2. \A k \in DOMAIN m : m[k] \in TableSet
      BY <2>3, <2>4
    <3> QED
      BY <2>4, <3>1, <3>2, HeadMapFacts
  <2>6. /\ [v EXCEPT !.byHead = m] \in VersionSet
        /\ [v EXCEPT !.byHead = m].entries = v.entries /\ [v EXCEPT !.byHead = m].nextId = v.nextId
        /\ [v EXCEPT !.byHead = m].byHead = m /\ [v EXCEPT !.byHead = m].unindexed = v.unindexed
    BY <2>5 DEF VersionSet
  <2>7. ASSUME NEW k \in Keys PROVE Bucket([v EXCEPT !.byHead = m], k) = IF k = key THEN t ELSE Bucket(v, k)
    BY <1>2, <2>4, <2>6 DEF Bucket
  <2> QED
    BY <2>1, <2>6, <2>7
<1> QED
  BY <1>1, <1>2

LEMMA EmptyVersionSound ==
    /\ VersionSound(EmptyVersion) /\ DOMAIN EmptyVersion.entries.root = {}
<1>1. TableSound(EmptyTable, 0) /\ DOMAIN EmptyTable.root = {} /\ EmptyTable \in TableSet
  BY EmptyTableSound DEF TableSound
<1>2. << >> \in HeadMaps
  <2>1. DOMAIN << >> = {} /\ << >> \in [{} -> TableSet]
    OBVIOUS
  <2> QED
    BY <2>1, HeadMapFacts
<1>3. /\ EmptyVersion \in VersionSet /\ EmptyVersion.entries = EmptyTable /\ EmptyVersion.nextId = 0
      /\ \A key \in Keys : Bucket(EmptyVersion, key) = EmptyTable
  BY <1>1, <1>2 DEF EmptyVersion, VersionSet, Bucket
<1> QED
  BY <1>1, <1>3 DEF VersionSound

\* What a version holds, in the order of the ids.
LEMMA VersionLists ==
    ASSUME NEW v, VersionSound(v)
    PROVE  Lists(VersionAtoms(v), DOMAIN v.entries.root, v.entries.root)
<1> DEFINE keys == PtKeys(v.entries)
<1>1. Enumerates(keys, DOMAIN v.entries.root)
  BY PtKeysEnum DEF VersionSound
<1>2. DOMAIN keys = 1..Len(keys)
  BY ONLY <1>1, EnumFacts
<1>3. VersionAtoms(v) = Listing(keys, v.entries.root)
  BY <1>2 DEF VersionAtoms, Listing
<1> QED
  BY <1>1, <1>3 DEF Lists

LEMMA VersionTypes ==
    ASSUME NEW v, VersionSound(v)
    PROVE  /\ v.nextId \in Nat /\ VersionAtoms(v) \in Seq(Atom)
           /\ DOMAIN v.entries.root \subseteq Nat
           /\ \A id \in DOMAIN v.entries.root : v.entries.root[id] \in Atom /\ id < v.nextId
<1>1. v.nextId \in Nat
  BY DEF VersionSound, VersionSet
<1>2. /\ DOMAIN v.entries.root \subseteq Nat
      /\ \A id \in DOMAIN v.entries.root : v.entries.root[id] \in Atom /\ id < v.nextId
  BY TableFacts DEF VersionSound
<1>3. VersionAtoms(v) \in Seq(Atom)
  BY <1>2, VersionLists, ListsFacts
<1> QED
  BY <1>1, <1>2, <1>3

\* An atom is added to the table of all atoms and to that of its head, and comes last.
LEMMA VersionAddSound ==
    ASSUME NEW v, VersionSound(v), NEW a \in Atom
    PROVE  /\ VersionSound(VersionAdd(v, a))
           /\ VersionAtoms(VersionAdd(v, a)) = Append(VersionAtoms(v), a)
<1> DEFINE n == v.nextId
           key == HeadKey(a)
           b == PtSet(Bucket(v, key), n, a)
           e == PtSet(v.entries, n, a)
           u == WithBucket(v, key, b)
           w == VersionAdd(v, a)
<1>1. /\ n \in Nat /\ key \in Keys /\ v \in VersionSet /\ TableSound(v.entries, n)
      /\ \A k \in Keys :
            /\ TableSound(Bucket(v, k), n)
            /\ DOMAIN Bucket(v, k).root = {id \in DOMAIN v.entries.root : HeadKey(v.entries.root[id]) = k}
            /\ \A id \in DOMAIN Bucket(v, k).root : Bucket(v, k).root[id] = v.entries.root[id]
  BY HeadKeyType DEF VersionSound, VersionSet
<1>2. /\ TableSound(b, n + 1) /\ DOMAIN b.root = DOMAIN Bucket(v, key).root \cup {n} /\ b.root[n] = a
      /\ \A id \in DOMAIN Bucket(v, key).root : b.root[id] = Bucket(v, key).root[id]
  BY <1>1, PtSetSound
<1>3. /\ TableSound(e, n + 1) /\ DOMAIN e.root = DOMAIN v.entries.root \cup {n} /\ e.root[n] = a
      /\ \A id \in DOMAIN v.entries.root : e.root[id] = v.entries.root[id]
      /\ n \notin DOMAIN v.entries.root
  BY <1>1, PtSetSound
<1>4. b \in TableSet /\ e \in TableSet
  BY <1>2, <1>3 DEF TableSound
<1>5. /\ u \in VersionSet /\ u.entries = v.entries /\ u.nextId = n
      /\ \A k \in Keys : Bucket(u, k) = IF k = key THEN b ELSE Bucket(v, k)
  <2> HIDE DEF b, key
  <2> QED
    BY <1>1, <1>4, WithBucketIs
<1>6. w = [u EXCEPT !.entries = e, !.nextId = n + 1]
  <2>1. w = [u EXCEPT !.entries = PtSet(@, n, a), !.nextId = @ + 1]
    BY DEF VersionAdd
  <2> HIDE DEF u, w
  <2>2. w = [u EXCEPT !.entries = PtSet(u.entries, n, a), !.nextId = u.nextId + 1]
    BY <2>1
  <2> QED
    BY <1>5, <2>2
<1> HIDE DEF n, key, b, e, u, w
<1>7. /\ w \in VersionSet /\ w.entries = e /\ w.nextId = n + 1
      /\ w.byHead = u.byHead /\ w.unindexed = u.unindexed
  <2>1. u \in VersionSet /\ e \in TableSet /\ n + 1 \in Nat
    BY <1>1, <1>4, <1>5
  <2> QED
    BY ONLY <1>6, <2>1 DEF VersionSet
<1>8. \A k \in Keys : Bucket(w, k) = IF k = key THEN b ELSE Bucket(v, k)
  BY <1>5, <1>7, BucketOf
<1>9. HeadKey(a) = key
  BY DEF key
<1>10. ASSUME NEW k \in Keys
       PROVE  /\ TableSound(Bucket(w, k), w.nextId)
              /\ DOMAIN Bucket(w, k).root = {id \in DOMAIN w.entries.root : HeadKey(w.entries.root[id]) = k}
              /\ \A id \in DOMAIN Bucket(w, k).root : Bucket(w, k).root[id] = w.entries.root[id]
  <2>1. CASE k = key
    <3>1. Bucket(w, k) = b
      BY <1>8, <2>1
    <3>2. DOMAIN b.root = {id \in DOMAIN e.root : HeadKey(e.root[id]) = key}
      BY <1>1, <1>2, <1>3, <1>9
    <3>3. \A id \in DOMAIN b.root : b.root[id] = e.root[id]
      BY <1>1, <1>2, <1>3
    <3> QED
      BY <1>2, <1>7, <2>1, <3>1, <3>2, <3>3
  <2>2. CASE k # key
    <3>1. Bucket(w, k) = Bucket(v, k)
      BY <1>8, <2>2
    <3>2. TableSound(Bucket(v, k), n + 1)
      BY <1>1, TableLater
    <3>3. DOMAIN Bucket(v, k).root = {id \in DOMAIN e.root : HeadKey(e.root[id]) = k}
      BY <1>1, <1>3, <1>9, <2>2
    <3>4. \A id \in DOMAIN Bucket(v, k).root : Bucket(v, k).root[id] = e.root[id]
      BY <1>1, <1>3
    <3> QED
      BY <1>7, <3>1, <3>2, <3>3, <3>4
  <2> QED
    BY <2>1, <2>2
<1>11. VersionSound(w)
  BY <1>3, <1>7, <1>10 DEF VersionSound
<1>12. VersionAtoms(w) = Append(VersionAtoms(v), a)
  <2>1. Lists(VersionAtoms(w), DOMAIN e.root, e.root)
    BY <1>7, <1>11, VersionLists
  <2>2. Lists(VersionAtoms(v), DOMAIN v.entries.root, e.root)
    BY <1>3, VersionLists, ListsOther
  <2>3. Lists(Append(VersionAtoms(v), e.root[n]), DOMAIN v.entries.root \cup {n}, e.root)
    <3>1. n \in Nat /\ \A id \in DOMAIN v.entries.root : id < n
      BY <1>1, VersionTypes DEF n
    <3> QED
      BY <2>2, <3>1, ListsAppend
  <2> QED
    BY <1>3, <2>1, <2>3, ListsUnique
<1> QED
  BY <1>11, <1>12 DEF w

\* The recursive definition of VersionAddAll defines a function: its equations hold.
LEMMA VersionAddAllEquations ==
    ASSUME NEW v, NEW batch \in Seq(Atom)
    PROVE  \E g : /\ g[0] = v /\ \A i \in 1..Len(batch) : g[i] = VersionAdd(g[i - 1], batch[i])
                  /\ VersionAddAll(v, batch) = g[Len(batch)]
<1> DEFINE n == Len(batch)
           Step(x, i) == VersionAdd(x, batch[i])
           Adds(g, m) == g = [i \in 0..m |-> g[i]] /\ g[0] = v /\ \A i \in 1..m : g[i] = Step(g[i - 1], i)
           HasAdds == {m \in Nat : \E g : Adds(g, m)}
<1>1. n \in Nat /\ n \in 0..n
  OBVIOUS
<1> HIDE DEF n, Step
<1>2. \A m \in 0..n : m \in HasAdds
  <2>1. 0 \in HasAdds
    <3>1. Adds([i \in 0..0 |-> v], 0)
      OBVIOUS
    <3> QED
      BY <3>1
  <2>2. ASSUME NEW m \in 1..n, m - 1 \in HasAdds PROVE m \in HasAdds
    <3>0. m \in Nat \ {0} /\ m \in 0..m
      BY <1>1
    <3>1. PICK g : Adds(g, m - 1)
      BY <2>2
    <3> DEFINE last == Step(g[m - 1], m)
               h == [i \in 0..m |-> IF i = m THEN last ELSE g[i]]
    <3> HIDE DEF last
    <3>2. h[m] = last /\ \A i \in 0..m - 1 : h[i] = g[i]
      BY <3>0
    <3>3. h = [i \in 0..m |-> h[i]]
      OBVIOUS
    <3> HIDE DEF h
    <3>4. ASSUME NEW i \in 1..m PROVE h[i] = Step(h[i - 1], i)
      <4>1. i - 1 \in 0..m - 1
        BY <3>0
      <4>2. h[i - 1] = g[i - 1]
        BY <3>2, <4>1
      <4>3. CASE i = m
        BY <3>2, <4>2, <4>3 DEF last
      <4>4. CASE i # m
        <5>1. i \in 1..m - 1 /\ i \in 0..m - 1
          BY <3>0, <4>4
        <5> QED
          BY <3>1, <3>2, <4>2, <5>1
      <4> QED
        BY <4>3, <4>4
    <3>5. h[0] = v
      <4>1. 0 \in 0..m - 1
        BY <3>0
      <4> QED
        BY <3>1, <3>2, <4>1
    <3> QED
      BY <3>0, <3>3, <3>4, <3>5
  <2> HIDE DEF HasAdds
  <2> QED
    BY <1>1, <2>1, <2>2, SetInduction
<1>3. PICK g : Adds(g, n)
  BY <1>1, <1>2
<1> DEFINE Solves(p) == p = [i \in 0..n |-> IF i = 0 THEN v ELSE Step(p[i - 1], i)]
<1>4. Solves(g)
  <2>1. ASSUME NEW i \in 0..n PROVE g[i] = IF i = 0 THEN v ELSE Step(g[i - 1], i)
    <3>1. CASE i = 0
      BY <1>3, <3>1
    <3>2. CASE i # 0
      <4>1. i \in 1..n
        BY <1>1, <3>2
      <4> QED
        BY <1>3, <3>2, <4>1
    <3> QED
      BY <3>1, <3>2
  <2>2. g = [i \in 0..n |-> g[i]]
    BY <1>3
  <2> HIDE DEF Adds
  <2> QED
    BY <2>1, <2>2
<1> DEFINE q == CHOOSE p : Solves(p)
<1>5. Solves(q)
  BY <1>4
<1>6. VersionAddAll(v, batch) = q[n]
  BY DEF VersionAddAll, n, Step
<1> HIDE DEF q
<1>7. q[0] = v /\ \A i \in 1..n : q[i] = Step(q[i - 1], i)
  <2>1. 0 \in 0..n /\ \A i \in 1..n : i \in 0..n /\ i # 0
    BY <1>1
  <2> QED
    BY <1>5, <2>1
<1> QED
  BY <1>6, <1>7 DEF n, Step

\* A batch goes behind what the version holds.
LEMMA VersionAddAllSound ==
    ASSUME NEW v, VersionSound(v), NEW batch \in Seq(Atom)
    PROVE  /\ VersionSound(VersionAddAll(v, batch))
           /\ VersionAtoms(VersionAddAll(v, batch)) = VersionAtoms(v) \o batch
<1>1. PICK g : /\ g[0] = v /\ \A i \in 1..Len(batch) : g[i] = VersionAdd(g[i - 1], batch[i])
               /\ VersionAddAll(v, batch) = g[Len(batch)]
  BY VersionAddAllEquations
<1> DEFINE n == Len(batch)
           old == VersionAtoms(v)
           Sound(i) == VersionSound(g[i]) /\ VersionAtoms(g[i]) = old \o SubSeq(batch, 1, i)
           Good == {i \in Nat : Sound(i)}
<1>2. n \in Nat /\ n \in 0..n /\ old \in Seq(Atom)
  BY VersionTypes
<1> HIDE DEF old
<1>3. 0 \in Good
  <2>1. SubSeq(batch, 1, 0) = << >>
    BY SubSeqProperties
  <2>2. old \o << >> = old
    BY <1>2
  <2> QED
    BY <1>1, <2>1, <2>2 DEF old
<1>4. ASSUME NEW i \in 1..n, i - 1 \in Good PROVE i \in Good
  <2>1. i \in Nat /\ i - 1 \in Nat /\ batch[i] \in Atom
    BY <1>2
  <2>2. g[i] = VersionAdd(g[i - 1], batch[i])
    BY <1>1
  <2>3. VersionSound(g[i]) /\ VersionAtoms(g[i]) = Append(VersionAtoms(g[i - 1]), batch[i])
    BY <1>4, <2>1, <2>2, VersionAddSound
  <2>4. Append(old \o SubSeq(batch, 1, i - 1), batch[i]) = old \o SubSeq(batch, 1, i)
    <3> DEFINE x == SubSeq(batch, 1, i - 1)
    <3>1. x \in Seq(Atom) /\ Append(x, batch[i]) = SubSeq(batch, 1, i)
      <4>1. /\ x \in Seq(Atom) /\ Len(x) = i - 1
            /\ \A j \in 1..i - 1 : x[j] = batch[j]
        <5>1. \A j \in 1..i - 1 : batch[j] \in Atom
          BY <1>2, <2>1
        <5> QED
          BY <1>2, <2>1, <5>1, SubSeqProperties
      <4> DEFINE y == SubSeq(batch, 1, i)
      <4>2. /\ y \in Seq(Atom) /\ Len(y) = i
            /\ \A j \in 1..i : y[j] = batch[j]
        <5>1. \A j \in 1..i : batch[j] \in Atom
          BY <1>2, <2>1
        <5> QED
          BY <1>2, <2>1, <5>1, SubSeqProperties
      <4> DEFINE z == Append(x, batch[i])
      <4> HIDE DEF x, y
      <4>3. /\ z \in Seq(Atom) /\ Len(z) = i /\ z[i] = batch[i]
            /\ \A j \in 1..i - 1 : z[j] = x[j]
        BY <2>1, <4>1, AppendProperties
      <4> HIDE DEF z
      <4>4. \A j \in 1..i : z[j] = y[j]
        <5>1. ASSUME NEW j \in 1..i PROVE z[j] = y[j]
          <6>1. CASE j = i
            BY <4>2, <4>3, <6>1
          <6>2. CASE j # i
            <7>1. j \in 1..i - 1
              BY <2>1, <6>2
            <7> QED
              BY <4>1, <4>2, <4>3, <7>1
          <6> QED
            BY <6>1, <6>2
        <5> QED
          BY <5>1
      <4>5. z = y
        BY <4>2, <4>3, <4>4, SeqEqual
      <4> QED
        BY <4>1, <4>5 DEF z, y
    <3> HIDE DEF x
    <3>2. Append(old \o x, batch[i]) = old \o Append(x, batch[i])
      <4> DEFINE b == batch[i]
      <4>1. old \in Seq(Atom) /\ x \in Seq(Atom) /\ b \in Atom
        BY <1>2, <2>1, <3>1
      <4> HIDE DEF b
      <4>2. Append(old \o x, b) = old \o Append(x, b)
        <5> DEFINE y == Append(old \o x, b)
                   z == old \o Append(x, b)
        <5>1. y \in Seq(Atom) /\ z \in Seq(Atom) /\ Len(y) = Len(z)
          BY <4>1
        <5>2. \A j \in 1..Len(y) : y[j] = z[j]
          BY <4>1
        <5> HIDE DEF y, z
        <5>3. y = z
          BY <5>1, <5>2, SeqEqual
        <5> QED
          BY <5>3 DEF y, z
      <4> QED
        BY <4>2 DEF b
    <3> QED
      BY <3>1, <3>2 DEF x
  <2>5. Sound(i)
    BY <1>4, <2>3, <2>4
  <2> QED
    BY <2>1, <2>5
<1>5. \A i \in 0..n : i \in Good
  <2> HIDE DEF Good
  <2> QED
    BY <1>2, <1>3, <1>4, SetInduction
<1>6. VersionSound(g[n]) /\ VersionAtoms(g[n]) = old \o SubSeq(batch, 1, n)
  BY <1>2, <1>5
<1>7. SubSeq(batch, 1, n) = batch
  BY <1>2
<1> QED
  BY <1>1, <1>6, <1>7 DEF old

SameIds(v, a) == {id \in DOMAIN v.entries.root : Same(v.entries.root[id], a)}

\* The bucket of the head key holds every equal atom.
LEMMA FindIdsEnum ==
    ASSUME NEW v, VersionSound(v), NEW a \in Atom
    PROVE  Enumerates(FindIds(v, a), SameIds(v, a))
<1> DEFINE b == Bucket(v, HeadKey(a))
           S == {id \in DOMAIN b.root : Same(b.root[id], a)}
<1>1. /\ TableSound(b, v.nextId)
      /\ DOMAIN b.root = {id \in DOMAIN v.entries.root : HeadKey(v.entries.root[id]) = HeadKey(a)}
      /\ \A id \in DOMAIN b.root : b.root[id] = v.entries.root[id]
  BY HeadKeyType DEF VersionSound
<1>2. FindIds(v, a) = Filtered(PtKeys(b), S)
  BY DEF FindIds
<1>3. Enumerates(Filtered(PtKeys(b), S), DOMAIN b.root \cap S)
  <2>1. Enumerates(PtKeys(b), DOMAIN b.root)
    BY <1>1, PtKeysEnum
  <2> HIDE DEF S, b
  <2> QED
    BY <2>1, FilteredEnum
<1>4. DOMAIN b.root \cap S = SameIds(v, a)
  <2>1. \A x : Same(x, a) => HeadKey(x) = HeadKey(a)
    BY DEF Same, HeadKey
  <2> HIDE DEF b
  <2> QED
    BY <1>1, <2>1 DEF SameIds
<1> QED
  BY <1>2, <1>3, <1>4

\* The first equal atom leaves the table of all atoms and that of its head.
LEMMA VersionRemoveSound ==
    ASSUME NEW v, VersionSound(v), NEW a \in Atom
    PROVE  /\ VersionSound(VersionRemove(v, a))
           /\ VersionAtoms(VersionRemove(v, a)) = RemoveFirstAlike("value", VersionAtoms(v), a)
<1> DEFINE ids == FindIds(v, a)
           M == SameIds(v, a)
<1>1. /\ ids = << >> <=> M = {}
      /\ M # {} => ids[1] \in M /\ \A x \in M : ids[1] <= x
  BY FindIdsEnum, EnumFirst
<1>2. Lists(VersionAtoms(v), DOMAIN v.entries.root, v.entries.root)
  BY VersionLists
<1>3. CASE M = {}
  <2>1. VersionRemove(v, a) = v
    BY <1>1, <1>3 DEF VersionRemove
  <2>2. RemoveFirstAlike("value", VersionAtoms(v), a) = VersionAtoms(v)
    BY <1>2, <1>3, ListsRemovedByValue DEF SameIds
  <2> QED
    BY <2>1, <2>2
<1>4. CASE M # {}
  <2> DEFINE n == v.nextId
             key == HeadKey(a)
             m == ids[1]
             b == PtDelete(Bucket(v, key), m)
             e == PtDelete(v.entries, m)
             u == WithBucket(v, key, b)
             w == VersionRemove(v, a)
  <2>1. /\ n \in Nat /\ key \in Keys /\ v \in VersionSet /\ TableSound(v.entries, n)
        /\ \A k \in Keys :
              /\ TableSound(Bucket(v, k), n)
              /\ DOMAIN Bucket(v, k).root = {id \in DOMAIN v.entries.root : HeadKey(v.entries.root[id]) = k}
              /\ \A id \in DOMAIN Bucket(v, k).root : Bucket(v, k).root[id] = v.entries.root[id]
    BY HeadKeyType DEF VersionSound, VersionSet
  <2>2. /\ m \in M /\ m \in DOMAIN v.entries.root /\ HeadKey(v.entries.root[m]) = key
        /\ m \in DOMAIN Bucket(v, key).root
    <3>1. m \in M /\ m \in DOMAIN v.entries.root /\ Same(v.entries.root[m], a)
      BY <1>1, <1>4 DEF SameIds
    <3>2. HeadKey(v.entries.root[m]) = key
      BY <3>1 DEF Same, HeadKey
    <3> QED
      BY <2>1, <3>1, <3>2
  <2>3. /\ TableSound(b, n) /\ DOMAIN b.root = DOMAIN Bucket(v, key).root \ {m}
        /\ \A id \in DOMAIN b.root : b.root[id] = Bucket(v, key).root[id]
    BY <2>1, <2>2, PtDeleteSound
  <2>4. /\ TableSound(e, n) /\ DOMAIN e.root = DOMAIN v.entries.root \ {m}
        /\ \A id \in DOMAIN e.root : e.root[id] = v.entries.root[id]
    BY <2>1, <2>2, PtDeleteSound
  <2>5. b \in TableSet /\ e \in TableSet
    BY <2>3, <2>4 DEF TableSound
  <2>6. /\ u \in VersionSet /\ u.entries = v.entries /\ u.nextId = n
        /\ \A k \in Keys : Bucket(u, k) = IF k = key THEN b ELSE Bucket(v, k)
    <3> HIDE DEF b, key
    <3> QED
      BY <2>1, <2>5, WithBucketIs
  <2>7. w = [u EXCEPT !.entries = e]
    <3>1. w = [u EXCEPT !.entries = PtDelete(@, m)]
      BY <1>1, <1>4 DEF VersionRemove
    <3> HIDE DEF u, w, m, ids
    <3>2. w = [u EXCEPT !.entries = PtDelete(u.entries, m)]
      BY <3>1
    <3> QED
      BY <2>6, <3>2
  <2> HIDE DEF n, key, m, b, e, u, w, ids
  <2>8. /\ w \in VersionSet /\ w.entries = e /\ w.nextId = n
        /\ w.byHead = u.byHead /\ w.unindexed = u.unindexed
    BY <2>5, <2>6, <2>7 DEF VersionSet
  <2>9. \A k \in Keys : Bucket(w, k) = IF k = key THEN b ELSE Bucket(v, k)
    BY <2>6, <2>8, BucketOf
  <2>10. ASSUME NEW k \in Keys
         PROVE  /\ TableSound(Bucket(w, k), w.nextId)
                /\ DOMAIN Bucket(w, k).root = {id \in DOMAIN w.entries.root : HeadKey(w.entries.root[id]) = k}
                /\ \A id \in DOMAIN Bucket(w, k).root : Bucket(w, k).root[id] = w.entries.root[id]
    <3>1. CASE k = key
      <4>1. Bucket(w, k) = b
        BY <2>9, <3>1
      <4>2. DOMAIN b.root = {id \in DOMAIN e.root : HeadKey(e.root[id]) = key}
        BY <2>1, <2>3, <2>4
      <4>3. \A id \in DOMAIN b.root : b.root[id] = e.root[id]
        BY <2>1, <2>3, <2>4
      <4> QED
        BY <2>3, <2>8, <3>1, <4>1, <4>2, <4>3
    <3>2. CASE k # key
      <4>1. Bucket(w, k) = Bucket(v, k)
        BY <2>9, <3>2
      <4>2. DOMAIN Bucket(v, k).root = {id \in DOMAIN e.root : HeadKey(e.root[id]) = k}
        BY <2>1, <2>2, <2>4, <3>2
      <4>3. \A id \in DOMAIN Bucket(v, k).root : Bucket(v, k).root[id] = e.root[id]
        BY <2>1, <2>4, <4>2
      <4> QED
        BY <2>1, <2>8, <4>1, <4>2, <4>3
    <3> QED
      BY <3>1, <3>2
  <2>11. VersionSound(w)
    BY <2>4, <2>8, <2>10 DEF VersionSound
  <2>12. VersionAtoms(w) = RemoveFirstAlike("value", VersionAtoms(v), a)
    <3>1. Lists(VersionAtoms(w), DOMAIN e.root, e.root)
      BY <2>8, <2>11, VersionLists
    <3>2. Lists(RemoveFirstAlike("value", VersionAtoms(v), a), DOMAIN v.entries.root \ {m}, v.entries.root)
      <4>1. \A x \in M : m <= x
        BY <1>1, <1>4 DEF m
      <4> QED
        BY <1>2, <2>2, <4>1, ListsRemovedByValue DEF SameIds
    <3> QED
      BY <2>4, <3>1, <3>2, ListsUnique
  <2> QED
    BY <2>11, <2>12 DEF w
<1> QED
  BY <1>3, <1>4

\* What matches a pattern is in the table of its head or has no head symbol itself.
LEMMA MatchesHead ==
    ASSUME NEW p \in Atom, NEW a \in Atom, Matches(p, a), HeadKey(p) # NoHead
    PROVE  HeadKey(a) \in {HeadKey(p), NoHead}
BY DEF Matches, HeadKey

\* Two listings of f that agree on what matches give the same answers.
LEMMA SameMatches ==
    ASSUME NEW p \in Atom, NEW x, NEW y, NEW I, NEW J, NEW f, NEW g, Lists(x, I, f), Lists(y, J, g),
           J \subseteq I, \A i \in I : f[i] \in Atom, \A i \in I : Matches(p, f[i]) => i \in J,
           \A i \in J : g[i] = f[i]
    PROVE  MatchesIn(p, x) = MatchesIn(p, y)
<1> DEFINE S == {a \in ToSet(x) : Matches(p, a)}
           T == {a \in ToSet(y) : Matches(p, a)}
           K == {i \in I : f[i] \in S}
           L == {i \in J : g[i] \in T}
<1>1. Lists(Filtered(x, S), K, f) /\ Lists(Filtered(y, T), L, g)
  <2>1. Lists(Filtered(x, S), K, f)
    <3> HIDE DEF S
    <3> QED
      BY ListsFiltered
  <2>2. Lists(Filtered(y, T), L, g)
    <3> HIDE DEF T
    <3> QED
      BY ListsFiltered
  <2> QED
    BY <2>1, <2>2
<1>2. /\ \A i \in I : \E j \in 1..Len(x) : x[j] = f[i]
      /\ \A i \in J : \E j \in 1..Len(y) : y[j] = g[i]
      /\ DOMAIN x = 1..Len(x) /\ DOMAIN y = 1..Len(y)
  <2>0. Lists(x, I, f) /\ (\A i \in I : f[i] \in Atom) /\ Lists(y, J, g) /\ \A i \in J : g[i] \in Atom
    OBVIOUS
  <2>1. x \in Seq(Atom) /\ \A i \in I : \E j \in 1..Len(x) : x[j] = f[i]
    BY ONLY <2>0, ListsFacts
  <2>2. y \in Seq(Atom) /\ \A i \in J : \E j \in 1..Len(y) : y[j] = g[i]
    BY ONLY <2>0, ListsFacts
  <2> QED
    BY <2>1, <2>2
<1>3. K = {i \in I : Matches(p, f[i])}
  BY <1>2 DEF ToSet
<1>4. L = {i \in J : Matches(p, g[i])}
  BY <1>2 DEF ToSet
<1> HIDE DEF S, T, K, L
<1>5. K = L
  BY <1>3, <1>4
<1>6. \A i \in K : f[i] = g[i]
  BY <1>4, <1>5
<1>7. Filtered(x, S) = Filtered(y, T)
  BY <1>1, <1>5, <1>6, ListsUnique
<1> QED
  BY <1>7 DEF MatchesIn, S, T

\* The candidates of a pattern hold what a scan of all atoms would match.
LEMMA VersionCandidatesExact ==
    ASSUME NEW v, VersionSound(v), NEW p \in Atom
    PROVE  MatchesIn(p, VersionCandidates(v, p)) = MatchesIn(p, VersionAtoms(v))
<1>1. CASE HeadKey(p) = NoHead
  BY <1>1 DEF VersionCandidates
<1>2. CASE HeadKey(p) # NoHead
  <2> DEFINE key == HeadKey(p)
             b == Bucket(v, key)
             r == v.entries.root
             n == v.nextId
             D == DOMAIN b.root \cup DOMAIN v.unindexed.root
             all == [i \in 1..n |-> i - 1]
             ids == Filtered(all, D)
             c == [i \in DOMAIN ids |-> IF ids[i] \in DOMAIN b.root THEN b.root[ids[i]]
                                        ELSE v.unindexed.root[ids[i]]]
  <2>1. VersionCandidates(v, p) = c
    BY <1>2 DEF VersionCandidates
  <2>2. /\ n \in Nat /\ DOMAIN r \subseteq Nat
        /\ \A id \in DOMAIN r : r[id] \in Atom /\ id < n
    BY VersionTypes
  <2>3. /\ DOMAIN b.root = {id \in DOMAIN r : HeadKey(r[id]) = key}
        /\ \A id \in DOMAIN b.root : b.root[id] = r[id]
    BY HeadKeyType DEF VersionSound
  <2>4. /\ DOMAIN v.unindexed.root = {id \in DOMAIN r : HeadKey(r[id]) = NoHead}
        /\ \A id \in DOMAIN v.unindexed.root : v.unindexed.root[id] = r[id]
    <3>1. NoHead \in Keys /\ Bucket(v, NoHead) = v.unindexed
      BY DEF Keys, Bucket
    <3> QED
      BY <3>1 DEF VersionSound
  <2>5. D = {id \in DOMAIN r : HeadKey(r[id]) \in {key, NoHead}}
    BY <2>3, <2>4
  <2>6. Enumerates(all, 0..n - 1)
    <3>1. all \in [1..n -> Nat]
      BY <2>2
    <3>2. all \in Seq(Nat) /\ Len(all) = n /\ \A i \in 1..n : all[i] = i - 1
      BY <2>2, <3>1, FunctionIsSeq
    <3> HIDE DEF all
    <3>3. Increasing(all)
      BY <2>2, <3>2 DEF Increasing
    <3>4. 0..n - 1 = {all[i] : i \in 1..Len(all)}
      <4>1. ASSUME NEW x \in 0..n - 1 PROVE \E i \in 1..Len(all) : all[i] = x
        <5>1. x + 1 \in 1..n /\ (x + 1) - 1 = x
          BY <2>2
        <5>2. all[x + 1] = x
          BY <3>2, <5>1
        <5> QED
          BY <3>2, <5>1, <5>2
      <4>2. \A i \in 1..Len(all) : all[i] \in 0..n - 1
        BY <2>2, <3>2
      <4> QED
        BY <4>1, <4>2
    <3> QED
      BY <3>2, <3>3, <3>4 DEF Enumerates
  <2>7. Enumerates(ids, D)
    <3> DEFINE N == 0..n - 1
    <3>1. N \cap D = D
      BY <2>2, <2>5
    <3>2. Enumerates(all, N)
      BY <2>6
    <3> HIDE DEF all, D, N
    <3>3. Enumerates(ids, N \cap D)
      BY <3>2, FilteredEnum
    <3> QED
      BY <3>1, <3>3
  <2> HIDE DEF all, ids, D, b, key
  <2>8. DOMAIN ids = 1..Len(ids) /\ \A i \in 1..Len(ids) : ids[i] \in D
    BY ONLY <2>7, EnumFacts
  <2>9. c = Listing(ids, r)
    <3>1. ASSUME NEW i \in 1..Len(ids)
          PROVE  r[ids[i]] = IF ids[i] \in DOMAIN b.root THEN b.root[ids[i]] ELSE v.unindexed.root[ids[i]]
      BY <2>3, <2>4, <2>8 DEF D
    <3> QED
      BY <2>8, <3>1 DEF Listing
  <2> HIDE DEF c
  <2>10. Lists(c, D, r)
    BY <2>7, <2>9 DEF Lists
  <2>11. \A id \in DOMAIN r : Matches(p, r[id]) => id \in D
    BY <1>2, <2>2, <2>5, MatchesHead DEF key
  <2>12. MatchesIn(p, VersionAtoms(v)) = MatchesIn(p, c)
    <3>1. D \subseteq DOMAIN r /\ Lists(VersionAtoms(v), DOMAIN r, r)
      BY <2>5, VersionLists
    <3> QED
      BY <2>2, <2>10, <2>11, <3>1, SameMatches
  <2> QED
    BY <2>1, <2>12
<1> QED
  BY <1>1, <1>2

\* The tables of a version agree, as the runs check it.
LEMMA VersionIndexed ==
    ASSUME NEW v, VersionSound(v)
    PROVE  LET buckets == {v.unindexed} \cup Range(v.byHead)
           IN  /\ \A t \in buckets \cup {v.entries} : t.size = Cardinality(DOMAIN t.root) /\ Len(PtKeys(t)) = t.size
               /\ \A id \in DOMAIN v.entries.root :
                    LET a == v.entries.root[id]
                    IN  id < v.nextId /\ {t \in buckets : id \in DOMAIN t.root} = {Bucket(v, HeadKey(a))}
               /\ \A t \in buckets : \A id \in DOMAIN t.root :
                    id \in DOMAIN v.entries.root /\ t.root[id] = v.entries.root[id]
<1> DEFINE buckets == {v.unindexed} \cup Range(v.byHead)
           r == v.entries.root
<1>1. v.byHead \in HeadMaps
  BY DEF VersionSound, VersionSet
<1>2. ASSUME NEW t \in buckets PROVE \E key \in Keys : t = Bucket(v, key)
  <2>1. CASE t = v.unindexed
    BY <2>1 DEF Bucket, Keys
  <2>2. CASE t \in Range(v.byHead)
    <3>1. PICK key \in DOMAIN v.byHead : t = v.byHead[key]
      BY <2>2 DEF Range
    <3>2. key \in Heads /\ key # NoHead
      BY <1>1, HeadMapFacts, NoHeadIsNone
    <3> QED
      BY <3>1, <3>2 DEF Bucket, Keys
  <2> QED
    BY <2>1, <2>2
<1>3. \A key \in Keys :
        /\ TableSound(Bucket(v, key), v.nextId)
        /\ DOMAIN Bucket(v, key).root = {id \in DOMAIN r : HeadKey(r[id]) = key}
        /\ \A id \in DOMAIN Bucket(v, key).root : Bucket(v, key).root[id] = r[id]
  BY DEF VersionSound
<1>4. \A t \in buckets \cup {v.entries} : t.size = Cardinality(DOMAIN t.root) /\ Len(PtKeys(t)) = t.size
  <2>1. \A t \in buckets \cup {v.entries} : TableSound(t, v.nextId)
    BY <1>2, <1>3 DEF VersionSound
  <2> HIDE DEF buckets
  <2> QED
    BY <2>1, PtKeysEnum, TableFacts
<1>5. ASSUME NEW id \in DOMAIN r
      PROVE  id < v.nextId /\ {t \in buckets : id \in DOMAIN t.root} = {Bucket(v, HeadKey(r[id]))}
  <2> DEFINE key == HeadKey(r[id])
             b == Bucket(v, key)
  <2>1. id < v.nextId /\ key \in Keys
    BY VersionTypes, HeadKeyType
  <2>2. id \in DOMAIN b.root
    BY <1>3, <2>1
  <2>3. b \in buckets
    <3>1. CASE key = NoHead
      BY <3>1 DEF Bucket
    <3>2. CASE key # NoHead /\ key \in DOMAIN v.byHead
      BY <3>2 DEF Bucket, Range
    <3>3. CASE key # NoHead /\ key \notin DOMAIN v.byHead
      <4>1. b = EmptyTable
        BY <3>3 DEF Bucket
      <4>2. DOMAIN EmptyTable.root = {}
        BY EmptyTableSound
      <4> QED
        BY <2>2, <4>1, <4>2
    <3> QED
      BY <3>1, <3>2, <3>3
  <2>4. ASSUME NEW t \in buckets, id \in DOMAIN t.root PROVE t = b
    <3>1. PICK k \in Keys : t = Bucket(v, k)
      BY <1>2
    <3>2. k = key
      BY <1>3, <2>4, <3>1
    <3> QED
      BY <3>1, <3>2
  <2> HIDE DEF buckets, b
  <2> QED
    BY <2>1, <2>2, <2>3, <2>4 DEF b
<1>6. \A t \in buckets : \A id \in DOMAIN t.root : id \in DOMAIN r /\ t.root[id] = r[id]
  BY <1>2, <1>3
<1> QED
  BY <1>4, <1>5, <1>6

-----------------------------------------------------------------------------
(* Flat tables and the worlds that see them.                               *)

Judgements == UNION {[D -> BOOLEAN] : D \in SUBSET Heads}
ScanSet == [upTo : Nat, heads : SUBSET Keys, tokens : Seq(Nat), judged : Judgements, known : SUBSET Keys]
FlatTables == [facts : Seq(Atom), scan : ScanSet]

\* Tables hold compactable atoms, and were scanned for stamps handed out.
TablesSound(ts, n) ==
    /\ ts \in Seq(FlatTables)
    /\ \A i \in 1..Len(ts) :
         /\ \A f \in Facts(ts[i]) : Compact(ts[i].facts[f])
         /\ ts[i].scan.upTo <= Len(ts[i].facts)
         /\ ts[i].scan.tokens = << >> \/ \E k \in 0..n : ts[i].scan.tokens = <<k>>

WorldSet ==
    [table : Nat, ranges : Seq(Nat \X Nat), dead : SUBSET Nat, live : Nat, nonGround : Nat,
     log : Seq(Atom), rules : SUBSET Keys, ruleVersion : Nat]

TableAt(w, ts) == IF Flat(w) THEN ts[w.table] ELSE NewTable
Held(w, ts) == AtomsOf(TableAt(w, ts), Live(w)) \o w.log
General(w, ts) == {f \in Live(w) : ~ Ground(TableAt(w, ts).facts[f])}

\* A world sees facts of its table, counts them, and has a log only without a table.
StoreSound(w, ts) ==
    /\ w \in WorldSet /\ w.table \in 0..Len(ts)
    /\ IF Flat(w) THEN w.log = << >> ELSE w.ranges = << >> /\ w.dead = {}
    /\ \A i \in 1..Len(w.ranges) : w.ranges[i][1] <= w.ranges[i][2]
    /\ Visible(w) \subseteq Facts(TableAt(w, ts)) /\ w.dead \subseteq Visible(w)
    /\ w.live = Cardinality(Live(w)) /\ w.nonGround = Cardinality(General(w, ts))

\* Its rules are those of its atoms.
RulesSound(w, ts, n) == w.rules = Defines(Held(w, ts)) /\ w.ruleVersion \in 0..n

LEMMA NewTableIs ==
    /\ NewTable \in FlatTables /\ NewTable.facts = << >> /\ Facts(NewTable) = {} /\ Len(NewTable.facts) = 0
    /\ NewTable.scan.tokens = << >> /\ NewTable.scan.upTo = 0
<1>1. << >> \in Judgements
  <2>1. << >> \in [{} -> BOOLEAN]
    OBVIOUS
  <2> QED
    BY <2>1 DEF Judgements
<1>2. << >> \in Seq(Atom) /\ << >> \in Seq(Nat) /\ DOMAIN << >> = {} /\ Len(<< >>) = 0
  OBVIOUS
<1> QED
  BY <1>1, <1>2 DEF NewTable, FlatTables, ScanSet, Facts

LEMMA TableAtIs ==
    ASSUME NEW w, NEW ts, NEW n, StoreSound(w, ts), TablesSound(ts, n)
    PROVE  /\ TableAt(w, ts) \in FlatTables /\ TableAt(w, ts).facts \in Seq(Atom)
           /\ Facts(TableAt(w, ts)) = 1..Len(TableAt(w, ts).facts) /\ Len(TableAt(w, ts).facts) \in Nat
           /\ Flat(w) => w.table \in 1..Len(ts) /\ TableAt(w, ts) = ts[w.table]
           /\ \A f \in Facts(TableAt(w, ts)) : TableAt(w, ts).facts[f] \in Atom
<1>1. Flat(w) => w.table \in 1..Len(ts)
  BY DEF Flat, StoreSound
<1>2. TableAt(w, ts) \in FlatTables
  BY <1>1, NewTableIs DEF TablesSound, TableAt
<1>3. TableAt(w, ts).facts \in Seq(Atom)
  BY <1>2 DEF FlatTables
<1> QED
  BY <1>1, <1>2, <1>3 DEF TableAt, Facts

LEMMA AtomsOfLists ==
    ASSUME NEW table, table.facts \in Seq(Atom), NEW F, F \subseteq Facts(table)
    PROVE  Lists(AtomsOf(table, F), F, table.facts)
<1> DEFINE all == [f \in Facts(table) |-> f]
           ids == Filtered(all, F)
           n == Len(table.facts)
           N == 1..n
<1>1. n \in Nat /\ Facts(table) = 1..n
  BY DEF Facts
<1>2. all \in Seq(Nat) /\ Len(all) = n
  <2>1. all \in [1..n -> Nat]
    BY <1>1
  <2> HIDE DEF all
  <2> QED
    BY <1>1, <2>1, FunctionIsSeq
<1>3. \A i \in 1..n : all[i] = i
  BY <1>1
<1> HIDE DEF all
<1>4. Enumerates(all, N)
  <2>1. Increasing(all)
    BY <1>2, <1>3 DEF Increasing
  <2>2. N = {all[i] : i \in 1..Len(all)}
    BY <1>2, <1>3
  <2> QED
    BY <1>2, <2>1, <2>2 DEF Enumerates
<1>5. N \cap F = F
  BY <1>1
<1> HIDE DEF N
<1>6. Enumerates(ids, F)
  <2>1. Enumerates(ids, N \cap F)
    BY <1>4, FilteredEnum
  <2> QED
    BY <1>5, <2>1
<1>7. AtomsOf(table, F) = [i \in DOMAIN ids |-> table.facts[ids[i]]]
  BY DEF AtomsOf, all
<1> HIDE DEF ids
<1>8. DOMAIN ids = 1..Len(ids)
  BY ONLY <1>6, EnumFacts
<1> QED
  BY <1>6, <1>7, <1>8 DEF Lists, Listing

LEMMA ListsNothing ==
    ASSUME NEW x, NEW f, Lists(x, {}, f)
    PROVE  x = << >>
BY ListsEmpty, ListsUnique

\* What a world holds is in its table or in its log.
LEMMA HeldIs ==
    ASSUME NEW w, NEW ts, NEW n, StoreSound(w, ts), TablesSound(ts, n)
    PROVE  /\ Held(w, ts) \in Seq(Atom)
           /\ Live(w) \subseteq Facts(TableAt(w, ts)) /\ IsFiniteSet(Live(w))
           /\ Lists(AtomsOf(TableAt(w, ts), Live(w)), Live(w), TableAt(w, ts).facts)
           /\ Flat(w) => Held(w, ts) = AtomsOf(TableAt(w, ts), Live(w)) /\ w.log = << >>
           /\ ~ Flat(w) => Held(w, ts) = w.log /\ Live(w) = {} /\ AtomsOf(TableAt(w, ts), Live(w)) = << >>
<1> DEFINE T == TableAt(w, ts)
           x == AtomsOf(T, Live(w))
<1>1. T.facts \in Seq(Atom) /\ \A f \in Facts(T) : T.facts[f] \in Atom
  BY TableAtIs
<1>2. Live(w) \subseteq Facts(T)
  BY DEF Live, StoreSound
<1> HIDE DEF T
<1>3. Lists(x, Live(w), T.facts)
  BY <1>1, <1>2, AtomsOfLists
<1>4. x \in Seq(Atom) /\ IsFiniteSet(Live(w))
  <2>1. Lists(x, Live(w), T.facts) /\ \A f \in Live(w) : T.facts[f] \in Atom
    BY <1>1, <1>2, <1>3
  <2> HIDE DEF x
  <2> QED
    BY ONLY <2>1, ListsFacts
<1>5. ~ Flat(w) => Live(w) = {}
  <2>1. ~ Flat(w) => w.ranges = << >>
    BY DEF StoreSound
  <2>2. w.ranges = << >> => Visible(w) = {}
    BY DEF Visible, ToSet
  <2> QED
    BY <2>1, <2>2 DEF Live
<1>6. ~ Flat(w) => x = << >>
  BY <1>3, <1>5, ListsNothing
<1>7. w.log \in Seq(Atom) /\ (Flat(w) => w.log = << >>)
  BY DEF StoreSound, WorldSet
<1> HIDE DEF x
<1>8. x \o w.log \in Seq(Atom) /\ x \o << >> = x /\ << >> \o w.log = w.log
  BY <1>4, <1>7
<1>9. Held(w, ts) = x \o w.log
  BY DEF Held, T, x
<1> QED
  BY <1>2, <1>3, <1>4, <1>5, <1>6, <1>7, <1>8, <1>9 DEF T, x

\* Tables are only appended to.
Grows(ts, us) ==
    /\ Len(ts) <= Len(us)
    /\ \A i \in 1..Len(ts) :
         /\ Len(ts[i].facts) <= Len(us[i].facts)
         /\ \A f \in Facts(ts[i]) : us[i].facts[f] = ts[i].facts[f]

\* So no world sees what another one adds.
LEMMA WorldGrows ==
    ASSUME NEW w, NEW ts, NEW us, NEW n, NEW m, StoreSound(w, ts), TablesSound(ts, n), TablesSound(us, m), Grows(ts, us)
    PROVE  StoreSound(w, us) /\ Held(w, us) = Held(w, ts)
<1> DEFINE T == TableAt(w, ts)
           U == TableAt(w, us)
<1>1. /\ T.facts \in Seq(Atom) /\ Facts(T) = 1..Len(T.facts) /\ Len(T.facts) \in Nat
      /\ Flat(w) => w.table \in 1..Len(ts) /\ T = ts[w.table]
  BY TableAtIs
<1>2. Len(ts) \in Nat /\ Len(us) \in Nat /\ Len(ts) <= Len(us)
  BY DEF TablesSound, Grows
<1>3. Flat(w) => w.table \in 1..Len(us) /\ U = us[w.table] /\ U \in FlatTables
  BY <1>1, <1>2 DEF TableAt, TablesSound
<1>4. ~ Flat(w) => U = T
  BY DEF TableAt
<1>5. Facts(T) \subseteq Facts(U) /\ \A f \in Facts(T) : U.facts[f] = T.facts[f]
  <2>1. CASE Flat(w)
    <3>1. Len(T.facts) <= Len(U.facts) /\ \A f \in Facts(T) : U.facts[f] = T.facts[f]
      BY <1>1, <1>3, <2>1 DEF Grows
    <3>2. Facts(U) = 1..Len(U.facts) /\ Len(U.facts) \in Nat
      BY <1>3, <2>1 DEF FlatTables, Facts
    <3> QED
      BY <1>1, <3>1, <3>2
  <2>2. CASE ~ Flat(w)
    BY <1>4, <2>2
  <2> QED
    BY <2>1, <2>2
<1>6. Live(w) \subseteq Facts(T)
  BY DEF Live, StoreSound
<1>7. General(w, us) = General(w, ts)
  BY <1>5, <1>6 DEF General
<1>8. StoreSound(w, us)
  <2>1. w.table \in 0..Len(us)
    BY <1>2 DEF StoreSound
  <2>2. Visible(w) \subseteq Facts(U)
    BY <1>5 DEF StoreSound
  <2> HIDE DEF T, U
  <2> QED
    BY <1>7, <2>1, <2>2 DEF StoreSound, U
<1>9. Lists(AtomsOf(T, Live(w)), Live(w), T.facts) /\ Lists(AtomsOf(U, Live(w)), Live(w), U.facts)
  BY <1>8, HeldIs
<1>10. AtomsOf(U, Live(w)) = AtomsOf(T, Live(w))
  <2>1. \A f \in Live(w) : T.facts[f] = U.facts[f]
    BY <1>5, <1>6
  <2> HIDE DEF T, U
  <2> QED
    BY <1>9, <2>1, ListsUnique
<1> QED
  BY <1>8, <1>10 DEF Held

-----------------------------------------------------------------------------
(* A batch is stored.                                                      *)

Covered(rs) == UNION {r[1]..r[2] : r \in ToSet(rs)}
Ordered(rs) == \A i \in 1..Len(rs) : rs[i][1] <= rs[i][2]

LEMMA CoveredIs ==
    ASSUME NEW rs \in Seq(Nat \X Nat), NEW x
    PROVE  x \in Covered(rs) <=> \E i \in 1..Len(rs) : x \in rs[i][1]..rs[i][2]
<1>1. DOMAIN rs = 1..Len(rs)
  OBVIOUS
<1> QED
  BY <1>1 DEF Covered, ToSet

\* A range is appended, or the last one made longer when the new one follows it.
LEMMA AppendRangeIs ==
    ASSUME NEW rs \in Seq(Nat \X Nat), Ordered(rs), NEW first \in Nat, NEW last \in Nat, first <= last
    PROVE  /\ AppendRange(rs, first, last) \in Seq(Nat \X Nat)
           /\ Ordered(AppendRange(rs, first, last))
           /\ Covered(AppendRange(rs, first, last)) = Covered(rs) \cup (first..last)
<1> DEFINE us == AppendRange(rs, first, last)
           n == Len(rs)
<1>1. n \in Nat /\ \A i \in 1..n : rs[i] \in Nat \X Nat /\ rs[i][1] \in Nat /\ rs[i][2] \in Nat /\ rs[i][1] <= rs[i][2]
  <2>1. n \in Nat /\ \A i \in 1..n : rs[i] \in Nat \X Nat
    OBVIOUS
  <2> QED
    BY <2>1 DEF Ordered
<1>2. <<first, last>> \in Nat \X Nat
  OBVIOUS
<1>3. CASE rs # << >> /\ Last(rs)[2] + 1 = first
  <2> DEFINE r == <<rs[n][1], last>>
             fs == SubSeq(rs, 1, n - 1)
  <2>1. n \in 1..n /\ rs[n][2] + 1 = first
    <3>1. n # 0
      BY <1>3
    <3> QED
      BY <1>1, <1>3, <3>1 DEF Last
  <2>2. us = Append(fs, r)
    BY <1>3 DEF AppendRange, Last, Front
  <2>3. /\ fs \in Seq(Nat \X Nat) /\ Len(fs) = n - 1
        /\ \A i \in 1..n - 1 : fs[i] = rs[i]
    <3> DEFINE P == Nat \X Nat
    <3>0. n \in Nat /\ 1 \in Int /\ n - 1 \in Int /\ \A i \in 1..n : rs[i] \in P
      BY <1>1
    <3>1. 1 \in Int /\ n - 1 \in Int /\ \A i \in 1..n - 1 : rs[i] \in P
      <4> HIDE DEF P, n
      <4> QED
        BY <3>0
    <3> HIDE DEF P, n
    <3>2. n - 1 \in Nat /\ IF 1 <= n - 1 THEN (n - 1) - 1 + 1 = n - 1 ELSE n - 1 = 0
      BY <2>1, <3>0
    <3>3. /\ fs \in Seq(P) /\ Len(fs) = IF 1 <= n - 1 THEN (n - 1) - 1 + 1 ELSE 0
          /\ \A i \in 1..(n - 1) - 1 + 1 : fs[i] = rs[1 + i - 1]
      BY <3>1, SubSeqProperties
    <3>4. (n - 1) - 1 + 1 = n - 1 /\ \A i \in 1..n - 1 : 1 + i - 1 = i
      BY <3>0
    <3> QED
      BY <3>2, <3>3, <3>4 DEF P
  <2>4. r \in Nat \X Nat /\ r[1] = rs[n][1] /\ r[2] = last /\ r[1] <= r[2]
    BY <1>1, <2>1
  <2> HIDE DEF fs, r, us, n
  <2>5. /\ us \in Seq(Nat \X Nat) /\ Len(us) = n /\ us[n] = r
        /\ \A i \in 1..n - 1 : us[i] = rs[i]
    <3>1. /\ Append(fs, r) \in Seq(Nat \X Nat) /\ Len(Append(fs, r)) = Len(fs) + 1
          /\ \A i \in 1..Len(fs) : Append(fs, r)[i] = fs[i]
          /\ Append(fs, r)[Len(fs) + 1] = r
      BY <2>3, <2>4, AppendProperties
    <3> QED
      BY <1>1, <2>2, <2>3, <3>1
  <2>6. \A i \in 1..n : i = n \/ i \in 1..n - 1
    BY <1>1
  <2>7. Ordered(us)
    <3> SUFFICES ASSUME NEW i \in 1..Len(us) PROVE us[i][1] <= us[i][2]
      BY DEF Ordered
    <3>1. i \in 1..n
      BY <2>5
    <3>2. CASE i = n
      BY <2>4, <2>5, <3>2
    <3>3. CASE i \in 1..n - 1
      BY <1>1, <2>5, <3>1, <3>3
    <3> QED
      BY <2>6, <3>1, <3>2, <3>3
  <2>8. \A x : x \in rs[n][1]..last <=> x \in rs[n][1]..rs[n][2] \/ x \in first..last
    BY <1>1, <2>1
  <2>9. ASSUME NEW x PROVE x \in Covered(us) <=> x \in Covered(rs) \cup (first..last)
    <3>1. x \in Covered(us) <=> \E i \in 1..n : x \in us[i][1]..us[i][2]
      BY <2>5, CoveredIs
    <3>2. x \in Covered(rs) <=> \E i \in 1..n : x \in rs[i][1]..rs[i][2]
      BY CoveredIs DEF n
    <3>3. us[n][1]..us[n][2] = rs[n][1]..last
      BY <2>4, <2>5
    <3>4. \A i \in 1..n - 1 : us[i][1]..us[i][2] = rs[i][1]..rs[i][2]
      BY <2>5
    <3> QED
      BY <2>1, <2>6, <2>8, <3>1, <3>2, <3>3, <3>4
  <2>10. Covered(us) = Covered(rs) \cup (first..last)
    BY <2>9
  <2> QED
    BY <2>5, <2>7, <2>10 DEF us
<1>4. CASE ~ (rs # << >> /\ Last(rs)[2] + 1 = first)
  <2> DEFINE r == <<first, last>>
  <2>1. us = Append(rs, r)
    BY <1>4 DEF AppendRange
  <2>2. r \in Nat \X Nat /\ r[1] = first /\ r[2] = last
    BY <1>2
  <2> HIDE DEF us, r
  <2>3. /\ us \in Seq(Nat \X Nat) /\ Len(us) = n + 1 /\ us[n + 1] = r
        /\ \A i \in 1..n : us[i] = rs[i]
    BY <2>1, <2>2, AppendProperties
  <2> HIDE DEF n
  <2>4. \A i \in 1..n + 1 : i = n + 1 \/ i \in 1..n
    BY <1>1
  <2>5. n + 1 \in 1..n + 1 /\ \A i \in 1..n : i \in 1..n + 1
    BY <1>1
  <2>6. Ordered(us)
    BY <1>1, <2>2, <2>3, <2>4 DEF Ordered
  <2>7. ASSUME NEW x PROVE x \in Covered(us) <=> x \in Covered(rs) \cup (first..last)
    <3>1. x \in Covered(us) <=> \E i \in 1..n + 1 : x \in us[i][1]..us[i][2]
      BY <2>3, CoveredIs
    <3>2. x \in Covered(rs) <=> \E i \in 1..n : x \in rs[i][1]..rs[i][2]
      BY CoveredIs DEF n
    <3>3. us[n + 1][1]..us[n + 1][2] = first..last
      BY <2>2, <2>3
    <3>4. \A i \in 1..n : us[i][1]..us[i][2] = rs[i][1]..rs[i][2]
      BY <2>3
    <3> QED
      BY <2>4, <2>5, <3>1, <3>2, <3>3, <3>4
  <2>8. Covered(us) = Covered(rs) \cup (first..last)
    BY <2>7
  <2> QED
    BY <2>3, <2>6, <2>8 DEF us
<1> QED
  BY <1>3, <1>4

\* A batch is listed by the places it takes at the end of a sequence.
LEMMA ListsBehind ==
    ASSUME NEW s \in Seq(Atom), NEW b \in Seq(Atom)
    PROVE  Lists(b, (Len(s) + 1)..(Len(s) + Len(b)), s \o b)
<1> DEFINE n == Len(s)
           k == Len(b)
           e == [i \in 1..k |-> n + i]
           N == (n + 1)..(n + k)
<1>1. n \in Nat /\ k \in Nat /\ b = [i \in 1..k |-> b[i]]
  OBVIOUS
<1>2. \A i \in 1..k : (s \o b)[n + i] = b[i]
  OBVIOUS
<1> HIDE DEF n, k
<1>3. e \in Seq(Nat) /\ Len(e) = k
  <2>1. e \in [1..k -> Nat]
    BY <1>1
  <2> HIDE DEF e
  <2> QED
    BY <1>1, <2>1, FunctionIsSeq
<1>4. \A i \in 1..k : e[i] = n + i
  OBVIOUS
<1> HIDE DEF e
<1>5. Increasing(e)
  BY <1>1, <1>3, <1>4 DEF Increasing
<1>6. N = {e[i] : i \in 1..Len(e)}
  <2>1. ASSUME NEW x \in N PROVE \E i \in 1..k : e[i] = x
    <3>1. x - n \in 1..k /\ n + (x - n) = x
      BY <1>1
    <3>2. e[x - n] = x
      BY <1>4, <3>1
    <3> QED
      BY <3>1, <3>2
  <2>2. \A i \in 1..k : e[i] \in N
    BY <1>1, <1>4
  <2> QED
    BY <1>3, <2>1, <2>2
<1>7. b = Listing(e, s \o b)
  <2>1. \A i \in 1..k : (s \o b)[e[i]] = b[i]
    BY <1>2, <1>4
  <2> QED
    BY <1>1, <1>3, <2>1 DEF Listing
<1>8. Enumerates(e, N)
  BY <1>3, <1>5, <1>6 DEF Enumerates
<1> QED
  BY <1>7, <1>8 DEF Lists, n, k

LEMMA CompactPrefixIs ==
    ASSUME NEW b \in Seq(Atom)
    PROVE  CompactPrefix(b) \in Seq(Atom) /\ \A i \in 1..Len(CompactPrefix(b)) : Compact(CompactPrefix(b)[i])
<1> DEFINE bad == {i \in DOMAIN b : ~ Compact(b[i])}
           m == Min(bad)
           x == SubSeq(b, 1, m - 1)
<1>1. DOMAIN b = 1..Len(b) /\ Len(b) \in Nat /\ \A i \in 1..Len(b) : b[i] \in Atom
  OBVIOUS
<1>2. CASE bad = {}
  BY <1>1, <1>2 DEF CompactPrefix
<1>3. CASE bad # {}
  <2>1. m \in bad /\ \A y \in bad : m <= y
    <3>1. bad \subseteq Nat
      BY <1>1
    <3> HIDE DEF bad
    <3> QED
      BY <1>3, <3>1, MinIs
  <2>2. m \in 1..Len(b) /\ \A i \in 1..m - 1 : i \in 1..Len(b) /\ i \notin bad
    <3> HIDE DEF m
    <3> QED
      BY <1>1, <2>1
  <2>3. CompactPrefix(b) = x
    BY <1>3 DEF CompactPrefix
  <2> HIDE DEF m
  <2>4. x \in Seq(Atom) /\ Len(x) = m - 1 /\ \A i \in 1..m - 1 : x[i] = b[i]
    <3>1. \A i \in 1..m - 1 : b[i] \in Atom
      BY <1>1, <2>2
    <3> QED
      BY <1>1, <2>2, <3>1, SubSeqProperties
  <2> HIDE DEF x
  <2>5. \A i \in 1..m - 1 : Compact(b[i])
    BY <1>1, <2>2
  <2> QED
    BY <2>3, <2>4, <2>5
<1> QED
  BY <1>2, <1>3

LEMMA DisjointSize ==
    ASSUME NEW S, NEW T, IsFiniteSet(S), IsFiniteSet(T), S \cap T = {}
    PROVE  IsFiniteSet(S \cup T) /\ Cardinality(S \cup T) = Cardinality(S) + Cardinality(T)
<1>1. /\ IsFiniteSet(S \cup T)
      /\ Cardinality(S \cup T) = Cardinality(S) + Cardinality(T) - Cardinality(S \cap T)
  BY FS_Union
<1>2. Cardinality(S \cap T) = 0 /\ Cardinality(S) \in Nat /\ Cardinality(T) \in Nat
  BY FS_EmptySet, FS_CardinalityType
<1> QED
  BY ONLY <1>1, <1>2

LEMMA IntervalSize ==
    ASSUME NEW m \in Nat, NEW k \in Nat
    PROVE  IsFiniteSet((m + 1)..(m + k)) /\ Cardinality((m + 1)..(m + k)) = k
<1>1. ASSUME NEW a \in Int, NEW b \in Int, a = m + 1, b = m + k
      PROVE  IsFiniteSet(a..b) /\ Cardinality(a..b) = k
  <2>1. IsFiniteSet(a..b) /\ Cardinality(a..b) = IF a > b THEN 0 ELSE b - a + 1
    BY FS_Interval
  <2>2. (IF a > b THEN 0 ELSE b - a + 1) = k
    BY <1>1
  <2> QED
    BY <2>1, <2>2
<1> QED
  BY <1>1

Variables == {a \in Atom : ~ Ground(a)}

\* The atoms with variables, counted in a sequence or in the places it lists.
LEMMA NonGroundListed ==
    ASSUME NEW x, NEW I, NEW f, Lists(x, I, f), \A i \in I : f[i] \in Atom
    PROVE  NumNonGround(x) = Cardinality({i \in I : ~ Ground(f[i])})
<1>0. Lists(x, I, f) /\ \A i \in I : f[i] \in Atom
  OBVIOUS
<1>1. x \in Seq(Atom)
  BY ONLY <1>0, ListsFacts
<1>2. {j \in 1..Len(x) : x[j] \in Variables} = {j \in DOMAIN x : ~ Ground(x[j])}
  BY <1>1 DEF Variables
<1>3. {i \in I : f[i] \in Variables} = {i \in I : ~ Ground(f[i])}
  BY <1>0 DEF Variables
<1>4. Cardinality({j \in 1..Len(x) : x[j] \in Variables}) = Cardinality({i \in I : f[i] \in Variables})
  BY ONLY <1>0, ListsCount
<1> QED
  BY <1>2, <1>3, <1>4 DEF NumNonGround

Behind(w, ts, batch, i, us) == i \in 1..Len(us) /\ us[i].facts = TableAt(w, ts).facts \o batch

Takes(w, ts, batch, u, us) ==
    /\ StoreSound(u, us) /\ Held(u, us) = Held(w, ts) \o batch
    /\ u.rules = w.rules /\ u.ruleVersion = w.ruleVersion

\* A world on a flat table takes the batch that was inserted behind the facts of its table.
LEMMA AppendAllSound ==
    ASSUME NEW w, NEW ts, NEW us, NEW n, NEW i, NEW batch \in Seq(Atom), batch # << >>,
           StoreSound(w, ts), TablesSound(ts, n), TablesSound(us, n), w.log = << >>, Behind(w, ts, batch, i, us)
    PROVE  Takes(w, ts, batch, WithFlat(w, i, TableAt(w, ts), batch), us)
<1>0. i \in 1..Len(us) /\ us[i].facts = TableAt(w, ts).facts \o batch
  BY DEF Behind
<1> DEFINE T == TableAt(w, ts)
           L == Len(T.facts)
           k == Len(batch)
           N == (L + 1)..(L + k)
           F == T.facts \o batch
           v == [w EXCEPT !.table = i]
           u == AppendAll(v, T, batch)
           a == NumNonGround(batch)
           rs == AppendRange(w.ranges, L + 1, L + k)
<1>1. /\ T.facts \in Seq(Atom) /\ Facts(T) = 1..L /\ L \in Nat
      /\ \A f \in Facts(T) : T.facts[f] \in Atom
  BY TableAtIs
<1>2. k \in Nat /\ k # 0 /\ Len(us) \in Nat
  <2>1. Len(us) \in Nat
    BY DEF TablesSound
  <2> QED
    BY <2>1
<1>3. w \in WorldSet /\ w.ranges \in Seq(Nat \X Nat) /\ Ordered(w.ranges)
  BY DEF StoreSound, WorldSet, Ordered
<1>4. F \in Seq(Atom) /\ Len(F) = L + k /\ (\A f \in 1..L : F[f] = T.facts[f]) /\ \A f \in 1..L + k : F[f] \in Atom
  <2>1. F \in Seq(Atom) /\ Len(F) = L + k /\ \A f \in 1..L : F[f] = T.facts[f]
    BY <1>1, ConcatProperties
  <2> HIDE DEF F
  <2> QED
    BY <2>1, ElementOfSeq
<1>5. Lists(batch, N, F)
  BY <1>1, ListsBehind
<1> HIDE DEF T, L, k, F
<1>6. rs \in Seq(Nat \X Nat) /\ Ordered(rs) /\ Covered(rs) = Covered(w.ranges) \cup N
  <2>1. L + 1 \in Nat /\ L + k \in Nat /\ L + 1 <= L + k
    BY <1>1, <1>2
  <2> QED
    BY ONLY <1>3, <2>1, AppendRangeIs
<1>7. a = Cardinality({f \in N : ~ Ground(F[f])}) /\ a \in Nat /\ IsFiniteSet({f \in N : ~ Ground(F[f])})
  <2>1. \A f \in N : F[f] \in Atom
    BY <1>1, <1>2, <1>4
  <2>2. IsFiniteSet(N)
    BY <1>1, <1>2, FS_Interval
  <2>3. IsFiniteSet({f \in N : ~ Ground(F[f])})
    BY <2>2, FS_Subset
  <2>4. a = Cardinality({f \in N : ~ Ground(F[f])})
    <3> HIDE DEF N
    <3> QED
      BY <1>5, <2>1, NonGroundListed
  <2> QED
    BY <2>3, <2>4, FS_CardinalityType
<1> HIDE DEF rs, a
<1>8. /\ v \in WorldSet /\ v.ranges = w.ranges /\ v.dead = w.dead /\ v.live = w.live /\ v.nonGround = w.nonGround
      /\ v.log = w.log /\ v.rules = w.rules /\ v.ruleVersion = w.ruleVersion /\ v.table = i
  <2>1. w \in WorldSet /\ i \in Nat /\ v = [w EXCEPT !.table = i]
    BY <1>0, <1>2, <1>3
  <2> HIDE DEF v
  <2> QED
    BY ONLY <2>1 DEF WorldSet
<1>9. u = [v EXCEPT !.ranges = rs, !.live = v.live + k, !.nonGround = v.nonGround + a]
  <2> HIDE DEF v
  <2>1. u = [v EXCEPT !.ranges = AppendRange(v.ranges, L + 1, L + k), !.live = v.live + k, !.nonGround = v.nonGround + a]
    BY DEF AppendAll, L, k, a
  <2> QED
    BY <1>8, <2>1 DEF rs
<1> HIDE DEF v, u
<1>10. /\ u \in WorldSet /\ u.ranges = rs /\ u.dead = w.dead /\ u.live = w.live + k /\ u.nonGround = w.nonGround + a
       /\ u.log = w.log /\ u.rules = w.rules /\ u.ruleVersion = w.ruleVersion /\ u.table = i
  <2>1. v.live \in Nat /\ v.nonGround \in Nat
    BY <1>8 DEF WorldSet
  <2>2. v.live + k \in Nat /\ v.nonGround + a \in Nat
    BY <1>2, <1>7, <2>1
  <2> QED
    BY <1>6, <1>8, <1>9, <2>2 DEF WorldSet
<1>11. Flat(u) /\ TableAt(u, us) = us[i] /\ us[i].facts = F
  BY <1>0, <1>10 DEF Flat, TableAt, T, F
<1>12. Visible(w) \subseteq 1..L /\ w.dead \subseteq Visible(w)
  BY <1>1 DEF StoreSound, T
<1>13. Visible(u) = Visible(w) \cup N
  BY <1>6, <1>10 DEF Visible, Covered
<1>14. Live(u) = Live(w) \cup N /\ Live(w) \subseteq 1..L /\ Live(w) \cap N = {}
  <2>1. \A f \in N : f \notin 1..L
    BY <1>1, <1>2
  <2> HIDE DEF N
  <2> QED
    BY <1>10, <1>12, <1>13, <2>1 DEF Live
<1>15. Facts(us[i]) = 1..L + k
  BY <1>4, <1>11 DEF Facts
<1>16. Visible(u) \subseteq Facts(us[i]) /\ u.dead \subseteq Visible(u)
  <2>1. 1..L \subseteq 1..L + k /\ N \subseteq 1..L + k
    BY <1>1, <1>2
  <2> QED
    BY <1>10, <1>12, <1>13, <1>15, <2>1
<1>17. Lists(Held(w, ts), Live(w), F)
  <2>1. Lists(AtomsOf(T, Live(w)), Live(w), T.facts)
    BY HeldIs DEF T
  <2>2. \A f \in Live(w) : T.facts[f] = F[f]
    BY <1>4, <1>14
  <2>3. Lists(AtomsOf(T, Live(w)), Live(w), F)
    BY <2>1, <2>2, ListsOther
  <2>4. Held(w, ts) = AtomsOf(T, Live(w))
    BY HeldIs DEF T
  <2> QED
    BY <2>3, <2>4
<1>18. Lists(Held(w, ts) \o batch, Live(u), F)
  <2>1. \A f \in Live(w) \cup N : F[f] \in Atom
    <3>1. Live(w) \cup N \subseteq 1..L + k
      BY <1>1, <1>2, <1>14
    <3> QED
      BY <1>4, <3>1
  <2>2. \A f \in Live(w), g \in N : f < g
    BY <1>1, <1>2, <1>14
  <2>3. Live(u) = Live(w) \cup N
    BY <1>14
  <2> HIDE DEF N
  <2>4. Lists(Held(w, ts) \o batch, Live(w) \cup N, F)
    BY ONLY <1>5, <1>17, <2>1, <2>2, ListsConcat
  <2> QED
    BY <2>3, <2>4
<1>19. \A f \in Live(u) : F[f] \in Atom
  <2>1. Live(u) \subseteq 1..L + k
    BY <1>15, <1>16 DEF Live
  <2> QED
    BY <1>4, <2>1
<1>20. IsFiniteSet(Live(w)) /\ w.live = Cardinality(Live(w)) /\ w.nonGround = Cardinality(General(w, ts))
  BY HeldIs DEF StoreSound
<1>21. u.live = Cardinality(Live(u))
  <2>1. Cardinality(N) = k /\ IsFiniteSet(N)
    BY <1>1, <1>2, IntervalSize
  <2>2. Cardinality(Live(w) \cup N) = Cardinality(Live(w)) + Cardinality(N)
    <3> HIDE DEF N
    <3> QED
      BY <1>14, <1>20, <2>1, DisjointSize
  <2> QED
    BY <1>10, <1>14, <1>20, <2>1, <2>2
<1>22. u.nonGround = Cardinality(General(u, us))
  <2> DEFINE A == General(w, ts)
             B == {f \in N : ~ Ground(F[f])}
  <2>1. A = {f \in Live(w) : ~ Ground(F[f])}
    BY <1>4, <1>14 DEF General, T
  <2>2. General(u, us) = A \cup B /\ A \cap B = {}
    <3>1. General(u, us) = {f \in Live(u) : ~ Ground(F[f])}
      BY <1>11 DEF General
    <3> HIDE DEF N, A
    <3> QED
      BY <1>14, <2>1, <3>1
  <2>3. IsFiniteSet(A)
    BY <1>20, FS_Subset DEF General
  <2>4. IsFiniteSet(B)
    BY <1>7
  <2>5. Cardinality(A \cup B) = Cardinality(A) + Cardinality(B)
    <3> HIDE DEF A, B
    <3> QED
      BY <2>2, <2>3, <2>4, DisjointSize
  <2> QED
    BY <1>7, <1>10, <1>20, <2>2, <2>5
<1>23. StoreSound(u, us)
  <2>1. u.table \in 0..Len(us)
    BY <1>0, <1>2, <1>10
  <2>2. u.log = << >>
    BY <1>10
  <2>3. \A j \in 1..Len(u.ranges) : u.ranges[j][1] <= u.ranges[j][2]
    BY <1>6, <1>10 DEF Ordered
  <2> QED
    BY <1>10, <1>11, <1>16, <1>21, <1>22, <2>1, <2>2, <2>3 DEF StoreSound
<1>24. Held(u, us) = Held(w, ts) \o batch
  <2>1. Lists(AtomsOf(us[i], Live(u)), Live(u), F) /\ Held(u, us) = AtomsOf(us[i], Live(u))
    BY <1>11, <1>23, HeldIs
  <2> QED
    BY <1>18, <2>1, ListsUnique
<1> QED
  BY <1>10, <1>23, <1>24 DEF u, v, T, WithFlat, Takes

FlatSound(t, n) ==
    /\ t \in FlatTables
    /\ \A f \in Facts(t) : Compact(t.facts[f])
    /\ t.scan.upTo <= Len(t.facts)
    /\ t.scan.tokens = << >> \/ \E k \in 0..n : t.scan.tokens = <<k>>

Longer(s, t) == Len(s.facts) <= Len(t.facts) /\ \A f \in Facts(s) : t.facts[f] = s.facts[f]

IsPut(ts, i, t, us) ==
    /\ Grows(ts, us) /\ i \in 1..Len(us) /\ us[i] = t
    /\ \A j \in 1..Len(us) : j # i => j \in 1..Len(ts) /\ us[j] = ts[j]

TablePut(ts, i, t) == [j \in 1..(IF i > Len(ts) THEN i ELSE Len(ts)) |-> IF j = i THEN t ELSE ts[j]]

\* One table is put in its place, or behind all others.
LEMMA TablesPut ==
    ASSUME NEW ts, NEW n, TablesSound(ts, n), NEW i \in 1..Len(ts) + 1, NEW t, FlatSound(t, n),
           i <= Len(ts) => Longer(ts[i], t)
    PROVE  TablesSound(TablePut(ts, i, t), n) /\ IsPut(ts, i, t, TablePut(ts, i, t))
<1> DEFINE us == TablePut(ts, i, t)
           k == Len(ts)
           m == IF i > k THEN i ELSE k
<1>1. k \in Nat /\ ts \in Seq(FlatTables) /\ \A j \in 1..k : ts[j] \in FlatTables
  BY DEF TablesSound
<1>2. i \in 1..k + 1
  OBVIOUS
<1> HIDE DEF k
<1>3. m \in Nat /\ k <= m /\ i \in 1..m /\ \A j \in 1..m : j # i => j \in 1..k
  BY <1>1, <1>2
<1>4. us = [j \in 1..m |-> IF j = i THEN t ELSE ts[j]]
  BY DEF k, TablePut
<1> HIDE DEF us
<1> HIDE DEF m
<1>5. us[i] = t /\ \A j \in 1..m : j # i => us[j] = ts[j]
  BY <1>3, <1>4
<1>6. us \in Seq(FlatTables) /\ Len(us) = m
  <2>1. us \in [1..m -> FlatTables]
    BY <1>1, <1>3, <1>4 DEF FlatSound
  <2> QED
    BY <1>3, <2>1, FunctionIsSeq
<1>7. TablesSound(us, n)
  <2> SUFFICES ASSUME NEW j \in 1..m
               PROVE  /\ \A f \in Facts(us[j]) : Compact(us[j].facts[f])
                      /\ us[j].scan.upTo <= Len(us[j].facts)
                      /\ us[j].scan.tokens = << >> \/ \E l \in 0..n : us[j].scan.tokens = <<l>>
    BY <1>6 DEF TablesSound
  <2>1. CASE j = i
    BY <1>5, <2>1 DEF FlatSound
  <2>2. CASE j # i
    <3>1. j \in 1..Len(ts) /\ us[j] = ts[j]
      BY <1>3, <1>5, <2>2 DEF k
    <3> QED
      BY <3>1 DEF TablesSound
  <2> QED
    BY <2>1, <2>2
<1>8. Grows(ts, us)
  <2>1. ASSUME NEW j \in 1..k
        PROVE  /\ Len(ts[j].facts) <= Len(us[j].facts)
               /\ \A f \in Facts(ts[j]) : us[j].facts[f] = ts[j].facts[f]
    <3>1. j \in 1..m /\ Len(ts[j].facts) \in Nat
      BY <1>1, <1>3 DEF FlatTables
    <3>2. CASE j = i
      <4>1. i <= Len(ts)
        BY <1>1, <3>2 DEF k
      <4> QED
        BY <1>5, <3>2, <4>1 DEF Longer
    <3>3. CASE j # i
      BY <1>5, <3>1, <3>3
    <3> QED
      BY <3>2, <3>3
  <2> QED
    BY <1>3, <1>6, <2>1 DEF Grows, k
<1> QED
  BY <1>3, <1>5, <1>6, <1>7, <1>8 DEF k, us, IsPut

\* An empty store with a log.
LEMMA LogSound ==
    ASSUME NEW w \in WorldSet, NEW ts, NEW n, TablesSound(ts, n),
           w.table = 0, w.ranges = << >>, w.dead = {}, w.live = 0, w.nonGround = 0
    PROVE  StoreSound(w, ts) /\ Held(w, ts) = w.log
<1>1. ~ Flat(w) /\ TableAt(w, ts) = NewTable
  BY DEF Flat, TableAt
<1>2. Visible(w) = {} /\ Live(w) = {}
  BY DEF Visible, Live, ToSet
<1>3. General(w, ts) = {}
  BY <1>2 DEF General
<1>4. w.table \in 0..Len(ts)
  <2>1. Len(ts) \in Nat
    BY DEF TablesSound
  <2> QED
    BY <2>1
<1>5. StoreSound(w, ts)
  BY <1>1, <1>2, <1>3, <1>4, FS_EmptySet DEF StoreSound
<1> QED
  BY <1>1, <1>5, HeldIs

\* Scans of the tables there were stay, and a new table was not scanned.
ScansStay(ts, us) ==
    \A i \in 1..Len(us) : IF i \in 1..Len(ts) THEN us[i].scan = ts[i].scan ELSE us[i].scan.tokens = << >>

LEMMA LogFacts ==
    ASSUME NEW w, NEW ts, StoreSound(w, ts), ~ Flat(w)
    PROVE  w.table = 0 /\ w.ranges = << >> /\ w.dead = {} /\ w.live = 0 /\ w.nonGround = 0
<1>1. w.table = 0 /\ w.ranges = << >> /\ w.dead = {}
  BY DEF StoreSound, Flat
<1>2. Live(w) = {} /\ General(w, ts) = {}
  BY <1>1 DEF Live, Visible, ToSet, General
<1> QED
  BY <1>1, <1>2, FS_EmptySet DEF StoreSound

\* The table a batch is put into.
LEMMA InsertedIs ==
    ASSUME NEW w, NEW ts, NEW n, StoreSound(w, ts), TablesSound(ts, n), NEW batch \in Seq(Atom)
    PROVE  LET t == TableAt(w, ts)
               u == Inserted(t, batch)
           IN  /\ u.facts = t.facts \o CompactPrefix(batch) /\ u.scan = t.scan
               /\ Len(t.facts) <= Len(u.facts) /\ \A f \in Facts(t) : u.facts[f] = t.facts[f]
               /\ FlatSound(u, n)
<1> DEFINE t == TableAt(w, ts)
           u == Inserted(t, batch)
           p == CompactPrefix(batch)
           F == t.facts \o p
<1>1. /\ t \in FlatTables /\ t.facts \in Seq(Atom) /\ Facts(t) = 1..Len(t.facts) /\ Len(t.facts) \in Nat
      /\ Flat(w) => w.table \in 1..Len(ts) /\ t = ts[w.table]
  BY TableAtIs
<1>2. /\ \A f \in Facts(t) : Compact(t.facts[f])
      /\ t.scan.upTo <= Len(t.facts)
      /\ t.scan.tokens = << >> \/ \E k \in 0..n : t.scan.tokens = <<k>>
  <2>1. CASE Flat(w)
    <3> HIDE DEF t
    <3> QED
      BY <1>1, <2>1 DEF TablesSound
  <2>2. CASE ~ Flat(w)
    <3>1. t = NewTable
      BY <2>2 DEF TableAt
    <3> HIDE DEF t
    <3> QED
      BY <3>1, NewTableIs
  <2> QED
    BY <2>1, <2>2
<1>3. p \in Seq(Atom) /\ \A i \in 1..Len(p) : Compact(p[i])
  BY CompactPrefixIs
<1> HIDE DEF t, p
<1>4. /\ F \in Seq(Atom) /\ Len(F) = Len(t.facts) + Len(p) /\ Len(p) \in Nat
      /\ \A i \in 1..Len(F) : F[i] = IF i <= Len(t.facts) THEN t.facts[i] ELSE p[i - Len(t.facts)]
  BY <1>1, <1>3, ConcatProperties, LenProperties
<1>5. u = [t EXCEPT !.facts = F]
  BY DEF Inserted, p
<1> HIDE DEF u, F
<1>6. u \in FlatTables /\ u.facts = F /\ u.scan = t.scan
  BY <1>1, <1>4, <1>5 DEF FlatTables
<1> DEFINE k == Len(t.facts)
           l == Len(p)
           c == Len(F)
<1>7. k \in Nat /\ l \in Nat /\ c = k + l
  BY <1>1, <1>4
<1>8. t.scan.upTo \in Nat
  BY <1>1 DEF FlatTables, ScanSet
<1>9. Facts(u) = 1..c /\ Facts(t) = 1..k
  BY <1>1, <1>4, <1>6 DEF Facts
<1>10. \A i \in 1..c : F[i] = IF i <= k THEN t.facts[i] ELSE p[i - k]
  BY <1>4
<1>11. t.scan.upTo <= k /\ (\A f \in 1..k : Compact(t.facts[f])) /\ \A i \in 1..l : Compact(p[i])
  BY <1>1, <1>2, <1>3
<1> HIDE DEF k, l, c
<1>12. k <= c /\ t.scan.upTo <= c /\ (\A f \in 1..k : F[f] = t.facts[f]) /\ \A f \in 1..c : Compact(F[f])
  <2>1. \A f \in 1..c : (f \in 1..k /\ f <= k) \/ (f - k \in 1..l /\ ~ (f <= k))
    BY <1>7
  <2>2. \A f \in 1..k : f \in 1..c /\ f <= k
    BY <1>7
  <2> QED
    BY <1>7, <1>8, <1>10, <1>11, <2>1, <2>2
<1> QED
  BY <1>2, <1>6, <1>9, <1>12 DEF u, t, p, F, k, c, FlatSound

\* A stored batch is behind what the world held, and no other world or scan is touched.
LEMMA StoredSound ==
    ASSUME NEW w, NEW n, NEW batch \in Seq(Atom), batch # << >>, StoreSound(w, tables), TablesSound(tables, n)
    PROVE  LET s == Stored(w, batch)
           IN  /\ TablesSound(s.tables, n) /\ Grows(tables, s.tables) /\ ScansStay(tables, s.tables)
               /\ StoreSound(s.to, s.tables) /\ Held(s.to, s.tables) = Held(w, tables) \o batch
               /\ s.to.rules = w.rules /\ s.to.ruleVersion = w.ruleVersion
<1> DEFINE s == Stored(w, batch)
           T == TableAt(w, tables)
           k == Len(tables)
<1>1. w \in WorldSet /\ w.log \in Seq(Atom) /\ k \in Nat
  <2>1. w \in WorldSet
    BY DEF StoreSound
  <2>2. w.log \in Seq(Atom)
    BY <2>1 DEF WorldSet
  <2>3. tables \in Seq(FlatTables)
    BY DEF TablesSound
  <2>4. k \in Nat
    BY <2>3, LenProperties
  <2> QED
    BY <2>1, <2>2, <2>4
<1>2. /\ Held(w, tables) \in Seq(Atom)
      /\ Flat(w) => Held(w, tables) = AtomsOf(T, Live(w)) /\ w.log = << >>
      /\ ~ Flat(w) => Held(w, tables) = w.log /\ AtomsOf(T, Live(w)) = << >>
  BY HeldIs
<1>3. TableOf(w) = T
  BY DEF TableOf, TableAt
<1>4. CASE ~ Flat(w) /\ w.log # << >>
  <2> DEFINE log == w.log \o batch
             u == [w EXCEPT !.log = log]
  <2>1. s = [to |-> u, tables |-> tables]
    BY <1>4 DEF Stored
  <2>2. log \in Seq(Atom)
    BY <1>1
  <2>3. w.table = 0 /\ w.ranges = << >> /\ w.dead = {} /\ w.live = 0 /\ w.nonGround = 0
    BY <1>4, LogFacts
  <2> HIDE DEF log
  <2>4. /\ u \in WorldSet /\ u.table = 0 /\ u.ranges = << >> /\ u.dead = {} /\ u.live = 0 /\ u.nonGround = 0
        /\ u.log = log /\ u.rules = w.rules /\ u.ruleVersion = w.ruleVersion
    BY <1>1, <2>2, <2>3 DEF WorldSet
  <2> HIDE DEF u
  <2>5. StoreSound(u, tables) /\ Held(u, tables) = log
    BY <2>4, LogSound
  <2>6. Grows(tables, tables) /\ ScansStay(tables, tables)
    <3>1. \A j \in 1..k : tables[j] \in FlatTables
      BY DEF TablesSound
    <3>2. \A j \in 1..k : Len(tables[j].facts) \in Nat
      BY <3>1 DEF FlatTables
    <3> QED
      BY <1>1, <3>2 DEF Grows, ScansStay
  <2>7. s.to = u /\ s.tables = tables
    BY <2>1
  <2>8. Held(u, tables) = Held(w, tables) \o batch
    BY <1>2, <1>4, <2>5 DEF log
  <2> HIDE DEF s
  <2> QED
    BY <2>4, <2>5, <2>6, <2>7, <2>8 DEF s
<1>5. CASE ~ (~ Flat(w) /\ w.log # << >>)
  <2> DEFINE i == IF Flat(w) THEN w.table ELSE k + 1
             t == Inserted(T, batch)
             us == [j \in 1..(IF i > k THEN i ELSE k) |-> IF j = i THEN t ELSE tables[j]]
             to == IF CompactPrefix(batch) = batch THEN WithFlat(w, i, T, batch) ELSE AllToLog(w, batch)
  <2>1. s = [to |-> to, tables |-> us]
    BY <1>3, <1>5 DEF Stored
  <2>2. w.log = << >>
    BY <1>2, <1>5
  <2>3. i \in 1..k + 1 /\ (Flat(w) => i \in 1..k /\ T = tables[i]) /\ (~ Flat(w) => i = k + 1 /\ T = NewTable)
    <3>1. Flat(w) => w.table \in 1..k /\ T = tables[w.table]
      BY TableAtIs
    <3>2. ~ Flat(w) => T = NewTable
      BY DEF TableAt
    <3> HIDE DEF T, k
    <3> QED
      BY <1>1, <3>1, <3>2
  <2>4. /\ t.facts = T.facts \o CompactPrefix(batch) /\ t.scan = T.scan
        /\ Len(T.facts) <= Len(t.facts) /\ \A f \in Facts(T) : t.facts[f] = T.facts[f]
        /\ FlatSound(t, n)
    BY InsertedIs
  <2> HIDE DEF i, t, T
  <2>5. i <= Len(tables) => Longer(tables[i], t)
    <3>1. i <= k => Flat(w)
      BY <1>1, <2>3
    <3> QED
      BY <2>3, <2>4, <3>1 DEF Longer
  <2>6. us = TablePut(tables, i, t)
    BY DEF TablePut
  <2> HIDE DEF us
  <2>7. /\ TablesSound(us, n) /\ Grows(tables, us) /\ i \in 1..Len(us) /\ us[i] = t
        /\ \A j \in 1..Len(us) : j # i => j \in 1..Len(tables) /\ us[j] = tables[j]
    <3>1. i \in 1..Len(tables) + 1
      BY <2>3
    <3> QED
      BY <2>4, <2>5, <2>6, <3>1, TablesPut DEF IsPut
  <2>8. ScansStay(tables, us)
    <3> SUFFICES ASSUME NEW j \in 1..Len(us)
                 PROVE  IF j \in 1..k THEN us[j].scan = tables[j].scan ELSE us[j].scan.tokens = << >>
      BY DEF ScansStay
    <3>1. CASE j # i
      BY <2>7, <3>1
    <3>2. CASE j = i /\ Flat(w)
      BY <2>3, <2>4, <2>7, <3>2
    <3>3. CASE j = i /\ ~ Flat(w)
      <4>1. i \notin 1..k
        BY <1>1, <2>3, <3>3
      <4> QED
        BY <2>3, <2>4, <2>7, <3>3, <4>1, NewTableIs
    <3> QED
      BY <3>1, <3>2, <3>3
  <2>9. CASE CompactPrefix(batch) = batch
    <3>1. Behind(w, tables, batch, i, us)
      BY <2>4, <2>7, <2>9 DEF T, Behind
    <3>2. to = WithFlat(w, i, TableAt(w, tables), batch)
      BY <2>9 DEF T
    <3> HIDE DEF to
    <3>3. /\ StoreSound(to, us) /\ Held(to, us) = Held(w, tables) \o batch
          /\ to.rules = w.rules /\ to.ruleVersion = w.ruleVersion
      <4>1. Takes(w, tables, batch, WithFlat(w, i, TableAt(w, tables), batch), us)
        <5>1. /\ batch \in Seq(Atom) /\ batch # << >> /\ StoreSound(w, tables) /\ TablesSound(tables, n)
              /\ TablesSound(us, n) /\ w.log = << >>
          BY <2>2, <2>7
        <5> QED
          BY ONLY <3>1, <5>1, AppendAllSound
      <4> QED
        BY <3>2, <4>1 DEF Takes
    <3> QED
      BY <2>1, <2>7, <2>8, <3>3
  <2>10. CASE CompactPrefix(batch) # batch
    <3> DEFINE log == AtomsOf(T, Live(w)) \o w.log \o batch
    <3>1. log = Held(w, tables) \o batch
      BY DEF Held, T
    <3>2. log \in Seq(Atom)
      BY <1>2, <3>1
    <3>3. to = [w EXCEPT !.log = log, !.table = 0, !.ranges = << >>, !.dead = {}, !.live = 0, !.nonGround = 0]
      BY <1>3, <2>10 DEF AllToLog
    <3> HIDE DEF log, to
    <3>4. /\ to \in WorldSet /\ to.table = 0 /\ to.ranges = << >> /\ to.dead = {} /\ to.live = 0 /\ to.nonGround = 0
          /\ to.log = log /\ to.rules = w.rules /\ to.ruleVersion = w.ruleVersion
      <4>1. w \in WorldSet /\ 0 \in Nat /\ << >> \in Seq(Nat \X Nat) /\ {} \in SUBSET Nat
        BY <1>1
      <4> QED
        BY ONLY <3>2, <3>3, <4>1 DEF WorldSet
    <3>5. StoreSound(to, us) /\ Held(to, us) = log
      BY <2>7, <3>4, LogSound
    <3> QED
      BY <2>1, <2>7, <2>8, <3>1, <3>4, <3>5
  <2> QED
    BY <2>9, <2>10
<1> QED
  BY <1>4, <1>5

-----------------------------------------------------------------------------
(* An atom is removed.                                                     *)

LEMMA RemoveFirstAlikeIs ==
    ASSUME NEW S, NEW s \in Seq(S), NEW by, NEW a
    PROVE  RemoveFirstAlike(by, s, a) \in Seq(S) /\ RemoveFirstAlike(by, << >>, a) = << >>
<1> DEFINE K == {i \in 1..Len(s) : Alike(by, s[i], a)}
<1>1. RemoveFirstAlike(by, << >>, a) = << >>
  BY DEF RemoveFirstAlike, RemoveFirstMatch
<1>2. CASE K = {}
  BY <1>2 DEF RemoveFirstAlike, RemoveFirstMatch
<1>3. CASE K # {}
  <2>1. Min(K) \in K
    <3>1. K \subseteq Nat
      OBVIOUS
    <3> HIDE DEF K
    <3> QED
      BY <1>3, <3>1, MinIs
  <2>2. RemoveFirstAlike(by, s, a) = RemoveAt(s, Min(K))
    BY <1>3 DEF RemoveFirstAlike, RemoveFirstMatch, SelectInSeq
  <2>3. Min(K) \in 1..Len(s)
    BY <2>1
  <2> HIDE DEF K
  <2> QED
    BY <1>1, <2>2, <2>3, RemoveAtIs
<1> QED
  BY <1>1, <1>2, <1>3

\* The first of the live facts that hold the term leaves a flat store, the first equal atom a log.
Removes(w, ts, a, u) ==
    /\ StoreSound(u, ts) /\ u.rules = w.rules /\ u.ruleVersion = w.ruleVersion
    /\ Held(u, ts) = RemoveFirstAlike(IF Flat(w) THEN "term" ELSE "value", Held(w, ts), a)

LEMMA RemoveOneFlatSound ==
    ASSUME NEW w, NEW ts, NEW n, StoreSound(w, ts), TablesSound(ts, n), Flat(w), NEW a \in Atom
    PROVE  LET facts == FactsForTerm(TableAt(w, ts), a) \cap Live(w)
               u == RemoveOneFlat(w, TableAt(w, ts), a)
           IN  /\ facts = {} => u = w /\ RemoveFirstAlike("term", Held(w, ts), a) = Held(w, ts)
               /\ facts # {} => u.live # w.live /\ Removes(w, ts, a, u)
<1> DEFINE T == TableAt(w, ts)
           facts == FactsForTerm(T, a) \cap Live(w)
           m == Min(facts)
           u == RemoveOneFlat(w, T, a)
           L == Live(w)
<1>1. /\ \A f \in Facts(T) : T.facts[f] \in Atom
      /\ Facts(T) = 1..Len(T.facts) /\ Len(T.facts) \in Nat
  BY TableAtIs
<1>2. /\ L \subseteq Facts(T) /\ IsFiniteSet(L) /\ Lists(Held(w, ts), L, T.facts)
      /\ Held(w, ts) = AtomsOf(T, L) /\ w.log = << >>
  BY HeldIs
<1>3. facts = {f \in L : T.facts[f] = a}
  BY <1>2 DEF FactsForTerm
<1>5. facts = {} => u = w
  BY DEF RemoveOneFlat
<1>6. w \in WorldSet /\ w.live = Cardinality(L) /\ w.nonGround = Cardinality(General(w, ts))
  BY DEF StoreSound
<1> HIDE DEF T, facts, L
<1>7. facts = {} => RemoveFirstAlike("term", Held(w, ts), a) = Held(w, ts)
  BY <1>2, <1>3, ListsRemovedByTerm
<1>8. ASSUME facts # {} PROVE u.live # w.live /\ Removes(w, ts, a, u)
  <2>1. m \in facts /\ \A y \in facts : m <= y
    <3>1. facts \subseteq Nat
      BY <1>1, <1>2, <1>3
    <3> QED
      BY <1>8, <3>1, MinIs
  <2> HIDE DEF m
  <2>2. m \in L /\ T.facts[m] = a /\ m \in Nat
    BY <1>1, <1>2, <1>3, <2>1
  <2> DEFINE G == {f \in L : ~ Ground(T.facts[f])}
             c == IF Ground(a) THEN w.nonGround ELSE w.nonGround - 1
             dead == w.dead \cup {m}
  <2>3. General(w, ts) = G
    BY DEF General, T, L
  <2>4. w.live \in Nat /\ w.nonGround \in Nat
    BY <1>6 DEF WorldSet
  <2>5. Cardinality(L \ {m}) = w.live - 1 /\ w.live - 1 \in Nat
    <3>1. Cardinality(L \ {m}) = Cardinality(L) - 1 /\ IsFiniteSet(L \ {m})
      BY <1>2, <2>2, FS_RemoveElement
    <3>2. Cardinality(L \ {m}) \in Nat
      BY <3>1, FS_CardinalityType
    <3> QED
      BY <1>6, <3>1, <3>2
  <2>6. Cardinality(G \ {m}) = c /\ c \in Nat
    <3>1. IsFiniteSet(G)
      BY <1>2, FS_Subset
    <3>2. m \in G <=> ~ Ground(a)
      BY <2>2
    <3> HIDE DEF G
    <3>3. Cardinality(G \ {m}) = (IF m \in G THEN Cardinality(G) - 1 ELSE Cardinality(G)) /\ IsFiniteSet(G \ {m})
      BY <3>1, FS_RemoveElement
    <3>4. Cardinality(G \ {m}) \in Nat
      BY <3>3, FS_CardinalityType
    <3> QED
      BY <1>6, <2>3, <3>2, <3>3, <3>4
  <2>7. u = [w EXCEPT !.dead = dead, !.live = w.live - 1, !.nonGround = c]
    BY <1>8 DEF RemoveOneFlat, facts, L, m
  <2>8. dead \in SUBSET Nat
    BY <1>6, <2>2 DEF WorldSet
  <2> HIDE DEF u, dead, c, G
  <2>9. /\ u \in WorldSet /\ u.table = w.table /\ u.ranges = w.ranges /\ u.dead = dead /\ u.live = w.live - 1
        /\ u.nonGround = c /\ u.log = w.log /\ u.rules = w.rules /\ u.ruleVersion = w.ruleVersion
    BY ONLY <1>6, <2>5, <2>6, <2>7, <2>8 DEF WorldSet
  <2>10. Flat(u) /\ TableAt(u, ts) = T
    BY <2>9 DEF Flat, TableAt, T
  <2>11. Visible(u) = Visible(w) /\ Live(u) = L \ {m}
    <3>1. Visible(u) = Visible(w)
      BY <2>9 DEF Visible
    <3> QED
      BY <2>9, <3>1 DEF Live, L, dead
  <2>12. General(u, ts) = G \ {m}
    BY <2>10, <2>11 DEF General, G
  <2>13. StoreSound(u, ts)
    <3>1. dead \subseteq Visible(w)
      BY <2>2 DEF StoreSound, L, Live, dead
    <3>2. Visible(w) \subseteq Facts(T)
      BY DEF StoreSound, T
    <3>3. u.table \in 0..Len(ts) /\ (\A i \in 1..Len(u.ranges) : u.ranges[i][1] <= u.ranges[i][2])
      BY <2>9 DEF StoreSound
    <3> QED
      BY <1>2, <2>5, <2>6, <2>9, <2>10, <2>11, <2>12, <3>1, <3>2, <3>3 DEF StoreSound
  <2>14. Held(u, ts) = RemoveFirstAlike("term", Held(w, ts), a)
    <3>1. Lists(RemoveFirstAlike("term", Held(w, ts), a), L \ {m}, T.facts)
      BY <1>2, <1>3, <2>1, ListsRemovedByTerm
    <3>2. Lists(Held(u, ts), L \ {m}, T.facts)
      BY <2>10, <2>11, <2>13, HeldIs
    <3> QED
      BY <3>1, <3>2, ListsUnique
  <2>15. w.live - 1 # w.live
    BY <2>4
  <2> QED
    BY <2>9, <2>13, <2>14, <2>15 DEF Removes
<1> QED
  BY <1>5, <1>7, <1>8 DEF u, facts, T, L

LEMMA RemovedSound ==
    ASSUME NEW w, NEW n, StoreSound(w, tables), TablesSound(tables, n), NEW a \in Atom
    PROVE  Removes(w, tables, a, Removed(w, a))
<1> DEFINE u == Removed(w, a)
           T == TableAt(w, tables)
           v == RemoveOneFlat(w, T, a)
           z == [w EXCEPT !.log = RemoveFirstAlike("value", w.log, a)]
<1>1. TableOf(w) = T
  BY DEF TableOf, TableAt
<1>2. u = IF Flat(w) /\ v.live # w.live THEN v ELSE z
  BY <1>1 DEF Removed
<1>3. w \in WorldSet /\ w.log \in Seq(Atom)
  BY DEF StoreSound, WorldSet
<1>4. RemoveFirstAlike("value", w.log, a) \in Seq(Atom) /\ RemoveFirstAlike("value", << >>, a) = << >>
  BY <1>3, RemoveFirstAlikeIs
<1>5. CASE Flat(w)
  <2> DEFINE facts == FactsForTerm(T, a) \cap Live(w)
  <2>1. /\ facts = {} => v = w /\ RemoveFirstAlike("term", Held(w, tables), a) = Held(w, tables)
        /\ facts # {} => v.live # w.live /\ Removes(w, tables, a, v)
    BY <1>5, RemoveOneFlatSound
  <2>2. w.log = << >>
    BY <1>5 DEF StoreSound
  <2>3. z = w
    BY <1>3, <1>4, <2>2 DEF WorldSet
  <2> HIDE DEF u, v, z, facts, T
  <2>4. CASE facts = {}
    <3>1. u = w
      BY <1>2, <2>1, <2>3, <2>4
    <3> QED
      BY <1>5, <2>1, <2>4, <3>1 DEF Removes, u
  <2>5. CASE facts # {}
    BY <1>2, <1>5, <2>1, <2>5 DEF u
  <2> QED
    BY <2>4, <2>5
<1>6. CASE ~ Flat(w)
  <2>1. u = z
    BY <1>2, <1>6
  <2>2. w.table = 0 /\ w.ranges = << >> /\ w.dead = {} /\ w.live = 0 /\ w.nonGround = 0
    BY <1>6, LogFacts
  <2> DEFINE log == RemoveFirstAlike("value", w.log, a)
  <2>3. z = [w EXCEPT !.log = log] /\ log \in Seq(Atom)
    BY <1>4
  <2> HIDE DEF log, z
  <2>4. /\ z \in WorldSet /\ z.table = 0 /\ z.ranges = << >> /\ z.dead = {} /\ z.live = 0 /\ z.nonGround = 0
        /\ z.log = log /\ z.rules = w.rules /\ z.ruleVersion = w.ruleVersion
    BY ONLY <1>3, <2>2, <2>3 DEF WorldSet
  <2>5. StoreSound(z, tables) /\ Held(z, tables) = log
    BY <2>4, LogSound
  <2>6. Held(w, tables) = w.log
    BY <1>6, HeldIs
  <2> HIDE DEF u
  <2> QED
    BY <1>6, <2>1, <2>4, <2>5, <2>6 DEF Removes, u, log
<1> QED
  BY <1>5, <1>6

-----------------------------------------------------------------------------
(* Scans for suspect facts.                                                *)

SuspectUnder(a, rules) == a.head \in {Var, NoHead} \/ Symbols(a) \cap rules # {}

\* A scan has the heads of what is suspect as far as it went, and judged every symbol with a rule, or with a
\* signature (in S) when it began, as defined.
ScanFor(facts, scan, rules, S) ==
    /\ scan.known \subseteq rules \cup S
    /\ \A f \in 1..scan.upTo : SuspectUnder(facts[f], rules \cup scan.known) => HeadKey(facts[f]) \in scan.heads
    /\ \A s \in DOMAIN scan.judged : s \in rules \cup scan.known => scan.judged[s]

LEMMA JudgementFacts ==
    ASSUME NEW g
    PROVE  g \in Judgements <=> DOMAIN g \subseteq Heads /\ g \in [DOMAIN g -> BOOLEAN]
BY DEF Judgements

LEMMA ScannedSound ==
    ASSUME NEW t, NEW n, FlatSound(t, n), NEW k \in 0..n, n \in Nat, NEW rules \in SUBSET Keys, NEW S \in SUBSET Keys,
           t.scan.tokens = <<k>> => ScanFor(t.facts, t.scan, rules, S)
    PROVE  LET u == Scanned(t, rules \cup S, <<k>>)
           IN  /\ FlatSound(u, n) /\ u.facts = t.facts /\ u.scan.tokens = <<k>>
               /\ ScanFor(u.facts, u.scan, rules, S)
<1> DEFINE F == t.facts
           L == Len(F)
           defined == rules \cup S
           scan == Rescan(t.scan, defined, <<k>>)
           R == rules \cup scan.known
           new == {F[f] : f \in scan.upTo + 1..L}
           D == DOMAIN scan.judged \cup UNION {Symbols(a) : a \in new}
           judged == [s \in D |-> IF s \in DOMAIN scan.judged THEN scan.judged[s] ELSE s \in defined]
           Suspect(a) == a.head \in {Var, NoHead} \/ \E s \in Symbols(a) : judged[s]
           heads == scan.heads \cup {HeadKey(a) : a \in {b \in new : Suspect(b)}}
           made == [upTo |-> L, tokens |-> <<k>>, judged |-> judged, known |-> scan.known, heads |-> heads]
           u == Scanned(t, defined, <<k>>)
<1>1. /\ t \in FlatTables /\ F \in Seq(Atom) /\ L \in Nat /\ Facts(t) = 1..L /\ t.scan \in ScanSet
      /\ \A f \in 1..L : F[f] \in Atom
  BY DEF FlatSound, FlatTables, Facts
<1>2. u = [t EXCEPT !.scan = made]
  BY DEF Scanned
<1>3. scan \in ScanSet /\ scan.upTo <= L /\ ScanFor(F, scan, rules, S)
  <2>1. CASE t.scan.tokens = <<k>>
    <3>1. scan = t.scan
      BY <2>1 DEF Rescan
    <3> QED
      BY <1>1, <2>1, <3>1 DEF FlatSound
  <2>2. CASE t.scan.tokens # <<k>>
    <3>1. scan = [upTo |-> 0, heads |-> {}, tokens |-> <<k>>, judged |-> << >>, known |-> defined]
      BY <2>2 DEF Rescan
    <3>2. << >> \in Judgements /\ DOMAIN << >> = {}
      <4>1. DOMAIN << >> = {} /\ << >> \in [{} -> BOOLEAN]
        OBVIOUS
      <4> QED
        BY <4>1, JudgementFacts
    <3>3. <<k>> \in Seq(Nat)
      OBVIOUS
    <3> HIDE DEF scan
    <3>4. scan \in ScanSet
      BY <3>1, <3>2, <3>3 DEF ScanSet
    <3>5. scan.upTo = 0 /\ DOMAIN scan.judged = {} /\ scan.known = rules \cup S
      BY <3>1, <3>2
    <3>6. \A f \in 1..0 : FALSE
      OBVIOUS
    <3> HIDE DEF L
    <3> QED
      BY <1>1, <3>4, <3>5, <3>6 DEF ScanFor
  <2> QED
    BY <2>1, <2>2
<1>3a. R \subseteq defined
  BY <1>3 DEF ScanFor
<1> HIDE DEF F, L, scan, R, defined
<1>4. /\ scan.upTo \in Nat /\ scan.heads \in SUBSET Keys
      /\ DOMAIN scan.judged \subseteq Heads /\ \A s \in DOMAIN scan.judged : scan.judged[s] \in BOOLEAN
  <2>1. scan.judged \in Judgements
    BY <1>3 DEF ScanSet
  <2>2. DOMAIN scan.judged \subseteq Heads /\ scan.judged \in [DOMAIN scan.judged -> BOOLEAN]
    BY <2>1, JudgementFacts
  <2> QED
    BY <1>3, <2>2 DEF ScanSet
<1>5. \A a \in new : a \in Atom
  BY <1>1, <1>4
<1>6. DOMAIN judged = D /\ D \subseteq Heads /\ judged \in [D -> BOOLEAN]
  <2>1. \A a \in new : Symbols(a) \subseteq Heads
    BY DEF Symbols
  <2>2. D \subseteq Heads
    BY <1>4, <2>1
  <2>3. \A s : (s \in defined) \in BOOLEAN
    OBVIOUS
  <2> HIDE DEF D
  <2>4. \A s \in D : judged[s] \in BOOLEAN
    BY <1>4, <2>3
  <2>5. judged = [s \in D |-> judged[s]]
    OBVIOUS
  <2> HIDE DEF judged
  <2> QED
    BY <2>2, <2>4, <2>5
<1>7. judged \in Judgements
  BY <1>6, JudgementFacts
<1>8. heads \subseteq Keys
  BY <1>4, <1>5, HeadKeyType
<1>9. ASSUME NEW f \in 1..L, SuspectUnder(F[f], R) PROVE HeadKey(F[f]) \in heads
  <2>1. CASE f <= scan.upTo
    <3>1. f \in 1..scan.upTo
      BY <1>1, <1>4, <2>1
    <3> QED
      BY <1>3, <1>9, <3>1 DEF ScanFor, R
  <2>2. CASE ~ (f <= scan.upTo)
    <3>1. F[f] \in new
      <4>1. f \in scan.upTo + 1..L
        BY <1>1, <1>4, <2>2
      <4> QED
        BY <4>1
    <3>2. Suspect(F[f])
      <4>1. CASE F[f].head \in {Var, NoHead}
        BY <4>1
      <4>2. CASE Symbols(F[f]) \cap R # {}
        <5>1. PICK s : s \in Symbols(F[f]) /\ s \in R
          BY <4>2
        <5>2. s \in D /\ s \in defined
          BY <1>3a, <3>1, <5>1
        <5>3. judged[s]
          <6>1. judged[s] = IF s \in DOMAIN scan.judged THEN scan.judged[s] ELSE s \in defined
            BY <5>2
          <6>2. s \in DOMAIN scan.judged => scan.judged[s]
            BY <1>3, <5>1 DEF ScanFor, R
          <6> HIDE DEF judged, D
          <6> QED
            BY <5>2, <6>1, <6>2
        <5> QED
          BY <5>1, <5>3
      <4> QED
        BY <1>9, <4>1, <4>2 DEF SuspectUnder
    <3> QED
      BY <3>1, <3>2
  <2> QED
    BY <2>1, <2>2
<1>10. ASSUME NEW s \in D, s \in R PROVE judged[s]
  <2>1. judged[s] = IF s \in DOMAIN scan.judged THEN scan.judged[s] ELSE s \in defined
    OBVIOUS
  <2>2. s \in DOMAIN scan.judged => scan.judged[s]
    BY <1>3, <1>10 DEF ScanFor, R
  <2>3. s \in defined
    BY <1>3a, <1>10
  <2> HIDE DEF judged, D
  <2> QED
    BY <2>1, <2>2, <2>3
<1> HIDE DEF judged, heads, D, new
<1>11. /\ made \in ScanSet /\ made.upTo = L /\ made.tokens = <<k>> /\ made.judged = judged /\ made.heads = heads
       /\ made.known = scan.known
  <2>1. <<k>> \in Seq(Nat)
    OBVIOUS
  <2> QED
    BY <1>1, <1>3, <1>7, <1>8, <2>1 DEF ScanSet
<1>12. ScanFor(F, made, rules, S)
  <2>1. made.known \subseteq rules \cup S
    BY <1>3, <1>11 DEF ScanFor
  <2>2. rules \cup made.known = R
    BY <1>11 DEF R
  <2> QED
    BY <1>6, <1>9, <1>10, <1>11, <2>1, <2>2 DEF ScanFor
<1> HIDE DEF made, u
<1>13. u \in FlatTables /\ u.facts = F /\ u.scan = made
  BY <1>1, <1>2, <1>11 DEF FlatTables, F
<1>14. FlatSound(u, n)
  <2>1. \A f \in Facts(u) : Compact(u.facts[f])
    BY <1>13 DEF FlatSound, Facts, F
  <2>2. u.scan.upTo <= Len(u.facts)
    BY <1>1, <1>11, <1>13 DEF L
  <2> QED
    BY <1>11, <1>13, <2>1, <2>2 DEF FlatSound
<1> QED
  BY <1>11, <1>12, <1>13, <1>14 DEF u, F, defined

-----------------------------------------------------------------------------
(* The inductive invariant.                                                *)

\* Worlds hold what their counts say; one stamp is one set of rules; a scan is right for every world of its stamp.
WorldsOK(ws, ts, n, S) ==
    /\ \A h \in Handles : StoreSound(ws[h], ts) /\ RulesSound(ws[h], ts, n)
    /\ \A h, k \in Handles : ws[h].ruleVersion = ws[k].ruleVersion => ws[h].rules = ws[k].rules
    /\ \A h \in Handles : \A i \in 1..Len(ts) :
         ts[i].scan.tokens = <<ws[h].ruleVersion>> => ScanFor(ts[i].facts, ts[i].scan, ws[h].rules, S)

VersionsInv == current \in [Handles -> VersionSet] /\ \A h \in Handles : VersionSound(current[h])

WorldsInv ==
    /\ world \in [Handles -> WorldSet] /\ stamps \in Nat
    /\ TablesSound(tables, stamps) /\ WorldsOK(world, tables, stamps, sigs)

IInv == VersionsInv /\ WorldsInv /\ sigs \subseteq Importable /\ changes \in 0..MaxChanges

LEMMA RuntimeAtomsIs == \A w : RuntimeAtoms(w) = Held(w, tables)
BY DEF RuntimeAtoms, Held, TableOf, TableAt

LEMMA DefinesIs ==
    /\ \A s \in Seq(Atom) : Defines(s) \subseteq Keys
    /\ \A s, b \in Seq(Atom) : Defines(s \o b) = Defines(s) \cup Defines(b)
    /\ Defines(<< >>) = {}
<1>1. \A s \in Seq(Atom) : \A y : y \in Defines(s) <=> \E i \in 1..Len(s) : s[i].head = Equals /\ s[i].nest # NoHead /\ s[i].nest = y
  BY DEF Defines, ToSet
<1>2. \A s \in Seq(Atom) : Defines(s) \subseteq Keys
  <2> SUFFICES ASSUME NEW s \in Seq(Atom), NEW y \in Defines(s) PROVE y \in Keys
    OBVIOUS
  <2>1. PICK i \in 1..Len(s) : s[i].nest = y
    BY <1>1
  <2>2. s[i] \in Atom
    BY ElementOfSeq
  <2> QED
    BY <2>1, <2>2 DEF Atom, Keys
<1>3. ASSUME NEW s \in Seq(Atom), NEW b \in Seq(Atom) PROVE Defines(s \o b) = Defines(s) \cup Defines(b)
  <2> DEFINE c == s \o b
             n == Len(s)
             k == Len(b)
  <2>1. /\ c \in Seq(Atom) /\ Len(c) = n + k /\ n \in Nat /\ k \in Nat
        /\ \A i \in 1..n + k : c[i] = IF i <= n THEN s[i] ELSE b[i - n]
    BY ConcatProperties, LenProperties
  <2> HIDE DEF c
  <2>2. \A y : y \in Defines(s) <=> \E i \in 1..n : s[i].head = Equals /\ s[i].nest # NoHead /\ s[i].nest = y
    BY <1>1
  <2>3. \A y : y \in Defines(b) <=> \E i \in 1..k : b[i].head = Equals /\ b[i].nest # NoHead /\ b[i].nest = y
    BY <1>1
  <2>4. \A y : y \in Defines(c) <=> \E i \in 1..n + k : c[i].head = Equals /\ c[i].nest # NoHead /\ c[i].nest = y
    <3>1. c \in Seq(Atom)
      BY <2>1
    <3>2. \A y : y \in Defines(c) <=> \E i \in 1..Len(c) : c[i].head = Equals /\ c[i].nest # NoHead /\ c[i].nest = y
      BY <1>1, <3>1
    <3>3. Len(c) = n + k
      BY <2>1
    <3> QED
      BY <3>2, <3>3
  <2> HIDE DEF n, k
  <2>5. /\ \A i \in 1..n : i \in 1..n + k /\ c[i] = s[i]
        /\ \A i \in 1..k : n + i \in 1..n + k /\ c[n + i] = b[i]
    <3>1. \A i \in 1..n : i \in 1..n + k /\ i <= n
      BY <2>1
    <3>2. \A i \in 1..k : n + i \in 1..n + k /\ ~ (n + i <= n) /\ n + i - n = i
      BY <2>1
    <3> QED
      BY <2>1, <3>1, <3>2
  <2>6. \A i \in 1..n + k : (i \in 1..n /\ c[i] = s[i]) \/ (i - n \in 1..k /\ c[i] = b[i - n])
    <3>1. \A i \in 1..n + k : (i \in 1..n /\ i <= n) \/ (i - n \in 1..k /\ ~ (i <= n))
      BY <2>1
    <3> QED
      BY <2>1, <3>1
  <2>7. \A y : y \in Defines(c) <=> y \in Defines(s) \/ y \in Defines(b)
    BY <2>2, <2>3, <2>4, <2>5, <2>6
  <2> QED
    BY <2>7 DEF c
<1>4. Defines(<< >>) = {}
  BY DEF Defines, ToSet
<1> QED
  BY <1>2, <1>3, <1>4

Restamp(w, R, v) == [w EXCEPT !.rules = R, !.ruleVersion = v]

\* New rules and a new stamp change nothing else.
LEMMA RestampSound ==
    ASSUME NEW w, NEW ts, StoreSound(w, ts), NEW R \in SUBSET Keys, NEW v \in Nat
    PROVE  /\ StoreSound(Restamp(w, R, v), ts) /\ Held(Restamp(w, R, v), ts) = Held(w, ts)
           /\ Restamp(w, R, v).rules = R /\ Restamp(w, R, v).ruleVersion = v
<1> DEFINE u == Restamp(w, R, v)
<1>1. w \in WorldSet
  BY DEF StoreSound
<1>2. /\ u \in WorldSet /\ u.table = w.table /\ u.ranges = w.ranges /\ u.dead = w.dead /\ u.live = w.live
      /\ u.nonGround = w.nonGround /\ u.log = w.log /\ u.rules = R /\ u.ruleVersion = v
  BY <1>1 DEF WorldSet, Restamp
<1> HIDE DEF u
<1>3. Flat(u) = Flat(w) /\ TableAt(u, ts) = TableAt(w, ts) /\ Visible(u) = Visible(w)
  BY <1>2 DEF Flat, TableAt, Visible
<1>4. Live(u) = Live(w)
  BY <1>2, <1>3 DEF Live
<1>5. General(u, ts) = General(w, ts) /\ Held(u, ts) = Held(w, ts)
  BY <1>2, <1>3, <1>4 DEF General, Held
<1>6. StoreSound(u, ts)
  BY <1>2, <1>3, <1>4, <1>5 DEF StoreSound
<1> QED
  BY <1>2, <1>5, <1>6 DEF u

LEMMA EmptyWorldSound ==
    ASSUME NEW ts, NEW n, TablesSound(ts, n)
    PROVE  EmptyWorld \in WorldSet /\ StoreSound(EmptyWorld, ts) /\ Held(EmptyWorld, ts) = << >>
<1>1. EmptyWorld \in WorldSet
  <2>1. << >> \in Seq(Nat \X Nat) /\ << >> \in Seq(Atom) /\ {} \in SUBSET Nat /\ {} \in SUBSET Keys /\ 0 \in Nat
    OBVIOUS
  <2> QED
    BY <2>1 DEF EmptyWorld, WorldSet
<1>2. EmptyWorld.table = 0 /\ EmptyWorld.ranges = << >> /\ EmptyWorld.dead = {} /\ EmptyWorld.live = 0
      /\ EmptyWorld.nonGround = 0 /\ EmptyWorld.log = << >>
  BY DEF EmptyWorld
<1> QED
  BY <1>1, <1>2, LogSound

LEMMA TablesLater ==
    ASSUME NEW ts, NEW n \in Nat, TablesSound(ts, n)
    PROVE  TablesSound(ts, n + 1)
<1>1. 0..n \subseteq 0..n + 1
  OBVIOUS
<1> QED
  BY <1>1 DEF TablesSound

\* A scan of what a table held is right for what it holds.
LEMMA ScansGrow ==
    ASSUME NEW ts, NEW us, NEW n, TablesSound(ts, n), Grows(ts, us), ScansStay(ts, us),
           NEW i \in 1..Len(us), NEW k, us[i].scan.tokens = <<k>>
    PROVE  /\ i \in 1..Len(ts) /\ ts[i].scan.tokens = <<k>>
           /\ \A rules, Z : ScanFor(ts[i].facts, ts[i].scan, rules, Z) => ScanFor(us[i].facts, us[i].scan, rules, Z)
<1>1. i \in 1..Len(ts) /\ us[i].scan = ts[i].scan
  <2>1. Len(<<k>>) = 1 /\ Len(<< >>) = 0
    OBVIOUS
  <2>2. us[i].scan.tokens # << >>
    BY <2>1
  <2> QED
    BY <2>2 DEF ScansStay
<1>2. ts[i] \in FlatTables /\ ts[i].scan.upTo <= Len(ts[i].facts)
  BY <1>1 DEF TablesSound
<1>3. Facts(ts[i]) = 1..Len(ts[i].facts) /\ Len(ts[i].facts) \in Nat /\ ts[i].scan.upTo \in Nat
  BY <1>2 DEF FlatTables, ScanSet, Facts
<1>4. \A f \in 1..ts[i].scan.upTo : us[i].facts[f] = ts[i].facts[f]
  <2>1. \A f \in 1..ts[i].scan.upTo : f \in Facts(ts[i])
    <3> DEFINE a == ts[i].scan.upTo
               b == Len(ts[i].facts)
    <3>1. a \in Nat /\ b \in Nat /\ a <= b
      BY <1>2, <1>3
    <3> HIDE DEF a, b
    <3>2. \A f \in 1..a : f \in 1..b
      BY <3>1
    <3> QED
      BY <1>3, <3>2 DEF a, b
  <2> QED
    BY <1>1, <2>1 DEF Grows
<1> QED
  BY <1>1, <1>4 DEF ScanFor

\* The stamp of a changed world: kept with its rules, or new.
Restamped(w, u, n, m) ==
    (u.ruleVersion = w.ruleVersion /\ u.rules = w.rules /\ m = n) \/ (u.ruleVersion = n + 1 /\ m = n + 1)

\* One world changes, and with it the table it is in.
LEMMA WorldsStep ==
    ASSUME NEW ws, ws \in [Handles -> WorldSet], NEW ts, NEW n \in Nat, NEW S, TablesSound(ts, n), WorldsOK(ws, ts, n, S),
           NEW us, TablesSound(us, n), Grows(ts, us), ScansStay(ts, us),
           NEW h \in Handles, NEW u, StoreSound(u, us), u.rules = Defines(Held(u, us)),
           NEW m, Restamped(ws[h], u, n, m)
    PROVE  /\ [ws EXCEPT ![h] = u] \in [Handles -> WorldSet] /\ m \in Nat
           /\ TablesSound(us, m) /\ WorldsOK([ws EXCEPT ![h] = u], us, m, S)
<1> DEFINE vs == [ws EXCEPT ![h] = u]
<1>1. u \in WorldSet
  BY DEF StoreSound
<1>2. vs \in [Handles -> WorldSet] /\ vs[h] = u /\ \A k \in Handles : k # h => vs[k] = ws[k]
  BY <1>1
<1> HIDE DEF vs
<1>3. m \in Nat /\ 0..n \subseteq 0..m /\ TablesSound(us, m)
  BY TablesLater DEF Restamped
<1>4. \A k \in Handles : StoreSound(ws[k], ts) /\ ws[k].rules = Defines(Held(ws[k], ts)) /\ ws[k].ruleVersion \in 0..n
  BY DEF WorldsOK, RulesSound
<1>5. u.ruleVersion \in 0..m
  <2>1. ws[h].ruleVersion \in 0..n
    BY <1>4
  <2> QED
    BY <2>1 DEF Restamped
<1>6. ASSUME NEW k \in Handles PROVE StoreSound(vs[k], us) /\ RulesSound(vs[k], us, m)
  <2>1. CASE k = h
    BY <1>2, <1>5, <2>1 DEF RulesSound
  <2>2. CASE k # h
    <3>1. StoreSound(ws[k], us) /\ Held(ws[k], us) = Held(ws[k], ts)
      BY <1>4, WorldGrows
    <3> QED
      BY <1>2, <1>3, <1>4, <2>2, <3>1 DEF RulesSound
  <2> QED
    BY <2>1, <2>2
\* A stamp is new, or stands for the rules it stood for.
<1>7. ASSUME NEW k \in Handles
      PROVE  \/ \E l \in Handles : vs[k].ruleVersion = ws[l].ruleVersion /\ vs[k].rules = ws[l].rules
             \/ k = h /\ vs[k].ruleVersion = n + 1
  <2>1. CASE k = h
    BY <1>2, <2>1 DEF Restamped
  <2>2. CASE k # h
    BY <1>2, <2>2
  <2> QED
    BY <2>1, <2>2
<1>8. \A k \in Handles : ws[k].ruleVersion # n + 1
  <2>1. \A x \in 0..n : x # n + 1
    OBVIOUS
  <2> QED
    BY <1>4, <2>1
<1>9. ASSUME NEW k \in Handles, NEW l \in Handles, vs[k].ruleVersion = vs[l].ruleVersion
      PROVE  vs[k].rules = vs[l].rules
  <2>1. \A x, y \in Handles : ws[x].ruleVersion = ws[y].ruleVersion => ws[x].rules = ws[y].rules
    BY DEF WorldsOK
  <2> QED
    BY <1>7, <1>8, <1>9, <2>1
<1>10. ASSUME NEW k \in Handles, NEW i \in 1..Len(us), us[i].scan.tokens = <<vs[k].ruleVersion>>
       PROVE  ScanFor(us[i].facts, us[i].scan, vs[k].rules, S)
  <2>1. /\ i \in 1..Len(ts) /\ ts[i].scan.tokens = <<vs[k].ruleVersion>>
        /\ \A rules, Z : ScanFor(ts[i].facts, ts[i].scan, rules, Z) => ScanFor(us[i].facts, us[i].scan, rules, Z)
    BY <1>10, ScansGrow
  <2>2. CASE \E l \in Handles : vs[k].ruleVersion = ws[l].ruleVersion /\ vs[k].rules = ws[l].rules
    <3>1. PICK l \in Handles : vs[k].ruleVersion = ws[l].ruleVersion /\ vs[k].rules = ws[l].rules
      BY <2>2
    <3>2. ScanFor(ts[i].facts, ts[i].scan, ws[l].rules, S)
      BY <2>1, <3>1 DEF WorldsOK
    <3> QED
      BY <2>1, <3>1, <3>2
  <2>3. CASE vs[k].ruleVersion = n + 1
    <3>1. PICK x \in 0..n : ts[i].scan.tokens = <<x>>
      <4>1. Len(<<vs[k].ruleVersion>>) = 1 /\ Len(<< >>) = 0
        OBVIOUS
      <4>2. ts[i].scan.tokens # << >>
        BY <2>1, <4>1
      <4> QED
        BY <2>1, <4>2 DEF TablesSound
    <3>2. x = n + 1
      <4>1. <<x>>[1] = x /\ <<vs[k].ruleVersion>>[1] = vs[k].ruleVersion
        OBVIOUS
      <4> QED
        BY <2>1, <2>3, <3>1, <4>1
    <3> QED
      BY <3>2
  <2> QED
    BY <1>7, <2>2, <2>3
<1> QED
  BY <1>2, <1>3, <1>6, <1>9, <1>10 DEF WorldsOK, vs

LEMMA StaysItself ==
    ASSUME NEW ts, NEW n, TablesSound(ts, n)
    PROVE  Grows(ts, ts) /\ ScansStay(ts, ts)
<1>1. Len(ts) \in Nat /\ \A j \in 1..Len(ts) : ts[j] \in FlatTables
  BY DEF TablesSound
<1>2. \A j \in 1..Len(ts) : Len(ts[j].facts) \in Nat
  BY <1>1 DEF FlatTables
<1> QED
  BY <1>1, <1>2 DEF Grows, ScansStay

\* Rules indexed again are those of the atoms.
LEMMA ReindexedSound ==
    ASSUME NEW w, StoreSound(w, tables), TablesSound(tables, stamps), stamps \in Nat
    PROVE  LET u == Reindexed(w)
           IN  /\ StoreSound(u, tables) /\ Held(u, tables) = Held(w, tables)
               /\ u.rules = Defines(Held(u, tables)) /\ u.ruleVersion = stamps + 1
<1> DEFINE R == Defines(Held(w, tables))
           v == stamps + 1
           u == Restamp(w, R, v)
<1>1. R \in SUBSET Keys
  <2>1. Held(w, tables) \in Seq(Atom)
    BY HeldIs
  <2> QED
    BY <2>1, DefinesIs
<1>2. Reindexed(w) = u
  BY RuntimeAtomsIs DEF Reindexed, Restamp
<1>3. v \in Nat
  OBVIOUS
<1>4. StoreSound(u, tables) /\ Held(u, tables) = Held(w, tables) /\ u.rules = R /\ u.ruleVersion = v
  <2> HIDE DEF R, v
  <2> QED
    BY <1>1, <1>3, RestampSound
<1> HIDE DEF u
<1> QED
  BY <1>2, <1>4 DEF R

-----------------------------------------------------------------------------
(* Every step keeps the invariant.                                         *)

LEMMA Inputs == (\A batch \in Batches : batch \in Seq(Atom) /\ batch # << >>) /\ \A p \in Patterns : p \in Atom
BY BackendsAssumption

LEMMA InitInv == Init => IInv
<1> SUFFICES ASSUME Init PROVE IInv
  OBVIOUS
<1>1. VersionsInv
  BY EmptyVersionSound DEF Init, VersionsInv, VersionSound
<1>2. TablesSound(tables, stamps) /\ Len(tables) = 0 /\ stamps = 0
  <2>1. << >> \in Seq(FlatTables) /\ Len(<< >>) = 0 /\ \A i \in 1..0 : FALSE
    OBVIOUS
  <2> QED
    BY <2>1 DEF Init, TablesSound
<1>3. EmptyWorld \in WorldSet /\ StoreSound(EmptyWorld, tables) /\ Held(EmptyWorld, tables) = << >>
  BY <1>2, EmptyWorldSound
<1>4. EmptyWorld.rules = {} /\ EmptyWorld.ruleVersion = 0
  BY DEF EmptyWorld
<1>5. world \in [Handles -> WorldSet] /\ \A h \in Handles : world[h] = EmptyWorld
  BY <1>3 DEF Init
<1>6. \A h \in Handles : RulesSound(world[h], tables, stamps)
  <2>1. Defines(<< >>) = {} /\ 0 \in 0..0
    BY DefinesIs
  <2> QED
    BY <1>2, <1>3, <1>4, <1>5, <2>1 DEF RulesSound
<1>7. WorldsOK(world, tables, stamps, sigs)
  <2>1. \A i \in 1..Len(tables) : FALSE
    BY <1>2
  <2> QED
    BY <1>3, <1>5, <1>6, <2>1 DEF WorldsOK
<1>8. sigs \subseteq Importable /\ changes \in 0..MaxChanges
  BY BackendsAssumption DEF Init
<1> QED
  BY <1>1, <1>2, <1>5, <1>7, <1>8 DEF IInv, WorldsInv

LEMMA ChangeBound ==
    ASSUME changes \in 0..MaxChanges, Change
    PROVE  changes' \in 0..MaxChanges
<1>1. MaxChanges \in Nat
  BY BackendsAssumption
<1> QED
  BY <1>1 DEF Change

LEMMA AddInv ==
    ASSUME IInv, NEW h \in Handles, NEW batch \in Batches, Add(h, batch)
    PROVE  /\ IInv'
           /\ current' = [current EXCEPT ![h] = current'[h]] /\ VersionAtoms(current'[h]) = VersionAtoms(current[h]) \o batch
           /\ world' = [world EXCEPT ![h] = world'[h]] /\ Held(world'[h], tables') = Held(world[h], tables) \o batch
           /\ \A k \in Handles : k # h => Held(world'[k], tables') = Held(world[k], tables)
<1>1. batch \in Seq(Atom) /\ batch # << >>
  BY Inputs
<1>2. VersionsInv /\ WorldsInv /\ sigs \subseteq Importable /\ changes \in 0..MaxChanges
  BY DEF IInv
<1> DEFINE v == VersionAddAll(current[h], batch)
           w == world[h]
           s == Stored(w, batch)
           u == Indexed(s.to, batch)
           us == s.tables
           n == stamps
           m == IF HasEquation(batch) THEN n + 1 ELSE n
<1>3. /\ current' = [current EXCEPT ![h] = v] /\ world' = [world EXCEPT ![h] = u] /\ tables' = us /\ stamps' = m
      /\ sigs' = sigs /\ Change
  BY DEF Add, AppendSpace
<1>4. VersionSound(v) /\ VersionAtoms(v) = VersionAtoms(current[h]) \o batch
  BY <1>1, <1>2, VersionAddAllSound DEF VersionsInv
<1>5. current' \in [Handles -> VersionSet] /\ current'[h] = v /\ \A k \in Handles : VersionSound(current'[k])
  <2> HIDE DEF v
  <2> QED
    BY <1>2, <1>3, <1>4 DEF VersionsInv, VersionSound
<1>6. /\ world \in [Handles -> WorldSet] /\ n \in Nat /\ TablesSound(tables, n) /\ WorldsOK(world, tables, n, sigs)
      /\ StoreSound(w, tables) /\ w.rules = Defines(Held(w, tables)) /\ w.ruleVersion \in 0..n
  BY <1>2 DEF WorldsInv, WorldsOK, RulesSound
<1>7. /\ TablesSound(us, n) /\ Grows(tables, us) /\ ScansStay(tables, us)
      /\ StoreSound(s.to, us) /\ Held(s.to, us) = Held(w, tables) \o batch
      /\ s.to.rules = w.rules /\ s.to.ruleVersion = w.ruleVersion
  BY <1>1, <1>6, StoredSound
<1>8. Held(w, tables) \in Seq(Atom)
  BY <1>6, HeldIs
<1> DEFINE R == w.rules \cup Defines(batch)
           rv == IF HasEquation(batch) THEN n + 1 ELSE w.ruleVersion
<1>9. u = Restamp(s.to, R, rv)
  BY <1>7 DEF Indexed, Restamp
<1>10. R = Defines(Held(w, tables) \o batch) /\ R \in SUBSET Keys
  <2>1. Held(w, tables) \o batch \in Seq(Atom)
    BY <1>1, <1>8
  <2> QED
    BY <1>1, <1>6, <1>8, <2>1, DefinesIs
<1>11. rv \in Nat
  BY <1>6
<1> HIDE DEF s, us, u, R, rv, w
<1>12. StoreSound(u, us) /\ Held(u, us) = Held(s.to, us) /\ u.rules = R /\ u.ruleVersion = rv
  BY <1>7, <1>9, <1>10, <1>11, RestampSound
<1>13. u.rules = Defines(Held(u, us))
  BY <1>7, <1>10, <1>12
<1>14. Restamped(world[h], u, n, m)
  <2>1. CASE HasEquation(batch)
    BY <1>12, <2>1 DEF Restamped, rv
  <2>2. CASE ~ HasEquation(batch)
    <3>1. R = w.rules
      BY <2>2 DEF R, HasEquation
    <3> QED
      BY <1>12, <2>2, <3>1 DEF Restamped, rv, w
  <2> QED
    BY <2>1, <2>2
<1> HIDE DEF m, n
<1>15. /\ [world EXCEPT ![h] = u] \in [Handles -> WorldSet] /\ m \in Nat
       /\ TablesSound(us, m) /\ WorldsOK([world EXCEPT ![h] = u], us, m, sigs)
  BY <1>6, <1>7, <1>12, <1>13, <1>14, WorldsStep
<1>16. WorldsInv' /\ VersionsInv'
  BY <1>3, <1>5, <1>15 DEF WorldsInv, VersionsInv
<1>17. IInv'
  BY <1>2, <1>3, <1>16, ChangeBound DEF IInv
<1>18. world'[h] = u /\ \A k \in Handles : k # h => world'[k] = world[k]
  BY <1>3, <1>6
<1>19. Held(world'[h], tables') = Held(world[h], tables) \o batch
  BY <1>3, <1>7, <1>12, <1>18 DEF w
<1>20. ASSUME NEW k \in Handles, k # h PROVE Held(world'[k], tables') = Held(world[k], tables)
  <2>1. StoreSound(world[k], tables)
    BY <1>6 DEF WorldsOK
  <2> QED
    BY <1>3, <1>6, <1>7, <1>18, <1>20, <2>1, WorldGrows
<1> QED
  BY <1>3, <1>4, <1>5, <1>17, <1>18, <1>19, <1>20

LEMMA RemoveInv ==
    ASSUME IInv, NEW h \in Handles, NEW a \in Patterns, RemoveOne(h, a)
    PROVE  /\ IInv'
           /\ current' = [current EXCEPT ![h] = current'[h]]
           /\ VersionAtoms(current'[h]) = RemoveFirstAlike("value", VersionAtoms(current[h]), a)
           /\ world' = [world EXCEPT ![h] = world'[h]] /\ tables' = tables
           /\ \E by \in {"value", "term"} : Held(world'[h], tables') = RemoveFirstAlike(by, Held(world[h], tables), a)
<1>1. a \in Atom
  BY Inputs
<1>2. VersionsInv /\ WorldsInv /\ sigs \subseteq Importable /\ changes \in 0..MaxChanges
  BY DEF IInv
<1> DEFINE v == VersionRemove(current[h], a)
           w == world[h]
           u == Removed(w, a)
           z == Reindexed(u)
           n == stamps
<1>3. /\ current' = [current EXCEPT ![h] = v] /\ tables' = tables /\ sigs' = sigs /\ Change
      /\ u = w => world' = world /\ stamps' = n
      /\ u # w => world' = [world EXCEPT ![h] = z] /\ stamps' = n + 1
  BY DEF RemoveOne
<1>4. VersionSound(v) /\ VersionAtoms(v) = RemoveFirstAlike("value", VersionAtoms(current[h]), a)
  BY <1>1, <1>2, VersionRemoveSound DEF VersionsInv
<1>5. current' \in [Handles -> VersionSet] /\ current'[h] = v /\ \A k \in Handles : VersionSound(current'[k])
  <2> HIDE DEF v
  <2> QED
    BY <1>2, <1>3, <1>4 DEF VersionsInv, VersionSound
<1>6. /\ world \in [Handles -> WorldSet] /\ n \in Nat /\ TablesSound(tables, n) /\ WorldsOK(world, tables, n, sigs)
      /\ StoreSound(w, tables)
  BY <1>2 DEF WorldsInv, WorldsOK
<1>7. Removes(w, tables, a, u)
  BY <1>1, <1>6, RemovedSound
<1>8. StoreSound(u, tables) /\ \E by \in {"value", "term"} : Held(u, tables) = RemoveFirstAlike(by, Held(w, tables), a)
  BY <1>7 DEF Removes
<1> HIDE DEF u, v
<1>9. StoreSound(z, tables) /\ Held(z, tables) = Held(u, tables) /\ z.rules = Defines(Held(z, tables)) /\ z.ruleVersion = n + 1
  BY <1>6, <1>8, ReindexedSound
<1> HIDE DEF z
<1>10. Grows(tables, tables) /\ ScansStay(tables, tables)
  BY <1>6, StaysItself
<1>11. u # w => [world EXCEPT ![h] = z] \in [Handles -> WorldSet] /\ TablesSound(tables, n + 1)
                /\ WorldsOK([world EXCEPT ![h] = z], tables, n + 1, sigs) /\ n + 1 \in Nat
  <2> DEFINE m == n + 1
  <2>1. Restamped(world[h], z, n, m)
    BY <1>9 DEF Restamped
  <2> HIDE DEF m, n
  <2> QED
    BY <1>6, <1>9, <1>10, <2>1, WorldsStep DEF m
<1>12. WorldsInv' /\ VersionsInv'
  <2>1. VersionsInv'
    BY <1>5 DEF VersionsInv
  <2>2. CASE u = w
    BY <1>3, <1>6, <2>1, <2>2 DEF WorldsInv
  <2>3. CASE u # w
    BY <1>3, <1>11, <2>1, <2>3 DEF WorldsInv
  <2> QED
    BY <2>2, <2>3
<1>13. IInv'
  BY <1>2, <1>3, <1>12, ChangeBound DEF IInv
<1>14. world' = [world EXCEPT ![h] = world'[h]] /\ Held(world'[h], tables') = Held(u, tables)
  <2>1. CASE u = w
    BY <1>3, <1>6, <2>1
  <2>2. CASE u # w
    BY <1>3, <1>6, <1>9, <2>2
  <2> QED
    BY <2>1, <2>2
<1> QED
  BY <1>3, <1>4, <1>5, <1>8, <1>13, <1>14

LEMMA ClearInv ==
    ASSUME IInv, NEW h \in Handles, Clear(h)
    PROVE  /\ IInv'
           /\ current' = [current EXCEPT ![h] = current'[h]] /\ VersionAtoms(current'[h]) = << >>
           /\ world' = [world EXCEPT ![h] = world'[h]] /\ tables' = tables /\ Held(world'[h], tables') = << >>
<1>1. VersionsInv /\ WorldsInv /\ sigs \subseteq Importable /\ changes \in 0..MaxChanges
  BY DEF IInv
<1> DEFINE z == Reindexed(EmptyWorld)
           n == stamps
           m == n + 1
<1>2. /\ current' = [current EXCEPT ![h] = EmptyVersion] /\ world' = [world EXCEPT ![h] = z]
      /\ stamps' = m /\ tables' = tables /\ sigs' = sigs /\ Change
  BY DEF Clear
<1>3. VersionSound(EmptyVersion) /\ VersionAtoms(EmptyVersion) = << >>
  <2>1. Lists(VersionAtoms(EmptyVersion), DOMAIN EmptyVersion.entries.root, EmptyVersion.entries.root)
    BY EmptyVersionSound, VersionLists
  <2> QED
    BY <2>1, EmptyVersionSound, ListsNothing
<1>4. current' \in [Handles -> VersionSet] /\ current'[h] = EmptyVersion /\ \A k \in Handles : VersionSound(current'[k])
  BY <1>1, <1>2, <1>3 DEF VersionsInv, VersionSound
<1>5. /\ world \in [Handles -> WorldSet] /\ n \in Nat /\ TablesSound(tables, n) /\ WorldsOK(world, tables, n, sigs)
  BY <1>1 DEF WorldsInv
<1>6. StoreSound(EmptyWorld, tables) /\ Held(EmptyWorld, tables) = << >>
  BY <1>5, EmptyWorldSound
<1>7. StoreSound(z, tables) /\ Held(z, tables) = << >> /\ z.rules = Defines(Held(z, tables)) /\ z.ruleVersion = m
  BY <1>5, <1>6, ReindexedSound
<1> HIDE DEF z
<1>8. Grows(tables, tables) /\ ScansStay(tables, tables)
  BY <1>5, StaysItself
<1>9. [world EXCEPT ![h] = z] \in [Handles -> WorldSet] /\ TablesSound(tables, m)
      /\ WorldsOK([world EXCEPT ![h] = z], tables, m, sigs) /\ m \in Nat
  <2>1. Restamped(world[h], z, n, m)
    BY <1>7 DEF Restamped
  <2> HIDE DEF m, n
  <2> QED
    BY <1>5, <1>7, <1>8, <2>1, WorldsStep
<1>10. WorldsInv' /\ VersionsInv'
  BY <1>2, <1>4, <1>9 DEF WorldsInv, VersionsInv
<1>11. IInv'
  BY <1>1, <1>2, <1>10, ChangeBound DEF IInv
<1>12. world'[h] = z
  BY <1>2, <1>5
<1> QED
  BY <1>2, <1>3, <1>4, <1>7, <1>11, <1>12

LEMMA BecomeInv ==
    ASSUME IInv, NEW h \in Handles, NEW k \in Handles, Become(h, k)
    PROVE  /\ IInv'
           /\ current' = [current EXCEPT ![h] = current[k]]
           /\ world' = [world EXCEPT ![h] = world[k]] /\ tables' = tables
<1>1. VersionsInv /\ WorldsInv /\ sigs \subseteq Importable /\ changes \in 0..MaxChanges
  BY DEF IInv
<1>2. /\ current' = [current EXCEPT ![h] = current[k]] /\ world' = [world EXCEPT ![h] = world[k]]
      /\ tables' = tables /\ sigs' = sigs /\ stamps' = stamps /\ changes' = changes
  BY DEF Become
<1>3. VersionsInv'
  BY <1>1, <1>2 DEF VersionsInv
<1>4. world \in [Handles -> WorldSet] /\ WorldsOK(world, tables, stamps, sigs)
  BY <1>1 DEF WorldsInv
<1> DEFINE ws == [world EXCEPT ![h] = world[k]]
<1>5. ws \in [Handles -> WorldSet] /\ \A l \in Handles : \E x \in Handles : ws[l] = world[x]
  BY <1>4
<1> HIDE DEF ws
<1>6. WorldsOK(ws, tables, stamps, sigs)
  <2>1. \A l \in Handles : StoreSound(ws[l], tables) /\ RulesSound(ws[l], tables, stamps)
    BY <1>4, <1>5 DEF WorldsOK
  <2>2. \A l, x \in Handles : ws[l].ruleVersion = ws[x].ruleVersion => ws[l].rules = ws[x].rules
    BY <1>4, <1>5 DEF WorldsOK
  <2>3. \A l \in Handles : \A i \in 1..Len(tables) :
          tables[i].scan.tokens = <<ws[l].ruleVersion>> => ScanFor(tables[i].facts, tables[i].scan, ws[l].rules, sigs)
    BY <1>4, <1>5 DEF WorldsOK
  <2> QED
    BY <2>1, <2>2, <2>3 DEF WorldsOK
<1>7. WorldsInv'
  BY <1>1, <1>2, <1>5, <1>6 DEF WorldsInv, ws
<1> QED
  BY <1>1, <1>2, <1>3, <1>7 DEF IInv

\* A table is scanned: what it holds stays.
LEMMA AskInv ==
    ASSUME IInv, NEW h \in Handles, AskSuspect(h)
    PROVE  /\ IInv'
           /\ current' = current /\ world' = world
           /\ \A k \in Handles : Held(world[k], tables') = Held(world[k], tables)
<1>1. VersionsInv /\ WorldsInv /\ sigs \subseteq Importable /\ changes \in 0..MaxChanges
  BY DEF IInv
<1> DEFINE w == world[h]
           i == w.table
           n == stamps
           k == w.ruleVersion
           defined == Defined(w)
           t == Scanned(tables[i], defined, <<k>>)
           us == TablePut(tables, i, t)
<1>2. /\ world \in [Handles -> WorldSet] /\ n \in Nat /\ TablesSound(tables, n) /\ WorldsOK(world, tables, n, sigs)
      /\ StoreSound(w, tables) /\ w.ruleVersion \in 0..n
  BY <1>1 DEF WorldsInv, WorldsOK, RulesSound
<1>3. i \in 1..Len(tables) /\ Flat(w)
  BY <1>2, TableAtIs DEF AskSuspect
<1>4. tables' = us /\ current' = current /\ world' = world /\ sigs' = sigs /\ stamps' = n /\ changes' = changes
  <2>1. tables' = [tables EXCEPT ![i] = t] /\ current' = current /\ world' = world /\ sigs' = sigs /\ stamps' = n /\ changes' = changes
    BY DEF AskSuspect
  <2>2. tables = [j \in 1..Len(tables) |-> tables[j]]
    BY <1>2 DEF TablesSound
  <2>3. ~ (i > Len(tables)) /\ Len(tables) \in Nat
    <3>1. Len(tables) \in Nat
      BY <1>2 DEF TablesSound
    <3> HIDE DEF i
    <3> QED
      BY <1>3, <3>1
  <2> HIDE DEF t, i
  <2>4. us = [j \in 1..Len(tables) |-> IF j = i THEN t ELSE tables[j]]
    BY <2>3 DEF TablePut
  <2>5. [tables EXCEPT ![i] = t] = [j \in 1..Len(tables) |-> IF j = i THEN t ELSE tables[j]]
    BY <2>2
  <2> QED
    BY <2>1, <2>4, <2>5
<1>5. FlatSound(tables[i], n)
  BY <1>2, <1>3 DEF TablesSound, FlatSound
<1>6. tables[i].scan.tokens = <<k>> => ScanFor(tables[i].facts, tables[i].scan, w.rules, sigs)
  BY <1>2, <1>3 DEF WorldsOK
<1>7. FlatSound(t, n) /\ t.facts = tables[i].facts /\ t.scan.tokens = <<k>> /\ ScanFor(t.facts, t.scan, w.rules, sigs)
  <2> DEFINE T == tables[i]
             R == w.rules
  <2>1. R \in SUBSET Keys /\ sigs \in SUBSET Keys /\ defined = R \cup sigs
    <3>1. sigs \subseteq Heads
      BY <1>1, BackendsAssumption
    <3>2. w \in WorldSet
      BY <1>2
    <3> QED
      BY <3>1, <3>2 DEF Defined, WorldSet, Keys
  <2>2. k \in 0..n /\ n \in Nat
    BY <1>2
  <2>3. FlatSound(T, n) /\ (T.scan.tokens = <<k>> => ScanFor(T.facts, T.scan, R, sigs))
    BY <1>5, <1>6
  <2> HIDE DEF T, R, defined, n, k
  <2>4. LET u == Scanned(T, R \cup sigs, <<k>>)
        IN  FlatSound(u, n) /\ u.facts = T.facts /\ u.scan.tokens = <<k>> /\ ScanFor(u.facts, u.scan, R, sigs)
    BY <2>1, <2>2, <2>3, ScannedSound
  <2> QED
    BY <2>1, <2>4 DEF T, R
<1> HIDE DEF t, us, defined
<1>8. TablesSound(us, n) /\ Grows(tables, us) /\ i \in 1..Len(us) /\ us[i] = t
      /\ \A j \in 1..Len(us) : j # i => j \in 1..Len(tables) /\ us[j] = tables[j]
  <2>1. i \in 1..Len(tables) + 1
    <3>1. Len(tables) \in Nat
      BY <1>2 DEF TablesSound
    <3> HIDE DEF i
    <3> QED
      BY <1>3, <3>1
  <2>2. Longer(tables[i], t)
    <3>1. Len(tables[i].facts) \in Nat
      BY <1>5 DEF FlatSound, FlatTables
    <3>2. \A f : t.facts[f] = tables[i].facts[f]
      BY <1>7
    <3>3. Len(tables[i].facts) <= Len(t.facts)
      BY <1>7, <3>1
    <3> QED
      BY <3>2, <3>3 DEF Longer
  <2> HIDE DEF i, n
  <2> QED
    BY <1>2, <1>7, <2>1, <2>2, TablesPut DEF IsPut, us
<1>9. \A l \in Handles : StoreSound(world[l], us) /\ Held(world[l], us) = Held(world[l], tables)
  <2>1. \A l \in Handles : StoreSound(world[l], tables)
    BY <1>2 DEF WorldsOK
  <2> QED
    BY <1>2, <1>8, <2>1, WorldGrows
<1>10. WorldsOK(world, us, n, sigs)
  <2>1. \A l \in Handles : RulesSound(world[l], us, n)
    BY <1>2, <1>9 DEF WorldsOK, RulesSound
  <2>2. \A l, x \in Handles : world[l].ruleVersion = world[x].ruleVersion => world[l].rules = world[x].rules
    BY <1>2 DEF WorldsOK
  <2>3. ASSUME NEW l \in Handles, NEW j \in 1..Len(us), us[j].scan.tokens = <<world[l].ruleVersion>>
        PROVE  ScanFor(us[j].facts, us[j].scan, world[l].rules, sigs)
    <3>1. CASE j = i
      <4>1. <<k>> = <<world[l].ruleVersion>>
        BY <1>7, <1>8, <2>3, <3>1
      <4>2. k = world[l].ruleVersion
        <5>1. <<k>>[1] = k /\ <<world[l].ruleVersion>>[1] = world[l].ruleVersion
          OBVIOUS
        <5> QED
          BY <4>1, <5>1
      <4>3. w.rules = world[l].rules
        BY <2>2, <4>2
      <4> QED
        BY <1>7, <1>8, <3>1, <4>3
    <3>2. CASE j # i
      <4>1. j \in 1..Len(tables) /\ us[j] = tables[j]
        BY <1>8, <3>2
      <4> QED
        BY <1>2, <2>3, <4>1 DEF WorldsOK
    <3> QED
      BY <3>1, <3>2
  <2> QED
    BY <1>9, <2>1, <2>2, <2>3 DEF WorldsOK
<1>11. WorldsInv' /\ VersionsInv'
  BY <1>1, <1>2, <1>4, <1>8, <1>10 DEF WorldsInv, VersionsInv
<1>12. IInv'
  BY <1>1, <1>4, <1>11 DEF IInv
<1> QED
  BY <1>4, <1>9, <1>12

LEMMA ImportInv ==
    ASSUME IInv, NEW f \in Importable, ImportSignature(f)
    PROVE  IInv' /\ current' = current /\ world' = world /\ tables' = tables
<1>1. current' = current /\ world' = world /\ tables' = tables /\ stamps' = stamps /\ changes' = changes /\ sigs' = sigs \cup {f}
  BY DEF ImportSignature
<1>2. WorldsOK(world, tables, stamps, sigs')
  <2>1. WorldsOK(world, tables, stamps, sigs)
    BY DEF IInv, WorldsInv
  <2>2. \A facts, scan, rules : ScanFor(facts, scan, rules, sigs) => ScanFor(facts, scan, rules, sigs')
    BY <1>1 DEF ScanFor
  <2> QED
    BY <2>1, <2>2 DEF WorldsOK
<1>3. sigs' \subseteq Importable
  BY <1>1 DEF IInv
<1> QED
  BY <1>1, <1>2, <1>3 DEF IInv, VersionsInv, WorldsInv

-----------------------------------------------------------------------------
(* Queries of a world.                                                     *)

LEMMA MatchesInIs ==
    ASSUME NEW p, NEW x \in Seq(Atom)
    PROVE  LET found == Filtered(x, {a \in ToSet(x) : Matches(p, a)})
           IN  /\ MatchesIn(p, x) = [i \in 1..Len(found) |-> Match(p, found[i])]
               /\ Len(MatchesIn(p, x)) = Len(found) /\ Len(found) \in Nat
               /\ \A i \in 1..Len(found) : \E j \in 1..Len(x) : found[i] = x[j]
<1> DEFINE S == {a \in ToSet(x) : Matches(p, a)}
           found == Filtered(x, S)
           I == 1..Len(x)
           J == {i \in I : x[i] \in S}
<1>1. Lists(x, I, x) /\ \A i \in I : x[i] \in Atom
  BY ListsSelf
<1> HIDE DEF S, I
<1>2. Lists(found, J, x)
  BY <1>1, ListsFiltered
<1>3. \A i \in J : x[i] \in Atom
  BY <1>1
<1> HIDE DEF J, found
<1>4. found \in Seq(Atom) /\ \A i \in 1..Len(found) : \E j \in J : found[i] = x[j]
  BY ONLY <1>2, <1>3, ListsFacts
<1>5. Len(found) \in Nat /\ DOMAIN found = 1..Len(found)
  BY <1>4
<1>6. MatchesIn(p, x) = [i \in 1..Len(found) |-> Match(p, found[i])]
  BY <1>5 DEF MatchesIn, found, S
<1>7. \A i \in 1..Len(found) : \E j \in 1..Len(x) : found[i] = x[j]
  BY <1>4 DEF J, I
<1>8. Len(MatchesIn(p, x)) = Len(found)
  BY <1>5, <1>6
<1> QED
  BY <1>5, <1>6, <1>7, <1>8 DEF found, S

\* How many a query finds is how many places of a listing hold a match.
LEMMA MatchesCount ==
    ASSUME NEW p, NEW x \in Seq(Atom), NEW I, NEW f, Lists(x, I, f)
    PROVE  Len(MatchesIn(p, x)) = Cardinality({i \in I : Matches(p, f[i])})
<1> DEFINE S == {a \in ToSet(x) : Matches(p, a)}
           J == {i \in I : f[i] \in S}
<1>1. Len(MatchesIn(p, x)) = Len(Filtered(x, S))
  BY MatchesInIs
<1>2. \A i \in I : f[i] \in ToSet(x)
  <2> DEFINE T == {f[i] : i \in I}
  <2>1. \A i \in I : f[i] \in T
    OBVIOUS
  <2>2. Lists(x, I, f)
    OBVIOUS
  <2> HIDE DEF T
  <2>3. x \in Seq(T) /\ \A i \in I : \E j \in 1..Len(x) : x[j] = f[i]
    BY ONLY <2>1, <2>2, ListsFacts
  <2> QED
    BY <2>3 DEF ToSet
<1>3. J = {i \in I : Matches(p, f[i])}
  BY <1>2
<1> DEFINE T == {f[i] : i \in J}
<1>4. \A i \in J : f[i] \in T
  OBVIOUS
<1> HIDE DEF S, T
<1>5. Lists(Filtered(x, S), J, f)
  BY ListsFiltered
<1> HIDE DEF J
<1>6. Filtered(x, S) \in Seq(T) /\ Len(Filtered(x, S)) = Cardinality(J)
  BY ONLY <1>4, <1>5, ListsFacts
<1> QED
  BY <1>1, <1>3, <1>6

LEMMA GroundMatches ==
    ASSUME NEW p \in Atom, NEW a \in Atom, Ground(p), Ground(a)
    PROVE  (Matches(p, a) <=> Same(a, p)) /\ Match(p, a) = p
<1>1. Same(p, a) <=> Same(a, p)
  BY DEF Same, SameLeaf
<1>2. Matches(p, a) <=> Same(p, a)
  BY DEF Matches, Ground, IsVariable, Same
<1> QED
  BY <1>1, <1>2 DEF Match

\* A world whose counts say so has no atom with a variable.
LEMMA NoVariables ==
    ASSUME NEW w, NEW ts, NEW n, StoreSound(w, ts), TablesSound(ts, n)
    PROVE  /\ w.nonGround = 0 => \A f \in Live(w) : Ground(TableAt(w, ts).facts[f])
           /\ NumNonGround(w.log) = 0 => \A i \in 1..Len(w.log) : Ground(w.log[i])
<1>1. IsFiniteSet(Live(w))
  BY HeldIs
<1>2. w.nonGround = 0 => General(w, ts) = {}
  <2>1. IsFiniteSet(General(w, ts))
    BY <1>1, FS_Subset DEF General
  <2> QED
    BY <2>1, FS_EmptySet DEF StoreSound
<1>3. NumNonGround(w.log) = 0 => \A i \in 1..Len(w.log) : Ground(w.log[i])
  <2> DEFINE N == 1..Len(w.log)
             G == {i \in N : ~ Ground(w.log[i])}
  <2>1. w.log \in Seq(Atom) /\ Len(w.log) \in Nat /\ DOMAIN w.log = N
    BY DEF StoreSound, WorldSet
  <2>2. IsFiniteSet(N)
    <3>1. 1 \in Int /\ Len(w.log) \in Int
      BY <2>1
    <3> QED
      BY <3>1, FS_Interval
  <2>3. NumNonGround(w.log) = Cardinality(G)
    BY <2>1 DEF NumNonGround
  <2> HIDE DEF N
  <2>4. IsFiniteSet(G)
    BY <2>2, FS_Subset
  <2>5. Cardinality(G) = 0 => G = {}
    <3> HIDE DEF G
    <3> QED
      BY <2>4, FS_EmptySet
  <2> QED
    BY <2>3, <2>5 DEF N
<1> QED
  BY <1>2, <1>3 DEF General

\* Facts are picked by an index that lists every one that matches.
LEMMA CandidatesExact ==
    ASSUME NEW w, NEW ts, NEW n, StoreSound(w, ts), TablesSound(ts, n), NEW p \in Atom
    PROVE  /\ MatchesIn(p, CandidatesFor(w, TableAt(w, ts), p)) = MatchesIn(p, AtomsOf(TableAt(w, ts), Live(w)))
           /\ CandidatesFor(w, TableAt(w, ts), p) \in Seq(Atom)
           /\ ~ Flat(w) => CandidatesFor(w, TableAt(w, ts), p) = << >>
<1> DEFINE T == TableAt(w, ts)
           F == T.facts
           L == Live(w)
           key == HeadKey(p)
           headed == {f \in L : HeadKey(F[f]) \in {key, NoHead}}
           admitted == IF p.nest # NoHead /\ w.nonGround = 0 THEN FactsForNested(T, key, p.nest) ELSE headed
           J == IF key = NoHead THEN L ELSE admitted \cap L
           x == AtomsOf(T, L)
           y == CandidatesFor(w, T, p)
<1>1. F \in Seq(Atom) /\ \A f \in Facts(T) : F[f] \in Atom
  BY TableAtIs
<1>2. L \subseteq Facts(T) /\ Lists(x, L, F) /\ (~ Flat(w) => L = {})
  BY HeldIs
<1>3. y = AtomsOf(T, J)
  BY DEF CandidatesFor
<1>4. J \subseteq L
  OBVIOUS
<1>5. w.nonGround = 0 => \A f \in L : Ground(F[f])
  BY NoVariables
<1>6. ASSUME NEW f \in L, Matches(p, F[f]) PROVE f \in J
  <2>1. F[f] \in Atom
    BY <1>1, <1>2
  <2>2. CASE key = NoHead
    BY <2>2
  <2>3. CASE key # NoHead /\ p.nest # NoHead /\ w.nonGround = 0
    <3>1. Ground(F[f])
      BY <1>5, <2>3
    <3>2. F[f].head = key
      BY <1>6, <2>1, <2>3, <3>1, MatchesHead DEF Matches, HeadKey, Ground
    <3>3. F[f].nest = p.nest
      BY <1>6, <2>3, <3>1 DEF Matches, IsVariable, Ground
    <3>4. f \in FactsForNested(T, key, p.nest)
      BY <1>2, <3>1, <3>2, <3>3 DEF FactsForNested
    <3> QED
      BY <2>3, <3>4
  <2>4. CASE key # NoHead /\ ~ (p.nest # NoHead /\ w.nonGround = 0)
    <3>1. HeadKey(F[f]) \in {key, NoHead}
      BY <1>6, <2>1, <2>4, MatchesHead
    <3> QED
      BY <2>4, <3>1
  <2> QED
    BY <2>2, <2>3, <2>4
<1> HIDE DEF T, F, L, J, x, y
<1>7. Lists(y, J, F)
  <2>1. J \subseteq Facts(T) /\ T.facts \in Seq(Atom)
    BY <1>1, <1>2, <1>4 DEF F
  <2> QED
    BY <1>3, <2>1, AtomsOfLists DEF F
<1>8. MatchesIn(p, x) = MatchesIn(p, y)
  <2>1. \A f \in L : F[f] \in Atom
    BY <1>1, <1>2
  <2>2. \A f \in L : Matches(p, F[f]) => f \in J
    BY <1>6
  <2> QED
    BY <1>2, <1>4, <1>7, <2>1, <2>2, SameMatches
<1>9. y \in Seq(Atom)
  <2>1. \A f \in J : F[f] \in Atom
    BY <1>1, <1>2, <1>4
  <2> QED
    BY ONLY <1>7, <2>1, ListsFacts
<1>10. ~ Flat(w) => y = << >>
  <2>1. ~ Flat(w) => J = {}
    BY <1>2, <1>4
  <2> QED
    BY <1>7, <2>1, ListsNothing
<1> QED
  BY <1>8, <1>9, <1>10 DEF x, y, T, L

\* Where no atom has a variable and what equals the pattern is the pattern, counting terms finds what matching would.
LEMMA ExactMatches ==
    ASSUME NEW w, NEW n, StoreSound(w, tables), TablesSound(tables, n), NEW p \in Atom, Exact(w, p), OneSpelling(w, p)
    PROVE  [i \in 1..(LogCount(w.log, p) + ExactCount(w, TableOf(w), p)) |-> p] = MatchesIn(p, Held(w, tables))
<1> DEFINE T == TableAt(w, tables)
           F == T.facts
           L == Live(w)
           x == Held(w, tables)
           y == MatchesIn(p, x)
           c == LogCount(w.log, p) + ExactCount(w, TableOf(w), p)
<1>1. /\ \A f \in Facts(T) : F[f] \in Atom
      /\ T = TableOf(w)
  BY TableAtIs DEF TableOf, TableAt
<1>2. /\ x \in Seq(Atom) /\ L \subseteq Facts(T) /\ IsFiniteSet(L) /\ Lists(AtomsOf(T, L), L, F)
      /\ Flat(w) => x = AtomsOf(T, L) /\ w.log = << >>
      /\ ~ Flat(w) => x = w.log /\ L = {}
  BY HeldIs
<1>3. Ground(p) /\ (\A f \in L : Ground(F[f])) /\ \A i \in 1..Len(w.log) : Ground(w.log[i])
  BY NoVariables DEF Exact
<1>4. \A f \in L : (Matches(p, F[f]) <=> F[f] = p) /\ Match(p, F[f]) = p
  <2>1. \A f \in L : Same(F[f], p) <=> F[f] = p
    <3>1. Same(p, p)
      BY DEF Same, SameLeaf
    <3> QED
      BY <1>1, <3>1 DEF OneSpelling
  <2> QED
    BY <1>1, <1>2, <1>3, <2>1, GroundMatches
<1>5. FactsForTerm(T, p) \cap L = {f \in L : F[f] = p}
  BY <1>2 DEF FactsForTerm
<1>6. ExactCount(w, TableOf(w), p) = Cardinality({f \in L : F[f] = p})
  BY <1>1, <1>5 DEF ExactCount
<1>7. Cardinality({}) = 0
  BY FS_EmptySet
<1> HIDE DEF T, F, L, x
<1>8. Len(y) = c /\ \A i \in 1..Len(x) : Match(p, x[i]) = p
  <2>1. CASE Flat(w)
    <3>1. Lists(x, L, F) /\ \A f \in L : F[f] \in Atom
      BY <1>1, <1>2, <2>1
    <3>2. Len(y) = Cardinality({f \in L : Matches(p, F[f])})
      BY <1>2, <3>1, MatchesCount
    <3>3. {f \in L : Matches(p, F[f])} = {f \in L : F[f] = p}
      BY <1>4
    <3>4. LogCount(w.log, p) = 0
      <4>1. {i \in DOMAIN << >> : Ground(<< >>[i]) /\ Same(<< >>[i], p)} = {}
        OBVIOUS
      <4> QED
        BY <1>2, <1>7, <2>1, <4>1 DEF LogCount
    <3>5. ExactCount(w, TableOf(w), p) \in Nat
      <4>1. IsFiniteSet({f \in L : F[f] = p})
        BY <1>2, FS_Subset
      <4> QED
        BY <1>6, <4>1, FS_CardinalityType
    <3>6. \A i \in 1..Len(x) : \E f \in L : x[i] = F[f]
      <4>1. x \in Seq(Atom) /\ \A i \in 1..Len(x) : \E f \in L : x[i] = F[f]
        BY ONLY <3>1, ListsFacts
      <4> QED
        BY <4>1
    <3>7. \A i \in 1..Len(x) : Match(p, x[i]) = p
      BY <1>4, <3>6
    <3>8. Len(y) = ExactCount(w, TableOf(w), p)
      BY <1>6, <3>2, <3>3
    <3>9. Len(y) = c
      BY ONLY <3>4, <3>5, <3>8
    <3> QED
      BY <3>7, <3>9
  <2>2. CASE ~ Flat(w)
    <3>1. x = w.log /\ L = {} /\ DOMAIN x = 1..Len(x)
      BY <1>2, <2>2
    <3> DEFINE I == 1..Len(x)
    <3>2. \A i \in I : x[i] \in Atom /\ Ground(x[i])
      BY <1>2, <1>3, <3>1
    <3>3. \A i \in I : (Matches(p, x[i]) <=> Same(x[i], p)) /\ Match(p, x[i]) = p
      BY <1>3, <3>2, GroundMatches
    <3>4. Lists(x, I, x)
      BY <1>2, ListsSelf
    <3>5. Len(y) = Cardinality({i \in I : Matches(p, x[i])})
      <4> HIDE DEF I
      <4> QED
        BY <1>2, <3>4, MatchesCount
    <3>6. {i \in I : Matches(p, x[i])} = {i \in DOMAIN x : Ground(x[i]) /\ Same(x[i], p)}
      BY <3>1, <3>2, <3>3
    <3>7. Len(y) = LogCount(w.log, p)
      BY <3>1, <3>5, <3>6 DEF LogCount
    <3>8. ExactCount(w, TableOf(w), p) = 0
      <4>1. {f \in L : F[f] = p} = {}
        BY <3>1
      <4> QED
        BY <1>6, <1>7, <4>1
    <3>9. Len(y) \in Nat
      BY <1>2, MatchesInIs
    <3> QED
      BY <3>3, <3>7, <3>8, <3>9
  <2> QED
    BY <2>1, <2>2
<1>9. y = [i \in 1..c |-> p]
  <2> DEFINE found == Filtered(x, {a \in ToSet(x) : Matches(p, a)})
  <2>1. /\ y = [i \in 1..Len(found) |-> Match(p, found[i])]
        /\ Len(y) = Len(found) /\ Len(found) \in Nat
        /\ \A i \in 1..Len(found) : \E j \in 1..Len(x) : found[i] = x[j]
    BY <1>2, MatchesInIs
  <2> HIDE DEF found, c, y
  <2>2. \A i \in 1..Len(found) : Match(p, found[i]) = p
    BY <1>8, <2>1
  <2> QED
    BY <1>8, <2>1, <2>2
<1> QED
  BY <1>9 DEF x

\* A query of the runtime atoms finds what a scan of all of them finds, a count only where one term equals the pattern.
LEMMA RuntimeMatchesExact ==
    ASSUME NEW w, NEW n, StoreSound(w, tables), TablesSound(tables, n), NEW p \in Atom,
           ~ Exact(w, p) \/ OneSpelling(w, p)
    PROVE  RuntimeMatches(w, p) = MatchesIn(p, Held(w, tables))
<1>1. CASE Exact(w, p)
  BY <1>1, ExactMatches DEF RuntimeMatches
<1>2. CASE ~ Exact(w, p)
  <2> DEFINE T == TableAt(w, tables)
             S == {a \in ToSet(w.log) : HeadKey(p) = NoHead \/ HeadKey(a) \in {HeadKey(p), NoHead}}
             y == CandidatesFor(w, T, p)
             z == Filtered(w.log, S)
             log == w.log
             J == {i \in 1..Len(log) : log[i] \in S}
  <2>1. RuntimeMatches(w, p) = MatchesIn(p, y \o z)
    <3>1. TableOf(w) = T
      BY DEF TableOf, TableAt
    <3> QED
      BY <1>2, <3>1 DEF RuntimeMatches, RuntimeCandidates
  <2>2. /\ MatchesIn(p, y) = MatchesIn(p, AtomsOf(T, Live(w))) /\ y \in Seq(Atom)
        /\ ~ Flat(w) => y = << >>
    BY CandidatesExact
  <2>3. /\ Flat(w) => Held(w, tables) = AtomsOf(T, Live(w)) /\ log = << >>
        /\ ~ Flat(w) => Held(w, tables) = log
    BY HeldIs
  <2>4. log \in Seq(Atom) /\ DOMAIN log = 1..Len(log) /\ \A i \in 1..Len(log) : log[i] \in Atom
    BY DEF StoreSound, WorldSet
  <2>5. Lists(log, 1..Len(log), log)
    BY <2>4, ListsSelf
  <2>6. \A i \in 1..Len(log) : Matches(p, log[i]) => i \in J
    <3> SUFFICES ASSUME NEW i \in 1..Len(log), Matches(p, log[i]) PROVE log[i] \in S
      OBVIOUS
    <3>1. log[i] \in ToSet(w.log)
      BY <2>4 DEF ToSet
    <3>2. HeadKey(p) = NoHead \/ HeadKey(log[i]) \in {HeadKey(p), NoHead}
      BY <2>4, MatchesHead
    <3> QED
      BY <3>1, <3>2
  <2>7. J \subseteq 1..Len(log)
    OBVIOUS
  <2> HIDE DEF T, S, y
  <2>8. Lists(z, J, log)
    BY <2>5, ListsFiltered
  <2> DEFINE I == 1..Len(log)
  <2>9. z \in Seq(Atom) /\ (log = << >> => z = << >>) /\ MatchesIn(p, log) = MatchesIn(p, z)
    <3>1. \A i \in J : log[i] \in Atom
      BY <2>4
    <3>2. log = << >> => J = {}
      OBVIOUS
    <3>3. (\A i \in I : log[i] \in Atom) /\ (\A i \in I : Matches(p, log[i]) => i \in J) /\ J \subseteq I /\ Lists(log, I, log)
      BY <2>4, <2>5, <2>6
    <3> HIDE DEF log, J, z, I
    <3>4. z \in Seq(Atom)
      BY ONLY <2>8, <3>1, ListsFacts
    <3>5. log = << >> => z = << >>
      BY <2>8, <3>2, ListsNothing
    <3>6. MatchesIn(p, log) = MatchesIn(p, z)
      BY <2>8, <3>3, SameMatches
    <3> QED
      BY <3>4, <3>5, <3>6
  <2> HIDE DEF z, log
  <2>10. y \o << >> = y /\ << >> \o z = z
    BY <2>2, <2>9
  <2> QED
    BY <2>1, <2>2, <2>3, <2>9, <2>10
<1> QED
  BY <1>1, <1>2

\* The counts of a world are those of its atoms.
LEMMA WorldCounts ==
    ASSUME NEW w, NEW n, StoreSound(w, tables), TablesSound(tables, n)
    PROVE  LET atoms == Held(w, tables)
               All(key) == [head |-> key, nest |-> NoHead, leaf |-> Var]
           IN  /\ Flat(w) => w.log = << >>
               /\ w.live + Len(w.log) = Len(atoms)
               /\ w.nonGround + NumNonGround(w.log) = NumNonGround(atoms)
               /\ Flat(w) => \A key \in Heads : CountHead(w, TableOf(w), key) = Len(MatchesIn(All(key), atoms))
<1> DEFINE T == TableAt(w, tables)
           F == T.facts
           L == Live(w)
           x == Held(w, tables)
           All(key) == [head |-> key, nest |-> NoHead, leaf |-> Var]
<1>1. TableOf(w) = T /\ \A f \in Facts(T) : F[f] \in Atom
  BY TableAtIs DEF TableOf, TableAt
<1>2. /\ x \in Seq(Atom) /\ L \subseteq Facts(T) /\ IsFiniteSet(L)
      /\ Flat(w) => x = AtomsOf(T, L) /\ w.log = << >> /\ Lists(x, L, F)
      /\ ~ Flat(w) => x = w.log /\ L = {}
  BY HeldIs
<1>3. w.live = Cardinality(L) /\ w.nonGround = Cardinality(General(w, tables)) /\ w \in WorldSet
  BY DEF StoreSound
<1>4. General(w, tables) = {f \in L : ~ Ground(F[f])}
  BY DEF General
<1>5. w.live \in Nat /\ w.nonGround \in Nat /\ w.log \in Seq(Atom) /\ Len(w.log) \in Nat
  BY <1>3 DEF WorldSet
<1>6. Cardinality({}) = 0 /\ Len(<< >>) = 0
  BY FS_EmptySet
<1>7. NumNonGround(<< >>) = 0
  <2>1. {i \in DOMAIN << >> : ~ Ground(<< >>[i])} = {}
    OBVIOUS
  <2> QED
    BY <1>6, <2>1 DEF NumNonGround
<1> HIDE DEF T, F, L, x
<1>8. CASE Flat(w)
  <2>1. Lists(x, L, F) /\ (\A f \in L : F[f] \in Atom) /\ w.log = << >>
    BY <1>1, <1>2, <1>8
  <2>2. x \in Seq(Atom) /\ Len(x) = Cardinality(L)
    BY ONLY <2>1, ListsFacts
  <2>3. NumNonGround(x) = Cardinality({f \in L : ~ Ground(F[f])})
    BY <2>1, NonGroundListed
  <2>4. ASSUME NEW key \in Heads PROVE CountHead(w, TableOf(w), key) = Len(MatchesIn(All(key), x))
    <3>1. Len(MatchesIn(All(key), x)) = Cardinality({f \in L : Matches(All(key), F[f])})
      <4> HIDE DEF All
      <4> QED
        BY <1>2, <2>1, MatchesCount
    <3>2. \A f \in L : Matches(All(key), F[f]) <=> F[f].head \in {key, Var}
      <4>1. key # Var
        BY AtomsAssumption
      <4> QED
        BY <4>1 DEF Matches, IsVariable
    <3>3. {f \in L : Matches(All(key), F[f])} = {f \in L : F[f].head \in {key, Var}}
      BY <3>2
    <3>4. CountHead(w, TableOf(w), key) = Cardinality({f \in L : F[f].head \in {key, Var}})
      BY <1>1 DEF CountHead, F, L
    <3> QED
      BY <3>1, <3>3, <3>4
  <2> HIDE DEF All
  <2>5. w.live + Len(w.log) = Len(x) /\ w.nonGround + NumNonGround(w.log) = NumNonGround(x)
    BY <1>3, <1>4, <1>5, <1>6, <1>7, <2>1, <2>2, <2>3
  <2> QED
    BY <2>1, <2>4, <2>5 DEF x, All
<1>9. CASE ~ Flat(w)
  <2>1. x = w.log /\ w.live = 0 /\ w.nonGround = 0
    BY <1>2, <1>9, LogFacts
  <2>2. NumNonGround(w.log) \in Nat
    <3>1. Lists(w.log, 1..Len(w.log), w.log) /\ DOMAIN w.log = 1..Len(w.log)
      BY <1>5, ListsSelf
    <3>2. IsFiniteSet(1..Len(w.log))
      <4>1. 1 \in Int /\ Len(w.log) \in Int
        BY <1>5
      <4> QED
        BY <4>1, FS_Interval
    <3> DEFINE N == 1..Len(w.log)
    <3>3. IsFiniteSet({i \in N : ~ Ground(w.log[i])})
      <4>1. IsFiniteSet(N)
        BY <3>2
      <4> HIDE DEF N
      <4> QED
        BY <4>1, FS_Subset
    <3>4. NumNonGround(w.log) = Cardinality({i \in N : ~ Ground(w.log[i])})
      BY <3>1 DEF NumNonGround
    <3> QED
      BY <3>3, <3>4, FS_CardinalityType
  <2> QED
    BY <1>5, <1>9, <2>1, <2>2 DEF x
<1> QED
  BY <1>8, <1>9

-----------------------------------------------------------------------------
(* What the invariant says of every reachable state.                       *)

LEMMA NextInv == IInv /\ [Next]_vars => IInv'
<1> SUFFICES ASSUME IInv, [Next]_vars PROVE IInv'
  OBVIOUS
<1>1. ASSUME NEW h \in Handles, NEW batch \in Batches, Add(h, batch) PROVE IInv'
  BY <1>1, AddInv
<1>2. ASSUME NEW h \in Handles, NEW a \in Patterns, RemoveOne(h, a) PROVE IInv'
  BY <1>2, RemoveInv
<1>3. ASSUME NEW h \in Handles, NEW k \in Handles, Become(h, k) PROVE IInv'
  BY <1>3, BecomeInv
<1>4. ASSUME NEW h \in Handles, Clear(h) PROVE IInv'
  BY <1>4, ClearInv
<1>5. ASSUME NEW h \in Handles, AskSuspect(h) PROVE IInv'
  BY <1>5, AskInv
<1>6. ASSUME NEW f \in Importable, ImportSignature(f) PROVE IInv'
  BY <1>6, ImportInv
<1>7. CASE UNCHANGED vars
  BY <1>7 DEF vars, IInv, VersionsInv, WorldsInv
<1> QED
  BY <1>1, <1>2, <1>3, <1>4, <1>5, <1>6, <1>7 DEF Next

\* The inductive invariant holds: every version of either store is sound, whatever it shares with others.
THEOREM SpacesSound == Spec => []IInv
BY InitInv, NextInv, PTL DEF Spec

LEMMA InvTypes == IInv => TypeOK
<1> SUFFICES ASSUME IInv PROVE TypeOK
  OBVIOUS
<1>1. VersionsInv /\ WorldsInv /\ sigs \subseteq Importable /\ changes \in 0..MaxChanges
  BY DEF IInv
<1>2. TablesSound(tables, stamps) /\ WorldsOK(world, tables, stamps, sigs) /\ stamps \in Nat
  BY <1>1 DEF WorldsInv
<1>3. Len(tables) \in Nat /\ DOMAIN tables = 1..Len(tables) /\ \A i \in 1..Len(tables) : tables[i] \in FlatTables
  BY <1>2 DEF TablesSound
<1>4. ASSUME NEW h \in Handles PROVE IsWorld(world[h])
  <2> DEFINE w == world[h]
  <2>1. StoreSound(w, tables) /\ w.ruleVersion \in 0..stamps
    BY <1>2 DEF WorldsOK, RulesSound
  <2>2. w \in WorldSet
    BY <2>1 DEF StoreSound
  <2>3. TableOf(w) = TableAt(w, tables)
    BY DEF TableOf, TableAt
  <2>4. w.nonGround \in 0..w.live
    <3>1. General(w, tables) \subseteq Live(w) /\ IsFiniteSet(Live(w))
      BY <1>2, <2>1, HeldIs DEF General
    <3>2. Cardinality(General(w, tables)) <= Cardinality(Live(w))
      BY <3>1, FS_Subset
    <3>3. w.live = Cardinality(Live(w)) /\ w.nonGround = Cardinality(General(w, tables))
      BY <2>1 DEF StoreSound
    <3>4. w.live \in Nat /\ w.nonGround \in Nat
      BY <2>2 DEF WorldSet
    <3> QED
      BY <3>2, <3>3, <3>4
  <2>5. w.rules \subseteq Heads \cup {NoHead} /\ w.log \in Seq(Atom) /\ w.live \in Nat
    BY <2>2 DEF WorldSet, Keys
  <2> HIDE DEF w
  <2>6. w.table \in 0..Len(tables) /\ Visible(w) \subseteq Facts(TableOf(w)) /\ w.dead \subseteq Visible(w)
    BY <2>1, <2>3 DEF StoreSound
  <2>7. IsWorld(w)
    BY <2>1, <2>4, <2>5, <2>6 DEF IsWorld
  <2> QED
    BY <2>7 DEF w
<1>5. \A h \in Handles : current[h].nextId \in Nat
  BY <1>1, VersionTypes DEF VersionsInv
<1>6. ASSUME NEW i \in DOMAIN tables
      PROVE  /\ tables[i].scan.upTo \in 0..Len(tables[i].facts)
             /\ \A f \in Facts(tables[i]) : Compact(tables[i].facts[f])
  <2>1. tables[i].scan.upTo \in Nat /\ Len(tables[i].facts) \in Nat
    BY <1>3 DEF FlatTables, ScanSet
  <2> QED
    BY <1>2, <1>3, <2>1 DEF TablesSound
<1> QED
  BY <1>1, <1>4, <1>5, <1>6 DEF TypeOK

\* Type correctness: no version sees a fact its table does not have, and no table holds an operation.
THEOREM SpaceTypes == Spec => []TypeOK
BY SpacesSound, InvTypes, PTL

LEMMA InvIndexed == IInv => IdsIndexed
<1> SUFFICES ASSUME IInv, NEW h \in Handles
             PROVE  LET v == current[h]
                        buckets == {v.unindexed} \cup Range(v.byHead)
                    IN  /\ \A t \in buckets \cup {v.entries} : t.size = Cardinality(DOMAIN t.root) /\ Len(PtKeys(t)) = t.size
                        /\ \A id \in DOMAIN v.entries.root :
                             LET a == v.entries.root[id]
                             IN  id < v.nextId /\ {t \in buckets : id \in DOMAIN t.root} = {Bucket(v, HeadKey(a))}
                        /\ \A t \in buckets : \A id \in DOMAIN t.root :
                             id \in DOMAIN v.entries.root /\ t.root[id] = v.entries.root[id]
  BY DEF IdsIndexed
<1>1. VersionSound(current[h])
  BY DEF IInv, VersionsInv
<1> QED
  BY <1>1, VersionIndexed

\* The tables of a persistent version agree (persistent-space.ts, pmap.ts).
THEOREM IdsAlwaysIndexed == Spec => []IdsIndexed
BY SpacesSound, InvIndexed, PTL

LEMMA InvSuspects == IInv => SuspectsFound
<1> SUFFICES ASSUME IInv PROVE SuspectsFound
  OBVIOUS
<1>1. TablesSound(tables, stamps) /\ WorldsOK(world, tables, stamps, sigs)
  BY DEF IInv, WorldsInv
<1>2. RulesStamped
  <2>1. \A h \in Handles : world[h].rules = Defines(RuntimeAtoms(world[h]))
    BY <1>1, RuntimeAtomsIs DEF WorldsOK, RulesSound
  <2> QED
    BY <1>1, <2>1 DEF WorldsOK, RulesStamped
<1>3. ASSUME NEW h \in Handles PROVE Missed(world[h], world[h].rules \cup TableOf(world[h]).scan.known) = {}
  <2> DEFINE w == world[h]
             T == TableOf(w)
             D == w.rules \cup T.scan.known
  <2>1. StoreSound(w, tables)
    BY <1>1 DEF WorldsOK
  <2>2. T = TableAt(w, tables)
    BY DEF TableOf, TableAt
  <2>3. ASSUME NEW f, Flat(w), T.scan.tokens = <<w.ruleVersion>>, f \in 1..T.scan.upTo,
               SuspectUnder(T.facts[f], D)
        PROVE  AnySuspect(T, HeadKey(T.facts[f]))
    <3>1. w.table \in 1..Len(tables) /\ T = tables[w.table]
      BY <1>1, <2>1, <2>2, <2>3, TableAtIs
    <3> DEFINE i == w.table
    <3>2. i \in 1..Len(tables) /\ tables[i].scan.tokens = <<w.ruleVersion>>
      BY <2>3, <3>1
    <3>3. ScanFor(tables[i].facts, tables[i].scan, w.rules, sigs)
      BY <1>1, <3>2 DEF WorldsOK
    <3>4. HeadKey(T.facts[f]) \in T.scan.heads
      BY <2>3, <3>1, <3>3 DEF ScanFor
    <3> QED
      BY <3>4 DEF AnySuspect
  <2>4. Missed(w, D)
          = {f \in Live(w) \cap (IF Flat(w) /\ T.scan.tokens = <<w.ruleVersion>> THEN 1..T.scan.upTo ELSE {}) :
                SuspectUnder(T.facts[f], D) /\ ~ AnySuspect(T, HeadKey(T.facts[f]))}
    BY DEF Missed, SuspectUnder
  <2> HIDE DEF T, D, w
  <2>5. Missed(w, D) = {}
    BY <2>3, <2>4
  <2> QED
    BY <2>5 DEF D, T, w
<1> QED
  BY <1>2, <1>3 DEF SuspectsFound

\* One stamp stands for one set of rules, and the scan done under it finds every fact a world sees that is suspect
\* by its rules or by a signature imported before that scan began (eval.ts, flat-atomspace.ts).  Signatures
\* imported later are another matter: NoSuspectMissed is refuted.
THEOREM SuspectsAlwaysFound == Spec => []SuspectsFound
BY SpacesSound, InvSuspects, PTL

LEMMA InvCounts == IInv => CountsExact
<1> SUFFICES ASSUME IInv PROVE CountsExact
  OBVIOUS
<1>1. TablesSound(tables, stamps) /\ \A h \in Handles : StoreSound(world[h], tables)
  BY DEF IInv, WorldsInv, WorldsOK
<1>2. ASSUME NEW h \in Handles
      PROVE  LET w == world[h]
                 atoms == RuntimeAtoms(w)
                 All(key) == [head |-> key, nest |-> NoHead, leaf |-> Var]
             IN  /\ Flat(w) => w.log = << >>
                 /\ w.live + Len(w.log) = Len(atoms)
                 /\ w.nonGround + NumNonGround(w.log) = NumNonGround(atoms)
                 /\ Flat(w) => \A key \in Heads : CountHead(w, TableOf(w), key) = Len(MatchesIn(All(key), atoms))
  BY <1>1, WorldCounts, RuntimeAtomsIs
<1> QED
  BY <1>2 DEF CountsExact

\* What a world counts without decoding is what its atoms are.
THEOREM CountsAlwaysExact == Spec => []CountsExact
BY SpacesSound, InvCounts, PTL

LEMMA InvMatches == IInv => MatchesExact
<1> SUFFICES ASSUME IInv PROVE MatchesExact
  OBVIOUS
<1>1. TablesSound(tables, stamps) /\ \A h \in Handles : StoreSound(world[h], tables) /\ VersionSound(current[h])
  BY DEF IInv, WorldsInv, WorldsOK, VersionsInv
<1>2. ASSUME NEW h \in Handles, NEW p \in Patterns
      PROVE  /\ MatchesIn(p, VersionCandidates(current[h], p)) = MatchesIn(p, VersionAtoms(current[h]))
             /\ ~ Exact(world[h], p) \/ OneSpelling(world[h], p)
                    => RuntimeMatches(world[h], p) = MatchesIn(p, RuntimeAtoms(world[h]))
  <2>1. p \in Atom
    BY Inputs
  <2>2. MatchesIn(p, VersionCandidates(current[h], p)) = MatchesIn(p, VersionAtoms(current[h]))
    BY <1>1, <2>1, VersionCandidatesExact
  <2>3. ~ Exact(world[h], p) \/ OneSpelling(world[h], p) => RuntimeMatches(world[h], p) = MatchesIn(p, Held(world[h], tables))
    BY <1>1, <2>1, RuntimeMatchesExact
  <2> QED
    BY <2>2, <2>3, RuntimeAtomsIs
<1> QED
  BY <1>2 DEF MatchesExact

\* By index or bucket, a query finds what a scan of all atoms finds, in their order, 1 beside 1.0 or not; by the
\* exact count of the flat store, which counts terms, where the facts equal to the pattern are the pattern.
THEOREM QueriesAlwaysExact == Spec => []QueriesExact
<1>1. IInv => QueriesExact
  BY InvMatches, InvCounts DEF QueriesExact
<1> QED
  BY <1>1, SpacesSound, PTL

-----------------------------------------------------------------------------
(* Both stores implement the abstract space.                               *)

PersistentContents == [h \in Handles |-> VersionAtoms(current[h])]
RuntimeContents == [h \in Handles |-> RuntimeAtoms(world[h])]

LEMMA PersistentRemoves == \A by, s, a : Persistent!RemoveFirstAlike(by, s, a) = RemoveFirstAlike(by, s, a)
<1>1. \A x, y : Persistent!Same(x, y) <=> Same(x, y)
  BY DEF Persistent!Same, Same, Persistent!SameLeaf, SameLeaf, Persistent!Var, Var
<1>2. \A S : Persistent!Min(S) = Min(S)
  BY DEF Persistent!Min, Min
<1>3. \A s, i : Persistent!RemoveAt(s, i) = RemoveAt(s, i)
  BY DEF Persistent!RemoveAt, RemoveAt
<1>4. \A by, x, y : Persistent!Alike(by, x, y) <=> Alike(by, x, y)
  BY <1>1 DEF Persistent!Alike, Alike
<1> QED
  BY <1>2, <1>3, <1>4 DEF Persistent!RemoveFirstAlike, RemoveFirstAlike, Persistent!RemoveFirstMatch, RemoveFirstMatch,
                          Persistent!SelectInSeq, SelectInSeq

LEMMA RuntimeRemoves == \A by, s, a : Runtime!RemoveFirstAlike(by, s, a) = RemoveFirstAlike(by, s, a)
<1>1. \A x, y : Runtime!Same(x, y) <=> Same(x, y)
  BY DEF Runtime!Same, Same, Runtime!SameLeaf, SameLeaf, Runtime!Var, Var
<1>2. \A S : Runtime!Min(S) = Min(S)
  BY DEF Runtime!Min, Min
<1>3. \A s, i : Runtime!RemoveAt(s, i) = RemoveAt(s, i)
  BY DEF Runtime!RemoveAt, RemoveAt
<1>4. \A by, x, y : Runtime!Alike(by, x, y) <=> Alike(by, x, y)
  BY <1>1 DEF Runtime!Alike, Alike
<1> QED
  BY <1>2, <1>3, <1>4 DEF Runtime!RemoveFirstAlike, RemoveFirstAlike, Runtime!RemoveFirstMatch, RemoveFirstMatch,
                          Runtime!SelectInSeq, SelectInSeq

\* Where one handle changes, its contents change and no other's.
LEMMA VersionChanges ==
    ASSUME VersionsInv, NEW h \in Handles, NEW v, current' = [current EXCEPT ![h] = v], NEW x, VersionAtoms(v) = x
    PROVE  PersistentContents' = [PersistentContents EXCEPT ![h] = x]
<1>1. current'[h] = v /\ \A k \in Handles : k # h => current'[k] = current[k]
  BY DEF VersionsInv
<1>2. PersistentContents' = [k \in Handles |-> VersionAtoms(current'[k])]
  BY DEF PersistentContents
<1>3. [PersistentContents EXCEPT ![h] = x] = [k \in Handles |-> IF k = h THEN x ELSE VersionAtoms(current[k])]
  BY DEF PersistentContents
<1>4. \A k \in Handles : VersionAtoms(current'[k]) = IF k = h THEN x ELSE VersionAtoms(current[k])
  BY <1>1
<1> QED
  BY <1>2, <1>3, <1>4

LEMMA WorldChanges ==
    ASSUME WorldsInv, NEW h \in Handles, NEW x,
           \A k \in Handles : Held(world'[k], tables') = IF k = h THEN x ELSE Held(world[k], tables)
    PROVE  RuntimeContents' = [RuntimeContents EXCEPT ![h] = x]
<1>1. RuntimeContents = [k \in Handles |-> Held(world[k], tables)]
  BY RuntimeAtomsIs DEF RuntimeContents
<1>2. RuntimeContents' = [k \in Handles |-> Held(world'[k], tables')]
  BY DEF RuntimeContents, RuntimeAtoms, Held, TableOf, TableAt
<1>3. [RuntimeContents EXCEPT ![h] = x] = [k \in Handles |-> IF k = h THEN x ELSE Held(world[k], tables)]
  BY <1>1
<1> QED
  BY <1>2, <1>3

LEMMA PersistentStep == IInv /\ [Next]_vars => [Persistent!Next]_PersistentContents
<1> SUFFICES ASSUME IInv, [Next]_vars PROVE Persistent!Next \/ PersistentContents' = PersistentContents
  OBVIOUS
<1> USE DEF PersistentContents
<1>0. VersionsInv /\ current \in [Handles -> VersionSet] /\ \A h \in Handles : PersistentContents[h] = VersionAtoms(current[h])
  BY DEF IInv, VersionsInv
<1>1. ASSUME NEW h \in Handles, NEW batch \in Batches, Add(h, batch) PROVE Persistent!Next
  <2>1. current' = [current EXCEPT ![h] = current'[h]] /\ VersionAtoms(current'[h]) = VersionAtoms(current[h]) \o batch
    BY <1>1, AddInv
  <2>2. PersistentContents' = [PersistentContents EXCEPT ![h] = VersionAtoms(current[h]) \o batch]
    BY <1>0, <2>1, VersionChanges
  <2>3. Persistent!Add(h, batch)
    BY <1>0, <2>2 DEF Persistent!Add
  <2> QED
    BY <2>3 DEF Persistent!Next
<1>2. ASSUME NEW h \in Handles, NEW a \in Patterns, RemoveOne(h, a) PROVE Persistent!Next
  <2>1. current' = [current EXCEPT ![h] = current'[h]] /\ VersionAtoms(current'[h]) = RemoveFirstAlike("value", VersionAtoms(current[h]), a)
    BY <1>2, RemoveInv
  <2>2. PersistentContents' = [PersistentContents EXCEPT ![h] = RemoveFirstAlike("value", VersionAtoms(current[h]), a)]
    BY <1>0, <2>1, VersionChanges
  <2>3. Persistent!RemoveOne(h, a)
    BY <1>0, <2>2, PersistentRemoves DEF Persistent!RemoveOne
  <2> QED
    BY <2>3 DEF Persistent!Next
<1>3. ASSUME NEW h \in Handles, NEW k \in Handles, Become(h, k) PROVE Persistent!Next
  <2>1. current' = [current EXCEPT ![h] = current[k]]
    BY <1>3, BecomeInv
  <2>2. PersistentContents' = [PersistentContents EXCEPT ![h] = VersionAtoms(current[k])]
    BY <1>0, <2>1, VersionChanges
  <2>3. Persistent!Become(h, k)
    BY <1>0, <2>2 DEF Persistent!Become
  <2> QED
    BY <2>3 DEF Persistent!Next
<1>4. ASSUME NEW h \in Handles, Clear(h) PROVE Persistent!Next
  <2>1. current' = [current EXCEPT ![h] = current'[h]] /\ VersionAtoms(current'[h]) = << >>
    BY <1>4, ClearInv
  <2>2. PersistentContents' = [PersistentContents EXCEPT ![h] = << >>]
    BY <1>0, <2>1, VersionChanges
  <2>3. Persistent!Clear(h)
    BY <2>2 DEF Persistent!Clear
  <2> QED
    BY <2>3 DEF Persistent!Next
<1>5. ASSUME current' = current PROVE PersistentContents' = PersistentContents
  BY <1>5
<1>6. ASSUME NEW h \in Handles, AskSuspect(h) PROVE PersistentContents' = PersistentContents
  BY <1>5, <1>6, AskInv
<1>7. ASSUME NEW f \in Importable, ImportSignature(f) PROVE PersistentContents' = PersistentContents
  BY <1>5, <1>7, ImportInv
<1>8. CASE UNCHANGED vars
  BY <1>5, <1>8 DEF vars
<1> QED
  BY <1>1, <1>2, <1>3, <1>4, <1>6, <1>7, <1>8 DEF Next

\* A persistent version is an abstract space: what was added in order, removals of the first equal atom
\* apart, with nothing shared that a change could show through.
THEOREM PersistentImplements == Spec => PersistentRefines
<1>1. Init => Persistent!Init
  <2> SUFFICES ASSUME Init PROVE Persistent!Init
    OBVIOUS
  <2>1. \A h \in Handles : current[h] = EmptyVersion
    BY DEF Init
  <2>2. VersionAtoms(EmptyVersion) = << >>
    <3>1. Lists(VersionAtoms(EmptyVersion), {}, EmptyVersion.entries.root)
      BY EmptyVersionSound, VersionLists
    <3> QED
      BY <3>1, ListsNothing
  <2> QED
    BY <2>1, <2>2 DEF Persistent!Init
<1>2. IInv /\ [Next]_vars => [Persistent!Next]_([h \in Handles |-> VersionAtoms(current[h])])
  BY PersistentStep DEF PersistentContents
<1> QED
  BY <1>1, <1>2, SpacesSound, PTL DEF Spec, PersistentRefines, Persistent!Spec

LEMMA RuntimeStep == IInv /\ [Next]_vars => [Runtime!Next]_RuntimeContents
<1> SUFFICES ASSUME IInv, [Next]_vars PROVE Runtime!Next \/ RuntimeContents' = RuntimeContents
  OBVIOUS
<1>0. /\ WorldsInv /\ world \in [Handles -> WorldSet]
      /\ RuntimeContents = [h \in Handles |-> RuntimeAtoms(world[h])]
      /\ \A h \in Handles : RuntimeContents[h] = Held(world[h], tables)
  BY RuntimeAtomsIs DEF IInv, WorldsInv, RuntimeContents
<1>1. ASSUME NEW h \in Handles, NEW batch \in Batches, Add(h, batch) PROVE Runtime!Next
  <2>1. /\ Held(world'[h], tables') = Held(world[h], tables) \o batch
        /\ \A k \in Handles : k # h => Held(world'[k], tables') = Held(world[k], tables)
    BY <1>1, AddInv
  <2> DEFINE x == Held(world[h], tables) \o batch
  <2>2. \A k \in Handles : Held(world'[k], tables') = IF k = h THEN x ELSE Held(world[k], tables)
    BY <2>1
  <2>3. RuntimeContents' = [RuntimeContents EXCEPT ![h] = x]
    <3> HIDE DEF x
    <3> QED
      BY <1>0, <2>2, WorldChanges
  <2>4. Runtime!Add(h, batch)
    BY <1>0, <2>3 DEF Runtime!Add, RuntimeContents
  <2> QED
    BY <2>4 DEF Runtime!Next
<1>2. ASSUME NEW h \in Handles, NEW a \in Patterns, RemoveOne(h, a) PROVE Runtime!Next
  <2>0. PICK by \in {"value", "term"} : Held(world'[h], tables') = RemoveFirstAlike(by, Held(world[h], tables), a)
    BY <1>2, RemoveInv
  <2> DEFINE x == RemoveFirstAlike(by, Held(world[h], tables), a)
  <2>1. world' = [world EXCEPT ![h] = world'[h]] /\ tables' = tables /\ Held(world'[h], tables') = x
    BY <1>2, <2>0, RemoveInv
  <2> HIDE DEF x
  <2>2. \A k \in Handles : k # h => world'[k] = world[k]
    BY <1>0, <2>1
  <2>3. \A k \in Handles : Held(world'[k], tables') = IF k = h THEN x ELSE Held(world[k], tables)
    BY <2>1, <2>2
  <2>4. RuntimeContents' = [RuntimeContents EXCEPT ![h] = x]
    BY <1>0, <2>3, WorldChanges
  <2>5. Runtime!RemoveOne(h, a)
    BY <1>0, <2>4, RuntimeRemoves DEF Runtime!RemoveOne, RuntimeContents, x
  <2> QED
    BY <2>5 DEF Runtime!Next
<1>3. ASSUME NEW h \in Handles, NEW k \in Handles, Become(h, k) PROVE Runtime!Next
  <2> DEFINE x == Held(world[k], tables)
  <2>1. world' = [world EXCEPT ![h] = world[k]] /\ tables' = tables
    BY <1>3, BecomeInv
  <2>2. world'[h] = world[k] /\ \A l \in Handles : l # h => world'[l] = world[l]
    BY <1>0, <2>1
  <2>3. \A l \in Handles : Held(world'[l], tables') = IF l = h THEN x ELSE Held(world[l], tables)
    BY <2>1, <2>2
  <2> HIDE DEF x
  <2>4. RuntimeContents' = [RuntimeContents EXCEPT ![h] = x]
    BY <1>0, <2>3, WorldChanges
  <2>5. Runtime!Become(h, k)
    BY <1>0, <2>4 DEF Runtime!Become, RuntimeContents, x
  <2> QED
    BY <2>5 DEF Runtime!Next
<1>4. ASSUME NEW h \in Handles, Clear(h) PROVE Runtime!Next
  <2>1. world' = [world EXCEPT ![h] = world'[h]] /\ tables' = tables /\ Held(world'[h], tables') = << >>
    BY <1>4, ClearInv
  <2>2. \A k \in Handles : k # h => world'[k] = world[k]
    BY <1>0, <2>1
  <2> DEFINE x == << >>
  <2>3. \A k \in Handles : Held(world'[k], tables') = IF k = h THEN x ELSE Held(world[k], tables)
    BY <2>1, <2>2
  <2> HIDE DEF x
  <2>4. RuntimeContents' = [RuntimeContents EXCEPT ![h] = x]
    BY <1>0, <2>3, WorldChanges
  <2>5. Runtime!Clear(h)
    BY <1>0, <2>4 DEF Runtime!Clear, RuntimeContents, x
  <2> QED
    BY <2>5 DEF Runtime!Next
<1>5. ASSUME \A h \in Handles : Held(world'[h], tables') = Held(world[h], tables)
      PROVE  RuntimeContents' = RuntimeContents
  <2>1. RuntimeContents' = [h \in Handles |-> Held(world'[h], tables')]
    BY DEF RuntimeContents, RuntimeAtoms, Held, TableOf, TableAt
  <2>2. RuntimeContents = [h \in Handles |-> Held(world[h], tables)]
    BY RuntimeAtomsIs DEF RuntimeContents
  <2> QED
    BY <1>5, <2>1, <2>2
<1>6. ASSUME NEW h \in Handles, AskSuspect(h) PROVE RuntimeContents' = RuntimeContents
  <2>1. world' = world /\ \A k \in Handles : Held(world[k], tables') = Held(world[k], tables)
    BY <1>6, AskInv
  <2> QED
    BY <1>5, <2>1
<1>7. ASSUME NEW f \in Importable, ImportSignature(f) PROVE RuntimeContents' = RuntimeContents
  BY <1>5, <1>7, ImportInv
<1>8. CASE UNCHANGED vars
  BY <1>5, <1>8 DEF vars
<1> QED
  BY <1>1, <1>2, <1>3, <1>4, <1>6, <1>7, <1>8 DEF Next

\* The runtime atoms of a world are an abstract space too: a removal from the flat store takes the first
\* occurrence of the term, one from the log the first atom of its value, whatever else is held.
THEOREM RuntimeImplements == Spec => RuntimeRefines
<1>1. Init => Runtime!Init
  <2> SUFFICES ASSUME Init PROVE Runtime!Init
    OBVIOUS
  <2>1. \A h \in Handles : RuntimeAtoms(world[h]) = << >>
    <3>1. TablesSound(tables, stamps) /\ \A h \in Handles : world[h] = EmptyWorld
      BY InitInv DEF IInv, WorldsInv, Init
    <3>2. Held(EmptyWorld, tables) = << >>
      BY <3>1, EmptyWorldSound
    <3> QED
      BY <3>1, <3>2, RuntimeAtomsIs
  <2> QED
    BY <2>1 DEF Runtime!Init
<1>2. IInv /\ [Next]_vars => [Runtime!Next]_([h \in Handles |-> RuntimeAtoms(world[h])])
  BY RuntimeStep DEF RuntimeContents
<1> QED
  BY <1>1, <1>2, SpacesSound, PTL DEF Spec, RuntimeRefines, Runtime!Spec
=============================================================================
