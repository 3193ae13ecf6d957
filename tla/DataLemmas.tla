----------------------------- MODULE DataLemmas -----------------------------
(***************************************************************************)
(* Induction, recursive functions, and what the list operations of the     *)
(* code do to the elements of a list, for the proofs of the components.    *)
(***************************************************************************)
EXTENDS SequencesExt, SequenceTheorems, FiniteSetTheorems, TLAPS

\* Induction for a set of numbers.  A number outside it would be the end of
\* a smallest interval 0 .. k that is not contained in it.
LEMMA SetInduction ==
    ASSUME NEW T, 0 \in T, \A n \in Nat : n \in T => n + 1 \in T
    PROVE  Nat \subseteq T
<1> SUFFICES ASSUME NEW n \in Nat, n \notin T PROVE FALSE
  OBVIOUS
<1> DEFINE F == {0 .. k : k \in (0 .. n) \ T}
<1>1. F \subseteq FiniteSubsetsOf(0 .. n)
  <2> SUFFICES ASSUME NEW k \in (0 .. n) \ T PROVE 0 .. k \in FiniteSubsetsOf(0 .. n)
    OBVIOUS
  <2>1. IsFiniteSet(0 .. k)
    BY FS_Interval
  <2> QED
    BY <2>1 DEF FiniteSubsetsOf
<1>2. F # {}
  OBVIOUS
<1>3. IsWellFoundedOn(StrictSubsetOrdering(0 .. n), FiniteSubsetsOf(0 .. n))
  BY FS_StrictSubsetOrderingWellFounded
<1> HIDE DEF F
<1>4. PICK x \in F : \A y \in F : <<y, x>> \notin StrictSubsetOrdering(0 .. n)
  BY <1>1, <1>2, <1>3, WFMin
<1>5. PICK k \in (0 .. n) \ T : x = 0 .. k
  BY DEF F
<1>6. k # 0 /\ k - 1 \in 0 .. n
  BY <1>5
<1>7. k - 1 \notin T
  BY <1>5, <1>6
<1>8. 0 .. k - 1 \in F
  BY <1>6, <1>7 DEF F
<1>9. 0 .. k - 1 \subseteq 0 .. k /\ 0 .. k - 1 # 0 .. k /\ 0 .. k \in SUBSET (0 .. n) /\ 0 .. k - 1 \in SUBSET (0 .. n)
  <2>1. k \in 0 .. k /\ k \notin 0 .. k - 1
    BY <1>5
  <2>2. 0 .. k - 1 # 0 .. k
    BY <2>1
  <2> QED
    BY <1>5, <1>6, <2>2
<1>10. <<0 .. k - 1, 0 .. k>> \in StrictSubsetOrdering(0 .. n)
  BY <1>9 DEF StrictSubsetOrdering
<1> QED
  BY <1>4, <1>5, <1>8, <1>10

\* A set of numbers has a least element: if not, the numbers below all of
\* its elements would be all there are.
LEMMA Least ==
    ASSUME NEW T, T \subseteq Nat, T # {}
    PROVE  \E x \in T : \A y \in T : x <= y
<1> SUFFICES ASSUME \A x \in T : \E y \in T : y < x
             PROVE  FALSE
  OBVIOUS
<1> DEFINE U == {n \in Nat : \A x \in T : n <= x}
<1>1. 0 \in U
  OBVIOUS
<1>2. \A n \in Nat : n \in U => n + 1 \in U
  <2> SUFFICES ASSUME NEW n \in Nat, \A x \in T : n <= x, NEW x \in T
               PROVE  n + 1 <= x
    OBVIOUS
  <2>1. PICK y \in T : y < x
    OBVIOUS
  <2> QED
    BY <2>1
<1>3. Nat \subseteq U
  <2> HIDE DEF U
  <2> QED
    BY <1>1, <1>2, SetInduction
<1>4. PICK x \in T : TRUE
  OBVIOUS
<1>5. x + 1 \in U
  BY <1>3
<1> QED
  BY <1>4, <1>5

\* From m on to n, one step at a time.
LEMMA Ascent ==
    ASSUME NEW m \in Int, NEW n \in Int, m <= n, NEW T, m \in T,
           \A k \in m .. n - 1 : k \in T => k + 1 \in T
    PROVE  m .. n \subseteq T
<1> DEFINE U == {i \in Nat : m + i <= n => m + i \in T}
<1>1. 0 \in U
  OBVIOUS
<1>2. \A i \in Nat : i \in U => i + 1 \in U
  <2> SUFFICES ASSUME NEW i \in Nat, i \in U, m + (i + 1) <= n PROVE m + (i + 1) \in T
    OBVIOUS
  <2>1. m + i \in m .. n - 1 /\ m + i \in T
    OBVIOUS
  <2>2. (m + i) + 1 \in T
    BY <2>1
  <2> QED
    BY <2>2
<1>3. Nat \subseteq U
  <2> HIDE DEF U
  <2> QED
    BY <1>1, <1>2, SetInduction
<1> SUFFICES ASSUME NEW k \in m .. n PROVE k \in T
  OBVIOUS
<1>4. k - m \in Nat /\ m + (k - m) = k
  OBVIOUS
<1>5. k - m \in U
  BY <1>3, <1>4
<1> QED
  BY <1>4, <1>5

\* f is the function on m .. n that starts with a and each of whose further
\* values is a function g of the one before it and of its place.
Recursive(f, m, n, S, a, g) ==
    /\ f \in [m .. n -> S]
    /\ f[m] = a
    /\ \A k \in m + 1 .. n : f[k] = g[<<f[k - 1], k>>]

LEMMA Recursion ==
    ASSUME NEW m \in Int, NEW n \in Int, m <= n, NEW S, NEW a \in S,
           NEW g \in [S \X Int -> S]
    PROVE  \E f : Recursive(f, m, n, S, a, g)
<1> DEFINE T == {h \in m .. n : \E f : Recursive(f, m, h, S, a, g)}
<1>1. m \in T
  <2>1. Recursive([k \in m .. m |-> a], m, m, S, a, g)
    BY DEF Recursive
  <2> QED
    BY <2>1
<1>2. ASSUME NEW h \in m .. n - 1, h \in T PROVE h + 1 \in T
  <2>1. PICK f : Recursive(f, m, h, S, a, g)
    BY <1>2
  <2> DEFINE e == [k \in m .. h + 1 |-> IF k <= h THEN f[k] ELSE g[<<f[h], h + 1>>]]
  <2>2. e \in [m .. h + 1 -> S]
    <3>1. f[h] \in S
      BY <2>1 DEF Recursive
    <3>2. g[<<f[h], h + 1>>] \in S
      BY <3>1
    <3>3. \A k \in m .. h + 1 : (IF k <= h THEN f[k] ELSE g[<<f[h], h + 1>>]) \in S
      BY <2>1, <3>2 DEF Recursive
    <3> QED
      BY <3>3
  <2>3. e[m] = a
    BY <2>1 DEF Recursive
  <2>4. ASSUME NEW k \in m + 1 .. h + 1 PROVE e[k] = g[<<e[k - 1], k>>]
    <3>1. CASE k <= h
      BY <2>1, <3>1 DEF Recursive
    <3>2. CASE k = h + 1
      <4>1. e[k] = g[<<f[h], h + 1>>] /\ e[k - 1] = f[h]
        BY <3>2
      <4> QED
        BY <3>2, <4>1
    <3> QED
      BY <3>1, <3>2
  <2> HIDE DEF e
  <2>5. Recursive(e, m, h + 1, S, a, g)
    BY <2>2, <2>3, <2>4 DEF Recursive
  <2>6. h + 1 \in m .. n
    OBVIOUS
  <2> QED
    BY <2>5, <2>6
<1>3. m .. n \subseteq T
  <2> HIDE DEF T
  <2> QED
    BY <1>1, <1>2, Ascent
<1>4. n \in T
  BY <1>3
<1> QED
  BY <1>4

\* A recursion whose values are computed by g as long as they are in S, and
\* sets that g leads through.
Follows(x, a, h, S, z, g) ==
    x[a] = z /\ \A k \in a + 1 .. h : x[k - 1] \in S => x[k] = g[<<x[k - 1], k>>]
Leads(I, a, h, g) == \A k \in a + 1 .. h : \A s \in I[k - 1] : g[<<s, k>>] \in I[k]

\* Such a recursion exists, and every one stays in the sets.
LEMMA Folding ==
    ASSUME NEW a \in Int, NEW h \in Int, a <= h, NEW S, NEW I \in [a .. h -> SUBSET S],
           NEW z \in I[a], NEW g, Leads(I, a, h, g)
    PROVE  /\ \E x : x \in [a .. h -> S] /\ Follows(x, a, h, S, z, g)
           /\ \A y : Follows(y, a, h, S, z, g) => \A k \in a .. h : y[k] \in I[k]
<1> USE DEF Follows, Leads
<1>a. a \in a .. h /\ z \in S
  OBVIOUS
<1>1. ASSUME NEW y, y[a] = z, \A k \in a + 1 .. h : y[k - 1] \in S => y[k] = g[<<y[k - 1], k>>]
      PROVE  \A k \in a .. h : y[k] \in I[k]
  <2> DEFINE T == {k \in a .. h : y[k] \in I[k]}
  <2>1. a \in T
    BY <1>a, <1>1
  <2>2. \A k \in a .. h - 1 : k \in T => k + 1 \in T
    <3> SUFFICES ASSUME NEW k \in a .. h - 1, k \in T PROVE k + 1 \in T
      OBVIOUS
    <3>a. y[k] \in I[k] /\ k + 1 \in a .. h
      OBVIOUS
    <3>1. PICK c \in a + 1 .. h : c = k + 1 /\ c - 1 = k
      OBVIOUS
    <3>2. k \in a .. h
      OBVIOUS
    <3>3. y[c - 1] \in I[c - 1] /\ y[c - 1] \in S
      BY <3>a, <3>1, <3>2
    <3>4. y[c] = g[<<y[c - 1], c>>]
      BY <1>1, <3>3
    <3> QED
      BY <3>a, <3>1, <3>3, <3>4
  <2> HIDE DEF T
  <2>3. a .. h \subseteq T
    BY <2>1, <2>2, Ascent
  <2> QED
    BY <2>3 DEF T
<1> DEFINE e == [x \in S \X Int |-> IF g[x] \in S THEN g[x] ELSE x[1]]
<1>2. e \in [S \X Int -> S]
  OBVIOUS
<1>b. ASSUME NEW s \in S, NEW k \in Int, g[<<s, k>>] \in S PROVE e[<<s, k>>] = g[<<s, k>>]
  BY <1>b
<1> HIDE DEF e
<1>3. PICK x : x \in [a .. h -> S] /\ x[a] = z /\ \A k \in a + 1 .. h : x[k] = e[<<x[k - 1], k>>]
  <2>1. \E x : Recursive(x, a, h, S, z, e)
    BY <1>a, <1>2, Recursion
  <2> QED
    BY <2>1 DEF Recursive
<1> DEFINE T == {k \in a .. h : x[k] \in I[k]}
<1>4. a \in T
  BY <1>a, <1>3
<1>5. ASSUME NEW c \in a + 1 .. h, x[c - 1] \in I[c - 1]
      PROVE  x[c - 1] \in S /\ x[c] = g[<<x[c - 1], c>>] /\ x[c] \in I[c]
  <2>1. c - 1 \in a .. h /\ c \in a .. h /\ c \in Int
    OBVIOUS
  <2>2. x[c - 1] \in S /\ x[c] = e[<<x[c - 1], c>>]
    BY <1>3, <2>1
  <2>3. g[<<x[c - 1], c>>] \in I[c] /\ I[c] \in SUBSET S
    BY <1>5, <2>1
  <2>4. g[<<x[c - 1], c>>] \in S
    BY <2>3
  <2> QED
    BY <1>b, <2>1, <2>2, <2>3, <2>4
<1>6. \A k \in a .. h - 1 : k \in T => k + 1 \in T
  <2> SUFFICES ASSUME NEW k \in a .. h - 1, k \in T PROVE k + 1 \in T
    OBVIOUS
  <2>a. x[k] \in I[k] /\ k + 1 \in a .. h
    OBVIOUS
  <2>1. k + 1 \in a + 1 .. h /\ (k + 1) - 1 = k
    OBVIOUS
  <2> QED
    BY <1>5, <2>a, <2>1
<1> HIDE DEF T
<1>7. a .. h \subseteq T
  BY <1>4, <1>6, Ascent
<1>8. ASSUME NEW k \in a + 1 .. h PROVE x[k - 1] \in S /\ x[k] = g[<<x[k - 1], k>>]
  <2>1. k - 1 \in a .. h
    OBVIOUS
  <2> QED
    BY <1>5, <1>7, <2>1 DEF T
<1> QED
  BY <1>1, <1>3, <1>8

\* Numbers that grow from one to the next grow.
LEMMA Growing ==
    ASSUME NEW n \in Nat, NEW o \in [1 .. n + 1 -> Nat],
           \A i \in 1 .. n : o[i] < o[i + 1]
    PROVE  \A i, j \in 1 .. n + 1 : i < j => o[i] < o[j]
<1> SUFFICES ASSUME NEW i \in 1 .. n + 1
             PROVE  \A j \in 1 .. n + 1 : i < j => o[i] < o[j]
  OBVIOUS
<1> DEFINE T == {j \in 1 .. n + 1 : i < j => o[i] < o[j]}
<1>1. PICK h \in Int : h = n + 1 /\ i <= h /\ i \in Int
  OBVIOUS
<1>2. i \in T
  OBVIOUS
<1>3. \A k \in i .. h - 1 : k \in T => k + 1 \in T
  <2> SUFFICES ASSUME NEW k \in i .. h - 1, k \in T
               PROVE  o[i] < o[k + 1]
    BY <1>1
  <2>1. k \in 1 .. n /\ o[k] < o[k + 1] /\ o[i] \in Nat /\ o[k] \in Nat /\ o[k + 1] \in Nat
    BY <1>1
  <2>2. CASE k = i
    BY <2>1, <2>2
  <2>3. CASE i < k
    BY <2>1, <2>3
  <2> QED
    BY <2>2, <2>3
<1>4. i .. h \subseteq T
  <2> HIDE DEF T
  <2> QED
    BY <1>1, <1>2, <1>3, Ascent
<1> QED
  BY <1>1, <1>4

\* How many of the first j - 1 elements of a list are x.
CountTo(s, x, j) == Cardinality({i \in 1 .. j - 1 : s[i] = x})

LEMMA Counting ==
    ASSUME NEW s, NEW x, NEW j \in Nat \ {0}
    PROVE  /\ CountTo(s, x, j) \in Nat
           /\ CountTo(s, x, 1) = 0
           /\ s[j] = x => CountTo(s, x, j + 1) = CountTo(s, x, j) + 1
           /\ s[j] # x => CountTo(s, x, j + 1) = CountTo(s, x, j)
           /\ CountTo(s, x, j) = 0 <=> \A i \in 1 .. j - 1 : s[i] # x
<1> DEFINE A(k) == {i \in 1 .. k - 1 : s[i] = x}
<1>1. IsFiniteSet(A(j)) /\ Cardinality(A(j)) \in Nat
  <2>1. IsFiniteSet(1 .. j - 1) /\ A(j) \subseteq 1 .. j - 1
    BY FS_Interval
  <2>2. IsFiniteSet(A(j))
    BY <2>1, FS_Subset
  <2> QED
    BY <2>2, FS_CardinalityType
<1>2. A(1) = {}
  OBVIOUS
<1>3. Cardinality({}) = 0
  BY FS_EmptySet
<1>4. ASSUME s[j] = x
      PROVE  Cardinality(A(j + 1)) = Cardinality(A(j)) + 1
  <2>1. A(j + 1) = A(j) \cup {j} /\ j \notin A(j)
    BY <1>4
  <2>2. Cardinality(A(j) \cup {j}) = Cardinality(A(j)) + 1
    BY <1>1, <2>1, FS_AddElement
  <2> QED
    BY <2>1, <2>2
<1>5. ASSUME s[j] # x
      PROVE  Cardinality(A(j + 1)) = Cardinality(A(j))
  <2>1. A(j + 1) = A(j)
    BY <1>5
  <2> QED
    BY <2>1
<1>6. Cardinality(A(j)) = 0 <=> A(j) = {}
  BY <1>1, FS_EmptySet
<1>7. A(j) = {} <=> \A i \in 1 .. j - 1 : s[i] # x
  OBVIOUS
<1> QED
  BY <1>1, <1>2, <1>3, <1>4, <1>5, <1>6, <1>7 DEF CountTo
-----------------------------------------------------------------------------
\* Where the j-th element of a list is before the i-th is removed from it.
Before(i, j) == IF j < i THEN j ELSE j + 1

\* Removing the i-th element (delete_memory_map_entry of BootInfo, unlinking
\* a node of the free list in find_region) leaves the others, in order.
LEMMA RemoveAtProperties ==
    ASSUME NEW S, NEW s \in Seq(S), NEW i \in DOMAIN s
    PROVE  /\ RemoveAt(s, i) \in Seq(S)
           /\ Len(RemoveAt(s, i)) = Len(s) - 1
           /\ DOMAIN RemoveAt(s, i) = 1 .. Len(s) - 1
           /\ \A j \in 1 .. Len(s) - 1 :
                /\ Before(i, j) \in DOMAIN s \ {i}
                /\ RemoveAt(s, i)[j] = s[Before(i, j)]
<1> DEFINE a == SubSeq(s, 1, i - 1)
           b == SubSeq(s, i + 1, Len(s))
<1>1. Len(s) \in Nat /\ DOMAIN s = 1 .. Len(s) /\ i \in 1 .. Len(s)
  BY LenProperties
<1>2. \A j \in 1 .. Len(s) : s[j] \in S
  BY <1>1, ElementOfSeq
<1>3. /\ a \in Seq(S)
      /\ Len(a) = i - 1
      /\ \A j \in 1 .. i - 1 : a[j] = s[j]
  <2>1. /\ a \in Seq(S)
        /\ Len(a) = IF 1 <= i - 1 THEN (i - 1) - 1 + 1 ELSE 0
        /\ \A j \in 1 .. (i - 1) - 1 + 1 : a[j] = s[1 + j - 1]
    BY <1>1, <1>2, SubSeqProperties
  <2> QED
    BY <1>1, <2>1
<1>4. /\ b \in Seq(S)
      /\ Len(b) = Len(s) - i
      /\ \A j \in 1 .. Len(s) - i : b[j] = s[i + j]
  <2>1. /\ b \in Seq(S)
        /\ Len(b) = IF i + 1 <= Len(s) THEN Len(s) - (i + 1) + 1 ELSE 0
        /\ \A j \in 1 .. Len(s) - (i + 1) + 1 : b[j] = s[(i + 1) + j - 1]
    BY <1>1, <1>2, SubSeqProperties
  <2> QED
    BY <1>1, <2>1, SMTT(20)
<1> HIDE DEF a, b
<1>5. /\ a \o b \in Seq(S)
      /\ Len(a \o b) = Len(s) - 1
      /\ \A j \in 1 .. Len(s) - 1 : (a \o b)[j] = IF j <= Len(a) THEN a[j] ELSE b[j - Len(a)]
  <2>1. /\ a \o b \in Seq(S)
        /\ Len(a \o b) = Len(a) + Len(b)
        /\ \A j \in 1 .. Len(a) + Len(b) :
             (a \o b)[j] = IF j <= Len(a) THEN a[j] ELSE b[j - Len(a)]
    BY <1>3, <1>4, ConcatProperties
  <2>2. Len(a) + Len(b) = Len(s) - 1
    BY <1>1, <1>3, <1>4
  <2> QED
    BY <2>1, <2>2
<1>6. \A j \in 1 .. Len(s) - 1 :
        Before(i, j) \in DOMAIN s \ {i} /\ (a \o b)[j] = s[Before(i, j)]
  <2> TAKE j \in 1 .. Len(s) - 1
  <2>1. CASE j < i
    BY <1>1, <1>3, <1>5, <2>1 DEF Before
  <2>2. CASE j >= i
    <3>1. j - Len(a) \in 1 .. Len(s) - i /\ i + (j - Len(a)) = j + 1
      BY <1>1, <1>3, <2>2
    <3> QED
      BY <1>1, <1>3, <1>4, <1>5, <2>2, <3>1, SMTT(20) DEF Before
  <2>3. j < i \/ j >= i
    BY <1>1
  <2> QED
    BY <2>1, <2>2, <2>3
<1>7. RemoveAt(s, i) = a \o b
  BY DEF RemoveAt, a, b
<1>8. DOMAIN (a \o b) = 1 .. Len(s) - 1
  BY <1>5, LenProperties
<1> QED
  BY <1>5, <1>6, <1>7, <1>8

\* Every other element is still there, and two of them do not change places.
LEMMA RemoveAtKeeps ==
    ASSUME NEW S, NEW s \in Seq(S), NEW i \in DOMAIN s
    PROVE  /\ \A k \in DOMAIN s \ {i} :
                \E j \in DOMAIN RemoveAt(s, i) : RemoveAt(s, i)[j] = s[k]
           /\ \A j, k \in DOMAIN RemoveAt(s, i) : j # k => Before(i, j) # Before(i, k)
<1>1. Len(s) \in Nat /\ DOMAIN s = 1 .. Len(s) /\ i \in 1 .. Len(s)
  BY LenProperties
<1>2. /\ DOMAIN RemoveAt(s, i) = 1 .. Len(s) - 1
      /\ \A j \in 1 .. Len(s) - 1 : RemoveAt(s, i)[j] = s[Before(i, j)]
  BY RemoveAtProperties
<1>3. ASSUME NEW k \in DOMAIN s \ {i}
      PROVE  \E j \in 1 .. Len(s) - 1 : Before(i, j) = k
  <2>1. CASE k < i
    BY <1>1, <2>1 DEF Before
  <2>2. CASE k > i
    <3>1. k - 1 \in 1 .. Len(s) - 1 /\ Before(i, k - 1) = k
      BY <1>1, <2>2 DEF Before
    <3> QED
      BY <3>1
  <2> QED
    BY <1>1, <2>1, <2>2
<1>4. \A j, k \in 1 .. Len(s) - 1 : j # k => Before(i, j) # Before(i, k)
  BY <1>1 DEF Before
<1> QED
  BY <1>2, <1>3, <1>4

\* Inserting an element at the head of a list.
LEMMA PushFrontProperties ==
    ASSUME NEW S, NEW s \in Seq(S), NEW e \in S
    PROVE  /\ <<e>> \o s \in Seq(S)
           /\ DOMAIN (<<e>> \o s) = 1 .. Len(s) + 1
           /\ (<<e>> \o s)[1] = e
           /\ \A j \in 2 .. Len(s) + 1 :
                j - 1 \in DOMAIN s /\ (<<e>> \o s)[j] = s[j - 1]
<1>1. <<e>> \in Seq(S) /\ Len(<<e>>) = 1 /\ <<e>>[1] = e
  OBVIOUS
<1>2. Len(s) \in Nat /\ DOMAIN s = 1 .. Len(s)
  BY LenProperties
<1>3. /\ <<e>> \o s \in Seq(S)
      /\ Len(<<e>> \o s) = 1 + Len(s)
      /\ \A j \in 1 .. 1 + Len(s) : (<<e>> \o s)[j] = IF j <= 1 THEN <<e>>[j] ELSE s[j - 1]
  BY <1>1, ConcatProperties
<1>4. DOMAIN (<<e>> \o s) = 1 .. Len(s) + 1
  BY <1>2, <1>3, LenProperties
<1> QED
  BY <1>1, <1>2, <1>3, <1>4
=============================================================================
