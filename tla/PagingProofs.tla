---------------------------- MODULE PagingProofs ----------------------------
(***************************************************************************)
(* Proofs about page tables: the walk and map_raw of page_table.rs in a    *)
(* forest of tables that several roots share, then the memory manager of   *)
(* mm/mod.rs with every property its run checks, the properties of the     *)
(* single table of PageTable, and last the loader's map_page_4k and what   *)
(* efi_main has done when it jumps.                                        *)
(***************************************************************************)
EXTENDS MemoryManager, PageTable, UefiLoader, DataLemmas

\* Division, of which the provers know only the case of a constant divisor.
LEMMA Division ==
    ASSUME NEW d \in Nat \ {0}, NEW a \in Nat
    PROVE  /\ a \div d \in Nat /\ a % d \in 0 .. d - 1
           /\ a = d * (a \div d) + (a % d)
           /\ \A q \in Nat, r \in 0 .. d - 1 : a = d * q + r => q = a \div d /\ r = a % d
<1>1. PICK x \in Nat, y \in 0 .. d - 1 : x = a \div d /\ y = a % d /\ a = d * x + y
  OBVIOUS
<1>2. ASSUME NEW q \in Nat, NEW r \in 0 .. d - 1, a = d * q + r
      PROVE  q = x /\ r = y
  <2>1. ~(q < x)
    <3>1. SUFFICES ASSUME q < x PROVE FALSE
      OBVIOUS
    <3>2. PICK z \in Nat : x = q + 1 + z
      BY <3>1
    <3>3. d * x = d * q + d + d * z /\ d * z >= 0 /\ d * x \in Nat /\ d * q \in Nat /\ d * z \in Nat
      BY <3>2
    <3> QED
      BY <1>1, <1>2, <3>3
  <2>2. ~(x < q)
    <3>1. SUFFICES ASSUME x < q PROVE FALSE
      OBVIOUS
    <3>2. PICK z \in Nat : q = x + 1 + z
      BY <3>1
    <3>3. d * q = d * x + d + d * z /\ d * z >= 0 /\ d * x \in Nat /\ d * q \in Nat /\ d * z \in Nat
      BY <3>2
    <3> QED
      BY <1>1, <1>2, <3>3
  <2>3. q = x
    BY <2>1, <2>2
  <2> QED
    BY <1>1, <1>2, <2>3
<1> QED
  BY <1>1, <1>2

\* Dividing by a product is dividing by one factor after the other.
LEMMA DivisionTwice ==
    ASSUME NEW b \in Nat \ {0}, NEW c \in Nat \ {0}, NEW a \in Nat
    PROVE  b * c \in Nat \ {0} /\ a \div (b * c) = (a \div c) \div b
<1>1. PICK q \in Nat, r \in 0 .. c - 1 : q = a \div c /\ a = c * q + r
  BY Division
<1>2. PICK s \in Nat, t \in 0 .. b - 1 : s = q \div b /\ q = b * s + t
  BY Division
<1>3. PICK d \in Nat \ {0} : d = b * c
  OBVIOUS
<1>4. a = d * s + (c * t + r)
  <2>1. c * q = c * (b * s) + c * t
    BY <1>2
  <2>2. c * (b * s) = d * s
    BY <1>3
  <2> QED
    BY <1>1, <2>1, <2>2
<1>5. c * t + r \in 0 .. d - 1
  <2>1. PICK u \in Nat : b = t + 1 + u
    BY <1>2
  <2>2. d = c * t + c + c * u /\ c * t \in Nat /\ c * u \in Nat
    BY <1>3, <2>1
  <2> QED
    BY <1>1, <2>2
<1>6. s = a \div d
  <2>1. PICK x \in 0 .. d - 1 : x = c * t + r
    BY <1>5
  <2> QED
    BY <1>3, <1>4, <2>1, Division
<1> QED
  BY <1>1, <1>2, <1>3, <1>6
-----------------------------------------------------------------------------
\* Span is what its recursive definition says.
LEMMA Spans ==
    /\ Span \in [0 .. Levels -> Nat \ {0}]
    /\ Span[0] = 1
    /\ \A n \in 1 .. Levels : Span[n] = Entries * Span[n - 1]
<1> DEFINE S == Nat \ {0}
           g == [x \in S \X Int |-> Entries * x[1]]
<1>1. Levels \in Nat /\ Levels >= 2 /\ Entries \in Nat /\ Entries >= 2
  BY LevelsAssumption, EntriesAssumption
<1>2. g \in [S \X Int -> S] /\ 1 \in S
  <2>1. \A x \in S \X Int : Entries * x[1] \in S
    <3> SUFFICES ASSUME NEW y \in S PROVE Entries * y \in S
      OBVIOUS
    <3> QED
      BY <1>1
  <2> QED
    BY <2>1
<1> HIDE DEF g
<1>3. PICK f \in [0 .. Levels -> S] :
          f[0] = 1 /\ \A k \in 0 + 1 .. Levels : f[k] = g[<<f[k - 1], k>>]
  <2> HIDE DEF S
  <2>1. PICK m \in Int, h \in Int, a \in S : m = 0 /\ h = Levels /\ m <= h /\ a = 1
    BY <1>1, <1>2
  <2>2. \E f : Recursive(f, m, h, S, a, g)
    BY <1>2, <2>1, Recursion
  <2> QED
    BY <2>1, <2>2 DEF Recursive
<1>4. \A k \in 1 .. Levels : f[k] = Entries * f[k - 1]
  <2> SUFFICES ASSUME NEW k \in 1 .. Levels PROVE f[k] = Entries * f[k - 1]
    OBVIOUS
  <2>1. f[k] = g[<<f[k - 1], k>>] /\ f[k - 1] \in S
    BY <1>1, <1>3
  <2>2. g[<<f[k - 1], k>>] = Entries * f[k - 1]
    BY <2>1 DEF g
  <2> QED
    BY <2>1, <2>2
<1> DEFINE Times(y) == Entries * y
           IsSpan(x) == x = [n \in 0 .. Levels |-> IF n = 0 THEN 1 ELSE Times(x[n - 1])]
<1>5. IsSpan(f)
  <2>1. \A n \in 1 .. Levels : f[n] = Times(f[n - 1])
    BY <1>4
  <2> HIDE DEF Times
  <2> QED
    BY <1>1, <1>3, <2>1
<1>6. Span = CHOOSE x : IsSpan(x)
  BY DEF Span
<1>7. IsSpan(Span)
  <2> HIDE DEF IsSpan
  <2> QED
    BY <1>5, <1>6
<1>8. PICK x : x = Span /\ IsSpan(x)
  BY <1>7
<1>9. x[0] = 1 /\ \A n \in 1 .. Levels : x[n] = Entries * x[n - 1]
  <2>1. \A n \in 1 .. Levels : x[n] = Times(x[n - 1])
    <3>1. \A n \in 1 .. Levels : n \in 0 .. Levels /\ n # 0
      BY <1>1
    <3> HIDE DEF Times
    <3> QED
      BY <1>8, <3>1
  <2>2. x[0] = 1
    <3>1. 0 \in 0 .. Levels
      BY <1>1
    <3> HIDE DEF Times
    <3> QED
      BY <1>8, <3>1
  <2> QED
    BY <2>1, <2>2
<1>10. 0 .. Levels \subseteq {n \in 0 .. Levels : x[n] \in S}
  <2> DEFINE T == {n \in 0 .. Levels : x[n] \in S}
  <2>1. 0 \in T
    BY <1>1, <1>9
  <2>2. PICK m \in Int, h \in Int : m = 0 /\ h = Levels /\ m <= h
    BY <1>1
  <2>3. \A i \in m .. h - 1 : i \in T => i + 1 \in T
    <3> SUFFICES ASSUME NEW i \in 0 .. Levels - 1, x[i] \in S PROVE i + 1 \in T
      BY <2>2
    <3>1. x[i + 1] = Entries * x[i]
      BY <1>1, <1>9
    <3> QED
      BY <1>1, <3>1
  <2> HIDE DEF T
  <2>4. m .. h \subseteq T
    BY <2>1, <2>2, <2>3, Ascent
  <2> QED
    BY <2>2, <2>4 DEF T
<1>11. x \in [0 .. Levels -> S]
  BY <1>8, <1>10
<1> QED
  BY <1>8, <1>9, <1>11

\* What is left of a page number when its last Levels - k digits are cut
\* off: walks that agree in it visit the same tables up to level k + 1.
Prefix(v, k) == v \div Span[Levels - k]

\* A page number has Levels digits, the indices of its walk.
LEMMA Digits ==
    ASSUME NEW v \in AllPages
    PROVE  /\ v \in Nat
           /\ Prefix(v, 0) = 0
           /\ Prefix(v, Levels) = v
           /\ \A k \in 0 .. Levels : Prefix(v, k) \in Nat
           /\ \A k \in 1 .. Levels :
                 /\ Index(v)[k] \in 0 .. Entries - 1
                 /\ Prefix(v, k) = Entries * Prefix(v, k - 1) + Index(v)[k]
<1>1. Levels \in Nat /\ Levels >= 2 /\ Entries \in Nat \ {0}
  BY LevelsAssumption, EntriesAssumption
<1>2. v \in Nat /\ v < Span[Levels]
  BY <1>1, Spans DEF AllPages
<1>3. Prefix(v, 0) = 0
  <2>1. PICK d \in Nat \ {0}, z \in Nat : d = Span[Levels] /\ z = 0 /\ v \in 0 .. d - 1 /\ v = d * z + v
    BY <1>1, <1>2, Spans
  <2>2. z = v \div d
    BY <1>2, <2>1, Division
  <2> QED
    BY <1>1, <2>1, <2>2 DEF Prefix
<1>4. Prefix(v, Levels) = v
  <2>1. Prefix(v, Levels) = v \div 1
    BY <1>1, Spans DEF Prefix
  <2> QED
    BY <1>2, <2>1
<1>5. ASSUME NEW k \in 0 .. Levels PROVE Prefix(v, k) \in Nat
  <2>1. PICK d \in Nat \ {0} : d = Span[Levels - k]
    BY <1>1, Spans
  <2> QED
    BY <1>2, <2>1, Division DEF Prefix
<1>6. ASSUME NEW k \in 1 .. Levels
      PROVE  /\ Index(v)[k] \in 0 .. Entries - 1
             /\ Prefix(v, k) = Entries * Prefix(v, k - 1) + Index(v)[k]
  <2>1. PICK d \in Nat \ {0} : d = Span[Levels - k]
    BY <1>1, Spans
  <2>2. Span[Levels - (k - 1)] = Entries * d
    <3>1. PICK n \in 1 .. Levels : n = Levels - (k - 1) /\ n - 1 = Levels - k
      BY <1>1
    <3> QED
      BY <2>1, <3>1, Spans
  <2>3. PICK q \in Nat : q = v \div d /\ q = Prefix(v, k)
    BY <1>2, <2>1, Division DEF Prefix
  <2>4. Prefix(v, k - 1) = q \div Entries
    <3>1. v \div (Entries * d) = (v \div d) \div Entries
      BY <1>1, <1>2, DivisionTwice
    <3> QED
      BY <2>2, <2>3, <3>1 DEF Prefix
  <2>5. Index(v)[k] = q % Entries
    BY <2>1, <2>3 DEF Index
  <2>6. /\ q % Entries \in 0 .. Entries - 1
        /\ q = Entries * (q \div Entries) + (q % Entries)
    BY <1>1, <2>3, Division
  <2> QED
    BY <2>3, <2>4, <2>5, <2>6
<1> QED
  BY <1>2, <1>3, <1>4, <1>5, <1>6

\* Prefixes agree when shorter ones and the next digit do.
LEMMA PrefixStep ==
    ASSUME NEW v \in AllPages, NEW w \in AllPages, NEW k \in 1 .. Levels
    PROVE  Prefix(v, k) = Prefix(w, k) <=>
               Prefix(v, k - 1) = Prefix(w, k - 1) /\ Index(v)[k] = Index(w)[k]
<1>1. Levels \in Nat /\ Entries \in Nat \ {0}
  BY LevelsAssumption, EntriesAssumption
<1>2. PICK q \in Nat, x \in Nat, i \in 0 .. Entries - 1 :
          /\ q = Prefix(v, k) /\ x = Prefix(v, k - 1) /\ i = Index(v)[k]
          /\ q = Entries * x + i
  BY <1>1, Digits
<1>3. PICK r \in Nat, y \in Nat, j \in 0 .. Entries - 1 :
          /\ r = Prefix(w, k) /\ y = Prefix(w, k - 1) /\ j = Index(w)[k]
          /\ r = Entries * y + j
  BY <1>1, Digits
<1>4. q = r => x = y /\ i = j
  <2>1. q = Entries * x + i => x = q \div Entries /\ i = q % Entries
    BY <1>1, Division
  <2>2. q = Entries * y + j => y = q \div Entries /\ j = q % Entries
    BY <1>1, Division
  <2> QED
    BY <1>2, <1>3, <2>1, <2>2
<1> QED
  BY <1>2, <1>3, <1>4

\* The pages of a 2M page.
LEMMA Area ==
    ASSUME NEW v \in AllPages, NEW w \in AllPages, v % Entries = 0
    PROVE  /\ Prefix(v, Page2M) = Prefix(w, Page2M) <=> v <= w /\ w < v + Entries
           /\ v <= w /\ w < v + Entries => w % Span[Levels - Page2M] = w - v
<1>1. Levels \in Nat /\ Levels >= 2 /\ Entries \in Nat \ {0}
  BY LevelsAssumption, EntriesAssumption
<1>2. v \in Nat /\ w \in Nat
  BY Digits
<1>3. Levels - Page2M = 1 /\ Span[1] = Entries
  <2>1. Span[1] = Entries * Span[1 - 1] /\ Span[0] = 1
    BY <1>1, Spans
  <2> QED
    BY <1>1, <2>1 DEF Page2M
<1>4. Prefix(v, Page2M) = v \div Entries /\ Prefix(w, Page2M) = w \div Entries
  BY <1>3 DEF Prefix
<1>5. PICK q \in Nat : q = v \div Entries /\ v = Entries * q
  <2>1. v \div Entries \in Nat /\ v = Entries * (v \div Entries) + (v % Entries)
    BY <1>1, <1>2, Division
  <2> QED
    BY <1>1, <2>1
<1>a. PICK x \in Nat, j \in 0 .. Entries - 1 :
          x = w \div Entries /\ j = w % Entries /\ w = Entries * x + j
  <2>1. /\ w \div Entries \in Nat /\ w % Entries \in 0 .. Entries - 1
        /\ w = Entries * (w \div Entries) + (w % Entries)
    BY <1>1, <1>2, Division
  <2> QED
    BY <2>1
<1>6. q = x => v <= w /\ w < v + Entries
  BY <1>1, <1>5, <1>a
<1>7. v <= w /\ w < v + Entries => q = x /\ j = w - v
  <2> SUFFICES ASSUME v <= w, w < v + Entries PROVE q = x /\ j = w - v
    OBVIOUS
  <2>1. PICK z \in 0 .. Entries - 1 : z = w - v /\ w = Entries * q + z
    BY <1>1, <1>2, <1>5
  <2>2. q = w \div Entries /\ z = w % Entries
    <3>1. \A y \in Nat, r \in 0 .. Entries - 1 :
              w = Entries * y + r => y = w \div Entries /\ r = w % Entries
      BY <1>1, <1>2, Division
    <3> QED
      BY <2>1, <3>1
  <2> QED
    BY <1>a, <2>1, <2>2
<1> QED
  BY <1>3, <1>4, <1>5, <1>a, <1>6, <1>7
-----------------------------------------------------------------------------
\* Pages that agree in k digits agree in fewer.
LEMMA PrefixDown ==
    ASSUME NEW v \in AllPages, NEW w \in AllPages, NEW k \in 0 .. Levels,
           Prefix(v, k) = Prefix(w, k)
    PROVE  \A j \in 0 .. k : Prefix(v, j) = Prefix(w, j)
<1>1. Levels \in Nat
  BY LevelsAssumption
<1> DEFINE T == {j \in 0 .. k : Prefix(v, k - j) = Prefix(w, k - j)}
<1>2. PICK a \in Int, h \in Int : a = 0 /\ h = k /\ a <= h
  BY <1>1
<1>3. a \in T
  BY <1>2
<1>4. \A j \in a .. h - 1 : j \in T => j + 1 \in T
  <2> SUFFICES ASSUME NEW j \in 0 .. k - 1, Prefix(v, k - j) = Prefix(w, k - j)
               PROVE  Prefix(v, k - (j + 1)) = Prefix(w, k - (j + 1))
    BY <1>2
  <2>1. PICK c \in 1 .. Levels : c = k - j /\ c - 1 = k - (j + 1)
    BY <1>1
  <2> QED
    BY <2>1, PrefixStep
<1> HIDE DEF T
<1>5. a .. h \subseteq T
  BY <1>2, <1>3, <1>4, Ascent
<1> SUFFICES ASSUME NEW j \in 0 .. k PROVE Prefix(v, j) = Prefix(w, j)
  OBVIOUS
<1>6. k - j \in T /\ k - (k - j) = j
  BY <1>1, <1>2, <1>5
<1> QED
  BY <1>6 DEF T

\* The top level index says which part of the address space a page is in.
LEMMA TopIndex ==
    ASSUME NEW v \in AllPages, NEW p4 \in Nat
    PROVE  /\ Prefix(v, 1) = Index(v)[1]
           /\ PageOf(p4) \in Nat
           /\ PageOf(p4) <= v <=> p4 <= Index(v)[1]
<1>1. Levels \in Nat /\ Levels >= 2 /\ 1 \in 1 .. Levels /\ 1 - 1 = 0 /\ Entries \in Nat
  BY LevelsAssumption, EntriesAssumption
<1>2. PICK x \in Nat : x = Index(v)[1] /\ x = Prefix(v, 1)
  <2>1. Prefix(v, 1) = Entries * Prefix(v, 0) + Index(v)[1] /\ Prefix(v, 0) = 0
        /\ Index(v)[1] \in 0 .. Entries - 1
    BY <1>1, Digits
  <2> QED
    BY <1>1, <2>1
<1>3. PICK d \in Nat \ {0} : d = Span[Levels - 1]
  BY <1>1, Spans, SMTT(20)
<1>4. v \in Nat
  BY Digits
<1>5. PICK y \in 0 .. d - 1 : v = d * x + y
  <2>1. x = v \div d
    BY <1>2, <1>3 DEF Prefix
  <2>2. v = d * (v \div d) + (v % d) /\ v % d \in 0 .. d - 1
    BY <1>4, Division
  <2> QED
    BY <2>1, <2>2
<1>6. PageOf(p4) = d * p4 /\ d * p4 \in Nat
  BY <1>3 DEF PageOf
<1>7. ASSUME p4 <= x PROVE d * p4 <= v
  <2>1. PICK z \in Nat : x = p4 + z
    BY <1>7
  <2>2. d * x = d * p4 + d * z /\ d * z \in Nat /\ d * x \in Nat
    BY <2>1
  <2> QED
    BY <1>5, <1>6, <2>2
<1>8. ASSUME x < p4 PROVE v < d * p4
  <2>1. PICK z \in Nat : p4 = x + 1 + z
    BY <1>8
  <2>2. d * p4 = d * x + d + d * z /\ d * z \in Nat /\ d * x \in Nat
    BY <2>1
  <2> QED
    BY <1>4, <1>5, <1>6, <2>2
<1> QED
  BY <1>2, <1>4, <1>6, <1>7, <1>8
-----------------------------------------------------------------------------
\* The contents of the frames, and one step of a walk.
Slots == 0 .. Entries - 1
Entry ==
    {e \in [flags : SUBSET EntryFlags, frame : Nat \cup {NoFrame}] : Present(e) => e.frame \in Nat}
Memory == [Frames -> [Slots -> Entry]]
Follow(m, t, i) ==
    IF t = NoFrame THEN NoFrame
    ELSE IF IsTable(m[t][i]) THEN m[t][i].frame ELSE NoFrame

\* A walk starts at the root and follows one entry per level.
LEMMA Walk ==
    ASSUME NEW m, NEW r, NEW v
    PROVE  /\ TablesOn(m, r, v)[1] = r
           /\ \A k \in 2 .. Levels :
                TablesOn(m, r, v)[k] = Follow(m, TablesOn(m, r, v)[k - 1], Index(v)[k - 1])
<1> DEFINE G(t, k) == Follow(m, t, Index(v)[k - 1])
           Upto(x, h) == x = [k \in 1 .. h |-> IF k = 1 THEN r ELSE G(x[k - 1], k)]
           T == {h \in 1 .. Levels : \E x : Upto(x, h)}
<1>1. Levels \in Nat /\ Levels >= 2
  BY LevelsAssumption
<1>2. TablesOn(m, r, v) = CHOOSE x : Upto(x, Levels)
  BY DEF TablesOn, G, Follow
<1> HIDE DEF G
<1>3. 1 \in T
  <2>1. Upto([k \in 1 .. 1 |-> r], 1)
    OBVIOUS
  <2>2. 1 \in 1 .. Levels
    BY <1>1
  <2> HIDE DEF Upto
  <2> QED
    BY <2>1, <2>2
<1>4. PICK a \in Int, h \in Int : a = 1 /\ h = Levels /\ a <= h
  BY <1>1
<1>5. \A k \in a .. h - 1 : k \in T => k + 1 \in T
  <2> SUFFICES ASSUME NEW k \in 1 .. Levels - 1, NEW x, Upto(x, k)
               PROVE  \E y : Upto(y, k + 1)
    BY <1>1, <1>4
  <2> DEFINE y == [j \in 1 .. k + 1 |-> IF j = k + 1 THEN G(x[k], k + 1) ELSE x[j]]
  <2>1. \A j \in 1 .. k : x[j] = IF j = 1 THEN r ELSE G(x[j - 1], j)
    OBVIOUS
  <2>2. \A j \in 1 .. k : y[j] = x[j]
    OBVIOUS
  <2>3. y[k + 1] = G(x[k], k + 1)
    OBVIOUS
  <2>4. \A j \in 1 .. k + 1 : y[j] = IF j = 1 THEN r ELSE G(y[j - 1], j)
    <3> SUFFICES ASSUME NEW j \in 1 .. k + 1
                 PROVE  y[j] = IF j = 1 THEN r ELSE G(y[j - 1], j)
      OBVIOUS
    <3> HIDE DEF y
    <3>1. CASE j = k + 1
      <4>1. j # 1 /\ j - 1 = k /\ k \in 1 .. k
        BY <3>1
      <4>2. y[k] = x[k]
        BY <2>2, <4>1
      <4> QED
        BY <2>3, <3>1, <4>1, <4>2
    <3>2. CASE j = 1
      BY <2>1, <2>2, <3>2
    <3>3. CASE j \in 2 .. k
      <4>1. j # 1 /\ j - 1 \in 1 .. k /\ j \in 1 .. k
        BY <3>3
      <4>2. y[j - 1] = x[j - 1] /\ y[j] = x[j] /\ x[j] = G(x[j - 1], j)
        BY <2>1, <2>2, <4>1
      <4> QED
        BY <4>1, <4>2
    <3> QED
      BY <3>1, <3>2, <3>3
  <2>5. Upto(y, k + 1)
    <3>1. y = [j \in 1 .. k + 1 |-> y[j]]
      OBVIOUS
    <3> HIDE DEF y
    <3> QED
      BY <2>4, <3>1
  <2> QED
    BY <2>5
<1>6. Levels \in T
  <2> HIDE DEF T
  <2> QED
    BY <1>1, <1>3, <1>4, <1>5, Ascent
<1>7. Upto(TablesOn(m, r, v), Levels)
  <2>1. \E x : Upto(x, Levels)
    BY <1>6
  <2> HIDE DEF Upto
  <2> QED
    BY <1>2, <2>1
<1>8. PICK x : x = TablesOn(m, r, v) /\ Upto(x, Levels)
  BY <1>7
<1>9. x[1] = r /\ \A k \in 2 .. Levels : x[k] = G(x[k - 1], k)
  <2>1. 1 \in 1 .. Levels
    BY <1>1
  <2>2. \A k \in 2 .. Levels : k \in 1 .. Levels /\ k # 1
    BY <1>1
  <2> QED
    BY <1>8, <2>1, <2>2
<1> QED
  BY <1>8, <1>9 DEF G

\* A walk visits the tables of some levels, from the first on.
LEMMA Frontier ==
    ASSUME NEW m, NEW r \in Frames, NEW v \in AllPages
    PROVE  \E d \in 1 .. Levels :
               \A k \in 1 .. Levels : TablesOn(m, r, v)[k] # NoFrame <=> k <= d
<1>1. Levels \in Nat /\ Levels >= 2 /\ NoFrame \notin Frames
  BY LevelsAssumption, PoolAssumption
<1>2. PICK t :
          /\ t = TablesOn(m, r, v)
          /\ t[1] = r
          /\ \A k \in 2 .. Levels : t[k] = Follow(m, t[k - 1], Index(v)[k - 1])
  BY Walk
<1>3. \A k \in 2 .. Levels : t[k - 1] = NoFrame => t[k] = NoFrame
  BY <1>2 DEF Follow
<1>4. CASE \A k \in 1 .. Levels : t[k] # NoFrame
  <2>1. PICK d \in 1 .. Levels : d = Levels
    BY <1>1
  <2>2. \A k \in 1 .. Levels : t[k] # NoFrame <=> k <= d
    BY <1>1, <1>4, <2>1
  <2> QED
    BY <1>2, <2>2
<1>5. CASE \E k \in 1 .. Levels : t[k] = NoFrame
  <2> DEFINE E == {k \in 1 .. Levels : t[k] = NoFrame}
  <2>1. E # {} /\ E \subseteq Nat
    BY <1>1, <1>5
  <2>2. PICK e \in E : \A k \in E : e <= k
    <3> HIDE DEF E
    <3> QED
      BY <2>1, Least
  <2>3. e \in 2 .. Levels /\ t[e] = NoFrame
    BY <1>1, <1>2, <2>2
  <2>4. e .. Levels \subseteq E
    <3>1. PICK h \in Int : h = Levels /\ e <= h
      BY <1>1, <2>3
    <3>2. \A k \in e .. h - 1 : k \in E => k + 1 \in E
      <4> SUFFICES ASSUME NEW k \in e .. Levels - 1, t[k] = NoFrame PROVE k + 1 \in E
        BY <3>1
      <4>1. k + 1 \in 2 .. Levels /\ (k + 1) - 1 = k
        BY <1>1, <2>3
      <4> QED
        BY <1>1, <1>3, <4>1
    <3>3. e \in Int
      BY <2>3
    <3> HIDE DEF E
    <3>4. e .. h \subseteq E
      BY <2>2, <3>1, <3>2, <3>3, Ascent
    <3> QED
      BY <3>1, <3>4
  <2>5. e - 1 \in 1 .. Levels /\ \A k \in 1 .. Levels : t[k] # NoFrame <=> k <= e - 1
    BY <1>1, <2>2, <2>3, <2>4
  <2> QED
    BY <1>2, <2>5
<1> QED
  BY <1>4, <1>5

\* What a walk that ends at level d translates to.
Result(e, v, d) ==
    IF Present(e) /\ (d = Levels \/ "SIZE" \in e.flags)
    THEN e.frame + (v % Span[Levels - d]) ELSE NoFrame

\* The last table of a walk decides the translation.
LEMMA TranslateAt ==
    ASSUME NEW m, NEW r \in Frames, NEW v \in AllPages, NEW d \in 1 .. Levels,
           TablesOn(m, r, v)[d] # NoFrame,
           d < Levels => TablesOn(m, r, v)[d + 1] = NoFrame
    PROVE  /\ DepthOf(TablesOn(m, r, v)) = d
           /\ Translate(m, r, v) = Result(m[TablesOn(m, r, v)[d]][Index(v)[d]], v, d)
<1>1. Levels \in Nat
  BY LevelsAssumption
<1>2. PICK t : t = TablesOn(m, r, v)
  OBVIOUS
<1>3. PICK c \in 1 .. Levels : \A k \in 1 .. Levels : t[k] # NoFrame <=> k <= c
  BY <1>2, Frontier
<1>4. c = d
  <2>1. d <= c
    BY <1>2, <1>3
  <2>2. ~(d < c)
    BY <1>1, <1>2, <1>3
  <2> QED
    BY <2>1, <2>2
<1>5. DepthOf(t) = d
  <2>1. d \in {k \in 1 .. Levels : t[k] # NoFrame}
        /\ \A k \in {k \in 1 .. Levels : t[k] # NoFrame} : d >= k
    BY <1>3, <1>4
  <2> DEFINE D == {k \in 1 .. Levels : t[k] # NoFrame}
  <2>2. D \subseteq Nat
    OBVIOUS
  <2> HIDE DEF D
  <2>3. (CHOOSE x \in D : \A y \in D : x >= y) = d
    BY <2>1, <2>2 DEF D
  <2> QED
    BY <2>3 DEF DepthOf, Max, D
<1> QED
  BY <1>2, <1>5 DEF Translate, Result
-----------------------------------------------------------------------------
\* Pages that agree in their first digits share the tables of those levels.
LEMMA SamePrefix ==
    ASSUME NEW m, NEW r, NEW v \in AllPages, NEW w \in AllPages,
           NEW k \in 1 .. Levels, Prefix(v, k - 1) = Prefix(w, k - 1)
    PROVE  TablesOn(m, r, v)[k] = TablesOn(m, r, w)[k]
<1>1. Levels \in Nat /\ Levels >= 2
  BY LevelsAssumption
<1>2. PICK x : /\ x = TablesOn(m, r, v) /\ x[1] = r
               /\ \A j \in 2 .. Levels : x[j] = Follow(m, x[j - 1], Index(v)[j - 1])
  BY Walk
<1>3. PICK y : /\ y = TablesOn(m, r, w) /\ y[1] = r
               /\ \A j \in 2 .. Levels : y[j] = Follow(m, y[j - 1], Index(w)[j - 1])
  BY Walk
<1> DEFINE T == {j \in 1 .. Levels : Prefix(v, j - 1) = Prefix(w, j - 1) => x[j] = y[j]}
<1>4. 1 \in T
  BY <1>1, <1>2, <1>3
<1>5. PICK a \in Int, h \in Int : a = 1 /\ h = Levels /\ a <= h
  BY <1>1
<1>6. \A j \in a .. h - 1 : j \in T => j + 1 \in T
  <2> SUFFICES ASSUME NEW j \in 1 .. Levels - 1, j \in T, Prefix(v, j) = Prefix(w, j)
               PROVE  x[j + 1] = y[j + 1]
    BY <1>1, <1>5
  <2>1. j \in 1 .. Levels /\ j + 1 \in 2 .. Levels /\ (j + 1) - 1 = j
    BY <1>1
  <2>2. Prefix(v, j - 1) = Prefix(w, j - 1) /\ Index(v)[j] = Index(w)[j]
    BY <2>1, PrefixStep
  <2> QED
    BY <1>2, <1>3, <2>1, <2>2
<1> HIDE DEF T
<1>7. a .. h \subseteq T
  BY <1>4, <1>5, <1>6, Ascent
<1> QED
  BY <1>2, <1>3, <1>5, <1>7 DEF T

\* The tables under r form a tree: each is reached at one level by one
\* prefix, none of them is a free frame, and large pages appear at the level
-----------------------------------------------------------------------------
\* The tables under a set R of roots, some of which share tables: each table
\* lies in the pool, is reached at one level by one prefix, and, under a top
\* level index in P, from one root; none of them is a free frame, and large
\* pages are 2M pages under a top level index in B.
Inside(m, R) ==
    \A q \in R : \A v \in AllPages : \A k \in 1 .. Levels :
        TablesOn(m, q, v)[k] \in Frames \cup {NoFrame}
Distinct(m, R, P) ==
    \A q, r \in R : \A v, w \in AllPages : \A j, k \in 1 .. Levels :
        TablesOn(m, q, v)[j] = TablesOn(m, r, w)[k] /\ TablesOn(m, q, v)[j] # NoFrame
            => /\ j = k /\ Prefix(v, j - 1) = Prefix(w, j - 1)
               /\ j = 1 \/ Index(v)[1] \in P => q = r
NotFree(m, f, R) ==
    \A q \in R : \A v \in AllPages : \A k \in 1 .. Levels : TablesOn(m, q, v)[k] \notin f
SmallAbove(m, R, B) ==
    \A q \in R : \A v \in AllPages : \A k \in 1 .. Levels - 1 :
        TablesOn(m, q, v)[k] # NoFrame /\ ~(k = Page2M /\ Index(v)[1] \in B) =>
            "SIZE" \notin m[TablesOn(m, q, v)[k]][Index(v)[k]].flags
Forest(m, f, R, P, B) ==
    /\ m \in Memory
    /\ f \subseteq Frames /\ R \subseteq Frames
    /\ Inside(m, R) /\ Distinct(m, R, P) /\ NotFree(m, f, R) /\ SmallAbove(m, R, B)

\* The walk of q to w passes slot i of table t at level k.
At(m, q, w, k, t, i) == TablesOn(m, q, w)[k] = t /\ Index(w)[k] = i

\* Walks through one slot agree up to there.
LEMMA AtPrefix ==
    ASSUME NEW m, NEW R, NEW P, Distinct(m, R, P), NEW r \in R, NEW v \in AllPages,
           NEW k \in 1 .. Levels, NEW t \in Frames, t = TablesOn(m, r, v)[k],
           NEW i, i = Index(v)[k], NEW q \in R, NEW w \in AllPages
    PROVE  /\ At(m, q, w, k, t, i) =>
                 /\ Prefix(w, k) = Prefix(v, k)
                 /\ k = 1 \/ Index(v)[1] \in P => q = r
           /\ q = r /\ Prefix(w, k) = Prefix(v, k) => At(m, q, w, k, t, i)
<1>1. NoFrame \notin Frames
  BY PoolAssumption
<1>2. ASSUME At(m, q, w, k, t, i)
      PROVE  Prefix(w, k) = Prefix(v, k) /\ (k = 1 \/ Index(v)[1] \in P => q = r)
  <2>1. TablesOn(m, r, v)[k] = TablesOn(m, q, w)[k] /\ TablesOn(m, r, v)[k] # NoFrame
        /\ Index(w)[k] = Index(v)[k]
    BY <1>1, <1>2 DEF At
  <2>2. Prefix(v, k - 1) = Prefix(w, k - 1) /\ (k = 1 \/ Index(v)[1] \in P => r = q)
    BY <2>1 DEF Distinct
  <2>3. Prefix(w, k) = Prefix(v, k)
    BY <2>1, <2>2, PrefixStep
  <2> QED
    BY <2>2, <2>3
<1>3. ASSUME q = r, Prefix(w, k) = Prefix(v, k) PROVE At(m, q, w, k, t, i)
  <2>1. Prefix(w, k - 1) = Prefix(v, k - 1) /\ Index(w)[k] = i
    BY <1>3, PrefixStep
  <2>3. TablesOn(m, r, w)[k] = TablesOn(m, r, v)[k]
    BY <2>1, SamePrefix
  <2> QED
    BY <1>3, <2>1, <2>3 DEF At
<1> QED
  BY <1>2, <1>3

\* m2 is m with the cleared table new linked into slot i of table t.
Link(new) == [flags |-> {"PRESENT"}, frame |-> new]
Links(m2, m, t, i, new) ==
    /\ m2 \in Memory
    /\ m2[new] = ZeroTable
    /\ m2[t][i] = Link(new)
    /\ \A u \in Frames \ {new} : \A j \in Slots : u # t \/ j # i => m2[u][j] = m[u][j]

\* The two writes of map_raw_option for a missing table.
LEMMA Linking ==
    ASSUME NEW m \in Memory, NEW t \in Frames, NEW i \in Slots, NEW new \in Frames, t # new
    PROVE  Links([m EXCEPT ![new] = ZeroTable, ![t][i] = Link(new)], m, t, i, new)
<1>1. Link(new) \in Entry /\ ZeroTable \in [Slots -> Entry]
  BY PoolAssumption DEF Link, Entry, EntryFlags, ZeroTable, Empty, Slots, Present
<1> DEFINE m2 == [m EXCEPT ![new] = ZeroTable, ![t][i] = Link(new)]
<1> HIDE DEF Link, Entry, ZeroTable, Slots
<1>2. m2[new] = ZeroTable /\ m2[t][i] = Link(new)
  BY DEF Memory
<1>3. m2 \in Memory
  BY <1>1 DEF Memory
<1>4. \A u \in Frames \ {new} : \A j \in Slots : u # t \/ j # i => m2[u][j] = m[u][j]
  BY DEF Memory
<1> QED
  BY <1>2, <1>3, <1>4 DEF Links

\* A table is linked into an unused slot of the walk of r to v.
Linkable(m, f, r, v, k, t, i, new, m2) ==
    /\ t = TablesOn(m, r, v)[k - 1] /\ i = Index(v)[k - 1]
    /\ ~Present(m[t][i])
    /\ new \in f
    /\ Links(m2, m, t, i, new)

\* The walks of a forest into which a table has been linked at level k of v:
\* those through its slot reach the new table, the others do not change.
LEMMA LinkWalk ==
    ASSUME NEW m, NEW f, NEW R, NEW P, NEW B, Forest(m, f, R, P, B), NEW r \in R,
           NEW v \in AllPages, NEW k \in 2 .. Levels, NEW t \in Frames, NEW i \in Slots,
           NEW new, NEW m2, Linkable(m, f, r, v, k, t, i, new, m2),
           NEW q \in R, NEW w \in AllPages
    PROVE  \A j \in 1 .. Levels :
              /\ j = k /\ At(m, q, w, k - 1, t, i)
                    => TablesOn(m, q, w)[j] = NoFrame /\ TablesOn(m2, q, w)[j] = new
              /\ ~(j = k /\ At(m, q, w, k - 1, t, i))
                    => TablesOn(m2, q, w)[j] = TablesOn(m, q, w)[j]
<1>1. Levels \in Nat /\ Levels >= 2 /\ k - 1 \in 1 .. Levels /\ k \in 1 .. Levels
  BY LevelsAssumption
<1>2. /\ m \in Memory /\ f \subseteq Frames /\ new \in f /\ new \in Frames
      /\ NoFrame \notin Frames /\ t = TablesOn(m, r, v)[k - 1] /\ ~Present(m[t][i])
      /\ Links(m2, m, t, i, new)
  BY PoolAssumption DEF Forest, Linkable
<1>3. PICK x : /\ x = TablesOn(m, q, w) /\ x[1] = q
               /\ \A j \in 2 .. Levels : x[j] = Follow(m, x[j - 1], Index(w)[j - 1])
  BY Walk
<1>b. \A j \in 1 .. Levels : x[j] \in Frames \cup {NoFrame}
  BY <1>3 DEF Forest, Inside
<1>4. PICK y : /\ y = TablesOn(m2, q, w) /\ y[1] = q
               /\ \A j \in 2 .. Levels : y[j] = Follow(m2, y[j - 1], Index(w)[j - 1])
  BY Walk
<1> DEFINE Hit == At(m, q, w, k - 1, t, i)
<1>5. Hit <=> x[k - 1] = t /\ Index(w)[k - 1] = i
  BY <1>3 DEF At
<1>6. Hit => x[k] = NoFrame
  BY <1>2, <1>3, <1>5 DEF Follow, IsTable
<1>7. \A j \in 1 .. Levels : x[j] = t => j = k - 1
  BY <1>1, <1>2, <1>3 DEF Forest, Distinct
<1>8. \A j \in 1 .. Levels : x[j] # new
  BY <1>2, <1>3 DEF Forest, NotFree
<1>a. \A j \in 1 .. Levels : Index(w)[j] \in Slots
  BY Digits DEF Slots
<1>c. \A s \in Slots : Follow(m2, new, s) = NoFrame
  BY <1>2 DEF Links, Follow, ZeroTable, Slots, Empty, IsTable, Present
<1>d. Follow(m2, t, i) = new
  BY <1>2 DEF Links, Follow, Link, IsTable, Present
<1>e. \A u \in Frames \cup {NoFrame} : \A s \in Slots :
         u # new /\ (u # t \/ s # i) => Follow(m2, u, s) = Follow(m, u, s)
  BY <1>2 DEF Links, Follow
<1> DEFINE Same(j) == (j = k /\ Hit => y[j] = new) /\ (~(j = k /\ Hit) => y[j] = x[j])
           T == {j \in 1 .. Levels : Same(j)}
<1> HIDE DEF Hit
<1>9. 1 \in T
  BY <1>1, <1>3, <1>4
<1>10. PICK a \in Int, h \in Int : a = 1 /\ h = Levels /\ a <= h
  BY <1>1
<1>11. \A j \in a .. h - 1 : j \in T => j + 1 \in T
  <2> SUFFICES ASSUME NEW j \in 1 .. Levels - 1, Same(j) PROVE Same(j + 1)
    BY <1>1, <1>10
  <2>1. j \in 1 .. Levels /\ j + 1 \in 2 .. Levels /\ (j + 1) - 1 = j
    BY <1>1
  <2>2. x[j + 1] = Follow(m, x[j], Index(w)[j]) /\ y[j + 1] = Follow(m2, y[j], Index(w)[j])
    BY <1>3, <1>4, <2>1
  <2>3. CASE j = k /\ Hit
    <3>1. y[j + 1] = NoFrame
      BY <1>a, <1>c, <2>1, <2>2, <2>3
    <3>2. x[j + 1] = NoFrame
      BY <1>6, <2>2, <2>3 DEF Follow
    <3> QED
      BY <1>1, <2>1, <2>3, <3>1, <3>2
  <2>4. CASE ~(j = k /\ Hit) /\ j + 1 = k /\ Hit
    <3>1. y[j] = t /\ Index(w)[j] = i
      BY <1>1, <1>5, <2>1, <2>4
    <3> QED
      BY <1>d, <2>1, <2>2, <2>4, <3>1
  <2>5. CASE ~(j = k /\ Hit) /\ ~(j + 1 = k /\ Hit)
    <3>1. y[j] = x[j]
      BY <2>5
    <3>2. x[j] # new /\ x[j] \in Frames \cup {NoFrame} /\ Index(w)[j] \in Slots
      BY <1>8, <1>a, <1>b, <2>1
    <3>3. x[j] # t \/ Index(w)[j] # i
      <4> SUFFICES ASSUME x[j] = t, Index(w)[j] = i PROVE FALSE
        OBVIOUS
      <4>1. j = k - 1
        BY <1>7, <2>1
      <4> QED
        BY <1>1, <1>5, <2>1, <2>5, <4>1
    <3> QED
      BY <1>e, <2>2, <2>5, <3>1, <3>2, <3>3
  <2> QED
    BY <2>3, <2>4, <2>5
<1> HIDE DEF T
<1>12. a .. h \subseteq T
  BY <1>9, <1>10, <1>11, Ascent
<1>13. \A j \in 1 .. Levels : Same(j)
  BY <1>10, <1>12 DEF T
<1> QED
  BY <1>3, <1>4, <1>6, <1>13 DEF Hit

\* The tables of m2 are those of m and frames that left the pool.
Grown(m, f, m2, f2, R) ==
    /\ f2 \subseteq f
    /\ \A q \in R : \A w \in AllPages : \A j \in 1 .. Levels :
          TablesOn(m2, q, w)[j] = TablesOn(m, q, w)[j] \/ TablesOn(m2, q, w)[j] \in f \ f2

\* Of the roots only r changes, in the slot that the walk to v passes, and a
\* page that is not in the root itself takes an unused slot.
TopKept(m, m2, R, r, v, d) ==
    \A q \in R : \A s \in Slots :
        m2[q][s] # m[q][s] => q = r /\ s = Index(v)[1] /\ (d > 1 => ~Present(m[q][s]))

\* Linking a table keeps the forest and changes no root but r.
LEMMA LinkForest ==
    ASSUME NEW m, NEW f, NEW R, NEW P, NEW B, Forest(m, f, R, P, B), NEW r \in R,
           NEW v \in AllPages, NEW k \in 2 .. Levels, NEW t \in Frames, NEW i \in Slots,
           NEW new, NEW m2, Linkable(m, f, r, v, k, t, i, new, m2)
    PROVE  /\ Forest(m2, f \ {new}, R, P, B)
           /\ Grown(m, f, m2, f \ {new}, R)
           /\ \A d : TopKept(m, m2, R, r, v, d)
<1>1. Levels \in Nat /\ Levels >= 2 /\ k - 1 \in 1 .. Levels /\ k \in 1 .. Levels
  BY LevelsAssumption
<1>2. /\ m \in Memory /\ f \subseteq Frames /\ R \subseteq Frames /\ new \in f /\ new \in Frames
      /\ NoFrame \notin Frames /\ t = TablesOn(m, r, v)[k - 1] /\ i = Index(v)[k - 1]
      /\ Links(m2, m, t, i, new) /\ Distinct(m, R, P) /\ ~Present(m[t][i])
  BY PoolAssumption DEF Forest, Linkable
<1> DEFINE Hit(q, w, j) == j = k /\ At(m, q, w, k - 1, t, i)
<1>3. \A q \in R : \A w \in AllPages : \A j \in 1 .. Levels :
         /\ Hit(q, w, j) => TablesOn(m2, q, w)[j] = new
         /\ ~Hit(q, w, j) => TablesOn(m2, q, w)[j] = TablesOn(m, q, w)[j]
  BY LinkWalk
<1>a. ASSUME NEW q \in R, NEW w \in AllPages, At(m, q, w, k - 1, t, i)
      PROVE  Prefix(w, k - 1) = Prefix(v, k - 1) /\ (k - 1 = 1 \/ Index(v)[1] \in P => q = r)
  <2>1. PICK l \in 1 .. Levels : l = k - 1
    BY <1>1
  <2> QED
    BY <1>2, <1>a, <2>1, AtPrefix
<1>4. Distinct(m2, R, P)
  <2> SUFFICES ASSUME NEW q \in R, NEW s \in R, NEW w \in AllPages, NEW u \in AllPages,
                      NEW j \in 1 .. Levels, NEW l \in 1 .. Levels,
                      TablesOn(m2, q, w)[j] = TablesOn(m2, s, u)[l],
                      TablesOn(m2, q, w)[j] # NoFrame
               PROVE  /\ j = l /\ Prefix(w, j - 1) = Prefix(u, j - 1)
                      /\ j = 1 \/ Index(w)[1] \in P => q = s
    BY DEF Distinct
  <2>1. CASE Hit(q, w, j) /\ Hit(s, u, l)
    <3>1. /\ Prefix(w, k - 1) = Prefix(v, k - 1) /\ (k - 1 = 1 \/ Index(v)[1] \in P => q = r)
          /\ Prefix(u, k - 1) = Prefix(v, k - 1) /\ (k - 1 = 1 \/ Index(v)[1] \in P => s = r)
      BY <1>a, <2>1
    <3>2. Index(w)[1] = Index(v)[1]
      <4>1. PICK c \in 0 .. Levels : c = k - 1 /\ 1 \in 0 .. c
        BY <1>1
      <4>2. Prefix(w, 1) = Prefix(v, 1)
        BY <3>1, <4>1, PrefixDown
      <4>3. 0 \in Nat /\ Prefix(w, 1) = Index(w)[1] /\ Prefix(v, 1) = Index(v)[1]
        BY TopIndex
      <4> QED
        BY <4>2, <4>3
    <3> QED
      BY <1>1, <2>1, <3>1, <3>2
  <2>2. CASE ~Hit(q, w, j) /\ ~Hit(s, u, l)
    <3>1. TablesOn(m2, q, w)[j] = TablesOn(m, q, w)[j] /\ TablesOn(m2, s, u)[l] = TablesOn(m, s, u)[l]
      BY <1>3, <2>2
    <3>2. TablesOn(m, q, w)[j] = TablesOn(m, s, u)[l] /\ TablesOn(m, q, w)[j] # NoFrame
      BY <3>1
    <3> QED
      BY <1>2, <3>2 DEF Distinct
  <2>3. TablesOn(m, q, w)[j] # new /\ TablesOn(m, s, u)[l] # new
    BY <1>2 DEF Forest, NotFree
  <2> QED
    BY <1>3, <2>1, <2>2, <2>3
<1>5. NotFree(m2, f \ {new}, R)
  BY <1>3 DEF Forest, NotFree
<1>b. Inside(m2, R)
  BY <1>2, <1>3 DEF Forest, Inside
<1>6. SmallAbove(m2, R, B)
  <2> SUFFICES ASSUME NEW q \in R, NEW w \in AllPages, NEW j \in 1 .. Levels - 1,
                      TablesOn(m2, q, w)[j] # NoFrame, ~(j = Page2M /\ Index(w)[1] \in B)
               PROVE  "SIZE" \notin m2[TablesOn(m2, q, w)[j]][Index(w)[j]].flags
    BY DEF SmallAbove
  <2>1. j \in 1 .. Levels /\ Index(w)[j] \in Slots
    BY <1>1, Digits DEF Slots
  <2>2. PICK s \in Slots : s = Index(w)[j]
    BY <2>1
  <2> DEFINE u == TablesOn(m2, q, w)[j]
  <2>3. CASE u = new
    <3>1. m2[u][s] = Empty
      BY <1>2, <2>2, <2>3 DEF Links, ZeroTable, Slots
    <3> QED
      BY <2>2, <3>1 DEF Empty
  <2>4. CASE u = t /\ s = i
    BY <1>2, <2>2, <2>4 DEF Links, Link
  <2>5. CASE u # new /\ ~(u = t /\ s = i)
    <3>1. u = TablesOn(m, q, w)[j] /\ u # NoFrame
      BY <1>3, <2>1, <2>2, <2>5
    <3>2. u \in Frames
      BY <2>1, <3>1 DEF Forest, Inside
    <3>3. m2[u][s] = m[u][s]
      BY <1>2, <2>2, <2>5, <3>2 DEF Links
    <3> QED
      BY <2>2, <3>1, <3>3 DEF Forest, SmallAbove
  <2> QED
    BY <2>3, <2>4, <2>5
<1>7. m2 \in Memory
  BY <1>2 DEF Links
<1>8. Grown(m, f, m2, f \ {new}, R)
  BY <1>2, <1>3 DEF Grown
<1>9. ASSUME NEW d PROVE TopKept(m, m2, R, r, v, d)
  <2> SUFFICES ASSUME NEW q \in R, NEW s \in Slots, m2[q][s] # m[q][s]
               PROVE  q = r /\ s = Index(v)[1] /\ ~Present(m[q][s])
    BY DEF TopKept
  <2>1. TablesOn(m, q, v)[1] = q /\ q \in Frames
    BY <1>2, Walk
  <2>2. q # new
    BY <1>1, <1>2, <2>1 DEF Forest, NotFree
  <2>3. q = t /\ s = i
    BY <1>2, <2>1, <2>2 DEF Links
  <2>4. PICK l \in 1 .. Levels : l = k - 1
    BY <1>1
  <2>5. TablesOn(m, q, v)[1] = TablesOn(m, r, v)[l] /\ TablesOn(m, q, v)[1] # NoFrame
    BY <1>2, <2>1, <2>3, <2>4
  <2>6. 1 = l /\ q = r
    BY <1>1, <1>2, <2>5 DEF Distinct
  <2> QED
    BY <1>2, <2>3, <2>4, <2>6
<1> QED
  BY <1>2, <1>4, <1>5, <1>6, <1>7, <1>8, <1>9, <1>b DEF Forest

\* The new table is empty, and its slot was: no page translates differently.
LEMMA LinkTranslate ==
    ASSUME NEW m, NEW f, NEW R, NEW P, NEW B, Forest(m, f, R, P, B), NEW r \in R,
           NEW v \in AllPages, NEW k \in 2 .. Levels, NEW t \in Frames, NEW i \in Slots,
           NEW new, NEW m2, Linkable(m, f, r, v, k, t, i, new, m2),
           NEW q \in R, NEW w \in AllPages
    PROVE  Translate(m2, q, w) = Translate(m, q, w)
<1>1. Levels \in Nat /\ Levels >= 2 /\ k - 1 \in 1 .. Levels /\ k \in 1 .. Levels
  BY LevelsAssumption
<1>2. /\ m \in Memory /\ f \subseteq Frames /\ q \in Frames /\ new \in f /\ new \in Frames
      /\ NoFrame \notin Frames /\ t = TablesOn(m, r, v)[k - 1] /\ ~Present(m[t][i])
      /\ Links(m2, m, t, i, new)
  BY PoolAssumption DEF Forest, Linkable
<1>3. PICK x : x = TablesOn(m, q, w)
  OBVIOUS
<1>4. PICK y : y = TablesOn(m2, q, w)
  OBVIOUS
<1>b. \A j \in 1 .. Levels : x[j] \in Frames \cup {NoFrame}
  BY <1>3 DEF Forest, Inside
<1>5. PICK d \in 1 .. Levels : \A j \in 1 .. Levels : x[j] # NoFrame <=> j <= d
  <2>1. \E d \in 1 .. Levels : \A j \in 1 .. Levels : TablesOn(m, q, w)[j] # NoFrame <=> j <= d
    BY <1>2, Frontier
  <2> QED
    BY <1>3, <2>1
<1>6. x[d] # NoFrame /\ (d < Levels => x[d + 1] = NoFrame)
  BY <1>1, <1>5
<1>7. Translate(m, q, w) = Result(m[x[d]][Index(w)[d]], w, d)
  <2>1. TablesOn(m, q, w)[d] # NoFrame /\ (d < Levels => TablesOn(m, q, w)[d + 1] = NoFrame)
    BY <1>3, <1>6
  <2>2. Translate(m, q, w) = Result(m[TablesOn(m, q, w)[d]][Index(w)[d]], w, d)
    BY <1>2, <2>1, TranslateAt
  <2> QED
    BY <1>3, <2>2
<1>a. \A j \in 1 .. Levels : Index(w)[j] \in Slots
  BY Digits DEF Slots
<1>8. CASE At(m, q, w, k - 1, t, i)
  <2>1. /\ x[k] = NoFrame /\ y[k] = new
        /\ \A j \in 1 .. Levels : j # k => y[j] = x[j]
    <3>1. \A j \in 1 .. Levels :
              /\ j = k => TablesOn(m, q, w)[j] = NoFrame /\ TablesOn(m2, q, w)[j] = new
              /\ j # k => TablesOn(m2, q, w)[j] = TablesOn(m, q, w)[j]
      BY <1>8, LinkWalk
    <3> QED
      BY <1>1, <1>3, <1>4, <3>1
  <2>2. x[k - 1] = t /\ Index(w)[k - 1] = i
    BY <1>3, <1>8 DEF At
  <2>4. d = k - 1
    BY <1>1, <1>2, <1>5, <2>1, <2>2
  <2>5. Translate(m, q, w) = NoFrame
    BY <1>2, <1>7, <2>2, <2>4 DEF Result
  <2>6. k < Levels => y[k + 1] = NoFrame
    BY <1>1, <1>5, <2>1, <2>4
  <2>7. Translate(m2, q, w) = Result(m2[new][Index(w)[k]], w, k)
    <3>1. TablesOn(m2, q, w)[k] = new /\ TablesOn(m2, q, w)[k] # NoFrame
          /\ (k < Levels => TablesOn(m2, q, w)[k + 1] = NoFrame)
      BY <1>2, <1>4, <2>1, <2>6
    <3> QED
      BY <1>1, <1>2, <3>1, TranslateAt
  <2>8. m2[new][Index(w)[k]] = Empty
    BY <1>1, <1>2, <1>a DEF Links, ZeroTable, Slots
  <2> QED
    BY <2>5, <2>7, <2>8 DEF Result, Empty, Present
<1>9. CASE ~At(m, q, w, k - 1, t, i)
  <2>1. \A j \in 1 .. Levels : y[j] = x[j]
    <3>1. \A j \in 1 .. Levels : TablesOn(m2, q, w)[j] = TablesOn(m, q, w)[j]
      BY <1>9, LinkWalk
    <3> QED
      BY <1>3, <1>4, <3>1
  <2>2. y[d] = x[d] /\ (d < Levels => y[d + 1] = NoFrame)
    BY <1>1, <1>6, <2>1
  <2>3. Translate(m2, q, w) = Result(m2[x[d]][Index(w)[d]], w, d)
    BY <1>2, <1>4, <1>6, <2>2, TranslateAt
  <2>4. x[d] \in Frames /\ x[d] # new
    BY <1>2, <1>3, <1>6, <1>b DEF Forest, NotFree
  <2>5. x[d] # t \/ Index(w)[d] # i
    <3> SUFFICES ASSUME x[d] = t, Index(w)[d] = i PROVE FALSE
      OBVIOUS
    <3>1. d = k - 1
      BY <1>1, <1>2, <1>3 DEF Forest, Distinct
    <3> QED
      BY <1>3, <1>9, <3>1 DEF At
  <2>6. m2[x[d]][Index(w)[d]] = m[x[d]][Index(w)[d]]
    BY <1>2, <1>a, <2>4, <2>5 DEF Links
  <2> QED
    BY <1>7, <2>3, <2>6
<1> QED
  BY <1>8, <1>9
-----------------------------------------------------------------------------
\* m2 is m with the entry of a page of size d in slot i of table t.
Leaf(frame, d) ==
    [flags |-> IF d = Page4K THEN {"PRESENT"} ELSE {"PRESENT", "SIZE"}, frame |-> frame]
Maps(m2, m, t, i, e) ==
    /\ m2 \in Memory
    /\ m2[t][i] = e
    /\ \A u \in Frames : \A j \in Slots : u # t \/ j # i => m2[u][j] = m[u][j]

\* The entry of a 2M page is no table.
LEMMA LeafType ==
    ASSUME NEW d \in {Page2M, Page4K}, NEW a \in Nat
    PROVE  /\ Leaf(a, d) \in Entry
           /\ Present(Leaf(a, d)) /\ Leaf(a, d).frame = a
           /\ d = Page4K \/ "SIZE" \in Leaf(a, d).flags
           /\ d = Page4K => "SIZE" \notin Leaf(a, d).flags
           /\ IsTable(Leaf(a, d)) => d = Page4K
  BY DEF Leaf, Entry, EntryFlags, Present, IsTable

\* The write of map_raw for the page itself.
LEMMA Mapping ==
    ASSUME NEW m \in Memory, NEW t \in Frames, NEW i \in Slots, NEW e \in Entry
    PROVE  Maps([m EXCEPT ![t][i] = e], m, t, i, e)
<1> DEFINE m2 == [m EXCEPT ![t][i] = e]
<1> HIDE DEF Entry, Slots
<1>1. m2 \in Memory /\ m2[t][i] = e
  BY DEF Memory
<1>2. \A u \in Frames : \A j \in Slots : u # t \/ j # i => m2[u][j] = m[u][j]
  BY DEF Memory
<1> QED
  BY <1>1, <1>2 DEF Maps

\* The entry of a page of size d at v is written where the walk of r ends.
Mappable(m, r, v, d, t, i, a, m2) ==
    /\ t = TablesOn(m, r, v)[d] /\ i = Index(v)[d]
    /\ d < Levels => TablesOn(m, r, v)[d + 1] = NoFrame
    /\ Maps(m2, m, t, i, Leaf(a, d))

\* Writing the entry of a page changes the walks of no page.
LEMMA LeafWalk ==
    ASSUME NEW m, NEW f, NEW R, NEW P, NEW B, Forest(m, f, R, P, B), NEW r \in R,
           NEW v \in AllPages, NEW d \in {Page2M, Page4K}, NEW t \in Frames, NEW i \in Slots,
           NEW a \in Nat, NEW m2, Mappable(m, r, v, d, t, i, a, m2),
           NEW q \in R, NEW w \in AllPages
    PROVE  \A j \in 1 .. Levels : TablesOn(m2, q, w)[j] = TablesOn(m, q, w)[j]
<1>1. Levels \in Nat /\ Levels >= 2 /\ d \in 1 .. Levels /\ Page4K = Levels
  BY LevelsAssumption DEF Page2M, Page4K
<1>2. /\ m \in Memory /\ NoFrame \notin Frames /\ Distinct(m, R, P)
      /\ t = TablesOn(m, r, v)[d] /\ i = Index(v)[d]
      /\ d < Levels => TablesOn(m, r, v)[d + 1] = NoFrame
      /\ Maps(m2, m, t, i, Leaf(a, d))
  BY PoolAssumption DEF Forest, Mappable
<1>3. PICK x : /\ x = TablesOn(m, q, w) /\ x[1] = q
               /\ \A j \in 2 .. Levels : x[j] = Follow(m, x[j - 1], Index(w)[j - 1])
  BY Walk
<1>4. PICK y : /\ y = TablesOn(m2, q, w) /\ y[1] = q
               /\ \A j \in 2 .. Levels : y[j] = Follow(m2, y[j - 1], Index(w)[j - 1])
  BY Walk
<1>a. \A j \in 1 .. Levels : Index(w)[j] \in Slots /\ x[j] \in Frames \cup {NoFrame}
  BY <1>3, Digits DEF Slots, Forest, Inside
<1>b. d < Levels => Follow(m, t, i) = NoFrame
  <2> SUFFICES ASSUME d < Levels PROVE Follow(m, t, i) = NoFrame
    OBVIOUS
  <2>1. PICK c \in 2 .. Levels : c = d + 1 /\ c - 1 = d
    BY <1>1
  <2>2. TablesOn(m, r, v)[c] = Follow(m, TablesOn(m, r, v)[c - 1], Index(v)[c - 1])
    BY Walk
  <2> QED
    BY <1>2, <2>1, <2>2
<1> DEFINE T == {j \in 1 .. Levels : y[j] = x[j]}
<1>5. 1 \in T
  BY <1>1, <1>3, <1>4
<1>6. PICK b \in Int, h \in Int : b = 1 /\ h = Levels /\ b <= h
  BY <1>1
<1>7. \A j \in b .. h - 1 : j \in T => j + 1 \in T
  <2> SUFFICES ASSUME NEW j \in 1 .. Levels - 1, y[j] = x[j] PROVE y[j + 1] = x[j + 1]
    BY <1>1, <1>6
  <2>1. j \in 1 .. Levels /\ j + 1 \in 2 .. Levels /\ (j + 1) - 1 = j
    BY <1>1
  <2>2. x[j + 1] = Follow(m, x[j], Index(w)[j]) /\ y[j + 1] = Follow(m2, x[j], Index(w)[j])
    BY <1>3, <1>4, <2>1
  <2>3. CASE x[j] = t /\ Index(w)[j] = i
    <3>1. j = d
      BY <1>1, <1>2, <1>3, <2>1, <2>3 DEF Distinct
    <3>2. d < Levels
      BY <1>1, <3>1
    <3>3. x[j + 1] = NoFrame
      BY <1>b, <2>2, <2>3, <3>2
    <3>4. ~IsTable(Leaf(a, d))
      BY <1>1, <2>1, <3>1, LeafType
    <3>5. Follow(m2, x[j], Index(w)[j]) = NoFrame
      BY <1>2, <2>3, <3>4 DEF Follow, Maps
    <3> QED
      BY <2>2, <3>3, <3>5
  <2>4. CASE ~(x[j] = t /\ Index(w)[j] = i)
    BY <1>2, <1>a, <2>1, <2>2, <2>4 DEF Maps, Follow
  <2> QED
    BY <2>3, <2>4
<1> HIDE DEF T
<1>8. b .. h \subseteq T
  BY <1>5, <1>6, <1>7, Ascent
<1> QED
  BY <1>3, <1>4, <1>6, <1>8 DEF T

\* Writing the entry of a page keeps the forest.
LEMMA LeafForest ==
    ASSUME NEW m, NEW f, NEW R, NEW P, NEW B, Forest(m, f, R, P, B), NEW r \in R,
           NEW v \in AllPages, NEW d \in {Page2M, Page4K}, NEW t \in Frames, NEW i \in Slots,
           NEW a \in Nat, NEW m2, Mappable(m, r, v, d, t, i, a, m2),
           d = Page2M => Index(v)[1] \in B
    PROVE  /\ Forest(m2, f, R, P, B) /\ Grown(m, f, m2, f, R)
           /\ TopKept(m, m2, R, r, v, d)
<1>1. Levels \in Nat /\ Levels >= 2 /\ d \in 1 .. Levels /\ Page4K = Levels
  BY LevelsAssumption DEF Page2M, Page4K
<1>2. /\ m \in Memory /\ f \subseteq Frames /\ R \subseteq Frames
      /\ NoFrame \notin Frames /\ Distinct(m, R, P)
      /\ t = TablesOn(m, r, v)[d] /\ i = Index(v)[d]
      /\ Maps(m2, m, t, i, Leaf(a, d))
  BY PoolAssumption DEF Forest, Mappable
<1>3. \A q \in R : \A w \in AllPages : \A j \in 1 .. Levels :
         TablesOn(m2, q, w)[j] = TablesOn(m, q, w)[j]
  BY LeafWalk
<1>4. Distinct(m2, R, P)
  <2> SUFFICES ASSUME NEW q \in R, NEW s \in R, NEW w \in AllPages, NEW u \in AllPages,
                      NEW j \in 1 .. Levels, NEW l \in 1 .. Levels,
                      TablesOn(m2, q, w)[j] = TablesOn(m2, s, u)[l],
                      TablesOn(m2, q, w)[j] # NoFrame
               PROVE  /\ j = l /\ Prefix(w, j - 1) = Prefix(u, j - 1)
                      /\ j = 1 \/ Index(w)[1] \in P => q = s
    BY DEF Distinct
  <2>1. TablesOn(m, q, w)[j] = TablesOn(m, s, u)[l] /\ TablesOn(m, q, w)[j] # NoFrame
    BY <1>3
  <2> QED
    BY <1>2, <2>1 DEF Distinct
<1>5. NotFree(m2, f, R) /\ Inside(m2, R)
  BY <1>3 DEF Forest, NotFree, Inside
<1>6. SmallAbove(m2, R, B)
  <2> SUFFICES ASSUME NEW q \in R, NEW w \in AllPages, NEW j \in 1 .. Levels - 1,
                      TablesOn(m2, q, w)[j] # NoFrame, ~(j = Page2M /\ Index(w)[1] \in B)
               PROVE  "SIZE" \notin m2[TablesOn(m2, q, w)[j]][Index(w)[j]].flags
    BY DEF SmallAbove
  <2>1. j \in 1 .. Levels /\ Index(w)[j] \in Slots
    BY <1>1, Digits DEF Slots
  <2>2. PICK u : u = TablesOn(m, q, w)[j]
    OBVIOUS
  <2>3. u = TablesOn(m2, q, w)[j] /\ u # NoFrame
    BY <1>3, <2>1, <2>2
  <2>4. u \in Frames
    BY <2>1, <2>2, <2>3 DEF Forest, Inside
  <2>5. ~(u = t /\ Index(w)[j] = i)
    <3> SUFFICES ASSUME u = t, Index(w)[j] = i PROVE FALSE
      OBVIOUS
    <3>1. TablesOn(m, q, w)[j] = TablesOn(m, r, v)[d] /\ TablesOn(m, q, w)[j] # NoFrame
      BY <1>2, <2>2, <2>3
    <3>2. j = d
      BY <1>1, <1>2, <2>1, <3>1 DEF Distinct
    <3>3. d = Page2M
      BY <1>1, <3>2 DEF Page2M, Page4K
    <3>4. Prefix(w, d) = Prefix(v, d)
      BY <1>1, <1>2, <2>2, <3>2, AtPrefix DEF At
    <3>5. Prefix(w, 1) = Prefix(v, 1)
      <4>1. PICK c \in 0 .. Levels : c = d /\ 1 \in 0 .. c
        BY <1>1
      <4> QED
        BY <3>4, <4>1, PrefixDown
    <3>6. 0 \in Nat /\ Prefix(w, 1) = Index(w)[1] /\ Prefix(v, 1) = Index(v)[1]
      BY TopIndex
    <3> QED
      BY <3>2, <3>3, <3>5, <3>6
  <2>6. m2[u][Index(w)[j]] = m[u][Index(w)[j]]
    BY <1>2, <2>1, <2>4, <2>5 DEF Maps
  <2>7. "SIZE" \notin m[u][Index(w)[j]].flags
    BY <2>2, <2>3 DEF Forest, SmallAbove
  <2> QED
    BY <2>3, <2>6, <2>7
<1>7. m2 \in Memory
  BY <1>2 DEF Maps
<1>8. Grown(m, f, m2, f, R)
  BY <1>3 DEF Grown
<1>9. TopKept(m, m2, R, r, v, d)
  <2> SUFFICES ASSUME NEW q \in R, NEW s \in Slots, m2[q][s] # m[q][s]
               PROVE  q = r /\ s = Index(v)[1] /\ d = 1
    BY DEF TopKept
  <2>1. TablesOn(m, q, v)[1] = q /\ q \in Frames
    BY <1>2, Walk
  <2>2. q = t /\ s = i
    BY <1>2, <2>1 DEF Maps
  <2>3. TablesOn(m, q, v)[1] = TablesOn(m, r, v)[d] /\ TablesOn(m, q, v)[1] # NoFrame
    BY <1>2, <2>1, <2>2
  <2>4. 1 = d /\ q = r
    BY <1>1, <1>2, <2>3 DEF Distinct
  <2> QED
    BY <1>2, <2>2, <2>4
<1> QED
  BY <1>2, <1>4, <1>5, <1>6, <1>7, <1>8, <1>9 DEF Forest

\* The entry of a page decides the translation of the pages it covers, and
\* of those only.
LEMMA LeafTranslate ==
    ASSUME NEW m, NEW f, NEW R, NEW P, NEW B, Forest(m, f, R, P, B), NEW r \in R,
           NEW v \in AllPages, NEW d \in {Page2M, Page4K}, NEW t \in Frames, NEW i \in Slots,
           NEW a \in Nat, NEW m2, Mappable(m, r, v, d, t, i, a, m2),
           NEW q \in R, NEW w \in AllPages
    PROVE  /\ At(m, q, w, d, t, i) => Translate(m2, q, w) = a + (w % Span[Levels - d])
           /\ ~At(m, q, w, d, t, i) => Translate(m2, q, w) = Translate(m, q, w)
<1>1. Levels \in Nat /\ Levels >= 2 /\ d \in 1 .. Levels /\ Page4K = Levels
  BY LevelsAssumption DEF Page2M, Page4K
<1>2. /\ m \in Memory /\ q \in Frames
      /\ NoFrame \notin Frames /\ Distinct(m, R, P)
      /\ t = TablesOn(m, r, v)[d] /\ i = Index(v)[d]
      /\ d < Levels => TablesOn(m, r, v)[d + 1] = NoFrame
      /\ Maps(m2, m, t, i, Leaf(a, d))
  BY PoolAssumption DEF Forest, Mappable
<1>3. \A j \in 1 .. Levels : TablesOn(m2, q, w)[j] = TablesOn(m, q, w)[j]
  BY LeafWalk
<1>a. \A j \in 1 .. Levels : Index(w)[j] \in Slots
  BY Digits DEF Slots
<1>4. CASE At(m, q, w, d, t, i)
  <2>1. TablesOn(m, q, w)[d] = t /\ Index(w)[d] = i
    BY <1>4 DEF At
  <2>3. d < Levels => TablesOn(m2, q, w)[d + 1] = NoFrame
    <3> SUFFICES ASSUME d < Levels PROVE TablesOn(m2, q, w)[d + 1] = NoFrame
      OBVIOUS
    <3>1. PICK c \in 2 .. Levels : c = d + 1 /\ c - 1 = d /\ c \in 1 .. Levels
      BY <1>1
    <3>2. /\ TablesOn(m, q, w)[c] = Follow(m, TablesOn(m, q, w)[c - 1], Index(w)[c - 1])
          /\ TablesOn(m, r, v)[c] = Follow(m, TablesOn(m, r, v)[c - 1], Index(v)[c - 1])
      BY Walk
    <3>3. TablesOn(m, q, w)[c] = NoFrame
      BY <1>2, <2>1, <3>1, <3>2
    <3> QED
      BY <1>3, <3>1, <3>3
  <2>4. TablesOn(m2, q, w)[d] = t /\ t # NoFrame
    BY <1>1, <1>2, <1>3, <2>1
  <2>5. Translate(m2, q, w) = Result(m2[t][i], w, d)
    BY <1>1, <1>2, <2>1, <2>3, <2>4, TranslateAt
  <2>6. PICK e : e = Leaf(a, d) /\ Present(e) /\ e.frame = a /\ (d = Levels \/ "SIZE" \in e.flags)
    BY <1>1, LeafType
  <2>7. m2[t][i] = e
    BY <1>2, <2>6 DEF Maps
  <2>8. Result(e, w, d) = a + (w % Span[Levels - d])
    BY <2>6 DEF Result
  <2> QED
    BY <1>4, <2>5, <2>7, <2>8
<1>5. CASE ~At(m, q, w, d, t, i)
  <2>1. PICK c \in 1 .. Levels : \A j \in 1 .. Levels : TablesOn(m, q, w)[j] # NoFrame <=> j <= c
    BY <1>2, Frontier
  <2>2. TablesOn(m, q, w)[c] # NoFrame /\ (c < Levels => TablesOn(m, q, w)[c + 1] = NoFrame)
    BY <1>1, <2>1
  <2>3. PICK u : u = TablesOn(m, q, w)[c]
    OBVIOUS
  <2>4. u \in Frames
    BY <2>2, <2>3 DEF Forest, Inside
  <2>5. Translate(m, q, w) = Result(m[u][Index(w)[c]], w, c)
    BY <1>2, <2>2, <2>3, TranslateAt
  <2>6. TablesOn(m2, q, w)[c] = u /\ (c < Levels => TablesOn(m2, q, w)[c + 1] = NoFrame)
    BY <1>1, <1>3, <2>2, <2>3
  <2>7. Translate(m2, q, w) = Result(m2[u][Index(w)[c]], w, c)
    BY <1>2, <2>2, <2>3, <2>6, TranslateAt
  <2>8. u # t \/ Index(w)[c] # i
    <3> SUFFICES ASSUME u = t, Index(w)[c] = i PROVE FALSE
      OBVIOUS
    <3>1. TablesOn(m, q, w)[c] = TablesOn(m, r, v)[d] /\ TablesOn(m, q, w)[c] # NoFrame
      BY <1>2, <2>2, <2>3
    <3>2. c = d
      BY <1>1, <1>2, <3>1 DEF Distinct
    <3> QED
      BY <1>5, <2>3, <3>2 DEF At
  <2>9. m2[u][Index(w)[c]] = m[u][Index(w)[c]]
    BY <1>2, <1>a, <2>4, <2>8 DEF Maps
  <2> QED
    BY <1>5, <2>5, <2>7, <2>9
<1> QED
  BY <1>4, <1>5
-----------------------------------------------------------------------------
\* map_raw level by level: the state after one more level.
State == [mem : Memory, free : SUBSET Frames, table : Frames, ok : BOOLEAN]
LinkNext(m, r, v, s, k) ==
    IF ~s.ok THEN s
    ELSE IF TablesOn(m, r, v)[k] # NoFrame THEN [s EXCEPT !.table = TablesOn(m, r, v)[k]]
    ELSE IF s.free = {} THEN [s EXCEPT !.ok = FALSE]
    ELSE [mem |-> [s.mem EXCEPT
              ![Min(s.free)] = NewTable(@),
              ![s.table][Index(v)[k - 1]] = [flags |-> {"PRESENT"}, frame |-> Min(s.free)]],
          free |-> Taken(s.free, Min(s.free)), table |-> Min(s.free), ok |-> TRUE]

\* alloc_frame takes a free frame.
LEMMA MinFree ==
    ASSUME NEW f \in SUBSET Frames, f # {}
    PROVE  Min(f) \in f
<1>1. f \subseteq Nat
  BY PoolAssumption
<1>2. PICK x \in f : \A y \in f : x <= y
  BY <1>1, Least
<1> QED
  BY <1>2 DEF Min

\* The walk from r to v stays in the pool.
Within(m, r, v) == \A k \in 1 .. Levels : TablesOn(m, r, v)[k] \in Frames \cup {NoFrame}

\* One level of map_raw, case by case.
LEMMA LinkCases ==
    ASSUME NEW m, NEW r, NEW v \in AllPages, Within(m, r, v),
           NEW s \in State, NEW k \in 2 .. Levels, NEW n, n = LinkNext(m, r, v, s, k)
    PROVE  /\ n \in State
           /\ ~s.ok => n = s
           /\ s.ok /\ TablesOn(m, r, v)[k] # NoFrame
                 => n.mem = s.mem /\ n.free = s.free /\ n.ok /\ n.table = TablesOn(m, r, v)[k]
           /\ s.ok /\ TablesOn(m, r, v)[k] = NoFrame /\ s.free = {}
                 => n.mem = s.mem /\ n.free = s.free /\ ~n.ok
           /\ s.ok /\ TablesOn(m, r, v)[k] = NoFrame /\ s.free # {}
                 => \E new \in s.free :
                       /\ new = Min(s.free)
                       /\ n.table = new /\ n.free = s.free \ {new} /\ n.ok
                       /\ s.table # new => Links(n.mem, s.mem, s.table, Index(v)[k - 1], new)
<1>1. Levels \in Nat /\ k - 1 \in 1 .. Levels /\ k \in 1 .. Levels
  BY LevelsAssumption
<1>2. PICK i \in Slots : i = Index(v)[k - 1]
  BY <1>1, Digits DEF Slots
<1>3. PICK u \in Frames \cup {NoFrame} : u = TablesOn(m, r, v)[k]
  BY <1>1 DEF Within
<1>4. s.mem \in Memory /\ s.free \in SUBSET Frames /\ s.table \in Frames /\ s.ok \in BOOLEAN
  BY DEF State
<1>5. CASE ~s.ok
  BY <1>5 DEF LinkNext
<1>6. CASE s.ok /\ u # NoFrame
  <2>1. n = [s EXCEPT !.table = u]
    BY <1>3, <1>6 DEF LinkNext
  <2> QED
    BY <1>3, <1>6, <2>1 DEF State
<1>7. CASE s.ok /\ u = NoFrame /\ s.free = {}
  <2>1. n = [s EXCEPT !.ok = FALSE]
    BY <1>3, <1>7 DEF LinkNext
  <2> QED
    BY <1>3, <1>7, <2>1 DEF State
<1>8. CASE s.ok /\ u = NoFrame /\ s.free # {}
  <2>1. PICK new \in s.free : new = Min(s.free)
    BY <1>4, <1>8, MinFree
  <2> DEFINE m2 == [s.mem EXCEPT ![new] = ZeroTable, ![s.table][i] = Link(new)]
  <2>2. n = [mem |-> m2, free |-> s.free \ {new}, table |-> new, ok |-> TRUE]
    BY <1>2, <1>3, <1>8, <2>1 DEF LinkNext, Link, NewTable, Taken
  <2>3. m2 \in Memory
    <3>1. Link(new) \in Entry /\ ZeroTable \in [Slots -> Entry] /\ new \in Frames
      BY <1>4, <2>1, PoolAssumption DEF Link, Entry, EntryFlags, ZeroTable, Empty, Slots, Present
    <3> HIDE DEF Link, Entry, ZeroTable, Slots
    <3> QED
      BY <1>4, <3>1 DEF Memory
  <2>4. s.table # new => Links(m2, s.mem, s.table, i, new)
    BY <1>2, <1>4, Linking
  <2> HIDE DEF m2
  <2>5. n \in State
    BY <1>4, <2>1, <2>2, <2>3 DEF State
  <2>6. n.mem = m2 /\ n.free = s.free \ {new} /\ n.table = new /\ n.ok
    BY <2>2
  <2> QED
    BY <1>2, <1>3, <1>8, <2>1, <2>4, <2>5, <2>6
<1> QED
  BY <1>3, <1>4, <1>5, <1>6, <1>7, <1>8

\* The states of map_raw, from the first level down to level d.
Start(m, f, r) == [mem |-> m, free |-> f, table |-> r, ok |-> TRUE]
IsLinked(x, m, f, r, v, d) ==
    x = [k \in 1 .. d |-> IF k = 1 THEN Start(m, f, r) ELSE LinkNext(m, r, v, x[k - 1], k)]
Linked(m, f, r, v, d) == CHOOSE x : IsLinked(x, m, f, r, v, d)

\* The states of map_raw follow from one another.
LEMMA LinkedSteps ==
    ASSUME NEW m \in Memory, NEW f \in SUBSET Frames, NEW r \in Frames, NEW v \in AllPages,
           Within(m, r, v), NEW d \in 1 .. Levels
    PROVE  /\ Linked(m, f, r, v, d)[1] = Start(m, f, r)
           /\ \A k \in 2 .. d : Linked(m, f, r, v, d)[k] =
                                  LinkNext(m, r, v, Linked(m, f, r, v, d)[k - 1], k)
<1> DEFINE G(s, k) == LinkNext(m, r, v, s, k)
           g == [x \in State \X Int |-> IF x[2] \in 2 .. d THEN G(x[1], x[2]) ELSE x[1]]
<1>1. Levels \in Nat /\ d \in Int /\ 1 <= d
  BY LevelsAssumption
<1>2. \A s \in State : \A k \in 2 .. d : G(s, k) \in State
  <2> SUFFICES ASSUME NEW s \in State, NEW k \in 2 .. d PROVE G(s, k) \in State
    OBVIOUS
  <2>1. k \in 2 .. Levels
    BY <1>1
  <2> QED
    BY <2>1, LinkCases
<1>3. Start(m, f, r) \in State
  BY DEF Start, State
<1> HIDE DEF G
<1>4. g \in [State \X Int -> State]
  BY <1>2
<1> HIDE DEF g
<1>5. PICK x : x \in [1 .. d -> State] /\ x[1] = Start(m, f, r)
               /\ \A k \in 1 + 1 .. d : x[k] = g[<<x[k - 1], k>>]
  <2>1. PICK a \in Int, z \in State : a = 1 /\ a <= d /\ z = Start(m, f, r)
    BY <1>1, <1>3
  <2>2. \E x : Recursive(x, a, d, State, z, g)
    BY <1>1, <1>4, <2>1, Recursion
  <2> QED
    BY <2>1, <2>2 DEF Recursive
<1>6. \A k \in 2 .. d : x[k] = G(x[k - 1], k)
  <2> SUFFICES ASSUME NEW k \in 2 .. d PROVE x[k] = G(x[k - 1], k)
    OBVIOUS
  <2>1. x[k] = g[<<x[k - 1], k>>] /\ x[k - 1] \in State
    BY <1>1, <1>5
  <2>2. g[<<x[k - 1], k>>] = G(x[k - 1], k)
    BY <2>1 DEF g
  <2> QED
    BY <2>1, <2>2
<1>7. x = [k \in 1 .. d |-> IF k = 1 THEN Start(m, f, r) ELSE G(x[k - 1], k)]
  <2>1. x = [k \in 1 .. d |-> x[k]]
    BY <1>5
  <2>2. ASSUME NEW k \in 1 .. d PROVE x[k] = IF k = 1 THEN Start(m, f, r) ELSE G(x[k - 1], k)
    <3>1. k = 1 \/ k \in 2 .. d
      BY <1>1
    <3>2. x[1] = Start(m, f, r)
      BY <1>5
    <3> QED
      BY <1>6, <3>1, <3>2
  <2> QED
    BY <2>1, <2>2, Zenon
<1>8. IsLinked(x, m, f, r, v, d)
  BY <1>7 DEF IsLinked, G
<1>9. IsLinked(Linked(m, f, r, v, d), m, f, r, v, d)
  BY <1>8 DEF Linked
<1>10. PICK y : y = Linked(m, f, r, v, d) /\ IsLinked(y, m, f, r, v, d)
  BY <1>9
<1>11. y[1] = Start(m, f, r) /\ \A k \in 2 .. d : y[k] = LinkNext(m, r, v, y[k - 1], k)
  <2>1. 1 \in 1 .. d
    BY <1>1
  <2>2. \A k \in 2 .. d : k \in 1 .. d /\ k # 1
    BY <1>1
  <2> QED
    BY <1>10, <2>1, <2>2 DEF IsLinked
<1> QED
  BY <1>10, <1>11

\* The result p of map_raw that has reached state s.
Ends(p, s, m, f, r, v, a, d) ==
    /\ d < Levels /\ TablesOn(m, r, v)[d + 1] # NoFrame
          => p.mem = m /\ p.free = f /\ p.ok = FALSE
    /\ ~(d < Levels /\ TablesOn(m, r, v)[d + 1] # NoFrame)
          => /\ p.free = s.free /\ p.ok = s.ok
             /\ ~s.ok => p.mem = s.mem
             /\ s.ok => p.mem = [s.mem EXCEPT ![s.table][Index(v)[d]] = Leaf(a, d)]

\* How map_raw ends.
LEMMA MapRawAt ==
    ASSUME NEW m, NEW f, NEW r, NEW v, NEW a, NEW d
    PROVE  Ends(MapRaw(m, f, r, v, a, d), Linked(m, f, r, v, d)[d], m, f, r, v, a, d)
<1> DEFINE s == Linked(m, f, r, v, d)[d]
           p == MapRaw(m, f, r, v, a, d)
<1> DEFINE Stop == d < Levels /\ TablesOn(m, r, v)[d + 1] # NoFrame
<1>1. PICK e : e = [s.mem EXCEPT ![s.table][Index(v)[d]] = Leaf(a, d)]
  OBVIOUS
<1>2. p = IF Stop THEN [mem |-> m, free |-> f, ok |-> FALSE]
          ELSE [mem |-> IF s.ok THEN e ELSE s.mem, free |-> s.free, ok |-> s.ok]
  BY <1>1 DEF MapRaw, Linked, IsLinked, Start, LinkNext, Leaf
<1> HIDE DEF Stop, s, p
<1>3. /\ Stop => p.mem = m /\ p.free = f /\ p.ok = FALSE
      /\ ~Stop => /\ p.free = s.free /\ p.ok = s.ok
                  /\ ~s.ok => p.mem = s.mem
                  /\ s.ok => p.mem = e
  <2>1. CASE Stop
    <3>1. p = [mem |-> m, free |-> f, ok |-> FALSE]
      BY <1>2, <2>1
    <3> QED
      BY <2>1, <3>1
  <2>2. CASE ~Stop
    <3>1. p = [mem |-> IF s.ok THEN e ELSE s.mem, free |-> s.free, ok |-> s.ok]
      BY <1>2, <2>2
    <3>2. p.mem = (IF s.ok THEN e ELSE s.mem) /\ p.free = s.free /\ p.ok = s.ok
      BY <3>1
    <3> QED
      BY <2>2, <3>2
  <2> QED
    BY <2>1, <2>2
<1> QED
  BY <1>1, <1>3 DEF Stop, s, p, Ends

\* The result of map_raw is a memory, a pool and a Boolean.
MapState == [mem : Memory, free : SUBSET Frames, ok : BOOLEAN]

\* No 2M page covers v: the callers' NotIn2M.
NotBig(m, r, v) ==
    TablesOn(m, r, v)[Page2M] # NoFrame /\ TablesOn(m, r, v)[Levels] = NoFrame
        => "SIZE" \notin m[TablesOn(m, r, v)[Page2M]][Index(v)[Page2M]].flags

\* What map_raw has done when it has linked the table of level k: it is still
\* in the tables that were there, or in a table that it has just cleared.
Progress(m, f, R, P, B, r, v, k, s) ==
    /\ s \in State
    /\ Forest(s.mem, s.free, R, P, B)
    /\ Grown(m, f, s.mem, s.free, R)
    /\ \A d : TopKept(m, s.mem, R, r, v, d)
    /\ \A q \in R : \A w \in AllPages : Translate(s.mem, q, w) = Translate(m, q, w)
    /\ TablesOn(m, r, v)[k] # NoFrame
          => s.mem = m /\ s.free = f /\ s.table = TablesOn(m, r, v)[k] /\ s.ok
    /\ TablesOn(m, r, v)[k] = NoFrame /\ s.ok => s.mem[s.table] = ZeroTable
    /\ s.ok => s.table = TablesOn(s.mem, r, v)[k]

\* One more level keeps Progress.
LEMMA LinkedProgress ==
    ASSUME NEW m, NEW f, NEW R, NEW P, NEW B, Forest(m, f, R, P, B), NEW r \in R, NEW v \in AllPages,
           NEW k \in 1 .. Levels - 1, k = Page2M => NotBig(m, r, v),
           NEW s, Progress(m, f, R, P, B, r, v, k, s), NEW n, n = LinkNext(m, r, v, s, k + 1)
    PROVE  Progress(m, f, R, P, B, r, v, k + 1, n)
<1>1. /\ Levels \in Nat /\ Levels >= 2 /\ k \in 1 .. Levels
      /\ k + 1 \in 2 .. Levels /\ k + 1 \in 1 .. Levels /\ (k + 1) - 1 = k
  BY LevelsAssumption
<1>2. PICK c \in 2 .. Levels : c = k + 1 /\ c - 1 = k /\ c \in 1 .. Levels
  BY <1>1
<1>3. Inside(m, R) /\ R \subseteq Frames /\ NoFrame \notin Frames /\ s \in State
  BY PoolAssumption DEF Forest, Progress
<1>4. PICK x :
          /\ x = TablesOn(m, r, v)
          /\ \A j \in 2 .. Levels : x[j] = Follow(m, x[j - 1], Index(v)[j - 1])
  BY Walk
<1>b. \A j \in 1 .. Levels : x[j] \in Frames \cup {NoFrame}
  BY <1>3, <1>4 DEF Inside
<1>5. x[c] = Follow(m, x[k], Index(v)[k])
  BY <1>2, <1>4
<1>6. x[c] # NoFrame => x[k] # NoFrame
  BY <1>5 DEF Follow
<1>c. Within(m, r, v)
  BY <1>b, <1>4 DEF Within
<1>7. n = LinkNext(m, r, v, s, c) /\ n \in State
  BY <1>2, <1>3, <1>c, LinkCases
<1>a. /\ ~s.ok => n = s
      /\ s.ok /\ TablesOn(m, r, v)[c] # NoFrame
            => n.mem = s.mem /\ n.free = s.free /\ n.ok /\ n.table = TablesOn(m, r, v)[c]
      /\ s.ok /\ TablesOn(m, r, v)[c] = NoFrame /\ s.free = {}
            => n.mem = s.mem /\ n.free = s.free /\ ~n.ok
      /\ s.ok /\ TablesOn(m, r, v)[c] = NoFrame /\ s.free # {}
            => \E new \in s.free :
                  /\ n.table = new /\ n.free = s.free \ {new} /\ n.ok
                  /\ s.table # new => Links(n.mem, s.mem, s.table, Index(v)[c - 1], new)
  BY <1>3, <1>7, <1>c, LinkCases
<1> SUFFICES Progress(m, f, R, P, B, r, v, c, n)
  BY <1>2
<1>8. CASE ~s.ok
  <2>1. n = s /\ ~n.ok
    BY <1>8, <1>a
  <2>2. x[c] = NoFrame
    BY <1>4, <1>6, <1>8 DEF Progress
  <2> QED
    BY <1>4, <2>1, <2>2 DEF Progress
<1>9. CASE s.ok /\ x[c] # NoFrame
  <2>1. n.mem = s.mem /\ n.free = s.free /\ n.ok /\ n.table = x[c]
    BY <1>4, <1>9, <1>a
  <2>2. n.mem = m /\ n.free = f
    BY <1>4, <1>6, <1>9, <2>1 DEF Progress
  <2> QED
    BY <1>4, <1>7, <1>9, <2>1, <2>2 DEF Progress
<1>10. CASE s.ok /\ x[c] = NoFrame /\ s.free = {}
  <2>1. n.mem = s.mem /\ n.free = s.free /\ ~n.ok
    BY <1>4, <1>10, <1>a
  <2> QED
    BY <1>4, <1>7, <1>10, <2>1 DEF Progress
<1>11. CASE s.ok /\ x[c] = NoFrame /\ s.free # {}
  <2>1. PICK i \in Slots : i = Index(v)[c - 1] /\ i = Index(v)[k]
    BY <1>1, <1>2, Digits DEF Slots
  <2>2. PICK new \in s.free :
            /\ n.table = new /\ n.free = s.free \ {new} /\ n.ok
            /\ s.table # new => Links(n.mem, s.mem, s.table, i, new)
    <3>1. \E new \in s.free :
            /\ n.table = new /\ n.free = s.free \ {new} /\ n.ok
            /\ s.table # new => Links(n.mem, s.mem, s.table, Index(v)[c - 1], new)
      BY <1>4, <1>11, <1>a
    <3> QED
      BY <2>1, <3>1
  <2>3. PICK t \in Frames : t = s.table /\ t = TablesOn(s.mem, r, v)[c - 1]
    BY <1>2, <1>3, <1>11 DEF Progress, State
  <2>4. t # new
    BY <1>1, <1>2, <2>3 DEF Progress, Forest, NotFree
  <2>5. Links(n.mem, s.mem, t, i, new)
    BY <2>2, <2>3, <2>4
  <2>6. ~Present(s.mem[t][i])
    <3>1. CASE x[k] = NoFrame
      <4>1. s.mem[t] = ZeroTable
        BY <1>4, <1>11, <2>3, <3>1 DEF Progress
      <4> QED
        BY <2>1, <4>1 DEF ZeroTable, Slots, Empty, Present
    <3>2. CASE x[k] # NoFrame
      <4>1. s.mem = m /\ t = x[k]
        BY <1>4, <2>3, <3>2 DEF Progress
      <4>2. ~IsTable(m[t][i])
        <5> SUFFICES ASSUME IsTable(m[t][i]) PROVE FALSE
          OBVIOUS
        <5>1. m[t][i].frame = NoFrame
          BY <1>3, <1>5, <1>11, <2>1, <2>3, <4>1 DEF Follow
        <5>2. m[t][i] \in Entry
          BY <2>1, <2>3 DEF Forest, Memory
        <5> QED
          BY <5>1, <5>2, PoolAssumption DEF Entry, IsTable
      <4>3. "SIZE" \notin m[t][i].flags
        <5>1. CASE k = Page2M
          <6>1. c = Levels
            BY <1>1, <1>2, <5>1 DEF Page2M
          <6> QED
            BY <1>4, <1>11, <2>1, <3>2, <4>1, <5>1, <6>1 DEF NotBig
        <5>2. CASE k # Page2M
          <6>1. k \in 1 .. Page2M - 1
            BY <1>1, <5>2 DEF Page2M
          <6> QED
            BY <1>4, <2>1, <3>2, <4>1, <6>1 DEF Forest, SmallAbove
        <5> QED
          BY <5>1, <5>2
      <4> QED
        BY <4>1, <4>2, <4>3 DEF IsTable
    <3> QED
      BY <3>1, <3>2
  <2>7. PICK p : p = s.mem /\ Forest(p, s.free, R, P, B)
    BY DEF Progress
  <2>8. PICK q : q = n.mem /\ Links(q, p, t, i, new)
    BY <2>5, <2>7
  <2>9. PICK g : g = s.free
    OBVIOUS
  <2>a. Forest(p, g, R, P, B) /\ Linkable(p, g, r, v, c, t, i, new, q)
    BY <2>1, <2>2, <2>3, <2>6, <2>7, <2>8, <2>9 DEF Linkable
  <2>10. /\ Forest(q, g \ {new}, R, P, B) /\ Grown(p, g, q, g \ {new}, R)
         /\ \A d : TopKept(p, q, R, r, v, d)
    BY <2>a, LinkForest
  <2>11. \A u \in R : \A w \in AllPages : Translate(q, u, w) = Translate(p, u, w)
    BY <2>a, LinkTranslate
  <2>12. TablesOn(q, r, v)[c] = new
    <3>1. At(p, r, v, c - 1, t, i)
      BY <2>1, <2>3, <2>7 DEF At
    <3> QED
      BY <1>2, <2>a, <3>1, LinkWalk
  <2>13. Grown(m, f, q, g \ {new}, R)
    <3>1. Grown(m, f, p, g, R)
      BY <2>7, <2>9 DEF Progress
    <3> QED
      BY <2>10, <3>1 DEF Grown
  <2>14. q[new] = ZeroTable
    BY <2>8 DEF Links
  <2>15. \A u \in R : \A w \in AllPages : Translate(q, u, w) = Translate(m, u, w)
    BY <2>7, <2>11 DEF Progress
  <2>16. \A d : TopKept(m, q, R, r, v, d)
    <3>1. \A d : TopKept(m, p, R, r, v, d)
      BY <2>7 DEF Progress
    <3> QED
      BY <2>10, <3>1 DEF TopKept
  <2> QED
    BY <1>4, <1>7, <1>11, <2>2, <2>8, <2>9, <2>10, <2>12, <2>13, <2>14, <2>15, <2>16 DEF Progress
<1> QED
  <2>1. s.ok \in BOOLEAN
    BY <1>3 DEF State
  <2> QED
    BY <1>8, <1>9, <1>10, <1>11

\* Progress holds at the level of the page.
LEMMA LinkedDone ==
    ASSUME NEW m, NEW f, NEW R, NEW P, NEW B, Forest(m, f, R, P, B), NEW r \in R, NEW v \in AllPages,
           NEW d \in {Page2M, Page4K}, d = Page4K => NotBig(m, r, v)
    PROVE  Progress(m, f, R, P, B, r, v, d, Linked(m, f, r, v, d)[d])
<1>1. Levels \in Nat /\ Levels >= 2 /\ d \in 1 .. Levels /\ Page2M = Levels - 1 /\ Page4K = Levels
  BY LevelsAssumption DEF Page2M, Page4K
<1>2. PICK x : /\ x = Linked(m, f, r, v, d) /\ x[1] = Start(m, f, r)
               /\ \A k \in 2 .. d : x[k] = LinkNext(m, r, v, x[k - 1], k)
  BY <1>1, LinkedSteps DEF Forest, Inside, Within
<1> DEFINE T == {k \in 1 .. d : Progress(m, f, R, P, B, r, v, k, x[k])}
<1>3. 1 \in T
  <2>1. PICK s : s = Start(m, f, r)
    OBVIOUS
  <2>2. s \in State /\ s.mem = m /\ s.free = f /\ s.table = r /\ s.ok
    BY <2>1 DEF Start, State, Forest
  <2>3. TablesOn(m, r, v)[1] = r /\ r \in Frames /\ NoFrame \notin Frames
    BY PoolAssumption, Walk DEF Forest
  <2>4. Grown(m, f, m, f, R) /\ \A c : TopKept(m, m, R, r, v, c)
    BY DEF Grown, TopKept
  <2>5. Progress(m, f, R, P, B, r, v, 1, s)
    BY <2>2, <2>3, <2>4 DEF Progress
  <2> QED
    BY <1>1, <1>2, <2>1, <2>5
<1>4. PICK a \in Int, h \in Int : a = 1 /\ h = d /\ a <= h
  BY <1>1
<1>5. \A k \in a .. h - 1 : k \in T => k + 1 \in T
  <2> SUFFICES ASSUME NEW k \in 1 .. d - 1, Progress(m, f, R, P, B, r, v, k, x[k])
               PROVE  Progress(m, f, R, P, B, r, v, k + 1, x[k + 1])
    BY <1>1, <1>4
  <2>1. k \in 1 .. Levels - 1 /\ k + 1 \in 2 .. d /\ (k + 1) - 1 = k /\ (k = Page2M => d = Page4K)
    BY <1>1
  <2>2. x[k + 1] = LinkNext(m, r, v, x[k], k + 1)
    BY <1>2, <2>1
  <2> QED
    BY <2>1, <2>2, LinkedProgress
<1> HIDE DEF T
<1>6. a .. h \subseteq T
  BY <1>3, <1>4, <1>5, Ascent
<1> QED
  BY <1>1, <1>2, <1>4, <1>6 DEF T

\* map_raw: when it succeeds, the pages under the new entry translate to the
\* frames it names; every other page, and every page when it fails halfway,
\* translates as before, and new tables come from the pool.

\* What a call of map_raw does: when it succeeds, the pages under the new
\* entry translate to the frames it names; pages of other roots change with
\* them only where they share tables, and new tables come from the pool.  A
\* call that fails changes no translation.
Mapped(m, f, R, P, B, r, v, a, d, p) ==
    /\ p \in MapState
    /\ Forest(p.mem, p.free, R, P, B)
    /\ Grown(m, f, p.mem, p.free, R)
    /\ TopKept(m, p.mem, R, r, v, d)
    /\ p.ok => \A w \in AllPages : Prefix(w, d) = Prefix(v, d)
                  => Translate(p.mem, r, w) = a + (w % Span[Levels - d])
    /\ \A q \in R : \A w \in AllPages : Translate(p.mem, q, w) # Translate(m, q, w)
          => /\ p.ok
             /\ Prefix(w, d) = Prefix(v, d)
             /\ Index(v)[1] \in P => q = r
             /\ Translate(p.mem, q, w) = a + (w % Span[Levels - d])

\* The result of map_raw is a record.
LEMMA MapRawType ==
    ASSUME NEW m, NEW f, NEW r, NEW v, NEW a, NEW d, NEW p, p = MapRaw(m, f, r, v, a, d),
           p.mem \in Memory, p.free \in SUBSET Frames, p.ok \in BOOLEAN
    PROVE  p \in MapState
<1>1. p = [mem |-> p.mem, free |-> p.free, ok |-> p.ok]
  <2> DEFINE s == Linked(m, f, r, v, d)[d]
             Stop == d < Levels /\ TablesOn(m, r, v)[d + 1] # NoFrame
  <2>1. PICK e : e = [s.mem EXCEPT ![s.table][Index(v)[d]] = Leaf(a, d)]
    OBVIOUS
  <2>2. p = IF Stop THEN [mem |-> m, free |-> f, ok |-> FALSE]
            ELSE [mem |-> IF s.ok THEN e ELSE s.mem, free |-> s.free, ok |-> s.ok]
    BY <2>1 DEF MapRaw, Linked, IsLinked, Start, LinkNext, Leaf
  <2> HIDE DEF Stop, s
  <2>3. \E x, y, z : p = [mem |-> x, free |-> y, ok |-> z]
    BY <2>2
  <2> QED
    BY <2>3
<1> QED
  BY <1>1 DEF MapState

\* PageTable::map_raw in any forest of tables does what Mapped says, whether it
\* succeeds, finds a table where a large page should go, or runs out of frames.
LEMMA MapRawCorrect ==
    ASSUME NEW m, NEW f, NEW R, NEW P, NEW B, Forest(m, f, R, P, B), NEW r \in R,
           NEW v \in AllPages, NEW d \in {Page2M, Page4K}, d = Page4K => NotBig(m, r, v),
           d = Page2M => Index(v)[1] \in B,
           NEW a \in Nat, NEW p, p = MapRaw(m, f, r, v, a, d)
    PROVE  Mapped(m, f, R, P, B, r, v, a, d, p)
<1>1. Levels \in Nat /\ Levels >= 2 /\ d \in 1 .. Levels
  BY LevelsAssumption DEF Page2M, Page4K
<1>2. PICK s : Progress(m, f, R, P, B, r, v, d, s) /\ Ends(p, s, m, f, r, v, a, d)
  BY LinkedDone, MapRawAt
<1> SUFFICES /\ p.ok \in BOOLEAN
             /\ Forest(p.mem, p.free, R, P, B)
             /\ Grown(m, f, p.mem, p.free, R)
             /\ TopKept(m, p.mem, R, r, v, d)
             /\ p.ok => \A w \in AllPages : Prefix(w, d) = Prefix(v, d)
                           => Translate(p.mem, r, w) = a + (w % Span[Levels - d])
             /\ \A q \in R : \A w \in AllPages : Translate(p.mem, q, w) # Translate(m, q, w)
                   => /\ p.ok
                      /\ Prefix(w, d) = Prefix(v, d)
                      /\ Index(v)[1] \in P => q = r
                      /\ Translate(p.mem, q, w) = a + (w % Span[Levels - d])
  <2>1. p.mem \in Memory /\ p.free \in SUBSET Frames /\ p.ok \in BOOLEAN
    BY DEF Forest
  <2>2. p \in MapState
    BY <2>1, MapRawType
  <2> QED
    BY <2>2 DEF Mapped
<1>3. CASE d < Levels /\ TablesOn(m, r, v)[d + 1] # NoFrame
  <2>2. p.mem = m /\ p.free = f /\ p.ok = FALSE
    BY <1>2, <1>3 DEF Ends
  <2>3. Grown(m, f, m, f, R) /\ TopKept(m, m, R, r, v, d)
    BY DEF Grown, TopKept
  <2> QED
    BY <2>2, <2>3
<1>4. ASSUME ~(d < Levels /\ TablesOn(m, r, v)[d + 1] # NoFrame)
      PROVE  /\ p.free = s.free /\ p.ok = s.ok
             /\ ~s.ok => p.mem = s.mem
             /\ s.ok => p.mem = [s.mem EXCEPT ![s.table][Index(v)[d]] = Leaf(a, d)]
  BY <1>2, <1>4 DEF Ends
<1>5. CASE ~(d < Levels /\ TablesOn(m, r, v)[d + 1] # NoFrame) /\ ~s.ok
  BY <1>2, <1>4, <1>5 DEF Progress, State
<1>6. CASE ~(d < Levels /\ TablesOn(m, r, v)[d + 1] # NoFrame) /\ s.ok
  <2>1. PICK i \in Slots : i = Index(v)[d]
    BY <1>1, Digits DEF Slots
  <2>2. PICK b : b = s.mem
    OBVIOUS
  <2>3. PICK g : g = s.free
    OBVIOUS
  <2>4. Forest(b, g, R, P, B) /\ Grown(m, f, b, g, R)
        /\ \A q \in R : \A w \in AllPages : Translate(b, q, w) = Translate(m, q, w)
    BY <1>2, <2>2, <2>3 DEF Progress
  <2>5. PICK t \in Frames : t = s.table /\ t = TablesOn(b, r, v)[d]
    BY <1>2, <1>6, <2>2 DEF Progress, State
  <2>6. d < Levels => TablesOn(b, r, v)[d + 1] = NoFrame
    <3> SUFFICES ASSUME d < Levels PROVE TablesOn(b, r, v)[d + 1] = NoFrame
      OBVIOUS
    <3>1. CASE TablesOn(m, r, v)[d] # NoFrame
      BY <1>2, <1>6, <2>2, <3>1 DEF Progress
    <3>2. CASE TablesOn(m, r, v)[d] = NoFrame
      <4>1. b[t] = ZeroTable
        BY <1>2, <1>6, <2>2, <2>5, <3>2 DEF Progress
      <4>2. PICK c \in 2 .. Levels : c = d + 1 /\ c - 1 = d
        BY <1>1
      <4>3. TablesOn(b, r, v)[c] = Follow(b, t, i)
        <5>1. TablesOn(b, r, v)[c] = Follow(b, TablesOn(b, r, v)[c - 1], Index(v)[c - 1])
          BY Walk
        <5> QED
          BY <2>1, <2>5, <4>2, <5>1
      <4>4. Follow(b, t, i) = NoFrame
        BY <2>1, <4>1 DEF Follow, ZeroTable, Slots, Empty, IsTable, Present
      <4> QED
        BY <4>2, <4>3, <4>4
    <3> QED
      BY <3>1, <3>2
  <2>8. PICK q : q = p.mem /\ q = [b EXCEPT ![t][i] = Leaf(a, d)]
    BY <1>4, <1>6, <2>1, <2>2, <2>5
  <2>9. Maps(q, b, t, i, Leaf(a, d))
    <3>1. PICK e \in Entry : e = Leaf(a, d)
      BY LeafType
    <3>2. b \in Memory
      BY <2>4 DEF Forest
    <3>3. Maps([b EXCEPT ![t][i] = e], b, t, i, e)
      BY <2>1, <2>5, <3>1, <3>2, Mapping
    <3> QED
      BY <2>8, <3>1, <3>3
  <2>a. Mappable(b, r, v, d, t, i, a, q)
    BY <2>1, <2>5, <2>6, <2>9 DEF Mappable
  <2>10. Forest(q, g, R, P, B) /\ Grown(b, g, q, g, R) /\ TopKept(b, q, R, r, v, d)
    BY <2>4, <2>a, LeafForest
  <2>11. ASSUME NEW u \in R, NEW w \in AllPages
         PROVE  /\ At(b, u, w, d, t, i) => Translate(q, u, w) = a + (w % Span[Levels - d])
                /\ ~At(b, u, w, d, t, i) => Translate(q, u, w) = Translate(b, u, w)
                /\ At(b, u, w, d, t, i) =>
                     Prefix(w, d) = Prefix(v, d) /\ (Index(v)[1] \in P => u = r)
                /\ u = r /\ Prefix(w, d) = Prefix(v, d) => At(b, u, w, d, t, i)
    <3>1. /\ At(b, u, w, d, t, i) => Translate(q, u, w) = a + (w % Span[Levels - d])
          /\ ~At(b, u, w, d, t, i) => Translate(q, u, w) = Translate(b, u, w)
      BY <2>4, <2>a, LeafTranslate
    <3>2. Distinct(b, R, P)
      BY <2>4 DEF Forest
    <3>3. /\ At(b, u, w, d, t, i) =>
               Prefix(w, d) = Prefix(v, d) /\ (d = 1 \/ Index(v)[1] \in P => u = r)
          /\ u = r /\ Prefix(w, d) = Prefix(v, d) => At(b, u, w, d, t, i)
      BY <1>1, <2>1, <2>5, <3>2, AtPrefix
    <3> QED
      BY <3>1, <3>3
  <2>12. Grown(m, f, q, g, R)
    BY <2>4, <2>10 DEF Grown
  <2>b. TopKept(m, q, R, r, v, d)
    <3>1. TopKept(m, b, R, r, v, d)
      BY <1>2, <2>2 DEF Progress
    <3> QED
      BY <2>10, <3>1 DEF TopKept
  <2>13. p.free = g /\ p.ok = s.ok /\ s.ok \in BOOLEAN
    BY <1>2, <1>4, <1>6, <2>3 DEF Progress, State
  <2>14. \A u \in R : \A w \in AllPages : Translate(q, u, w) # Translate(m, u, w)
            => /\ Prefix(w, d) = Prefix(v, d)
               /\ Index(v)[1] \in P => u = r
               /\ Translate(q, u, w) = a + (w % Span[Levels - d])
    BY <2>4, <2>11
  <2>15. \A w \in AllPages : Prefix(w, d) = Prefix(v, d)
            => Translate(q, r, w) = a + (w % Span[Levels - d])
    BY <2>11
  <2> QED
    BY <1>6, <2>8, <2>10, <2>12, <2>13, <2>14, <2>15, <2>b
<1> QED
  BY <1>3, <1>5, <1>6

\* Where no 2M pages are, none covers v.
LEMMA Small ==
    ASSUME NEW m, NEW f, NEW R, NEW P, NEW B, Forest(m, f, R, P, B), NEW r \in R,
           NEW v \in AllPages, Index(v)[1] \notin B
    PROVE  NotBig(m, r, v)
<1>1. Page2M \in 1 .. Levels - 1
  BY LevelsAssumption DEF Page2M
<1> QED
  BY <1>1 DEF NotBig, Forest, SmallAbove

\* map_raw of a 4K page concerns the page itself.
LEMMA SinglePage ==
    ASSUME NEW v \in AllPages, NEW w \in AllPages, NEW a \in Nat
    PROVE  /\ Prefix(w, Page4K) = Prefix(v, Page4K) <=> w = v
           /\ a + (w % Span[Levels - Page4K]) = a
<1>1. Levels \in Nat
  BY LevelsAssumption
<1>2. Prefix(w, Levels) = w /\ Prefix(v, Levels) = v /\ w \in Nat
  BY Digits
<1>3. Span[Levels - Page4K] = 1
  BY <1>1, Spans DEF Page4K
<1>4. w % 1 = 0
  BY <1>2
<1> QED
  BY <1>2, <1>3, <1>4 DEF Page4K
-----------------------------------------------------------------------------
\* The frames that the pages D[q] of each root q translate to are not free,
\* are no tables, and belong to one page of one root each.
Apart(m, f, R, D) ==
    \A q \in R : \A v \in AllPages : v \in D[q] /\ Translate(m, q, v) \in Frames =>
        /\ Translate(m, q, v) \notin f
        /\ \A u \in R : \A w \in AllPages : \A k \in 1 .. Levels :
              TablesOn(m, u, w)[k] # Translate(m, q, v)
        /\ \A u \in R : \A w \in AllPages :
              w \in D[u] /\ Translate(m, u, w) = Translate(m, q, v) => u = q /\ w = v

\* n pages from `page' on may be mapped in r: no 2M page is near, and a page
\* of D belongs to r and is not mapped to a given frame of the pool.
Placed(R, P, B, D, r, page, n, paddr) ==
    \A x \in 0 .. n - 1 :
        /\ page + x \in AllPages
        /\ Index(page + x)[1] \notin B
        /\ \A q \in R : page + x \in D[q] =>
              /\ q = r \/ Index(page + x)[1] \in P
              /\ paddr # NoFrame => paddr + x \notin Frames

\* What the loop has done to the roots, to the translations, and that it has
\* mapped its first i pages.
TopsKept(m, m2, R, r, page, n) ==
    \A q \in R : \A j \in Slots : m2[q][j] # m[q][j] =>
        q = r /\ ~Present(m[q][j]) /\ \E x \in 0 .. n - 1 : j = Index(page + x)[1]
Elsewhere(m, m2, R, P, r, page, n, paddr) ==
    \A q \in R : \A w \in AllPages : Translate(m2, q, w) # Translate(m, q, w) =>
        /\ \E x \in 0 .. n - 1 : w = page + x
        /\ Index(w)[1] \in P => q = r
        /\ paddr = NoFrame => Translate(m2, q, w) \in Frames
Filled(m2, r, page, paddr, i) ==
    \A x \in 0 .. i - 1 :
        /\ paddr = NoFrame => Translate(m2, r, page + x) \in Frames
        /\ paddr # NoFrame => Translate(m2, r, page + x) = paddr + x
Loop(m, f, R, P, B, D, r, page, n, paddr, i, s) ==
    /\ s \in MapState
    /\ Forest(s.mem, s.free, R, P, B) /\ s.free \subseteq f
    /\ Apart(s.mem, s.free, R, D)
    /\ TopsKept(m, s.mem, R, r, page, n)
    /\ Elsewhere(m, s.mem, R, P, r, page, n, paddr)
    /\ s.ok => Filled(s.mem, r, page, paddr, i)

\* One round of the loop.
PageNext(r, page, paddr, s, i) ==
    LET taken == IF paddr = NoFrame THEN Min(s.free) ELSE paddr + (i - 1)
        left == IF paddr = NoFrame THEN Taken(s.free, taken) ELSE s.free
    IN  IF ~s.ok \/ (paddr = NoFrame /\ s.free = {})
        THEN [s EXCEPT !.ok = FALSE]
        ELSE MapRaw(s.mem, left, r, page + (i - 1), taken, Page4K)

\* A smaller pool is as far apart from the tables.
LEMMA Shrunk ==
    ASSUME NEW m, NEW f, NEW R, NEW P, NEW B, Forest(m, f, R, P, B), NEW g, g \subseteq f
    PROVE  Forest(m, g, R, P, B)
  BY DEF Forest, NotFree

\* A round either fails or is a call of map_raw with a frame a that is fresh,
\* or given.
Goes(R, P, B, r, page, paddr, i, s, p) ==
    \/ p \in MapState /\ p.mem = s.mem /\ p.free = s.free /\ ~p.ok
    \/ /\ s.ok
       /\ \E a \in Nat, g \in SUBSET s.free :
             /\ paddr = NoFrame => a \in s.free /\ a \notin g
             /\ paddr # NoFrame => a = paddr + (i - 1)
             /\ Forest(s.mem, g, R, P, B)
             /\ Mapped(s.mem, g, R, P, B, r, page + (i - 1), a, Page4K, p)
\* One round of the loops of map_region and map_in_userspace: its map_raw moves
\* one page, and a round without a frame changes nothing.
LEMMA Round ==
    ASSUME NEW R, NEW P, NEW B, NEW D, NEW r \in R, NEW page \in Nat, NEW n \in Nat,
           NEW paddr \in Nat \cup {NoFrame},
           Placed(R, P, B, D, r, page, n, paddr), NEW i \in 1 .. n,
           NEW s \in MapState, Forest(s.mem, s.free, R, P, B),
           NEW p, p = PageNext(r, page, paddr, s, i)
    PROVE  Goes(R, P, B, r, page, paddr, i, s, p)
<1>1. s.mem \in Memory /\ s.free \in SUBSET Frames /\ s.ok \in BOOLEAN
  BY DEF MapState
<1>2. CASE ~s.ok \/ (paddr = NoFrame /\ s.free = {})
  <2>1. p = [s EXCEPT !.ok = FALSE]
    BY <1>2 DEF PageNext
  <2> QED
    BY <2>1 DEF MapState, Goes
<1>3. CASE s.ok /\ ~(paddr = NoFrame /\ s.free = {})
  <2>1. PICK a \in Nat, g \in SUBSET s.free :
            /\ paddr = NoFrame => a \in s.free /\ a \notin g
            /\ paddr # NoFrame => a = paddr + (i - 1)
            /\ p = MapRaw(s.mem, g, r, page + (i - 1), a, Page4K)
    <3>1. CASE paddr = NoFrame
      <4>1. Min(s.free) \in s.free
        BY <1>1, <1>3, <3>1, MinFree
      <4>2. p = MapRaw(s.mem, s.free \ {Min(s.free)}, r, page + (i - 1), Min(s.free), Page4K)
        BY <1>3, <3>1 DEF PageNext, Taken
      <4>3. Min(s.free) \in Nat
        BY <1>1, <4>1, PoolAssumption
      <4>4. PICK a \in Nat, g \in SUBSET s.free :
               a = Min(s.free) /\ g = s.free \ {a}
        BY <4>3
      <4> QED
        BY <3>1, <4>1, <4>2, <4>4
    <3>2. CASE paddr # NoFrame
      <4>1. p = MapRaw(s.mem, s.free, r, page + (i - 1), paddr + (i - 1), Page4K)
        BY <1>3, <3>2 DEF PageNext
      <4>2. PICK a \in Nat : a = paddr + (i - 1)
        BY <3>2
      <4>3. PICK g \in SUBSET s.free : g = s.free
        OBVIOUS
      <4> QED
        BY <3>2, <4>1, <4>2, <4>3
    <3> QED
      BY <3>1, <3>2
  <2>2. PICK v : v = page + (i - 1)
    OBVIOUS
  <2>3. v \in AllPages /\ Index(v)[1] \notin B
    <3>1. i - 1 \in 0 .. n - 1
      OBVIOUS
    <3> QED
      BY <2>2, <3>1 DEF Placed
  <2>4. PICK m : m = s.mem
    OBVIOUS
  <2>5. Forest(m, g, R, P, B)
    BY <2>1, <2>4, Shrunk
  <2>6. NotBig(m, r, v)
    BY <2>3, <2>5, Small
  <2>7. PICK d \in {Page2M, Page4K} : d = Page4K /\ d # Page2M
    BY LevelsAssumption DEF Page2M, Page4K
  <2>8. p = MapRaw(m, g, r, v, a, d)
    BY <2>1, <2>2, <2>4, <2>7
  <2>9. Mapped(m, g, R, P, B, r, v, a, d, p)
    BY <2>3, <2>5, <2>6, <2>7, <2>8, MapRawCorrect
  <2>10. /\ s.ok
         /\ paddr = NoFrame => a \in s.free /\ a \notin g
         /\ paddr # NoFrame => a = paddr + (i - 1)
         /\ Forest(s.mem, g, R, P, B)
         /\ Mapped(s.mem, g, R, P, B, r, page + (i - 1), a, Page4K, p)
    BY <1>3, <2>1, <2>2, <2>4, <2>5, <2>7, <2>9
  <2> QED
    BY <2>10 DEF Goes
<1> QED
  BY <1>1, <1>2, <1>3

\* A page that is mapped to a frame of the pool takes it from the pool, and
\* the translation of no other page changes.
Takes(f, g, R, P, D, r, v, a) ==
    \A q \in R : v \in D[q] /\ a \in Frames =>
        a \in f /\ a \notin g /\ (q = r \/ Index(v)[1] \in P)
Moves(m, m2, R, P, r, v, a) ==
    \A q \in R : \A w \in AllPages : Translate(m2, q, w) # Translate(m, q, w) =>
        w = v /\ (Index(v)[1] \in P => q = r) /\ Translate(m2, q, w) = a

\* A round keeps the mapped frames apart.
LEMMA RoundApart ==
    ASSUME NEW m, NEW f, NEW R, NEW P, NEW B, NEW D, Forest(m, f, R, P, B), Apart(m, f, R, D),
           NEW r \in R, NEW v \in AllPages, NEW a, NEW g \in SUBSET f,
           Takes(f, g, R, P, D, r, v, a),
           NEW m2, NEW g2, Grown(m, g, m2, g2, R), Moves(m, m2, R, P, r, v, a)
    PROVE  Apart(m2, g2, R, D)
<1> SUFFICES ASSUME NEW q \in R, NEW w \in AllPages, w \in D[q], Translate(m2, q, w) \in Frames
             PROVE  /\ Translate(m2, q, w) \notin g2
                    /\ \A u \in R : \A z \in AllPages : \A k \in 1 .. Levels :
                          TablesOn(m2, u, z)[k] # Translate(m2, q, w)
                    /\ \A u \in R : \A z \in AllPages :
                          z \in D[u] /\ Translate(m2, u, z) = Translate(m2, q, w)
                              => u = q /\ z = w
  BY DEF Apart
<1>1. g2 \subseteq g /\ g \subseteq f /\ \A u \in R : \A z \in AllPages : \A k \in 1 .. Levels :
          TablesOn(m2, u, z)[k] = TablesOn(m, u, z)[k] \/ TablesOn(m2, u, z)[k] \in g
  BY DEF Grown
<1>a. PICK c \in Frames : c = Translate(m2, q, w)
  OBVIOUS
<1>2. CASE Translate(m, q, w) = c
  <2>1. c \notin f /\ \A u \in R : \A z \in AllPages : \A k \in 1 .. Levels : TablesOn(m, u, z)[k] # c
    BY <1>2 DEF Apart
  <2>2. ASSUME NEW u \in R, NEW z \in AllPages, z \in D[u], Translate(m2, u, z) = c
        PROVE  u = q /\ z = w
    <3>1. CASE Translate(m, u, z) = c
      BY <1>2, <2>2, <3>1 DEF Apart
    <3>2. CASE Translate(m, u, z) # c
      <4>1. z = v /\ c = a
        BY <2>2, <3>2 DEF Moves
      <4> QED
        BY <2>1, <2>2, <4>1 DEF Takes
    <3> QED
      BY <3>1, <3>2
  <2> QED
    BY <1>1, <1>a, <2>1, <2>2
<1>3. CASE Translate(m, q, w) # c
  <2>1. w = v /\ c = a /\ (Index(v)[1] \in P => q = r)
    BY <1>3, <1>a DEF Moves
  <2>2. q = r
    BY <2>1 DEF Takes
  <2>3. c \in f /\ c \notin g
    BY <2>1 DEF Takes
  <2>4. \A u \in R : \A z \in AllPages : \A k \in 1 .. Levels : TablesOn(m, u, z)[k] # c
    BY <2>3 DEF Forest, NotFree
  <2>5. ASSUME NEW u \in R, NEW z \in AllPages, z \in D[u], Translate(m2, u, z) = c
        PROVE  u = q /\ z = w
    <3>1. CASE Translate(m, u, z) = c
      BY <2>3, <2>5, <3>1 DEF Apart
    <3>2. CASE Translate(m, u, z) # c
      <4>1. z = v /\ (Index(v)[1] \in P => u = r)
        BY <2>5, <3>2 DEF Moves
      <4>2. u = r
        BY <2>1, <2>5, <4>1 DEF Takes
      <4> QED
        BY <2>1, <2>2, <4>1, <4>2
    <3> QED
      BY <3>1, <3>2
  <2> QED
    BY <1>1, <1>a, <2>3, <2>4, <2>5
<1> QED
  BY <1>2, <1>3

\* A round keeps the loop's invariant.
LEMMA LoopStep ==
    ASSUME NEW m, NEW f, NEW R, NEW P, NEW B, NEW D, NEW r \in R, NEW page \in Nat, NEW n \in Nat,
           NEW paddr \in Nat \cup {NoFrame},
           Placed(R, P, B, D, r, page, n, paddr), NEW i \in 1 .. n,
           NEW s, Loop(m, f, R, P, B, D, r, page, n, paddr, i - 1, s),
           NEW p, p = PageNext(r, page, paddr, s, i)
    PROVE  Loop(m, f, R, P, B, D, r, page, n, paddr, i, p)
<1>1. /\ s \in MapState /\ Forest(s.mem, s.free, R, P, B) /\ s.free \subseteq f
      /\ Apart(s.mem, s.free, R, D)
      /\ TopsKept(m, s.mem, R, r, page, n)
      /\ Elsewhere(m, s.mem, R, P, r, page, n, paddr)
      /\ s.ok => Filled(s.mem, r, page, paddr, i - 1)
  BY DEF Loop
<1>2. CASE p \in MapState /\ p.mem = s.mem /\ p.free = s.free /\ ~p.ok
  BY <1>1, <1>2 DEF Loop
<1>3. ASSUME s.ok,
             NEW a \in Nat, NEW g \in SUBSET s.free,
             paddr = NoFrame => a \in s.free /\ a \notin g,
             paddr # NoFrame => a = paddr + (i - 1),
             Forest(s.mem, g, R, P, B),
             Mapped(s.mem, g, R, P, B, r, page + (i - 1), a, Page4K, p)
      PROVE  Loop(m, f, R, P, B, D, r, page, n, paddr, i, p)
  <2>1. PICK y \in 0 .. n - 1 : y = i - 1
    OBVIOUS
  <2>2. PICK v \in AllPages : v = page + y
    BY <2>1 DEF Placed
  <2>a. Mapped(s.mem, g, R, P, B, r, v, a, Page4K, p)
    BY <1>3, <2>1, <2>2
  <2>3. /\ p \in MapState /\ Forest(p.mem, p.free, R, P, B)
        /\ Grown(s.mem, g, p.mem, p.free, R) /\ TopKept(s.mem, p.mem, R, r, v, Page4K)
    BY <2>a DEF Mapped
  <2>4. p.ok => Translate(p.mem, r, v) = a
    BY <2>a, SinglePage DEF Mapped
  <2>5. \A q \in R : \A w \in AllPages : Translate(p.mem, q, w) # Translate(s.mem, q, w) =>
            w = v /\ (Index(v)[1] \in P => q = r) /\ Translate(p.mem, q, w) = a
    <3> SUFFICES ASSUME NEW q \in R, NEW w \in AllPages,
                        Translate(p.mem, q, w) # Translate(s.mem, q, w)
                 PROVE  w = v /\ (Index(v)[1] \in P => q = r) /\ Translate(p.mem, q, w) = a
      OBVIOUS
    <3>1. /\ Prefix(w, Page4K) = Prefix(v, Page4K) /\ (Index(v)[1] \in P => q = r)
          /\ Translate(p.mem, q, w) = a + (w % Span[Levels - Page4K])
      BY <2>a DEF Mapped
    <3>2. w = v /\ a + (w % Span[Levels - Page4K]) = a
      BY <1>3, <3>1, SinglePage
    <3> QED
      BY <3>1, <3>2
  <2>6. Apart(p.mem, p.free, R, D)
    <3>2. \A q \in R : v \in D[q] /\ a \in Frames =>
               a \in s.free /\ a \notin g /\ (q = r \/ Index(v)[1] \in P)
      BY <1>3, <2>1, <2>2 DEF Placed
    <3>4. PICK b, h, b2, h2 : b = s.mem /\ h = s.free /\ b2 = p.mem /\ h2 = p.free
      OBVIOUS
    <3>5. /\ Forest(b, h, R, P, B) /\ Apart(b, h, R, D) /\ g \in SUBSET h
          /\ Takes(h, g, R, P, D, r, v, a) /\ Grown(b, g, b2, h2, R)
          /\ Moves(b, b2, R, P, r, v, a)
      BY <1>1, <1>3, <2>3, <2>5, <3>2, <3>4 DEF Takes, Moves
    <3>6. Apart(b2, h2, R, D)
      BY <2>2, <3>5, RoundApart
    <3> QED
      BY <3>4, <3>6
  <2>7. TopsKept(m, p.mem, R, r, page, n)
    <3> SUFFICES ASSUME NEW q \in R, NEW j \in Slots, p.mem[q][j] # m[q][j]
                 PROVE  q = r /\ ~Present(m[q][j]) /\ \E x \in 0 .. n - 1 : j = Index(page + x)[1]
      BY DEF TopsKept
    <3>1. CASE s.mem[q][j] # m[q][j]
      BY <1>1, <3>1 DEF TopsKept
    <3>2. CASE s.mem[q][j] = m[q][j]
      <4>1. p.mem[q][j] # s.mem[q][j]
        BY <3>2
      <4>2. Page4K > 1
        BY LevelsAssumption DEF Page4K
      <4>3. q = r /\ j = Index(v)[1] /\ ~Present(s.mem[q][j])
        BY <2>3, <4>1, <4>2 DEF TopKept
      <4> QED
        BY <2>2, <3>2, <4>3
    <3> QED
      BY <3>1, <3>2
  <2>8. Elsewhere(m, p.mem, R, P, r, page, n, paddr)
    <3> SUFFICES ASSUME NEW q \in R, NEW w \in AllPages, Translate(p.mem, q, w) # Translate(m, q, w)
                 PROVE  /\ \E x \in 0 .. n - 1 : w = page + x
                        /\ Index(w)[1] \in P => q = r
                        /\ paddr = NoFrame => Translate(p.mem, q, w) \in Frames
      BY DEF Elsewhere
    <3>1. CASE Translate(p.mem, q, w) = Translate(s.mem, q, w)
      BY <1>1, <3>1 DEF Elsewhere
    <3>2. CASE Translate(p.mem, q, w) # Translate(s.mem, q, w)
      <4>1. w = v /\ (Index(v)[1] \in P => q = r) /\ Translate(p.mem, q, w) = a
        BY <2>5, <3>2
      <4>2. paddr = NoFrame => a \in Frames
        BY <1>1, <1>3 DEF Forest
      <4> QED
        BY <2>2, <4>1, <4>2
    <3> QED
      BY <3>1, <3>2
  <2>9. p.ok => Filled(p.mem, r, page, paddr, i)
    <3> SUFFICES ASSUME p.ok, NEW x \in 0 .. i - 1
                 PROVE  /\ paddr = NoFrame => Translate(p.mem, r, page + x) \in Frames
                        /\ paddr # NoFrame => Translate(p.mem, r, page + x) = paddr + x
      BY DEF Filled
    <3>1. CASE x = y
      <4>1. Translate(p.mem, r, page + x) = a
        BY <2>2, <2>4, <3>1
      <4>2. paddr = NoFrame => a \in Frames
        BY <1>1, <1>3 DEF Forest
      <4> QED
        BY <1>3, <2>1, <3>1, <4>1, <4>2
    <3>2. CASE x # y
      <4>1. x \in 0 .. (i - 1) - 1 /\ x \in 0 .. n - 1
        BY <2>1, <3>2
      <4>2. PICK w \in AllPages : w = page + x
        BY <4>1 DEF Placed
      <4>3. w # v
        BY <2>1, <2>2, <3>2, <4>2
      <4>4. Translate(p.mem, r, w) = Translate(s.mem, r, w)
        BY <2>5, <4>3
      <4>5. /\ paddr = NoFrame => Translate(s.mem, r, page + x) \in Frames
            /\ paddr # NoFrame => Translate(s.mem, r, page + x) = paddr + x
        BY <1>1, <1>3, <4>1 DEF Filled
      <4> QED
        BY <4>2, <4>4, <4>5
    <3> QED
      BY <3>1, <3>2
  <2>10. p.free \subseteq f
    BY <1>1, <2>3 DEF Grown
  <2> QED
    BY <2>3, <2>6, <2>7, <2>8, <2>9, <2>10 DEF Loop
<1>4. Goes(R, P, B, r, page, paddr, i, s, p)
  BY <1>1, Round
<1> QED
  BY <1>2, <1>3, <1>4 DEF Goes

\* The states of the loop.
Begin(m, f) == [mem |-> m, free |-> f, ok |-> TRUE]
IsPaging(x, m, f, r, page, n, paddr) ==
    x = [i \in 0 .. n |-> IF i = 0 THEN Begin(m, f) ELSE PageNext(r, page, paddr, x[i - 1], i)]
Paging(m, f, r, page, n, paddr) == CHOOSE x : IsPaging(x, m, f, r, page, n, paddr)

Pages(y, m, f, r, page, n, paddr) ==
    /\ y[0] = Begin(m, f)
    /\ \A i \in 1 .. n : y[i] = PageNext(r, page, paddr, y[i - 1], i)

\* The states of the loop follow from one another, and it ends with the last.
LEMMA PagingSteps ==
    ASSUME NEW m, NEW f, NEW R, NEW P, NEW B, Forest(m, f, R, P, B), NEW D, NEW r \in R,
           NEW page \in Nat, NEW n \in Nat, NEW paddr \in Nat \cup {NoFrame},
           Placed(R, P, B, D, r, page, n, paddr)
    PROVE  \E y : MapPages(m, f, r, page, n, paddr) = y[n] /\ Pages(y, m, f, r, page, n, paddr)
<1> DEFINE S == {s \in MapState : Forest(s.mem, s.free, R, P, B)}
           G(s, i) == PageNext(r, page, paddr, s, i)
           g == [x \in S \X Int |-> IF x[2] \in 1 .. n THEN G(x[1], x[2]) ELSE x[1]]
<1>1. MapPages(m, f, r, page, n, paddr) = Paging(m, f, r, page, n, paddr)[n]
  BY DEF MapPages, Paging, IsPaging, Begin, PageNext
<1>2. \A s \in S : \A i \in 1 .. n : G(s, i) \in S
  <2> SUFFICES ASSUME NEW s \in S, NEW i \in 1 .. n PROVE G(s, i) \in S
    OBVIOUS
  <2>1. PICK p : p = G(s, i)
    OBVIOUS
  <2>2. s \in MapState /\ Forest(s.mem, s.free, R, P, B)
    OBVIOUS
  <2>3. Goes(R, P, B, r, page, paddr, i, s, p)
    BY <2>1, <2>2, Round
  <2>4. p \in MapState /\ Forest(p.mem, p.free, R, P, B)
    BY <2>2, <2>3 DEF Goes, Mapped
  <2> QED
    BY <2>1, <2>4
<1>3. Begin(m, f) \in S
  BY DEF Forest, Begin, MapState
<1> HIDE DEF G, S
<1>4. g \in [S \X Int -> S]
  BY <1>2
<1> HIDE DEF g
<1>5. PICK x : x \in [0 .. n -> S] /\ x[0] = Begin(m, f)
               /\ \A k \in 0 + 1 .. n : x[k] = g[<<x[k - 1], k>>]
  <2>1. PICK a \in Int, h \in Int : a = 0 /\ h = n /\ a <= h
    OBVIOUS
  <2>2. PICK z \in S : z = Begin(m, f)
    BY <1>3
  <2>3. \E x : Recursive(x, a, h, S, z, g)
    BY <1>4, <2>1, <2>2, Recursion
  <2> QED
    BY <2>1, <2>2, <2>3 DEF Recursive
<1>6. \A k \in 1 .. n : x[k] = G(x[k - 1], k)
  <2> SUFFICES ASSUME NEW k \in 1 .. n PROVE x[k] = G(x[k - 1], k)
    OBVIOUS
  <2>1. x[k] = g[<<x[k - 1], k>>] /\ x[k - 1] \in S
    BY <1>5
  <2>2. g[<<x[k - 1], k>>] = G(x[k - 1], k)
    BY <2>1 DEF g
  <2> QED
    BY <2>1, <2>2
<1>7. x = [i \in 0 .. n |-> IF i = 0 THEN Begin(m, f) ELSE G(x[i - 1], i)]
  <2>1. x = [i \in 0 .. n |-> x[i]]
    BY <1>5
  <2>2. ASSUME NEW i \in 0 .. n PROVE x[i] = IF i = 0 THEN Begin(m, f) ELSE G(x[i - 1], i)
    <3>1. i = 0 \/ i \in 1 .. n
      OBVIOUS
    <3>2. x[0] = Begin(m, f)
      BY <1>5
    <3> QED
      BY <1>6, <3>1, <3>2
  <2> QED
    BY <2>1, <2>2, Zenon
<1>8. IsPaging(x, m, f, r, page, n, paddr)
  BY <1>7 DEF IsPaging, G
<1>9. IsPaging(Paging(m, f, r, page, n, paddr), m, f, r, page, n, paddr)
  BY <1>8 DEF Paging
<1>10. PICK y : y = Paging(m, f, r, page, n, paddr) /\ IsPaging(y, m, f, r, page, n, paddr)
  BY <1>9
<1>11. Pages(y, m, f, r, page, n, paddr)
  <2>3. y[0] = Begin(m, f) /\ \A i \in 1 .. n : y[i] = PageNext(r, page, paddr, y[i - 1], i)
    <3>1. 0 \in 0 .. n
      OBVIOUS
    <3>2. \A i \in 1 .. n : i \in 0 .. n /\ i # 0
      OBVIOUS
    <3> QED
      BY <1>10, <3>1, <3>2 DEF IsPaging
  <2> QED
    BY <2>3 DEF Pages
<1> QED
  BY <1>1, <1>10, <1>11

\* map_region, map_in_userspace and the loop over the kernel image: pages
\* are mapped, nothing else changes, and every frame keeps its one use, also
\* when the loop fails halfway.
LEMMA MapPagesCorrect ==
    ASSUME NEW m, NEW f, NEW R, NEW P, NEW B, Forest(m, f, R, P, B), NEW D, Apart(m, f, R, D),
           NEW r \in R, NEW page \in Nat, NEW n \in Nat, NEW paddr \in Nat \cup {NoFrame},
           Placed(R, P, B, D, r, page, n, paddr),
           NEW s, s = MapPages(m, f, r, page, n, paddr)
    PROVE  Loop(m, f, R, P, B, D, r, page, n, paddr, n, s)
<1>b. PICK x : s = x[n] /\ Pages(x, m, f, r, page, n, paddr)
  BY PagingSteps
<1>1. x[0] = Begin(m, f) /\ \A i \in 1 .. n : x[i] = PageNext(r, page, paddr, x[i - 1], i)
  BY <1>b DEF Pages
<1> DEFINE T == {i \in 0 .. n : Loop(m, f, R, P, B, D, r, page, n, paddr, i, x[i])}
<1>2. 0 \in T
  <2>1. PICK b : b = Begin(m, f)
    OBVIOUS
  <2>2. b \in MapState /\ b.mem = m /\ b.free = f
    BY <2>1 DEF Begin, MapState, Forest
  <2>3. /\ TopsKept(m, m, R, r, page, n) /\ Elsewhere(m, m, R, P, r, page, n, paddr)
        /\ Filled(m, r, page, paddr, 0)
    BY DEF TopsKept, Elsewhere, Filled
  <2>4. Loop(m, f, R, P, B, D, r, page, n, paddr, 0, b)
    BY <2>2, <2>3 DEF Loop
  <2> QED
    BY <1>1, <2>1, <2>4
<1>3. PICK a \in Int, h \in Int : a = 0 /\ h = n /\ a <= h
  OBVIOUS
<1>4. \A i \in a .. h - 1 : i \in T => i + 1 \in T
  <2> SUFFICES ASSUME NEW i \in 0 .. n - 1, Loop(m, f, R, P, B, D, r, page, n, paddr, i, x[i])
               PROVE  Loop(m, f, R, P, B, D, r, page, n, paddr, i + 1, x[i + 1])
    BY <1>3
  <2>1. PICK c \in 1 .. n : c = i + 1 /\ c - 1 = i
    OBVIOUS
  <2>2. x[c] = PageNext(r, page, paddr, x[c - 1], c)
    BY <1>1, <2>1
  <2>3. PICK y, z : y = x[c - 1] /\ z = x[c]
    OBVIOUS
  <2>4. Loop(m, f, R, P, B, D, r, page, n, paddr, c - 1, y)
    BY <2>1, <2>3
  <2>5. Loop(m, f, R, P, B, D, r, page, n, paddr, c, z)
    BY <2>1, <2>2, <2>3, <2>4, LoopStep
  <2> QED
    BY <2>1, <2>3, <2>5
<1> HIDE DEF T
<1>5. a .. h \subseteq T
  BY <1>2, <1>3, <1>4, Ascent
<1> QED
  BY <1>b, <1>3, <1>5 DEF T
-----------------------------------------------------------------------------
\* The top level indices of physical memory, and its number of 2M pages.
PhysSlots == PhysP4 .. VmallocStartP4 - 1
Areas == (HighestFrame \div Entries) + 1

\* The page of a top level index.
LEMMA TopPages ==
    ASSUME NEW v \in AllPages, NEW a \in Nat, NEW b \in Nat
    PROVE  PageOf(a) <= v /\ v < PageOf(b) <=> Index(v)[1] \in a .. b - 1
<1>1. PageOf(a) \in Nat /\ PageOf(b) \in Nat /\ v \in Nat /\ Index(v)[1] \in Nat
  <2>1. 1 \in 1 .. Levels
    BY LevelsAssumption
  <2> QED
    BY <2>1, Digits, TopIndex
<1>2. (PageOf(a) <= v <=> a <= Index(v)[1]) /\ (PageOf(b) <= v <=> b <= Index(v)[1])
  BY TopIndex
<1> QED
  BY <1>1, <1>2

\* The pages below the end of the top level.
LEMMA PageRange ==
    ASSUME NEW a \in 0 .. Entries, NEW v \in Nat, v < PageOf(a)
    PROVE  v \in AllPages
<1>1. Levels \in Nat /\ Levels >= 2 /\ Entries \in Nat
  BY LevelsAssumption, EntriesAssumption
<1>2. PICK c \in Nat : c = Span[Levels - 1]
  BY <1>1, Spans
<1>3. Span[Levels] = Entries * c /\ PageOf(a) = a * c
  BY <1>1, <1>2, Spans DEF PageOf
<1>4. PICK z \in Nat : a + z = Entries
  BY <1>1
<1>5. (a + z) * c = a * c + z * c /\ z * c \in Nat /\ a * c \in Nat
  BY <1>2, <1>4
<1> QED
  BY <1>3, <1>4, <1>5 DEF AllPages

\* The j-th 2M page of physical memory.
LEMMA PhysPage ==
    ASSUME NEW j \in 1 .. Areas, NEW v, v = PageOf(PhysP4) + (j - 1) * Entries
    PROVE  /\ v \in AllPages /\ v % Entries = 0 /\ (j - 1) * Entries \in Nat
           /\ \A w \in AllPages : v <= w /\ w < v + Entries => Index(w)[1] \in PhysSlots
           /\ \A z \in 0 .. Entries - 1 : v + z \in AllPages
<1>1. Levels \in Nat /\ Levels >= 2 /\ Entries \in Nat /\ Entries >= 2
  BY LevelsAssumption, EntriesAssumption
<1>2. PICK c \in Nat : c = Span[Levels - 2] /\ Span[Levels - 1] = Entries * c
  <2>1. PICK n \in 1 .. Levels : n = Levels - 1 /\ n - 1 = Levels - 2 /\ n - 1 \in 0 .. Levels
    BY <1>1
  <2>2. Span[n] = Entries * Span[n - 1] /\ Span[n - 1] \in Nat
    BY <2>1, Spans
  <2> QED
    BY <2>1, <2>2
<1>3. HighestFrame \in Nat /\ PageOf(PhysP4) + HighestFrame + Entries <= PageOf(VmallocStartP4)
  BY KernelAssumption
<1>4. PhysP4 \in Nat /\ VmallocStartP4 \in Nat /\ VmallocStartP4 \in 0 .. Entries
  BY <1>1, LayoutAssumption
<1>5. PICK h \in Nat : h = HighestFrame \div Entries /\ Entries * h <= HighestFrame
  <2>1. /\ HighestFrame \div Entries \in Nat /\ HighestFrame % Entries \in Nat
        /\ HighestFrame = Entries * (HighestFrame \div Entries) + (HighestFrame % Entries)
    BY <1>1, <1>3, Division
  <2> QED
    BY <2>1, <1>1
<1>6. PICK i \in Nat, y \in Nat : i = j - 1 /\ i + y = h
  <2>1. j \in 1 .. h + 1
    BY <1>5 DEF Areas
  <2>2. PICK i \in Nat, y \in Nat : i = j - 1 /\ y = h - i
    BY <2>1
  <2> QED
    BY <2>2
<1>7. i * Entries \in Nat /\ i * Entries <= HighestFrame
  <2>1. Entries * h = i * Entries + y * Entries /\ y * Entries \in Nat /\ i * Entries \in Nat
    BY <1>1, <1>6
  <2> QED
    BY <1>1, <1>3, <1>5, <2>1
<1>8. PICK a \in Nat, b \in Nat : a = PageOf(PhysP4) /\ b = PageOf(VmallocStartP4)
  BY <1>1, <1>2, <1>4 DEF PageOf
<1>9. v = a + i * Entries /\ v \in Nat /\ v + Entries <= b
  BY <1>1, <1>3, <1>6, <1>7, <1>8
<1>10. \A z \in 0 .. Entries - 1 : v + z \in AllPages
  <2> SUFFICES ASSUME NEW z \in 0 .. Entries - 1 PROVE v + z \in AllPages
    OBVIOUS
  <2>1. v + z \in Nat /\ v + z < PageOf(VmallocStartP4)
    BY <1>1, <1>8, <1>9
  <2> QED
    BY <1>4, <2>1, PageRange
<1>11. v \in AllPages
  <2>1. 0 \in 0 .. Entries - 1 /\ v + 0 = v
    BY <1>1, <1>9
  <2> QED
    BY <1>10, <2>1
<1>12. v % Entries = 0
  <2>1. PICK k \in Nat : k = PhysP4 * c + i
    BY <1>2, <1>4, <1>6
  <2>2. v = Entries * k + 0
    <3>1. a = PhysP4 * (Entries * c)
      BY <1>2, <1>8 DEF PageOf
    <3>2. PhysP4 * (Entries * c) = Entries * (PhysP4 * c)
      BY <1>1, <1>2, <1>4
    <3>3. Entries * (PhysP4 * c + i) = Entries * (PhysP4 * c) + i * Entries
      BY <1>1, <1>2, <1>4, <1>6
    <3> QED
      BY <1>9, <2>1, <3>1, <3>2, <3>3
  <2>3. PICK e \in Nat \ {0}, o \in Nat : e = Entries /\ o = 0 /\ o \in 0 .. e - 1
    BY <1>1
  <2>4. v = e * k + o
    BY <2>2, <2>3
  <2>5. \A q \in Nat, r \in 0 .. e - 1 : v = e * q + r => q = v \div e /\ r = v % e
    BY <1>9, Division
  <2>6. o = v % e
    BY <2>1, <2>3, <2>4, <2>5
  <2> QED
    BY <2>3, <2>6
<1>13. ASSUME NEW w \in AllPages, v <= w, w < v + Entries PROVE Index(w)[1] \in PhysSlots
  <2>1. w \in Nat
    BY Digits
  <2>2. a <= w /\ w < b
    BY <1>1, <1>7, <1>8, <1>9, <1>13, <2>1
  <2>3. PageOf(PhysP4) <= w /\ w < PageOf(VmallocStartP4)
    BY <1>8, <2>2
  <2> QED
    BY <1>4, <2>3, TopPages DEF PhysSlots
<1> QED
  BY <1>6, <1>7, <1>10, <1>11, <1>12, <1>13

\* What mapping the first j 2M pages of physical memory has done.
Others(m, m2, R) ==
    /\ \A q \in R : \A w \in AllPages :
          Index(w)[1] \notin PhysSlots => Translate(m2, q, w) = Translate(m, q, w)
    /\ \A q \in R : \A i \in Slots \ PhysSlots : m2[q][i] = m[q][i]
Reaches(m, r, n) == \A x \in 0 .. n - 1 : Translate(m, r, PhysicalToVirtual(x)) = x
Phys(m, f, R, P, r, j, s) ==
    /\ s \in MapState
    /\ Forest(s.mem, s.free, R, P, PhysSlots) /\ s.free \subseteq f
    /\ Others(m, s.mem, R)
    /\ s.ok => Reaches(s.mem, r, j * Entries)

\* One round of the loop, and its states.
PhysNext(r, s, j) ==
    IF ~s.ok THEN s
    ELSE MapRaw(s.mem, s.free, r, PageOf(PhysP4) + (j - 1) * Entries, (j - 1) * Entries, Page2M)

\* A round that calls map_raw.
LEMMA PhysMap ==
    ASSUME NEW m, NEW f, NEW R, NEW P, NEW r \in R, NEW j \in 1 .. Areas,
           NEW s, Phys(m, f, R, P, r, j - 1, s), s.ok, NEW p, p = PhysNext(r, s, j)
    PROVE  Phys(m, f, R, P, r, j, p)
<1>1. PICK v, a : v = PageOf(PhysP4) + (j - 1) * Entries /\ a = (j - 1) * Entries
  OBVIOUS
<1>2. /\ v \in AllPages /\ v % Entries = 0 /\ a \in Nat
      /\ \A w \in AllPages : v <= w /\ w < v + Entries => Index(w)[1] \in PhysSlots
      /\ \A z \in 0 .. Entries - 1 : v + z \in AllPages
  BY <1>1, PhysPage
<1>3. PICK B : B = PhysSlots
  OBVIOUS
<1>4. PICK d \in {Page2M, Page4K} : d = Page2M /\ d # Page4K
  BY LevelsAssumption DEF Page2M, Page4K
<1>5. Entries \in Nat /\ Entries >= 2 /\ v \in Nat
  BY <1>2, EntriesAssumption, Digits
<1>6. Index(v)[1] \in B
  <2>1. v <= v /\ v < v + Entries
    BY <1>5
  <2> QED
    BY <1>2, <1>3, <2>1
<1>7. PICK b, g : b = s.mem /\ g = s.free
  OBVIOUS
<1>8. p = MapRaw(b, g, r, v, a, d)
  BY <1>1, <1>4, <1>7 DEF PhysNext
<1>9. Forest(b, g, R, P, B)
  BY <1>3, <1>7 DEF Phys
<1>10. Mapped(b, g, R, P, B, r, v, a, d, p)
  BY <1>2, <1>4, <1>6, <1>8, <1>9, MapRawCorrect
<1>11. \A w \in AllPages : Prefix(w, d) = Prefix(v, d) <=> v <= w /\ w < v + Entries
  BY <1>2, <1>4, Area
<1>12. \A w \in AllPages : v <= w /\ w < v + Entries => w % Span[Levels - d] = w - v
  BY <1>2, <1>4, Area
<1>13. p \in MapState /\ Forest(p.mem, p.free, R, P, PhysSlots)
  BY <1>3, <1>10 DEF Mapped
<1>14. p.free \subseteq f
  BY <1>7, <1>10 DEF Mapped, Grown, Phys
<1>15. Others(m, p.mem, R)
  <2>1. ASSUME NEW q \in R, NEW w \in AllPages, Index(w)[1] \notin PhysSlots
        PROVE  Translate(p.mem, q, w) = Translate(m, q, w)
    <3>1. Prefix(w, d) # Prefix(v, d)
      BY <1>2, <1>11, <2>1
    <3>2. Translate(p.mem, q, w) = Translate(b, q, w)
      BY <1>10, <3>1 DEF Mapped
    <3> QED
      BY <1>7, <2>1, <3>2 DEF Phys, Others
  <2>2. ASSUME NEW q \in R, NEW i \in Slots \ PhysSlots PROVE p.mem[q][i] = m[q][i]
    <3>1. p.mem[q][i] = b[q][i]
      BY <1>3, <1>6, <1>10 DEF Mapped, TopKept
    <3> QED
      BY <1>7, <3>1 DEF Phys, Others
  <2> QED
    BY <2>1, <2>2 DEF Others
<1>16. p.ok => Reaches(p.mem, r, j * Entries)
  <2> SUFFICES ASSUME p.ok, NEW x \in 0 .. (j * Entries) - 1
               PROVE  Translate(p.mem, r, PhysicalToVirtual(x)) = x
    BY DEF Reaches
  <2>1. j * Entries = a + Entries /\ x \in Nat
    BY <1>1, <1>5
  <2>2. PICK w : w = PhysicalToVirtual(x) /\ w = PageOf(PhysP4) + x
    BY DEF PhysicalToVirtual
  <2>a. PICK o \in Nat : o = PageOf(PhysP4) /\ v = o + a
    <3>1. PhysP4 \in Nat
      BY LayoutAssumption
    <3>2. PageOf(PhysP4) \in Nat
      BY <1>2, <3>1, TopIndex
    <3> QED
      BY <1>1, <3>2
  <2>3. CASE x < a
    <3>1. Translate(b, r, w) = x
      <4>1. Reaches(b, r, a)
        BY <1>1, <1>7 DEF Phys
      <4>2. x \in 0 .. a - 1
        BY <1>2, <2>1, <2>3
      <4> QED
        BY <2>2, <4>1, <4>2 DEF Reaches
    <3>2. w \in AllPages
      <4>1. w \in Nat /\ w < v
        BY <1>2, <2>1, <2>2, <2>3, <2>a
      <4> QED
        <5>1. PICK c \in Nat : c = Span[Levels] /\ AllPages = 0 .. c - 1
          BY Spans, LevelsAssumption DEF AllPages
        <5> QED
          BY <1>2, <1>5, <4>1, <5>1
    <3>3. Prefix(w, d) # Prefix(v, d)
      BY <1>2, <1>5, <1>11, <2>1, <2>2, <2>3, <2>a, <3>2
    <3>4. Translate(p.mem, r, w) = Translate(b, r, w)
      BY <1>10, <3>2, <3>3 DEF Mapped
    <3> QED
      BY <2>2, <3>1, <3>4
  <2>4. CASE x >= a
    <3>1. PICK z \in 0 .. Entries - 1 : x = a + z
      BY <1>2, <1>5, <2>1, <2>4
    <3>2. w = v + z /\ w \in AllPages
      BY <1>2, <2>2, <2>a, <3>1
    <3>3. v <= w /\ w < v + Entries /\ w - v = z
      BY <1>5, <3>1, <3>2
    <3>4. Prefix(w, d) = Prefix(v, d) /\ w % Span[Levels - d] = z
      BY <1>11, <1>12, <3>2, <3>3
    <3>5. Translate(p.mem, r, w) = a + (w % Span[Levels - d])
      BY <1>10, <3>2, <3>4 DEF Mapped
    <3> QED
      BY <2>2, <3>1, <3>4, <3>5
  <2> QED
    BY <1>2, <2>1, <2>3, <2>4
<1> QED
  BY <1>13, <1>14, <1>15, <1>16 DEF Phys

\* A round of the loop.
LEMMA PhysRound ==
    ASSUME NEW m, NEW f, NEW R, NEW P, NEW r \in R, NEW j \in 1 .. Areas,
           NEW s, Phys(m, f, R, P, r, j - 1, s), NEW p, p = PhysNext(r, s, j)
    PROVE  Phys(m, f, R, P, r, j, p)
<1>1. CASE s.ok
  BY <1>1, PhysMap
<1>2. CASE ~s.ok
  BY <1>2 DEF PhysNext, Phys
<1> QED
  BY <1>1, <1>2

IsPhysing(x, s, r) == x = [j \in 0 .. Areas |-> IF j = 0 THEN s ELSE PhysNext(r, x[j - 1], j)]
Physing(s, r) == CHOOSE x : IsPhysing(x, s, r)

\* The loop of initialize over physical memory: it is all mapped, and nothing
\* else changes.
LEMMA MapPhysicalCorrect ==
    ASSUME NEW m, NEW f, NEW R, NEW P, NEW r \in R, NEW s, Phys(m, f, R, P, r, 0, s)
    PROVE  Phys(m, f, R, P, r, Areas, MapPhysical(s, r))
<1>a. Areas \in Nat
  <2>1. HighestFrame \div Entries \in Nat
    BY EntriesAssumption, KernelAssumption, Division
  <2> QED
    BY <2>1 DEF Areas
<1> DEFINE S == {y \in MapState : Forest(y.mem, y.free, R, P, PhysSlots)}
           G(y, i) == PhysNext(r, y, i)
           g == [x \in S \X Int |-> IF x[2] \in 1 .. Areas THEN G(x[1], x[2]) ELSE x[1]]
<1>1. MapPhysical(s, r) = Physing(s, r)[Areas]
  BY DEF MapPhysical, Physing, IsPhysing, PhysNext, Areas
<1>2. \A y \in S : \A i \in 1 .. Areas : G(y, i) \in S
  <2> SUFFICES ASSUME NEW y \in S, NEW i \in 1 .. Areas PROVE G(y, i) \in S
    OBVIOUS
  <2>1. CASE ~y.ok
    BY <2>1 DEF PhysNext
  <2>2. CASE y.ok
    <3>1. PICK v, a : v = PageOf(PhysP4) + (i - 1) * Entries /\ a = (i - 1) * Entries
      OBVIOUS
    <3>2. /\ v \in AllPages /\ a \in Nat
          /\ \A w \in AllPages : v <= w /\ w < v + Entries => Index(w)[1] \in PhysSlots
      BY <3>1, PhysPage
    <3>3. Index(v)[1] \in PhysSlots
      <4>1. v <= v /\ v < v + Entries
        BY <3>2, EntriesAssumption, Digits
      <4> QED
        BY <3>2, <4>1
    <3>4. PICK d \in {Page2M, Page4K} : d = Page2M /\ d # Page4K
      BY LevelsAssumption DEF Page2M, Page4K
    <3>5. PICK b, c, B, p : b = y.mem /\ c = y.free /\ B = PhysSlots /\ p = G(y, i)
      OBVIOUS
    <3>6. p = MapRaw(b, c, r, v, a, d)
      BY <2>2, <3>1, <3>4, <3>5 DEF PhysNext
    <3>7. Mapped(b, c, R, P, B, r, v, a, d, p)
      BY <3>2, <3>3, <3>4, <3>5, <3>6, MapRawCorrect
    <3> QED
      BY <3>5, <3>7 DEF Mapped
  <2> QED
    BY <2>1, <2>2 DEF MapState
<1>3. s \in S
  BY DEF Phys
<1> HIDE DEF G, S
<1>4. g \in [S \X Int -> S]
  BY <1>2
<1> HIDE DEF g
<1>5. PICK x : x \in [0 .. Areas -> S] /\ x[0] = s
               /\ \A k \in 0 + 1 .. Areas : x[k] = g[<<x[k - 1], k>>]
  <2>1. PICK a \in Int, h \in Int : a = 0 /\ h = Areas /\ a <= h
    BY <1>a
  <2>2. PICK z \in S : z = s
    BY <1>3
  <2>3. \E x : Recursive(x, a, h, S, z, g)
    BY <1>4, <2>1, <2>2, Recursion
  <2> QED
    BY <2>1, <2>2, <2>3 DEF Recursive
<1>6. \A k \in 1 .. Areas : x[k] = G(x[k - 1], k)
  <2> SUFFICES ASSUME NEW k \in 1 .. Areas PROVE x[k] = G(x[k - 1], k)
    OBVIOUS
  <2>1. x[k] = g[<<x[k - 1], k>>] /\ x[k - 1] \in S
    BY <1>5, <1>a
  <2>2. g[<<x[k - 1], k>>] = G(x[k - 1], k)
    BY <1>a, <2>1 DEF g
  <2> QED
    BY <2>1, <2>2
<1>7. x = [i \in 0 .. Areas |-> IF i = 0 THEN s ELSE G(x[i - 1], i)]
  <2>1. x = [i \in 0 .. Areas |-> x[i]]
    BY <1>5
  <2>2. ASSUME NEW i \in 0 .. Areas PROVE x[i] = IF i = 0 THEN s ELSE G(x[i - 1], i)
    <3>1. i = 0 \/ i \in 1 .. Areas
      BY <1>a
    <3>2. x[0] = s
      BY <1>5
    <3> QED
      BY <1>6, <3>1, <3>2
  <2> QED
    BY <2>1, <2>2, Zenon
<1>8. IsPhysing(x, s, r)
  BY <1>7 DEF IsPhysing, G
<1>9. IsPhysing(Physing(s, r), s, r)
  BY <1>8 DEF Physing
<1>10. PICK y : y = Physing(s, r) /\ IsPhysing(y, s, r)
  BY <1>9
<1>11. y[0] = s /\ \A i \in 1 .. Areas : y[i] = PhysNext(r, y[i - 1], i)
  <2>1. 0 \in 0 .. Areas
    BY <1>a
  <2>2. \A i \in 1 .. Areas : i \in 0 .. Areas /\ i # 0
    BY <1>a
  <2> QED
    BY <1>10, <2>1, <2>2 DEF IsPhysing
<1> DEFINE T == {i \in 0 .. Areas : Phys(m, f, R, P, r, i, y[i])}
<1>12. 0 \in T
  BY <1>11, <1>a
<1>13. PICK a \in Int, h \in Int : a = 0 /\ h = Areas /\ a <= h
  BY <1>a
<1>14. \A i \in a .. h - 1 : i \in T => i + 1 \in T
  <2> SUFFICES ASSUME NEW i \in 0 .. Areas - 1, Phys(m, f, R, P, r, i, y[i])
               PROVE  Phys(m, f, R, P, r, i + 1, y[i + 1])
    BY <1>13, <1>a
  <2>1. PICK c \in 1 .. Areas : c = i + 1 /\ c - 1 = i
    BY <1>a
  <2>3. PICK b, z : b = y[c - 1] /\ z = y[c]
    OBVIOUS
  <2>2. z = PhysNext(r, b, c)
    BY <1>11, <2>1, <2>3
  <2>4. Phys(m, f, R, P, r, c - 1, b)
    BY <2>1, <2>3
  <2>5. Phys(m, f, R, P, r, c, z)
    BY <2>2, <2>4, PhysRound
  <2> QED
    BY <2>1, <2>3, <2>5
<1> HIDE DEF T
<1>15. a .. h \subseteq T
  BY <1>12, <1>13, <1>14, Ascent
<1> QED
  BY <1>1, <1>10, <1>13, <1>15 DEF T
-----------------------------------------------------------------------------
\* An unused slot of the root maps nothing.
LEMMA NotPresent ==
    ASSUME NEW m, NEW r \in Frames, NEW w \in AllPages, ~Present(m[r][Index(w)[1]])
    PROVE  Translate(m, r, w) = NoFrame
<1>1. Levels \in Nat /\ Levels >= 2 /\ NoFrame \notin Frames
  BY LevelsAssumption, PoolAssumption
<1>2. PICK d \in 1 .. Levels : d = 1 /\ d + 1 = 2 /\ 2 \in 2 .. Levels /\ 2 - 1 = 1
  BY <1>1
<1>3. TablesOn(m, r, w)[1] = r /\ TablesOn(m, r, w)[2] = Follow(m, TablesOn(m, r, w)[2 - 1], Index(w)[2 - 1])
  BY <1>2, Walk
<1>4. TablesOn(m, r, w)[2] = NoFrame
  BY <1>2, <1>3 DEF Follow, IsTable
<1>5. TablesOn(m, r, w)[d] # NoFrame /\ TablesOn(m, r, w)[d + 1] = NoFrame
  BY <1>1, <1>2, <1>3, <1>4
<1>6. Translate(m, r, w) = Result(m[TablesOn(m, r, w)[d]][Index(w)[d]], w, d)
  BY <1>5, TranslateAt
<1> QED
  BY <1>2, <1>3, <1>6 DEF Result

\* Only table s differs between m and m2, and s is no table below a root.
OnlyRoot(m, m2, R, s) ==
    /\ \A t \in Frames \ {s} : m2[t] = m[t]
    /\ \A q \in R : \A w \in AllPages : \A k \in 2 .. Levels : TablesOn(m, q, w)[k] # s

\* The walk of q in m2 is, below the root, that of u in m.
SameBelow(m, m2, q, u, w) ==
    \A k \in 2 .. Levels : TablesOn(m2, q, w)[k] = TablesOn(m, u, w)[k]

\* Roots with the same entry for w agree on all of w.
LEMMA SameWalk ==
    ASSUME NEW m, NEW R, NEW u \in R, Inside(m, R), R \subseteq Frames, NEW s,
           NEW m2, OnlyRoot(m, m2, R, s), NEW q \in Frames, NEW w \in AllPages,
           m2[q][Index(w)[1]] = m[u][Index(w)[1]]
    PROVE  SameBelow(m, m2, q, u, w) /\ Translate(m2, q, w) = Translate(m, u, w)
<1>1. Levels \in Nat /\ Levels >= 2 /\ NoFrame \notin Frames
  BY LevelsAssumption, PoolAssumption
<1>2. PICK x : /\ x = TablesOn(m, u, w) /\ x[1] = u
               /\ \A j \in 2 .. Levels : x[j] = Follow(m, x[j - 1], Index(w)[j - 1])
  BY Walk
<1>3. PICK y : /\ y = TablesOn(m2, q, w) /\ y[1] = q
               /\ \A j \in 2 .. Levels : y[j] = Follow(m2, y[j - 1], Index(w)[j - 1])
  BY Walk
<1>4. \A j \in 2 .. Levels : x[j] \in Frames \cup {NoFrame} /\ x[j] # s
  BY <1>1, <1>2 DEF Inside, OnlyRoot
<1>5. \A j \in 2 .. Levels : x[j] # NoFrame => m2[x[j]] = m[x[j]]
  BY <1>4 DEF OnlyRoot
<1>6. u # NoFrame /\ q # NoFrame /\ u \in Frames
  BY <1>1
<1> DEFINE T == {j \in 2 .. Levels : y[j] = x[j]}
<1>7. 2 \in T
  <2>1. 2 \in 2 .. Levels /\ 2 - 1 = 1
    BY <1>1
  <2>2. x[2] = Follow(m, u, Index(w)[1]) /\ y[2] = Follow(m2, q, Index(w)[1])
    BY <1>2, <1>3, <2>1
  <2> QED
    BY <1>6, <2>1, <2>2 DEF Follow
<1>8. PICK a \in Int, h \in Int : a = 2 /\ h = Levels /\ a <= h
  BY <1>1
<1>9. \A j \in a .. h - 1 : j \in T => j + 1 \in T
  <2> SUFFICES ASSUME NEW j \in 2 .. Levels - 1, y[j] = x[j] PROVE y[j + 1] = x[j + 1]
    BY <1>1, <1>8
  <2>1. j \in 2 .. Levels /\ j + 1 \in 2 .. Levels /\ (j + 1) - 1 = j
    BY <1>1
  <2>2. x[j + 1] = Follow(m, x[j], Index(w)[j]) /\ y[j + 1] = Follow(m2, y[j], Index(w)[j])
    BY <1>2, <1>3, <2>1
  <2> QED
    BY <1>5, <2>1, <2>2 DEF Follow
<1> HIDE DEF T
<1>10. a .. h \subseteq T
  BY <1>7, <1>8, <1>9, Ascent
<1>11. \A j \in 2 .. Levels : y[j] = x[j]
  BY <1>8, <1>10 DEF T
<1>12. PICK d \in 1 .. Levels : \A k \in 1 .. Levels : x[k] # NoFrame <=> k <= d
  BY <1>2, <1>6, Frontier
<1>13. x[d] # NoFrame /\ (d < Levels => x[d + 1] = NoFrame)
  <2>1. d < Levels => d + 1 \in 1 .. Levels /\ ~(d + 1 <= d)
    BY <1>1
  <2> QED
    BY <1>12, <2>1
<1>14. y[d] # NoFrame /\ (d < Levels => y[d + 1] = NoFrame)
  <2>1. d = 1 \/ d \in 2 .. Levels
    BY <1>1
  <2>2. d < Levels => d + 1 \in 2 .. Levels
    BY <1>1
  <2> QED
    BY <1>3, <1>6, <1>11, <1>13, <2>1, <2>2
<1>15. m2[y[d]][Index(w)[d]] = m[x[d]][Index(w)[d]]
  <2>1. d = 1 \/ d \in 2 .. Levels
    BY <1>1
  <2> QED
    BY <1>2, <1>3, <1>5, <1>11, <1>13, <2>1
<1>16. Translate(m, u, w) = Result(m[x[d]][Index(w)[d]], w, d)
  BY <1>2, <1>6, <1>13, TranslateAt
<1>17. Translate(m2, q, w) = Result(m2[y[d]][Index(w)[d]], w, d)
  BY <1>3, <1>14, TranslateAt
<1> QED
  BY <1>2, <1>3, <1>11, <1>15, <1>16, <1>17 DEF SameBelow

\* Table s takes entries of the root c, and keeps some of its own if it is a
\* root already; under P it takes none that is used.
Copied(m, m2, R, P, c, s) ==
    /\ m2 \in Memory
    /\ \A t \in Frames \ {s} : m2[t] = m[t]
    /\ \A j \in Slots : m2[s][j] = m[c][j] \/ (s \in R /\ m2[s][j] = m[s][j])
    /\ \A j \in Slots : j \in P => (s \in R /\ m2[s][j] = m[s][j]) \/ ~Present(m2[s][j])

\* The root of m that q goes on with on its walk to w in m2.
From(m, m2, R, P, s, q, u, w) ==
    /\ u \in R /\ (q # s => u = q)
    /\ m2[q][Index(w)[1]] = m[u][Index(w)[1]]
    /\ Index(w)[1] \in P => u = q \/ \A k \in 2 .. Levels : TablesOn(m2, q, w)[k] = NoFrame
    /\ SameBelow(m, m2, q, u, w)
    /\ Translate(m2, q, w) = Translate(m, u, w)

\* A root table that copies entries, which is free or a root before: the
\* table below a root is not s.
LEMMA RootOnly ==
    ASSUME NEW m, NEW f, NEW R, NEW P, NEW B, Forest(m, f, R, P, B),
           NEW s, s \in R \cup f, NEW c, NEW m2, Copied(m, m2, R, P, c, s)
    PROVE  OnlyRoot(m, m2, R, s)
<1>1. \A t \in Frames \ {s} : m2[t] = m[t]
  BY DEF Copied
<1>2. ASSUME NEW q \in R, NEW w \in AllPages, NEW k \in 2 .. Levels, TablesOn(m, q, w)[k] = s
      PROVE  FALSE
  <2>a. NoFrame \notin Frames
    BY PoolAssumption
  <2>1. 1 \in 1 .. Levels /\ k \in 1 .. Levels /\ k # 1
    BY LevelsAssumption
  <2>2. CASE s \in f
    BY <1>2, <2>1, <2>2 DEF Forest, NotFree
  <2>3. CASE s \in R
    <3>1. TablesOn(m, s, w)[1] = s /\ s # NoFrame
      BY <2>a, <2>3, Walk DEF Forest
    <3>2. 1 = k
      BY <1>2, <2>1, <2>3, <3>1 DEF Forest, Distinct
    <3> QED
      BY <2>1, <3>2
  <2> QED
    BY <2>2, <2>3
<1> QED
  BY <1>1, <1>2 DEF OnlyRoot

\* Every walk after the copy is a walk of a root that was there before, with
\* the copy in the place of the root.
LEMMA Origin ==
    ASSUME NEW m, NEW f, NEW R, NEW P, NEW B, Forest(m, f, R, P, B), NEW c \in R,
           NEW s, s \in R \cup f, NEW m2, Copied(m, m2, R, P, c, s),
           NEW q \in R \cup {s}, NEW w \in AllPages
    PROVE  \E u \in R : From(m, m2, R, P, s, q, u, w)
<1>1. OnlyRoot(m, m2, R, s)
  BY RootOnly
<1>2. Inside(m, R) /\ R \subseteq Frames /\ q \in Frames /\ s \in Frames
  BY DEF Forest
<1>3. PICK i \in Slots : i = Index(w)[1]
  <2>1. 1 \in 1 .. Levels
    BY LevelsAssumption
  <2> QED
    BY <2>1, Digits DEF Slots
<1>4. PICK u \in R : /\ q # s => u = q
                     /\ m2[q][i] = m[u][i]
                     /\ i \in P => u = q \/ ~Present(m2[q][i])
  <2>1. CASE q # s
    BY <1>2, <2>1 DEF Copied
  <2>2. CASE q = s /\ s \in R /\ m2[s][i] = m[s][i]
    BY <2>2
  <2>3. CASE q = s /\ ~(s \in R /\ m2[s][i] = m[s][i])
    BY <2>3 DEF Copied
  <2> QED
    BY <2>1, <2>2, <2>3
<1>5. SameBelow(m, m2, q, u, w) /\ Translate(m2, q, w) = Translate(m, u, w)
  BY <1>1, <1>2, <1>3, <1>4, SameWalk
<1>6. ASSUME ~Present(m2[q][i]), NEW k \in 2 .. Levels PROVE TablesOn(m2, q, w)[k] = NoFrame
  <2>1. PICK d \in 1 .. Levels : \A j \in 1 .. Levels : TablesOn(m2, q, w)[j] # NoFrame <=> j <= d
    BY <1>2, Frontier
  <2>2. 2 \in 2 .. Levels /\ 2 - 1 = 1 /\ k \in 1 .. Levels /\ 2 \in 1 .. Levels /\ Levels \in Nat
    BY LevelsAssumption
  <2>3. TablesOn(m2, q, w)[1] = q
        /\ TablesOn(m2, q, w)[2] = Follow(m2, TablesOn(m2, q, w)[2 - 1], Index(w)[2 - 1])
    BY <2>2, Walk
  <2>4. TablesOn(m2, q, w)[2] = NoFrame
    BY <1>3, <1>6, <2>2, <2>3 DEF Follow, IsTable
  <2>5. ~(2 <= d)
    BY <2>1, <2>2, <2>4
  <2> QED
    BY <2>1, <2>2, <2>5
<1> QED
  BY <1>3, <1>4, <1>5, <1>6 DEF From

\* Copying entries of one root into another keeps the forest.
LEMMA CopiedForest ==
    ASSUME NEW m, NEW f, NEW R, NEW P, NEW B, Forest(m, f, R, P, B), NEW c \in R,
           NEW s, s \in R \cup f, NEW m2, Copied(m, m2, R, P, c, s),
           NEW g, g = f \ {s}, NEW Q, Q = R \cup {s}
    PROVE  Forest(m2, g, Q, P, B)
<1>1. OnlyRoot(m, m2, R, s)
  BY RootOnly
<1>2. /\ Inside(m, R) /\ Distinct(m, R, P) /\ NotFree(m, f, R) /\ SmallAbove(m, R, B)
      /\ R \subseteq Frames /\ f \subseteq Frames /\ s \in Frames /\ Q \subseteq Frames
      /\ m2 \in Memory
  BY DEF Forest, Copied
<1>3. 1 \in 1 .. Levels /\ \A k \in 1 .. Levels : k = 1 \/ k \in 2 .. Levels
  BY LevelsAssumption
<1>a. \A k \in 2 .. Levels : k \in 1 .. Levels /\ k # 1
  BY LevelsAssumption
<1>4. \A q \in Q : \A w \in AllPages : \E u \in R : From(m, m2, R, P, s, q, u, w)
  BY Origin
<1>5. \A q : \A w : TablesOn(m2, q, w)[1] = q /\ TablesOn(m, q, w)[1] = q
  BY Walk
<1>6. Inside(m2, Q)
  <2> SUFFICES ASSUME NEW q \in Q, NEW v \in AllPages, NEW k \in 1 .. Levels
               PROVE  TablesOn(m2, q, v)[k] \in Frames \cup {NoFrame}
    BY DEF Inside
  <2>1. CASE k = 1
    BY <1>2, <1>5, <2>1
  <2>2. CASE k \in 2 .. Levels
    <3>1. PICK u \in R : From(m, m2, R, P, s, q, u, v)
      BY <1>4
    <3> QED
      BY <1>2, <2>2, <3>1 DEF From, SameBelow, Inside
  <2> QED
    BY <1>3, <2>1, <2>2
<1>7. NotFree(m2, g, Q)
  <2> SUFFICES ASSUME NEW q \in Q, NEW v \in AllPages, NEW k \in 1 .. Levels
               PROVE  TablesOn(m2, q, v)[k] \notin g
    BY DEF NotFree
  <2>1. CASE k = 1
    <3>1. q \in R => TablesOn(m, q, v)[1] \notin f
      BY <1>2, <1>3 DEF NotFree
    <3> QED
      BY <1>5, <2>1, <3>1
  <2>2. CASE k \in 2 .. Levels
    <3>1. PICK u \in R : From(m, m2, R, P, s, q, u, v)
      BY <1>4
    <3>2. TablesOn(m2, q, v)[k] = TablesOn(m, u, v)[k]
      BY <2>2, <3>1 DEF From, SameBelow
    <3> QED
      BY <1>2, <3>2 DEF NotFree
  <2> QED
    BY <1>3, <2>1, <2>2
<1>8. SmallAbove(m2, Q, B)
  <2> SUFFICES ASSUME NEW q \in Q, NEW v \in AllPages, NEW k \in 1 .. Levels - 1,
                      TablesOn(m2, q, v)[k] # NoFrame, ~(k = Page2M /\ Index(v)[1] \in B)
               PROVE  "SIZE" \notin m2[TablesOn(m2, q, v)[k]][Index(v)[k]].flags
    BY DEF SmallAbove
  <2>1. PICK u \in R : From(m, m2, R, P, s, q, u, v)
    BY <1>4
  <2>2. k \in 1 .. Levels
    BY LevelsAssumption
  <2>3. CASE k = 1
    <3>1. u # NoFrame
      BY <1>2, PoolAssumption
    <3>2. "SIZE" \notin m[u][Index(v)[1]].flags
      BY <1>2, <1>5, <2>3, <3>1 DEF SmallAbove
    <3> QED
      BY <1>5, <2>1, <2>3, <3>2 DEF From
  <2>4. CASE k \in 2 .. Levels
    <3>1. PICK t : t = TablesOn(m2, q, v)[k] /\ t = TablesOn(m, u, v)[k]
      BY <2>1, <2>4 DEF From, SameBelow
    <3>2. t \in Frames \ {s}
      BY <1>1, <1>2, <2>2, <2>4, <3>1 DEF Inside, OnlyRoot
    <3>3. m2[t] = m[t]
      BY <1>1, <3>2 DEF OnlyRoot
    <3> QED
      BY <1>2, <3>1, <3>3 DEF SmallAbove
  <2> QED
    BY <1>3, <2>2, <2>3, <2>4
<1>9. Distinct(m2, Q, P)
  <2> SUFFICES ASSUME NEW q \in Q, NEW r \in Q, NEW v \in AllPages, NEW w \in AllPages,
                      NEW j \in 1 .. Levels, NEW k \in 1 .. Levels,
                      TablesOn(m2, q, v)[j] = TablesOn(m2, r, w)[k],
                      TablesOn(m2, q, v)[j] # NoFrame
               PROVE  /\ j = k /\ Prefix(v, j - 1) = Prefix(w, j - 1)
                      /\ j = 1 \/ Index(v)[1] \in P => q = r
    BY DEF Distinct
  <2>1. ASSUME NEW x \in Q, NEW y \in Q, NEW z \in AllPages, NEW i \in 2 .. Levels,
               TablesOn(m2, y, z)[i] = x
        PROVE  FALSE
    <3>1. PICK u \in R : From(m, m2, R, P, s, y, u, z)
      BY <1>4
    <3>2. TablesOn(m, u, z)[i] = x
      BY <2>1, <3>1 DEF From, SameBelow
    <3>3. x # s
      BY <1>1, <3>2 DEF OnlyRoot
    <3>4. x \in R /\ TablesOn(m, x, z)[1] = x /\ x # NoFrame
      BY <1>2, <1>5, <3>3, PoolAssumption
    <3>5. 1 = i
      BY <1>2, <1>3, <1>a, <3>2, <3>4 DEF Distinct
    <3> QED
      BY <1>a, <3>5
  <2>2. CASE j = 1
    <3>1. k = 1
      <4> SUFFICES ASSUME k \in 2 .. Levels PROVE FALSE
        BY <1>3
      <4>1. TablesOn(m2, r, w)[k] = q
        BY <1>5, <2>2
      <4> QED
        BY <2>1, <4>1
    <3>2. Prefix(v, 0) = 0 /\ Prefix(w, 0) = 0 /\ 1 - 1 = 0
      BY Digits
    <3> QED
      BY <1>5, <2>2, <3>1, <3>2
  <2>3. CASE j \in 2 .. Levels
    <3>1. k \in 2 .. Levels
      <4> SUFFICES ASSUME k = 1 PROVE FALSE
        BY <1>3
      <4>1. TablesOn(m2, q, v)[j] = r
        BY <1>5
      <4> QED
        BY <2>1, <2>3, <4>1
    <3>2. PICK x \in R : From(m, m2, R, P, s, q, x, v)
      BY <1>4
    <3>3. PICK y \in R : From(m, m2, R, P, s, r, y, w)
      BY <1>4
    <3>4. TablesOn(m2, q, v)[j] = TablesOn(m, x, v)[j] /\ TablesOn(m2, r, w)[k] = TablesOn(m, y, w)[k]
      BY <2>3, <3>1, <3>2, <3>3 DEF From, SameBelow
    <3>5. /\ j = k /\ Prefix(v, j - 1) = Prefix(w, j - 1)
          /\ Index(v)[1] \in P => x = y
      <4>1. TablesOn(m, x, v)[j] = TablesOn(m, y, w)[k] /\ TablesOn(m, x, v)[j] # NoFrame
        BY <3>4
      <4>2. Distinct(m, R, P)
        BY <1>2
      <4> QED
        BY <4>1, <4>2 DEF Distinct
    <3>6. Index(v)[1] = Index(w)[1]
      <4>1. j - 1 \in 0 .. Levels /\ 1 \in 0 .. j - 1 /\ j - 1 \in Nat
        BY <2>3, LevelsAssumption
      <4>2. Prefix(v, 1) = Prefix(w, 1)
        BY <3>5, <4>1, PrefixDown
      <4>3. 0 \in Nat
        OBVIOUS
      <4> QED
        BY <4>2, <4>3, TopIndex
    <3>7. Index(v)[1] \in P => x = q /\ y = r
      BY <2>3, <3>1, <3>2, <3>3, <3>6 DEF From
    <3> QED
      BY <1>a, <2>3, <3>5, <3>7
  <2> QED
    BY <1>3, <2>2, <2>3
<1> QED
  BY <1>2, <1>6, <1>7, <1>8, <1>9 DEF Forest

\* A page of D2 translates in the copy as it did before, or not at all.
Unmoved(m, m2, R, Q, D, D2) ==
    \A q \in Q : \A v \in AllPages : v \in D2[q] =>
        \/ q \in R /\ v \in D[q] /\ Translate(m2, q, v) = Translate(m, q, v)
        \/ Translate(m2, q, v) = NoFrame

\* Then the mapped frames stay apart.
LEMMA CopiedApart ==
    ASSUME NEW m, NEW f, NEW R, NEW P, NEW B, Forest(m, f, R, P, B), NEW D, Apart(m, f, R, D),
           NEW c \in R, NEW s, s \in R \cup f, NEW m2, Copied(m, m2, R, P, c, s),
           NEW g, g = f \ {s}, NEW Q, Q = R \cup {s}, NEW D2, Unmoved(m, m2, R, Q, D, D2)
    PROVE  Apart(m2, g, Q, D2)
<1> SUFFICES ASSUME NEW q \in Q, NEW v \in AllPages, v \in D2[q], Translate(m2, q, v) \in Frames
             PROVE  /\ Translate(m2, q, v) \notin g
                    /\ \A u \in Q : \A w \in AllPages : \A k \in 1 .. Levels :
                          TablesOn(m2, u, w)[k] # Translate(m2, q, v)
                    /\ \A u \in Q : \A w \in AllPages :
                          w \in D2[u] /\ Translate(m2, u, w) = Translate(m2, q, v)
                              => u = q /\ w = v
  BY DEF Apart
<1>1. NoFrame \notin Frames
  BY PoolAssumption
<1>2. q \in R /\ v \in D[q] /\ Translate(m2, q, v) = Translate(m, q, v)
  BY <1>1 DEF Unmoved
<1>3. PICK a \in Frames : a = Translate(m2, q, v) /\ a = Translate(m, q, v)
  BY <1>2
<1>4. /\ a \notin f
      /\ \A u \in R : \A w \in AllPages : \A k \in 1 .. Levels : TablesOn(m, u, w)[k] # a
      /\ \A u \in R : \A w \in AllPages : w \in D[u] /\ Translate(m, u, w) = a => u = q /\ w = v
  BY <1>2, <1>3 DEF Apart
<1>5. 1 \in 1 .. Levels /\ \A k \in 1 .. Levels : k = 1 \/ k \in 2 .. Levels
  BY LevelsAssumption
<1>6. a # s
  <2>1. CASE s \in R
    BY <1>4, <1>5, <2>1, Walk
  <2>2. CASE s \in f
    BY <1>4, <2>2
  <2> QED
    BY <2>1, <2>2
<1>7. ASSUME NEW u \in Q, NEW w \in AllPages, NEW k \in 1 .. Levels PROVE TablesOn(m2, u, w)[k] # a
  <2>1. CASE k = 1
    <3>1. TablesOn(m2, u, w)[1] = u /\ TablesOn(m, u, w)[1] = u
      BY Walk
    <3> QED
      BY <1>4, <1>5, <1>6, <2>1, <3>1
  <2>2. CASE k \in 2 .. Levels
    <3>1. PICK x \in R : From(m, m2, R, P, s, u, x, w)
      BY Origin
    <3>2. TablesOn(m2, u, w)[k] = TablesOn(m, x, w)[k]
      BY <2>2, <3>1 DEF From, SameBelow
    <3> QED
      BY <1>4, <3>2
  <2> QED
    BY <1>5, <2>1, <2>2
<1>8. ASSUME NEW u \in Q, NEW w \in AllPages, w \in D2[u], Translate(m2, u, w) = a
      PROVE  u = q /\ w = v
  BY <1>1, <1>4, <1>8 DEF Unmoved
<1> QED
  BY <1>3, <1>4, <1>7, <1>8
-----------------------------------------------------------------------------
\* The parts of the address space, by top level index.
UserSlots == 0 .. PhysP4 - 1
VmallocSlots == VmallocStartP4 .. VmallocEndP4 - 1

\* The user half, physical memory, the vmalloc area and the kernel text have
\* top level entries of their own.
LEMMA SlotAreas ==
    /\ UserSlots \subseteq Slots /\ PhysSlots \subseteq Slots /\ VmallocSlots \subseteq Slots
    /\ TextP4 \in Slots /\ TextP4 \notin UserSlots \cup PhysSlots \cup VmallocSlots
    /\ UserSlots \cap PhysSlots = {} /\ UserSlots \cap VmallocSlots = {}
    /\ PhysSlots \cap VmallocSlots = {}
    /\ PhysP4 .. Entries - 1 = Slots \ UserSlots
  BY LayoutAssumption, EntriesAssumption DEF UserSlots, PhysSlots, VmallocSlots, Slots

\* The pages of the user half and of the vmalloc area, by top level entry.
LEMMA PageAreas ==
    /\ UserPages \subseteq AllPages /\ VmallocPages \subseteq AllPages
    /\ PageOf(VmallocStartP4) \in Nat /\ PageOf(VmallocEndP4) \in Nat
    /\ \A w \in AllPages :
          /\ Index(w)[1] \in Slots
          /\ w \in UserPages <=> Index(w)[1] \in UserSlots
          /\ w \in VmallocPages <=> Index(w)[1] \in VmallocSlots
<1>1. /\ PhysP4 \in 0 .. Entries /\ VmallocEndP4 \in 0 .. Entries
      /\ VmallocStartP4 \in Nat /\ PhysP4 \in Nat /\ VmallocEndP4 \in Nat
  BY LayoutAssumption, EntriesAssumption
<1>2. PICK o \in AllPages : o \in Nat
  <2>1. Span[Levels] \in Nat \ {0}
    BY Spans, LevelsAssumption
  <2> QED
    BY <2>1 DEF AllPages
<1>3. PageOf(VmallocStartP4) \in Nat /\ PageOf(VmallocEndP4) \in Nat /\ PageOf(PhysP4) \in Nat
  BY <1>1, TopIndex
<1>4. UserPages \subseteq AllPages
  <2> SUFFICES ASSUME NEW v \in UserPages PROVE v \in AllPages
    OBVIOUS
  <2>1. v \in Nat /\ v < PageOf(PhysP4)
    BY <1>3 DEF UserPages
  <2> QED
    BY <1>1, <2>1, PageRange
<1>5. VmallocPages \subseteq AllPages
  <2> SUFFICES ASSUME NEW v \in VmallocPages PROVE v \in AllPages
    OBVIOUS
  <2>1. v \in Nat /\ v < PageOf(VmallocEndP4)
    BY <1>3 DEF VmallocPages
  <2> QED
    BY <1>1, <2>1, PageRange
<1>6. ASSUME NEW w \in AllPages
      PROVE  /\ Index(w)[1] \in Slots
             /\ w \in UserPages <=> Index(w)[1] \in UserSlots
             /\ w \in VmallocPages <=> Index(w)[1] \in VmallocSlots
  <2>1. Index(w)[1] \in Slots
    <3>1. 1 \in 1 .. Levels
      BY LevelsAssumption
    <3> QED
      BY <3>1, Digits DEF Slots
  <2>2. w \in Nat
    BY Digits
  <2>3. /\ PageOf(PhysP4) <= w <=> PhysP4 <= Index(w)[1]
        /\ PageOf(VmallocStartP4) <= w <=> VmallocStartP4 <= Index(w)[1]
        /\ PageOf(VmallocEndP4) <= w <=> VmallocEndP4 <= Index(w)[1]
    BY <1>1, TopIndex
  <2>4. PICK i \in Nat : i = Index(w)[1]
    BY <2>1 DEF Slots
  <2>5. w \in UserPages <=> ~(PageOf(PhysP4) <= w)
    BY <1>3, <2>2 DEF UserPages
  <2>6. i \in UserSlots <=> ~(PhysP4 <= i)
    BY <1>1 DEF UserSlots
  <2>7. w \in VmallocPages <=> PageOf(VmallocStartP4) <= w /\ ~(PageOf(VmallocEndP4) <= w)
    BY <1>3, <2>2 DEF VmallocPages
  <2>8. i \in VmallocSlots <=> VmallocStartP4 <= i /\ ~(VmallocEndP4 <= i)
    BY <1>1 DEF VmallocSlots
  <2> QED
    BY <2>1, <2>3, <2>4, <2>5, <2>6, <2>7, <2>8
<1> QED
  BY <1>3, <1>4, <1>5, <1>6

\* The reference table c and the tables T of the processes.  Owned: the pages
\* of a root that are its own.  Shared: KernelShared, said of T.  Bare: the
\* user half of the reference table is empty.
Owned(c, T) == [q \in {c} \cup T |-> IF q = c THEN UserPages \cup VmallocPages ELSE UserPages]
Shared(m, c, T) ==
    \A t \in T : \A i \in Slots \ UserSlots :
        m[t][i] = m[c][i] \/ (i \in VmallocSlots /\ ~Present(m[t][i]))
Bare(m, c) == \A i \in UserSlots : ~Present(m[c][i])
Core(m, f, c, T) ==
    /\ c \notin T
    /\ Forest(m, f, {c} \cup T, UserSlots, PhysSlots)
    /\ Apart(m, f, {c} \cup T, Owned(c, T))
    /\ Shared(m, c, T)
    /\ Bare(m, c)

\* What the regions and the segments of a state promise.
Backs(m, c, K) == \A r \in K : Filled(m, c, r.vaddr, r.paddr, r.page_count)
Counted(s, v) == \E x \in 0 .. PageCount(s.size) - 1 : v = (s.vaddr \div PAGE_SIZE) + x
Places(m, sp) ==
    /\ \A s \in sp.regions : \A x \in 0 .. PageCount(s.size) - 1 :
          Translate(m, sp.table, (s.vaddr \div PAGE_SIZE) + x) \in Frames
    /\ \A v \in UserPages : Translate(m, sp.table, v) # NoFrame => \E s \in sp.regions : Counted(s, v)

\* Pages of the vmalloc area, not mapped to given frames of the pool.
KernelRange(page, n, paddr) ==
    \A x \in 0 .. n - 1 :
        page + x \in VmallocPages /\ (paddr # NoFrame => paddr + x \notin Frames)

KernelMapped(m, f, c, T, page, n, paddr, s) ==
    /\ Core(s.mem, s.free, c, T)
    /\ s \in MapState /\ s.free \subseteq f
    /\ s.ok => Filled(s.mem, c, page, paddr, n)
    /\ \A q \in {c} \cup T : \A w \in AllPages :
          (\A x \in 0 .. n - 1 : w # page + x) => Translate(s.mem, q, w) = Translate(m, q, w)

\* Mapping pages of the kernel in the reference table.
LEMMA CoreKernel ==
    ASSUME NEW m, NEW f, NEW c, NEW T, Core(m, f, c, T), NEW page \in Nat, NEW n \in Nat,
           NEW paddr \in Nat \cup {NoFrame},
           KernelRange(page, n, paddr), NEW s, s = MapPages(m, f, c, page, n, paddr)
    PROVE  KernelMapped(m, f, c, T, page, n, paddr, s)
<1>a. \A x \in 0 .. n - 1 :
         page + x \in VmallocPages /\ (paddr # NoFrame => paddr + x \notin Frames)
  BY DEF KernelRange
<1>1. PICK R, P, B, D : /\ R = {c} \cup T /\ P = UserSlots /\ B = PhysSlots /\ D = Owned(c, T)
                        /\ Forest(m, f, R, P, B) /\ Apart(m, f, R, D) /\ c \in R
  BY DEF Core
<1>2. Placed(R, P, B, D, c, page, n, paddr)
  <2> SUFFICES ASSUME NEW x \in 0 .. n - 1
               PROVE  /\ page + x \in AllPages
                      /\ Index(page + x)[1] \notin B
                      /\ \A q \in R : page + x \in D[q] =>
                            /\ q = c \/ Index(page + x)[1] \in P
                            /\ paddr # NoFrame => paddr + x \notin Frames
    BY DEF Placed
  <2>1. PICK w : w = page + x /\ w \in VmallocPages
    BY <1>a
  <2>2. w \in AllPages /\ Index(w)[1] \in VmallocSlots
    BY <2>1, PageAreas
  <2>3. Index(w)[1] \notin PhysSlots /\ Index(w)[1] \notin UserSlots
    BY <2>2, SlotAreas
  <2>4. w \notin UserPages
    BY <2>2, <2>3, PageAreas
  <2>5. \A q \in R : w \in D[q] => q = c
    BY <1>1, <2>4 DEF Owned
  <2> QED
    BY <1>1, <1>a, <2>1, <2>2, <2>3, <2>5
<1>3. Loop(m, f, R, P, B, D, c, page, n, paddr, n, s)
  BY <1>1, <1>2, MapPagesCorrect
<1>4. /\ s \in MapState /\ Forest(s.mem, s.free, R, P, B) /\ s.free \subseteq f
      /\ Apart(s.mem, s.free, R, D)
      /\ TopsKept(m, s.mem, R, c, page, n)
      /\ Elsewhere(m, s.mem, R, P, c, page, n, paddr)
      /\ s.ok => Filled(s.mem, c, page, paddr, n)
  BY <1>3 DEF Loop
<1>5. \A q \in R : \A i \in Slots : s.mem[q][i] # m[q][i] =>
          q = c /\ ~Present(m[q][i]) /\ i \in VmallocSlots
  <2> SUFFICES ASSUME NEW q \in R, NEW i \in Slots, s.mem[q][i] # m[q][i]
               PROVE  q = c /\ ~Present(m[q][i]) /\ i \in VmallocSlots
    OBVIOUS
  <2>1. q = c /\ ~Present(m[q][i])
    BY <1>4 DEF TopsKept
  <2>2. PICK x \in 0 .. n - 1 : i = Index(page + x)[1]
    BY <1>4 DEF TopsKept
  <2>3. page + x \in VmallocPages
    BY <1>a
  <2>4. i \in VmallocSlots
    BY <2>2, <2>3, PageAreas
  <2> QED
    BY <2>1, <2>4
<1>6. Shared(s.mem, c, T)
  <2> SUFFICES ASSUME NEW t \in T, NEW i \in Slots \ UserSlots
               PROVE  s.mem[t][i] = s.mem[c][i] \/ (i \in VmallocSlots /\ ~Present(s.mem[t][i]))
    BY DEF Shared
  <2>1. c \notin T /\ Shared(m, c, T)
    BY DEF Core
  <2>2. s.mem[t][i] = m[t][i]
    BY <1>1, <1>5, <2>1
  <2>3. s.mem[c][i] = m[c][i] \/ (i \in VmallocSlots /\ ~Present(m[c][i]))
    BY <1>1, <1>5
  <2>4. m[t][i] = m[c][i] \/ (i \in VmallocSlots /\ ~Present(m[t][i]))
    BY <2>1 DEF Shared
  <2> QED
    BY <2>2, <2>3, <2>4
<1>7. Bare(s.mem, c)
  BY <1>1, <1>5, SlotAreas DEF Core, Bare
<1>8. Core(s.mem, s.free, c, T)
  BY <1>1, <1>4, <1>6, <1>7 DEF Core
<1>9. \A q \in R : \A w \in AllPages :
          (\A x \in 0 .. n - 1 : w # page + x) => Translate(s.mem, q, w) = Translate(m, q, w)
  BY <1>4 DEF Elsewhere
<1> QED
  BY <1>1, <1>4, <1>8, <1>9 DEF KernelMapped

\* Mapping pages of the user half in the table r of a process.
UserRange(page, n) == \A x \in 0 .. n - 1 : page + x \in UserPages
UserMapped(m, f, c, T, r, page, n, s) ==
    /\ Core(s.mem, s.free, c, T)
    /\ s \in MapState /\ s.free \subseteq f
    /\ s.ok => \A x \in 0 .. n - 1 : Translate(s.mem, r, page + x) \in Frames
    /\ \A q \in {c} \cup T : \A w \in AllPages : Translate(s.mem, q, w) # Translate(m, q, w)
          => /\ q = r /\ w \in UserPages /\ Translate(s.mem, q, w) \in Frames
             /\ \E x \in 0 .. n - 1 : w = page + x
\* The loop of map_in_userspace keeps the tables in order, changes no
\* translation outside its pages and, when it ends, has a fresh frame for each.
LEMMA CoreUser ==
    ASSUME NEW m, NEW f, NEW c, NEW T, Core(m, f, c, T), NEW r \in T,
           NEW page \in Nat, NEW n \in Nat, UserRange(page, n),
           NEW s, s = MapPages(m, f, r, page, n, NoFrame)
    PROVE  UserMapped(m, f, c, T, r, page, n, s)
<1>1. PICK R, P, B, D : /\ R = {c} \cup T /\ P = UserSlots /\ B = PhysSlots /\ D = Owned(c, T)
                        /\ Forest(m, f, R, P, B) /\ Apart(m, f, R, D) /\ r \in R
  BY DEF Core
<1>a. PICK paddr \in Nat \cup {NoFrame} : paddr = NoFrame
  OBVIOUS
<1>b. \A x \in 0 .. n - 1 : /\ page + x \in AllPages /\ Index(page + x)[1] \in UserSlots
                            /\ Index(page + x)[1] \notin PhysSlots
  <2> SUFFICES ASSUME NEW x \in 0 .. n - 1
               PROVE  /\ page + x \in AllPages /\ Index(page + x)[1] \in UserSlots
                      /\ Index(page + x)[1] \notin PhysSlots
    OBVIOUS
  <2>1. PICK w : w = page + x /\ w \in UserPages
    BY DEF UserRange
  <2>2. w \in AllPages /\ Index(w)[1] \in UserSlots
    BY <2>1, PageAreas
  <2>3. Index(w)[1] \notin PhysSlots
    BY <2>2, SlotAreas
  <2> QED
    BY <2>1, <2>2, <2>3
<1>2. Placed(R, P, B, D, r, page, n, paddr)
  BY <1>1, <1>a, <1>b DEF Placed
<1>3. Loop(m, f, R, P, B, D, r, page, n, paddr, n, s)
  BY <1>1, <1>2, <1>a, MapPagesCorrect
<1>4. /\ s \in MapState /\ Forest(s.mem, s.free, R, P, B) /\ s.free \subseteq f
      /\ Apart(s.mem, s.free, R, D)
      /\ TopsKept(m, s.mem, R, r, page, n)
      /\ Elsewhere(m, s.mem, R, P, r, page, n, paddr)
      /\ s.ok => Filled(s.mem, r, page, paddr, n)
  BY <1>3 DEF Loop
<1>5. \A q \in R : \A i \in Slots : s.mem[q][i] # m[q][i] => q = r /\ i \in UserSlots
  BY <1>4, <1>b DEF TopsKept
<1>6. Shared(s.mem, c, T)
  <2> SUFFICES ASSUME NEW t \in T, NEW i \in Slots \ UserSlots
               PROVE  s.mem[t][i] = s.mem[c][i] \/ (i \in VmallocSlots /\ ~Present(s.mem[t][i]))
    BY DEF Shared
  <2>1. s.mem[t][i] = m[t][i] /\ s.mem[c][i] = m[c][i]
    BY <1>1, <1>5
  <2>2. m[t][i] = m[c][i] \/ (i \in VmallocSlots /\ ~Present(m[t][i]))
    BY DEF Core, Shared
  <2> QED
    BY <2>1, <2>2
<1>7. Bare(s.mem, c)
  <2>1. r # c
    BY DEF Core
  <2> QED
    BY <1>1, <1>5, <2>1, SlotAreas DEF Core, Bare
<1>8. Core(s.mem, s.free, c, T)
  BY <1>1, <1>4, <1>6, <1>7 DEF Core
<1>9. ASSUME NEW q \in R, NEW w \in AllPages, Translate(s.mem, q, w) # Translate(m, q, w)
      PROVE  /\ q = r /\ w \in UserPages /\ Translate(s.mem, q, w) \in Frames
             /\ \E x \in 0 .. n - 1 : w = page + x
  <2>1. /\ \E x \in 0 .. n - 1 : w = page + x
        /\ Index(w)[1] \in P => q = r
        /\ Translate(s.mem, q, w) \in Frames
    BY <1>4, <1>9, <1>a DEF Elsewhere
  <2> QED
    BY <1>1, <1>b, <2>1 DEF UserRange
<1>10. s.ok => \A x \in 0 .. n - 1 : Translate(s.mem, r, page + x) \in Frames
  BY <1>4, <1>a DEF Filled
<1> QED
  BY <1>1, <1>4, <1>8, <1>9, <1>10 DEF UserMapped

\* A process that has the reference table's entry for w sees w as it does.
LEMMA SharedTranslate ==
    ASSUME NEW m, NEW f, NEW c, NEW T, Core(m, f, c, T), NEW t \in T, NEW w \in AllPages,
           m[t][Index(w)[1]] = m[c][Index(w)[1]]
    PROVE  Translate(m, t, w) = Translate(m, c, w)
<1>1. PICK R : R = {c} \cup T /\ Forest(m, f, R, UserSlots, PhysSlots) /\ c \in R /\ t \in R
  BY DEF Core
<1>2. Inside(m, R) /\ R \subseteq Frames /\ t \in Frames /\ c \in Frames
  BY <1>1 DEF Forest
<1>a. Copied(m, m, R, UserSlots, c, c)
  BY <1>1 DEF Forest, Copied
<1>3. OnlyRoot(m, m, R, c)
  BY <1>1, <1>a, RootOnly
<1> QED
  BY <1>1, <1>2, <1>3, SameWalk

\* MemorySpace::new: a free frame becomes a copy of the reference table.
Cloned(m, c, s, m2) == m2 = [m EXCEPT ![s] = m[c]]
Joined(m, m2, g, c, T, s) ==
    /\ Core(m2, g, c, T \cup {s}) /\ s \notin {c} \cup T
    /\ \A q \in {c} \cup T : \A w \in AllPages : Translate(m2, q, w) = Translate(m, q, w)
    /\ \A w \in UserPages : Translate(m2, s, w) = NoFrame
\* create_page_table_for_process adds a root that sees the kernel half of the
\* reference table and no user page.
LEMMA CoreCreate ==
    ASSUME NEW m, NEW f, NEW c, NEW T, Core(m, f, c, T), NEW s \in f,
           NEW m2, Cloned(m, c, s, m2), NEW g, g = f \ {s}
    PROVE  Joined(m, m2, g, c, T, s)
<1>1. PICK R, P, B, D : /\ R = {c} \cup T /\ P = UserSlots /\ B = PhysSlots /\ D = Owned(c, T)
                        /\ Forest(m, f, R, P, B) /\ Apart(m, f, R, D) /\ c \in R
  BY DEF Core
<1>2. m \in Memory /\ f \subseteq Frames /\ R \subseteq Frames /\ s \in Frames /\ c \in Frames
  BY <1>1 DEF Forest
<1>3. s \notin R
  <2>1. 1 \in 1 .. Levels
    BY LevelsAssumption
  <2>4. \A q \in R : \A w \in AllPages : TablesOn(m, q, w)[1] \notin f
    BY <1>1, <2>1 DEF Forest, NotFree
  <2>2. \A q \in R : \A w \in AllPages : TablesOn(m, q, w)[1] = q
    BY Walk
  <2>3. AllPages # {}
    <3>1. Span[Levels] \in Nat \ {0}
      BY Spans, LevelsAssumption
    <3> QED
      BY <3>1 DEF AllPages
  <2> QED
    BY <2>2, <2>3, <2>4
<1>4. /\ m2 \in Memory /\ m2[s] = m[c] /\ \A t \in Frames \ {s} : m2[t] = m[t]
  BY <1>2 DEF Memory, Cloned
<1>5. \A i \in UserSlots : ~Present(m2[s][i])
  BY <1>4 DEF Core, Bare
<1>6. Copied(m, m2, R, P, c, s)
  BY <1>1, <1>4, <1>5 DEF Copied
<1>7. PICK Q, E : Q = R \cup {s} /\ Q = {c} \cup (T \cup {s}) /\ E = Owned(c, T \cup {s})
  BY <1>1
<1>8. Forest(m2, g, Q, P, B)
  BY <1>1, <1>6, <1>7, CopiedForest
<1>9. ASSUME NEW q \in R, NEW w \in AllPages PROVE Translate(m2, q, w) = Translate(m, q, w)
  <2>1. PICK u \in R : From(m, m2, R, P, s, q, u, w)
    BY <1>1, <1>6, Origin
  <2> QED
    BY <1>3, <2>1 DEF From
<1>10. ASSUME NEW w \in UserPages PROVE Translate(m2, s, w) = NoFrame
  <2>1. w \in AllPages /\ Index(w)[1] \in UserSlots
    BY PageAreas
  <2> QED
    BY <1>2, <1>5, <2>1, NotPresent
<1>11. Unmoved(m, m2, R, Q, D, E)
  <2> SUFFICES ASSUME NEW q \in Q, NEW v \in AllPages, v \in E[q]
               PROVE  \/ q \in R /\ v \in D[q] /\ Translate(m2, q, v) = Translate(m, q, v)
                      \/ Translate(m2, q, v) = NoFrame
    BY DEF Unmoved
  <2>1. CASE q \in R
    <3>1. v \in D[q]
      BY <1>1, <1>7, <2>1 DEF Owned
    <3> QED
      BY <1>9, <2>1, <3>1
  <2>2. CASE q = s
    <3>1. v \in UserPages
      BY <1>1, <1>3, <1>7, <2>2 DEF Owned
    <3> QED
      BY <1>10, <2>2, <3>1
  <2> QED
    BY <1>7, <2>1, <2>2
<1>12. Apart(m2, g, Q, E)
  BY <1>1, <1>6, <1>7, <1>11, CopiedApart
<1>13. Shared(m2, c, T \cup {s})
  <2> SUFFICES ASSUME NEW t \in T \cup {s}, NEW i \in Slots \ UserSlots
               PROVE  m2[t][i] = m2[c][i] \/ (i \in VmallocSlots /\ ~Present(m2[t][i]))
    BY DEF Shared
  <2>1. m2[c] = m[c]
    BY <1>1, <1>2, <1>3, <1>4
  <2>2. CASE t = s
    BY <1>4, <2>1, <2>2
  <2>3. CASE t # s
    <3>1. m2[t] = m[t] /\ t \in T
      BY <1>1, <1>2, <1>4, <2>3
    <3>2. m[t][i] = m[c][i] \/ (i \in VmallocSlots /\ ~Present(m[t][i]))
      BY <3>1 DEF Core, Shared
    <3> QED
      BY <2>1, <3>1, <3>2
  <2> QED
    BY <2>2, <2>3
<1>14. Bare(m2, c)
  BY <1>1, <1>2, <1>3, <1>4 DEF Core, Bare
<1>15. Core(m2, g, c, T \cup {s})
  <2>1. c \notin T \cup {s}
    BY <1>1, <1>3 DEF Core
  <2>2. Forest(m2, g, {c} \cup (T \cup {s}), UserSlots, PhysSlots)
    BY <1>1, <1>7, <1>8
  <2>3. Apart(m2, g, {c} \cup (T \cup {s}), Owned(c, T \cup {s}))
    BY <1>7, <1>12
  <2> QED
    BY <1>13, <1>14, <2>1, <2>2, <2>3 DEF Core
<1> QED
  BY <1>1, <1>3, <1>9, <1>10, <1>15 DEF Joined

\* page_fault_vmalloc: table s takes the vmalloc entries of the reference
\* table, and then sees every page of the area as it does.
Faulted(m, c, s, m2) == m2 = [m EXCEPT ![s] = WithVmallocOf(m[c], @)]
\* The page fault handler's copy of the vmalloc entries keeps the tables in
\* order and gives the process the reference table's view of the area.
LEMMA CoreFault ==
    ASSUME NEW m, NEW f, NEW c, NEW T, Core(m, f, c, T), NEW s \in T,
           NEW m2, Faulted(m, c, s, m2)
    PROVE  /\ Core(m2, f, c, T)
           /\ \A q \in {c} \cup T : \A w \in AllPages :
                 q # s \/ w \notin VmallocPages => Translate(m2, q, w) = Translate(m, q, w)
           /\ \A w \in VmallocPages : Translate(m2, s, w) = Translate(m, c, w)
<1>1. PICK R, P, B, D : /\ R = {c} \cup T /\ P = UserSlots /\ B = PhysSlots /\ D = Owned(c, T)
                        /\ Forest(m, f, R, P, B) /\ Apart(m, f, R, D) /\ c \in R /\ s \in R
                        /\ c # s /\ R = R \cup {s}
  BY DEF Core
<1>2. m \in Memory /\ R \subseteq Frames /\ s \in Frames /\ c \in Frames /\ Inside(m, R)
  BY <1>1 DEF Forest
<1>3. \A i \in Slots : i \in VmallocSlots <=> VmallocStartP4 <= i /\ i < VmallocEndP4
  BY LayoutAssumption DEF VmallocSlots, Slots
<1>4. PICK x : x = WithVmallocOf(m[c], m[s])
  OBVIOUS
<1>a. /\ x \in [Slots -> Entry]
      /\ \A i \in VmallocSlots : x[i] = m[c][i]
      /\ \A i \in Slots \ VmallocSlots : x[i] = m[s][i]
  <2>1. x = [i \in Slots |-> IF i \in VmallocSlots THEN m[c][i] ELSE m[s][i]]
    BY <1>3, <1>4 DEF WithVmallocOf, Slots
  <2>2. m[c] \in [Slots -> Entry] /\ m[s] \in [Slots -> Entry]
    BY <1>2 DEF Memory
  <2> HIDE DEF Slots, Entry
  <2> QED
    BY <2>1, <2>2, SlotAreas
<1>b. m2 \in Memory /\ m2[s] = x /\ \A t \in Frames \ {s} : m2[t] = m[t]
  <2>1. m2 = [m EXCEPT ![s] = x]
    BY <1>4 DEF Faulted
  <2> QED
    BY <1>2, <1>a, <2>1 DEF Memory
<1>c. UserSlots \cap VmallocSlots = {} /\ UserSlots \subseteq Slots /\ VmallocSlots \subseteq Slots
  BY SlotAreas
<1>6. Copied(m, m2, R, P, c, s)
  <2>1. \A j \in Slots : m2[s][j] = m[c][j] \/ (s \in R /\ m2[s][j] = m[s][j])
    BY <1>1, <1>a, <1>b
  <2>2. \A j \in Slots : j \in P => s \in R /\ m2[s][j] = m[s][j]
    BY <1>1, <1>a, <1>b, <1>c
  <2> QED
    BY <1>b, <2>1, <2>2 DEF Copied
<1>7. OnlyRoot(m, m2, R, s)
  BY <1>1, <1>6, RootOnly
<1>8. s \notin f /\ f = f \ {s}
  <2>1. 1 \in 1 .. Levels
    BY LevelsAssumption
  <2>2. \A w \in AllPages : TablesOn(m, s, w)[1] = s /\ TablesOn(m, s, w)[1] \notin f
    BY <1>1, <2>1, Walk DEF Forest, NotFree
  <2>3. AllPages # {}
    <3>1. Span[Levels] \in Nat \ {0}
      BY Spans, LevelsAssumption
    <3> QED
      BY <3>1 DEF AllPages
  <2> QED
    BY <2>2, <2>3
<1>9. Forest(m2, f, R, P, B)
  BY <1>1, <1>6, <1>8, CopiedForest
<1>10. ASSUME NEW q \in R, NEW w \in AllPages, q # s \/ w \notin VmallocPages
       PROVE  Translate(m2, q, w) = Translate(m, q, w)
  <2>1. Index(w)[1] \in Slots /\ (q # s \/ Index(w)[1] \notin VmallocSlots)
    BY <1>10, PageAreas
  <2>2. m2[q][Index(w)[1]] = m[q][Index(w)[1]]
    BY <1>2, <1>a, <1>b, <2>1
  <2>3. PICK u \in R : u = q /\ q \in Frames
    BY <1>2
  <2>4. m2[q][Index(w)[1]] = m[u][Index(w)[1]]
    BY <2>2, <2>3
  <2>5. SameBelow(m, m2, q, u, w) /\ Translate(m2, q, w) = Translate(m, u, w)
    BY <1>2, <1>7, <2>3, <2>4, SameWalk
  <2> QED
    BY <2>3, <2>5
<1>11. ASSUME NEW w \in VmallocPages PROVE Translate(m2, s, w) = Translate(m, c, w)
  <2>1. w \in AllPages /\ Index(w)[1] \in VmallocSlots
    BY PageAreas
  <2>2. m2[s][Index(w)[1]] = m[c][Index(w)[1]]
    BY <1>a, <1>b, <2>1
  <2> QED
    <3>1. PICK q \in Frames : q = s
      BY <1>2
    <3>2. PICK u \in R : u = c /\ m2[q][Index(w)[1]] = m[u][Index(w)[1]]
      BY <1>1, <2>2, <3>1
    <3>3. SameBelow(m, m2, q, u, w) /\ Translate(m2, q, w) = Translate(m, u, w)
      BY <1>2, <1>7, <2>1, <3>2, SameWalk
    <3> QED
      BY <3>1, <3>2, <3>3
<1>12. Unmoved(m, m2, R, R, D, D)
  <2> SUFFICES ASSUME NEW q \in R, NEW v \in AllPages, v \in D[q]
               PROVE  Translate(m2, q, v) = Translate(m, q, v)
    BY DEF Unmoved
  <2>1. q = s => v \in UserPages
    BY <1>1 DEF Owned
  <2>2. v \in UserPages => v \notin VmallocPages
    BY <1>c, PageAreas
  <2> QED
    BY <1>10, <2>1, <2>2
<1>13. Apart(m2, f, R, D)
  BY <1>1, <1>6, <1>8, <1>12, CopiedApart
<1>14. Shared(m2, c, T)
  <2> SUFFICES ASSUME NEW t \in T, NEW i \in Slots \ UserSlots
               PROVE  m2[t][i] = m2[c][i] \/ (i \in VmallocSlots /\ ~Present(m2[t][i]))
    BY DEF Shared
  <2>1. m2[c] = m[c]
    BY <1>1, <1>2, <1>b
  <2>2. m[t][i] = m[c][i] \/ (i \in VmallocSlots /\ ~Present(m[t][i]))
    BY DEF Core, Shared
  <2>3. CASE t = s
    BY <1>a, <1>b, <2>1, <2>2, <2>3
  <2>4. CASE t # s
    <3>1. m2[t] = m[t]
      BY <1>1, <1>2, <1>b, <2>4
    <3> QED
      BY <2>1, <2>2, <3>1
  <2> QED
    BY <2>3, <2>4
<1>15. Bare(m2, c)
  BY <1>1, <1>2, <1>b DEF Core, Bare
<1>16. Core(m2, f, c, T)
  BY <1>1, <1>9, <1>13, <1>14, <1>15 DEF Core
<1> QED
  BY <1>1, <1>10, <1>11, <1>16

\* The tables under a cleared root.
LEMMA ZeroForest ==
    ASSUME NEW m \in Memory, NEW r \in Frames, m[r] = ZeroTable, NEW f, f \subseteq Frames \ {r},
           NEW P, NEW B, NEW R, R = {r}
    PROVE  /\ Forest(m, f, R, P, B)
           /\ \A w \in AllPages : Translate(m, r, w) = NoFrame
<1>1. NoFrame \notin Frames
  BY PoolAssumption
<1>2. \A i \in Slots : ~Present(m[r][i]) /\ m[r][i].flags = {}
  BY DEF ZeroTable, Slots, Empty, Present
<1>3. \A w \in AllPages : \A k \in 1 .. Levels : Index(w)[k] \in Slots
  BY Digits DEF Slots
<1>a. 1 \in 1 .. Levels /\ 2 \in 2 .. Levels /\ 2 - 1 = 1 /\ 2 \in 1 .. Levels
  BY LevelsAssumption
<1>4. ASSUME NEW w \in AllPages PROVE Translate(m, r, w) = NoFrame
  BY <1>2, <1>3, <1>a, NotPresent
<1>5. ASSUME NEW w \in AllPages, NEW k \in 1 .. Levels
      PROVE  IF k = 1 THEN TablesOn(m, r, w)[k] = r ELSE TablesOn(m, r, w)[k] = NoFrame
  <2>1. TablesOn(m, r, w)[1] = r
        /\ TablesOn(m, r, w)[2] = Follow(m, TablesOn(m, r, w)[2 - 1], Index(w)[2 - 1])
    BY <1>a, Walk
  <2>2. TablesOn(m, r, w)[2] = NoFrame
    BY <1>2, <1>3, <1>a, <2>1 DEF Follow, IsTable
  <2>3. PICK d \in 1 .. Levels : \A j \in 1 .. Levels : TablesOn(m, r, w)[j] # NoFrame <=> j <= d
    BY Frontier
  <2>4. ~(2 <= d)
    BY <1>a, <2>2, <2>3
  <2>5. k # 1 => ~(k <= d)
    BY <2>4, LevelsAssumption
  <2> QED
    BY <2>1, <2>3, <2>5
<1>6. Inside(m, R)
  BY <1>5 DEF Inside
<1>7. Distinct(m, R, P)
  <2> SUFFICES ASSUME NEW v \in AllPages, NEW w \in AllPages, NEW j \in 1 .. Levels,
                      NEW k \in 1 .. Levels, TablesOn(m, r, v)[j] = TablesOn(m, r, w)[k],
                      TablesOn(m, r, v)[j] # NoFrame
               PROVE  j = k /\ Prefix(v, j - 1) = Prefix(w, j - 1)
    BY DEF Distinct
  <2>1. j = 1 /\ k = 1
    BY <1>5
  <2>2. Prefix(v, 0) = 0 /\ Prefix(w, 0) = 0 /\ 1 - 1 = 0
    BY Digits
  <2> QED
    BY <2>1, <2>2
<1>8. NotFree(m, f, R)
  BY <1>1, <1>5 DEF NotFree
<1>9. SmallAbove(m, R, B)
  <2> SUFFICES ASSUME NEW v \in AllPages, NEW k \in 1 .. Levels, TablesOn(m, r, v)[k] # NoFrame
               PROVE  "SIZE" \notin m[TablesOn(m, r, v)[k]][Index(v)[k]].flags
    <3>1. \A k \in 1 .. Levels - 1 : k \in 1 .. Levels
      BY LevelsAssumption
    <3> QED
      BY <3>1 DEF SmallAbove
  <2>1. TablesOn(m, r, v)[k] = r
    BY <1>5
  <2> QED
    BY <1>2, <1>3, <2>1
<1> QED
  BY <1>4, <1>6, <1>7, <1>8, <1>9 DEF Forest

\* The pages of the kernel image.
LEMMA TextPages ==
    ASSUME NEW x \in 0 .. KernelPages - 1
    PROVE  /\ PageOf(TextP4) + x \in AllPages /\ PageOf(TextP4) \in Nat
           /\ Index(PageOf(TextP4) + x)[1] = TextP4
<1>1. Levels \in Nat /\ Levels >= 2 /\ Entries \in Nat /\ Entries >= 2
  BY LevelsAssumption, EntriesAssumption
<1>2. TextP4 \in Nat /\ TextP4 + 1 \in 0 .. Entries
  BY LayoutAssumption, EntriesAssumption
<1>3. PICK c \in Nat : c = Span[Levels - 1]
  BY <1>1, Spans
<1>4. KernelPages \in Nat /\ KernelPages <= c
  BY <1>3, KernelAssumption
<1>5. PageOf(TextP4) = TextP4 * c /\ PageOf(TextP4 + 1) = (TextP4 + 1) * c
  BY <1>3 DEF PageOf
<1>6. (TextP4 + 1) * c = TextP4 * c + c /\ TextP4 * c \in Nat
  BY <1>2, <1>3
<1>7. PICK a \in Nat : a = PageOf(TextP4) /\ PageOf(TextP4 + 1) = a + c
  BY <1>5, <1>6
<1>8. PICK w \in Nat : w = PageOf(TextP4) + x /\ a <= w /\ w < a + c
  BY <1>4, <1>7
<1>9. w \in AllPages
  BY <1>2, <1>7, <1>8, PageRange
<1>10. PICK t \in Nat, u \in Nat : t = TextP4 /\ u = TextP4 + 1 /\ t .. u - 1 = {t}
  BY <1>2
<1>11. PageOf(t) <= w /\ w < PageOf(u)
  BY <1>7, <1>8, <1>10
<1>12. Index(w)[1] \in t .. u - 1
  BY <1>9, <1>11, TopPages
<1> QED
  BY <1>7, <1>8, <1>9, <1>10, <1>12

\* mm::initialize builds the reference table: the kernel image and all of
\* physical memory, and nothing in the areas that are handed out later.
LEMMA Built ==
    ASSUME NEW m \in Memory, NEW r \in Frames, m[r] = ZeroTable, NEW f, f \subseteq Frames \ {r},
           NEW t, t = MapPages(m, f, r, PageOf(TextP4), KernelPages, KernelStart),
           NEW s, s = MapPhysical(t, r)
    PROVE  /\ Core(s.mem, s.free, r, {}) /\ s \in MapState /\ s.free \subseteq f
           /\ s.ok => Reaches(s.mem, r, HighestFrame)
<1>1. PICK R, P, B, D : R = {r} /\ P = UserSlots /\ B = PhysSlots /\ D = Owned(r, {}) /\ r \in R
  OBVIOUS
<1>2. Forest(m, f, R, P, B) /\ \A w \in AllPages : Translate(m, r, w) = NoFrame
  BY <1>1, ZeroForest
<1>3. NoFrame \notin Frames
  BY PoolAssumption
<1>4. Apart(m, f, R, D)
  BY <1>1, <1>2, <1>3 DEF Apart
<1>5. PICK page \in Nat, n \in Nat, paddr \in Nat \cup {NoFrame} :
         page = PageOf(TextP4) /\ n = KernelPages /\ paddr = KernelStart /\ paddr # NoFrame
  <2>1. TextP4 \in Nat /\ Span[Levels - 1] \in Nat
    BY LayoutAssumption, LevelsAssumption, Spans
  <2>2. PageOf(TextP4) \in Nat
    BY <2>1 DEF PageOf
  <2>3. KernelPages \in Nat /\ KernelStart \in Nat
    BY KernelAssumption
  <2> QED
    BY <2>2, <2>3, PoolAssumption
<1>6. \A x \in 0 .. n - 1 : page + x \in AllPages /\ Index(page + x)[1] = TextP4
  BY <1>5, TextPages
<1>7. \A x \in 0 .. n - 1 : page + x \notin UserPages /\ page + x \notin VmallocPages
  BY <1>6, SlotAreas, PageAreas
<1>8. Placed(R, P, B, D, r, page, n, paddr)
  <2>1. \A q \in R : D[q] = UserPages \cup VmallocPages
    BY <1>1 DEF Owned
  <2>2. TextP4 \notin B
    BY <1>1, SlotAreas
  <2> QED
    BY <1>6, <1>7, <2>1, <2>2 DEF Placed
<1>9. Loop(m, f, R, P, B, D, r, page, n, paddr, n, t)
  BY <1>1, <1>2, <1>4, <1>5, <1>8, MapPagesCorrect
<1>10. /\ t \in MapState /\ Forest(t.mem, t.free, R, P, B) /\ t.free \subseteq f
       /\ TopsKept(m, t.mem, R, r, page, n)
       /\ Elsewhere(m, t.mem, R, P, r, page, n, paddr)
  BY <1>9 DEF Loop
<1>11. \A i \in Slots : i # TextP4 => t.mem[r][i] = m[r][i]
  BY <1>1, <1>6, <1>10 DEF TopsKept
<1>12. \A w \in AllPages : w \in UserPages \cup VmallocPages => Translate(t.mem, r, w) = NoFrame
  BY <1>1, <1>2, <1>7, <1>10 DEF Elsewhere
<1>13. Phys(t.mem, t.free, R, P, r, 0, t)
  <2>1. 0 * Entries = 0
    BY EntriesAssumption
  <2>2. Others(t.mem, t.mem, R) /\ Reaches(t.mem, r, 0 * Entries)
    BY <2>1 DEF Others, Reaches
  <2> QED
    BY <1>1, <1>10, <2>2 DEF Phys
<1>14. PICK b, g : b = t.mem /\ g = t.free
  OBVIOUS
<1>15. Phys(b, g, R, P, r, Areas, s)
  BY <1>1, <1>13, <1>14, MapPhysicalCorrect
<1>16. /\ s \in MapState /\ Forest(s.mem, s.free, R, P, B) /\ s.free \subseteq f
       /\ Others(b, s.mem, R) /\ (s.ok => Reaches(s.mem, r, Areas * Entries))
  BY <1>1, <1>10, <1>14, <1>15 DEF Phys
<1>17. \A w \in AllPages : w \in UserPages \cup VmallocPages => Translate(s.mem, r, w) = NoFrame
  <2> SUFFICES ASSUME NEW w \in AllPages, w \in UserPages \cup VmallocPages
               PROVE  Translate(s.mem, r, w) = NoFrame
    OBVIOUS
  <2>1. Index(w)[1] \notin PhysSlots
    BY PageAreas, SlotAreas
  <2> QED
    BY <1>1, <1>12, <1>14, <1>16, <2>1 DEF Others
<1>18. Apart(s.mem, s.free, R, D)
  <2>1. \A q \in R : q = r /\ D[q] = UserPages \cup VmallocPages
    BY <1>1 DEF Owned
  <2> QED
    BY <1>3, <1>17, <2>1 DEF Apart
<1>19. Bare(s.mem, r)
  <2> SUFFICES ASSUME NEW i \in UserSlots PROVE ~Present(s.mem[r][i])
    BY DEF Bare
  <2>1. i \in Slots \ PhysSlots /\ i # TextP4
    BY SlotAreas
  <2>2. s.mem[r][i] = m[r][i]
    BY <1>1, <1>11, <1>14, <1>16, <2>1 DEF Others
  <2> QED
    BY <2>1, <2>2 DEF ZeroTable, Slots, Empty, Present
<1>20. Core(s.mem, s.free, r, {})
  <2>1. {r} \cup {} = R /\ Shared(s.mem, r, {})
    BY <1>1 DEF Shared
  <2> QED
    BY <1>1, <1>16, <1>18, <1>19, <2>1 DEF Core
<1>21. s.ok => Reaches(s.mem, r, HighestFrame)
  <2>1. Areas * Entries \in Nat /\ HighestFrame \in Nat /\ HighestFrame <= Areas * Entries
    <3>1. PICK e \in Nat \ {0}, h \in Nat : e = Entries /\ h = HighestFrame
      BY EntriesAssumption, KernelAssumption
    <3>2. h \div e \in Nat /\ h % e \in 0 .. e - 1 /\ h = e * (h \div e) + (h % e)
      BY Division
    <3>3. PICK y \in Nat : y = h \div e
      BY <3>2
    <3>4. (y + 1) * e = e * y + e /\ e * y \in Nat
      BY <3>1, <3>3
    <3>5. (y + 1) * e \in Nat /\ h <= (y + 1) * e
      BY <3>1, <3>2, <3>3, <3>4
    <3> QED
      BY <3>1, <3>3, <3>5 DEF Areas
  <2>2. \A x \in 0 .. HighestFrame - 1 : x \in 0 .. (Areas * Entries) - 1
    BY <2>1
  <2> QED
    BY <1>16, <2>2 DEF Reaches
<1> QED
  BY <1>16, <1>20, <1>21
-----------------------------------------------------------------------------
\* The inductive invariant.  Before mm::initialize the state is the initial
\* one.  If the frame of the reference table looks like a table of something
\* else, only that frame is known from then on.  Otherwise the tables of the
\* kernel and of the processes form a forest with private user halves and a
\* shared kernel half, and as long as the kernel runs, what was mapped is
\* mapped.
Tables == {spaces[p].table : p \in Spaces}
Typed ==
    /\ initialized \in BOOLEAN /\ panicked \in BOOLEAN /\ wild \in BOOLEAN
    /\ mem \in Memory /\ free \subseteq Frames
    /\ next_addr \in PageOf(VmallocStartP4) .. PageOf(VmallocEndP4)
    /\ kernel_regions \subseteq Regions
    /\ spaces \in [Processes -> {NoSpace} \cup [table : Frames, regions : SUBSET Segments]]
Unbooted ==
    ~initialized =>
        /\ free = Frames /\ reference = NoFrame /\ Spaces = {} /\ kernel_regions = {} /\ ~panicked
        /\ ~wild /\ \E L \in SUBSET Slots : mem[Min(Frames)] = PartlyStale(Min(Frames), L)
Strayed == wild => initialized /\ Spaces = {} /\ reference \in Frames \ free
Rooted == initialized /\ ~wild => Core(mem, free, reference, Tables)
OneTable == \A p, q \in Spaces : spaces[p].table = spaces[q].table => p = q
RegionsApart ==
    /\ \A r \in kernel_regions : r.page_count = PageCount(r.size) /\ r.vaddr + r.page_count <= next_addr
    /\ \A r, q \in kernel_regions : r # q =>
          r.vaddr + r.page_count <= q.vaddr \/ q.vaddr + q.page_count <= r.vaddr
Works ==
    Running =>
        /\ Reaches(mem, reference, HighestFrame)
        /\ Backs(mem, reference, kernel_regions)
        /\ \A p \in Spaces : Places(mem, spaces[p])
IInv == Typed /\ Unbooted /\ Strayed /\ Rooted /\ OneTable /\ RegionsApart /\ Works

\* The pages of physical memory, of a segment and of a region.
LEMMA PhysicalPages ==
    ASSUME NEW x \in 0 .. HighestFrame - 1
    PROVE  PhysicalToVirtual(x) \in AllPages /\ Index(PhysicalToVirtual(x))[1] \in PhysSlots
<1>1. /\ PhysP4 \in Nat /\ VmallocStartP4 \in Nat /\ VmallocStartP4 \in 0 .. Entries
      /\ Entries \in Nat
  BY LayoutAssumption, EntriesAssumption
<1>2. Span[Levels - 1] \in Nat
  BY Spans, LevelsAssumption
<1>3. PICK a \in Nat, b \in Nat : a = PageOf(PhysP4) /\ b = PageOf(VmallocStartP4)
  BY <1>1, <1>2 DEF PageOf
<1>4. HighestFrame \in Nat /\ a + HighestFrame + Entries <= b
  BY <1>3, KernelAssumption
<1>5. PICK w \in Nat : w = PhysicalToVirtual(x) /\ a <= w /\ w < b
  BY <1>1, <1>3, <1>4 DEF PhysicalToVirtual
<1>6. w \in AllPages
  BY <1>1, <1>3, <1>5, PageRange
<1>7. PageOf(PhysP4) <= w /\ w < PageOf(VmallocStartP4)
  BY <1>3, <1>5
<1>8. Index(w)[1] \in PhysP4 .. VmallocStartP4 - 1
  BY <1>1, <1>6, <1>7, TopPages
<1> QED
  BY <1>5, <1>6, <1>8 DEF PhysSlots

\* page_count is positive and counts the pages of the loops.
LEMMA Count ==
    ASSUME NEW size \in Nat
    PROVE  /\ PageCount(size) \in Nat \ {0} /\ size \div PAGE_SIZE \in Nat
           /\ 0 .. PageCount(size) - 1 = 0 .. size \div PAGE_SIZE
<1>1. size \div PAGE_SIZE \in Nat
  BY PageSizeAssumption, Division
<1> QED
  BY <1>1 DEF PageCount

\* The pages that map_in_userspace maps for a segment are user pages.
LEMMA SegmentAt ==
    ASSUME NEW s \in Segments
    PROVE  /\ s.vaddr \div PAGE_SIZE \in Nat /\ PageCount(s.size) \in Nat \ {0}
           /\ \A x \in 0 .. PageCount(s.size) - 1 : (s.vaddr \div PAGE_SIZE) + x \in UserPages
<1>1. s.vaddr \in Nat /\ s.size \in Nat
  BY CallerAssumption
<1>2. PICK n \in Nat, a \in Nat : n = s.size \div PAGE_SIZE /\ a = s.vaddr \div PAGE_SIZE
  BY <1>1, PageSizeAssumption, Division
<1>3. a + n \in UserPages
  BY <1>2, CallerAssumption
<1>4. PageCount(s.size) \in Nat \ {0} /\ 0 .. PageCount(s.size) - 1 = 0 .. n
  BY <1>1, <1>2, Count
<1>5. \A x \in 0 .. n : a + x \in UserPages
  <2>1. PhysP4 \in Nat /\ Span[Levels - 1] \in Nat
    BY LayoutAssumption, Spans, LevelsAssumption
  <2>3. PageOf(PhysP4) \in Nat
    BY <2>1 DEF PageOf
  <2>2. PICK h \in Nat : UserPages = 0 .. h - 1
    BY <2>3 DEF UserPages
  <2> QED
    BY <1>2, <1>3, <2>2
<1> QED
  BY <1>2, <1>4, <1>5

\* The pages of a kernel region lie in the vmalloc area below next_addr.
LEMMA RegionAt ==
    ASSUME Typed, RegionsApart, NEW r \in kernel_regions
    PROVE  /\ r.vaddr \in Nat /\ r.page_count \in Nat \ {0} /\ r.size \in Nat
           /\ r.paddr \in Nat \cup {NoFrame} /\ r.vaddr + r.page_count <= next_addr
           /\ next_addr \in Nat
           /\ \A x \in 0 .. r.page_count - 1 : r.vaddr + x \in VmallocPages
<1>1. PICK a \in Nat, b \in Nat : a = PageOf(VmallocStartP4) /\ b = PageOf(VmallocEndP4)
  BY PageAreas
<1>2. VmallocPages = a .. b - 1 /\ next_addr \in a .. b
  BY <1>1 DEF Typed, VmallocPages
<1>3. /\ r.vaddr \in VmallocPages /\ r.page_count \in Nat \ {0} /\ r.size \in Nat
      /\ r.paddr \in Nat \cup {NoFrame}
  BY DEF Typed, Regions
<1>4. r.vaddr + r.page_count <= next_addr
  BY DEF RegionsApart
<1> QED
  BY <1>1, <1>2, <1>3, <1>4, SMTT(20)

\* What is mapped stays mapped where translations stay.
LEMMA ReachesKept ==
    ASSUME NEW m, NEW m2, NEW c, Reaches(m, c, HighestFrame),
           \A w \in AllPages : Index(w)[1] \in PhysSlots => Translate(m2, c, w) = Translate(m, c, w)
    PROVE  Reaches(m2, c, HighestFrame)
  BY PhysicalPages DEF Reaches

\* A process keeps its segments when its user half translates as before.
LEMMA PlacesKept ==
    ASSUME NEW m, NEW m2, NEW sp, sp.regions \subseteq Segments, Places(m, sp),
           \A w \in UserPages : Translate(m2, sp.table, w) = Translate(m, sp.table, w)
    PROVE  Places(m2, sp)
<1>1. ASSUME NEW s \in sp.regions, NEW x \in 0 .. PageCount(s.size) - 1
      PROVE  Translate(m2, sp.table, (s.vaddr \div PAGE_SIZE) + x) \in Frames
  <2>1. (s.vaddr \div PAGE_SIZE) + x \in UserPages
    BY SegmentAt
  <2> QED
    BY <2>1 DEF Places
<1>2. \A v \in UserPages : Translate(m2, sp.table, v) # NoFrame => \E s \in sp.regions : Counted(s, v)
  BY DEF Places
<1> QED
  BY <1>1, <1>2 DEF Places

\* The kernel keeps its regions when the area below next_addr translates as
\* before.
LEMMA BacksKept ==
    ASSUME Typed, RegionsApart, NEW m, NEW m2, NEW c, Backs(m, c, kernel_regions),
           \A w \in VmallocPages : w < next_addr => Translate(m2, c, w) = Translate(m, c, w)
    PROVE  Backs(m2, c, kernel_regions)
<1> SUFFICES ASSUME NEW r \in kernel_regions
             PROVE  Filled(m2, c, r.vaddr, r.paddr, r.page_count)
  BY DEF Backs
<1>1. Filled(m, c, r.vaddr, r.paddr, r.page_count)
  BY DEF Backs
<1>2. \A x \in 0 .. r.page_count - 1 : r.vaddr + x \in VmallocPages /\ r.vaddr + x < next_addr
  BY RegionAt
<1> QED
  BY <1>1, <1>2 DEF Filled

\* The initial state.
LEMMA InitIInv == Init => IInv
<1> SUFFICES ASSUME Init PROVE IInv
  OBVIOUS
<1>1. Spaces = {} /\ Tables = {}
  BY DEF Init, Spaces, Tables
<1>2. Min(Frames) \in Frames
  BY PoolAssumption, MinFree
<1>3. mem \in Memory /\ \E L \in SUBSET Slots : mem[Min(Frames)] = PartlyStale(Min(Frames), L)
  <2>1. PICK L \in SUBSET Slots :
           mem = [f \in Frames |-> IF f = Min(Frames) THEN PartlyStale(f, L) ELSE StaleTable(f)]
    BY DEF Init, Slots
  <2>2. \A f \in Frames : StaleTable(f) \in [Slots -> Entry] /\ PartlyStale(f, L) \in [Slots -> Entry]
    BY PoolAssumption DEF StaleTable, PartlyStale, Empty, Slots, Entry, EntryFlags, Present
  <2> QED
    BY <1>2, <2>1, <2>2 DEF Memory
<1>4. next_addr \in PageOf(VmallocStartP4) .. PageOf(VmallocEndP4)
  <2>1. PICK a \in Nat, b \in Nat, c \in Nat :
           a = VmallocStartP4 /\ b = VmallocEndP4 /\ c = Span[Levels - 1] /\ a <= b
    BY LayoutAssumption, Spans, LevelsAssumption
  <2>2. PICK d \in Nat : b = a + d
    BY <2>1
  <2>3. b * c = a * c + d * c /\ d * c \in Nat /\ a * c \in Nat
    BY <2>2
  <2>4. next_addr = a * c /\ PageOf(VmallocStartP4) = a * c /\ PageOf(VmallocEndP4) = b * c
    BY <2>1 DEF Init, PageOf
  <2> QED
    BY <2>3, <2>4
<1>5. Typed
  BY <1>3, <1>4 DEF Init, Typed
<1>6. Unbooted /\ Strayed /\ Rooted /\ OneTable /\ RegionsApart /\ Works
  BY <1>1, <1>3 DEF Init, Unbooted, Strayed, Rooted, OneTable, RegionsApart, Works, Running
<1> QED
  BY <1>5, <1>6 DEF IInv

\* mm::initialize.
LEMMA InitializeIInv == IInv /\ Initialize => IInv'
<1> SUFFICES ASSUME IInv, Initialize PROVE IInv'
  OBVIOUS
<1>1. /\ ~initialized /\ free = Frames /\ Spaces = {} /\ kernel_regions = {} /\ ~wild /\ ~panicked
      /\ mem \in Memory
  BY DEF IInv, Initialize, Unbooted, Typed
<1>2. PICK r : r = Min(Frames) /\ r \in Frames /\ reference' = r
  BY <1>1, PoolAssumption, MinFree DEF Initialize
<1>3. PICK f : f = Frames \ {r} /\ f = Taken(free, r)
  BY <1>1 DEF Taken
<1>4. PICK L \in SUBSET Slots : mem[r] = PartlyStale(r, L)
  BY <1>1, <1>2 DEF IInv, Unbooted
<1>5. initialized' = TRUE /\ UNCHANGED <<next_addr, kernel_regions, spaces>>
  BY DEF Initialize
<1>6. Spaces' = {} /\ Tables' = {} /\ Unbooted' /\ OneTable' /\ RegionsApart'
  <2>1. Spaces' = {}
    BY <1>1, <1>5 DEF Spaces
  <2> QED
    BY <1>1, <1>5, <2>1 DEF Tables, Unbooted, OneTable, RegionsApart
<1>7. CASE \E i \in Slots : Present(mem[r][i])
  <2>1. wild' = TRUE /\ free' = f /\ UNCHANGED <<mem, panicked>>
    BY <1>2, <1>3, <1>7 DEF Initialize, Slots
  <2>2. Typed' /\ Strayed' /\ Rooted' /\ Works'
    BY <1>2, <1>3, <1>5, <1>6, <2>1 DEF IInv, Typed, Strayed, Rooted, Works, Running
  <2> QED
    BY <1>6, <2>2 DEF IInv
<1>8. CASE ~\E i \in Slots : Present(mem[r][i])
  <2>1. mem[r] = ZeroTable
    <3>1. \A i \in Slots : i \notin L
      BY <1>4, <1>8 DEF PartlyStale, StaleTable, Slots, Present
    <3> QED
      BY <1>4, <3>1 DEF PartlyStale, ZeroTable, Slots
  <2>2. PICK t : t = MapPages(mem, f, r, PageOf(TextP4), KernelPages, KernelStart)
    OBVIOUS
  <2>3. PICK s : s = MapPhysical(t, r)
    OBVIOUS
  <2>4. mem' = s.mem /\ free' = s.free /\ panicked' = ~s.ok /\ UNCHANGED wild
    BY <1>2, <1>3, <1>8, <2>2, <2>3 DEF Initialize, Outcome, Slots
  <2>5. /\ Core(s.mem, s.free, r, {}) /\ s \in MapState /\ s.free \subseteq f
        /\ s.ok => Reaches(s.mem, r, HighestFrame)
    BY <1>1, <1>2, <1>3, <2>1, <2>2, <2>3, Built
  <2>6. s.mem \in Memory /\ s.free \subseteq Frames /\ s.ok \in BOOLEAN
    BY <2>5 DEF MapState
  <2>7. Typed' /\ Strayed'
    BY <1>1, <1>5, <2>4, <2>6 DEF IInv, Typed, Strayed
  <2>8. Rooted'
    BY <1>2, <1>6, <2>4, <2>5 DEF Rooted
  <2>9. Works'
    BY <1>1, <1>2, <1>5, <1>6, <2>4, <2>5 DEF Works, Running, Backs
  <2> QED
    BY <1>6, <2>7, <2>8, <2>9 DEF IInv
<1> QED
  BY <1>7, <1>8

\* The parts of IInv that only look at processes, when those do not change.
LEMMA SameSpaces ==
    ASSUME IInv, UNCHANGED spaces
    PROVE  OneTable' /\ Spaces' = Spaces /\ Tables' = Tables
<1>1. Spaces' = Spaces
  BY DEF Spaces
<1>2. Tables' = Tables
  BY <1>1 DEF Tables
<1> QED
  BY <1>1, <1>2 DEF IInv, OneTable

\* The table of a process.
LEMMA TableOf ==
    ASSUME Typed, NEW p \in Spaces
    PROVE  /\ p \in Processes /\ spaces[p] \in [table : Frames, regions : SUBSET Segments]
           /\ spaces[p].table \in Tables /\ spaces[p].table \in Frames
           /\ spaces[p].regions \subseteq Segments
<1>1. p \in Processes /\ spaces[p] # NoSpace
  BY DEF Spaces
<1>2. spaces[p] \in [table : Frames, regions : SUBSET Segments]
  BY <1>1 DEF Typed
<1> QED
  BY <1>1, <1>2 DEF Tables

\* allocate_kernel_vm and map_physical_to_kernel_vm.
LEMMA NewRegionIInv ==
    ASSUME IInv, Running, NEW size \in Nat, RoomFor(size), NEW paddr \in Nat \cup {NoFrame},
           \A i \in 0 .. size \div PAGE_SIZE : paddr # NoFrame => paddr + i \notin Frames,
           NewRegion(size, paddr)
    PROVE  IInv'
<1>1. PICK n \in Nat : n # 0 /\ n = PageCount(size) /\ 0 .. n - 1 = 0 .. size \div PAGE_SIZE
  BY Count
<1>2. PICK a \in Nat, b \in Nat : a = PageOf(VmallocStartP4) /\ b = PageOf(VmallocEndP4)
  BY PageAreas
<1>3. PICK page \in Nat : page = next_addr /\ page >= a /\ page + n <= b
  BY <1>1, <1>2 DEF IInv, Typed, RoomFor
<1>4. VmallocPages = a .. b - 1
  BY <1>2 DEF VmallocPages
<1>5. \A x \in 0 .. n - 1 : page + x \in VmallocPages /\ (paddr # NoFrame => paddr + x \notin Frames)
  <2>1. \A x \in 0 .. n - 1 : page + x \in VmallocPages
    BY <1>3, <1>4
  <2>2. \A x \in 0 .. n - 1 : paddr # NoFrame => paddr + x \notin Frames
    BY <1>1
  <2> QED
    BY <2>1, <2>2
<1>6. PICK region : region = [vaddr |-> page, paddr |-> paddr, page_count |-> n, size |-> size]
  OBVIOUS
<1>7. PICK s : s = MapPages(mem, free, reference, page, n, paddr)
  OBVIOUS
<1>8. /\ next_addr' = page + n /\ kernel_regions' = kernel_regions \cup {region}
      /\ mem' = s.mem /\ free' = s.free /\ panicked' = ~s.ok
      /\ UNCHANGED <<initialized, reference, spaces, wild>>
  BY <1>1, <1>3, <1>6, <1>7 DEF NewRegion, Outcome
<1>9. PICK T : T = Tables /\ Core(mem, free, reference, T)
  BY DEF IInv, Rooted, Running
<1>10. /\ Core(s.mem, s.free, reference, T)
       /\ s \in MapState /\ s.free \subseteq free
       /\ s.ok => Filled(s.mem, reference, page, paddr, n)
       /\ \A q \in {reference} \cup T : \A w \in AllPages :
             (\A x \in 0 .. n - 1 : w # page + x) => Translate(s.mem, q, w) = Translate(mem, q, w)
  <2>1. PICK c, m, f : c = reference /\ m = mem /\ f = free
    OBVIOUS
  <2>2. Core(m, f, c, T) /\ s = MapPages(m, f, c, page, n, paddr) /\ KernelRange(page, n, paddr)
    BY <1>5, <1>7, <1>9, <2>1 DEF KernelRange
  <2>3. KernelMapped(m, f, c, T, page, n, paddr, s)
    BY <2>2, CoreKernel
  <2> QED
    BY <2>1, <2>3 DEF KernelMapped
<1>11. s.mem \in Memory /\ s.free \subseteq Frames /\ s.ok \in BOOLEAN
  BY <1>10 DEF MapState
<1>12. Spaces' = Spaces /\ Tables' = Tables /\ OneTable'
  BY <1>8, SameSpaces
<1>13. region \in Regions
  <2>1. page \in VmallocPages
    BY <1>1, <1>3, <1>4
  <2> QED
    BY <1>1, <1>6, <2>1 DEF Regions
<1>14. Typed'
  <2>1. next_addr' \in PageOf(VmallocStartP4) .. PageOf(VmallocEndP4)
    BY <1>2, <1>3, <1>8
  <2>2. kernel_regions' \subseteq Regions
    BY <1>8, <1>13 DEF IInv, Typed
  <2> QED
    BY <1>8, <1>11, <2>1, <2>2 DEF IInv, Typed
<1>15. Unbooted' /\ Strayed'
  BY <1>8 DEF Unbooted, Strayed, Running
<1>16. Rooted'
  BY <1>8, <1>9, <1>10, <1>12 DEF Rooted
<1>17. RegionsApart'
  <2>1. /\ region.page_count = PageCount(region.size) /\ region.vaddr = page
        /\ region.page_count = n /\ region.vaddr + region.page_count <= next_addr'
    BY <1>1, <1>3, <1>6, <1>8
  <2>2. ASSUME NEW r \in kernel_regions
        PROVE  /\ r.page_count = PageCount(r.size) /\ r.vaddr + r.page_count <= page
               /\ r.vaddr + r.page_count <= next_addr'
    <3>1. r.page_count = PageCount(r.size) /\ r.vaddr + r.page_count <= next_addr
      BY DEF IInv, RegionsApart
    <3>2. r.vaddr \in Nat /\ r.page_count \in Nat \ {0}
      BY RegionAt DEF IInv
    <3> QED
      BY <1>3, <1>8, <3>1, <3>2
  <2>3. \A r, q \in kernel_regions : r # q =>
           r.vaddr + r.page_count <= q.vaddr \/ q.vaddr + q.page_count <= r.vaddr
    BY DEF IInv, RegionsApart
  <2>4. \A r \in kernel_regions' :
           r.page_count = PageCount(r.size) /\ r.vaddr + r.page_count <= next_addr'
    BY <1>8, <2>1, <2>2
  <2>5. \A r, q \in kernel_regions' : r # q =>
           r.vaddr + r.page_count <= q.vaddr \/ q.vaddr + q.page_count <= r.vaddr
    BY <1>8, <2>1, <2>2, <2>3
  <2> QED
    BY <2>4, <2>5 DEF RegionsApart
<1>18. Works'
  <2> SUFFICES ASSUME Running'
               PROVE  /\ Reaches(s.mem, reference, HighestFrame)
                      /\ Backs(s.mem, reference, kernel_regions')
                      /\ \A p \in Spaces : Places(s.mem, spaces[p])
    BY <1>8, <1>12 DEF Works
  <2>1. s.ok
    BY <1>8, <1>11 DEF Running
  <2>2. /\ Reaches(mem, reference, HighestFrame) /\ Backs(mem, reference, kernel_regions)
        /\ \A p \in Spaces : Places(mem, spaces[p])
    BY DEF IInv, Works
  <2>3. \A q \in {reference} \cup T : \A w \in AllPages :
           w \notin VmallocPages \/ w < next_addr => Translate(s.mem, q, w) = Translate(mem, q, w)
    <3> SUFFICES ASSUME NEW q \in {reference} \cup T, NEW w \in AllPages,
                        w \notin VmallocPages \/ w < next_addr
                 PROVE  Translate(s.mem, q, w) = Translate(mem, q, w)
      OBVIOUS
    <3>1. \A x \in 0 .. n - 1 : w # page + x
      BY <1>3, <1>5
    <3> QED
      BY <1>10, <3>1
  <2>4. Reaches(s.mem, reference, HighestFrame)
    <3>1. \A w \in AllPages : Index(w)[1] \in PhysSlots => w \notin VmallocPages
      BY PageAreas, SlotAreas
    <3>2. PICK c, m, m2 : c = reference /\ m = mem /\ m2 = s.mem
      OBVIOUS
    <3>3. Reaches(m2, c, HighestFrame)
      BY <2>2, <2>3, <3>1, <3>2, ReachesKept
    <3> QED
      BY <3>2, <3>3
  <2>5. Backs(s.mem, reference, kernel_regions')
    <3>1. PICK c, m, m2 : c = reference /\ m = mem /\ m2 = s.mem
      OBVIOUS
    <3>2. \A w \in VmallocPages : w < next_addr => Translate(m2, c, w) = Translate(m, c, w)
      BY <2>3, <3>1, PageAreas
    <3>3. Backs(m2, c, kernel_regions)
      BY <2>2, <3>1, <3>2, BacksKept DEF IInv
    <3>4. Filled(m2, c, region.vaddr, region.paddr, region.page_count)
      BY <1>6, <1>10, <2>1, <3>1
    <3> QED
      BY <1>8, <3>1, <3>3, <3>4 DEF Backs
  <2>6. ASSUME NEW p \in Spaces PROVE Places(s.mem, spaces[p])
    <3>1. spaces[p].table \in T /\ spaces[p].regions \subseteq Segments
      BY <1>9, TableOf DEF IInv
    <3>2. \A w \in UserPages : w \in AllPages /\ w \notin VmallocPages
      BY PageAreas, SlotAreas
    <3>3. PICK sp, m, m2 : sp = spaces[p] /\ m = mem /\ m2 = s.mem
      OBVIOUS
    <3>4. \A w \in UserPages : Translate(m2, sp.table, w) = Translate(m, sp.table, w)
      BY <2>3, <3>1, <3>2, <3>3
    <3>5. Places(m, sp) /\ sp.regions \subseteq Segments
      BY <2>2, <3>1, <3>3
    <3>6. Places(m2, sp)
      BY <3>4, <3>5, PlacesKept
    <3> QED
      BY <3>3, <3>6
  <2> QED
    BY <2>4, <2>5, <2>6
<1> QED
  BY <1>12, <1>14, <1>15, <1>16, <1>17, <1>18 DEF IInv

\* allocate_kernel_vm keeps IInv.
LEMMA AllocateIInv ==
    ASSUME IInv, NEW size \in VmSizes, AllocateKernelVm(size)
    PROVE  IInv'
<1>1. PICK n \in Nat, a \in Nat \cup {NoFrame} : n = size /\ a = NoFrame
  BY CallerAssumption
<1>2. Running /\ RoomFor(n) /\ NewRegion(n, a)
  BY <1>1 DEF AllocateKernelVm
<1> QED
  BY <1>1, <1>2, NewRegionIInv

\* map_physical_to_kernel_vm keeps IInv.
LEMMA DeviceIInv ==
    ASSUME IInv, NEW d \in Devices, MapPhysicalToKernelVm(d)
    PROVE  IInv'
<1>1. PICK n \in Nat, a \in Nat \cup {NoFrame} :
         n = d.size /\ a = d.paddr /\ \A i \in 0 .. n \div PAGE_SIZE : a + i \notin Frames
  BY CallerAssumption
<1>2. Running /\ RoomFor(n) /\ NewRegion(n, a)
  BY <1>1 DEF MapPhysicalToKernelVm
<1> QED
  BY <1>1, <1>2, NewRegionIInv

\* A process gets a page table.
LEMMA CreateIInv ==
    ASSUME IInv, NEW p \in Processes, CreatePageTable(p)
    PROVE  IInv'
<1>1. Running /\ initialized /\ ~wild /\ spaces[p] = NoSpace
      /\ UNCHANGED <<initialized, reference, next_addr, kernel_regions, wild>>
  BY DEF CreatePageTable, Running
<1>2. CASE free = {}
  <2>1. panicked' = TRUE /\ UNCHANGED <<mem, free, spaces>>
    BY <1>2 DEF CreatePageTable
  <2>2. Spaces' = Spaces /\ Tables' = Tables /\ OneTable'
    BY <2>1, SameSpaces
  <2>3. Typed' /\ Unbooted' /\ Strayed'
    BY <1>1, <2>1 DEF IInv, Typed, Unbooted, Strayed
  <2>4. Rooted' /\ RegionsApart' /\ Works'
    BY <1>1, <2>1, <2>2 DEF IInv, Rooted, RegionsApart, Works, Running
  <2> QED
    BY <2>2, <2>3, <2>4 DEF IInv
<1>3. CASE free # {}
  <2>1. free \subseteq Frames /\ mem \in Memory
    BY DEF IInv, Typed
  <2>2. PICK s \in free : s = Min(free)
    BY <1>3, <2>1, MinFree
  <2>3. PICK sp : sp = [table |-> s, regions |-> {}]
    OBVIOUS
  <2>4. /\ mem' = [mem EXCEPT ![s] = mem[reference]] /\ free' = free \ {s}
        /\ spaces' = [spaces EXCEPT ![p] = sp] /\ UNCHANGED panicked
    BY <1>3, <2>2, <2>3 DEF CreatePageTable, Taken
  <2>5. PICK m, f, c, T, m2, g : m = mem /\ f = free /\ c = reference /\ T = Tables /\ m2 = mem' /\ g = free'
    OBVIOUS
  <2>6. Core(m, f, c, T) /\ s \in f /\ Cloned(m, c, s, m2) /\ g = f \ {s}
    BY <1>1, <2>4, <2>5 DEF IInv, Rooted, Cloned
  <2>a. Joined(m, m2, g, c, T, s)
    BY <2>6, CoreCreate
  <2>7. /\ Core(m2, g, c, T \cup {s}) /\ s \notin {c} \cup T
        /\ \A q \in {c} \cup T : \A w \in AllPages : Translate(m2, q, w) = Translate(m, q, w)
        /\ \A w \in UserPages : Translate(m2, s, w) = NoFrame
    BY <2>a DEF Joined
  <2>8. sp \in [table : Frames, regions : SUBSET Segments] /\ sp.table = s /\ sp.regions = {}
    BY <2>1, <2>2, <2>3
  <2>9. sp # NoSpace
    BY <2>8, CallerAssumption
  <2>10. spaces \in [Processes -> {NoSpace} \cup [table : Frames, regions : SUBSET Segments]]
    BY DEF IInv, Typed
  <2>11. spaces'[p] = sp /\ \A q \in Processes \ {p} : spaces'[q] = spaces[q]
    BY <2>4, <2>10
  <2>12. Spaces' = Spaces \cup {p} /\ p \notin Spaces
    BY <1>1, <2>9, <2>11 DEF Spaces
  <2>13. Tables' = Tables \cup {s}
    <3>1. \A q \in Spaces : spaces'[q] = spaces[q]
      BY <2>11, <2>12 DEF Spaces
    <3> QED
      BY <2>8, <2>11, <2>12, <3>1 DEF Tables
  <2>14. Typed'
    <3>1. spaces' \in [Processes -> {NoSpace} \cup [table : Frames, regions : SUBSET Segments]]
      BY <2>4, <2>8, <2>10
    <3>2. mem' \in Memory
      BY <2>5, <2>7 DEF Core, Forest
    <3> QED
      BY <1>1, <2>1, <2>4, <3>1, <3>2 DEF IInv, Typed
  <2>15. Unbooted' /\ Strayed' /\ RegionsApart'
    BY <1>1 DEF IInv, Unbooted, Strayed, RegionsApart
  <2>16. Rooted'
    BY <1>1, <2>5, <2>7, <2>13 DEF Rooted
  <2>17. OneTable'
    <3> SUFFICES ASSUME NEW x \in Spaces', NEW y \in Spaces', spaces'[x].table = spaces'[y].table
                 PROVE  x = y
      BY DEF OneTable
    <3>1. \A z \in Spaces : spaces'[z] = spaces[z] /\ spaces[z].table # s
      BY <2>5, <2>7, <2>11, <2>12 DEF Spaces, Tables
    <3>2. CASE x = p
      BY <2>8, <2>11, <2>12, <3>1, <3>2
    <3>3. CASE y = p
      BY <2>8, <2>11, <2>12, <3>1, <3>3
    <3>4. CASE x \in Spaces /\ y \in Spaces
      BY <3>1, <3>4 DEF IInv, OneTable
    <3> QED
      BY <2>12, <3>2, <3>3, <3>4
  <2>18. Works'
    <3>1. /\ Reaches(m, c, HighestFrame) /\ Backs(m, c, kernel_regions)
          /\ \A q \in Spaces : Places(m, spaces[q])
      BY <1>1, <2>5 DEF IInv, Works
    <3>2. Reaches(m2, c, HighestFrame)
      BY <2>7, <3>1, ReachesKept
    <3>3. Backs(m2, c, kernel_regions)
      BY <2>7, <3>1, PageAreas, BacksKept DEF IInv
    <3>4. ASSUME NEW q \in Spaces PROVE Places(m2, spaces[q])
      <4>1. spaces[q].table \in T /\ spaces[q].regions \subseteq Segments
        BY <2>5, TableOf DEF IInv
      <4>2. PICK e : e = spaces[q]
        OBVIOUS
      <4>3. \A w \in UserPages : Translate(m2, e.table, w) = Translate(m, e.table, w)
        BY <2>7, <4>1, <4>2, PageAreas
      <4>4. Places(m, e) /\ e.regions \subseteq Segments
        BY <3>1, <4>1, <4>2
      <4> QED
        BY <4>2, <4>3, <4>4, PlacesKept
    <3>5. Places(m2, sp)
      BY <2>7, <2>8 DEF Places
    <3>6. \A q \in Spaces' : Places(m2, spaces'[q])
      BY <2>11, <2>12, <3>4, <3>5 DEF Spaces
    <3> QED
      BY <1>1, <2>5, <3>2, <3>3, <3>6 DEF Works
  <2> QED
    BY <2>14, <2>15, <2>16, <2>17, <2>18 DEF IInv
<1> QED
  BY <1>2, <1>3

\* A page fault changes what its process sees of the vmalloc area only.
LEMMA FaultIInv ==
    ASSUME IInv, NEW p \in Processes, NEW v, PageFault(p, v)
    PROVE  IInv'
<1>1. /\ Running /\ initialized /\ ~wild /\ spaces[p] # NoSpace /\ p \in Spaces
      /\ UNCHANGED <<initialized, free, reference, next_addr, kernel_regions, spaces, wild>>
  BY DEF PageFault, Running, Faults, Spaces
<1>2. Spaces' = Spaces /\ Tables' = Tables /\ OneTable'
  BY <1>1, SameSpaces
<1>3. Unbooted' /\ Strayed' /\ RegionsApart'
  BY <1>1 DEF IInv, Unbooted, Strayed, RegionsApart
<1>4. CASE ~IsVmallocAddr(v)
  <2>1. panicked' = TRUE /\ UNCHANGED mem
    BY <1>4 DEF PageFault
  <2>2. Typed' /\ Rooted' /\ Works'
    BY <1>1, <1>2, <2>1 DEF IInv, Typed, Rooted, Works, Running
  <2> QED
    BY <1>2, <1>3, <2>2 DEF IInv
<1>5. CASE IsVmallocAddr(v)
  <2>1. mem' = VmallocFaulted(p) /\ UNCHANGED panicked
    BY <1>5 DEF PageFault
  <2>2. PICK m, f, c, T, m2, s : /\ m = mem /\ f = free /\ c = reference /\ T = Tables /\ m2 = mem'
                                 /\ s = spaces[p].table /\ s \in T
    BY <1>1, TableOf DEF IInv
  <2>3. Core(m, f, c, T) /\ Faulted(m, c, s, m2)
    BY <1>1, <2>1, <2>2 DEF IInv, Rooted, Faulted, VmallocFaulted
  <2>4. /\ Core(m2, f, c, T)
        /\ \A q \in {c} \cup T : \A w \in AllPages :
              q # s \/ w \notin VmallocPages => Translate(m2, q, w) = Translate(m, q, w)
    BY <2>2, <2>3, CoreFault
  <2>5. mem' \in Memory /\ c # s
    BY <2>2, <2>3, <2>4 DEF Core, Forest
  <2>6. Typed'
    BY <1>1, <2>1, <2>5 DEF IInv, Typed
  <2>7. Rooted'
    BY <1>1, <1>2, <2>2, <2>4 DEF Rooted
  <2>8. Works'
    <3>1. /\ Reaches(m, c, HighestFrame) /\ Backs(m, c, kernel_regions)
          /\ \A q \in Spaces : Places(m, spaces[q])
      BY <1>1, <2>2 DEF IInv, Works
    <3>2. \A w \in AllPages : Translate(m2, c, w) = Translate(m, c, w)
      BY <2>4, <2>5
    <3>3. Reaches(m2, c, HighestFrame)
      BY <3>1, <3>2, ReachesKept
    <3>4. Backs(m2, c, kernel_regions)
      BY <3>1, <3>2, PageAreas, BacksKept DEF IInv
    <3>5. ASSUME NEW q \in Spaces PROVE Places(m2, spaces[q])
      <4>1. spaces[q].table \in T /\ spaces[q].regions \subseteq Segments
        BY <2>2, TableOf DEF IInv
      <4>2. PICK e : e = spaces[q]
        OBVIOUS
      <4>5. \A w \in UserPages : w \in AllPages /\ w \notin VmallocPages
        BY PageAreas, SlotAreas
      <4>3. \A w \in UserPages : Translate(m2, e.table, w) = Translate(m, e.table, w)
        BY <2>4, <4>1, <4>2, <4>5
      <4>4. Places(m, e) /\ e.regions \subseteq Segments
        BY <3>1, <4>1, <4>2
      <4> QED
        BY <4>2, <4>3, <4>4, PlacesKept
    <3> QED
      BY <1>1, <1>2, <2>2, <3>3, <3>4, <3>5 DEF Works
  <2> QED
    BY <1>2, <1>3, <2>6, <2>7, <2>8 DEF IInv
<1> QED
  BY <1>4, <1>5

\* A segment is mapped for a process.
LEMMA SegmentIInv ==
    ASSUME IInv, NEW p \in Processes, NEW segment \in Segments, MapInUserspace(p, segment)
    PROVE  IInv'
<1>1. /\ Running /\ initialized /\ ~wild /\ spaces[p] # NoSpace /\ p \in Spaces
      /\ UNCHANGED <<initialized, reference, next_addr, kernel_regions, wild>>
  BY DEF MapInUserspace, Running, Spaces
<1>2. PICK page \in Nat, n \in Nat : /\ page = segment.vaddr \div PAGE_SIZE /\ n = PageCount(segment.size)
                                     /\ \A x \in 0 .. n - 1 : page + x \in UserPages
  BY SegmentAt
<1>3. PICK m, f, c, T, r : /\ m = mem /\ f = free /\ c = reference /\ T = Tables
                           /\ r = spaces[p].table /\ r \in T
  BY <1>1, TableOf DEF IInv
<1>4. PICK s : s = MapPages(m, f, r, page, n, NoFrame)
  OBVIOUS
<1>5. /\ mem' = s.mem /\ free' = s.free /\ panicked' = ~s.ok
      /\ s.ok => spaces' = [spaces EXCEPT ![p].regions = @ \cup {segment}]
      /\ ~s.ok => spaces' = spaces
  BY <1>2, <1>3, <1>4 DEF MapInUserspace, Outcome
<1>6. Core(m, f, c, T)
  BY <1>1, <1>3 DEF IInv, Rooted
<1>a. UserMapped(m, f, c, T, r, page, n, s)
  <2>1. UserRange(page, n)
    BY <1>2 DEF UserRange
  <2> QED
    BY <1>3, <1>4, <1>6, <2>1, CoreUser
<1>7. /\ Core(s.mem, s.free, c, T)
      /\ s \in MapState /\ s.free \subseteq f
      /\ s.ok => \A x \in 0 .. n - 1 : Translate(s.mem, r, page + x) \in Frames
      /\ \A q \in {c} \cup T : \A w \in AllPages : Translate(s.mem, q, w) # Translate(m, q, w)
            => /\ q = r /\ w \in UserPages /\ Translate(s.mem, q, w) \in Frames
               /\ \E x \in 0 .. n - 1 : w = page + x
  BY <1>a DEF UserMapped
<1>8. s.mem \in Memory /\ s.free \subseteq Frames /\ s.ok \in BOOLEAN
  BY <1>7 DEF MapState
<1>9. spaces \in [Processes -> {NoSpace} \cup [table : Frames, regions : SUBSET Segments]]
  BY DEF IInv, Typed
<1>10. /\ spaces[p] \in [table : Frames, regions : SUBSET Segments]
       /\ \A q \in Processes \ {p} : spaces'[q] = spaces[q]
       /\ s.ok => spaces'[p] = [table |-> r, regions |-> spaces[p].regions \cup {segment}]
       /\ ~s.ok => spaces'[p] = spaces[p]
  <2>1. spaces[p] \in [table : Frames, regions : SUBSET Segments]
    BY <1>1, TableOf DEF IInv
  <2>2. s.ok => spaces'[p] = [spaces[p] EXCEPT !.regions = @ \cup {segment}]
    BY <1>5, <1>9
  <2>3. s.ok => spaces'[p] = [table |-> r, regions |-> spaces[p].regions \cup {segment}]
    BY <1>3, <2>1, <2>2
  <2>4. \A q \in Processes \ {p} : spaces'[q] = spaces[q]
    BY <1>5, <1>8, <1>9
  <2> QED
    BY <1>5, <2>1, <2>3, <2>4
<1>11. /\ spaces'[p] \in [table : Frames, regions : SUBSET Segments] /\ spaces'[p] # NoSpace
       /\ spaces'[p].table = r
  BY <1>3, <1>8, <1>10, CallerAssumption
<1>12. Spaces' = Spaces /\ \A q \in Spaces : spaces'[q].table = spaces[q].table
  BY <1>1, <1>3, <1>10, <1>11 DEF Spaces
<1>13. Tables' = Tables
  BY <1>12 DEF Tables
<1>14. OneTable'
  BY <1>12 DEF IInv, OneTable
<1>15. Typed'
  <2>1. spaces' \in [Processes -> {NoSpace} \cup [table : Frames, regions : SUBSET Segments]]
    <3>1. \A q \in Processes : spaces'[q] \in {NoSpace} \cup [table : Frames, regions : SUBSET Segments]
      BY <1>9, <1>10, <1>11
    <3>2. spaces' = [q \in Processes |-> spaces'[q]]
      BY <1>5, <1>8, <1>9
    <3> QED
      BY <3>1, <3>2
  <2> QED
    BY <1>1, <1>5, <1>8, <2>1 DEF IInv, Typed
<1>16. Unbooted' /\ Strayed' /\ RegionsApart'
  BY <1>1 DEF IInv, Unbooted, Strayed, RegionsApart
<1>17. Rooted'
  BY <1>1, <1>3, <1>5, <1>7, <1>13 DEF Rooted
<1>18. Works'
  <2> SUFFICES ASSUME Running' PROVE Works'
    BY DEF Works
  <2>1. s.ok
    BY <1>5, <1>8 DEF Running
  <2>2. /\ Reaches(m, c, HighestFrame) /\ Backs(m, c, kernel_regions)
        /\ \A q \in Spaces : Places(m, spaces[q])
    BY <1>1, <1>3 DEF IInv, Works
  <2>3. PICK m2 : m2 = s.mem
    OBVIOUS
  <2>4. r # c
    BY <1>3, <1>6 DEF Core
  <2>5. \A w \in AllPages : Translate(m2, c, w) = Translate(m, c, w)
    BY <1>7, <2>3, <2>4
  <2>6. Reaches(m2, c, HighestFrame)
    BY <2>2, <2>5, ReachesKept
  <2>7. Backs(m2, c, kernel_regions)
    BY <2>2, <2>5, PageAreas, BacksKept DEF IInv
  <2>8. ASSUME NEW q \in Spaces, q # p PROVE Places(m2, spaces'[q])
    <3>1. q \in Processes /\ spaces[q].table \in T /\ spaces[q].regions \subseteq Segments
      BY <1>3, TableOf DEF IInv
    <3>2. PICK e : e = spaces[q] /\ e = spaces'[q]
      BY <1>10, <2>8, <3>1
    <3>3. e.table # r
      BY <1>1, <1>3, <2>8, <3>2 DEF IInv, OneTable
    <3>4. \A w \in UserPages : Translate(m2, e.table, w) = Translate(m, e.table, w)
      BY <1>7, <2>3, <3>1, <3>2, <3>3, PageAreas
    <3>5. Places(m, e) /\ e.regions \subseteq Segments
      BY <2>2, <2>8, <3>1, <3>2
    <3> QED
      BY <3>2, <3>4, <3>5, PlacesKept
  <2>9. Places(m2, spaces'[p])
    <3>1. /\ spaces'[p].table = r /\ spaces'[p].regions = spaces[p].regions \cup {segment}
          /\ spaces[p].regions \subseteq Segments
      BY <1>10, <2>1
    <3>2. ASSUME NEW g \in spaces'[p].regions, NEW x \in 0 .. PageCount(g.size) - 1
          PROVE  Translate(m2, r, (g.vaddr \div PAGE_SIZE) + x) \in Frames
      <4>1. CASE g = segment
        BY <1>2, <1>7, <2>1, <2>3, <4>1
      <4>2. CASE g \in spaces[p].regions
        <5>1. PICK w : w = (g.vaddr \div PAGE_SIZE) + x
          OBVIOUS
        <5>2. w \in AllPages
          BY <3>1, <4>2, <5>1, SegmentAt, PageAreas
        <5>3. Translate(m, r, w) \in Frames
          BY <1>1, <1>3, <2>2, <4>2, <5>1 DEF Places
        <5>4. Translate(m2, r, w) \in Frames
          BY <1>3, <1>7, <2>3, <5>2, <5>3
        <5> QED
          BY <5>1, <5>4
      <4> QED
        BY <3>1, <4>1, <4>2
    <3>3. ASSUME NEW v \in UserPages, Translate(m2, r, v) # NoFrame
          PROVE  \E g \in spaces'[p].regions : Counted(g, v)
      <4>1. CASE Translate(m2, r, v) = Translate(m, r, v)
        <5>1. \E g \in spaces[p].regions : Counted(g, v)
          BY <1>1, <1>3, <2>2, <3>3, <4>1 DEF Places
        <5> QED
          BY <3>1, <5>1
      <4>2. CASE Translate(m2, r, v) # Translate(m, r, v)
        <5>1. \E x \in 0 .. n - 1 : v = page + x
          BY <1>3, <1>7, <2>3, <4>2, PageAreas
        <5>2. Counted(segment, v)
          BY <1>2, <5>1 DEF Counted
        <5> QED
          BY <3>1, <5>2
      <4> QED
        BY <4>1, <4>2
    <3> QED
      BY <3>1, <3>2, <3>3 DEF Places
  <2>10. \A q \in Spaces' : Places(m2, spaces'[q])
    BY <1>12, <2>8, <2>9
  <2> QED
    BY <1>1, <1>3, <1>5, <2>3, <2>6, <2>7, <2>10 DEF Works
<1> QED
  BY <1>14, <1>15, <1>16, <1>17, <1>18 DEF IInv

\* Every operation of the memory manager keeps IInv.
LEMMA NextIInv == IInv /\ [Next]_vars => IInv'
<1> SUFFICES ASSUME IInv, [Next]_vars PROVE IInv'
  OBVIOUS
<1>1. CASE Initialize
  BY <1>1, InitializeIInv
<1>2. CASE \E size \in VmSizes : AllocateKernelVm(size)
  BY <1>2, AllocateIInv
<1>3. CASE \E d \in Devices : MapPhysicalToKernelVm(d)
  BY <1>3, DeviceIInv
<1>4. CASE \E p \in Processes : CreatePageTable(p)
  BY <1>4, CreateIInv
<1>5. CASE \E p \in Processes, s \in Segments : MapInUserspace(p, s)
  BY <1>5, SegmentIInv
<1>6. CASE \E p \in Processes : \E v \in RegionPages \cup {Max(UserPages)} : PageFault(p, v)
  BY <1>6, FaultIInv
<1>7. CASE UNCHANGED vars
  <2>1. UNCHANGED <<initialized, mem, free, reference, next_addr, kernel_regions, spaces, panicked, wild>>
    BY <1>7 DEF vars
  <2>2. Spaces' = Spaces /\ Tables' = Tables /\ OneTable'
    BY <2>1, SameSpaces
  <2> QED
    BY <2>1, <2>2 DEF IInv, Typed, Unbooted, Strayed, Rooted, RegionsApart, Works, Running
<1> QED
  BY <1>1, <1>2, <1>3, <1>4, <1>5, <1>6, <1>7 DEF Next, Operation

\* Roots and the reference table in an initialised state.
LEMMA RootsAre ==
    ASSUME IInv
    PROVE  /\ Roots = {reference} \cup Tables
           /\ initialized => reference \in Frames /\ reference \notin free
           /\ initialized /\ ~wild => Core(mem, free, reference, Tables)
           /\ ~initialized => Spaces = {} /\ reference = NoFrame
           /\ Spaces # {} => initialized /\ ~wild
<1>1. Roots = {reference} \cup Tables
  BY DEF Roots, Tables
<1>2. ASSUME initialized, ~wild PROVE reference \in Frames /\ reference \notin free
                                      /\ Core(mem, free, reference, Tables)
  <2>1. PICK R : R = {reference} \cup Tables /\ Forest(mem, free, R, UserSlots, PhysSlots)
                 /\ Core(mem, free, reference, Tables)
    BY <1>2 DEF IInv, Rooted, Core
  <2>2. reference \in R /\ R \subseteq Frames
    BY <2>1 DEF Forest
  <2>3. 1 \in 1 .. Levels
    BY LevelsAssumption
  <2>4. PICK w : w \in AllPages
    <3>1. Span[Levels] \in Nat \ {0}
      BY Spans, LevelsAssumption
    <3> QED
      BY <3>1 DEF AllPages
  <2>5. TablesOn(mem, reference, w)[1] \notin free
    BY <2>1, <2>2, <2>3, <2>4 DEF Forest, NotFree
  <2>6. TablesOn(mem, reference, w)[1] = reference
    BY Walk
  <2> QED
    BY <2>1, <2>2, <2>5, <2>6
<1>3. /\ ~initialized => Spaces = {} /\ reference = NoFrame
      /\ wild => Spaces = {} /\ reference \in Frames /\ reference \notin free
  BY DEF IInv, Unbooted, Strayed
<1> QED
  BY <1>1, <1>2, <1>3 DEF IInv, Typed

\* IInv gives the type invariant.
LEMMA IInvTypeOK == IInv => TypeOK
<1> SUFFICES ASSUME IInv PROVE TypeOK
  OBVIOUS
<1>1. mem \in [Frames -> [0 .. Entries - 1 ->
                    [flags : SUBSET EntryFlags, frame : Nat \cup {NoFrame}]]]
  <2>1. mem \in [Frames -> [Slots -> Entry]]
    BY DEF IInv, Typed, Memory
  <2>2. Entry \subseteq [flags : SUBSET EntryFlags, frame : Nat \cup {NoFrame}]
    BY DEF Entry
  <2>3. PICK E : E = [flags : SUBSET EntryFlags, frame : Nat \cup {NoFrame}]
    OBVIOUS
  <2>4. mem \in [Frames -> [Slots -> E]]
    <3> HIDE DEF Entry, Slots
    <3> QED
      BY <2>1, <2>2, <2>3
  <2> QED
    BY <2>3, <2>4 DEF Slots
<1>2. reference \in (Frames \ free) \cup {NoFrame}
  BY RootsAre DEF IInv, Typed
<1>3. ASSUME NEW p \in Processes, spaces[p] # NoSpace
      PROVE  spaces[p].table \in Frames \ free /\ spaces[p].regions \subseteq Segments
  <2>1. p \in Spaces
    BY <1>3 DEF Spaces
  <2>2. spaces[p].table \in Tables /\ spaces[p].table \in Frames /\ spaces[p].regions \subseteq Segments
    BY <2>1, TableOf DEF IInv
  <2>3. PICK R, t : /\ R = {reference} \cup Tables /\ Forest(mem, free, R, UserSlots, PhysSlots)
                    /\ t = spaces[p].table /\ t \in R
    BY <2>1, <2>2, RootsAre DEF Core
  <2>4. 1 \in 1 .. Levels
    BY LevelsAssumption
  <2>5. PICK w : w \in AllPages
    <3>1. Span[Levels] \in Nat \ {0}
      BY Spans, LevelsAssumption
    <3> QED
      BY <3>1 DEF AllPages
  <2>6. TablesOn(mem, t, w)[1] \notin free
    BY <2>3, <2>4, <2>5 DEF Forest, NotFree
  <2>7. TablesOn(mem, t, w)[1] = t
    BY Walk
  <2> QED
    BY <2>2, <2>3, <2>6, <2>7
<1> QED
  BY <1>1, <1>2, <1>3 DEF IInv, Typed, TypeOK

\* The shared kernel half, as the run states it.
LEMMA IInvKernelShared == IInv => KernelShared
<1> SUFFICES ASSUME IInv, ~wild, NEW p \in Spaces, NEW i \in PhysP4 .. Entries - 1,
                    NEW e, e = mem[spaces[p].table][i]
             PROVE  \/ e = mem[reference][i]
                    \/ VmallocStartP4 <= i /\ i < VmallocEndP4 /\ ~Present(e)
  BY DEF KernelShared
<1>1. spaces[p].table \in Tables /\ Core(mem, free, reference, Tables)
  BY RootsAre, TableOf DEF IInv
<1>2. i \in Slots \ UserSlots
  BY SlotAreas
<1>3. e = mem[reference][i] \/ (i \in VmallocSlots /\ ~Present(e))
  BY <1>1, <1>2 DEF Core, Shared
<1>4. i \in VmallocSlots => VmallocStartP4 <= i /\ i < VmallocEndP4
  BY LayoutAssumption DEF VmallocSlots
<1> QED
  BY <1>3, <1>4

\* IInv gives PhysicalReachable: the tables of the processes share the entries
\* of physical memory with the reference table.
LEMMA IInvPhysicalReachable == IInv => PhysicalReachable
<1> SUFFICES ASSUME IInv, Running, NEW q \in Roots, NEW f \in 0 .. HighestFrame - 1
             PROVE  Translate(mem, q, PhysicalToVirtual(f)) = f
  BY DEF PhysicalReachable
<1>1. PICK w : w = PhysicalToVirtual(f) /\ w \in AllPages /\ Index(w)[1] \in PhysSlots
  BY PhysicalPages
<1>2. Translate(mem, reference, w) = f
  BY <1>1 DEF IInv, Works, Reaches
<1>3. Core(mem, free, reference, Tables) /\ (q = reference \/ q \in Tables)
  BY RootsAre DEF Running
<1>4. CASE q \in Tables
  <2>1. Index(w)[1] \in Slots \ UserSlots /\ Index(w)[1] \notin VmallocSlots
    BY <1>1, SlotAreas
  <2>2. mem[q][Index(w)[1]] = mem[reference][Index(w)[1]]
    BY <1>3, <1>4, <2>1 DEF Core, Shared
  <2>3. PICK m, g, c, T, t : /\ m = mem /\ g = free /\ c = reference /\ T = Tables /\ t = q /\ t \in T
                             /\ Core(m, g, c, T) /\ m[t][Index(w)[1]] = m[c][Index(w)[1]]
    BY <1>3, <1>4, <2>2
  <2>4. Translate(m, t, w) = Translate(m, c, w)
    BY <1>1, <2>3, SharedTranslate
  <2> QED
    BY <1>1, <1>2, <2>3, <2>4
<1> QED
  BY <1>1, <1>2, <1>3, <1>4

\* IInv gives FaultResolves: the fault copies every vmalloc entry, and below it
\* the tables are shared.
LEMMA IInvFaultResolves == IInv => FaultResolves
<1> SUFFICES ASSUME IInv, Running, NEW p \in Spaces, NEW v \in RegionPages
             PROVE  Translate(VmallocFaulted(p), spaces[p].table, v) = Translate(mem, reference, v)
  BY DEF FaultResolves
<1>1. v \in VmallocPages
  <2>1. PICK r \in kernel_regions : v \in r.vaddr .. r.vaddr + r.page_count - 1
    BY DEF RegionPages, PagesOfRegion
  <2>2. /\ r.vaddr \in Nat /\ r.page_count \in Nat \ {0}
        /\ \A x \in 0 .. r.page_count - 1 : r.vaddr + x \in VmallocPages
    BY RegionAt DEF IInv
  <2>3. PICK x \in 0 .. r.page_count - 1 : v = r.vaddr + x
    <3>1. PICK a \in Nat, n \in Nat : a = r.vaddr /\ n = r.page_count
      BY <2>2
    <3>2. v \in a .. a + n - 1
      BY <2>1, <3>1
    <3>3. PICK x \in 0 .. n - 1 : v = a + x
      BY <3>2
    <3> QED
      BY <3>1, <3>3
  <2> QED
    BY <2>2, <2>3
<1>2. PICK m, f, c, T, m2, s : /\ m = mem /\ f = free /\ c = reference /\ T = Tables
                               /\ m2 = VmallocFaulted(p) /\ s = spaces[p].table /\ s \in T
  BY TableOf DEF IInv
<1>3. Core(m, f, c, T) /\ Faulted(m, c, s, m2)
  BY <1>2, RootsAre DEF Running, Faulted, VmallocFaulted
<1>4. \A w \in VmallocPages : Translate(m2, s, w) = Translate(m, c, w)
  BY <1>2, <1>3, CoreFault
<1> QED
  BY <1>1, <1>2, <1>4

\* The first page of the byte before size, as the properties compute it.
LEMMA LastByte ==
    ASSUME NEW size \in Nat, NEW i \in 0 .. (size - 1) \div PAGE_SIZE
    PROVE  i \in 0 .. PageCount(size) - 1
<1>1. PICK e \in Nat \ {0} : e = PAGE_SIZE
  BY PageSizeAssumption
<1>2. size # 0
  <2> SUFFICES ASSUME size = 0 PROVE FALSE
    OBVIOUS
  <2>1. (size - 1) \div e < 0
    OBVIOUS
  <2> QED
    BY <1>1, <2>1
<1>3. PICK b \in Nat : size = b + 1 /\ size - 1 = b
  BY <1>2
<1>4. /\ b \div e \in Nat /\ b % e \in 0 .. e - 1 /\ b = e * (b \div e) + (b % e)
      /\ size \div e \in Nat /\ size % e \in 0 .. e - 1 /\ size = e * (size \div e) + (size % e)
  BY Division
<1>5. PICK y \in Nat, z \in Nat : y = b \div e /\ z = size \div e
  BY <1>4
<1>6. y <= z
  <2> SUFFICES ASSUME z < y PROVE FALSE
    BY <1>5
  <2>1. PICK d \in Nat : y = z + 1 + d
    OBVIOUS
  <2>2. e * y = e * z + e + e * d /\ e * d \in Nat /\ e * z \in Nat
    BY <2>1
  <2> QED
    BY <1>3, <1>4, <1>5, <2>2
<1> QED
  BY <1>1, <1>3, <1>5, <1>6 DEF PageCount

\* IInv gives RegionsBacked.
LEMMA IInvRegionsBacked == IInv => RegionsBacked
<1> SUFFICES ASSUME IInv, Running PROVE RegionsBacked
  BY DEF RegionsBacked
<1>1. ASSUME NEW r \in kernel_regions, NEW i \in 0 .. (r.size - 1) \div PAGE_SIZE,
             NEW f, f = Translate(mem, reference, r.vaddr + i)
      PROVE  IF r.paddr = NoFrame THEN f \in Frames ELSE f = r.paddr + i
  <2>1. r.size \in Nat /\ r.page_count = PageCount(r.size)
    BY RegionAt DEF IInv, RegionsApart
  <2>2. i \in 0 .. r.page_count - 1
    <3>1. PICK n \in Nat : n = r.size
      BY <2>1
    <3> QED
      BY <1>1, <2>1, <3>1, LastByte
  <2>3. Filled(mem, reference, r.vaddr, r.paddr, r.page_count)
    BY DEF IInv, Works, Backs
  <2> QED
    BY <1>1, <2>2, <2>3 DEF Filled
<1>2. ASSUME NEW r \in kernel_regions, NEW q \in kernel_regions, r # q
      PROVE  PagesOfRegion(r) \cap PagesOfRegion(q) = {}
  <2>1. /\ r.vaddr \in Nat /\ r.page_count \in Nat \ {0} /\ q.vaddr \in Nat /\ q.page_count \in Nat \ {0}
    BY RegionAt DEF IInv
  <2>2. r.vaddr + r.page_count <= q.vaddr \/ q.vaddr + q.page_count <= r.vaddr
    BY <1>2 DEF IInv, RegionsApart
  <2> QED
    BY <2>1, <2>2 DEF PagesOfRegion
<1> QED
  BY <1>1, <1>2 DEF RegionsBacked

\* Multiplication distributes, as a fact of its own.
LEMMA Distribute ==
    ASSUME NEW a \in Nat, NEW b \in Nat, NEW c \in Nat
    PROVE  a * (b + c) = a * b + a * c
  OBVIOUS

\* The pages counted for a segment reach its last one, unless it spills.
LEMMA SegmentCovers ==
    ASSUME NEW s \in Segments, NEW v \in FirstPage(s) .. LastPage(s)
    PROVE  Counted(s, v) \/ (Spills(s) /\ v = LastPage(s))
<1>1. PICK e \in Nat \ {0}, n \in Nat, d \in Nat : e = PAGE_SIZE /\ n = s.size /\ d = s.vaddr
  BY PageSizeAssumption, CallerAssumption
<1>2. PICK a \in Nat, r \in 0 .. e - 1 : a = d \div e /\ r = d % e /\ d = e * a + r
  <2>1. d \div e \in Nat /\ d % e \in 0 .. e - 1 /\ d = e * (d \div e) + (d % e)
    BY Division
  <2> QED
    BY <2>1
<1>3. PICK q \in Nat, t \in 0 .. e - 1 : q = n \div e /\ t = n % e /\ n = e * q + t
  <2>1. n \div e \in Nat /\ n % e \in 0 .. e - 1 /\ n = e * (n \div e) + (n % e)
    BY Division
  <2> QED
    BY <2>1
<1>4. v \in a .. (d + n - 1) \div e
  BY <1>1, <1>2 DEF FirstPage, LastPage
<1>5. PICK b \in Nat, h \in Nat : b = e * a /\ h = e * q
  BY <1>2, <1>3
<1>6. e * (a + q) = b + h
  BY <1>5, Distribute
<1>7. ASSUME NEW x \in 0 .. q, v = a + x PROVE Counted(s, v)
  <2>1. PageCount(s.size) = q + 1 /\ s.vaddr \div PAGE_SIZE = a
    BY <1>1, <1>2, <1>3 DEF PageCount
  <2>2. x \in 0 .. PageCount(s.size) - 1
    BY <2>1
  <2> QED
    BY <1>7, <2>1, <2>2 DEF Counted
<1>8. CASE r + t = 0
  <2>1. r = 0 /\ t = 0 /\ d + n - 1 = b + h - 1
    BY <1>2, <1>3, <1>5, <1>8
  <2>2. CASE a + q = 0
    <3>1. a = 0 /\ q = 0
      BY <2>2
    <3>2. b + h = 0
      BY <1>6, <3>1
    <3>3. d + n - 1 = 0 - 1
      BY <1>5, <2>1, <3>2
    <3>4. (0 - 1) \div e < 0
      OBVIOUS
    <3>5. (d + n - 1) \div e < 0
      BY <3>3, <3>4
    <3> QED
      BY <1>4, <3>5
  <2>3. CASE a + q # 0
    <3>1. PICK g \in Nat : a + q = g + 1
      BY <2>3
    <3>2. e * (g + 1) = e * g + e /\ e * g \in Nat
      BY Distribute
    <3>3. PICK c \in Nat, z \in 0 .. e - 1 : c = d + n - 1 /\ z = e - 1 /\ c = e * g + z
      <4>1. d + n - 1 = e * g + (e - 1)
        BY <1>6, <2>1, <3>1, <3>2
      <4> QED
        BY <1>1, <3>2, <4>1
    <3>4. g = c \div e
      BY <3>3, Division
    <3>5. v \in a .. g
      BY <1>4, <3>3, <3>4
    <3>6. PICK x \in 0 .. q : v = a + x
      BY <3>1, <3>5
    <3> QED
      BY <1>7, <3>6
  <2> QED
    BY <2>2, <2>3
<1>9. CASE r + t \in 1 .. e
  <2>1. PICK z \in 0 .. e - 1 : z = r + t - 1
    BY <1>9
  <2>2. PICK c \in Nat, g \in Nat : c = d + n - 1 /\ g = a + q /\ c = e * g + z
    BY <1>2, <1>3, <1>5, <1>6, <1>9, <2>1
  <2>3. g = c \div e
    <3>1. \A y \in Nat, x \in 0 .. e - 1 : c = e * y + x => y = c \div e /\ x = c % e
      BY Division
    <3> QED
      BY <2>2, <3>1
  <2>4. v \in a .. g
    BY <1>4, <2>2, <2>3
  <2>5. PICK x \in 0 .. q : v = a + x
    BY <2>2, <2>4
  <2> QED
    BY <1>7, <2>5
<1>10. CASE r + t > e
  <2>1. PICK z \in 0 .. e - 1 : z = r + t - 1 - e
    BY <1>10
  <2>2. e * (a + q + 1) = b + h + e
    <3>1. PICK y \in Nat : y = a + q
      OBVIOUS
    <3>2. e * (y + 1) = e * y + e
      BY Distribute
    <3> QED
      BY <1>6, <3>1, <3>2
  <2>3. PICK c \in Nat, g \in Nat : c = d + n - 1 /\ g = a + q + 1 /\ c = e * g + z
    <3>1. PICK g \in Nat : g = a + q + 1 /\ e * g = b + h + e
      BY <2>2
    <3>2. d + n - 1 = e * g + z /\ d + n - 1 \in Nat
      BY <1>2, <1>3, <1>5, <1>10, <2>1, <3>1
    <3> QED
      BY <3>1, <3>2
  <2>4. g = c \div e
    <3>1. \A y \in Nat, x \in 0 .. e - 1 : c = e * y + x => y = c \div e /\ x = c % e
      BY Division
    <3> QED
      BY <2>3, <3>1
  <2>5. v \in a .. g
    BY <1>4, <2>3, <2>4
  <2>6. CASE v = g
    BY <1>1, <1>2, <1>3, <1>10, <2>3, <2>4, <2>6 DEF Spills, LastPage
  <2>7. CASE v # g
    <3>1. PICK x \in 0 .. q : v = a + x
      BY <2>3, <2>5, <2>7
    <3> QED
      BY <1>7, <3>1
  <2> QED
    BY <2>6, <2>7
<1> QED
  BY <1>2, <1>3, <1>8, <1>9, <1>10

\* They go no further than the byte after the segment.
LEMMA SegmentPast ==
    ASSUME NEW s \in Segments, NEW v, Counted(s, v)
    PROVE  v \in FirstPage(s) .. (s.vaddr + s.size) \div PAGE_SIZE
<1>1. PICK e \in Nat \ {0}, n \in Nat, d \in Nat : e = PAGE_SIZE /\ n = s.size /\ d = s.vaddr
  BY PageSizeAssumption, CallerAssumption
<1>2. PICK a \in Nat, r \in 0 .. e - 1 : a = d \div e /\ d = e * a + r
  <2>1. d \div e \in Nat /\ d % e \in 0 .. e - 1 /\ d = e * (d \div e) + (d % e)
    BY Division
  <2> QED
    BY <2>1
<1>3. PICK q \in Nat, t \in 0 .. e - 1 : q = n \div e /\ n = e * q + t
  <2>1. n \div e \in Nat /\ n % e \in 0 .. e - 1 /\ n = e * (n \div e) + (n % e)
    BY Division
  <2> QED
    BY <2>1
<1>4. PICK g \in Nat, z \in 0 .. e - 1, c \in Nat : g = c \div e /\ c = d + n /\ c = e * g + z
  <2>1. PICK c \in Nat : c = d + n
    OBVIOUS
  <2>2. c \div e \in Nat /\ c % e \in 0 .. e - 1 /\ c = e * (c \div e) + (c % e)
    BY Division
  <2> QED
    BY <2>1, <2>2
<1>5. a + q <= g
  <2> SUFFICES ASSUME g < a + q PROVE FALSE
    OBVIOUS
  <2>1. PICK y \in Nat : y = a + q
    OBVIOUS
  <2>2. PICK k \in Nat : y = g + (1 + k)
    BY <2>1
  <2>3. e * (a + q) = e * a + e * q /\ e * a \in Nat /\ e * q \in Nat
    BY Distribute
  <2>4. e * y = e * g + e * (1 + k) /\ e * g \in Nat /\ e * (1 + k) = e * 1 + e * k /\ e * k \in Nat
    BY <2>2, Distribute
  <2> QED
    BY <1>2, <1>3, <1>4, <2>1, <2>3, <2>4
<1>6. PICK x \in 0 .. q : v = a + x
  BY <1>1, <1>2, <1>3 DEF Counted, PageCount
<1>7. v \in a .. g
  BY <1>5, <1>6
<1> QED
  BY <1>1, <1>2, <1>4, <1>7 DEF FirstPage

\* IInv gives SegmentsBacked: what is mapped in the user half is what was
\* counted from the sizes of the segments.
LEMMA IInvSegmentsBacked == IInv => SegmentsBacked
<1> SUFFICES ASSUME IInv, Running, NEW p \in Spaces
             PROVE  /\ \A s \in spaces[p].regions : \A v \in FirstPage(s) .. LastPage(s) :
                          \/ Translate(mem, spaces[p].table, v) \in Frames
                          \/ Spills(s) /\ v = LastPage(s)
                    /\ \A v \in UserPages : Translate(mem, spaces[p].table, v) # NoFrame =>
                          \E s \in spaces[p].regions :
                              v \in FirstPage(s) .. (s.vaddr + s.size) \div PAGE_SIZE
  BY DEF SegmentsBacked
<1>1. Places(mem, spaces[p]) /\ spaces[p].regions \subseteq Segments
  BY TableOf DEF IInv, Works
<1>2. ASSUME NEW s \in spaces[p].regions, NEW v \in FirstPage(s) .. LastPage(s)
      PROVE  Translate(mem, spaces[p].table, v) \in Frames \/ (Spills(s) /\ v = LastPage(s))
  <2>1. Counted(s, v) \/ (Spills(s) /\ v = LastPage(s))
    BY <1>1, SegmentCovers
  <2>2. Counted(s, v) => Translate(mem, spaces[p].table, v) \in Frames
    BY <1>1 DEF Places, Counted
  <2> QED
    BY <2>1, <2>2
<1>3. ASSUME NEW v \in UserPages, Translate(mem, spaces[p].table, v) # NoFrame
      PROVE  \E s \in spaces[p].regions : v \in FirstPage(s) .. (s.vaddr + s.size) \div PAGE_SIZE
  <2>1. PICK s \in spaces[p].regions : Counted(s, v)
    BY <1>1, <1>3 DEF Places
  <2> QED
    BY <1>1, <2>1, SegmentPast
<1> QED
  BY <1>2, <1>3

\* One page for each frame.
LEMMA OneToOne ==
    ASSUME NEW S, IsFiniteSet(S), NEW U, NEW g \in [S -> U],
           \A x, y \in S : g[x] = g[y] => x = y, \A u \in U : \E x \in S : u = g[x]
    PROVE  Cardinality(U) = Cardinality(S)
<1>1. g \in Injection(S, U)
  BY DEF Injection, IsInjective
<1>2. g \in Surjection(S, U)
  BY DEF Surjection
<1> QED
  BY <1>1, <1>2, FS_Surjection

\* The frames that the pages S of root q are mapped to.
Frame(m, q, S) == {Translate(m, q, v) : v \in S} \cap Frames

\* Frames of pages that are a root's own are neither free nor tables, and
\* not those of another root's own pages.
LEMMA OwnFrames ==
    ASSUME NEW m, NEW f, NEW R, NEW D, Apart(m, f, R, D), NEW q \in R, NEW S, S \subseteq AllPages,
           \A v \in S : v \in D[q]
    PROVE  /\ Frame(m, q, S) \cap f = {}
           /\ \A r \in R : Frame(m, q, S) \cap TableFrames(m, r) = {}
           /\ \A r \in R : \A U \in SUBSET AllPages : (\A v \in U : v \in D[r]) /\ q # r
                 => Frame(m, q, S) \cap Frame(m, r, U) = {}
<1>1. ASSUME NEW a \in Frame(m, q, S)
      PROVE  \E v \in S : v \in AllPages /\ v \in D[q] /\ a = Translate(m, q, v) /\ a \in Frames
  BY DEF Frame
<1>2. Frame(m, q, S) \cap f = {}
  BY <1>1 DEF Apart
<1>3. ASSUME NEW r \in R, NEW a \in Frame(m, q, S), a \in TableFrames(m, r) PROVE FALSE
  <2>1. PICK v \in S : v \in AllPages /\ v \in D[q] /\ a = Translate(m, q, v) /\ a \in Frames
    BY <1>1, <1>3
  <2>2. PICK w \in AllPages, k \in 1 .. Levels : a = TablesOn(m, r, w)[k]
    BY <1>3 DEF TableFrames
  <2>3. \A u \in R : \A x \in AllPages : \A j \in 1 .. Levels :
           TablesOn(m, u, x)[j] # Translate(m, q, v)
    BY <2>1 DEF Apart
  <2> QED
    BY <2>1, <2>2, <2>3
<1>4. ASSUME NEW r \in R, NEW U \in SUBSET AllPages, \A v \in U : v \in D[r], q # r,
             NEW a \in Frame(m, q, S), a \in Frame(m, r, U)
      PROVE  FALSE
  <2>1. PICK v \in S : v \in AllPages /\ v \in D[q] /\ a = Translate(m, q, v) /\ a \in Frames
    BY <1>1, <1>4
  <2>2. PICK w \in U : w \in AllPages /\ w \in D[r] /\ a = Translate(m, r, w)
    BY <1>4 DEF Frame
  <2>3. Translate(m, q, v) \in Frames /\ Translate(m, r, w) = Translate(m, q, v)
    BY <2>1, <2>2
  <2>4. r = q
    BY <2>1, <2>2, <2>3 DEF Apart
  <2> QED
    BY <1>4, <2>4
<1> QED
  BY <1>2, <1>3, <1>4

\* And each is the frame of one page.
LEMMA OwnPages ==
    ASSUME NEW m, NEW f, NEW R, NEW D, Apart(m, f, R, D), NEW q \in R,
           \A v \in UserPages : v \in D[q]
    PROVE  Cardinality(Frame(m, q, UserPages)) =
               Cardinality({v \in UserPages : Translate(m, q, v) \in Frames})
<1> DEFINE S == {v \in UserPages : Translate(m, q, v) \in Frames}
           U == Frame(m, q, UserPages)
           g == [v \in S |-> Translate(m, q, v)]
<1>1. IsFiniteSet(S)
  <2>1. PhysP4 \in Nat /\ Span[Levels - 1] \in Nat
    BY LayoutAssumption, Spans, LevelsAssumption
  <2>2. PageOf(PhysP4) \in Nat
    BY <2>1 DEF PageOf
  <2>3. PICK a \in Int, b \in Int : UserPages = a .. b
    BY <2>2 DEF UserPages
  <2>4. IsFiniteSet(UserPages)
    BY <2>3, FS_Interval
  <2>5. S \in SUBSET UserPages
    OBVIOUS
  <2> QED
    BY <2>4, <2>5, FS_Subset
<1>2. g \in [S -> U]
  BY DEF Frame
<1>3. \A x, y \in S : g[x] = g[y] => x = y
  <2> SUFFICES ASSUME NEW x \in S, NEW y \in S, Translate(m, q, x) = Translate(m, q, y) PROVE x = y
    OBVIOUS
  <2>1. x \in AllPages /\ y \in AllPages /\ x \in D[q] /\ y \in D[q] /\ Translate(m, q, y) \in Frames
    BY PageAreas
  <2> QED
    BY <2>1 DEF Apart
<1>4. \A u \in U : \E x \in S : u = g[x]
  BY DEF Frame
<1> HIDE DEF S, U, g
<1>5. Cardinality(U) = Cardinality(S)
  BY <1>1, <1>2, <1>3, <1>4, OneToOne
<1> QED
  BY <1>5 DEF S, U

\* IInv gives FramesHaveOneUse.
LEMMA IInvFramesHaveOneUse == IInv => FramesHaveOneUse
<1> SUFFICES ASSUME IInv, initialized, ~wild PROVE FramesHaveOneUse
  BY DEF FramesHaveOneUse
<1>1. PICK c, T, m, f : c = reference /\ T = Tables /\ m = mem /\ f = free /\ Core(m, f, c, T)
  BY RootsAre
<1>2. PICK R, D : R = {c} \cup T /\ D = Owned(c, T) /\ R = Roots /\ Apart(m, f, R, D)
                  /\ Forest(m, f, R, UserSlots, PhysSlots)
  BY <1>1, RootsAre DEF Core
<1>3. c \in R /\ \A v \in VmallocPages : v \in D[c]
  BY <1>2 DEF Owned
<1>4. \A q \in R : \A v \in UserPages : v \in D[q]
  BY <1>2 DEF Owned
<1>5. UserPages \in SUBSET AllPages /\ VmallocPages \in SUBSET AllPages
  BY PageAreas
<1>6. ASSUME NEW p \in Spaces PROVE spaces[p].table \in R /\ spaces[p].table # c
  <2>1. spaces[p].table \in T
    BY <1>1, TableOf DEF IInv
  <2> QED
    BY <1>1, <1>2, <2>1 DEF Core
<1> DEFINE tables == UNION {TableFrames(m, r) : r \in R}
           kernel == Frame(m, c, VmallocPages)
           user(p) == Frame(m, spaces[p].table, UserPages)
           uses == <<f, tables, kernel>>
<1>7. f \cap tables = {}
  <2> SUFFICES ASSUME NEW r \in R, NEW a \in TableFrames(m, r), a \in f PROVE FALSE
    OBVIOUS
  <2>1. PICK w \in AllPages, k \in 1 .. Levels : a = TablesOn(m, r, w)[k]
    BY DEF TableFrames
  <2> QED
    BY <1>2, <2>1 DEF Forest, NotFree
<1>8. kernel \cap f = {} /\ kernel \cap tables = {}
  <2>1. kernel \cap f = {} /\ \A r \in R : kernel \cap TableFrames(m, r) = {}
    BY <1>2, <1>3, <1>5, OwnFrames
  <2> QED
    BY <2>1
<1>9. \A i, j \in 1 .. 3 : i # j => uses[i] \cap uses[j] = {}
  <2> HIDE DEF tables, kernel
  <2>1. uses[1] = f /\ uses[2] = tables /\ uses[3] = kernel
    OBVIOUS
  <2>2. \A i \in 1 .. 3 : i = 1 \/ i = 2 \/ i = 3
    OBVIOUS
  <2> QED
    BY <1>7, <1>8, <2>1, <2>2
<1>10. ASSUME NEW p \in Spaces PROVE user(p) \cap (f \cup tables \cup kernel) = {}
  <2>1. PICK q \in R : q = spaces[p].table /\ q # c
    BY <1>6
  <2>2. /\ Frame(m, q, UserPages) \cap f = {}
        /\ \A r \in R : Frame(m, q, UserPages) \cap TableFrames(m, r) = {}
        /\ \A r \in R : \A U \in SUBSET AllPages : (\A v \in U : v \in D[r]) /\ q # r
              => Frame(m, q, UserPages) \cap Frame(m, r, U) = {}
    BY <1>2, <1>4, <1>5, OwnFrames
  <2>3. Frame(m, q, UserPages) \cap kernel = {}
    BY <1>3, <1>5, <2>1, <2>2
  <2> QED
    BY <2>1, <2>2, <2>3
<1>11. ASSUME NEW p \in Spaces, NEW o \in Spaces, p # o PROVE user(p) \cap user(o) = {}
  <2>1. PICK q \in R, r \in R : q = spaces[p].table /\ r = spaces[o].table /\ q # r
    BY <1>6, <1>11 DEF IInv, OneTable
  <2>2. \A U \in SUBSET AllPages : (\A v \in U : v \in D[r]) /\ q # r
              => Frame(m, q, UserPages) \cap Frame(m, r, U) = {}
    BY <1>2, <1>4, <1>5, OwnFrames
  <2> QED
    BY <1>4, <1>5, <2>1, <2>2
<1>12. ASSUME NEW p \in Spaces
       PROVE  Cardinality(user(p)) =
                  Cardinality({v \in UserPages : Translate(m, spaces[p].table, v) \in Frames})
  <2>1. PICK q \in R : q = spaces[p].table
    BY <1>6
  <2>2. Cardinality(Frame(m, q, UserPages)) =
               Cardinality({v \in UserPages : Translate(m, q, v) \in Frames})
    BY <1>2, <1>4, OwnPages
  <2> QED
    BY <2>1, <2>2
<1>13. /\ tables = UNION {TableFrames(mem, r) : r \in Roots}
       /\ kernel = Backing(reference, VmallocPages) \cap Frames
       /\ \A p \in Spaces : user(p) = Backing(spaces[p].table, UserPages) \cap Frames
  BY <1>1, <1>2 DEF Frame, Backing
<1> DEFINE t == UNION {TableFrames(mem, r) : r \in Roots}
           k == Backing(reference, VmallocPages) \cap Frames
           u(p) == Backing(spaces[p].table, UserPages) \cap Frames
           a == <<free, t, k>>
<1> HIDE DEF tables, kernel, user
<1>14. tables = t /\ kernel = k /\ uses = a /\ \A p \in Spaces : user(p) = u(p)
  BY <1>1, <1>13
<1> HIDE DEF t, k, u, uses, a
<1>15. \A i, j \in 1 .. 3 : i # j => a[i] \cap a[j] = {}
  BY <1>9, <1>14
<1>16. \A p \in Spaces : u(p) \cap (free \cup t \cup k) = {}
  BY <1>1, <1>10, <1>14
<1>17. \A p, q \in Spaces : p # q => u(p) \cap u(q) = {}
  BY <1>11, <1>14
<1>18. \A p \in Spaces : Cardinality(u(p)) =
          Cardinality({v \in UserPages : Translate(mem, spaces[p].table, v) \in Frames})
  BY <1>1, <1>12, <1>14
<1>19. /\ \A i, j \in 1 .. 3 : i # j => a[i] \cap a[j] = {}
       /\ \A p \in Spaces : u(p) \cap (free \cup t \cup k) = {}
       /\ \A p, q \in Spaces : p # q => u(p) \cap u(q) = {}
       /\ \A p \in Spaces : Cardinality(u(p)) =
              Cardinality({v \in UserPages : Translate(mem, spaces[p].table, v) \in Frames})
  BY <1>15, <1>16, <1>17, <1>18
<1> QED
  BY <1>19, Zenon DEF FramesHaveOneUse, t, k, u, a
-----------------------------------------------------------------------------
\* IInv is an invariant of the memory manager: of initialize, the two kernel
\* allocations, create_page_table_for_process, map_in_userspace and the page
\* fault handler in any order, with any of them running out of frames.
THEOREM MemoryManagerInvariant == Spec => []IInv
<1>1. Init => IInv
  BY InitIInv
<1>2. IInv /\ [Next]_vars => IInv'
  BY NextIInv
<1> QED
  BY <1>1, <1>2, PTL DEF Spec

\* The state keeps its types; in particular neither the reference table nor the
\* table of a process is ever a free frame.
THEOREM MemoryManagerTypeOK == Spec => []TypeOK
  BY MemoryManagerInvariant, IInvTypeOK, PTL

\* Every process sees one kernel: create_page_table_for_process copies the top
\* level of the reference table, and whatever map_region adds to the reference
\* later shows in all the copies, but for vmalloc entries not yet copied.
THEOREM OneKernel == Spec => []KernelShared
  BY MemoryManagerInvariant, IInvKernelShared, PTL

\* Whichever process runs, KernelPhysicalMemory::translate names the frame it is
\* asked for: no later mapping ever disturbs the map of physical memory.
THEOREM PhysicalMemory == Spec => []PhysicalReachable
  BY MemoryManagerInvariant, IInvPhysicalReachable, PTL

\* What allocate_kernel_vm and map_physical_to_kernel_vm returned stays mapped
\* to its own frames, and no two regions overlap.
THEOREM KernelRegions == Spec => []RegionsBacked
  BY MemoryManagerInvariant, IInvRegionsBacked, PTL

\* Wherever the segments of a program start and end and whichever pages they
\* share, map_in_userspace leaves each of their pages mapped, but for the last
\* page of a segment that spills into it, and nothing else in the user half but
\* perhaps the page of the byte after a segment.
THEOREM UserSegments == Spec => []SegmentsBacked
  BY MemoryManagerInvariant, IInvSegmentsBacked, PTL

\* No frame is used twice: it is free, or a table, or kernel memory, or memory
\* of one process at one page, also after an allocation failed half way.
THEOREM OneUse == Spec => []FramesHaveOneUse
  BY MemoryManagerInvariant, IInvFramesHaveOneUse, PTL

\* A page fault on kernel memory is resolved by one run of the handler, however
\* much the reference table has grown since the process last copied from it.
THEOREM FaultsResolve == Spec => []FaultResolves
  BY MemoryManagerInvariant, IInvFaultResolves, PTL
-----------------------------------------------------------------------------
\* The root of a page table is a frame that nothing cleared.  Its leftover
\* entries are dealt with by a second memory c, which has none of them: the
\* walks to the other pages, and map_raw of one of these, are the same in both.
Masked(m, c, r, L) ==
    /\ m \in Memory /\ c \in Memory
    /\ \A u \in Frames : \A j \in Slots :
          c[u][j] = IF u = r /\ j \in L THEN Empty ELSE m[u][j]

\* A walk visits its root once.
LEMMA RootOnce ==
    ASSUME NEW c, NEW f, NEW R, NEW P, NEW B, Forest(c, f, R, P, B), NEW r \in R,
           NEW v \in AllPages
    PROVE  Within(c, r, v) /\ \A k \in 2 .. Levels : TablesOn(c, r, v)[k] # r
<1>1. Levels \in Nat /\ Levels >= 2 /\ NoFrame \notin Frames /\ r \in Frames
  BY LevelsAssumption, PoolAssumption DEF Forest
<1>2. Within(c, r, v)
  BY DEF Forest, Inside, Within
<1>3. ASSUME NEW k \in 2 .. Levels, TablesOn(c, r, v)[k] = r PROVE FALSE
  <2>1. 1 \in 1 .. Levels /\ k \in 1 .. Levels /\ k # 1
    BY <1>1
  <2>2. TablesOn(c, r, v)[1] = r
    BY Walk
  <2>3. TablesOn(c, r, v)[1] = TablesOn(c, r, v)[k] /\ TablesOn(c, r, v)[1] # NoFrame
    BY <1>1, <1>3, <2>2
  <2> QED
    BY <2>1, <2>3 DEF Forest, Distinct
<1> QED
  BY <1>2, <1>3

\* A walk that starts at a clear entry does not meet a leftover one.
LEMMA MaskedWalk ==
    ASSUME NEW m, NEW c, NEW r \in Frames, NEW L, Masked(m, c, r, L), NEW v \in AllPages,
           Within(c, r, v), \A k \in 2 .. Levels : TablesOn(c, r, v)[k] # r,
           Index(v)[1] \notin L
    PROVE  /\ \A k \in 1 .. Levels : TablesOn(m, r, v)[k] = TablesOn(c, r, v)[k]
           /\ Within(m, r, v)
           /\ Translate(m, r, v) = Translate(c, r, v)
<1>1. Levels \in Nat /\ Levels >= 2 /\ NoFrame \notin Frames /\ r # NoFrame
  BY LevelsAssumption, PoolAssumption
<1>2. PICK x : /\ x = TablesOn(c, r, v) /\ x[1] = r
               /\ \A k \in 2 .. Levels : x[k] = Follow(c, x[k - 1], Index(v)[k - 1])
  BY Walk
<1>3. PICK y : /\ y = TablesOn(m, r, v) /\ y[1] = r
               /\ \A k \in 2 .. Levels : y[k] = Follow(m, y[k - 1], Index(v)[k - 1])
  BY Walk
<1>4. \A k \in 1 .. Levels : x[k] \in Frames \cup {NoFrame}
  BY <1>2 DEF Within
<1>5. \A k \in 2 .. Levels : x[k] # r
  BY <1>2
<1>6. \A k \in 1 .. Levels : Index(v)[k] \in Slots
  BY Digits DEF Slots
<1>7. ASSUME NEW k \in 1 .. Levels, x[k] # NoFrame
      PROVE  m[x[k]][Index(v)[k]] = c[x[k]][Index(v)[k]]
  <2>1. x[k] \in Frames /\ Index(v)[k] \in Slots
    BY <1>4, <1>6, <1>7
  <2>2. k = 1 \/ k \in 2 .. Levels
    BY <1>1
  <2>3. ~(x[k] = r /\ Index(v)[k] \in L)
    BY <1>5, <2>2
  <2> QED
    BY <2>1, <2>3 DEF Masked
<1> DEFINE T == {k \in 1 .. Levels : y[k] = x[k]}
<1>8. PICK a \in Int, h \in Int : a = 1 /\ h = Levels /\ a <= h
  BY <1>1
<1>9. a \in T
  BY <1>1, <1>2, <1>3, <1>8
<1>10. \A k \in a .. h - 1 : k \in T => k + 1 \in T
  <2> SUFFICES ASSUME NEW k \in 1 .. Levels - 1, y[k] = x[k] PROVE y[k + 1] = x[k + 1]
    BY <1>1, <1>8
  <2>1. k + 1 \in 2 .. Levels /\ (k + 1) - 1 = k /\ k \in 1 .. Levels
    BY <1>1
  <2>2. x[k + 1] = Follow(c, x[k], Index(v)[k]) /\ y[k + 1] = Follow(m, x[k], Index(v)[k])
    BY <1>2, <1>3, <2>1
  <2> QED
    BY <1>7, <2>1, <2>2 DEF Follow
<1> HIDE DEF T
<1>11. a .. h \subseteq T
  BY <1>8, <1>9, <1>10, Ascent
<1>12. \A k \in 1 .. Levels : y[k] = x[k]
  BY <1>8, <1>11 DEF T
<1>13. Translate(m, r, v) = Translate(c, r, v)
  <2>1. PICK d \in 1 .. Levels : \A k \in 1 .. Levels : x[k] # NoFrame <=> k <= d
    BY <1>2, Frontier
  <2>2. x[d] # NoFrame /\ (d < Levels => x[d + 1] = NoFrame)
    BY <1>1, <2>1
  <2>3. y[d] # NoFrame /\ (d < Levels => y[d + 1] = NoFrame) /\ y[d] = x[d]
    BY <1>1, <1>12, <2>2
  <2>4. Translate(c, r, v) = Result(c[x[d]][Index(v)[d]], v, d)
    BY <1>2, <2>2, TranslateAt
  <2>5. Translate(m, r, v) = Result(m[y[d]][Index(v)[d]], v, d)
    BY <1>3, <2>3, TranslateAt
  <2> QED
    BY <1>7, <2>2, <2>3, <2>4, <2>5
<1> QED
  BY <1>2, <1>3, <1>4, <1>12, <1>13 DEF Within

\* The states of map_raw in the two memories, at level k.
Twins(s, z, r, L, f, k) ==
    /\ s \in State /\ z \in State
    /\ Masked(s.mem, z.mem, r, L)
    /\ s.free = z.free /\ s.table = z.table /\ s.ok = z.ok
    /\ s.free \subseteq f /\ s.table \notin s.free
    /\ s.ok /\ k # 1 => s.table # r

\* map_raw of a clear page does the same in both memories.
LEMMA MaskedMap ==
    ASSUME NEW m, NEW c, NEW r \in Frames, NEW L, Masked(m, c, r, L),
           NEW f, NEW P, NEW B, NEW R, R = {r}, Forest(c, f, R, P, B),
           NEW v \in AllPages, Index(v)[1] \notin L, NEW d \in {Page2M, Page4K}, NEW a \in Nat,
           NEW p, p = MapRaw(m, f, r, v, a, d), NEW q, q = MapRaw(c, f, r, v, a, d)
    PROVE  Masked(p.mem, q.mem, r, L) /\ p.free = q.free /\ p.ok = q.ok
<1>1. /\ Levels \in Nat /\ Levels >= 2 /\ d \in 1 .. Levels /\ NoFrame \notin Frames
      /\ f \in SUBSET Frames /\ m \in Memory /\ c \in Memory
  BY LevelsAssumption, PoolAssumption DEF Page2M, Page4K, Forest, Masked
<1>a. Within(c, r, v) /\ \A k \in 2 .. Levels : TablesOn(c, r, v)[k] # r
  BY RootOnce
<1>2. /\ \A k \in 1 .. Levels : TablesOn(m, r, v)[k] = TablesOn(c, r, v)[k]
      /\ \A k \in 2 .. Levels : TablesOn(c, r, v)[k] # r
      /\ Within(c, r, v) /\ Within(m, r, v)
  BY <1>a, MaskedWalk
<1>3. \A k \in 1 .. Levels : TablesOn(c, r, v)[k] \notin f
  BY DEF Forest, NotFree
<1>4. r \notin f
  <2>1. TablesOn(c, r, v)[1] = r /\ 1 \in 1 .. Levels
    BY <1>1, Walk
  <2> QED
    BY <1>3, <2>1
<1>5. PICK x : /\ x = Linked(m, f, r, v, d) /\ x[1] = Start(m, f, r)
               /\ \A k \in 2 .. d : x[k] = LinkNext(m, r, v, x[k - 1], k)
  BY <1>1, <1>2, LinkedSteps
<1>6. PICK y : /\ y = Linked(c, f, r, v, d) /\ y[1] = Start(c, f, r)
               /\ \A k \in 2 .. d : y[k] = LinkNext(c, r, v, y[k - 1], k)
  BY <1>1, <1>2, LinkedSteps
<1>7. \A k \in 1 .. Levels : Index(v)[k] \in Slots
  BY Digits DEF Slots
<1> DEFINE T == {k \in 1 .. d : Twins(x[k], y[k], r, L, f, k)}
<1>8. PICK b \in Int, h \in Int : b = 1 /\ h = d /\ b <= h
  BY <1>1
<1>9. b \in T
  <2>1. Twins(Start(m, f, r), Start(c, f, r), r, L, f, 1)
    BY <1>1, <1>4 DEF Twins, Start, State
  <2> QED
    BY <1>1, <1>5, <1>6, <1>8, <2>1
<1>10. \A k \in b .. h - 1 : k \in T => k + 1 \in T
  <2> SUFFICES ASSUME NEW k \in 1 .. d - 1, Twins(x[k], y[k], r, L, f, k)
               PROVE  Twins(x[k + 1], y[k + 1], r, L, f, k + 1)
    BY <1>1, <1>8
  <2>1. PICK j \in 2 .. Levels : j = k + 1 /\ j - 1 = k /\ j \in 2 .. d /\ j \in 1 .. Levels
                                 /\ k \in 1 .. Levels /\ j # 1
    BY <1>1
  <2>2. PICK s \in State, z \in State : s = x[k] /\ z = y[k] /\ Twins(s, z, r, L, f, k)
    BY DEF Twins
  <2>3. PICK n, o : /\ n = x[k + 1] /\ n = LinkNext(m, r, v, s, j)
                    /\ o = y[k + 1] /\ o = LinkNext(c, r, v, z, j)
    BY <1>5, <1>6, <2>1, <2>2
  <2>4. PICK t \in Frames \cup {NoFrame} :
           t = TablesOn(m, r, v)[j] /\ t = TablesOn(c, r, v)[j] /\ t # r /\ t \notin f
    BY <1>2, <1>3, <2>1 DEF Within
  <2>5. /\ n \in State
        /\ ~s.ok => n = s
        /\ s.ok /\ t # NoFrame => n.mem = s.mem /\ n.free = s.free /\ n.ok /\ n.table = t
        /\ s.ok /\ t = NoFrame /\ s.free = {} => n.mem = s.mem /\ n.free = s.free /\ ~n.ok
        /\ s.ok /\ t = NoFrame /\ s.free # {}
              => \E new \in s.free :
                    /\ new = Min(s.free)
                    /\ n.table = new /\ n.free = s.free \ {new} /\ n.ok
                    /\ s.table # new => Links(n.mem, s.mem, s.table, Index(v)[j - 1], new)
    BY <1>2, <2>3, <2>4, LinkCases
  <2>6. /\ o \in State
        /\ ~z.ok => o = z
        /\ z.ok /\ t # NoFrame => o.mem = z.mem /\ o.free = z.free /\ o.ok /\ o.table = t
        /\ z.ok /\ t = NoFrame /\ z.free = {} => o.mem = z.mem /\ o.free = z.free /\ ~o.ok
        /\ z.ok /\ t = NoFrame /\ z.free # {}
              => \E new \in z.free :
                    /\ new = Min(z.free)
                    /\ o.table = new /\ o.free = z.free \ {new} /\ o.ok
                    /\ z.table # new => Links(o.mem, z.mem, z.table, Index(v)[j - 1], new)
    BY <1>2, <2>3, <2>4, LinkCases
  <2>7. CASE ~s.ok
    BY <2>2, <2>3, <2>5, <2>6, <2>7 DEF Twins
  <2>8. CASE s.ok /\ t # NoFrame
    BY <2>2, <2>3, <2>4, <2>5, <2>6, <2>8 DEF Twins
  <2>9. CASE s.ok /\ t = NoFrame /\ s.free = {}
    <3>1. n = LinkNext(m, r, v, s, j) /\ n.table = s.table /\ o.table = z.table
      BY <2>2, <2>3, <2>4, <2>9 DEF LinkNext, Twins, State
    <3> QED
      BY <2>2, <2>3, <2>5, <2>6, <2>9, <3>1 DEF Twins, State
  <2>10. CASE s.ok /\ t = NoFrame /\ s.free # {}
    <3>1. PICK new \in s.free :
             /\ n.table = new /\ n.free = s.free \ {new} /\ n.ok
             /\ Links(n.mem, s.mem, s.table, Index(v)[k], new)
             /\ o.table = new /\ o.free = s.free \ {new} /\ o.ok
             /\ Links(o.mem, z.mem, s.table, Index(v)[k], new)
      BY <2>1, <2>2, <2>5, <2>6, <2>10 DEF Twins
    <3>2. new # r /\ new \in Frames /\ new \notin n.free
      BY <1>1, <1>4, <2>2, <3>1 DEF Twins
    <3>3. ~(s.table = r /\ Index(v)[k] \in L)
      BY <2>2, <2>10 DEF Twins
    <3>4. Masked(n.mem, o.mem, r, L)
      <4> SUFFICES ASSUME NEW u \in Frames, NEW i \in Slots
                   PROVE  o.mem[u][i] = IF u = r /\ i \in L THEN Empty ELSE n.mem[u][i]
        BY <3>1 DEF Links, Masked
      <4>1. CASE u = new
        BY <3>1, <3>2, <4>1 DEF Links
      <4>2. CASE u = s.table /\ i = Index(v)[k]
        BY <3>1, <3>3, <4>2 DEF Links
      <4>3. CASE u # new /\ ~(u = s.table /\ i = Index(v)[k])
        <5>1. n.mem[u][i] = s.mem[u][i] /\ o.mem[u][i] = z.mem[u][i]
          BY <3>1, <4>3 DEF Links
        <5> QED
          BY <2>2, <5>1 DEF Twins, Masked
      <4> QED
        BY <4>1, <4>2, <4>3
    <3> QED
      BY <2>2, <2>3, <2>5, <2>6, <3>1, <3>2, <3>4 DEF Twins
  <2>11. s.ok \in BOOLEAN
    BY DEF State
  <2> QED
    BY <2>7, <2>8, <2>9, <2>10, <2>11
<1> HIDE DEF T
<1>11. b .. h \subseteq T
  BY <1>8, <1>9, <1>10, Ascent
<1>12. Twins(x[d], y[d], r, L, f, d)
  BY <1>8, <1>11 DEF T
<1>13. PICK s \in State, z \in State : s = x[d] /\ z = y[d] /\ Twins(s, z, r, L, f, d)
  BY <1>12 DEF Twins
<1>14. Ends(p, s, m, f, r, v, a, d) /\ Ends(q, z, c, f, r, v, a, d)
  BY <1>5, <1>6, <1>13, MapRawAt
<1>15. d < Levels => TablesOn(m, r, v)[d + 1] = TablesOn(c, r, v)[d + 1]
  <2>1. d < Levels => d + 1 \in 1 .. Levels
    BY <1>1
  <2> QED
    BY <1>2, <2>1
<1>16. CASE d < Levels /\ TablesOn(m, r, v)[d + 1] # NoFrame
  BY <1>14, <1>15, <1>16 DEF Ends
<1>17. CASE ~(d < Levels /\ TablesOn(m, r, v)[d + 1] # NoFrame) /\ ~s.ok
  BY <1>13, <1>14, <1>15, <1>17 DEF Ends, Twins
<1>18. CASE ~(d < Levels /\ TablesOn(m, r, v)[d + 1] # NoFrame) /\ s.ok
  <2>1. PICK i \in Slots, e \in Entry : i = Index(v)[d] /\ e = Leaf(a, d)
    BY <1>1, <1>7, LeafType
  <2>2. /\ p.free = s.free /\ p.ok = s.ok /\ p.mem = [s.mem EXCEPT ![s.table][i] = e]
        /\ q.free = z.free /\ q.ok = z.ok /\ q.mem = [z.mem EXCEPT ![z.table][i] = e]
    BY <1>13, <1>14, <1>15, <1>18, <2>1 DEF Ends, Twins
  <2>3. s.mem \in Memory /\ z.mem \in Memory /\ s.table \in Frames /\ z.table = s.table
    BY <1>13 DEF State, Twins
  <2>4. Maps(p.mem, s.mem, s.table, i, e) /\ Maps(q.mem, z.mem, s.table, i, e)
    BY <2>2, <2>3, Mapping
  <2>5. ~(s.table = r /\ i \in L)
    BY <1>13, <1>18, <2>1 DEF Twins
  <2>6. Masked(p.mem, q.mem, r, L)
    <3> SUFFICES ASSUME NEW u \in Frames, NEW j \in Slots
                 PROVE  q.mem[u][j] = IF u = r /\ j \in L THEN Empty ELSE p.mem[u][j]
      BY <2>4 DEF Maps, Masked
    <3>1. CASE u = s.table /\ j = i
      BY <2>4, <2>5, <3>1 DEF Maps
    <3>2. CASE ~(u = s.table /\ j = i)
      <4>1. p.mem[u][j] = s.mem[u][j] /\ q.mem[u][j] = z.mem[u][j]
        BY <2>4, <3>2 DEF Maps
      <4> QED
        BY <1>13, <4>1 DEF Twins, Masked
    <3> QED
      BY <3>1, <3>2
  <2> QED
    BY <1>13, <2>2, <2>6 DEF Twins
<1>19. s.ok \in BOOLEAN
  BY DEF State
<1> QED
  BY <1>16, <1>17, <1>18, <1>19

\* The inductive invariant: without the leftover entries the tables form a
\* tree apart from the free frames, translation is what the callers believe,
\* and the frames that they have mapped are neither tables nor free.
Unmixed(m, f, r, mp) ==
    \A v \in AllPages :
        /\ mp[v] \notin f
        /\ \A w \in AllPages : \A k \in 1 .. Levels :
              TablesOn(m, r, w)[k] # NoFrame => TablesOn(m, r, w)[k] # mp[v]
Believed(m, r, mp) == \A v \in AllPages : Translate(m, r, v) = mp[v]
Trusted(m, f, r, mp) ==
    /\ Forest(m, f, {r}, {}, Slots)
    /\ mp \in [AllPages -> Nat \cup {NoFrame}]
    /\ Believed(m, r, mp)
    /\ Unmixed(m, f, r, mp)
TableInv == \E c : Masked(mem, c, root, leftover) /\ Trusted(c, free, root, mapped)

\* It holds of the table that PageTable::create makes.
LEMMA TableInitInv == TableInit => TableInv
<1> SUFFICES ASSUME TableInit PROVE TableInv
  OBVIOUS
<1>1. NoFrame \notin Frames /\ Frames # {} /\ Frames \subseteq Nat
  BY PoolAssumption
<1>3. /\ leftover \subseteq Slots
      /\ mem = [f \in Frames |-> IF f = root THEN PartlyStale(f, leftover) ELSE StaleTable(f)]
      /\ root = Min(Frames) /\ free = Frames \ {root}
      /\ mapped = [v \in AllPages |-> NoFrame]
  BY DEF TableInit, Slots
<1>4. Min(Frames) \in Frames
  BY <1>1, MinFree
<1>5. PICK r \in Frames : r = root /\ free = Frames \ {r}
  BY <1>3, <1>4
<1> DEFINE c == [f \in Frames |-> IF f = r THEN ZeroTable ELSE mem[f]]
<1>6. /\ ZeroTable \in [Slots -> Entry]
      /\ \A u \in Frames : StaleTable(u) \in [Slots -> Entry]
      /\ \A u \in Frames : PartlyStale(u, leftover) \in [Slots -> Entry]
  BY <1>1 DEF ZeroTable, StaleTable, PartlyStale, Slots, Entry, EntryFlags, Empty, Present
<1>7. mem \in Memory /\ c \in Memory
  BY <1>3, <1>6 DEF Memory
<1>8. Masked(mem, c, root, leftover)
  <2> SUFFICES ASSUME NEW u \in Frames, NEW j \in Slots
               PROVE  c[u][j] = IF u = root /\ j \in leftover THEN Empty ELSE mem[u][j]
    BY <1>7 DEF Masked
  <2>1. CASE u = r
    <3>1. c[u] = ZeroTable /\ mem[u] = PartlyStale(u, leftover)
      BY <1>3, <1>5, <2>1
    <3> QED
      BY <1>5, <2>1, <3>1 DEF ZeroTable, PartlyStale, Slots
  <2>2. CASE u # r
    BY <1>5, <2>2
  <2> QED
    BY <2>1, <2>2
<1>9. c[r] = ZeroTable
  OBVIOUS
<1> HIDE DEF c
<1>10. PICK R : R = {r}
  OBVIOUS
<1>11. /\ Forest(c, free, R, {}, Slots)
       /\ \A w \in AllPages : Translate(c, r, w) = NoFrame
  BY <1>5, <1>7, <1>9, <1>10, ZeroForest
<1>12. Believed(c, root, mapped)
  BY <1>3, <1>5, <1>11 DEF Believed
<1>13. Unmixed(c, free, root, mapped)
  BY <1>1, <1>3 DEF Unmixed
<1>14. Trusted(c, free, root, mapped)
  BY <1>3, <1>5, <1>10, <1>11, <1>12, <1>13 DEF Trusted
<1> QED
  BY <1>8, <1>14 DEF TableInv

\* The callers' condition in terms of the walk.
LEMMA TableSmall ==
    ASSUME NEW c, Masked(mem, c, root, leftover), Trusted(c, free, root, mapped),
           NEW v \in AllPages, Clear(v), NotIn2M(v)
    PROVE  NotBig(c, root, v)
<1> SUFFICES ASSUME TablesOn(c, root, v)[Page2M] # NoFrame,
                    TablesOn(c, root, v)[Levels] = NoFrame
             PROVE  "SIZE" \notin c[TablesOn(c, root, v)[Page2M]][Index(v)[Page2M]].flags
  BY DEF NotBig
<1>1. PICK d \in 1 .. Levels : d = Page2M /\ d + 1 = Levels
  BY LevelsAssumption DEF Page2M
<1>2. PICK R : R = {root} /\ root \in R /\ Forest(c, free, R, {}, Slots) /\ root \in Frames
  BY DEF Trusted, Forest
<1>3. Within(c, root, v) /\ \A k \in 2 .. Levels : TablesOn(c, root, v)[k] # root
  BY <1>2, RootOnce
<1>4. \A k \in 1 .. Levels : TablesOn(mem, root, v)[k] = TablesOn(c, root, v)[k]
  BY <1>2, <1>3, MaskedWalk DEF Clear
<1>5. PICK t \in Frames : t = TablesOn(c, root, v)[d] /\ t = TablesOn(mem, root, v)[d]
  BY <1>1, <1>3, <1>4 DEF Within
<1>6. TablesOn(mem, root, v)[d] # NoFrame /\ TablesOn(mem, root, v)[d + 1] = NoFrame
  <2>1. Levels \in 1 .. Levels
    BY LevelsAssumption
  <2> QED
    BY <1>1, <1>4, <2>1
<1>7. DepthOf(TablesOn(mem, root, v)) = d
  <2>1. PICK m : m = mem /\ TablesOn(m, root, v)[d] # NoFrame /\ TablesOn(m, root, v)[d + 1] = NoFrame
    BY <1>6
  <2>2. DepthOf(TablesOn(m, root, v)) = d
    BY <1>2, <2>1, TranslateAt
  <2> QED
    BY <2>1, <2>2
<1>8. "SIZE" \notin mem[t][Index(v)[d]].flags
  BY <1>5, <1>7 DEF NotIn2M
<1>9. Index(v)[d] \in Slots
  BY Digits DEF Slots
<1>10. c[t][Index(v)[d]] = mem[t][Index(v)[d]] \/ c[t][Index(v)[d]] = Empty
  BY <1>5, <1>9 DEF Masked
<1> QED
  BY <1>1, <1>5, <1>8, <1>10 DEF Empty

\* A fresh or foreign frame a that is put into the callers' view mp leaves the
\* three sorts of frames apart.
LEMMA UnmixedKept ==
    ASSUME NEW m, NEW f, NEW r, NEW m2, NEW g, NEW R, R = {r}, NEW f1, f1 \subseteq f,
           Grown(m, f1, m2, g, R), NEW mp, Unmixed(m, f, r, mp), NEW mp2,
           \A v \in AllPages : mp2[v] = mp[v] \/
              /\ mp2[v] \notin f1
              /\ \A w \in AllPages : \A k \in 1 .. Levels : TablesOn(m, r, w)[k] # mp2[v]
    PROVE  Unmixed(m2, g, r, mp2)
<1> SUFFICES ASSUME NEW v \in AllPages
             PROVE  /\ mp2[v] \notin g
                    /\ \A w \in AllPages : \A k \in 1 .. Levels :
                          TablesOn(m2, r, w)[k] # NoFrame => TablesOn(m2, r, w)[k] # mp2[v]
  BY DEF Unmixed
<1>1. g \subseteq f1
      /\ \A w \in AllPages : \A k \in 1 .. Levels :
            TablesOn(m2, r, w)[k] = TablesOn(m, r, w)[k] \/ TablesOn(m2, r, w)[k] \in f1
  BY DEF Grown
<1>2. mp2[v] \notin f1
  BY DEF Unmixed
<1>3. \A w \in AllPages : \A k \in 1 .. Levels :
         TablesOn(m, r, w)[k] # NoFrame => TablesOn(m, r, w)[k] # mp2[v]
  BY DEF Unmixed
<1> QED
  BY <1>1, <1>2, <1>3

\* Mapping a fresh frame keeps TableInv.
LEMMA Map4KInv ==
    ASSUME TableInv, NEW v \in Pages4K, NotIn2M(v), Map4K(v)
    PROVE  TableInv'
<1>1. NoFrame \notin Frames /\ Frames \subseteq Nat
  BY PoolAssumption
<1>a. v \in AllPages /\ Clear(v) /\ leftover' = leftover
  BY AreasAssumption DEF Map4K
<1>b. PICK c : Masked(mem, c, root, leftover) /\ Trusted(c, free, root, mapped)
  BY DEF TableInv
<1>2. CASE free = {}
  <2>1. UNCHANGED <<mem, free, root, mapped, leftover>>
    BY <1>2 DEF Map4K
  <2> QED
    BY <1>b, <2>1 DEF TableInv
<1>3. CASE free # {}
  <2>1. PICK a \in free : a = Min(free) /\ a \in Frames /\ a \in Nat
    <3>1. free \in SUBSET Frames
      BY <1>b DEF Trusted, Forest
    <3> QED
      BY <1>1, <1>3, <3>1, MinFree
  <2>2. PICK f : f = free \ {a}
    OBVIOUS
  <2>3. PICK d \in {Page2M, Page4K} : d = Page4K /\ d # Page2M
    BY LevelsAssumption DEF Page4K, Page2M
  <2>4. PICK p, o : p = MapRaw(c, f, root, v, a, d) /\ o = MapRaw(mem, f, root, v, a, d)
    OBVIOUS
  <2>6. PICK R : R = {root}
    OBVIOUS
  <2>7. Forest(c, f, R, {}, Slots) /\ root \in Frames
    BY <1>b, <2>2, <2>6 DEF Trusted, Forest, NotFree
  <2>a. Masked(o.mem, p.mem, root, leftover) /\ o.free = p.free /\ o.ok = p.ok
    <3>1. Index(v)[1] \notin leftover
      BY <1>a DEF Clear
    <3> QED
      BY <1>a, <1>b, <2>1, <2>4, <2>6, <2>7, <3>1, MaskedMap
  <2>5. /\ mem' = o.mem /\ free' = p.free /\ root' = root
        /\ mapped' = IF p.ok THEN [mapped EXCEPT ![v] = a] ELSE mapped
    BY <1>3, <2>1, <2>2, <2>3, <2>4, <2>a DEF Map4K, Taken
  <2>8. NotBig(c, root, v)
    BY <1>a, <1>b, TableSmall
  <2>9. Mapped(c, f, R, {}, Slots, root, v, a, d, p)
    <3>1. root \in R /\ a \in Nat /\ (d = Page2M => Index(v)[1] \in Slots)
          /\ (d = Page4K => NotBig(c, root, v))
      BY <2>1, <2>3, <2>6, <2>8
    <3> QED
      BY <1>a, <2>4, <2>7, <3>1, MapRawCorrect
  <2>10. ASSUME NEW w \in AllPages
         PROVE  /\ Prefix(w, d) = Prefix(v, d) <=> w = v
                /\ a + (w % Span[Levels - d]) = a
    BY <1>a, <2>1, <2>3, SinglePage
  <2>11. /\ p.ok \in BOOLEAN
         /\ Forest(p.mem, p.free, R, {}, Slots)
         /\ Grown(c, f, p.mem, p.free, R)
         /\ p.ok => Translate(p.mem, root, v) = a
         /\ \A w \in AllPages :
               Translate(p.mem, root, w) # Translate(c, root, w) => p.ok /\ w = v
    BY <1>a, <2>6, <2>9, <2>10 DEF Mapped, MapState
  <2>12. mapped \in [AllPages -> Nat \cup {NoFrame}]
         /\ \A w \in AllPages : Translate(c, root, w) = mapped[w]
    BY <1>b DEF Trusted, Believed
  <2>13. mapped' \in [AllPages -> Nat \cup {NoFrame}]
         /\ \A w \in AllPages : mapped'[w] = IF p.ok /\ w = v THEN a ELSE mapped[w]
    BY <1>a, <2>1, <2>5, <2>12
  <2>14. Believed(p.mem, root, mapped')
    BY <2>11, <2>12, <2>13 DEF Believed
  <2>15. Unmixed(p.mem, p.free, root, mapped')
    <3>1. \A w \in AllPages : \A k \in 1 .. Levels : TablesOn(c, root, w)[k] # a
      BY <1>b, <2>1 DEF Trusted, Forest, NotFree
    <3>2. f \subseteq free /\ a \notin f
      BY <2>2
    <3>3. Unmixed(c, free, root, mapped)
      BY <1>b DEF Trusted
    <3>4. \A u \in AllPages : mapped'[u] = mapped[u] \/
             /\ mapped'[u] \notin f
             /\ \A w \in AllPages : \A k \in 1 .. Levels : TablesOn(c, root, w)[k] # mapped'[u]
      BY <2>13, <3>1, <3>2
    <3> QED
      BY <2>6, <2>11, <3>2, <3>3, <3>4, UnmixedKept
  <2>16. Trusted(p.mem, p.free, root, mapped')
    BY <2>6, <2>11, <2>13, <2>14, <2>15 DEF Trusted
  <2> QED
    BY <1>a, <2>5, <2>16, <2>a DEF TableInv
<1> QED
  BY <1>2, <1>3

\* Mapping a 2M page of physical memory keeps TableInv.
LEMMA Map2MInv ==
    ASSUME TableInv, NEW v \in Areas2M, Map2M(v)
    PROVE  TableInv'
<1>1. /\ v \in AllPages /\ v % Entries = 0 /\ DeviceFrame \in Nat
      /\ \A i \in 0 .. Entries - 1 : DeviceFrame + i \notin Frames
  BY AreasAssumption
<1>a. Entries \in Nat
  BY EntriesAssumption
<1>2. PICK d \in {Page2M, Page4K} : d = Page2M /\ d # Page4K
  BY LevelsAssumption DEF Page4K, Page2M
<1>3. PICK a \in Nat : a = DeviceFrame
  BY <1>1
<1>b. PICK c : Masked(mem, c, root, leftover) /\ Trusted(c, free, root, mapped)
  BY DEF TableInv
<1>4. PICK p, o : p = MapRaw(c, free, root, v, a, d) /\ o = MapRaw(mem, free, root, v, a, d)
  OBVIOUS
<1>6. PICK R : R = {root} /\ root \in R /\ Forest(c, free, R, {}, Slots) /\ root \in Frames
  BY <1>b DEF Trusted, Forest
<1>c. /\ Masked(o.mem, p.mem, root, leftover) /\ o.free = p.free /\ o.ok = p.ok
      /\ leftover' = leftover
  <2>1. Index(v)[1] \notin leftover /\ leftover' = leftover
    BY DEF Map2M, Clear
  <2>2. PICK m, f : m = mem /\ f = free
    OBVIOUS
  <2>3. Forest(c, f, R, {}, Slots) /\ Masked(m, c, root, leftover)
        /\ p = MapRaw(c, f, root, v, a, d) /\ o = MapRaw(m, f, root, v, a, d)
    BY <1>4, <1>6, <1>b, <2>2
  <2>4. Masked(o.mem, p.mem, root, leftover) /\ o.free = p.free /\ o.ok = p.ok
    <3>1. v \in AllPages
      BY <1>1
    <3>2. R = {root} /\ root \in Frames
      BY <1>6
    <3> QED
      BY <2>1, <2>3, <3>1, <3>2, MaskedMap
  <2> QED
    BY <2>1, <2>4
<1> DEFINE In(w) == v <= w /\ w < v + Entries
<1>5. /\ mem' = o.mem /\ free' = p.free /\ root' = root
      /\ mapped' = IF p.ok THEN [w \in AllPages |-> IF In(w) THEN a + (w - v) ELSE mapped[w]]
                           ELSE mapped
  BY <1>2, <1>3, <1>4, <1>c DEF Map2M
<1>7. Mapped(c, free, R, {}, Slots, root, v, a, d, p)
  <2>1. Forest(c, free, R, {}, Slots) /\ root \in R
    BY <1>6
  <2>2. (d = Page4K => NotBig(c, root, v)) /\ (d = Page2M => Index(v)[1] \in Slots)
    <3>1. 1 \in 1 .. Levels
      BY LevelsAssumption
    <3> QED
      BY <1>1, <1>2, <3>1, Digits DEF Slots
  <2> QED
    BY <1>1, <1>4, <2>1, <2>2, MapRawCorrect
<1>8. ASSUME NEW w \in AllPages
      PROVE  /\ Prefix(w, d) = Prefix(v, d) <=> In(w)
             /\ In(w) => w % Span[Levels - d] = w - v
  BY <1>1, <1>2, Area
<1>9. ASSUME NEW w \in AllPages, In(w)
      PROVE  a + (w - v) \in Nat \ Frames
  <2>1. w \in Nat /\ v \in Nat
    BY <1>1, Digits
  <2>2. PICK i \in 0 .. Entries - 1 : i = w - v
    BY <1>a, <1>9, <2>1
  <2>3. a + i \notin Frames
    BY <1>1, <1>3
  <2> QED
    BY <2>2, <2>3
<1> HIDE DEF In
<1>10. mapped \in [AllPages -> Nat \cup {NoFrame}]
       /\ \A w \in AllPages : Translate(c, root, w) = mapped[w]
  BY <1>b DEF Trusted, Believed
<1>11. mapped' \in [AllPages -> Nat \cup {NoFrame}]
       /\ \A w \in AllPages : mapped'[w] = IF p.ok /\ In(w) THEN a + (w - v) ELSE mapped[w]
  BY <1>5, <1>9, <1>10
<1>12. /\ p.ok \in BOOLEAN
       /\ Forest(p.mem, p.free, R, {}, Slots)
       /\ Grown(c, free, p.mem, p.free, R)
       /\ \A w \in AllPages : p.ok /\ In(w) => Translate(p.mem, root, w) = a + (w - v)
       /\ \A w \in AllPages :
             Translate(p.mem, root, w) # Translate(c, root, w) => p.ok /\ In(w)
  BY <1>6, <1>7, <1>8 DEF Mapped, MapState
<1>13. Believed(p.mem, root, mapped')
  BY <1>10, <1>11, <1>12 DEF Believed
<1>14. Unmixed(p.mem, p.free, root, mapped')
  <2>1. Unmixed(c, free, root, mapped) /\ free \subseteq Frames
        /\ \A w \in AllPages : \A k \in 1 .. Levels :
              TablesOn(c, root, w)[k] \in Frames \cup {NoFrame}
    BY <1>b DEF Trusted, Forest, Inside
  <2>2. NoFrame \notin Nat
    BY PoolAssumption
  <2>3. \A u \in AllPages : mapped'[u] = mapped[u] \/
           /\ mapped'[u] \notin free
           /\ \A w \in AllPages : \A k \in 1 .. Levels : TablesOn(c, root, w)[k] # mapped'[u]
    BY <1>9, <1>11, <2>1, <2>2
  <2> QED
    BY <1>6, <1>12, <2>1, <2>3, UnmixedKept
<1>15. Trusted(p.mem, p.free, root, mapped')
  BY <1>6, <1>11, <1>12, <1>13, <1>14 DEF Trusted
<1> QED
  BY <1>5, <1>15, <1>c DEF TableInv

\* Every step keeps TableInv.
LEMMA TableNextInv == TableInv /\ [TableNext]_tableVars => TableInv'
<1> SUFFICES ASSUME TableInv, [TableNext]_tableVars PROVE TableInv'
  OBVIOUS
<1>1. ASSUME NEW v \in Pages4K, NotIn2M(v), Map4K(v) PROVE TableInv'
  BY <1>1, Map4KInv
<1>2. ASSUME NEW v \in Areas2M, Map2M(v) PROVE TableInv'
  BY <1>2, Map2MInv
<1>3. ASSUME NEW v, Stray(v) PROVE TableInv'
  BY <1>3 DEF Stray, TableInv
<1>4. CASE UNCHANGED tableVars
  BY <1>4 DEF tableVars, TableInv
<1> QED
  BY <1>1, <1>2, <1>3, <1>4 DEF TableNext

\* The walks to the pages that no leftover entry covers.
LEMMA ClearWalks ==
    ASSUME NEW c, Masked(mem, c, root, leftover), Trusted(c, free, root, mapped),
           NEW v \in ClearPages
    PROVE  /\ v \in AllPages /\ Translate(mem, root, v) = mapped[v]
           /\ \A k \in 1 .. Levels : TablesOn(mem, root, v)[k] = TablesOn(c, root, v)[k]
<1>1. v \in AllPages /\ Index(v)[1] \notin leftover
  BY DEF ClearPages, Clear
<1>2. PICK R : R = {root} /\ root \in R /\ Forest(c, free, R, {}, Slots) /\ root \in Frames
  BY DEF Trusted, Forest
<1>3. Within(c, root, v) /\ \A k \in 2 .. Levels : TablesOn(c, root, v)[k] # root
  BY <1>1, <1>2, RootOnce
<1>4. /\ \A k \in 1 .. Levels : TablesOn(mem, root, v)[k] = TablesOn(c, root, v)[k]
      /\ Translate(mem, root, v) = Translate(c, root, v)
  BY <1>1, <1>2, <1>3, MaskedWalk
<1> QED
  BY <1>1, <1>4 DEF Trusted, Believed

\* Whatever create found in the frame of the root, until something is mapped
\* through it: after any sequence of map operations on a page table of any
\* depth and width, every page under the other entries translates to what it
\* was last mapped to: PageTable::map_raw changes the translation of no other
\* page, whichever tables it shares, creates, or fails to create.
THEOREM TranslationCorrect == TableSpec => []TranslatesAsMapped
<1>1. TableInit => TableInv
  BY TableInitInv
<1>2. TableInv /\ [TableNext]_tableVars => TableInv'
  BY TableNextInv
<1>3. TableInv => TranslatesAsMapped
  BY ClearWalks DEF TableInv, TranslatesAsMapped
<1> QED
  BY <1>1, <1>2, <1>3, PTL DEF TableSpec

\* The frames of tables, the mapped frames and the free frames stay apart,
\* also when the frame allocator runs out in the middle of map_raw_option.
THEOREM TablesSafe == TableSpec => []TablesProtected
<1>1. TableInit => TableInv
  BY TableInitInv
<1>2. TableInv /\ [TableNext]_tableVars => TableInv'
  BY TableNextInv
<1>3. TableInv => TablesProtected
  <2> SUFFICES ASSUME TableInv PROVE TablesProtected
    OBVIOUS
  <2>1. PICK c : Masked(mem, c, root, leftover) /\ Trusted(c, free, root, mapped)
    BY DEF TableInv
  <2> DEFINE walks == {TablesOn(mem, root, v)[k] : v \in ClearPages, k \in 1 .. Levels}
             tables == ({root} \cup walks) \ {NoFrame}
  <2>2. ASSUME NEW t \in tables
        PROVE  \E v \in AllPages : \E k \in 1 .. Levels : t = TablesOn(c, root, v)[k] /\ t # NoFrame
    <3>1. CASE t = root
      <4>1. 1 \in 1 .. Levels /\ 0 \in AllPages
        <5>1. Span[Levels] \in Nat \ {0}
          BY LevelsAssumption, Spans
        <5> QED
          BY <5>1, LevelsAssumption DEF AllPages
      <4>2. TablesOn(c, root, 0)[1] = root
        BY Walk
      <4> QED
        BY <3>1, <4>1, <4>2
    <3>2. CASE t # root
      <4>1. PICK v \in ClearPages, k \in 1 .. Levels : t = TablesOn(mem, root, v)[k]
        BY <3>2
      <4>2. v \in AllPages /\ TablesOn(mem, root, v)[k] = TablesOn(c, root, v)[k]
        BY <2>1, <4>1, ClearWalks
      <4> QED
        BY <4>1, <4>2
    <3> QED
      BY <3>1, <3>2
  <2> HIDE DEF tables
  <2>3. tables \cap free = {}
    BY <2>1, <2>2 DEF Trusted, Forest, NotFree
  <2>4. tables \cap {mapped[v] : v \in AllPages} = {}
    BY <2>1, <2>2 DEF Trusted, Unmixed
  <2>5. free \cap {mapped[v] : v \in AllPages} = {}
    BY <2>1 DEF Trusted, Unmixed
  <2> QED
    BY <2>3, <2>4, <2>5 DEF TablesProtected, tables
<1> QED
  BY <1>1, <1>2, <1>3, PTL DEF TableSpec
-----------------------------------------------------------------------------
\* The frames that FrameAlloc has left after n, and the tables it has given.
Unused(r, n) == r + n .. r + MaxFrames - 1
Granted(r) == r \in Nat /\ r .. r + MaxFrames - 1 \subseteq Frames
Tree(r, m, n) == n \in 1 .. MaxFrames /\ Forest(m, Unused(r, n), {r}, {}, {})

LoadState == [mem : Memory, num : 0 .. MaxFrames, table : Frames, ok : BOOLEAN]

\* One level of map_page_4k.
WalkNext(r, v, w, k) ==
    LET e == w.mem[w.table][Index(v)[k - 1]]
        new == AllocZeroed(w, r)
    IN  IF ~w.ok THEN w
        ELSE IF Present(e) THEN [w EXCEPT !.table = e.frame]
        ELSE IF ~new.ok THEN new
        ELSE [new EXCEPT !.mem[w.table][Index(v)[k - 1]] =
                            [flags |-> {"PRESENT"}, frame |-> new.table]]

\* FrameAlloc::alloc_zeroed takes the next frame of its block, if one is left.
LEMMA Allocating ==
    ASSUME NEW r, Granted(r), NEW w \in LoadState, w.ok, NEW n, n = AllocZeroed(w, r)
    PROVE  /\ n \in LoadState
           /\ w.num >= MaxFrames => n.mem = w.mem /\ n.num = w.num /\ ~n.ok
           /\ w.num < MaxFrames =>
                 /\ n.mem = [w.mem EXCEPT ![r + w.num] = ZeroTable]
                 /\ n.table = r + w.num /\ n.num = w.num + 1 /\ n.ok
                 /\ r + w.num \in Unused(r, w.num) /\ r + w.num \in Frames
<1>1. MaxFrames \in Nat
  BY LoaderAssumption
<1>2. w.mem \in Memory /\ w.num \in 0 .. MaxFrames /\ w.table \in Frames
  BY DEF LoadState
<1>3. CASE w.num >= MaxFrames
  <2>1. n = [w EXCEPT !.ok = FALSE]
    BY <1>3 DEF AllocZeroed
  <2>2. n \in LoadState /\ n.mem = w.mem /\ n.num = w.num /\ ~n.ok
    BY <2>1 DEF LoadState
  <2> QED
    BY <1>1, <1>2, <1>3, <2>2
<1>4. CASE w.num < MaxFrames
  <2>1. n = [w EXCEPT !.mem[r + w.num] = ZeroTable, !.table = r + w.num, !.num = @ + 1]
    BY <1>1, <1>2, <1>4 DEF AllocZeroed
  <2>2. r + w.num \in Unused(r, w.num) /\ r + w.num \in r .. r + MaxFrames - 1
    BY <1>1, <1>2, <1>4 DEF Unused, Granted
  <2>3. r + w.num \in Frames
    BY <2>2 DEF Granted
  <2>4. PICK f \in Frames : f = r + w.num
    BY <2>3
  <2>5. ZeroTable \in [Slots -> Entry]
    BY DEF ZeroTable, Slots, Entry, Empty, Present, EntryFlags
  <2>6. [w.mem EXCEPT ![f] = ZeroTable] \in Memory
    BY <1>2, <2>5 DEF Memory
  <2>7. w.num + 1 \in 0 .. MaxFrames
    BY <1>1, <1>2, <1>4
  <2>8. n.mem = [w.mem EXCEPT ![f] = ZeroTable] /\ n.table = f /\ n.num = w.num + 1 /\ n.ok = w.ok
        /\ n = [mem |-> n.mem, num |-> n.num, table |-> n.table, ok |-> n.ok]
    BY <2>1, <2>4 DEF LoadState
  <2>9. n \in LoadState
    BY <2>6, <2>7, <2>8 DEF LoadState
  <2> QED
    BY <1>1, <1>2, <1>4, <2>2, <2>3, <2>4, <2>8, <2>9
<1> QED
  BY <1>1, <1>2, <1>3, <1>4

\* One level of map_page_4k follows the entry, or links a new table, or fails.
LEMMA WalkCases ==
    ASSUME NEW r, Granted(r), NEW v \in AllPages, NEW k \in 2 .. Levels, NEW w \in LoadState, w.ok,
           NEW i, i = Index(v)[k - 1], NEW e, e = w.mem[w.table][i],
           NEW n, n = WalkNext(r, v, w, k)
    PROVE  /\ i \in Slots /\ e \in Entry
           /\ Present(e) => /\ n.mem = w.mem /\ n.num = w.num /\ n.ok /\ n.table = e.frame
                            /\ e.frame \in Frames => n \in LoadState
           /\ ~Present(e) /\ w.num >= MaxFrames
                 => n \in LoadState /\ n.mem = w.mem /\ n.num = w.num /\ ~n.ok
           /\ ~Present(e) /\ w.num < MaxFrames =>
                 /\ r + w.num \in Unused(r, w.num) /\ r + w.num \in Frames
                 /\ w.table # r + w.num
                       => /\ n \in LoadState /\ n.table = r + w.num /\ n.num = w.num + 1 /\ n.ok
                          /\ Links(n.mem, w.mem, w.table, i, r + w.num)
<1>1. MaxFrames \in Nat /\ Levels \in Nat
  BY LoaderAssumption, LevelsAssumption
<1>2. w.mem \in Memory /\ w.num \in 0 .. MaxFrames /\ w.table \in Frames /\ w.ok \in BOOLEAN
  BY DEF LoadState
<1>3. i \in Slots
  <2>1. k - 1 \in 1 .. Levels
    BY <1>1
  <2> QED
    BY <2>1, Digits DEF Slots
<1>4. e \in Entry
  BY <1>2, <1>3 DEF Memory
<1>5. CASE Present(e)
  <2>1. n = [w EXCEPT !.table = e.frame]
    BY <1>5 DEF WalkNext
  <2> QED
    BY <1>2, <1>3, <1>4, <1>5, <2>1 DEF LoadState
<1>6. CASE ~Present(e)
  <2>1. PICK z : z = AllocZeroed(w, r)
    OBVIOUS
  <2>2. CASE w.num >= MaxFrames
    <3>1. z \in LoadState /\ z.mem = w.mem /\ z.num = w.num /\ ~z.ok
      BY <2>1, <2>2, Allocating
    <3>2. n = z
      BY <1>6, <2>1, <3>1 DEF WalkNext
    <3> QED
      BY <1>1, <1>2, <1>3, <1>4, <1>6, <2>2, <3>1, <3>2
  <2>3. CASE w.num < MaxFrames
    <3>1. PICK f \in Frames : f = r + w.num
      BY <2>1, <2>3, Allocating
    <3>2. z \in LoadState /\ z.mem = [w.mem EXCEPT ![f] = ZeroTable] /\ z.table = f
          /\ z.num = w.num + 1 /\ z.ok /\ f \in Unused(r, w.num)
      BY <2>1, <2>3, <3>1, Allocating
    <3>3. n = [z EXCEPT !.mem[w.table][i] = Link(f)]
      BY <1>6, <2>1, <3>2 DEF WalkNext, Link
    <3>4. n.mem = [z.mem EXCEPT ![w.table][i] = Link(f)] /\ n.num = z.num /\ n.table = z.table
          /\ n.ok = z.ok /\ n = [mem |-> n.mem, num |-> n.num, table |-> n.table, ok |-> n.ok]
      BY <3>2, <3>3 DEF LoadState
    <3>5. n.mem = [w.mem EXCEPT ![f] = ZeroTable, ![w.table][i] = Link(f)]
      BY <3>2, <3>4
    <3>6. ASSUME w.table # f PROVE Links(n.mem, w.mem, w.table, i, f)
      BY <1>2, <1>3, <3>5, <3>6, Linking
    <3>7. ASSUME w.table # f PROVE n \in LoadState
      <4>1. n.mem \in Memory
        BY <3>6, <3>7 DEF Links
      <4> QED
        BY <3>2, <3>4, <4>1 DEF LoadState
    <3> QED
      BY <1>1, <1>2, <1>3, <1>4, <1>6, <2>3, <3>1, <3>2, <3>4, <3>6, <3>7
  <2> QED
    BY <1>1, <1>2, <2>2, <2>3
<1> QED
  BY <1>5, <1>6

\* What map_page_4k has done when it stands at level k on its way to v.
Walking(m, c, r, v, k, w) ==
    /\ w \in LoadState
    /\ Tree(r, w.mem, w.num) /\ c <= w.num
    /\ Grown(m, Unused(r, c), w.mem, Unused(r, w.num), {r})
    /\ \A x \in AllPages : Translate(w.mem, r, x) = Translate(m, r, x)
    /\ w.ok => w.table = TablesOn(w.mem, r, v)[k]

\* Tables that have grown twice have grown.
LEMMA GrownOn ==
    ASSUME NEW m, NEW f, NEW m2, NEW f2, NEW m3, NEW f3, NEW R,
           Grown(m, f, m2, f2, R), Grown(m2, f2, m3, f3, R)
    PROVE  Grown(m, f, m3, f3, R)
<1>1. f2 \subseteq f /\ f3 \subseteq f2
  BY DEF Grown
<1> QED
  BY <1>1 DEF Grown

\* FrameAlloc takes the frames of its block one after the other.
LEMMA UnusedNext ==
    ASSUME NEW r \in Nat, NEW n \in Nat
    PROVE  Unused(r, n) \ {r + n} = Unused(r, n + 1) /\ Unused(r, n + 1) \subseteq Unused(r, n)
  BY LoaderAssumption DEF Unused

\* One more level keeps Walking.
LEMMA WalkingNext ==
    ASSUME NEW m, NEW c \in Nat, NEW r, Granted(r), NEW v \in AllPages, NEW k \in 1 .. Levels - 1,
           NEW w, Walking(m, c, r, v, k, w), NEW n, n = WalkNext(r, v, w, k + 1)
    PROVE  Walking(m, c, r, v, k + 1, n)
<1>1. MaxFrames \in Nat /\ Levels \in Nat /\ NoFrame \notin Frames
  BY LoaderAssumption, LevelsAssumption, PoolAssumption
<1>2. w \in LoadState /\ w.mem \in Memory /\ w.num \in 0 .. MaxFrames /\ w.table \in Frames
  BY DEF Walking, LoadState
<1>3. CASE ~w.ok
  <2>1. n = w
    BY <1>3 DEF WalkNext
  <2> QED
    BY <1>3, <2>1 DEF Walking
<1>4. CASE w.ok
  <2>1. k + 1 \in 2 .. Levels /\ (k + 1) - 1 = k /\ k \in 1 .. Levels /\ k + 1 \in 1 .. Levels
    BY <1>1
  <2>2. PICK j \in 2 .. Levels : j = k + 1 /\ j - 1 = k
    BY <2>1
  <2>3. PICK i, e : i = Index(v)[j - 1] /\ e = w.mem[w.table][i]
    OBVIOUS
  <2>4. n = WalkNext(r, v, w, j)
    BY <2>2
  <2>5. PICK R : R = {r}
    OBVIOUS
  <2>6. Forest(w.mem, Unused(r, w.num), R, {}, {}) /\ w.table = TablesOn(w.mem, r, v)[k] /\ r \in R
    BY <1>4, <2>5 DEF Walking, Tree
  <2>7. TablesOn(w.mem, r, v)[j] = Follow(w.mem, w.table, i)
    BY <2>2, <2>3, <2>6, Walk
  <2>8. CASE Present(e)
    <3>1. n.mem = w.mem /\ n.num = w.num /\ n.ok /\ n.table = e.frame
          /\ (e.frame \in Frames => n \in LoadState)
      BY <1>2, <1>4, <2>3, <2>4, <2>8, WalkCases
    <3>2. "SIZE" \notin e.flags
      BY <1>1, <1>2, <2>2, <2>3, <2>6 DEF Forest, SmallAbove
    <3>3. TablesOn(w.mem, r, v)[j] = e.frame
      BY <1>1, <1>2, <2>3, <2>7, <2>8, <3>2 DEF Follow, IsTable
    <3>4. e.frame \in Frames \cup {NoFrame} /\ e \in Entry
      BY <1>2, <1>4, <2>1, <2>2, <2>3, <2>4, <2>6, <3>3, WalkCases DEF Forest, Inside
    <3>5. e.frame \in Frames
      BY <2>8, <3>4, PoolAssumption DEF Entry
    <3> QED
      BY <2>2, <3>1, <3>3, <3>5 DEF Walking
  <2>9. CASE ~Present(e) /\ w.num >= MaxFrames
    <3>1. n \in LoadState /\ n.mem = w.mem /\ n.num = w.num /\ ~n.ok
      BY <1>2, <1>4, <2>3, <2>4, <2>9, WalkCases
    <3> QED
      BY <3>1 DEF Walking
  <2>10. CASE ~Present(e) /\ w.num < MaxFrames
    <3>1. PICK f : f = r + w.num
      OBVIOUS
    <3>2. f \in Frames /\ f \in Unused(r, w.num) /\ i \in Slots
      BY <1>2, <1>4, <2>3, <2>4, <2>10, <3>1, WalkCases
    <3>3. w.table # f
      BY <2>1, <2>6, <3>2 DEF Forest, NotFree
    <3>4. n \in LoadState /\ n.table = f /\ n.num = w.num + 1 /\ n.ok
          /\ Links(n.mem, w.mem, w.table, i, f)
      BY <1>2, <1>4, <2>3, <2>4, <2>10, <3>1, <3>3, WalkCases
    <3>5. PICK m1, m2, f1, f2, t : /\ m1 = w.mem /\ m2 = n.mem /\ f1 = Unused(r, w.num)
                                   /\ f2 = Unused(r, n.num) /\ t = w.table
      OBVIOUS
    <3>6. t \in Frames /\ Forest(m1, f1, R, {}, {}) /\ Linkable(m1, f1, r, v, j, t, i, f, m2)
      BY <1>2, <2>2, <2>3, <2>6, <2>10, <3>2, <3>4, <3>5 DEF Linkable
    <3>7. f2 = f1 \ {f}
      BY <1>2, <3>1, <3>4, <3>5, UnusedNext DEF Granted
    <3>8. Forest(m2, f2, R, {}, {}) /\ Grown(m1, f1, m2, f2, R)
      BY <2>6, <3>2, <3>6, <3>7, LinkForest
    <3>9. \A x \in AllPages : Translate(m2, r, x) = Translate(m1, r, x)
      BY <2>6, <3>2, <3>6, LinkTranslate
    <3>10. TablesOn(m2, r, v)[j] = f
      <4>1. At(m1, r, v, j - 1, t, i)
        BY <2>2, <2>3, <2>6, <3>5 DEF At
      <4>2. j \in 1 .. Levels
        BY <1>1
      <4> QED
        BY <2>6, <3>2, <3>6, <4>1, <4>2, LinkWalk
    <3>11. PICK f0 : f0 = Unused(r, c)
      OBVIOUS
    <3>12. Grown(m, f0, m1, f1, R)
      BY <2>5, <3>5, <3>11 DEF Walking
    <3>13. Grown(m, f0, m2, f2, R)
      BY <3>8, <3>12, GrownOn
    <3>14. c <= n.num /\ n.num \in 1 .. MaxFrames
      BY <1>1, <1>2, <2>10, <3>4 DEF Walking
    <3>15. \A x \in AllPages : Translate(m2, r, x) = Translate(m, r, x)
      BY <3>5, <3>9 DEF Walking
    <3> QED
      BY <2>2, <2>5, <3>4, <3>5, <3>8, <3>10, <3>11, <3>13, <3>14, <3>15 DEF Walking, Tree
  <2> QED
    BY <1>1, <1>2, <2>8, <2>9, <2>10
<1> QED
  BY <1>2, <1>3, <1>4 DEF LoadState

\* The states of map_page_4k.
IsDescent(x, r, s, v) ==
    x = [k \in 1 .. Levels |->
            IF k = 1 THEN [s EXCEPT !.table = r] ELSE WalkNext(r, v, x[k - 1], k)]
Descent(r, s, v) == CHOOSE x : IsDescent(x, r, s, v)
Page4KEnd(last, v, a) ==
    IF last.ok
    THEN [last EXCEPT !.mem[last.table][Index(v)[Levels]] = [flags |-> {"PRESENT"}, frame |-> a]]
    ELSE last

\* map_page_4k is a descent and a write of the last entry.
LEMMA MapPage4KAt ==
    ASSUME NEW r, r = Root, NEW s, NEW v, NEW a
    PROVE  MapPage4K(s, v, a) = Page4KEnd(Descent(r, s, v)[Levels], v, a)
  BY DEF MapPage4K, Page4KEnd, Descent, IsDescent, WalkNext

\* The descent reaches the last table of the walk, whatever is missing on the
\* way, or the block of FrameAlloc is used up.
LEMMA DescentEnd ==
    ASSUME NEW r, Granted(r), NEW s \in LoadState, s.ok, Tree(r, s.mem, s.num), NEW v \in AllPages
    PROVE  Walking(s.mem, s.num, r, v, Levels, Descent(r, s, v)[Levels])
<1> DEFINE W(k) == {w \in LoadState : Walking(s.mem, s.num, r, v, k, w)}
           I == [k \in 1 .. Levels |-> W(k)]
           G(w, k) == WalkNext(r, v, w, k)
           g == [x \in LoadState \X Int |-> G(x[1], x[2])]
           z == [s EXCEPT !.table = r]
<1>1. Levels \in Nat /\ Levels >= 2 /\ MaxFrames \in Nat
  BY LevelsAssumption, LoaderAssumption
<1>2. s.num \in Nat /\ s.mem \in Memory /\ r \in Frames
  <2>1. {r} \subseteq Frames
    BY DEF Tree, Forest
  <2> QED
    BY <1>1, <2>1 DEF LoadState
<1>3. z \in W(1)
  <2>1. z \in LoadState /\ z.mem = s.mem /\ z.num = s.num /\ z.table = r
    BY <1>2 DEF LoadState
  <2>2. TablesOn(s.mem, r, v)[1] = r
    BY Walk
  <2>3. Grown(s.mem, Unused(r, s.num), s.mem, Unused(r, s.num), {r})
    BY DEF Grown
  <2>4. Walking(s.mem, s.num, r, v, 1, z)
    BY <1>2, <2>1, <2>2, <2>3 DEF Walking
  <2> QED
    BY <2>1, <2>4
<1>4. ASSUME NEW k \in 2 .. Levels, NEW w \in W(k - 1) PROVE G(w, k) \in W(k)
  <2>1. PICK j \in 1 .. Levels - 1 : j = k - 1 /\ j + 1 = k
    BY <1>1
  <2>2. PICK n : n = WalkNext(r, v, w, j + 1)
    OBVIOUS
  <2>3. PICK m, c : m = s.mem /\ c = s.num /\ c \in Nat
    BY <1>2
  <2>4. Walking(m, c, r, v, j, w)
    BY <2>1, <2>3
  <2>5. Walking(m, c, r, v, j + 1, n)
    BY <2>2, <2>3, <2>4, WalkingNext
  <2>6. n \in LoadState
    BY <2>5 DEF Walking
  <2> QED
    BY <2>1, <2>2, <2>3, <2>5, <2>6
<1>5. \A k : W(k) \subseteq LoadState
  OBVIOUS
<1> HIDE DEF W, G, z
<1>6. I \in [1 .. Levels -> SUBSET LoadState] /\ I[1] = W(1) /\ \A k \in 1 .. Levels : I[k] = W(k)
  BY <1>1, <1>5
<1>7. \A w \in LoadState : \A k \in Int : g[<<w, k>>] = G(w, k)
  OBVIOUS
<1> HIDE DEF I, g
<1>8. PICK a \in Int, h \in Int : a = 1 /\ h = Levels /\ a <= h /\ a + 1 = 2
  BY <1>1
<1>9. \A k \in a + 1 .. h : \A w \in I[k - 1] : g[<<w, k>>] \in I[k]
  <2> SUFFICES ASSUME NEW k \in 2 .. Levels, NEW w \in I[k - 1] PROVE g[<<w, k>>] \in I[k]
    BY <1>8
  <2>1. k - 1 \in 1 .. Levels /\ k \in 1 .. Levels /\ k \in Int
    BY <1>1
  <2>2. w \in W(k - 1) /\ w \in LoadState
    BY <1>5, <1>6, <2>1
  <2> QED
    BY <1>4, <1>6, <1>7, <2>1, <2>2
<1>10. PICK b \in I[a] : b = z
  BY <1>3, <1>6, <1>8
<1>11. PICK S : S = LoadState /\ I \in [a .. h -> SUBSET S]
  BY <1>6, <1>8
<1>12. /\ \E x : x \in [a .. h -> S] /\ Follows(x, a, h, S, b, g)
       /\ \A y : Follows(y, a, h, S, b, g) => \A k \in a .. h : y[k] \in I[k]
  <2>1. Leads(I, a, h, g)
    BY <1>9 DEF Leads
  <2> QED
    BY <1>8, <1>11, <2>1, Folding
<1>13. PICK x : x \in [1 .. Levels -> LoadState] /\ Follows(x, 1, Levels, LoadState, z, g)
  BY <1>8, <1>10, <1>11, <1>12
<1>14. \A k \in 2 .. Levels : x[k] = G(x[k - 1], k)
  <2> SUFFICES ASSUME NEW k \in 2 .. Levels PROVE x[k] = G(x[k - 1], k)
    OBVIOUS
  <2>1. k - 1 \in 1 .. Levels /\ k \in 1 + 1 .. Levels
    BY <1>1
  <2>2. x[k - 1] \in LoadState /\ x[k] = g[<<x[k - 1], k>>] /\ k \in Int
    BY <1>13, <2>1 DEF Follows
  <2> QED
    BY <1>7, <2>2
<1>15. x = [k \in 1 .. Levels |-> IF k = 1 THEN z ELSE G(x[k - 1], k)]
  <2>1. x = [k \in 1 .. Levels |-> x[k]]
    BY <1>13
  <2>2. ASSUME NEW k \in 1 .. Levels PROVE x[k] = IF k = 1 THEN z ELSE G(x[k - 1], k)
    <3>1. k = 1 \/ k \in 2 .. Levels
      BY <1>1
    <3>2. x[1] = z
      BY <1>13 DEF Follows
    <3> QED
      BY <1>14, <3>1, <3>2
  <2> QED
    BY <2>1, <2>2, Zenon
<1>16. IsDescent(x, r, s, v)
  BY <1>15 DEF IsDescent, G, z
<1>17. PICK y : y = Descent(r, s, v) /\ IsDescent(y, r, s, v)
  BY <1>16 DEF Descent
<1>18. y[1] = z /\ \A k \in 2 .. Levels : y[k] = G(y[k - 1], k)
  <2>1. 1 \in 1 .. Levels
    BY <1>1
  <2>2. \A k \in 2 .. Levels : k \in 1 .. Levels /\ k # 1
    BY <1>1
  <2> QED
    BY <1>17, <2>1, <2>2 DEF IsDescent, G, z
<1>19. Follows(y, a, h, S, b, g)
  <2> SUFFICES ASSUME NEW k \in 2 .. Levels, y[k - 1] \in LoadState PROVE y[k] = g[<<y[k - 1], k>>]
    BY <1>8, <1>10, <1>11, <1>18 DEF Follows
  <2>1. k \in Int
    BY <1>1
  <2> QED
    BY <1>7, <1>18, <2>1
<1>20. y[Levels] \in W(Levels)
  <2>1. Levels \in a .. h /\ Levels \in 1 .. Levels
    BY <1>1, <1>8
  <2>2. \A k \in a .. h : y[k] \in I[k]
    BY <1>12, <1>19
  <2> QED
    BY <1>6, <2>1, <2>2
<1> QED
  BY <1>17, <1>20 DEF W

\* The tables after s have grown into those of p.
Later(s, r, p) ==
    /\ p \in LoadState /\ Tree(r, p.mem, p.num) /\ s.num <= p.num
    /\ Grown(s.mem, Unused(r, s.num), p.mem, Unused(r, p.num), {r})

MappedAt(s, r, v, a, p) ==
    /\ Later(s, r, p)
    /\ p.ok => Translate(p.mem, r, v) = a
    /\ \A x \in AllPages : x # v => Translate(p.mem, r, x) = Translate(s.mem, r, x)

\* map_page_4k maps its page and changes no other.
LEMMA Page4KCorrect ==
    ASSUME NEW r, r = Root, Granted(r), NEW s \in LoadState, s.ok, Tree(r, s.mem, s.num),
           NEW v \in AllPages, NEW a \in Nat, NEW p, p = MapPage4K(s, v, a)
    PROVE  MappedAt(s, r, v, a, p)
<1>1. Levels \in Nat /\ Levels >= 2 /\ Page4K = Levels /\ Levels \in 1 .. Levels /\ MaxFrames \in Nat
  BY LevelsAssumption, LoaderAssumption DEF Page4K
<1>2. PICK w : w = Descent(r, s, v)[Levels]
  OBVIOUS
<1>3. p = Page4KEnd(w, v, a)
  BY <1>2, MapPage4KAt
<1>4. Walking(s.mem, s.num, r, v, Levels, w)
  BY <1>2, DescentEnd
<1>5. CASE ~w.ok
  <2>1. p = w
    BY <1>3, <1>5 DEF Page4KEnd
  <2> QED
    BY <1>4, <1>5, <2>1 DEF Walking, MappedAt, Later
<1>6. CASE w.ok
  <2>1. PICK t, i, m, n : t = w.table /\ i = Index(v)[Levels] /\ m = w.mem /\ n = w.num
    OBVIOUS
  <2>2. PICK e : e = Leaf(a, Page4K) /\ e = [flags |-> {"PRESENT"}, frame |-> a]
    BY DEF Leaf
  <2>3. p = [w EXCEPT !.mem[w.table][i] = e]
    BY <1>3, <1>6, <2>1, <2>2 DEF Page4KEnd
  <2>4. w \in LoadState /\ m \in Memory /\ t \in Frames /\ n \in 0 .. MaxFrames
    BY <1>4, <2>1 DEF Walking, LoadState
  <2>5. p.mem = [m EXCEPT ![t][i] = e] /\ p.num = n /\ p.table = t /\ p.ok = w.ok
        /\ p = [mem |-> p.mem, num |-> p.num, table |-> p.table, ok |-> p.ok]
    BY <2>1, <2>3, <2>4 DEF LoadState
  <2>6. i \in Slots
    BY <1>1, <2>1, Digits DEF Slots
  <2>7. e \in Entry
    BY <2>2, LeafType
  <2>8. PICK m2 : m2 = p.mem /\ Maps(m2, m, t, i, e)
    BY <2>4, <2>5, <2>6, <2>7, Mapping
  <2>9. p \in LoadState
    <3>1. m2 \in Memory
      BY <2>8 DEF Maps
    <3> QED
      BY <2>4, <2>5, <2>8, <3>1, <1>6 DEF LoadState
  <2>10. PICK f, R : f = Unused(r, n) /\ R = {r}
    OBVIOUS
  <2>11. Forest(m, f, R, {}, {}) /\ r \in R /\ t = TablesOn(m, r, v)[Levels] /\ n \in 1 .. MaxFrames
    BY <1>4, <1>6, <2>1, <2>10 DEF Walking, Tree
  <2>12. PICK d \in {Page2M, Page4K} : d = Page4K /\ d = Levels
    BY <1>1
  <2>13. Mappable(m, r, v, d, t, i, a, m2)
    <3>1. Leaf(a, d) = e
      BY <2>2, <2>12
    <3>2. d = Levels /\ Levels \in Nat
      BY <1>1, <2>12
    <3>3. ~(d < Levels)
      BY <3>2
    <3> QED
      BY <2>1, <2>8, <2>11, <2>12, <3>1, <3>3 DEF Mappable
  <2>14. ~(d = Page2M)
    BY <1>1, <2>12 DEF Page2M
  <2>15. Forest(m2, f, R, {}, {}) /\ Grown(m, f, m2, f, R)
    BY <2>4, <2>6, <2>11, <2>13, <2>14, LeafForest
  <2>16. ASSUME NEW x \in AllPages
         PROVE  Translate(m2, r, x) = IF x = v THEN a ELSE Translate(m, r, x)
    <3>1. /\ At(m, r, x, d, t, i) => Translate(m2, r, x) = a + (x % Span[Levels - d])
          /\ ~At(m, r, x, d, t, i) => Translate(m2, r, x) = Translate(m, r, x)
      BY <2>4, <2>6, <2>11, <2>13, LeafTranslate
    <3>2. Distinct(m, R, {})
      BY <2>11 DEF Forest
    <3>3. At(m, r, x, d, t, i) <=> Prefix(x, d) = Prefix(v, d)
      BY <1>1, <2>1, <2>4, <2>11, <2>12, <3>2, AtPrefix
    <3> QED
      BY <2>12, <3>1, <3>3, SinglePage
  <2>17. Grown(s.mem, Unused(r, s.num), m2, f, R)
    <3>1. PICK m0, f0 : m0 = s.mem /\ f0 = Unused(r, s.num)
      OBVIOUS
    <3>2. Grown(m0, f0, m, f, R)
      BY <1>4, <2>1, <2>10, <3>1 DEF Walking
    <3>3. Grown(m0, f0, m2, f, R)
      BY <2>15, <3>2, GrownOn
    <3> QED
      BY <3>1, <3>3
  <2>18. s.num <= n /\ \A x \in AllPages : Translate(m, r, x) = Translate(s.mem, r, x)
    BY <1>4, <2>1 DEF Walking
  <2> QED
    BY <2>5, <2>8, <2>9, <2>10, <2>11, <2>15, <2>16, <2>17, <2>18 DEF MappedAt, Later, Tree
<1> QED
  BY <1>5, <1>6

\* A loop over the pages of a range that has mapped i of them.
Ranged(s, r, page, frame, i, p) ==
    /\ Later(s, r, p)
    /\ p.ok => s.ok /\ \A x \in 0 .. i - 1 : Translate(p.mem, r, page + x) = frame + x
    /\ \A x \in AllPages : x \notin page .. page + i - 1 =>
          Translate(p.mem, r, x) = Translate(s.mem, r, x)

RangeNext(page, frame, w, i) ==
    IF w.ok THEN MapPage4K(w, page + (i - 1), frame + (i - 1)) ELSE w

\* Two stretches of mapping are one.
LEMMA LaterOn ==
    ASSUME NEW s, NEW r, NEW w, NEW p, s.num \in Int, Later(s, r, w), Later(w, r, p)
    PROVE  Later(s, r, p)
<1>1. w.num \in Int /\ p.num \in Int
  BY LoaderAssumption DEF Later, LoadState
<1>2. s.num <= p.num
  BY <1>1 DEF Later
<1>3. Grown(s.mem, Unused(r, s.num), p.mem, Unused(r, p.num), {r})
  <2>1. PICK m1, f1, m2, f2, m3, f3, R :
            /\ m1 = s.mem /\ f1 = Unused(r, s.num) /\ m2 = w.mem /\ f2 = Unused(r, w.num)
            /\ m3 = p.mem /\ f3 = Unused(r, p.num) /\ R = {r}
    OBVIOUS
  <2>2. Grown(m1, f1, m2, f2, R) /\ Grown(m2, f2, m3, f3, R)
    BY <2>1 DEF Later
  <2>3. Grown(m1, f1, m3, f3, R)
    BY <2>2, GrownOn
  <2> QED
    BY <2>1, <2>3
<1> QED
  BY <1>2, <1>3 DEF Later

\* One more page of a range.
LEMMA RangedNext ==
    ASSUME NEW r, r = Root, Granted(r), NEW s \in LoadState, NEW page \in Nat, NEW frame \in Nat,
           NEW i \in Nat, page + i \in AllPages, NEW w, Ranged(s, r, page, frame, i, w),
           NEW p, p = RangeNext(page, frame, w, i + 1)
    PROVE  Ranged(s, r, page, frame, i + 1, p)
<1>1. (i + 1) - 1 = i /\ s.num \in Int
  BY LoaderAssumption DEF LoadState
<1>2. CASE ~w.ok
  <2>1. p = w
    BY <1>2 DEF RangeNext
  <2>2. \A x : x \in page .. page + i - 1 => x \in page .. page + (i + 1) - 1
    OBVIOUS
  <2> QED
    BY <1>2, <2>1, <2>2 DEF Ranged
<1>3. CASE w.ok
  <2>1. PICK v \in AllPages, a \in Nat : v = page + i /\ a = frame + i
    OBVIOUS
  <2>2. p = MapPage4K(w, v, a)
    BY <1>1, <1>3, <2>1 DEF RangeNext
  <2>3. w \in LoadState /\ Tree(r, w.mem, w.num) /\ Later(s, r, w)
    BY DEF Ranged, Later
  <2>4. MappedAt(w, r, v, a, p)
    BY <1>3, <2>2, <2>3, Page4KCorrect
  <2>5. Later(s, r, p)
    BY <1>1, <2>3, <2>4, LaterOn DEF MappedAt
  <2>6. ASSUME p.ok, NEW x \in 0 .. (i + 1) - 1 PROVE Translate(p.mem, r, page + x) = frame + x
    <3>1. CASE x = i
      BY <2>1, <2>4, <2>6, <3>1 DEF MappedAt
    <3>2. CASE x # i
      <4>1. x \in 0 .. i - 1 /\ page + x # v
        BY <2>1, <3>2
      <4>2. page + x \in AllPages
        BY <4>1, Spans, LevelsAssumption DEF AllPages
      <4>3. Translate(w.mem, r, page + x) = frame + x
        BY <1>3, <4>1 DEF Ranged
      <4> QED
        BY <2>4, <4>1, <4>2, <4>3 DEF MappedAt
    <3> QED
      BY <3>1, <3>2
  <2>7. ASSUME NEW x \in AllPages, x \notin page .. page + (i + 1) - 1
        PROVE  Translate(p.mem, r, x) = Translate(s.mem, r, x)
    <3>1. x # v /\ x \notin page .. page + i - 1
      BY <2>1, <2>7
    <3> QED
      BY <2>4, <3>1 DEF MappedAt, Ranged
  <2> QED
    BY <1>3, <2>5, <2>6, <2>7 DEF Ranged
<1> QED
  BY <1>2, <1>3

IsRange(x, s, page, frame, n) ==
    x = [i \in 0 .. n |-> IF i = 0 THEN s ELSE RangeNext(page, frame, x[i - 1], i)]
TheRange(s, page, frame, n) == CHOOSE x : IsRange(x, s, page, frame, n)

\* The loops of map_in_stack, identity_map and of a segment: a range of pages is
\* mapped, nothing else changes.
LEMMA MapRangeCorrect ==
    ASSUME NEW r, r = Root, Granted(r), NEW s \in LoadState, Tree(r, s.mem, s.num),
           NEW page \in Nat, NEW frame \in Nat, NEW n \in Nat,
           \A x \in 0 .. n - 1 : page + x \in AllPages,
           NEW p, p = MapRange(s, page, frame, n)
    PROVE  Ranged(s, r, page, frame, n, p)
<1> DEFINE W(k) == {w \in LoadState : Ranged(s, r, page, frame, k, w)}
           I == [k \in 0 .. n |-> W(k)]
           G(w, k) == RangeNext(page, frame, w, k)
           g == [x \in LoadState \X Int |-> G(x[1], x[2])]
<1>1. MapRange(s, page, frame, n) = TheRange(s, page, frame, n)[n]
  BY DEF MapRange, TheRange, IsRange, RangeNext
<1>3. s \in W(0)
  <2>1. s.num \in Int
    BY LoaderAssumption DEF LoadState
  <2>2. Grown(s.mem, Unused(r, s.num), s.mem, Unused(r, s.num), {r})
    BY DEF Grown
  <2>3. Later(s, r, s)
    BY <2>1, <2>2 DEF Later
  <2>4. Ranged(s, r, page, frame, 0, s)
    BY <2>3 DEF Ranged
  <2> QED
    BY <2>4
<1>4. ASSUME NEW k \in 1 .. n, NEW w \in W(k - 1) PROVE G(w, k) \in W(k)
  <2>1. PICK i \in Nat : i = k - 1 /\ i + 1 = k /\ i \in 0 .. n - 1
    OBVIOUS
  <2>2. PICK q : q = RangeNext(page, frame, w, i + 1)
    OBVIOUS
  <2>4. Ranged(s, r, page, frame, i, w) /\ page + i \in AllPages
    BY <2>1
  <2>5. Ranged(s, r, page, frame, i + 1, q)
    BY <2>2, <2>4, RangedNext
  <2>6. q \in LoadState
    BY <2>5 DEF Ranged, Later
  <2> QED
    BY <2>1, <2>2, <2>5, <2>6
<1>5. \A k : W(k) \subseteq LoadState
  OBVIOUS
<1> HIDE DEF W, G
<1>6. I \in [0 .. n -> SUBSET LoadState] /\ I[0] = W(0) /\ \A k \in 0 .. n : I[k] = W(k)
  BY <1>5
<1>7. \A w \in LoadState : \A k \in Int : g[<<w, k>>] = G(w, k)
  OBVIOUS
<1> HIDE DEF I, g
<1>8. PICK a \in Int, h \in Int : a = 0 /\ h = n /\ a <= h /\ a + 1 = 1
  OBVIOUS
<1>9. Leads(I, a, h, g)
  <2> SUFFICES ASSUME NEW k \in 1 .. n, NEW w \in I[k - 1] PROVE g[<<w, k>>] \in I[k]
    BY <1>8 DEF Leads
  <2>1. k - 1 \in 0 .. n /\ k \in 0 .. n /\ k \in Int
    OBVIOUS
  <2>2. w \in W(k - 1) /\ w \in LoadState
    BY <1>5, <1>6, <2>1
  <2> QED
    BY <1>4, <1>6, <1>7, <2>1, <2>2
<1>10. PICK b \in I[a] : b = s
  BY <1>3, <1>6, <1>8
<1>11. PICK S : S = LoadState /\ I \in [a .. h -> SUBSET S]
  BY <1>6, <1>8
<1>12. /\ \E x : x \in [a .. h -> S] /\ Follows(x, a, h, S, b, g)
       /\ \A y : Follows(y, a, h, S, b, g) => \A k \in a .. h : y[k] \in I[k]
  BY <1>8, <1>9, <1>11, Folding
<1>13. PICK x : x \in [0 .. n -> LoadState] /\ Follows(x, 0, n, LoadState, s, g)
  BY <1>8, <1>10, <1>11, <1>12
<1>14. \A k \in 1 .. n : x[k] = G(x[k - 1], k)
  <2> SUFFICES ASSUME NEW k \in 1 .. n PROVE x[k] = G(x[k - 1], k)
    OBVIOUS
  <2>1. k - 1 \in 0 .. n /\ k \in 0 + 1 .. n
    OBVIOUS
  <2>2. x[k - 1] \in LoadState /\ x[k] = g[<<x[k - 1], k>>] /\ k \in Int
    BY <1>13, <2>1 DEF Follows
  <2> QED
    BY <1>7, <2>2
<1>15. x = [k \in 0 .. n |-> IF k = 0 THEN s ELSE G(x[k - 1], k)]
  <2>1. x = [k \in 0 .. n |-> x[k]]
    BY <1>13
  <2>2. ASSUME NEW k \in 0 .. n PROVE x[k] = IF k = 0 THEN s ELSE G(x[k - 1], k)
    <3>1. k = 0 \/ k \in 1 .. n
      OBVIOUS
    <3>2. x[0] = s
      BY <1>13 DEF Follows
    <3> QED
      BY <1>14, <3>1, <3>2
  <2> QED
    BY <2>1, <2>2, Zenon
<1>16. IsRange(x, s, page, frame, n)
  BY <1>15 DEF IsRange, G
<1>17. PICK y : y = TheRange(s, page, frame, n) /\ IsRange(y, s, page, frame, n)
  BY <1>16 DEF TheRange
<1>18. y[0] = s /\ \A k \in 1 .. n : y[k] = G(y[k - 1], k)
  <2>1. 0 \in 0 .. n
    OBVIOUS
  <2>2. \A k \in 1 .. n : k \in 0 .. n /\ k # 0
    OBVIOUS
  <2> QED
    BY <1>17, <2>1, <2>2 DEF IsRange, G
<1>19. Follows(y, a, h, S, b, g)
  <2> SUFFICES ASSUME NEW k \in 1 .. n, y[k - 1] \in LoadState PROVE y[k] = g[<<y[k - 1], k>>]
    BY <1>8, <1>10, <1>11, <1>18 DEF Follows
  <2>1. k \in Int
    OBVIOUS
  <2> QED
    BY <1>7, <1>18, <2>1
<1>20. y[n] \in W(n)
  <2>1. n \in a .. h /\ n \in 0 .. n
    BY <1>8
  <2>2. \A k \in a .. h : y[k] \in I[k]
    BY <1>12, <1>19
  <2> QED
    BY <1>6, <2>1, <2>2
<1> QED
  BY <1>1, <1>17, <1>20 DEF W

\* What the linker script and the ELF parser say of the headers.
LEMMA Headers ==
    ASSUME NEW hs \in Executables
    PROVE  /\ Len(hs) \in Nat
           /\ \A k \in 1 .. Len(hs) : HeaderPages(hs[k]) \in Nat /\ hs[k].vaddr \in Nat
           /\ Loads(hs) \subseteq 1 .. Len(hs) /\ Loads(hs) # {}
           /\ \A k \in 1 .. Len(hs) : k \notin Loads(hs) => HeaderPages(hs[k]) = 0
           /\ \A k \in Loads(hs) : hs[k].vaddr = TextStart + PagesBefore(hs, k)
           /\ TextStart + TotalPages(hs) <= Span[Levels]
<1>1. /\ Len(hs) \in Nat /\ hs \in [1 .. Len(hs) -> ProgramHeader]
      /\ Loads(hs) # {} /\ LinkedInOrder(hs) /\ TextStart + TotalPages(hs) <= Span[Levels]
  BY ExecutablesAssumption
<1>2. ASSUME NEW k \in 1 .. Len(hs) PROVE HeaderPages(hs[k]) \in Nat /\ hs[k].vaddr \in Nat
  <2>1. hs[k].memory_size \in Nat /\ hs[k].vaddr \in Nat
    BY <1>1 DEF ProgramHeader
  <2>a. PICK d \in Nat \ {0} : d = PAGE_SIZE
    BY PageSizeAssumption
  <2>b. hs[k].memory_size + d - 1 \in Nat
    BY <2>1
  <2>2. PICK a \in Nat : d = PAGE_SIZE /\ a = hs[k].memory_size + PAGE_SIZE - 1
    BY <2>a, <2>b
  <2>3. a \div d \in Nat
    BY Division
  <2>4. HeaderPages(hs[k]) = a \div d \/ HeaderPages(hs[k]) = 0
    BY <2>2 DEF HeaderPages
  <2> QED
    BY <2>1, <2>3, <2>4
<1>3. Loads(hs) \subseteq 1 .. Len(hs)
      /\ \A k \in 1 .. Len(hs) : k \notin Loads(hs) => HeaderPages(hs[k]) = 0
  BY <1>1 DEF Loads, HeaderPages
<1> QED
  BY <1>1, <1>2, <1>3 DEF LinkedInOrder

IsOffset(x, hs) ==
    x = [j \in 1 .. Len(hs) + 1 |-> IF j = 1 THEN 0 ELSE x[j - 1] + HeaderPages(hs[j - 1])]
Offset(hs) == CHOOSE x : IsOffset(x, hs)

\* current_offset grows by the pages of each header.
LEMMA Offsets ==
    ASSUME NEW hs \in Executables
    PROVE  /\ \A k \in 1 .. Len(hs) + 1 : PagesBefore(hs, k) \in Nat
           /\ PagesBefore(hs, 1) = 0
           /\ \A k \in 1 .. Len(hs) : PagesBefore(hs, k + 1) = PagesBefore(hs, k) + HeaderPages(hs[k])
           /\ \A j, k \in 1 .. Len(hs) + 1 : j <= k => PagesBefore(hs, j) <= PagesBefore(hs, k)
<1>1. PICK n \in Nat : n = Len(hs) /\ \A k \in 1 .. n : HeaderPages(hs[k]) \in Nat
  BY Headers
<1>2. \A k : PagesBefore(hs, k) = Offset(hs)[k]
  BY DEF PagesBefore, Offset, IsOffset
<1> DEFINE G(o, j) == o + HeaderPages(hs[j - 1])
           g == [x \in Nat \X Int |-> IF x[2] \in 2 .. n + 1 THEN G(x[1], x[2]) ELSE x[1]]
<1>3. \A o \in Nat : \A j \in 2 .. n + 1 : G(o, j) \in Nat
  <2> SUFFICES ASSUME NEW o \in Nat, NEW j \in 2 .. n + 1 PROVE G(o, j) \in Nat
    OBVIOUS
  <2>1. j - 1 \in 1 .. n
    OBVIOUS
  <2> QED
    BY <1>1, <2>1
<1> HIDE DEF G
<1>4. g \in [Nat \X Int -> Nat]
  BY <1>3
<1>a. \A o \in Nat : \A j \in 2 .. n + 1 : g[<<o, j>>] = G(o, j)
  OBVIOUS
<1> HIDE DEF g
<1>5. PICK x : x \in [1 .. n + 1 -> Nat] /\ x[1] = 0
               /\ \A k \in 1 + 1 .. n + 1 : x[k] = g[<<x[k - 1], k>>]
  <2>1. PICK a \in Int, h \in Int, z \in Nat : a = 1 /\ h = n + 1 /\ a <= h /\ z = 0
    OBVIOUS
  <2>2. \E x : Recursive(x, a, h, Nat, z, g)
    BY <1>4, <2>1, Recursion
  <2> QED
    BY <2>1, <2>2 DEF Recursive
<1>6. \A k \in 2 .. n + 1 : x[k] = G(x[k - 1], k)
  <2> SUFFICES ASSUME NEW k \in 2 .. n + 1 PROVE x[k] = G(x[k - 1], k)
    OBVIOUS
  <2>1. x[k] = g[<<x[k - 1], k>>] /\ x[k - 1] \in Nat
    BY <1>5
  <2> QED
    BY <1>a, <2>1
<1>7. x = [k \in 1 .. n + 1 |-> IF k = 1 THEN 0 ELSE G(x[k - 1], k)]
  <2>1. x = [k \in 1 .. n + 1 |-> x[k]]
    BY <1>5
  <2>2. ASSUME NEW k \in 1 .. n + 1 PROVE x[k] = IF k = 1 THEN 0 ELSE G(x[k - 1], k)
    <3>1. k = 1 \/ k \in 2 .. n + 1
      OBVIOUS
    <3>2. x[1] = 0
      BY <1>5
    <3> QED
      BY <1>6, <3>1, <3>2
  <2> QED
    BY <2>1, <2>2, Zenon
<1>8. IsOffset(x, hs)
  BY <1>1, <1>7 DEF IsOffset, G
<1>9. PICK y : y = Offset(hs) /\ IsOffset(y, hs)
  BY <1>8 DEF Offset
<1>10. y[1] = 0 /\ \A k \in 2 .. n + 1 : y[k] = y[k - 1] + HeaderPages(hs[k - 1])
  <2>1. 1 \in 1 .. n + 1
    OBVIOUS
  <2>2. \A k \in 2 .. n + 1 : k \in 1 .. n + 1 /\ k # 1
    OBVIOUS
  <2> QED
    BY <1>1, <1>9, <2>1, <2>2 DEF IsOffset
<1>11. \A k \in 1 .. n : y[k + 1] = y[k] + HeaderPages(hs[k])
  <2> SUFFICES ASSUME NEW k \in 1 .. n PROVE y[k + 1] = y[k] + HeaderPages(hs[k])
    OBVIOUS
  <2>1. k + 1 \in 2 .. n + 1 /\ (k + 1) - 1 = k
    OBVIOUS
  <2> QED
    BY <1>10, <2>1
<1>12. \A k \in 1 .. n + 1 : y[k] \in Nat
  <2> DEFINE T == {k \in 1 .. n + 1 : y[k] \in Nat}
  <2>1. PICK a \in Int, h \in Int : a = 1 /\ h = n + 1 /\ a <= h
    OBVIOUS
  <2>2. a \in T
    BY <1>10, <2>1
  <2>3. \A k \in a .. h - 1 : k \in T => k + 1 \in T
    <3> SUFFICES ASSUME NEW k \in 1 .. n, y[k] \in Nat PROVE y[k + 1] \in Nat
      BY <2>1
    <3> QED
      BY <1>1, <1>11
  <2> HIDE DEF T
  <2>4. a .. h \subseteq T
    BY <2>1, <2>2, <2>3, Ascent
  <2> QED
    BY <2>1, <2>4 DEF T
<1>13. ASSUME NEW j \in 1 .. n + 1 PROVE \A k \in j .. n + 1 : y[j] <= y[k]
  <2> DEFINE T == {k \in j .. n + 1 : y[j] <= y[k]}
  <2>1. PICK a \in Int, h \in Int : a = j /\ h = n + 1 /\ a <= h
    OBVIOUS
  <2>2. a \in T
    BY <1>12, <2>1
  <2>3. \A k \in a .. h - 1 : k \in T => k + 1 \in T
    <3> SUFFICES ASSUME NEW k \in j .. n, y[j] <= y[k] PROVE y[j] <= y[k + 1]
      BY <2>1
    <3>1. k \in 1 .. n /\ k \in 1 .. n + 1
      OBVIOUS
    <3>2. y[k + 1] = y[k] + HeaderPages(hs[k]) /\ HeaderPages(hs[k]) \in Nat
          /\ y[k] \in Nat /\ y[j] \in Nat
      BY <1>1, <1>11, <1>12, <3>1
    <3> QED
      BY <3>2
  <2> HIDE DEF T
  <2>4. a .. h \subseteq T
    BY <2>1, <2>2, <2>3, Ascent
  <2> QED
    BY <2>1, <2>4 DEF T
<1>14. \A j, k \in 1 .. n + 1 : j <= k => y[j] <= y[k]
  BY <1>13
<1> QED
  BY <1>1, <1>2, <1>9, <1>10, <1>11, <1>12, <1>14

SegmentNext(start, w, k) ==
    MapRange(w, headers[k].vaddr, start + PagesBefore(headers, k), HeaderPages(headers[k]))
IsSegmentLoop(x, s, start) ==
    x = [k \in 0 .. Len(headers) |-> IF k = 0 THEN s ELSE SegmentNext(start, x[k - 1], k)]
SegmentLoop(s, start) == CHOOSE x : IsSegmentLoop(x, s, start)

\* The offsets that are mapped once k headers are.
Packed(s, r, start, k, w) ==
    Ranged(s, r, TextStart, start, PagesBefore(headers, k + 1), w)

\* The image and the stack fit into the address space.
LEMMA ImageRange ==
    ASSUME headers \in Executables
    PROVE  /\ ImagePages(headers) \in Nat /\ TotalPages(headers) = ImagePages(headers) + StackPages
           /\ TotalPages(headers) \in Nat /\ TextStart \in Nat /\ StackPages \in Nat
           /\ \A x \in 0 .. TotalPages(headers) - 1 : TextStart + x \in AllPages
           /\ \A k \in 1 .. Len(headers) + 1 : PagesBefore(headers, k) <= ImagePages(headers)
<1>1. PICK hs \in Executables : hs = headers
  OBVIOUS
<1>2. Len(hs) \in Nat /\ TextStart + TotalPages(hs) <= Span[Levels]
  BY Headers
<1>3. ImagePages(hs) \in Nat /\ \A k \in 1 .. Len(hs) + 1 : PagesBefore(hs, k) <= ImagePages(hs)
  <2>1. Len(hs) + 1 \in 1 .. Len(hs) + 1 /\ \A k \in 1 .. Len(hs) + 1 : k <= Len(hs) + 1
    BY <1>2
  <2> QED
    BY <2>1, Offsets DEF ImagePages
<1>4. TextStart \in Nat /\ StackPages \in Nat
  BY LoaderAssumption
<1>5. TotalPages(hs) = ImagePages(hs) + StackPages
  BY DEF TotalPages
<1>6. Span[Levels] \in Nat
  BY Spans, LevelsAssumption
<1>7. \A x \in 0 .. TotalPages(hs) - 1 : TextStart + x \in AllPages
  BY <1>2, <1>3, <1>4, <1>5, <1>6 DEF AllPages
<1> QED
  BY <1>1, <1>3, <1>4, <1>5, <1>7

\* One more header: its pages follow those that are mapped, for the segments are
\* linked in the order in which they are packed.
LEMMA PackedNext ==
    ASSUME headers \in Executables, NEW r, r = Root, Granted(r), NEW s \in LoadState,
           NEW start \in Nat, NEW k \in 1 .. Len(headers), NEW w, Packed(s, r, start, k - 1, w),
           NEW p, p = SegmentNext(start, w, k)
    PROVE  Packed(s, r, start, k, p)
<1>1. PICK hs \in Executables : hs = headers
  OBVIOUS
<1>2. Len(hs) \in Nat /\ HeaderPages(hs[k]) \in Nat /\ hs[k].vaddr \in Nat
      /\ (k \notin Loads(hs) => HeaderPages(hs[k]) = 0)
      /\ (k \in Loads(hs) => hs[k].vaddr = TextStart + PagesBefore(hs, k))
  BY <1>1, Headers
<1>3. k \in 1 .. Len(hs) + 1 /\ k + 1 \in 1 .. Len(hs) + 1 /\ (k - 1) + 1 = k /\ k \in 1 .. Len(hs)
  BY <1>1, <1>2
<1>4. PICK c \in Nat, n \in Nat, b \in Nat :
          /\ c = PagesBefore(hs, k) /\ n = HeaderPages(hs[k]) /\ b = PagesBefore(hs, k + 1)
          /\ b = c + n
  BY <1>2, <1>3, Offsets
<1>a. b = c + n
  BY <1>4
<1>5. Ranged(s, r, TextStart, start, c, w)
  BY <1>1, <1>3, <1>4 DEF Packed
<1>6. w \in LoadState /\ Tree(r, w.mem, w.num)
  BY <1>5 DEF Ranged, Later
<1>7. PICK page \in Nat, frame \in Nat : page = hs[k].vaddr /\ frame = start + c
  BY <1>2
<1>8. p = MapRange(w, page, frame, n)
  BY <1>1, <1>4, <1>7 DEF SegmentNext
<1>b. TextStart \in Nat
  BY LoaderAssumption
<1>9. \A x \in 0 .. b - 1 : TextStart + x \in AllPages
  <2>1. PICK j, h \in Nat : j = ImagePages(hs) /\ h = TotalPages(hs) /\ h = j + StackPages
                           /\ \A x \in 0 .. h - 1 : TextStart + x \in AllPages
    BY <1>1, ImageRange
  <2>2. b <= j /\ StackPages \in Nat
    BY <1>1, <1>3, <1>4, <2>1, ImageRange
  <2>3. b <= h
    BY <2>1, <2>2
  <2> QED
    BY <2>1, <2>3
<1>10. n > 0 => page = TextStart + c
  BY <1>2, <1>4, <1>7
<1>11. \A x \in 0 .. n - 1 : page + x \in AllPages
  <2> SUFFICES ASSUME NEW x \in 0 .. n - 1 PROVE page + x \in AllPages
    OBVIOUS
  <2>1. page + x = TextStart + (c + x) /\ c + x \in 0 .. b - 1
    BY <1>a, <1>b, <1>10
  <2> QED
    BY <1>9, <2>1
<1>12. Ranged(w, r, page, frame, n, p)
  BY <1>6, <1>8, <1>11, MapRangeCorrect
<1>13. Later(s, r, p)
  <2>1. s.num \in Int
    BY LoaderAssumption DEF LoadState
  <2> QED
    BY <1>5, <1>12, <2>1, LaterOn DEF Ranged
<1>14. ASSUME p.ok PROVE s.ok /\ \A x \in 0 .. b - 1 : Translate(p.mem, r, TextStart + x) = start + x
  <2>1. w.ok /\ \A x \in 0 .. n - 1 : Translate(p.mem, r, page + x) = frame + x
    BY <1>12, <1>14 DEF Ranged
  <2>2. s.ok /\ \A x \in 0 .. c - 1 : Translate(w.mem, r, TextStart + x) = start + x
    BY <1>5, <2>1 DEF Ranged
  <2> SUFFICES ASSUME NEW x \in 0 .. b - 1 PROVE Translate(p.mem, r, TextStart + x) = start + x
    BY <2>2
  <2>3. CASE x < c
    <3>1. x \in 0 .. c - 1 /\ TextStart + x \in AllPages
      BY <1>9, <2>3
    <3>2. TextStart + x \notin page .. page + n - 1
      BY <1>a, <1>b, <1>10, <2>3
    <3>3. Translate(p.mem, r, TextStart + x) = Translate(w.mem, r, TextStart + x)
      BY <1>12, <3>1, <3>2 DEF Ranged
    <3> QED
      BY <2>2, <3>1, <3>3
  <2>4. CASE ~(x < c)
    <3>1. PICK y \in 0 .. n - 1 : y = x - c
      BY <1>a, <2>4
    <3>2. page + y = TextStart + x /\ frame + y = start + x
      BY <1>a, <1>b, <1>7, <1>10, <3>1
    <3> QED
      BY <2>1, <3>2
  <2> QED
    BY <2>3, <2>4
<1>15. ASSUME NEW x \in AllPages, x \notin TextStart .. TextStart + b - 1
       PROVE  Translate(p.mem, r, x) = Translate(s.mem, r, x)
  <2>1. x \in Nat
    BY Digits
  <2>2. x \notin TextStart .. TextStart + c - 1 /\ x \notin page .. page + n - 1
    BY <1>a, <1>b, <1>10, <1>15, <2>1
  <2> QED
    BY <1>5, <1>12, <2>2 DEF Ranged
<1> QED
  BY <1>1, <1>4, <1>13, <1>14, <1>15 DEF Packed, Ranged

\* The loop of map_in_kernel.
LEMMA MapSegmentsCorrect ==
    ASSUME headers \in Executables, NEW r, r = Root, Granted(r), NEW s \in LoadState,
           Tree(r, s.mem, s.num), NEW start \in Nat, NEW p, p = MapSegments(s, start)
    PROVE  Ranged(s, r, TextStart, start, ImagePages(headers), p)
<1>a. PICK n \in Nat : n = Len(headers)
  BY Headers
<1> DEFINE W(k) == {w \in LoadState : Packed(s, r, start, k, w)}
           I == [k \in 0 .. n |-> W(k)]
           G(w, k) == SegmentNext(start, w, k)
           g == [x \in LoadState \X Int |-> G(x[1], x[2])]
<1>1. MapSegments(s, start) = SegmentLoop(s, start)[n]
  BY <1>a DEF MapSegments, SegmentLoop, IsSegmentLoop, SegmentNext
<1>3. s \in W(0)
  <2>1. s.num \in Int
    BY LoaderAssumption DEF LoadState
  <2>2. Grown(s.mem, Unused(r, s.num), s.mem, Unused(r, s.num), {r})
    BY DEF Grown
  <2>3. Later(s, r, s)
    BY <2>1, <2>2 DEF Later
  <2>4. PagesBefore(headers, 0 + 1) = 0
    BY Offsets
  <2>5. Ranged(s, r, TextStart, start, 0, s)
    BY <2>3 DEF Ranged
  <2> QED
    BY <2>4, <2>5 DEF Packed
<1>4. ASSUME NEW k \in 1 .. n, NEW w \in W(k - 1) PROVE G(w, k) \in W(k)
  <2>1. PICK q : q = SegmentNext(start, w, k)
    OBVIOUS
  <2>2. Packed(s, r, start, k - 1, w) /\ k \in 1 .. Len(headers)
    BY <1>a
  <2>3. Packed(s, r, start, k, q)
    BY <2>1, <2>2, PackedNext
  <2>4. q \in LoadState
    BY <2>3 DEF Packed, Ranged, Later
  <2> QED
    BY <2>1, <2>3, <2>4
<1>5. \A k : W(k) \subseteq LoadState
  OBVIOUS
<1> HIDE DEF W, G
<1>6. I \in [0 .. n -> SUBSET LoadState] /\ I[0] = W(0) /\ \A k \in 0 .. n : I[k] = W(k)
  BY <1>5
<1>7. \A w \in LoadState : \A k \in Int : g[<<w, k>>] = G(w, k)
  OBVIOUS
<1> HIDE DEF I, g
<1>8. PICK a \in Int, h \in Int : a = 0 /\ h = n /\ a <= h /\ a + 1 = 1
  OBVIOUS
<1>9. Leads(I, a, h, g)
  <2> SUFFICES ASSUME NEW k \in 1 .. n, NEW w \in I[k - 1] PROVE g[<<w, k>>] \in I[k]
    BY <1>8 DEF Leads
  <2>1. k - 1 \in 0 .. n /\ k \in 0 .. n /\ k \in Int
    OBVIOUS
  <2>2. w \in W(k - 1) /\ w \in LoadState
    BY <1>5, <1>6, <2>1
  <2> QED
    BY <1>4, <1>6, <1>7, <2>1, <2>2
<1>10. PICK b \in I[a] : b = s
  BY <1>3, <1>6, <1>8
<1>11. PICK S : S = LoadState /\ I \in [a .. h -> SUBSET S]
  BY <1>6, <1>8
<1>12. /\ \E x : x \in [a .. h -> S] /\ Follows(x, a, h, S, b, g)
       /\ \A y : Follows(y, a, h, S, b, g) => \A k \in a .. h : y[k] \in I[k]
  BY <1>8, <1>9, <1>11, Folding
<1>13. PICK x : x \in [0 .. n -> LoadState] /\ Follows(x, 0, n, LoadState, s, g)
  BY <1>8, <1>10, <1>11, <1>12
<1>14. \A k \in 1 .. n : x[k] = G(x[k - 1], k)
  <2> SUFFICES ASSUME NEW k \in 1 .. n PROVE x[k] = G(x[k - 1], k)
    OBVIOUS
  <2>1. k - 1 \in 0 .. n /\ k \in 0 + 1 .. n
    OBVIOUS
  <2>2. x[k - 1] \in LoadState /\ x[k] = g[<<x[k - 1], k>>] /\ k \in Int
    BY <1>13, <2>1 DEF Follows
  <2> QED
    BY <1>7, <2>2
<1>15. x = [k \in 0 .. n |-> IF k = 0 THEN s ELSE G(x[k - 1], k)]
  <2>1. x = [k \in 0 .. n |-> x[k]]
    BY <1>13
  <2>2. ASSUME NEW k \in 0 .. n PROVE x[k] = IF k = 0 THEN s ELSE G(x[k - 1], k)
    <3>1. k = 0 \/ k \in 1 .. n
      OBVIOUS
    <3>2. x[0] = s
      BY <1>13 DEF Follows
    <3> QED
      BY <1>14, <3>1, <3>2
  <2> QED
    BY <2>1, <2>2, Zenon
<1>16. IsSegmentLoop(x, s, start)
  BY <1>a, <1>15 DEF IsSegmentLoop, G
<1>17. PICK y : y = SegmentLoop(s, start) /\ IsSegmentLoop(y, s, start)
  BY <1>16 DEF SegmentLoop
<1>18. y[0] = s /\ \A k \in 1 .. n : y[k] = G(y[k - 1], k)
  <2>1. 0 \in 0 .. n
    OBVIOUS
  <2>2. \A k \in 1 .. n : k \in 0 .. n /\ k # 0
    OBVIOUS
  <2> QED
    BY <1>a, <1>17, <2>1, <2>2 DEF IsSegmentLoop, G
<1>19. Follows(y, a, h, S, b, g)
  <2> SUFFICES ASSUME NEW k \in 1 .. n, y[k - 1] \in LoadState PROVE y[k] = g[<<y[k - 1], k>>]
    BY <1>8, <1>10, <1>11, <1>18 DEF Follows
  <2>1. k \in Int
    OBVIOUS
  <2> QED
    BY <1>7, <1>18, <2>1
<1>20. y[n] \in W(n)
  <2>1. n \in a .. h /\ n \in 0 .. n
    BY <1>8
  <2>2. \A k \in a .. h : y[k] \in I[k]
    BY <1>12, <1>19
  <2> QED
    BY <1>6, <2>1, <2>2
<1>21. Packed(s, r, start, n, p)
  BY <1>1, <1>17, <1>20 DEF W
<1> QED
  BY <1>a, <1>21 DEF Packed, ImagePages

\* end_vaddr: the last segment that is loaded ends where the image ends.
LEMMA ImageEnd ==
    ASSUME NEW hs \in Executables
    PROVE  Max({0} \cup {hs[k].vaddr + HeaderPages(hs[k]) : k \in Loads(hs)})
               = TextStart + ImagePages(hs)
<1> DEFINE E == {0} \cup {hs[k].vaddr + HeaderPages(hs[k]) : k \in Loads(hs)}
           top == TextStart + ImagePages(hs)
           T == {j \in 1 .. Len(hs) + 1 : (\E k \in Loads(hs) : k < j) =>
                    \E k \in Loads(hs) : PagesBefore(hs, k + 1) = PagesBefore(hs, j)}
<1>1. PICK n \in Nat : n = Len(hs)
  BY Headers
<1>2. /\ \A k \in 1 .. n : HeaderPages(hs[k]) \in Nat /\ hs[k].vaddr \in Nat
      /\ Loads(hs) \subseteq 1 .. n /\ Loads(hs) # {}
      /\ \A k \in 1 .. n : k \notin Loads(hs) => HeaderPages(hs[k]) = 0
      /\ \A k \in Loads(hs) : hs[k].vaddr = TextStart + PagesBefore(hs, k)
  BY <1>1, Headers
<1>3. /\ \A k \in 1 .. n + 1 : PagesBefore(hs, k) \in Nat
      /\ \A k \in 1 .. n : PagesBefore(hs, k + 1) = PagesBefore(hs, k) + HeaderPages(hs[k])
      /\ \A j, k \in 1 .. n + 1 : j <= k => PagesBefore(hs, j) <= PagesBefore(hs, k)
  BY <1>1, Offsets
<1>4. TextStart \in Nat
  BY LoaderAssumption
<1>5. PICK a \in Int, h \in Int : a = 1 /\ h = n + 1 /\ a <= h
  OBVIOUS
<1>6. a \in T
  BY <1>1, <1>2, <1>5
<1>7. \A j \in a .. h - 1 : j \in T => j + 1 \in T
  <2> SUFFICES ASSUME NEW j \in 1 .. n, j \in T, \E k \in Loads(hs) : k < j + 1
               PROVE  \E k \in Loads(hs) : PagesBefore(hs, k + 1) = PagesBefore(hs, j + 1)
    BY <1>1, <1>5
  <2>1. CASE j \in Loads(hs)
    BY <2>1
  <2>2. CASE j \notin Loads(hs)
    <3>1. \E k \in Loads(hs) : k < j
      BY <1>2, <2>2
    <3>2. PICK k \in Loads(hs) : PagesBefore(hs, k + 1) = PagesBefore(hs, j)
      BY <3>1
    <3>3. PagesBefore(hs, j + 1) = PagesBefore(hs, j) + 0 /\ PagesBefore(hs, j) \in Nat
      BY <1>2, <1>3, <2>2
    <3>4. PagesBefore(hs, j + 1) = PagesBefore(hs, j)
      BY <3>3
    <3> QED
      BY <3>2, <3>4
  <2> QED
    BY <2>1, <2>2
<1> HIDE DEF T
<1>8. a .. h \subseteq T
  BY <1>5, <1>6, <1>7, Ascent
<1>9. PICK k \in Loads(hs) : PagesBefore(hs, k + 1) = ImagePages(hs)
  <2>1. n + 1 \in T
    BY <1>5, <1>8
  <2>2. \E k \in Loads(hs) : k < n + 1
    BY <1>2
  <2> QED
    BY <1>1, <2>1, <2>2 DEF T, ImagePages
<1>10. ASSUME NEW j \in Loads(hs)
       PROVE  /\ hs[j].vaddr + HeaderPages(hs[j]) = TextStart + PagesBefore(hs, j + 1)
              /\ PagesBefore(hs, j + 1) <= ImagePages(hs) /\ PagesBefore(hs, j + 1) \in Nat
  <2>1. j \in 1 .. n /\ j + 1 \in 1 .. n + 1 /\ n + 1 \in 1 .. n + 1
        /\ j + 1 <= n + 1 /\ j \in 1 .. n + 1
    BY <1>2
  <2>2. PICK c \in Nat, p \in Nat : c = PagesBefore(hs, j) /\ p = HeaderPages(hs[j])
    BY <1>2, <1>3, <2>1
  <2>3. hs[j].vaddr = TextStart + c /\ PagesBefore(hs, j + 1) = c + p
    BY <1>2, <1>3, <2>1, <2>2
  <2>4. hs[j].vaddr + p = TextStart + (c + p)
    BY <1>4, <2>3
  <2> QED
    BY <1>1, <1>3, <2>1, <2>2, <2>3, <2>4 DEF ImagePages
<1>11. top \in E /\ top \in Nat
  BY <1>4, <1>9, <1>10
<1>12. \A x \in E : x <= top /\ x \in Nat
  <2> SUFFICES ASSUME NEW x \in E PROVE x <= top /\ x \in Nat
    OBVIOUS
  <2>1. CASE x = 0
    BY <1>11, <2>1
  <2>2. ASSUME NEW j \in Loads(hs), x = hs[j].vaddr + HeaderPages(hs[j]) PROVE x <= top /\ x \in Nat
    BY <1>4, <1>9, <1>10, <2>2
  <2> QED
    BY <2>1, <2>2
<1> HIDE DEF E, top
<1>13. Max(E) = top
  <2>1. \E x \in E : \A y \in E : x >= y
    BY <1>11, <1>12
  <2>2. Max(E) \in E /\ \A y \in E : Max(E) >= y
    BY <2>1 DEF Max
  <2>3. PICK m : m = Max(E)
    OBVIOUS
  <2>4. m \in Nat /\ m <= top /\ m >= top
    BY <1>11, <1>12, <2>2, <2>3
  <2> QED
    BY <1>11, <2>3, <2>4
<1> QED
  BY <1>13 DEF E, top

Block(r) == r .. r + MaxFrames - 1
TablesIn(m, r) ==
    \A v \in AllPages : \A k \in 1 .. Levels : TablesOn(m, r, v)[k] \in Block(r) \cup {NoFrame}
Sees(m, r, page, frame, n) == \A x \in 0 .. n - 1 : Translate(m, r, page + x) = frame + x

\* Each page of each segment has its contents at its place from start on.
ImageAt(img, hs, start) ==
    \A k \in Loads(hs) : \A i \in 0 .. HeaderPages(hs[k]) - 1 :
        start + (PagesBefore(hs, k) + i) \in Frames =>
            img[start + (PagesBefore(hs, k) + i)] = Content(hs, k, i)
ImageOnly(img, hs, start) ==
    \A f \in Frames : img[f] # Stale => f \in start .. start + ImagePages(hs) - 1

\* Two headers have no page in common.
LEMMA HeadersApart ==
    ASSUME NEW hs \in Executables, NEW j \in Loads(hs), NEW k \in Loads(hs),
           NEW x \in 0 .. HeaderPages(hs[j]) - 1, NEW y \in 0 .. HeaderPages(hs[k]) - 1,
           PagesBefore(hs, j) + x = PagesBefore(hs, k) + y
    PROVE  j = k
<1>1. PICK n \in Nat : n = Len(hs) /\ Loads(hs) \subseteq 1 .. n
                       /\ \A i \in 1 .. n : HeaderPages(hs[i]) \in Nat
  BY Headers
<1>2. ASSUME NEW i \in Loads(hs), NEW l \in Loads(hs), i < l
      PROVE  PagesBefore(hs, i) + HeaderPages(hs[i]) <= PagesBefore(hs, l)
             /\ PagesBefore(hs, i) \in Nat /\ PagesBefore(hs, l) \in Nat
             /\ HeaderPages(hs[i]) \in Nat /\ HeaderPages(hs[l]) \in Nat
  <2>1. i \in 1 .. n /\ i + 1 \in 1 .. n + 1 /\ l \in 1 .. n + 1 /\ i \in 1 .. n + 1
        /\ i + 1 <= l /\ l \in 1 .. n
    BY <1>1, <1>2
  <2>2. PagesBefore(hs, i + 1) = PagesBefore(hs, i) + HeaderPages(hs[i])
    BY <1>1, <2>1, Offsets
  <2>3. PagesBefore(hs, i + 1) <= PagesBefore(hs, l)
    BY <1>1, <2>1, Offsets
  <2> QED
    BY <1>1, <2>1, <2>2, <2>3, Offsets
<1>3. ~(j < k)
  <2> SUFFICES ASSUME j < k PROVE FALSE
    OBVIOUS
  <2>1. PICK a \in Nat, b \in Nat, c \in Nat :
            a = PagesBefore(hs, j) /\ b = PagesBefore(hs, k) /\ c = HeaderPages(hs[j]) /\ a + c <= b
    BY <1>2
  <2>2. x < c /\ a + x = b + y
    BY <2>1
  <2> QED
    BY <2>1, <2>2
<1>4. ~(k < j)
  <2> SUFFICES ASSUME k < j PROVE FALSE
    OBVIOUS
  <2>1. PICK a \in Nat, b \in Nat, c \in Nat :
            a = PagesBefore(hs, k) /\ b = PagesBefore(hs, j) /\ c = HeaderPages(hs[k]) /\ a + c <= b
    BY <1>2
  <2>2. y < c /\ a + y = b + x
    BY <2>1
  <2> QED
    BY <2>1, <2>2
<1> QED
  BY <1>1, <1>3, <1>4

\* map_in_kernel writes each page of each segment once.
LEMMA Copying ==
    ASSUME headers \in Executables, NEW start \in Nat, \A f \in Frames : image[f] = Stale,
           NEW img, img = ImageCopied(start)
    PROVE  DOMAIN img = Frames /\ ImageAt(img, headers, start) /\ ImageOnly(img, headers, start)
<1> DEFINE at(f, k) == f - start - PagesBefore(headers, k)
           within(f, k) == at(f, k) \in 0 .. HeaderPages(headers[k]) - 1
           value(f) == IF \E k \in Loads(headers) : within(f, k)
                       THEN LET k == CHOOSE k \in Loads(headers) : within(f, k)
                            IN  Content(headers, k, at(f, k))
                       ELSE image[f]
<1>1. img = [f \in Frames |-> value(f)]
  BY DEF ImageCopied
<1>2. PICK n \in Nat : n = Len(headers) /\ Loads(headers) \subseteq 1 .. n
                       /\ \A i \in 1 .. n : HeaderPages(headers[i]) \in Nat
  BY Headers
<1>3. ASSUME NEW k \in Loads(headers)
      PROVE  PagesBefore(headers, k) \in Nat /\ HeaderPages(headers[k]) \in Nat
             /\ PagesBefore(headers, k) + HeaderPages(headers[k]) <= ImagePages(headers)
             /\ ImagePages(headers) \in Nat
  <2>1. k \in 1 .. n /\ k \in 1 .. n + 1 /\ k + 1 \in 1 .. n + 1
    BY <1>2
  <2>2. PagesBefore(headers, k + 1) = PagesBefore(headers, k) + HeaderPages(headers[k])
    BY <1>2, <2>1, Offsets
  <2> QED
    BY <1>2, <2>1, <2>2, Offsets, ImageRange
<1>4. ASSUME NEW f \in Frames, NEW k \in Loads(headers), within(f, k)
      PROVE  /\ value(f) = Content(headers, k, at(f, k))
             /\ f \in start .. start + ImagePages(headers) - 1
  <2>1. f \in Nat
    BY PoolAssumption
  <2>2. PICK j \in Loads(headers) : /\ j = CHOOSE l \in Loads(headers) : within(f, l)
                                    /\ within(f, j)
    BY <1>4
  <2>3. PagesBefore(headers, j) + at(f, j) = PagesBefore(headers, k) + at(f, k)
    BY <1>3, <2>1
  <2>4. PICK hs \in Executables : hs = headers
    OBVIOUS
  <2>5. PICK x \in 0 .. HeaderPages(hs[j]) - 1, y \in 0 .. HeaderPages(hs[k]) - 1 :
            x = at(f, j) /\ y = at(f, k)
    BY <1>4, <2>2, <2>4
  <2>6. j = k
    BY <2>3, <2>4, <2>5, HeadersApart
  <2>7. value(f) = Content(headers, k, at(f, k))
    BY <1>4, <2>2, <2>6
  <2>8. f \in start .. start + ImagePages(headers) - 1
    BY <1>3, <1>4, <2>1
  <2> QED
    BY <2>7, <2>8
<1>5. ImageAt(img, headers, start)
  <2> SUFFICES ASSUME NEW k \in Loads(headers), NEW i \in 0 .. HeaderPages(headers[k]) - 1,
                      start + (PagesBefore(headers, k) + i) \in Frames
               PROVE  img[start + (PagesBefore(headers, k) + i)] = Content(headers, k, i)
    BY DEF ImageAt
  <2>1. PICK f \in Frames : f = start + (PagesBefore(headers, k) + i)
    OBVIOUS
  <2>2. at(f, k) = i
    BY <1>3, <2>1
  <2> HIDE DEF at
  <2>3. within(f, k)
    BY <2>2
  <2> HIDE DEF value, within
  <2>4. value(f) = Content(headers, k, i)
    BY <1>4, <2>2, <2>3
  <2>5. img[f] = value(f)
    BY <1>1
  <2> QED
    BY <2>1, <2>4, <2>5
<1>6. ImageOnly(img, headers, start)
  <2> SUFFICES ASSUME NEW f \in Frames, img[f] # Stale
               PROVE  f \in start .. start + ImagePages(headers) - 1
    BY DEF ImageOnly
  <2>1. value(f) # Stale
    BY <1>1
  <2>2. PICK k \in Loads(headers) : within(f, k)
    BY <2>1
  <2> QED
    BY <1>4, <2>2
<1> QED
  BY <1>1, <1>5, <1>6

HasBootInfo == {"exit", "exit_call", "jumped"}
HasTrampoline == {"memory_map", "acpi", "boot_info"} \cup HasBootInfo
HasIdentity == {"trampoline"} \cup HasTrampoline
HasStack == {"identity_map"} \cup HasIdentity
HasImage == {"map_in_stack"} \cup HasStack
HasKernel == {"map_in_kernel"} \cup HasImage
HasTables == {"kernel"} \cup HasKernel

KernelPlace == kernel_start .. kernel_start + TotalPages(headers) - 1

LoaderTypes ==
    /\ LoaderTypeOK
    /\ mem \in Memory
    /\ frame_alloc \in [start : Nat \cup {NoFrame}, num : 0 .. MaxFrames]
    /\ map_key \in Nat /\ current_key \in Nat
TablesPlaced ==
    /\ Granted(Root) /\ Block(Root) \cap conventional = {}
    /\ Tree(Root, mem, frame_alloc.num) /\ TablesIn(mem, Root)
KernelPlaced ==
    /\ kernel_start \in Nat /\ KernelPlace \subseteq Frames
    /\ KernelPlace \cap conventional = {} /\ KernelPlace \cap Block(Root) = {}
ImagePlaced ==
    /\ end_paddr = kernel_start + ImagePages(headers)
    /\ end_vaddr = TextStart + ImagePages(headers)
    /\ ImageAt(image, headers, kernel_start) /\ ImageOnly(image, headers, kernel_start)
    /\ Sees(mem, Root, TextStart, kernel_start, ImagePages(headers))
StackPlaced == Sees(mem, Root, TextStart, kernel_start, TotalPages(headers))
IdentityPlaced == Sees(mem, Root, 0, 0, IdentityPages)
TrampolinePlaced ==
    /\ trampoline \in Frames \ conventional
    /\ trampoline \notin Block(Root) /\ trampoline \notin KernelPlace
    /\ Seen(trampoline) = trampoline
BootInfoPlaced ==
    /\ boot_info \in Block(Root) \ Unused(Root, frame_alloc.num)
    /\ \A v \in AllPages : \A k \in 1 .. Levels : TablesOn(mem, Root, v)[k] # boot_info
    /\ Seen(boot_info) = boot_info

\* The loader's inductive invariant: what efi_main has done when it comes to
\* each of its calls.
LoaderInv ==
    /\ LoaderTypes
    /\ pc \in {"frame_alloc", "kernel", "map_in_kernel"} => \A f \in Frames : image[f] = Stale
    /\ pc \in HasTables => TablesPlaced
    /\ pc \in HasKernel => KernelPlaced
    /\ pc \in HasImage => ImagePlaced
    /\ pc \in HasStack => StackPlaced
    /\ pc \in HasIdentity => IdentityPlaced
    /\ pc \in HasTrampoline => TrampolinePlaced
    /\ pc \in HasBootInfo => BootInfoPlaced

\* The loader starts with LoaderInv.
LEMMA InitLoaderInv == LoaderInit => LoaderInv
<1> SUFFICES ASSUME LoaderInit PROVE LoaderInv
  OBVIOUS
<1>1. MaxFrames \in Nat /\ MaxMapChanges \in Nat /\ Memories \subseteq SUBSET Frames
  BY LoaderAssumption
<1>2. mem \in Memory
  <2>1. ASSUME NEW f \in Frames PROVE StaleTable(f) \in [Slots -> Entry]
    <3>1. f \in Nat
      BY PoolAssumption
    <3> QED
      BY <3>1 DEF StaleTable, Slots, Entry, EntryFlags, Present
  <2>2. mem = [f \in Frames |-> StaleTable(f)]
    BY DEF LoaderInit
  <2> HIDE DEF LoaderInit
  <2> QED
    BY <2>1, <2>2 DEF Memory
<1>3. LoaderTypes
  <2>1. pc = "frame_alloc" /\ headers \in Executables /\ conventional \subseteq Frames
        /\ DOMAIN mem = Frames /\ DOMAIN image = Frames
    BY <1>1 DEF LoaderInit
  <2>2. frame_alloc = [start |-> NoFrame, num |-> 0] /\ map_key = 0 /\ current_key = 0
        /\ map_size \in MapSizes
    BY DEF LoaderInit
  <2>3. {frame_alloc.start, kernel_start, end_paddr, trampoline, boot_info} \subseteq Nat \cup {NoFrame}
    BY <2>2 DEF LoaderInit
  <2> HIDE DEF LoaderInit
  <2> QED
    BY <1>1, <1>2, <2>1, <2>2, <2>3 DEF LoaderTypes, LoaderTypeOK
<1>4. pc = "frame_alloc" /\ \A f \in Frames : image[f] = Stale
  BY DEF LoaderInit
<1>5. "frame_alloc" \notin HasTables
  BY DEF HasTables, HasKernel, HasImage, HasStack, HasIdentity, HasTrampoline, HasBootInfo
<1>6. /\ HasBootInfo \subseteq HasTables /\ HasTrampoline \subseteq HasTables
      /\ HasIdentity \subseteq HasTables /\ HasStack \subseteq HasTables
      /\ HasImage \subseteq HasTables /\ HasKernel \subseteq HasTables
  BY DEF HasTables, HasKernel, HasImage, HasStack, HasIdentity, HasTrampoline, HasBootInfo
<1> HIDE DEF LoaderInit
<1> QED
  BY <1>3, <1>4, <1>5, <1>6 DEF LoaderInv

\* Of a loader that has panicked only the types matter.
LEMMA PanicLoaderInv ==
    ASSUME LoaderTypes, LoaderTypes', pc' = "panicked"
    PROVE  LoaderInv'
<1>1. "panicked" \notin HasTables /\ "panicked" \notin {"frame_alloc", "kernel", "map_in_kernel"}
  BY DEF HasTables, HasKernel, HasImage, HasStack, HasIdentity, HasTrampoline, HasBootInfo
<1>2. /\ HasBootInfo \subseteq HasTables /\ HasTrampoline \subseteq HasTables
      /\ HasIdentity \subseteq HasTables /\ HasStack \subseteq HasTables
      /\ HasImage \subseteq HasTables /\ HasKernel \subseteq HasTables
  BY DEF HasTables, HasKernel, HasImage, HasStack, HasIdentity, HasTrampoline, HasBootInfo
<1> QED
  BY <1>1, <1>2 DEF LoaderInv

LoaderPoints ==
    {"frame_alloc", "kernel", "map_in_kernel", "map_in_stack", "identity_map",
     "trampoline", "memory_map", "acpi", "boot_info", "exit", "exit_call", "jumped", "panicked"}

\* A panic keeps LoaderInv.
LEMMA PanicStep ==
    ASSUME LoaderInv, Panic
    PROVE  LoaderInv'
<1>1. pc' = "panicked" /\ UNCHANGED <<headers, conventional, image, memory, places, keys>>
  BY DEF Panic
<1>2. LoaderTypes
  BY DEF LoaderInv
<1>3. LoaderTypes'
  BY <1>1, <1>2 DEF LoaderTypes, LoaderTypeOK, memory, places, keys
<1> QED
  BY <1>1, <1>2, <1>3, PanicLoaderInv

\* The steps that change neither memory nor any place.
LEMMA QuietStep ==
    ASSUME LoaderInv, UNCHANGED <<headers, conventional, image, memory, places>>,
           map_key' \in Nat, current_key' \in Nat, map_key' <= current_key',
           current_key' <= MaxMapChanges, map_size' \in MapSizes,
           \/ pc' = pc
           \/ pc = "memory_map" /\ pc' = "acpi"
           \/ pc = "acpi" /\ pc' = "boot_info"
           \/ pc \in HasBootInfo /\ pc' \in HasBootInfo
    PROVE  LoaderInv'
<1>1. /\ headers' = headers /\ conventional' = conventional /\ image' = image /\ mem' = mem
      /\ frame_alloc' = frame_alloc /\ kernel_start' = kernel_start /\ end_paddr' = end_paddr
      /\ end_vaddr' = end_vaddr /\ trampoline' = trampoline /\ boot_info' = boot_info
  BY DEF memory, places
<1>2. LoaderTypes'
  <2>1. pc' \in LoaderPoints
    BY DEF LoaderInv, LoaderTypes, LoaderTypeOK, LoaderPoints, HasBootInfo
  <2> QED
    BY <1>1, <2>1 DEF LoaderInv, LoaderTypes, LoaderTypeOK, LoaderPoints
<1>3. (TablesPlaced => TablesPlaced') /\ (KernelPlaced => KernelPlaced')
  BY <1>1 DEF TablesPlaced, KernelPlaced, KernelPlace, Root
<1>4. /\ (ImagePlaced => ImagePlaced') /\ (StackPlaced => StackPlaced')
      /\ (IdentityPlaced => IdentityPlaced')
  BY <1>1 DEF ImagePlaced, StackPlaced, IdentityPlaced, Root
<1>5. (TrampolinePlaced => TrampolinePlaced') /\ (BootInfoPlaced => BootInfoPlaced')
  BY <1>1 DEF TrampolinePlaced, BootInfoPlaced, KernelPlace, Seen, Root
<1>6. /\ pc' \in {"frame_alloc", "kernel", "map_in_kernel"}
            => pc \in {"frame_alloc", "kernel", "map_in_kernel"}
      /\ pc' \in HasTables => pc \in HasTables
      /\ pc' \in HasKernel => pc \in HasKernel
      /\ pc' \in HasImage => pc \in HasImage
      /\ pc' \in HasStack => pc \in HasStack
      /\ pc' \in HasIdentity => pc \in HasIdentity
      /\ pc' \in HasTrampoline => pc \in HasTrampoline
      /\ pc' \in HasBootInfo => pc \in HasBootInfo
  BY DEF HasTables, HasKernel, HasImage, HasStack, HasIdentity, HasTrampoline, HasBootInfo
<1> QED
  BY <1>1, <1>2, <1>3, <1>4, <1>5, <1>6 DEF LoaderInv

\* The cleared first frame of the block is a table without entries.
LEMMA FirstTable ==
    ASSUME NEW r, Granted(r), NEW m \in Memory, m[r] = ZeroTable
    PROVE  Tree(r, m, 1) /\ TablesIn(m, r)
<1>1. MaxFrames \in Nat /\ MaxFrames > 0
  BY LoaderAssumption
<1>2. r \in Block(r) /\ r \notin Unused(r, 1) /\ Unused(r, 1) \subseteq Block(r)
  BY <1>1 DEF Granted, Block, Unused
<1>3. Block(r) \subseteq Frames
  BY DEF Granted, Block
<1>4. PICK f, g, R : f = Frames \ {r} /\ g = Unused(r, 1) /\ R = {r}
  OBVIOUS
<1>5. Forest(m, f, R, {}, {})
  <2>1. PICK P, B : P = {} /\ B = {}
    OBVIOUS
  <2>2. r \in Frames /\ f \subseteq Frames \ {r}
    BY <1>2, <1>3, <1>4
  <2>3. Forest(m, f, R, P, B)
    BY <1>4, <2>2, ZeroForest
  <2> QED
    BY <2>1, <2>3
<1>6. g \subseteq f
  BY <1>2, <1>3, <1>4
<1>7. Forest(m, g, R, {}, {})
  BY <1>5, <1>6, Shrunk
<1>8. TablesIn(m, r)
  <2> SUFFICES ASSUME NEW v \in AllPages, NEW k \in 1 .. Levels
               PROVE  TablesOn(m, r, v)[k] \in Block(r) \cup {NoFrame}
    BY DEF TablesIn
  <2>1. TablesOn(m, r, v)[k] \in Frames \cup {NoFrame} /\ TablesOn(m, r, v)[k] \notin f
    BY <1>4, <1>5 DEF Forest, Inside, NotFree
  <2> QED
    BY <1>2, <1>4, <2>1
<1> QED
  BY <1>1, <1>4, <1>7, <1>8 DEF Tree

\* FrameAlloc::new keeps LoaderInv.
LEMMA NewFrameAllocInv == LoaderInv /\ NewFrameAlloc => LoaderInv'
<1> SUFFICES ASSUME LoaderInv, NewFrameAlloc PROVE LoaderInv'
  OBVIOUS
<1>1. CASE Panic
  BY <1>1, PanicStep
<1>2. CASE ~Panic
  <2>1. PICK start \in conventional :
            /\ MayGive(start, MaxFrames)
            /\ conventional' = conventional \ (start .. start + MaxFrames - 1)
            /\ mem' = [mem EXCEPT ![start] = ZeroTable]
            /\ frame_alloc' = [start |-> start, num |-> 1]
            /\ pc' = "kernel"
            /\ UNCHANGED <<headers, image, places, keys>>
    BY <1>2 DEF NewFrameAlloc
  <2>2. pc = "frame_alloc"
    BY DEF NewFrameAlloc
  <2>3. LoaderTypes
    BY DEF LoaderInv
  <2>4. MaxFrames \in Nat /\ MaxFrames > 0 /\ Frames \subseteq Nat
    BY LoaderAssumption, PoolAssumption
  <2>5. conventional \subseteq Frames /\ start \in Frames /\ start \in Nat /\ mem \in Memory
    BY <2>3, <2>4 DEF LoaderTypes, LoaderTypeOK
  <2>6. mem' \in Memory /\ mem'[start] = ZeroTable
    <3>1. ZeroTable \in [Slots -> Entry]
      BY DEF ZeroTable, Slots, Entry, Empty, Present, EntryFlags
    <3> QED
      BY <2>1, <2>5, <3>1 DEF Memory
  <2>7. Root' = start /\ frame_alloc'.num = 1
    BY <2>1 DEF Root
  <2>8. LoaderTypes'
    <3>1. /\ headers' = headers /\ image' = image /\ kernel_start' = kernel_start
          /\ end_paddr' = end_paddr /\ trampoline' = trampoline /\ boot_info' = boot_info
          /\ map_key' = map_key /\ current_key' = current_key
          /\ map_size' = map_size
      BY <2>1 DEF places, keys
    <3>2. DOMAIN mem' = Frames
      BY <2>6 DEF Memory
    <3>3. frame_alloc' \in [start : Nat \cup {NoFrame}, num : 0 .. MaxFrames]
          /\ frame_alloc'.start = start
      BY <2>1, <2>4, <2>5
    <3>4. frame_alloc'.num \in 0 .. MaxFrames
      BY <2>4, <2>7
    <3>5. conventional' \subseteq Frames
      BY <2>1, <2>5
    <3> QED
      BY <2>1, <2>3, <2>5, <2>6, <3>1, <3>2, <3>3, <3>4, <3>5 DEF LoaderTypes, LoaderTypeOK
  <2>9. Granted(start)
    BY <2>1, <2>5 DEF Granted, MayGive
  <2>10. TablesPlaced'
    <3>1. Block(start) \cap conventional' = {}
      BY <2>1 DEF Block
    <3>2. Tree(start, mem', 1) /\ TablesIn(mem', start)
      BY <2>6, <2>9, FirstTable
    <3> QED
      BY <2>7, <2>9, <3>1, <3>2 DEF TablesPlaced
  <2>11. image' = image /\ \A f \in Frames : image[f] = Stale
    BY <2>1, <2>2 DEF LoaderInv
  <2>12. /\ pc' \notin HasKernel /\ pc' \notin HasImage /\ pc' \notin HasStack
         /\ pc' \notin HasIdentity /\ pc' \notin HasTrampoline /\ pc' \notin HasBootInfo
    BY <2>1 DEF HasKernel, HasImage, HasStack, HasIdentity, HasTrampoline, HasBootInfo
  <2> QED
    BY <2>8, <2>10, <2>11, <2>12 DEF LoaderInv
<1> QED
  BY <1>1, <1>2

\* The allocation of the kernel's pages keeps LoaderInv: the firmware gives what
\* it has not given before.
LEMMA AllocateKernelInv == LoaderInv /\ AllocateKernel => LoaderInv'
<1> SUFFICES ASSUME LoaderInv, AllocateKernel PROVE LoaderInv'
  OBVIOUS
<1>1. CASE Panic
  BY <1>1, PanicStep
<1>2. CASE ~Panic
  <2>1. PICK start \in conventional :
            /\ MayGive(start, TotalPages(headers))
            /\ conventional' = conventional \ (start .. start + TotalPages(headers) - 1)
            /\ kernel_start' = start
            /\ pc' = "map_in_kernel"
            /\ UNCHANGED <<headers, image, memory, end_paddr, end_vaddr, trampoline, boot_info, keys>>
    BY <1>2 DEF AllocateKernel
  <2>2. pc = "kernel" /\ "kernel" \in HasTables
    BY DEF AllocateKernel, HasTables
  <2>3. LoaderTypes /\ TablesPlaced
    BY <2>2 DEF LoaderInv
  <2>4. conventional \subseteq Frames /\ start \in Frames /\ start \in Nat
    BY <2>3, PoolAssumption DEF LoaderTypes, LoaderTypeOK
  <2>5. /\ headers' = headers /\ image' = image /\ mem' = mem /\ frame_alloc' = frame_alloc
        /\ end_paddr' = end_paddr /\ trampoline' = trampoline /\ boot_info' = boot_info
        /\ map_key' = map_key /\ current_key' = current_key
        /\ map_size' = map_size
    BY <2>1 DEF memory, keys
  <2>6. LoaderTypes'
    BY <2>1, <2>3, <2>4, <2>5 DEF LoaderTypes, LoaderTypeOK
  <2>7. TablesPlaced'
    BY <2>1, <2>3, <2>5 DEF TablesPlaced, Root
  <2>8. KernelPlaced'
    <3>1. KernelPlace' = start .. start + TotalPages(headers) - 1
      BY <2>1, <2>5 DEF KernelPlace
    <3>2. KernelPlace' \subseteq conventional /\ KernelPlace' \cap conventional' = {}
      BY <2>1, <3>1 DEF MayGive
    <3>3. Root' = Root /\ Block(Root) \cap conventional = {}
      BY <2>3, <2>5 DEF TablesPlaced, Root
    <3> QED
      BY <2>1, <2>4, <3>2, <3>3 DEF KernelPlaced
  <2>9. \A f \in Frames : image[f] = Stale
    BY <2>2 DEF LoaderInv
  <2>10. /\ pc' \notin HasImage /\ pc' \notin HasStack
         /\ pc' \notin HasIdentity /\ pc' \notin HasTrampoline /\ pc' \notin HasBootInfo
    BY <2>1 DEF HasImage, HasStack, HasIdentity, HasTrampoline, HasBootInfo
  <2> QED
    BY <2>5, <2>6, <2>7, <2>8, <2>9, <2>10 DEF LoaderInv
<1> QED
  BY <1>1, <1>2

\* memory_map, find_acpi_table and the loop that leaves the boot services keep LoaderInv.
LEMMA KeyStepsInv ==
    LoaderInv /\ (\/ ReadMemoryMap \/ FindAcpiTable \/ GetMemoryMap
                  \/ ExitBootServices \/ FirmwareChanges)
        => LoaderInv'
<1>1. ASSUME LoaderInv, FindAcpiTable PROVE LoaderInv'
  <2>1. \/ Panic
        \/ /\ pc = "acpi" /\ pc' = "boot_info"
           /\ UNCHANGED <<headers, conventional, image, memory, places, keys>>
    BY <1>1, Zenon DEF FindAcpiTable
  <2>2. map_key \in Nat /\ current_key \in Nat /\ map_key <= current_key /\ current_key <= MaxMapChanges
        /\ map_size \in MapSizes
    BY <1>1 DEF LoaderInv, LoaderTypes, LoaderTypeOK
  <2>3. CASE ~Panic
    BY <1>1, <2>1, <2>2, <2>3, QuietStep DEF keys
  <2> QED
    BY <1>1, <2>3, PanicStep
<1>2. ASSUME LoaderInv, GetMemoryMap PROVE LoaderInv'
  <2>1. CASE Panic
    BY <1>2, <2>1, PanicStep
  <2>2. CASE ~Panic
    BY <1>2, <2>2, QuietStep DEF GetMemoryMap, HasBootInfo, LoaderInv, LoaderTypes, LoaderTypeOK
  <2> QED
    BY <2>1, <2>2
<1>5. ASSUME LoaderInv, ReadMemoryMap PROVE LoaderInv'
  <2>1. CASE Panic
    BY <1>5, <2>1, PanicStep
  <2>2. CASE ~Panic
    BY <1>5, <2>2, QuietStep DEF ReadMemoryMap, keys, LoaderInv, LoaderTypes, LoaderTypeOK
  <2> QED
    BY <2>1, <2>2
<1>3. ASSUME LoaderInv, ExitBootServices PROVE LoaderInv'
  BY <1>3, QuietStep DEF ExitBootServices, HasBootInfo, keys, LoaderInv, LoaderTypes, LoaderTypeOK
<1>4. ASSUME LoaderInv, FirmwareChanges PROVE LoaderInv'
  <2>1. MaxMapChanges \in Nat
    BY LoaderAssumption
  <2> QED
    BY <1>4, <2>1, QuietStep DEF FirmwareChanges, LoaderInv, LoaderTypes, LoaderTypeOK
<1> QED
  BY <1>1, <1>2, <1>3, <1>4, <1>5

\* map_page_4k starts from the loader's tables.
LEMMA WalkStarts ==
    ASSUME LoaderTypes, TablesPlaced
    PROVE  /\ WalkState \in LoadState /\ WalkState.ok /\ WalkState.mem = mem
           /\ WalkState.num = frame_alloc.num /\ Tree(Root, WalkState.mem, WalkState.num)
           /\ Granted(Root) /\ Root \in Frames
<1>1. mem \in Memory /\ frame_alloc.num \in 0 .. MaxFrames
  BY DEF LoaderTypes
<1>2. Tree(Root, mem, frame_alloc.num) /\ Granted(Root)
  BY DEF TablesPlaced
<1>3. Root \in Frames
  BY <1>2 DEF Tree, Forest
<1>4. WalkState = [mem |-> mem, num |-> frame_alloc.num, table |-> Root, ok |-> TRUE]
  BY DEF WalkState
<1> HIDE DEF WalkState
<1> QED
  BY <1>1, <1>2, <1>3, <1>4 DEF LoadState

\* The tables stay in the block of FrameAlloc.
LEMMA LaterIn ==
    ASSUME NEW r, Granted(r), NEW s \in LoadState, NEW p, Later(s, r, p), TablesIn(s.mem, r)
    PROVE  TablesIn(p.mem, r)
<1>1. MaxFrames \in Nat /\ s.num \in Nat /\ r \in Nat
  BY LoaderAssumption DEF LoadState, Granted
<1>2. Unused(r, s.num) \subseteq Block(r)
  BY <1>1 DEF Unused, Block
<1> QED
  BY <1>2 DEF Later, Grown, TablesIn

\* What every step that maps pages keeps.
LEMMA MapStep ==
    ASSUME LoaderTypes, TablesPlaced, NEW p, Later(WalkState, Root, p), NEW next \in LoaderPoints,
           Proceed(p, next), headers' = headers, conventional' \subseteq conventional,
           DOMAIN image' = Frames,
           {kernel_start', end_paddr', trampoline', boot_info'} \subseteq Nat \cup {NoFrame},
           map_key' = map_key, current_key' = current_key, map_size' = map_size
    PROVE  /\ LoaderTypes' /\ TablesPlaced' /\ Root' = Root /\ mem' = p.mem
           /\ frame_alloc'.num = p.num /\ pc' = IF p.ok THEN next ELSE "panicked"
<1>1. PICK s : s = WalkState /\ s \in LoadState /\ s.mem = mem /\ Granted(Root)
  BY WalkStarts
<1>2. p \in LoadState /\ Tree(Root, p.mem, p.num)
  BY DEF Later
<1>3. p.mem \in Memory /\ p.num \in 0 .. MaxFrames
  BY <1>2 DEF LoadState
<1>4. /\ mem' = p.mem /\ frame_alloc' = [frame_alloc EXCEPT !.num = p.num]
      /\ pc' = IF p.ok THEN next ELSE "panicked"
  BY DEF Proceed
<1>5. frame_alloc \in [start : Nat \cup {NoFrame}, num : 0 .. MaxFrames]
  BY DEF LoaderTypes
<1>6. /\ frame_alloc' \in [start : Nat \cup {NoFrame}, num : 0 .. MaxFrames]
      /\ frame_alloc'.start = frame_alloc.start /\ frame_alloc'.num = p.num
  BY <1>3, <1>4, <1>5
<1>7. Root' = Root
  BY <1>6 DEF Root
<1>8. TablesIn(p.mem, Root)
  BY <1>1, LaterIn DEF TablesPlaced
<1>9. TablesPlaced'
  BY <1>2, <1>4, <1>6, <1>7, <1>8 DEF TablesPlaced
<1>10. LoaderTypes'
  <2>1. pc' \in LoaderPoints
    BY <1>4 DEF LoaderPoints
  <2>2. DOMAIN mem' = Frames
    BY <1>3, <1>4 DEF Memory
  <2>3. frame_alloc'.start \in Nat \cup {NoFrame}
    BY <1>6
  <2>4. {frame_alloc'.start, kernel_start', end_paddr', trampoline', boot_info'}
            \subseteq Nat \cup {NoFrame}
    BY <2>3
  <2> QED
    BY <1>3, <1>4, <1>6, <2>1, <2>2, <2>4 DEF LoaderTypes, LoaderTypeOK, LoaderPoints
<1> QED
  BY <1>4, <1>6, <1>7, <1>9, <1>10

\* Pages outside the mapped range keep their frames.
LEMMA SeesKept ==
    ASSUME NEW s, NEW r, NEW page, NEW frame, NEW n, NEW p, Ranged(s, r, page, frame, n, p),
           NEW other, NEW g, NEW c, Sees(s.mem, r, other, g, c),
           \A x \in 0 .. c - 1 : other + x \in AllPages /\ other + x \notin page .. page + n - 1
    PROVE  Sees(p.mem, r, other, g, c)
  BY DEF Ranged, Sees

\* One page is a range.
LEMMA OneRanged ==
    ASSUME NEW s, s.ok, NEW r, NEW v \in Nat, NEW a \in Nat, NEW p, MappedAt(s, r, v, a, p)
    PROVE  Ranged(s, r, v, a, 1, p)
<1>1. Later(s, r, p)
  BY DEF MappedAt
<1>2. ASSUME p.ok, NEW x \in 0 .. 1 - 1 PROVE Translate(p.mem, r, v + x) = a + x
  <2>1. v + x = v /\ a + x = a
    OBVIOUS
  <2> QED
    BY <1>2, <2>1 DEF MappedAt
<1>3. ASSUME NEW x \in AllPages, x \notin v .. v + 1 - 1
      PROVE  Translate(p.mem, r, x) = Translate(s.mem, r, x)
  <2>1. x # v
    BY <1>3
  <2> QED
    BY <2>1 DEF MappedAt
<1> QED
  BY <1>1, <1>2, <1>3 DEF Ranged

\* map_in_kernel keeps LoaderInv.
LEMMA MapInKernelInv == LoaderInv /\ MapInKernel => LoaderInv'
<1> SUFFICES ASSUME LoaderInv, MapInKernel PROVE LoaderInv'
  OBVIOUS
<1>1. pc = "map_in_kernel" /\ pc \in HasTables /\ pc \in HasKernel
  BY DEF MapInKernel, HasTables, HasKernel
<1>2. LoaderTypes /\ TablesPlaced /\ KernelPlaced /\ \A f \in Frames : image[f] = Stale
  BY <1>1 DEF LoaderInv
<1>3. headers \in Executables
  BY <1>2 DEF LoaderTypes, LoaderTypeOK
<1>4. PICK p : p = MapSegments(WalkState, kernel_start) /\ Proceed(p, "map_in_stack")
  BY DEF MapInKernel
<1>5. /\ image' = ImageCopied(kernel_start)
      /\ end_paddr' = kernel_start + ImagePages(headers)
      /\ end_vaddr' = Max({0} \cup {headers[k].vaddr + HeaderPages(headers[k]) : k \in Loads(headers)})
      /\ headers' = headers /\ conventional' = conventional /\ kernel_start' = kernel_start
      /\ trampoline' = trampoline /\ boot_info' = boot_info
      /\ map_key' = map_key /\ current_key' = current_key
      /\ map_size' = map_size
  BY DEF MapInKernel, keys
<1>6. kernel_start \in Nat /\ ImagePages(headers) \in Nat
  BY <1>2, <1>3, ImageRange DEF KernelPlaced
<1>7. Ranged(WalkState, Root, TextStart, kernel_start, ImagePages(headers), p)
  <2>1. PICK r, s, start : r = Root /\ s = WalkState /\ start = kernel_start
    OBVIOUS
  <2>2. /\ Granted(r) /\ s \in LoadState /\ Tree(r, s.mem, s.num) /\ start \in Nat
        /\ p = MapSegments(s, start)
    BY <1>2, <1>4, <1>6, <2>1, WalkStarts
  <2>3. Ranged(s, r, TextStart, start, ImagePages(headers), p)
    BY <1>3, <2>1, <2>2, MapSegmentsCorrect
  <2> QED
    BY <2>1, <2>3
<1>8. /\ DOMAIN image' = Frames /\ ImageAt(image', headers, kernel_start)
      /\ ImageOnly(image', headers, kernel_start)
  <2>1. PICK img, start : img = image' /\ start = kernel_start
    OBVIOUS
  <2>2. DOMAIN img = Frames /\ ImageAt(img, headers, start) /\ ImageOnly(img, headers, start)
    BY <1>2, <1>3, <1>5, <1>6, <2>1, Copying
  <2> QED
    BY <2>1, <2>2
<1>9. /\ LoaderTypes' /\ TablesPlaced' /\ Root' = Root /\ mem' = p.mem
      /\ pc' = IF p.ok THEN "map_in_stack" ELSE "panicked"
  <2>1. {kernel_start', end_paddr', trampoline', boot_info'} \subseteq Nat \cup {NoFrame}
    BY <1>2, <1>5, <1>6 DEF LoaderTypes, LoaderTypeOK
  <2>2. "map_in_stack" \in LoaderPoints /\ conventional' \subseteq conventional
    BY <1>5 DEF LoaderPoints
  <2>3. Later(WalkState, Root, p)
    BY <1>7 DEF Ranged
  <2> QED
    BY <1>2, <1>4, <1>5, <1>8, <2>1, <2>2, <2>3, MapStep
<1>10. CASE ~p.ok
  BY <1>2, <1>9, <1>10, PanicLoaderInv
<1>11. CASE p.ok
  <2>1. pc' = "map_in_stack"
    BY <1>9, <1>11
  <2>2. KernelPlaced'
    BY <1>2, <1>5, <1>9 DEF KernelPlaced, KernelPlace
  <2>3. ImagePlaced'
    <3>1. end_vaddr' = TextStart + ImagePages(headers)
      BY <1>3, <1>5, ImageEnd
    <3>2. Sees(mem', Root, TextStart, kernel_start, ImagePages(headers))
      BY <1>7, <1>9, <1>11 DEF Ranged, Sees
    <3> QED
      BY <1>5, <1>8, <1>9, <3>1, <3>2 DEF ImagePlaced
  <2>4. /\ pc' \notin {"frame_alloc", "kernel", "map_in_kernel"} /\ pc' \notin HasStack
        /\ pc' \notin HasIdentity /\ pc' \notin HasTrampoline /\ pc' \notin HasBootInfo
    BY <2>1 DEF HasStack, HasIdentity, HasTrampoline, HasBootInfo
  <2> QED
    BY <1>9, <2>2, <2>3, <2>4 DEF LoaderInv
<1> QED
  BY <1>10, <1>11

\* map_in_stack keeps LoaderInv: the stack begins where the image ends.
LEMMA MapInStackInv == LoaderInv /\ MapInStack => LoaderInv'
<1> SUFFICES ASSUME LoaderInv, MapInStack PROVE LoaderInv'
  OBVIOUS
<1>1. pc = "map_in_stack" /\ pc \in HasTables /\ pc \in HasKernel /\ pc \in HasImage
  BY DEF MapInStack, HasTables, HasKernel, HasImage
<1>2. LoaderTypes /\ TablesPlaced /\ KernelPlaced /\ ImagePlaced
  BY <1>1 DEF LoaderInv
<1>3. headers \in Executables
  BY <1>2 DEF LoaderTypes, LoaderTypeOK
<1>4. PICK p : p = MapRange(WalkState, end_vaddr, end_paddr, StackPages) /\ Proceed(p, "identity_map")
  BY DEF MapInStack
<1>5. /\ headers' = headers /\ conventional' = conventional /\ image' = image
      /\ kernel_start' = kernel_start /\ end_paddr' = end_paddr /\ end_vaddr' = end_vaddr
      /\ trampoline' = trampoline /\ boot_info' = boot_info
      /\ map_key' = map_key /\ current_key' = current_key
      /\ map_size' = map_size
  BY DEF MapInStack, places, keys
<1>6. PICK i \in Nat, n \in Nat, h \in Nat, t \in Nat, start \in Nat :
          /\ i = ImagePages(headers) /\ n = StackPages /\ h = TotalPages(headers) /\ t = TextStart
          /\ start = kernel_start /\ h = i + n
          /\ \A x \in 0 .. h - 1 : t + x \in AllPages
  BY <1>2, <1>3, ImageRange DEF KernelPlaced
<1>a. h = i + n
  BY <1>6
<1>b. \A x \in 0 .. h - 1 : t + x \in AllPages
  BY <1>6
<1>7. PICK page \in Nat, frame \in Nat :
          page = end_vaddr /\ frame = end_paddr /\ page = t + i /\ frame = start + i
  BY <1>2, <1>6 DEF ImagePlaced
<1>c. page = t + i /\ frame = start + i
  BY <1>7
<1>8. PICK s, r : /\ s = WalkState /\ r = Root /\ Granted(r) /\ s \in LoadState /\ Tree(r, s.mem, s.num)
                  /\ s.mem = mem
  BY <1>2, WalkStarts
<1>9. \A x \in 0 .. n - 1 : page + x \in AllPages
  <2> SUFFICES ASSUME NEW x \in 0 .. n - 1 PROVE page + x \in AllPages
    OBVIOUS
  <2>1. page + x = t + (i + x) /\ i + x \in 0 .. h - 1
    BY <1>a, <1>c
  <2> QED
    BY <1>b, <2>1
<1>10. Ranged(s, r, page, frame, n, p)
  <2>1. p = MapRange(s, page, frame, n)
    BY <1>4, <1>6, <1>7, <1>8
  <2> QED
    BY <1>8, <1>9, <2>1, MapRangeCorrect
<1>11. /\ LoaderTypes' /\ TablesPlaced' /\ Root' = Root /\ mem' = p.mem
       /\ pc' = IF p.ok THEN "identity_map" ELSE "panicked"
  <2>1. DOMAIN image' = Frames
        /\ {kernel_start', end_paddr', trampoline', boot_info'} \subseteq Nat \cup {NoFrame}
    BY <1>2, <1>5 DEF LoaderTypes, LoaderTypeOK
  <2>2. "identity_map" \in LoaderPoints /\ conventional' \subseteq conventional
    BY <1>5 DEF LoaderPoints
  <2>3. Later(WalkState, Root, p)
    BY <1>8, <1>10 DEF Ranged
  <2> QED
    BY <1>2, <1>4, <1>5, <2>1, <2>2, <2>3, MapStep
<1>12. CASE ~p.ok
  BY <1>2, <1>11, <1>12, PanicLoaderInv
<1>13. CASE p.ok
  <2>1. pc' = "identity_map"
    BY <1>11, <1>13
  <2>2. KernelPlaced'
    BY <1>2, <1>5, <1>11 DEF KernelPlaced, KernelPlace
  <2>3. Sees(s.mem, r, t, start, i)
    BY <1>2, <1>6, <1>8 DEF ImagePlaced
  <2>4. Sees(p.mem, r, t, start, i)
    <3>1. ASSUME NEW x \in 0 .. i - 1 PROVE t + x \in AllPages /\ t + x \notin page .. page + n - 1
      <4>1. x \in 0 .. h - 1 /\ t + x \notin page .. page + n - 1
        BY <1>a, <1>c
      <4> QED
        BY <1>b, <4>1
    <3> QED
      BY <1>10, <2>3, <3>1, SeesKept
  <2>5. Sees(p.mem, r, t, start, h)
    <3> SUFFICES ASSUME NEW x \in 0 .. h - 1 PROVE Translate(p.mem, r, t + x) = start + x
      BY DEF Sees
    <3>1. CASE x < i
      <4>1. x \in 0 .. i - 1
        BY <3>1
      <4> QED
        BY <2>4, <4>1 DEF Sees
    <3>2. CASE ~(x < i)
      <4>1. PICK y \in 0 .. n - 1 : y = x - i
        BY <1>a, <3>2
      <4>2. page + y = t + x /\ frame + y = start + x
        BY <1>c, <4>1
      <4>3. Translate(p.mem, r, page + y) = frame + y
        BY <1>10, <1>13 DEF Ranged
      <4> QED
        BY <4>2, <4>3
    <3> QED
      BY <3>1, <3>2
  <2>6. ImagePlaced' /\ StackPlaced'
    BY <1>2, <1>5, <1>6, <1>8, <1>11, <2>4, <2>5 DEF ImagePlaced, StackPlaced
  <2>7. /\ pc' \notin {"frame_alloc", "kernel", "map_in_kernel"}
        /\ pc' \notin HasIdentity /\ pc' \notin HasTrampoline /\ pc' \notin HasBootInfo
    BY <2>1 DEF HasIdentity, HasTrampoline, HasBootInfo
  <2> QED
    BY <1>11, <2>2, <2>6, <2>7 DEF LoaderInv
<1> QED
  BY <1>12, <1>13

\* A page below the kernel is a page, and mapping it leaves the kernel alone.
LEMMA BelowText ==
    ASSUME headers \in Executables, NEW x \in Nat, x < TextStart
    PROVE  x \in AllPages
<1>1. PICK t \in Nat, h \in Nat : t = TextStart /\ h = TotalPages(headers) /\ t + h <= Span[Levels]
  BY Headers, ImageRange
<1>2. Span[Levels] \in Nat
  BY Spans, LevelsAssumption
<1>3. x < Span[Levels]
  BY <1>1, <1>2
<1> QED
  BY <1>2, <1>3 DEF AllPages

\* The kernel stays mapped when pages below it are.
LEMMA KernelSeen ==
    ASSUME headers \in Executables, NEW s, NEW r, NEW page \in Nat, NEW frame, NEW n \in Nat,
           page + n <= TextStart, NEW p, Ranged(s, r, page, frame, n, p), NEW start,
           Sees(s.mem, r, TextStart, start, TotalPages(headers))
    PROVE  /\ Sees(p.mem, r, TextStart, start, TotalPages(headers))
           /\ Sees(p.mem, r, TextStart, start, ImagePages(headers))
<1>1. PICK i \in Nat, n0 \in Nat, h \in Nat, t \in Nat :
          /\ i = ImagePages(headers) /\ n0 = StackPages /\ h = TotalPages(headers) /\ t = TextStart
          /\ h = i + n0
          /\ \A x \in 0 .. h - 1 : t + x \in AllPages
  BY ImageRange
<1>2. h = i + n0 /\ page + n <= t
  BY <1>1
<1>3. ASSUME NEW x \in 0 .. h - 1 PROVE t + x \in AllPages /\ t + x \notin page .. page + n - 1
  <2>1. t + x \notin page .. page + n - 1
    BY <1>2
  <2> QED
    BY <1>1, <2>1
<1>4. Sees(p.mem, r, t, start, h)
  BY <1>1, <1>3, SeesKept
<1>5. Sees(p.mem, r, t, start, i)
  <2>1. \A x \in 0 .. i - 1 : x \in 0 .. h - 1
    BY <1>2
  <2> QED
    BY <1>4, <2>1 DEF Sees
<1> QED
  BY <1>1, <1>4, <1>5

\* The identity map keeps LoaderInv.
LEMMA IdentityMapInv == LoaderInv /\ IdentityMap => LoaderInv'
<1> SUFFICES ASSUME LoaderInv, IdentityMap PROVE LoaderInv'
  OBVIOUS
<1>1. pc = "identity_map" /\ pc \in HasTables /\ pc \in HasKernel /\ pc \in HasImage /\ pc \in HasStack
  BY DEF IdentityMap, HasTables, HasKernel, HasImage, HasStack
<1>2. LoaderTypes /\ TablesPlaced /\ KernelPlaced /\ ImagePlaced /\ StackPlaced
  BY <1>1 DEF LoaderInv
<1>3. headers \in Executables
  BY <1>2 DEF LoaderTypes, LoaderTypeOK
<1>4. PICK p : p = MapRange(WalkState, 0, 0, IdentityPages) /\ Proceed(p, "trampoline")
  BY DEF IdentityMap
<1>5. /\ headers' = headers /\ conventional' = conventional /\ image' = image
      /\ kernel_start' = kernel_start /\ end_paddr' = end_paddr /\ end_vaddr' = end_vaddr
      /\ trampoline' = trampoline /\ boot_info' = boot_info
      /\ map_key' = map_key /\ current_key' = current_key
      /\ map_size' = map_size
  BY DEF IdentityMap, places, keys
<1>6. PICK n \in Nat, z \in Nat : n = IdentityPages /\ z = 0 /\ z + n <= TextStart /\ TextStart \in Nat
  BY LoaderAssumption
<1>8. PICK s, r : /\ s = WalkState /\ r = Root /\ Granted(r) /\ s \in LoadState /\ Tree(r, s.mem, s.num)
                  /\ s.mem = mem
  BY <1>2, WalkStarts
<1>9. \A x \in 0 .. n - 1 : z + x \in AllPages
  <2> SUFFICES ASSUME NEW x \in 0 .. n - 1 PROVE z + x \in AllPages
    OBVIOUS
  <2>1. z + x \in Nat /\ z + x < TextStart
    BY <1>6
  <2> QED
    BY <1>3, <2>1, BelowText
<1>10. Ranged(s, r, z, z, n, p)
  <2>1. p = MapRange(s, z, z, n)
    BY <1>4, <1>6, <1>8
  <2> QED
    BY <1>8, <1>9, <2>1, MapRangeCorrect
<1>11. /\ LoaderTypes' /\ TablesPlaced' /\ Root' = Root /\ mem' = p.mem
       /\ pc' = IF p.ok THEN "trampoline" ELSE "panicked"
  <2>1. DOMAIN image' = Frames
        /\ {kernel_start', end_paddr', trampoline', boot_info'} \subseteq Nat \cup {NoFrame}
    BY <1>2, <1>5 DEF LoaderTypes, LoaderTypeOK
  <2>2. "trampoline" \in LoaderPoints /\ conventional' \subseteq conventional
    BY <1>5 DEF LoaderPoints
  <2>3. Later(WalkState, Root, p)
    BY <1>8, <1>10 DEF Ranged
  <2> QED
    BY <1>2, <1>4, <1>5, <2>1, <2>2, <2>3, MapStep
<1>12. CASE ~p.ok
  BY <1>2, <1>11, <1>12, PanicLoaderInv
<1>13. CASE p.ok
  <2>1. pc' = "trampoline"
    BY <1>11, <1>13
  <2>2. KernelPlaced'
    BY <1>2, <1>5, <1>11 DEF KernelPlaced, KernelPlace
  <2>3. Sees(s.mem, r, TextStart, kernel_start, TotalPages(headers))
    BY <1>2, <1>8 DEF StackPlaced
  <2>4. /\ Sees(p.mem, r, TextStart, kernel_start, TotalPages(headers))
        /\ Sees(p.mem, r, TextStart, kernel_start, ImagePages(headers))
    BY <1>3, <1>6, <1>10, <2>3, KernelSeen
  <2>5. Sees(p.mem, r, z, z, n)
    BY <1>10, <1>13 DEF Ranged, Sees
  <2>6. ImagePlaced' /\ StackPlaced' /\ IdentityPlaced'
    BY <1>2, <1>5, <1>6, <1>8, <1>11, <2>4, <2>5 DEF ImagePlaced, StackPlaced, IdentityPlaced
  <2>7. /\ pc' \notin {"frame_alloc", "kernel", "map_in_kernel"}
        /\ pc' \notin HasTrampoline /\ pc' \notin HasBootInfo
    BY <2>1 DEF HasTrampoline, HasBootInfo
  <2> QED
    BY <1>11, <2>2, <2>6, <2>7 DEF LoaderInv
<1> QED
  BY <1>12, <1>13

\* Frames lie below the kernel's pages.
LEMMA FramePage ==
    ASSUME headers \in Executables, NEW f \in Frames
    PROVE  f \in Nat /\ f + 1 <= TextStart /\ f \in AllPages
<1>1. f \in Nat
  BY PoolAssumption
<1>2. TextStart \in Nat /\ f < TextStart
  BY LoaderAssumption
<1>3. f + 1 <= TextStart
  BY <1>1, <1>2
<1> QED
  BY <1>1, <1>2, <1>3, BelowText

\* Mapping a page to itself keeps the pages that were.
LEMMA SelfKept ==
    ASSUME NEW s, NEW r, NEW v \in Nat, NEW p, p.ok, Ranged(s, r, v, v, 1, p),
           NEW x \in AllPages, Translate(s.mem, r, x) = x
    PROVE  Translate(p.mem, r, x) = x
<1>1. CASE x = v
  <2>1. 0 \in 0 .. 1 - 1 /\ v + 0 = v
    OBVIOUS
  <2>2. Translate(p.mem, r, v + 0) = v + 0
    BY <2>1 DEF Ranged
  <2> QED
    BY <1>1, <2>1, <2>2
<1>2. CASE x # v
  <2>1. x \notin v .. v + 1 - 1
    BY <1>2
  <2> QED
    BY <2>1 DEF Ranged
<1> QED
  BY <1>1, <1>2

\* The identity map stays when one more page is mapped to itself.
LEMMA IdentityKept ==
    ASSUME headers \in Executables, NEW s, NEW r, NEW v \in Nat, NEW p, p.ok,
           Ranged(s, r, v, v, 1, p), Sees(s.mem, r, 0, 0, IdentityPages)
    PROVE  Sees(p.mem, r, 0, 0, IdentityPages)
<1> SUFFICES ASSUME NEW x \in 0 .. IdentityPages - 1 PROVE Translate(p.mem, r, 0 + x) = 0 + x
  BY DEF Sees
<1>1. IdentityPages \in Nat /\ TextStart \in Nat /\ IdentityPages <= TextStart
  BY LoaderAssumption
<1>2. x \in Nat /\ x < TextStart /\ 0 + x = x
  BY <1>1
<1>3. x \in AllPages
  BY <1>2, BelowText
<1>4. Translate(s.mem, r, 0 + x) = 0 + x
  BY DEF Sees
<1>5. Translate(s.mem, r, x) = x
  BY <1>2, <1>4
<1>6. Translate(p.mem, r, x) = x
  BY <1>3, <1>5, SelfKept
<1> QED
  BY <1>2, <1>6

\* prepare_trampoline keeps LoaderInv.
LEMMA PrepareTrampolineInv == LoaderInv /\ PrepareTrampoline => LoaderInv'
<1> SUFFICES ASSUME LoaderInv, PrepareTrampoline PROVE LoaderInv'
  OBVIOUS
<1>0. CASE Panic
  BY <1>0, PanicStep
<1>00. CASE ~Panic
  <2>1. pc = "trampoline" /\ pc \in HasTables /\ pc \in HasKernel /\ pc \in HasImage /\ pc \in HasStack
        /\ pc \in HasIdentity
    BY DEF PrepareTrampoline, HasTables, HasKernel, HasImage, HasStack, HasIdentity
  <2>2. LoaderTypes /\ TablesPlaced /\ KernelPlaced /\ ImagePlaced /\ StackPlaced /\ IdentityPlaced
    BY <2>1 DEF LoaderInv
  <2>3. headers \in Executables /\ conventional \subseteq Frames
    BY <2>2 DEF LoaderTypes, LoaderTypeOK
  <2>4. PICK f \in conventional :
            /\ conventional' = conventional \ {f}
            /\ trampoline' = f
            /\ Proceed(MapPage4K(WalkState, f, f), "memory_map")
            /\ UNCHANGED <<headers, image, kernel_start, end_paddr, end_vaddr, boot_info, keys>>
    BY <1>00 DEF PrepareTrampoline
  <2>5. /\ headers' = headers /\ image' = image
        /\ kernel_start' = kernel_start /\ end_paddr' = end_paddr /\ end_vaddr' = end_vaddr
        /\ boot_info' = boot_info /\ map_key' = map_key /\ current_key' = current_key
        /\ map_size' = map_size
    BY <2>4 DEF keys
  <2>6. f \in Frames /\ f \in Nat /\ f + 1 <= TextStart /\ f \in AllPages
    BY <2>3, FramePage
  <2>7. PICK p : p = MapPage4K(WalkState, f, f) /\ Proceed(p, "memory_map")
    BY <2>4
  <2>8. PICK s, r : /\ s = WalkState /\ r = Root /\ Granted(r) /\ s \in LoadState /\ s.ok
                    /\ Tree(r, s.mem, s.num) /\ s.mem = mem
    BY <2>2, WalkStarts
  <2>9. Ranged(s, r, f, f, 1, p)
    <3>1. p = MapPage4K(s, f, f)
      BY <2>7, <2>8
    <3>2. MappedAt(s, r, f, f, p)
      BY <2>6, <2>8, <3>1, Page4KCorrect
    <3> QED
      BY <2>6, <2>8, <3>2, OneRanged
  <2>11. /\ LoaderTypes' /\ TablesPlaced' /\ Root' = Root /\ mem' = p.mem
         /\ pc' = IF p.ok THEN "memory_map" ELSE "panicked"
    <3>1. DOMAIN image' = Frames
          /\ {kernel_start', end_paddr', trampoline', boot_info'} \subseteq Nat \cup {NoFrame}
      BY <2>2, <2>4, <2>5, <2>6 DEF LoaderTypes, LoaderTypeOK
    <3>2. "memory_map" \in LoaderPoints /\ conventional' \subseteq conventional
      BY <2>4 DEF LoaderPoints
    <3>3. Later(WalkState, Root, p)
      BY <2>8, <2>9 DEF Ranged
    <3> QED
      BY <2>2, <2>7, <2>5, <3>1, <3>2, <3>3, MapStep
  <2>12. CASE ~p.ok
    BY <2>2, <2>11, <2>12, PanicLoaderInv
  <2>13. CASE p.ok
    <3>1. pc' = "memory_map"
      BY <2>11, <2>13
    <3>2. KernelPlaced'
      BY <2>2, <2>4, <2>5, <2>11 DEF KernelPlaced, KernelPlace
    <3>3. /\ Sees(s.mem, r, TextStart, kernel_start, TotalPages(headers))
          /\ Sees(s.mem, r, 0, 0, IdentityPages)
      BY <2>2, <2>8 DEF StackPlaced, IdentityPlaced
    <3>4. /\ Sees(p.mem, r, TextStart, kernel_start, TotalPages(headers))
          /\ Sees(p.mem, r, TextStart, kernel_start, ImagePages(headers))
      <4>1. PICK n \in Nat : n = 1 /\ f + n <= TextStart /\ Ranged(s, r, f, f, n, p)
        BY <2>6, <2>9
      <4> QED
        BY <2>3, <2>6, <3>3, <4>1, KernelSeen
    <3>5. Sees(p.mem, r, 0, 0, IdentityPages)
      BY <2>3, <2>6, <2>9, <2>13, <3>3, IdentityKept
    <3>6. ImagePlaced' /\ StackPlaced' /\ IdentityPlaced'
      BY <2>2, <2>5, <2>8, <2>11, <3>4, <3>5 DEF ImagePlaced, StackPlaced, IdentityPlaced
    <3>7. TrampolinePlaced'
      <4>1. Translate(p.mem, r, f) = f
        <5>1. 0 \in 0 .. 1 - 1 /\ f + 0 = f
          BY <2>6
        <5>2. Translate(p.mem, r, f + 0) = f + 0
          BY <2>9, <2>13, <5>1 DEF Ranged
        <5> QED
          BY <5>1, <5>2
      <4>2. f \notin Block(Root) /\ f \notin KernelPlace
        BY <2>2 DEF TablesPlaced, KernelPlaced
      <4>3. KernelPlace' = KernelPlace
        BY <2>5 DEF KernelPlace
      <4> QED
        BY <2>4, <2>6, <2>8, <2>11, <4>1, <4>2, <4>3 DEF TrampolinePlaced, Seen
    <3>8. pc' \notin {"frame_alloc", "kernel", "map_in_kernel"} /\ pc' \notin HasBootInfo
      BY <3>1 DEF HasBootInfo
    <3> QED
      BY <2>11, <3>2, <3>6, <3>7, <3>8 DEF LoaderInv
  <2> QED
    BY <2>12, <2>13
<1> QED
  BY <1>0, <1>00

\* A frame taken from the block and cleared is no table, and changes none.
LEMMA TakenPage ==
    ASSUME NEW r, Granted(r), NEW s \in LoadState, s.ok, Tree(r, s.mem, s.num),
           NEW n, n = AllocZeroed(s, r), n.ok
    PROVE  /\ n \in LoadState /\ Later(s, r, n) /\ n.num = s.num + 1
           /\ n.table = r + s.num /\ n.table \in Unused(r, s.num) /\ n.table \in Frames
           /\ \A w \in AllPages : Translate(n.mem, r, w) = Translate(s.mem, r, w)
           /\ \A w \in AllPages : \A k \in 1 .. Levels : TablesOn(n.mem, r, w)[k] # n.table
<1>1. MaxFrames \in Nat /\ s.num \in 0 .. MaxFrames /\ s.mem \in Memory /\ r \in Nat
      /\ Levels \in Nat /\ Levels >= 2
  BY LoaderAssumption, LevelsAssumption DEF LoadState, Granted
<1>2. s.num < MaxFrames
  <2>1. ~(s.num >= MaxFrames)
    BY Allocating
  <2> QED
    BY <1>1, <2>1
<1>3. PICK b \in Frames : b = r + s.num /\ b \in Unused(r, s.num)
  BY <1>2, Allocating
<1>4. n \in LoadState /\ n.mem = [s.mem EXCEPT ![b] = ZeroTable] /\ n.table = b /\ n.num = s.num + 1
  BY <1>2, <1>3, Allocating
<1>5. PICK m, m2, f, f2, R : /\ m = s.mem /\ m2 = n.mem /\ f = Unused(r, s.num)
                             /\ f2 = Unused(r, n.num) /\ R = {r}
  OBVIOUS
<1>6. Forest(m, f, R, {}, {})
  BY <1>5 DEF Tree
<1>7. f2 \subseteq f /\ b \notin f2
  <2>1. f2 = f \ {b}
    BY <1>1, <1>3, <1>4, <1>5, UnusedNext
  <2> QED
    BY <2>1
<1>8. m2 \in Memory /\ \A t \in Frames \ {b} : m2[t] = m[t]
  BY <1>1, <1>4, <1>5 DEF LoadState, Memory
<1>9. \A w \in AllPages : \A k \in 1 .. Levels : TablesOn(m, r, w)[k] # b
  BY <1>3, <1>5, <1>6 DEF Forest, NotFree
<1>10. r \in R /\ r \in Frames /\ R \subseteq Frames /\ Inside(m, R)
  BY <1>5, <1>6 DEF Forest
<1>11. r # b
  <2>1. r # r + s.num
    BY <1>1 DEF Tree
  <2> QED
    BY <1>3, <2>1
<1>12. OnlyRoot(m, m2, R, b)
  <2>1. \A k \in 2 .. Levels : k \in 1 .. Levels
    BY <1>1
  <2> QED
    BY <1>5, <1>8, <1>9, <2>1 DEF OnlyRoot
<1>13. ASSUME NEW w \in AllPages
       PROVE  /\ Translate(m2, r, w) = Translate(m, r, w)
              /\ \A k \in 1 .. Levels : TablesOn(m2, r, w)[k] = TablesOn(m, r, w)[k]
  <2>1. m2[r][Index(w)[1]] = m[r][Index(w)[1]]
    BY <1>8, <1>10, <1>11
  <2>2. SameBelow(m, m2, r, r, w) /\ Translate(m2, r, w) = Translate(m, r, w)
    BY <1>10, <1>12, <2>1, SameWalk
  <2>3. TablesOn(m2, r, w)[1] = r /\ TablesOn(m, r, w)[1] = r
    BY Walk
  <2>4. \A k \in 1 .. Levels : k = 1 \/ k \in 2 .. Levels
    BY <1>1
  <2> QED
    BY <2>2, <2>3, <2>4 DEF SameBelow
<1>14. Forest(m2, f2, R, {}, {})
  <2>1. Inside(m2, R)
    BY <1>5, <1>10, <1>13 DEF Inside
  <2>2. Distinct(m2, R, {})
    <3>1. Distinct(m, R, {})
      BY <1>6 DEF Forest
    <3> SUFFICES ASSUME NEW v \in AllPages, NEW w \in AllPages,
                        NEW j \in 1 .. Levels, NEW k \in 1 .. Levels,
                        TablesOn(m2, r, v)[j] = TablesOn(m2, r, w)[k], TablesOn(m2, r, v)[j] # NoFrame
                 PROVE  j = k /\ Prefix(v, j - 1) = Prefix(w, j - 1)
      BY <1>5 DEF Distinct
    <3>2. TablesOn(m, r, v)[j] = TablesOn(m, r, w)[k] /\ TablesOn(m, r, v)[j] # NoFrame
      BY <1>13
    <3> QED
      BY <1>10, <3>1, <3>2 DEF Distinct
  <2>3. NotFree(m2, f2, R)
    BY <1>5, <1>6, <1>7, <1>13 DEF Forest, NotFree
  <2>4. SmallAbove(m2, R, {})
    <3> SUFFICES ASSUME NEW v \in AllPages, NEW k \in 1 .. Levels - 1, TablesOn(m2, r, v)[k] # NoFrame
                 PROVE  "SIZE" \notin m2[TablesOn(m2, r, v)[k]][Index(v)[k]].flags
      BY <1>5 DEF SmallAbove
    <3>1. k \in 1 .. Levels
      BY <1>1
    <3>2. PICK t : t = TablesOn(m, r, v)[k] /\ t = TablesOn(m2, r, v)[k]
      BY <1>13, <3>1
    <3>3. t \in Frames \ {b}
      BY <1>9, <1>10, <3>1, <3>2 DEF Inside
    <3>4. "SIZE" \notin m[t][Index(v)[k]].flags
      BY <1>6, <1>10, <3>2 DEF Forest, SmallAbove
    <3> QED
      BY <1>8, <3>2, <3>3, <3>4
  <2>5. f2 \subseteq Frames
    BY <1>6, <1>7 DEF Forest
  <2> QED
    BY <1>8, <1>10, <2>1, <2>2, <2>3, <2>4, <2>5 DEF Forest
<1>15. Grown(m, f, m2, f2, R)
  BY <1>5, <1>7, <1>13 DEF Grown
<1>16. n.num \in 1 .. MaxFrames /\ s.num <= n.num
  BY <1>1, <1>2, <1>4
<1>17. Later(s, r, n)
  BY <1>4, <1>5, <1>14, <1>15, <1>16 DEF Later, Tree
<1> QED
  BY <1>3, <1>4, <1>5, <1>9, <1>13, <1>17

\* The page of BootInfo keeps LoaderInv: it comes from the block of the tables
\* and is none of them.
LEMMA WriteBootInfoInv == LoaderInv /\ WriteBootInfo => LoaderInv'
<1> SUFFICES ASSUME LoaderInv, WriteBootInfo PROVE LoaderInv'
  OBVIOUS
<1>1. /\ pc = "boot_info" /\ pc \in HasTables /\ pc \in HasKernel /\ pc \in HasImage
      /\ pc \in HasStack /\ pc \in HasIdentity /\ pc \in HasTrampoline
  BY DEF WriteBootInfo, HasTables, HasKernel, HasImage, HasStack, HasIdentity, HasTrampoline
<1>2. /\ LoaderTypes /\ TablesPlaced /\ KernelPlaced /\ ImagePlaced /\ StackPlaced
      /\ IdentityPlaced /\ TrampolinePlaced
  BY <1>1 DEF LoaderInv
<1>3. headers \in Executables
  BY <1>2 DEF LoaderTypes, LoaderTypeOK
<1>4. PICK page : page = AllocZeroed(WalkState, Root)
  OBVIOUS
<1>5. PICK p : /\ p = IF page.ok THEN MapPage4K(page, page.table, page.table) ELSE page
               /\ Proceed(p, "exit")
  BY <1>4 DEF WriteBootInfo
<1>6. boot_info' = IF page.ok THEN page.table ELSE NoFrame
  BY <1>4 DEF WriteBootInfo
<1>7. /\ headers' = headers /\ conventional' = conventional /\ image' = image
      /\ kernel_start' = kernel_start /\ end_paddr' = end_paddr /\ end_vaddr' = end_vaddr
      /\ trampoline' = trampoline /\ map_key' = map_key /\ current_key' = current_key
      /\ map_size' = map_size
  BY DEF WriteBootInfo, keys
<1>8. PICK s, r : /\ s = WalkState /\ r = Root /\ Granted(r) /\ s \in LoadState /\ s.ok
                  /\ Tree(r, s.mem, s.num) /\ s.mem = mem /\ s.num = frame_alloc.num
  BY <1>2, WalkStarts
<1>9. page = AllocZeroed(s, r)
  BY <1>4, <1>8
<1>10. DOMAIN image' = Frames
       /\ {kernel_start', end_paddr', trampoline'} \subseteq Nat \cup {NoFrame}
  BY <1>2, <1>7 DEF LoaderTypes, LoaderTypeOK
<1>11. "exit" \in LoaderPoints /\ conventional' \subseteq conventional
  BY <1>7 DEF LoaderPoints
<1>12. CASE ~page.ok
  <2>1. p = page /\ boot_info' = NoFrame
    BY <1>5, <1>6, <1>12
  <2>2. page \in LoadState /\ page.mem = s.mem /\ page.num = s.num
    <3>1. MaxFrames \in Nat /\ s.num \in 0 .. MaxFrames
      BY <1>8, LoaderAssumption DEF LoadState
    <3>2. s.num >= MaxFrames \/ s.num < MaxFrames
      BY <3>1
    <3> QED
      BY <1>8, <1>9, <1>12, <3>2, Allocating
  <2>3. Later(s, r, p)
    <3>1. s.num <= p.num
      BY <1>8, <2>1, <2>2, LoaderAssumption DEF LoadState
    <3>2. Grown(s.mem, Unused(r, s.num), p.mem, Unused(r, p.num), {r})
      BY <2>1, <2>2 DEF Grown
    <3> QED
      BY <1>8, <2>1, <2>2, <3>1, <3>2 DEF Later
  <2>4. {kernel_start', end_paddr', trampoline', boot_info'} \subseteq Nat \cup {NoFrame}
    BY <1>10, <2>1
  <2>5. LoaderTypes' /\ pc' = IF p.ok THEN "exit" ELSE "panicked"
    BY <1>2, <1>5, <1>7, <1>8, <1>10, <1>11, <2>3, <2>4, MapStep
  <2> QED
    BY <1>2, <1>12, <2>1, <2>5, PanicLoaderInv
<1>13. CASE page.ok
  <2>1. PICK b : b = page.table
    OBVIOUS
  <2>2. /\ page \in LoadState /\ Later(s, r, page) /\ page.num = s.num + 1
        /\ b = r + s.num /\ b \in Unused(r, s.num) /\ b \in Frames
        /\ \A w \in AllPages : Translate(page.mem, r, w) = Translate(s.mem, r, w)
        /\ \A w \in AllPages : \A k \in 1 .. Levels : TablesOn(page.mem, r, w)[k] # b
    BY <1>8, <1>9, <1>13, <2>1, TakenPage
  <2>3. b \in Nat /\ b + 1 <= TextStart /\ b \in AllPages
    BY <1>3, <2>2, FramePage
  <2>4. Ranged(page, r, b, b, 1, p)
    <3>1. p = MapPage4K(page, b, b) /\ Tree(r, page.mem, page.num)
      BY <1>5, <1>13, <2>1, <2>2 DEF Later
    <3>2. MappedAt(page, r, b, b, p)
      BY <1>8, <1>13, <2>2, <2>3, <3>1, Page4KCorrect
    <3> QED
      BY <1>13, <2>3, <3>2, OneRanged
  <2>5. Later(page, r, p)
    BY <2>4 DEF Ranged
  <2>6. Later(s, r, p)
    <3>1. s.num \in Int
      BY <1>8, LoaderAssumption DEF LoadState
    <3> QED
      BY <2>2, <2>5, <3>1, LaterOn
  <2>7. boot_info' = b
    BY <1>6, <1>13, <2>1
  <2>8. /\ LoaderTypes' /\ TablesPlaced' /\ Root' = Root /\ mem' = p.mem
        /\ frame_alloc'.num = p.num /\ pc' = IF p.ok THEN "exit" ELSE "panicked"
    <3>1. {kernel_start', end_paddr', trampoline', boot_info'} \subseteq Nat \cup {NoFrame}
      BY <1>10, <2>3, <2>7
    <3> QED
      BY <1>2, <1>5, <1>7, <1>8, <1>10, <1>11, <2>6, <3>1, MapStep
  <2>9. CASE ~p.ok
    BY <1>2, <2>8, <2>9, PanicLoaderInv
  <2>10. CASE p.ok
    <3>1. pc' = "exit"
      BY <2>8, <2>10
    <3>2. KernelPlaced'
      BY <1>2, <1>7, <2>8 DEF KernelPlaced, KernelPlace
    <3>3. /\ Sees(page.mem, r, TextStart, kernel_start, TotalPages(headers))
          /\ Sees(page.mem, r, 0, 0, IdentityPages)
      <4>1. Sees(s.mem, r, TextStart, kernel_start, TotalPages(headers))
        BY <1>2, <1>8 DEF StackPlaced
      <4>2. Sees(s.mem, r, 0, 0, IdentityPages)
        BY <1>2, <1>8 DEF IdentityPlaced
      <4>3. \A x \in 0 .. TotalPages(headers) - 1 : TextStart + x \in AllPages
        BY <1>3, ImageRange
      <4>4. \A x \in 0 .. IdentityPages - 1 : 0 + x \in AllPages
        <5> SUFFICES ASSUME NEW x \in 0 .. IdentityPages - 1 PROVE 0 + x \in AllPages
          OBVIOUS
        <5>1. IdentityPages \in Nat /\ TextStart \in Nat /\ IdentityPages <= TextStart
          BY LoaderAssumption
        <5>2. x \in Nat /\ x < TextStart /\ 0 + x = x
          BY <5>1
        <5> QED
          BY <1>3, <5>2, BelowText
      <4>5. Sees(page.mem, r, TextStart, kernel_start, TotalPages(headers))
        BY <2>2, <4>1, <4>3 DEF Sees
      <4>6. Sees(page.mem, r, 0, 0, IdentityPages)
        BY <2>2, <4>2, <4>4 DEF Sees
      <4> QED
        BY <4>5, <4>6
    <3>4. /\ Sees(p.mem, r, TextStart, kernel_start, TotalPages(headers))
          /\ Sees(p.mem, r, TextStart, kernel_start, ImagePages(headers))
      <4>1. PICK n \in Nat : n = 1 /\ b + n <= TextStart /\ Ranged(page, r, b, b, n, p)
        BY <2>3, <2>4
      <4> QED
        BY <1>3, <2>3, <3>3, <4>1, KernelSeen
    <3>5. Sees(p.mem, r, 0, 0, IdentityPages)
      BY <1>3, <2>3, <2>4, <2>10, <3>3, IdentityKept
    <3>6. ImagePlaced' /\ StackPlaced' /\ IdentityPlaced'
      BY <1>2, <1>7, <1>8, <2>8, <3>4, <3>5 DEF ImagePlaced, StackPlaced, IdentityPlaced
    <3>7. TrampolinePlaced'
      <4>1. PICK t \in Frames : t = trampoline /\ Translate(s.mem, r, t) = t
        BY <1>2, <1>8 DEF TrampolinePlaced, Seen
      <4>2. t \in AllPages
        BY <1>3, FramePage
      <4>3. Translate(page.mem, r, t) = t
        BY <2>2, <4>1, <4>2
      <4>4. Translate(p.mem, r, t) = t
        BY <2>3, <2>4, <2>10, <4>2, <4>3, SelfKept
      <4>5. KernelPlace' = KernelPlace
        BY <1>7 DEF KernelPlace
      <4> QED
        BY <1>2, <1>7, <1>8, <2>8, <4>1, <4>4, <4>5 DEF TrampolinePlaced, Seen
    <3>8. BootInfoPlaced'
      <4>1. Translate(p.mem, r, b) = b
        <5>1. 0 \in 0 .. 1 - 1 /\ b + 0 = b
          BY <2>3
        <5>2. Translate(p.mem, r, b + 0) = b + 0
          BY <2>4, <2>10, <5>1 DEF Ranged
        <5> QED
          BY <5>1, <5>2
      <4>2. b \in Block(r) \ Unused(r, p.num) /\ b \notin Unused(r, page.num)
        <5>1. MaxFrames \in Nat /\ s.num \in Nat /\ r \in Nat /\ p.num \in Nat /\ page.num <= p.num
          BY <1>8, <2>5, LoaderAssumption DEF LoadState, Granted, Later
        <5>2. s.num + 1 <= p.num
          BY <2>2, <5>1
        <5> QED
          BY <2>2, <5>1, <5>2 DEF Block, Unused
      <4>3. ASSUME NEW v \in AllPages, NEW k \in 1 .. Levels PROVE TablesOn(p.mem, r, v)[k] # b
        <5>1. \/ TablesOn(p.mem, r, v)[k] = TablesOn(page.mem, r, v)[k]
              \/ TablesOn(p.mem, r, v)[k] \in Unused(r, page.num)
          BY <2>5 DEF Later, Grown
        <5> QED
          BY <2>2, <4>2, <5>1
      <4> QED
        BY <1>8, <2>7, <2>8, <4>1, <4>2, <4>3 DEF BootInfoPlaced, Seen
    <3>9. pc' \notin {"frame_alloc", "kernel", "map_in_kernel"}
      BY <3>1
    <3> QED
      BY <2>8, <3>2, <3>6, <3>7, <3>8, <3>9 DEF LoaderInv
  <2> QED
    BY <2>9, <2>10
<1> QED
  BY <1>12, <1>13

\* Every step of the loader and of the firmware keeps LoaderInv.
LEMMA NextLoaderInv == LoaderInv /\ [LoaderNext]_loaderVars => LoaderInv'
<1> SUFFICES ASSUME LoaderInv, [LoaderNext]_loaderVars PROVE LoaderInv'
  OBVIOUS
<1>1. CASE NewFrameAlloc
  BY <1>1, NewFrameAllocInv
<1>2. CASE AllocateKernel
  BY <1>2, AllocateKernelInv
<1>3. CASE MapInKernel
  BY <1>3, MapInKernelInv
<1>4. CASE MapInStack
  BY <1>4, MapInStackInv
<1>5. CASE IdentityMap
  BY <1>5, IdentityMapInv
<1>6. CASE PrepareTrampoline
  BY <1>6, PrepareTrampolineInv
<1>7. CASE WriteBootInfo
  BY <1>7, WriteBootInfoInv
<1>8. CASE ReadMemoryMap \/ FindAcpiTable \/ GetMemoryMap \/ ExitBootServices \/ FirmwareChanges
  BY <1>8, KeyStepsInv
<1>9. CASE UNCHANGED loaderVars
  <2>1. pc' = pc /\ UNCHANGED <<headers, conventional, image, memory, places>>
        /\ map_key' = map_key /\ current_key' = current_key
        /\ map_size' = map_size
    BY <1>9 DEF loaderVars, keys
  <2>2. map_key \in Nat /\ current_key \in Nat /\ map_key <= current_key /\ current_key <= MaxMapChanges
        /\ map_size \in MapSizes
    BY DEF LoaderInv, LoaderTypes, LoaderTypeOK
  <2> QED
    BY <2>1, <2>2, QuietStep
<1> QED
  BY <1>1, <1>2, <1>3, <1>4, <1>5, <1>6, <1>7, <1>8, <1>9 DEF LoaderNext, LoaderStep

\* What holds when the kernel starts.
LEMMA Jumped ==
    ASSUME LoaderInv, pc = "jumped"
    PROVE  /\ LoaderTypes /\ TablesPlaced /\ KernelPlaced /\ ImagePlaced /\ StackPlaced
           /\ IdentityPlaced /\ TrampolinePlaced /\ BootInfoPlaced /\ headers \in Executables
<1>1. /\ pc \in HasTables /\ pc \in HasKernel /\ pc \in HasImage /\ pc \in HasStack
      /\ pc \in HasIdentity /\ pc \in HasTrampoline /\ pc \in HasBootInfo
  BY DEF HasTables, HasKernel, HasImage, HasStack, HasIdentity, HasTrampoline, HasBootInfo
<1> QED
  BY <1>1 DEF LoaderInv, LoaderTypes, LoaderTypeOK

\* LoaderInv gives RemapAgrees.
LEMMA InvRemapAgrees == LoaderInv => RemapAgrees
  BY Jumped DEF StackPlaced, Sees, RemapAgrees, Seen

\* LoaderInv gives ImageLoaded: an offset into the image belongs to one header.
LEMMA InvImageLoaded == LoaderInv => ImageLoaded
<1> SUFFICES ASSUME LoaderInv, pc = "jumped", NEW k \in Loads(headers),
                    NEW i \in 0 .. HeaderPages(headers[k]) - 1
             PROVE  image[Seen(headers[k].vaddr + i)] = Content(headers, k, i)
  BY DEF ImageLoaded
<1>1. headers \in Executables /\ KernelPlaced /\ ImagePlaced /\ StackPlaced
  BY Jumped
<1>2. PICK n \in Nat : n = Len(headers) /\ k \in 1 .. n /\ HeaderPages(headers[k]) \in Nat
                       /\ headers[k].vaddr = TextStart + PagesBefore(headers, k)
  BY <1>1, Headers
<1>3. k \in 1 .. n + 1 /\ k + 1 \in 1 .. n + 1 /\ k \in 1 .. n
  BY <1>2
<1>4. PICK c \in Nat, q \in Nat, h \in Nat, t \in Nat, start \in Nat :
          /\ c = PagesBefore(headers, k) /\ q = HeaderPages(headers[k]) /\ h = TotalPages(headers)
          /\ t = TextStart /\ start = kernel_start
  BY <1>1, <1>2, <1>3, Offsets, ImageRange DEF KernelPlaced
<1>5. c + q <= h
  <2>1. PagesBefore(headers, k + 1) = c + q
    BY <1>1, <1>2, <1>3, <1>4, Offsets
  <2>2. c + q <= ImagePages(headers)
    BY <1>1, <1>2, <1>3, <2>1, ImageRange
  <2>3. ImagePages(headers) \in Nat /\ StackPages \in Nat /\ h = ImagePages(headers) + StackPages
    BY <1>1, <1>4, ImageRange
  <2> QED
    BY <2>2, <2>3
<1>6. PICK off \in 0 .. h - 1 : off = c + i
  <2>1. i \in 0 .. q - 1
    BY <1>4
  <2> QED
    BY <1>5, <2>1
<1>7. headers[k].vaddr + i = t + off
  <2>1. headers[k].vaddr = t + c /\ i \in Int
    BY <1>2, <1>4
  <2> QED
    BY <1>6, <2>1
<1>8. Seen(headers[k].vaddr + i) = start + off
  BY <1>1, <1>4, <1>6, <1>7 DEF StackPlaced, Sees, Seen
<1>9. start + off \in Frames
  <2>1. start + off \in start .. start + h - 1
    BY <1>6
  <2> QED
    BY <1>1, <1>4, <2>1 DEF KernelPlaced, KernelPlace
<1>10. image[start + off] = Content(headers, k, i)
  BY <1>1, <1>4, <1>6, <1>9 DEF ImagePlaced, ImageAt
<1> QED
  BY <1>8, <1>10

\* LoaderInv gives EarlyMemory.
LEMMA InvEarlyMemory == LoaderInv => EarlyMemory
<1> SUFFICES ASSUME LoaderInv, pc = "jumped",
                    NEW f \in (0 .. IdentityPages - 1) \cup {trampoline, boot_info}
             PROVE  Seen(f) = f
  BY DEF EarlyMemory, BootToVirtual
<1>1. IdentityPlaced /\ TrampolinePlaced /\ BootInfoPlaced
  BY Jumped
<1>2. CASE f \in 0 .. IdentityPages - 1
  <2>1. Translate(mem, Root, 0 + f) = 0 + f
    BY <1>1, <1>2 DEF IdentityPlaced, Sees
  <2>2. 0 + f = f
    BY <1>2
  <2> QED
    BY <2>1, <2>2 DEF Seen
<1> QED
  BY <1>1, <1>2 DEF TrampolinePlaced, BootInfoPlaced

\* LoaderInv gives MemoryApart.
LEMMA InvMemoryApart == LoaderInv => MemoryApart
<1> SUFFICES ASSUME LoaderInv, pc = "jumped" PROVE MemoryApart
  BY DEF MemoryApart
<1>1. TablesPlaced /\ KernelPlaced /\ ImagePlaced /\ TrampolinePlaced /\ BootInfoPlaced
  BY Jumped
<1> DEFINE tables == TableFrames(mem, Root)
           used == tables \cup {boot_info, trampoline}
<1>2. tables \subseteq Block(Root)
  BY <1>1 DEF TablesPlaced, TablesIn, TableFrames
<1>3. boot_info \notin tables
  BY <1>1 DEF BootInfoPlaced, TableFrames
<1>4. boot_info \in Block(Root) /\ trampoline \notin Block(Root) /\ trampoline \in Frames \ conventional
  BY <1>1 DEF BootInfoPlaced, TrampolinePlaced
<1>5. Block(Root) \subseteq Frames \ conventional
  BY <1>1 DEF TablesPlaced, Granted, Block
<1>6. KernelPlace \cap Block(Root) = {} /\ trampoline \notin KernelPlace
  BY <1>1 DEF KernelPlaced, TrampolinePlaced
<1>7. \A f \in Frames : image[f] # Stale => f \in kernel_start .. end_paddr - 1
  <2>1. end_paddr = kernel_start + ImagePages(headers) /\ ImageOnly(image, headers, kernel_start)
    BY <1>1 DEF ImagePlaced
  <2>2. \A f \in Frames : image[f] # Stale =>
            f \in kernel_start .. kernel_start + ImagePages(headers) - 1
    BY <2>1 DEF ImageOnly
  <2>3. kernel_start \in Nat /\ ImagePages(headers) \in Nat
    BY <1>1, Jumped, ImageRange DEF KernelPlaced
  <2> QED
    BY <2>1, <2>2, <2>3
<1> HIDE DEF tables
<1>8. /\ used \subseteq Frames \ conventional
      /\ boot_info \notin tables /\ trampoline \notin tables \cup {boot_info}
      /\ used \cap KernelPlace = {}
  BY <1>2, <1>3, <1>4, <1>5, <1>6
<1> QED
  BY <1>7, <1>8 DEF MemoryApart, tables, KernelPlace

\* LoaderInv is an invariant of efi_main, wherever the firmware's memory lies,
\* however often it changes its map, and whichever call fails.
THEOREM LoaderInvariant == LoaderSpec => []LoaderInv
<1>1. LoaderInit => LoaderInv
  BY InitLoaderInv
<1>2. LoaderInv /\ [LoaderNext]_loaderVars => LoaderInv'
  BY NextLoaderInv
<1> QED
  BY <1>1, <1>2, PTL DEF LoaderSpec

\* The kernel and its stack are mapped, page by page, to the frames that
\* MemoryManager::initialize will map them to, for every kernel that is linked in
\* order: get_page_count, map_in_kernel and map_in_stack agree on the offsets.
THEOREM KernelRemap == LoaderSpec => []RemapAgrees
  BY LoaderInvariant, InvRemapAgrees, PTL

\* map_in_kernel leaves every page of every segment at its virtual address with
\* the file's bytes or zeroes, whatever the memory held before.
THEOREM KernelImage == LoaderSpec => []ImageLoaded
  BY LoaderInvariant, InvImageLoaded, PTL

\* After the jump the trampoline, BootInfo and the first 16 MiB are where
\* BootPhysicalMemory::translate says.
THEOREM BootMemorySeen == LoaderSpec => []EarlyMemory
  BY LoaderInvariant, InvEarlyMemory, PTL

\* The loader gives no memory two uses, although the pages of BootInfo and the
\* tables come from one block and the rest from the firmware at any place.
THEOREM LoaderMemory == LoaderSpec => []MemoryApart
  BY LoaderInvariant, InvMemoryApart, PTL
=============================================================================
