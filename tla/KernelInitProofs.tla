-------------------------- MODULE KernelInitProofs --------------------------
(***************************************************************************)
(* Proofs about KernelInit for every capacity of the early print buffer,   *)
(* every set of firmware tables, every archive and any number of           *)
(* interrupts: what leaves the serial port is in order, nothing is used    *)
(* before it is initialised, the MADT is read completely and read_file     *)
(* returns the right file.                                                 *)
(***************************************************************************)
EXTENDS KernelInit, DataLemmas

Part == [by : {"kernel"}, message : Int, part : {"time", "text"}]
AnyPart == [by : {"kernel", "handler"}, message : Int, part : {"time", "text"}]
-----------------------------------------------------------------------------
\* Messages are printed one after the other: what is printed for some and
\* then for the following ones is what is printed for all of them.
LEMMA PartsType ==
    ASSUME NEW a \in Int, NEW b \in Int, a <= b + 1
    PROVE  /\ Parts(a, b) \in Seq(Part)
           /\ Len(Parts(a, b)) = 2 * (b - a + 1)
<1> DEFINE n == 2 * (b - a + 1)
<1>1. n \in Nat
  OBVIOUS
<1>2. \A i \in 1 .. n : [by |-> "kernel", message |-> a + (i - 1) \div 2,
                         part |-> IF i % 2 = 1 THEN "time" ELSE "text"] \in Part
  BY DEF Part
<1>3. Parts(a, b) \in [1 .. n -> Part]
  BY <1>2 DEF Parts
<1>4. Parts(a, b) \in Seq(Part)
  BY <1>1, <1>3, SeqDef
<1>5. DOMAIN Parts(a, b) = 1 .. n
  BY <1>3
<1> QED
  BY <1>1, <1>4, <1>5, LenProperties

LEMMA PartsConcat ==
    ASSUME NEW a \in Int, NEW b \in Int, NEW c \in Int, a <= b + 1, b <= c
    PROVE  Parts(a, b) \o Parts(b + 1, c) = Parts(a, c)
<1> DEFINE s == Parts(a, b)
           t == Parts(b + 1, c)
           u == Parts(a, c)
           n == 2 * (b - a + 1)
<1>1. /\ s \in Seq(Part) /\ Len(s) = n
      /\ t \in Seq(Part) /\ Len(t) = 2 * (c - b)
      /\ u \in Seq(Part) /\ Len(u) = 2 * (c - a + 1)
  <2>1. s \in Seq(Part) /\ Len(s) = n
    BY PartsType
  <2>2. t \in Seq(Part) /\ Len(t) = 2 * (c - (b + 1) + 1)
    BY PartsType
  <2>3. u \in Seq(Part) /\ Len(u) = 2 * (c - a + 1)
    BY PartsType
  <2> QED
    BY <2>1, <2>2, <2>3
<1>2. /\ \A i \in 1 .. n : s[i] = [by |-> "kernel", message |-> a + (i - 1) \div 2,
                                   part |-> IF i % 2 = 1 THEN "time" ELSE "text"]
      /\ \A i \in 1 .. 2 * (c - b) :
            t[i] = [by |-> "kernel", message |-> b + 1 + (i - 1) \div 2,
                    part |-> IF i % 2 = 1 THEN "time" ELSE "text"]
      /\ \A i \in 1 .. 2 * (c - a + 1) :
            u[i] = [by |-> "kernel", message |-> a + (i - 1) \div 2,
                    part |-> IF i % 2 = 1 THEN "time" ELSE "text"]
  BY DEF Parts
<1> HIDE DEF s, t, u
<1>3. /\ s \o t \in Seq(Part)
      /\ Len(s \o t) = Len(s) + Len(t)
      /\ \A i \in 1 .. Len(s) + Len(t) :
            (s \o t)[i] = IF i <= Len(s) THEN s[i] ELSE t[i - Len(s)]
  BY <1>1, ConcatProperties
<1>4. Len(s \o t) = Len(u) /\ Len(u) \in Nat /\ Len(s) + Len(t) = Len(u)
  BY <1>1, <1>3
<1>5. ASSUME NEW i \in 1 .. Len(u)
      PROVE  (s \o t)[i] = u[i]
  <2>1. CASE i <= n
    <3>1. i \in 1 .. n /\ i \in 1 .. 2 * (c - a + 1)
      BY <1>1, <2>1
    <3>2. (s \o t)[i] = s[i]
      BY <1>1, <1>3, <1>4, <2>1
    <3> QED
      BY <1>2, <3>1, <3>2
  <2>2. CASE i > n
    <3>1. i - n \in 1 .. 2 * (c - b) /\ i \in 1 .. 2 * (c - a + 1)
      BY <1>1, <2>2
    <3>2. b + 1 + ((i - n) - 1) \div 2 = a + (i - 1) \div 2 /\ (i - n) % 2 = i % 2
      BY <3>1
    <3>3. (s \o t)[i] = t[i - n]
      BY <1>1, <1>3, <1>4, <2>2
    <3> QED
      BY <1>2, <3>1, <3>2, <3>3
  <2> QED
    BY <1>1, <2>1, <2>2
<1>6. s \o t = u
  BY <1>1, <1>3, <1>4, <1>5, SeqEqual
<1> QED
  BY <1>6 DEF s, t, u

LEMMA PartsNone ==
    ASSUME NEW a \in Int
    PROVE  Parts(a + 1, a) = << >>
<1>1. Parts(a + 1, a) \in Seq(Part) /\ Len(Parts(a + 1, a)) = 0
  BY PartsType
<1> QED
  BY <1>1, EmptySeq

\* What fits of a list is a list.
LEMMA FittingProperties ==
    ASSUME NEW s \in Seq(Part)
    PROVE  /\ Fitting(s) \in Seq(Part)
           /\ Len(Fitting(s)) \in Nat
           /\ Len(Fitting(s)) = IF Len(s) < EarlyCapacity THEN Len(s) ELSE EarlyCapacity
           /\ \A i \in 1 .. Len(Fitting(s)) : Fitting(s)[i] = s[i]
<1> DEFINE n == IF Len(s) < EarlyCapacity THEN Len(s) ELSE EarlyCapacity
<1>1. Len(s) \in Nat /\ n \in Nat /\ n <= Len(s)
  BY LenProperties, FirmwareAssumption
<1>2. \A i \in 1 .. n : s[i] \in Part
  BY <1>1, ElementOfSeq
<1>3. Fitting(s) = SubSeq(s, 1, n)
  BY DEF Fitting
<1> HIDE DEF n
<1>4. /\ SubSeq(s, 1, n) \in Seq(Part)
      /\ Len(SubSeq(s, 1, n)) = IF 1 <= n THEN n - 1 + 1 ELSE 0
      /\ \A i \in 1 .. n - 1 + 1 : SubSeq(s, 1, n)[i] = s[1 + i - 1]
  BY <1>1, <1>2, SubSeqProperties
<1>5. Fitting(s) \in Seq(Part) /\ Len(Fitting(s)) = n /\ \A i \in 1 .. n : Fitting(s)[i] = s[i]
  BY <1>1, <1>3, <1>4
<1> QED
  BY <1>1, <1>5 DEF n

LEMMA FittingNone == Fitting(<< >>) = << >>
<1>1. PICK s \in Seq(Part) : s = << >>
  BY EmptySeq
<1>2. Len(s) = 0
  BY <1>1, EmptySeq
<1>3. EarlyCapacity \in Nat
  BY FirmwareAssumption
<1>4. Fitting(s) \in Seq(Part) /\ Len(Fitting(s)) = 0
  <2>1. /\ Fitting(s) \in Seq(Part)
        /\ Len(Fitting(s)) \in Nat
        /\ Len(Fitting(s)) = IF Len(s) < EarlyCapacity THEN Len(s) ELSE EarlyCapacity
    BY FittingProperties
  <2> QED
    BY <1>2, <1>3, <2>1
<1>5. Fitting(s) = << >>
  BY <1>4, EmptySeq
<1> QED
  BY <1>1, <1>5

\* A buffer that is filled piece by piece holds what fits of the whole.
LEMMA FittingConcat ==
    ASSUME NEW s \in Seq(Part), NEW t \in Seq(Part)
    PROVE  Fitting(Fitting(s) \o t) = Fitting(s \o t)
<1> DEFINE f == Fitting(s)
<1>0. EarlyCapacity \in Nat /\ Len(s) \in Nat /\ Len(t) \in Nat
  BY FirmwareAssumption, LenProperties
<1>1. /\ f \in Seq(Part)
      /\ Len(f) = IF Len(s) < EarlyCapacity THEN Len(s) ELSE EarlyCapacity
      /\ \A i \in 1 .. Len(f) : f[i] = s[i]
  BY FittingProperties
<1> HIDE DEF f
<1>2. /\ f \o t \in Seq(Part)
      /\ Len(f \o t) = Len(f) + Len(t)
      /\ \A i \in 1 .. Len(f) + Len(t) : (f \o t)[i] = IF i <= Len(f) THEN f[i] ELSE t[i - Len(f)]
  BY <1>1, ConcatProperties
<1>3. /\ s \o t \in Seq(Part)
      /\ Len(s \o t) = Len(s) + Len(t)
      /\ \A i \in 1 .. Len(s) + Len(t) : (s \o t)[i] = IF i <= Len(s) THEN s[i] ELSE t[i - Len(s)]
  BY ConcatProperties
<1> DEFINE g == Fitting(f \o t)
           h == Fitting(s \o t)
<1>4. /\ g \in Seq(Part)
      /\ Len(g) = IF Len(f \o t) < EarlyCapacity THEN Len(f \o t) ELSE EarlyCapacity
      /\ \A i \in 1 .. Len(g) : g[i] = (f \o t)[i]
  BY <1>2, FittingProperties
<1>5. /\ h \in Seq(Part)
      /\ Len(h) = IF Len(s \o t) < EarlyCapacity THEN Len(s \o t) ELSE EarlyCapacity
      /\ \A i \in 1 .. Len(h) : h[i] = (s \o t)[i]
  BY <1>3, FittingProperties
<1> HIDE DEF g, h
<1>6. Len(g) = Len(h) /\ Len(g) \in Nat /\ Len(f) \in Nat /\ Len(g) <= Len(f) + Len(t)
      /\ Len(h) <= Len(s) + Len(t) /\ (Len(f) = Len(s) \/ Len(g) <= Len(f))
      /\ Len(f) <= Len(s)
  BY <1>0, <1>1, <1>2, <1>3, <1>4, <1>5
<1>7. ASSUME NEW i \in 1 .. Len(g)
      PROVE  g[i] = h[i]
  <2>1. g[i] = (f \o t)[i] /\ h[i] = (s \o t)[i]
    BY <1>4, <1>5, <1>6
  <2>2. CASE i <= Len(f)
    BY <1>0, <1>1, <1>2, <1>3, <1>6, <2>1, <2>2
  <2>3. CASE i > Len(f)
    BY <1>0, <1>2, <1>3, <1>6, <2>1, <2>3, SMTT(20)
  <2> QED
    BY <1>6, <2>2, <2>3
<1>8. g = h
  BY <1>4, <1>5, <1>6, <1>7, SeqEqual
<1> QED
  BY <1>8 DEF f, g, h
-----------------------------------------------------------------------------
\* The recursion in Own.
LEMMA OwnRecursion ==
    ASSUME NEW s \in Seq(AnyPart)
    PROVE  \E f \in [0 .. Len(s) -> Seq(Part)] :
              /\ f[0] = << >>
              /\ \A k \in 1 .. Len(s) :
                    f[k] = IF s[k].by = "kernel" THEN Append(f[k - 1], s[k]) ELSE f[k - 1]
              /\ Own(s) = f[Len(s)]
<1> DEFINE n == Len(s)
           Step(v, k) == IF s[k].by = "kernel" THEN Append(v, s[k]) ELSE v
           g == [x \in Seq(Part) \X Int |-> IF x[2] \in 1 .. n THEN Step(x[1], x[2]) ELSE x[1]]
<1>1. n \in Nat /\ \A k \in 1 .. n : s[k] \in AnyPart
  BY LenProperties, ElementOfSeq
<1>2. \A v \in Seq(Part), k \in 1 .. n : Step(v, k) \in Seq(Part)
  <2> SUFFICES ASSUME NEW v \in Seq(Part), NEW k \in 1 .. n PROVE Step(v, k) \in Seq(Part)
    OBVIOUS
  <2>1. s[k].by = "kernel" => s[k] \in Part
    BY <1>1 DEF AnyPart, Part
  <2> QED
    BY <2>1, AppendProperties
<1> HIDE DEF Step, n
<1>3. g \in [Seq(Part) \X Int -> Seq(Part)]
  BY <1>2
<1> HIDE DEF g
<1>4. << >> \in Seq(Part)
  BY EmptySeq
<1> DEFINE none == << >>
<1> HIDE DEF none
<1>5. PICK f \in [0 .. n -> Seq(Part)] :
          f[0] = none /\ \A k \in 0 + 1 .. n : f[k] = g[<<f[k - 1], k>>]
  <2>1. PICK m \in Int, h \in Int : m = 0 /\ h = n /\ m <= h
    BY <1>1
  <2>2. none \in Seq(Part)
    BY <1>4 DEF none
  <2>3. \E f : Recursive(f, m, h, Seq(Part), none, g)
    BY <1>3, <2>1, <2>2, Recursion
  <2> QED
    BY <2>1, <2>3 DEF Recursive
<1>6. \A k \in 1 .. n : f[k] = Step(f[k - 1], k)
  <2> SUFFICES ASSUME NEW k \in 1 .. n PROVE f[k] = Step(f[k - 1], k)
    OBVIOUS
  <2>1. f[k] = g[<<f[k - 1], k>>] /\ f[k - 1] \in Seq(Part)
    BY <1>1, <1>5
  <2> QED
    BY <2>1 DEF g
<1> DEFINE IsOwn(o) == o = [i \in 0 .. n |-> IF i = 0 THEN none ELSE Step(o[i - 1], i)]
<1>7. IsOwn(f)
  <2>1. \A i \in 0 .. n : f[i] = IF i = 0 THEN none ELSE Step(f[i - 1], i)
    BY <1>1, <1>5, <1>6
  <2> QED
    BY <2>1
<1>8. Own(s) = (CHOOSE o : IsOwn(o))[n]
  <2>1. Own(s) = (CHOOSE o : o = [i \in 0 .. n |->
                      IF i = 0 THEN << >>
                      ELSE IF s[i].by = "kernel" THEN Append(o[i - 1], s[i])
                      ELSE o[i - 1]])[n]
    BY DEF Own, n
  <2> QED
    BY <2>1 DEF Step, none
<1> DEFINE o == CHOOSE o : IsOwn(o)
<1>9. IsOwn(o)
  <2> HIDE DEF IsOwn
  <2> QED
    BY <1>7
<1>10. o = [i \in 0 .. n |-> IF i = 0 THEN none ELSE Step(o[i - 1], i)]
  BY <1>9
<1> HIDE DEF o
<1>11. o[0] = none /\ \A k \in 1 .. n : o[k] = Step(o[k - 1], k)
  BY <1>1, <1>10
<1> DEFINE T == {i \in 0 .. n : o[i] = f[i]}
<1>12. 0 \in T
  BY <1>1, <1>5, <1>11
<1>13. \A k \in 0 .. n - 1 : k \in T => k + 1 \in T
  <2> SUFFICES ASSUME NEW k \in 0 .. n - 1, k \in T PROVE k + 1 \in T
    OBVIOUS
  <2>1. k + 1 \in 1 .. n /\ (k + 1) - 1 = k
    BY <1>1
  <2> QED
    BY <1>1, <1>6, <1>11, <2>1
<1>14. o[n] = f[n]
  <2> HIDE DEF T
  <2>1. PICK m \in Int, h \in Int : m = 0 /\ h = n /\ m <= h
    BY <1>1
  <2>2. m .. h \subseteq T
    BY <1>12, <1>13, <2>1, Ascent
  <2>3. n \in T
    BY <1>1, <2>1, <2>2
  <2> QED
    BY <2>3 DEF T
<1> QED
  BY <1>5, <1>6, <1>8, <1>14 DEF Step, none, n, o

LEMMA OwnNone == Own(<< >>) = << >>
<1>1. PICK s \in Seq(AnyPart) : s = << >> /\ Len(s) = 0
  BY EmptySeq
<1> QED
  BY <1>1, OwnRecursion

\* What one more part adds.
LEMMA OwnAppend ==
    ASSUME NEW s \in Seq(AnyPart), NEW x \in AnyPart
    PROVE  /\ Own(s) \in Seq(Part)
           /\ Append(s, x) \in Seq(AnyPart)
           /\ Own(Append(s, x)) = IF x.by = "kernel" THEN Append(Own(s), x) ELSE Own(s)
<1>1. PICK n \in Nat : n = Len(s)
  BY LenProperties
<1>2. PICK f \in [0 .. n -> Seq(Part)] :
          /\ f[0] = << >>
          /\ \A k \in 1 .. n :
                f[k] = IF s[k].by = "kernel" THEN Append(f[k - 1], s[k]) ELSE f[k - 1]
          /\ Own(s) = f[n]
  BY <1>1, OwnRecursion
<1>3. PICK t \in Seq(AnyPart) :
          /\ t = Append(s, x) /\ Len(t) = n + 1 /\ t[n + 1] = x
          /\ \A k \in 1 .. n : t[k] = s[k]
  <2>1. /\ Append(s, x) \in Seq(AnyPart) /\ Len(Append(s, x)) = Len(s) + 1
        /\ \A k \in 1 .. Len(s) : Append(s, x)[k] = s[k]
        /\ Append(s, x)[Len(s) + 1] = x
    BY AppendProperties
  <2> QED
    BY <1>1, <2>1
<1>4. PICK h \in [0 .. n + 1 -> Seq(Part)] :
          /\ h[0] = << >>
          /\ \A k \in 1 .. n + 1 :
                h[k] = IF t[k].by = "kernel" THEN Append(h[k - 1], t[k]) ELSE h[k - 1]
          /\ Own(t) = h[n + 1]
  BY <1>3, OwnRecursion
<1> DEFINE T == {i \in 0 .. n : h[i] = f[i]}
<1>5. 0 \in T
  BY <1>2, <1>4
<1>6. \A k \in 0 .. n - 1 : k \in T => k + 1 \in T
  <2> SUFFICES ASSUME NEW k \in 0 .. n - 1, k \in T PROVE k + 1 \in T
    OBVIOUS
  <2>1. k + 1 \in 1 .. n /\ k + 1 \in 1 .. n + 1 /\ (k + 1) - 1 = k
    OBVIOUS
  <2>2. h[k] = f[k] /\ t[k + 1] = s[k + 1]
    BY <1>3, <2>1
  <2>3. /\ h[k + 1] = IF t[k + 1].by = "kernel" THEN Append(h[k], t[k + 1]) ELSE h[k]
        /\ f[k + 1] = IF s[k + 1].by = "kernel" THEN Append(f[k], s[k + 1]) ELSE f[k]
    BY <1>2, <1>4, <2>1
  <2> QED
    BY <2>1, <2>2, <2>3
<1>7. h[n] = f[n]
  <2> HIDE DEF T
  <2>1. PICK m \in Int, e \in Int : m = 0 /\ e = n /\ m <= e
    OBVIOUS
  <2>2. m .. e \subseteq T
    BY <1>5, <1>6, <2>1, Ascent
  <2>3. n \in T
    BY <2>1, <2>2
  <2> QED
    BY <2>3 DEF T
<1>8. h[n + 1] = IF x.by = "kernel" THEN Append(h[n], x) ELSE h[n]
  <2>1. n + 1 \in 1 .. n + 1 /\ (n + 1) - 1 = n
    OBVIOUS
  <2> QED
    BY <1>3, <1>4, <2>1
<1> QED
  BY <1>2, <1>3, <1>4, <1>7, <1>8

LEMMA TwoParts ==
    ASSUME NEW S, NEW x \in S, NEW y \in S
    PROVE  /\ <<x>> \in Seq(S) /\ <<y>> \in Seq(S) /\ <<x, y>> \in Seq(S)
           /\ <<x>> \o <<y>> = <<x, y>>
<1>1. /\ <<x>> \in Seq(S) /\ Len(<<x>>) = 1 /\ <<x>>[1] = x
      /\ <<y>> \in Seq(S) /\ Len(<<y>>) = 1 /\ <<y>>[1] = y
  OBVIOUS
<1>2. /\ <<x, y>> \in Seq(S) /\ Len(<<x, y>>) = 2
      /\ <<x, y>>[1] = x /\ <<x, y>>[2] = y
  OBVIOUS
<1> DEFINE s == <<x>>
           t == <<y>>
           u == <<x, y>>
<1>3. /\ s \in Seq(S) /\ Len(s) = 1 /\ s[1] = x
      /\ t \in Seq(S) /\ Len(t) = 1 /\ t[1] = y
      /\ u \in Seq(S) /\ Len(u) = 2 /\ u[1] = x /\ u[2] = y
  BY <1>1, <1>2
<1> HIDE DEF s, t, u
<1>4. /\ s \o t \in Seq(S) /\ Len(s \o t) = Len(s) + Len(t)
      /\ \A i \in 1 .. Len(s) + Len(t) :
            (s \o t)[i] = IF i <= Len(s) THEN s[i] ELSE t[i - Len(s)]
  BY <1>3, ConcatProperties
<1>5. (s \o t)[1] = x /\ (s \o t)[2] = y /\ Len(s \o t) = 2
  BY <1>3, <1>4
<1>6. s \o t = u
  <2>1. \A i \in 1 .. Len(u) : u[i] = (s \o t)[i]
    BY <1>3, <1>5
  <2> QED
    BY <1>3, <1>4, <1>5, <2>1, SeqEqual
<1> QED
  BY <1>3, <1>6 DEF s, t, u

\* What a message adds that is printed at once, and one or two parts that a
\* handler prints.
LEMMA OwnMore ==
    ASSUME NEW s \in Seq(AnyPart), NEW x \in AnyPart, NEW y \in AnyPart, x.by = y.by
    PROVE  /\ s \o <<x, y>> \in Seq(AnyPart) /\ s \o <<x>> \in Seq(AnyPart)
           /\ x.by # "kernel" => Own(s \o <<x, y>>) = Own(s) /\ Own(s \o <<x>>) = Own(s)
           /\ x.by = "kernel" => Own(s \o <<x, y>>) = Own(s) \o <<x, y>>
<1>1. s \o <<x>> = Append(s, x) /\ s \o <<x, y>> = Append(Append(s, x), y)
  <2>1. s \o <<x>> = Append(s, x)
    BY AppendIsConcat
  <2>2. Append(s, x) \o <<y>> = Append(Append(s, x), y)
    BY AppendIsConcat, AppendProperties
  <2>3. <<x>> \in Seq(AnyPart) /\ <<y>> \in Seq(AnyPart) /\ <<x>> \o <<y>> = <<x, y>>
    BY TwoParts
  <2>4. (s \o <<x>>) \o <<y>> = s \o (<<x>> \o <<y>>)
    BY <2>3, ConcatAssociative
  <2> QED
    BY <2>1, <2>2, <2>3, <2>4
<1>2. PICK t \in Seq(AnyPart) : t = Append(s, x)
  BY AppendProperties
<1>3. /\ Own(s) \in Seq(Part)
      /\ Own(t) = IF x.by = "kernel" THEN Append(Own(s), x) ELSE Own(s)
      /\ Append(t, y) \in Seq(AnyPart)
      /\ Own(Append(t, y)) = IF y.by = "kernel" THEN Append(Own(t), y) ELSE Own(t)
  BY <1>2, OwnAppend
<1>4. x.by = "kernel" => Append(Append(Own(s), x), y) = Own(s) \o <<x, y>>
  <2> SUFFICES ASSUME x.by = "kernel"
               PROVE  Append(Append(Own(s), x), y) = Own(s) \o <<x, y>>
    OBVIOUS
  <2>1. x \in Part /\ y \in Part
    BY DEF AnyPart, Part
  <2>2. PICK o \in Seq(Part) : o = Own(s)
    BY <1>3
  <2>3. Append(o, x) \in Seq(Part) /\ Append(o, x) = o \o <<x>>
    BY <2>1, AppendIsConcat, AppendProperties
  <2>4. Append(Append(o, x), y) = (o \o <<x>>) \o <<y>>
    BY <2>1, <2>3, AppendIsConcat
  <2>5. <<x>> \in Seq(Part) /\ <<y>> \in Seq(Part) /\ <<x>> \o <<y>> = <<x, y>>
    BY <2>1, TwoParts
  <2>6. (o \o <<x>>) \o <<y>> = o \o (<<x>> \o <<y>>)
    BY <2>5, ConcatAssociative
  <2> QED
    BY <2>2, <2>4, <2>5, <2>6
<1> QED
  BY <1>1, <1>2, <1>3, <1>4
-----------------------------------------------------------------------------
\* The stages by their number.
LEMMA StageNumbers ==
    \A i \in 1 .. 32 :
      /\ Order[i] = "early_initialize" => i = 1
      /\ Order[i] = "banner" => i = 2
      /\ Order[i] = "initialize_heap" => i = 3
      /\ Order[i] = "display_memory_map" => i = 4
      /\ Order[i] = "mm" => i = 5
      /\ Order[i] = "processor" => i = 6
      /\ Order[i] = "time" => i = 7
      /\ Order[i] = "register_devices" => i = 8
      /\ Order[i] = "switch_early_print" => i = 9
      /\ Order[i] = "console_init" => i = 10
      /\ Order[i] = "flush_early_print_buffer" => i = 11
      /\ Order[i] = "acpi" => i = 12
      /\ Order[i] = "gdt" => i = 13
      /\ Order[i] = "idt" => i = 14
      /\ Order[i] = "syscall" => i = 15
      /\ Order[i] = "find_madt" => i = 16
      /\ Order[i] = "parse_madt" => i = 17
      /\ Order[i] = "apic" => i = 18
      /\ Order[i] = "io_apic" => i = 19
      /\ Order[i] = "initialize_core" => i = 20
      /\ Order[i] = "debug_dump" => i = 21
      /\ Order[i] = "enable_interrupts" => i = 22
      /\ Order[i] = "print_interrupts" => i = 23
      /\ Order[i] = "initrd" => i = 24
      /\ Order[i] = "init_process" => i = 25
      /\ Order[i] = "test_process" => i = 26
      /\ Order[i] = "start" => i = 27
      /\ Order[i] = "find_device" => i = 28
      /\ Order[i] = "set_ready" => i = 29
      /\ Order[i] = "read_file" => i = 30
      /\ Order[i] = "parse_file" => i = 31
      /\ Order[i] = "replace_image" => i = 32
  BY DEF Order

LEMMA Numbers ==
    /\ Len(Order) = 32
    /\ Index("early_initialize") = 1
    /\ Index("initialize_heap") = 3
    /\ Index("mm") = 5
    /\ Index("processor") = 6
    /\ Index("register_devices") = 8
    /\ Index("switch_early_print") = 9
    /\ Index("console_init") = 10
    /\ Index("flush_early_print_buffer") = 11
    /\ Index("gdt") = 13
    /\ Index("idt") = 14
    /\ Index("parse_madt") = 17
    /\ Index("io_apic") = 19
    /\ Index("initialize_core") = 20
    /\ Index("enable_interrupts") = 22
    /\ Index("init_process") = 25
    /\ Index("start") = 27
    /\ Index("read_file") = 30
<1>1. Len(Order) = 32 /\ DOMAIN Order = 1 .. 32
  BY DEF Order
<1>2. /\ Order[1] = "early_initialize"
      /\ Order[3] = "initialize_heap"
      /\ Order[5] = "mm"
      /\ Order[6] = "processor"
      /\ Order[8] = "register_devices"
      /\ Order[9] = "switch_early_print"
      /\ Order[10] = "console_init"
      /\ Order[11] = "flush_early_print_buffer"
      /\ Order[13] = "gdt"
      /\ Order[14] = "idt"
      /\ Order[17] = "parse_madt"
      /\ Order[19] = "io_apic"
      /\ Order[20] = "initialize_core"
      /\ Order[22] = "enable_interrupts"
      /\ Order[25] = "init_process"
      /\ Order[27] = "start"
      /\ Order[30] = "read_file"
  BY DEF Order
<1> QED
  BY <1>1, <1>2, StageNumbers DEF Index
-----------------------------------------------------------------------------
\* What the kernel's own messages come to once the part it is at is printed.
Output == Own(serial) \o pending

\* Printing goes to the buffer up to switch_early_print and to the serial
\* port after it; nothing is printed between the switch and the flush, or it
\* would come out before the buffer.
OnlyBuffered ==
    /\ early
    /\ ~flushed
    /\ Output = << >>
    /\ buffer = Fitting(Parts(1, said))
BeforeFlush == IF flushed THEN buffer ELSE << >>
Switched ==
    /\ ~early
    /\ switched <= said
    /\ buffer = Fitting(Parts(1, switched))
    /\ at > Index("flush_early_print_buffer") => flushed
    /\ at <= Index("flush_early_print_buffer") => ~flushed
    /\ ~flushed => said = switched
    /\ Output = BeforeFlush \o Parts(switched + 1, said)
Printing ==
    /\ at \in 1 .. Len(Order) + 1
    /\ serial \in Seq(AnyPart) /\ pending \in Seq(Part)
    /\ said \in Nat /\ switched \in Nat
    /\ early \in BOOLEAN /\ flushed \in BOOLEAN
    /\ at <= Index("switch_early_print") => OnlyBuffered
    /\ at > Index("switch_early_print") => Switched

\* What is up once a stage is over.
Facilities ==
    /\ at > Index("early_initialize") => "serial" \in up
    /\ at > Index("initialize_heap") => "heap" \in up
    /\ at > Index("mm") => "mm" \in up
    /\ at > Index("processor") => "gs" \in up
    /\ at > Index("register_devices") => "devices" \in up
    /\ at > Index("console_init") => "console" \in up
    /\ at > Index("gdt") => "gdt" \in up
    /\ at > Index("idt") => "idt" \in up
    /\ at > Index("init_process") => "init_thread" \in up
    /\ at > Index("start") => "current" \in up

\* Interrupts are off until enable_interrupts, and a vector is only unmasked
\* when the local APIC has been found, whose address initialize_core takes.
Vectors ==
    /\ intr => at = 1 \/ at > Index("enable_interrupts")
    /\ at = Index("io_apic") => "apic_addr" \in up
    /\ raises # {} => at > Index("io_apic") /\ "apic_addr" \in up
    /\ at > Index("initialize_core") /\ "apic_addr" \in up => "apic" \in up

\* The inductive invariant.
IInv ==
    /\ tables \in Seq([signature : STRING, records : Seq(Records)])
    /\ Printing
    /\ Facilities
    /\ Vectors
    /\ NothingUsedEarly

LEMMA InitIInv == Init => IInv
<1> SUFFICES ASSUME Init PROVE IInv
  OBVIOUS
<1>1. Printing
  <2>1. Parts(1, 0) = << >>
    BY PartsNone
  <2>a. Output = << >> /\ serial \in Seq(AnyPart) /\ pending \in Seq(Part)
    <3>1. << >> \in Seq(Part) /\ << >> \in Seq(AnyPart)
      BY EmptySeq
    <3>2. << >> \o << >> = << >>
      BY <3>1, ConcatEmptySeq
    <3> QED
      BY <3>1, <3>2, OwnNone DEF Init, Output
  <2>2. OnlyBuffered
    BY <2>1, <2>a, FittingNone DEF Init, OnlyBuffered
  <2>3. at = 1 /\ said = 0 /\ switched = 0 /\ early \in BOOLEAN /\ flushed \in BOOLEAN
    BY DEF Init
  <2> QED
    BY <2>2, <2>3, <2>a, Numbers DEF Printing
<1>2. Facilities /\ Vectors
  BY Numbers DEF Init, Facilities, Vectors
<1> QED
  BY <1>1, <1>2, EmptySeq DEF Init, IInv, NothingUsedEarly
-----------------------------------------------------------------------------
\* What _print_fmt does with m messages.
Prints(m) ==
    /\ said' = said + m
    /\ serial' \in Seq(AnyPart) /\ pending' \in Seq(Part)
    /\ IF early
       THEN /\ buffer' = Fitting(buffer \o Parts(said + 1, said + m))
            /\ Output' = Output
       ELSE /\ Output' = Output \o Parts(said + 1, said + m)
            /\ buffer' = buffer

LEMMA OwnType ==
    ASSUME NEW l \in Seq(AnyPart)
    PROVE  Own(l) \in Seq(Part)
<1>1. PICK n \in Nat : n = Len(l)
  BY LenProperties
<1>2. PICK f \in [0 .. n -> Seq(Part)] : Own(l) = f[n]
  BY <1>1, OwnRecursion
<1> QED
  BY <1>2

LEMMA PrintingTypes ==
    ASSUME Printing
    PROVE  /\ buffer \in Seq(Part) /\ Own(serial) \in Seq(Part) /\ Output \in Seq(Part)
           /\ Fitting(buffer \o << >>) = buffer
<1>0. at \in 1 .. 33 /\ said \in Nat /\ switched \in Nat
  BY Numbers DEF Printing
<1>1. PICK n \in Nat : buffer = Fitting(Parts(1, n))
  BY <1>0, Numbers DEF Printing, OnlyBuffered, Switched
<1>2. Parts(1, n) \in Seq(Part)
  BY PartsType
<1>3. buffer \in Seq(Part)
  BY <1>1, <1>2, FittingProperties
<1>4. << >> \in Seq(Part)
  BY EmptySeq
<1>5. Own(serial) \in Seq(Part) /\ Output \in Seq(Part)
  BY OwnType, ConcatProperties DEF Printing, Output
<1>6. Fitting(buffer \o << >>) = buffer
  BY <1>1, <1>2, <1>4, FittingConcat, ConcatEmptySeq
<1> QED
  BY <1>3, <1>5, <1>6

\* A stage that prints nothing.
LEMMA QuietPrints ==
    ASSUME Printing, UNCHANGED <<buffer, pending, serial, said>>
    PROVE  Prints(0)
<1>1. said \in Nat /\ said + 0 = said
  BY DEF Printing
<1>2. Parts(said + 1, said + 0) = << >>
  BY <1>1, PartsNone
<1>3. Output \o << >> = Output /\ Fitting(buffer \o << >>) = buffer
  BY PrintingTypes, ConcatEmptySeq
<1>4. Output' = Output
  BY DEF Output
<1>5. serial' \in Seq(AnyPart) /\ pending' \in Seq(Part)
  BY DEF Printing
<1> QED
  BY <1>1, <1>2, <1>3, <1>4, <1>5 DEF Prints

\* A stage other than the three that change how messages are printed.
LEMMA PrintsKeep ==
    ASSUME Printing, NEW m \in Nat, Prints(m),
           UNCHANGED <<early, switched, flushed>>,
           at' \in 1 .. 33, at \notin 9 .. 11, at < 9 => at' <= 9, at > 11 => at' > 11
    PROVE  Printing'
<1>1. /\ at \in 1 .. 33 /\ said \in Nat /\ switched \in Nat /\ said' = said + m
      /\ early \in BOOLEAN /\ flushed \in BOOLEAN
      /\ serial' \in Seq(AnyPart) /\ pending' \in Seq(Part)
  BY Numbers DEF Printing, Prints
<1>2. PICK n \in Nat : n = said + m
  BY <1>1
<1>3. CASE at < 9
  <2>1. OnlyBuffered
    BY <1>1, <1>3, Numbers DEF Printing
  <2>2. /\ Parts(1, said) \in Seq(Part)
        /\ Parts(said + 1, n) \in Seq(Part)
        /\ Parts(1, said) \o Parts(said + 1, n) = Parts(1, n)
    <3>1. PICK b \in Int : b = said
      BY <1>1
    <3>2. PICK d \in Int : d = said + 1
      BY <1>1
    <3>3. 1 <= b + 1 /\ b <= n /\ d <= n + 1
      BY <1>1, <1>2, <3>1, <3>2
    <3>4. Parts(1, b) \in Seq(Part)
      BY <3>3, PartsType
    <3>5. Parts(d, n) \in Seq(Part)
      BY <3>3, PartsType
    <3>6. Parts(1, b) \o Parts(b + 1, n) = Parts(1, n)
      BY <3>3, PartsConcat, SMTT(20)
    <3> QED
      BY <3>1, <3>2, <3>4, <3>5, <3>6
  <2>3. buffer' = Fitting(Parts(1, n)) /\ Output' = << >>
    BY <1>1, <1>2, <2>1, <2>2, FittingConcat DEF Prints, OnlyBuffered
  <2>4. OnlyBuffered'
    BY <1>1, <1>2, <2>1, <2>3 DEF OnlyBuffered
  <2> QED
    BY <1>1, <1>2, <1>3, <2>4, Numbers DEF Printing
<1>4. CASE at > 11
  <2>1. Switched /\ flushed
    <3>1. at > Index("switch_early_print") /\ at > Index("flush_early_print_buffer")
      BY <1>1, <1>4, Numbers
    <3>2. Switched
      BY <3>1 DEF Printing
    <3> QED
      BY <3>1, <3>2 DEF Switched
  <2>2. /\ Parts(switched + 1, said) \in Seq(Part)
        /\ Parts(said + 1, n) \in Seq(Part)
        /\ Parts(switched + 1, said) \o Parts(said + 1, n) = Parts(switched + 1, n)
    <3>1. PICK a \in Int : a = switched + 1
      BY <1>1
    <3>2. PICK b \in Int : b = said
      BY <1>1
    <3>3. PICK d \in Int : d = said + 1
      BY <1>1
    <3>4. a <= b + 1 /\ b <= n /\ d <= n + 1
      BY <1>1, <1>2, <2>1, <3>1, <3>2, <3>3 DEF Switched
    <3>5. Parts(a, b) \in Seq(Part)
      BY <3>4, PartsType
    <3>6. Parts(d, n) \in Seq(Part)
      BY <3>4, PartsType
    <3>7. Parts(a, b) \o Parts(b + 1, n) = Parts(a, n)
      BY <3>4, PartsConcat, SMTT(20)
    <3> QED
      BY <3>1, <3>2, <3>3, <3>5, <3>6, <3>7
  <2>3. Output = buffer \o Parts(switched + 1, said)
    BY <2>1 DEF Switched, BeforeFlush
  <2>4. Output' = Output \o Parts(said + 1, n) /\ buffer' = buffer
    BY <1>2, <2>1 DEF Prints, Switched
  <2>5. Output' = buffer \o Parts(switched + 1, n)
    <3>1. PICK x \in Seq(Part) : x = Parts(switched + 1, said)
      BY <2>2
    <3>2. PICK y \in Seq(Part) : y = Parts(said + 1, n)
      BY <2>2
    <3>3. PICK z \in Seq(Part) : z = buffer
      BY PrintingTypes
    <3>4. (z \o x) \o y = z \o (x \o y)
      BY ConcatAssociative, SMTT(20)
    <3> QED
      BY <2>2, <2>3, <2>4, <3>1, <3>2, <3>3, <3>4
  <2>6. Switched'
    <3>1. BeforeFlush' = buffer
      BY <1>1, <2>1, <2>4 DEF BeforeFlush
    <3>2. switched <= n
      BY <1>1, <1>2, <1>4, <2>1 DEF Switched
    <3> QED
      <4>1. ~early' /\ flushed' /\ switched' <= said' /\ buffer' = Fitting(Parts(1, switched'))
        BY <1>1, <1>2, <2>1, <2>4, <3>2 DEF Switched
      <4>2. Output' = BeforeFlush' \o Parts(switched' + 1, said')
        BY <1>1, <1>2, <2>5, <3>1
      <4>3. ~(at' <= Index("flush_early_print_buffer"))
        BY <1>1, <1>4, Numbers
      <4> QED
        BY <4>1, <4>2, <4>3 DEF Switched
  <2> QED
    BY <1>1, <1>4, <2>6, Numbers DEF Printing
<1> QED
  BY <1>1, <1>3, <1>4

\* Where a stage runs.
LEMMA RunsAt ==
    ASSUME at \in 1 .. 33, NEW stage, NEW facilities, NEW next, RunsTo(stage, facilities, next)
    PROVE  at \in 1 .. 32 /\ Order[at] = stage /\ at' = next
  BY Numbers DEF RunsTo, Done

LEMMA SwitchKeeps ==
    ASSUME Printing, SwitchEarlyPrint \/ ConsoleInit \/ FlushEarlyPrintBuffer
    PROVE  Printing'
<1>1. /\ at \in 1 .. 33 /\ said \in Nat /\ switched \in Nat
      /\ early \in BOOLEAN /\ flushed \in BOOLEAN
  BY Numbers DEF Printing
<1>t. serial \in Seq(AnyPart) /\ pending \in Seq(Part)
  BY DEF Printing
<1>2. CASE SwitchEarlyPrint
  <2>1. at = 9 /\ at' = 10
    <3>1. RunsTo("switch_early_print", {}, at + 1)
      BY <1>2 DEF SwitchEarlyPrint, Runs
    <3> QED
      BY <1>1, <3>1, StageNumbers, RunsAt
  <2>2. OnlyBuffered
    BY <2>1, Numbers DEF Printing
  <2>3. ~flushed' /\ ~early' /\ switched' = said /\ UNCHANGED <<buffer, pending, serial, said>>
    BY <1>2, <2>2 DEF SwitchEarlyPrint, OnlyBuffered, Quiet, printVars
  <2>a. Output' = Output /\ serial' \in Seq(AnyPart) /\ pending' \in Seq(Part)
    BY <1>t, <2>3 DEF Output
  <2>4. Output' = << >> \o Parts(said + 1, said)
    BY <1>1, <2>2, <2>a, PartsNone, EmptySeq, ConcatEmptySeq DEF OnlyBuffered
  <2>5. BeforeFlush' = << >>
    BY <2>3 DEF BeforeFlush
  <2>6. Output' = BeforeFlush' \o Parts(switched' + 1, said')
    BY <2>3, <2>4, <2>5
  <2>7. buffer' = Fitting(Parts(1, switched')) /\ switched' <= said'
    BY <1>1, <2>2, <2>3 DEF OnlyBuffered
  <2>8. Switched'
    BY <2>1, <2>3, <2>6, <2>7, Numbers DEF Switched
  <2> QED
    <3>1. ~(at' <= Index("switch_early_print")) /\ at' \in 1 .. Len(Order) + 1
      BY <2>1, Numbers
    <3>2. early' \in BOOLEAN /\ flushed' \in BOOLEAN
      BY <1>1, <1>2 DEF SwitchEarlyPrint
    <3>3. said' \in Nat /\ switched' \in Nat
      BY <1>1, <2>3
    <3> QED
      BY <2>8, <2>a, <3>1, <3>2, <3>3 DEF Printing
<1>3. CASE ConsoleInit
  <2>1. at = 10 /\ at' = 11
    <3>1. RunsTo("console_init", {"console"}, at + 1)
      BY <1>3 DEF ConsoleInit, Runs
    <3> QED
      BY <1>1, <3>1, StageNumbers, RunsAt
  <2>2. UNCHANGED <<buffer, pending, serial, said, early, switched, flushed>>
    BY <1>3 DEF ConsoleInit, Quiet, printVars, switchVars
  <2>3. Switched
    BY <2>1, Numbers DEF Printing
  <2>a. Output' = Output /\ serial' \in Seq(AnyPart) /\ pending' \in Seq(Part)
    BY <1>t, <2>2 DEF Output
  <2>4. Switched'
    BY <2>1, <2>2, <2>3, <2>a, Numbers DEF Switched, BeforeFlush
  <2> QED
    BY <1>1, <2>1, <2>2, <2>4, <2>a, Numbers DEF Printing
<1>4. CASE FlushEarlyPrintBuffer
  <2>1. at = 11 /\ at' = 12
    <3>1. RunsTo("flush_early_print_buffer", {}, at + 1)
      BY <1>4 DEF FlushEarlyPrintBuffer, Runs
    <3> QED
      BY <1>1, <3>1, StageNumbers, RunsAt
  <2>2. Switched /\ ~flushed /\ ~early
    <3>1. at > Index("switch_early_print") /\ at <= Index("flush_early_print_buffer")
      BY <2>1, Numbers
    <3>2. Switched
      BY <1>1, <3>1 DEF Printing
    <3> QED
      BY <3>1, <3>2 DEF Switched
  <2>3. Parts(switched + 1, said) = << >> /\ BeforeFlush = << >>
    BY <1>1, <2>2, PartsNone DEF Switched, BeforeFlush
  <2>4. Output = << >>
    BY <2>2, <2>3, EmptySeq, ConcatEmptySeq DEF Switched
  <2>5. /\ pending = << >> /\ pending' = buffer
        /\ flushed'
        /\ UNCHANGED <<buffer, serial, said, early, switched>>
    BY <1>4, <2>2 DEF FlushEarlyPrintBuffer, Runs, RunsTo
  <2>a. Output' = Output \o buffer
    BY <2>5, PrintingTypes, ConcatEmptySeq DEF Output
  <2>b. serial' \in Seq(AnyPart) /\ pending' \in Seq(Part)
    BY <1>t, <2>5, PrintingTypes
  <2>6. Output' = buffer \o Parts(switched + 1, said)
    BY <2>3, <2>4, <2>a, PrintingTypes, ConcatEmptySeq
  <2>7. BeforeFlush' = buffer
    BY <2>5 DEF BeforeFlush
  <2>8. Output' = BeforeFlush' \o Parts(switched' + 1, said')
    BY <2>5, <2>6, <2>7
  <2>9. Switched'
    <3>1. ~early' /\ flushed' /\ switched' <= said' /\ buffer' = Fitting(Parts(1, switched'))
      BY <2>2, <2>5 DEF Switched
    <3>2. ~(at' <= Index("flush_early_print_buffer"))
      BY <2>1, Numbers
    <3> QED
      BY <2>8, <3>1, <3>2 DEF Switched
  <2>10. flushed' \in BOOLEAN
    BY <1>4 DEF FlushEarlyPrintBuffer
  <2> QED
    BY <1>1, <2>1, <2>5, <2>9, <2>10, <2>b, Numbers DEF Printing
<1> QED
  BY <1>2, <1>3, <1>4
-----------------------------------------------------------------------------
\* What a stage has to bring up for the later ones.
Brings(stage) ==
    CASE stage = "early_initialize" -> {"serial"}
      [] stage = "initialize_heap" -> {"heap"}
      [] stage = "mm" -> {"mm"}
      [] stage = "processor" -> {"gs"}
      [] stage = "register_devices" -> {"devices"}
      [] stage = "console_init" -> {"console"}
      [] stage = "gdt" -> {"gdt"}
      [] stage = "idt" -> {"idt"}
      [] stage = "apic" -> {"apic_addr"}
      [] stage = "init_process" -> {"init_thread"}
      [] stage = "start" -> {"current"}
      [] OTHER -> {}

\* The numbers of the stages that bring something up.
LEMMA BringsAt ==
    ASSUME NEW i \in 1 .. 32
    PROVE  /\ i = 1 => "serial" \in Brings(Order[i])
           /\ i = 3 => "heap" \in Brings(Order[i])
           /\ i = 5 => "mm" \in Brings(Order[i])
           /\ i = 6 => "gs" \in Brings(Order[i])
           /\ i = 8 => "devices" \in Brings(Order[i])
           /\ i = 10 => "console" \in Brings(Order[i])
           /\ i = 13 => "gdt" \in Brings(Order[i])
           /\ i = 14 => "idt" \in Brings(Order[i])
           /\ i = 18 => "apic_addr" \in Brings(Order[i])
           /\ i = 25 => "init_thread" \in Brings(Order[i])
           /\ i = 27 => "current" \in Brings(Order[i])
<1>1. /\ Order[1] = "early_initialize"
      /\ Order[3] = "initialize_heap" /\ Order[5] = "mm" /\ Order[6] = "processor"
      /\ Order[8] = "register_devices" /\ Order[10] = "console_init" /\ Order[13] = "gdt"
      /\ Order[14] = "idt" /\ Order[18] = "apic" /\ Order[25] = "init_process"
      /\ Order[27] = "start"
  BY DEF Order
<1>2. /\ "serial" \in Brings("early_initialize")
      /\ "heap" \in Brings("initialize_heap") /\ "mm" \in Brings("mm")
      /\ "gs" \in Brings("processor") /\ "devices" \in Brings("register_devices")
      /\ "console" \in Brings("console_init") /\ "gdt" \in Brings("gdt")
      /\ "idt" \in Brings("idt") /\ "apic_addr" \in Brings("apic")
      /\ "init_thread" \in Brings("init_process") /\ "current" \in Brings("start")
  BY DEF Brings
<1> QED
  BY <1>1, <1>2

\* A stage keeps what is up, adds what it brings, and uses nothing early if
\* what it needs is up: prints go through gs only when gs is up.
LEMMA StageKeeps ==
    ASSUME Printing, Facilities, NothingUsedEarly,
           NEW stage, NEW facilities, NEW next, RunsTo(stage, facilities, next),
           next = at \/ next = at + 1 \/ (at = 16 /\ next = 20),
           Needs(stage) \subseteq up, Brings(stage) \subseteq facilities
    PROVE  Facilities' /\ NothingUsedEarly'
<1>1. at \in 1 .. 33
  BY Numbers DEF Printing
<1>2. at \in 1 .. 32 /\ Order[at] = stage /\ at' = next
  BY <1>1, RunsAt
<1>3. up' = up \cup facilities
  BY DEF RunsTo
<1>4. Facilities'
  <2>1. CASE next = at
    BY <1>2, <1>3, <2>1 DEF Facilities
  <2>2. CASE next = at + 1
    BY <1>2, <1>3, <2>2, BringsAt, Numbers DEF Facilities
  <2>3. CASE at = 16 /\ next = 20
    BY <1>2, <1>3, <2>3, Numbers DEF Facilities
  <2> QED
    BY <2>1, <2>2, <2>3
<1>5. ~PrintsEarly
  <2>1. CASE at <= 9
    BY <1>1, <2>1, Numbers DEF Printing, OnlyBuffered, PrintsEarly
  <2>2. CASE at > 9
    BY <1>1, <2>2, Numbers DEF Facilities, PrintsEarly
  <2> QED
    BY <1>1, <2>1, <2>2
<1>6. ~misused'
  BY <1>5 DEF RunsTo, NothingUsedEarly
<1> QED
  BY <1>4, <1>6 DEF NothingUsedEarly

\* _print_fmt: what is to be printed follows what has been printed.
LEMMA SayWithPrints ==
    ASSUME Printing, pending = << >>, NEW m \in Nat, NEW flag, SayWith(m, flag)
    PROVE  Prints(m) /\ intr' = flag
<1>1. said \in Nat /\ serial \in Seq(AnyPart) /\ pending \in Seq(Part)
  BY DEF Printing
<1>2. said' = said + m /\ intr' = flag /\ serial' = serial
  BY DEF SayWith
<1>3. CASE early
  <2>1. buffer' = Fitting(buffer \o Parts(said + 1, said + m)) /\ pending' = pending
    BY <1>3 DEF SayWith
  <2>2. Output' = Output
    BY <1>2, <2>1 DEF Output
  <2> QED
    BY <1>1, <1>2, <1>3, <2>1, <2>2 DEF Prints
<1>4. CASE ~early
  <2>1. buffer' = buffer /\ pending' = Parts(said + 1, said + m)
    BY <1>4 DEF SayWith
  <2>2. Output = Own(serial)
    BY PrintingTypes, ConcatEmptySeq DEF Output
  <2>3. Output' = Output \o Parts(said + 1, said + m)
    BY <1>2, <2>1, <2>2 DEF Output
  <2>4. pending' \in Seq(Part)
    <3>1. PICK a \in Int, b \in Int : a = said + 1 /\ b = said + m /\ a <= b + 1
      BY <1>1
    <3> QED
      BY <2>1, <3>1, PartsType
  <2> QED
    BY <1>1, <1>2, <1>4, <2>1, <2>3, <2>4 DEF Prints
<1> QED
  BY <1>3, <1>4

LEMMA SayPrints ==
    ASSUME Printing, NEW stage, NEW facilities, NEW next, RunsTo(stage, facilities, next),
           NEW m \in Nat, NEW flag, SayWith(m, flag)
    PROVE  Prints(m) /\ intr' = flag
<1>1. pending = << >>
  BY DEF RunsTo
<1> QED
  BY <1>1, SayWithPrints

\* The stages that only initialise something and print.
LEMMA PlainKeeps ==
    ASSUME IInv, NEW stage, NEW facilities, NEW m \in Nat, Plain(stage, facilities, m),
           Needs(stage) \subseteq up, Brings(stage) \subseteq facilities,
           at \notin {1, 9, 10, 11, 20}, at > 20 => "apic_addr" \notin facilities
    PROVE  IInv'
<1>1. at \in 1 .. 33
  BY Numbers DEF IInv, Printing
<1>2. RunsTo(stage, facilities, at + 1)
  BY DEF Plain, Runs
<1>3. at \in 1 .. 32 /\ Order[at] = stage /\ at' = at + 1 /\ up' = up \cup facilities
  BY <1>1, <1>2, RunsAt DEF RunsTo
<1>4. Prints(m) /\ intr' = intr
  BY <1>2, SayPrints DEF IInv, Plain, Say
<1>5. UNCHANGED <<early, switched, flushed, tables, raises>>
  BY DEF Plain, switchVars, acpiVars
<1>6. Printing'
  <2>1. at' \in 1 .. 33 /\ at \notin 9 .. 11 /\ (at < 9 => at' <= 9) /\ (at > 11 => at' > 11)
    BY <1>3
  <2> QED
    BY <1>4, <1>5, <2>1, PrintsKeep DEF IInv
<1>7. Facilities' /\ NothingUsedEarly'
  BY <1>2, StageKeeps DEF IInv
<1>8. Vectors'
  <2>1. at = 18 => "apic_addr" \in up'
    BY <1>3, BringsAt
  <2>2. Vectors
    BY DEF IInv
  <2>3. intr' => at' > 22
    BY <1>3, <1>4, <2>2, Numbers DEF Vectors
  <2>4. raises' # {} => at' > 19 /\ "apic_addr" \in up'
    BY <1>3, <1>5, <2>2, Numbers DEF Vectors
  <2>5. at' > 20 /\ "apic_addr" \in up' => "apic" \in up'
    BY <1>3, <2>2, Numbers DEF Vectors
  <2> QED
    BY <1>3, <2>1, <2>3, <2>4, <2>5, Numbers DEF Vectors
<1> QED
  BY <1>5, <1>6, <1>7, <1>8 DEF IInv

\* The stages of PlainKeeps, one by one.
PlainStage ==
    \/ Banner \/ InitializeHeap \/ MmInitialize \/ ProcessorInit \/ TimeInitialize
    \/ RegisterDevices \/ GdtInitialize \/ IdtInitialize \/ SyscallInitialize \/ EnableApic
    \/ CreateInitProcess \/ CreateTestProcess \/ UseSerialDevice \/ SetReady \/ ReplaceImage

LEMMA PlainAt ==
    ASSUME at \in 1 .. 33, NEW stage, NEW facilities, NEW m, Plain(stage, facilities, m)
    PROVE  at \in 1 .. 32 /\ Order[at] = stage
  BY RunsAt DEF Plain, Runs

LEMMA PlainStageKeeps ==
    ASSUME IInv, PlainStage
    PROVE  IInv'
<1>0. at \in 1 .. 33 /\ Facilities
  BY Numbers DEF IInv, Printing
<1>1. CASE Banner
  <2>1. Plain("banner", {}, 1)
    BY <1>1 DEF Banner
  <2>2. at = 2
    BY <1>0, <2>1, PlainAt, StageNumbers
  <2>3. Needs("banner") \subseteq up /\ Brings("banner") \subseteq {}
    BY <1>0, <2>2, Numbers DEF Needs, Brings, Facilities
  <2> QED
    BY <2>1, <2>2, <2>3, PlainKeeps
<1>2. CASE InitializeHeap
  <2>1. Plain("initialize_heap", {"heap"}, 0)
    BY <1>2 DEF InitializeHeap
  <2>2. at = 3
    BY <1>0, <2>1, PlainAt, StageNumbers
  <2>3. Needs("initialize_heap") \subseteq up /\ Brings("initialize_heap") \subseteq {"heap"}
    BY <1>0, <2>2, Numbers DEF Needs, Brings, Facilities
  <2> QED
    BY <2>1, <2>2, <2>3, PlainKeeps
<1>3. CASE MmInitialize
  <2>1. Plain("mm", {"mm"}, 1)
    BY <1>3 DEF MmInitialize
  <2>2. at = 5
    BY <1>0, <2>1, PlainAt, StageNumbers
  <2>3. Needs("mm") \subseteq up /\ Brings("mm") \subseteq {"mm"}
    BY <1>0, <2>2, Numbers DEF Needs, Brings, Facilities
  <2> QED
    BY <2>1, <2>2, <2>3, PlainKeeps
<1>4. CASE ProcessorInit
  <2>1. Plain("processor", {"gs"}, 1)
    BY <1>4 DEF ProcessorInit
  <2>2. at = 6
    BY <1>0, <2>1, PlainAt, StageNumbers
  <2>3. Needs("processor") \subseteq up /\ Brings("processor") \subseteq {"gs"}
    BY <1>0, <2>2, Numbers DEF Needs, Brings, Facilities
  <2> QED
    BY <2>1, <2>2, <2>3, PlainKeeps
<1>5. CASE TimeInitialize
  <2>1. Plain("time", {}, 1)
    BY <1>5 DEF TimeInitialize
  <2>2. at = 7
    BY <1>0, <2>1, PlainAt, StageNumbers
  <2>3. Needs("time") \subseteq up /\ Brings("time") \subseteq {}
    BY <1>0, <2>2, Numbers DEF Needs, Brings, Facilities
  <2> QED
    BY <2>1, <2>2, <2>3, PlainKeeps
<1>6. CASE RegisterDevices
  <2>1. Plain("register_devices", {"devices"}, 0)
    BY <1>6 DEF RegisterDevices
  <2>2. at = 8
    BY <1>0, <2>1, PlainAt, StageNumbers
  <2>3. Needs("register_devices") \subseteq up /\ Brings("register_devices") \subseteq {"devices"}
    BY <1>0, <2>2, Numbers DEF Needs, Brings, Facilities
  <2> QED
    BY <2>1, <2>2, <2>3, PlainKeeps
<1>7. CASE GdtInitialize
  <2>1. Plain("gdt", {"gdt"}, 0)
    BY <1>7 DEF GdtInitialize
  <2>2. at = 13
    BY <1>0, <2>1, PlainAt, StageNumbers
  <2>3. Needs("gdt") \subseteq up /\ Brings("gdt") \subseteq {"gdt"}
    BY <1>0, <2>2, Numbers DEF Needs, Brings, Facilities
  <2> QED
    BY <2>1, <2>2, <2>3, PlainKeeps
<1>8. CASE IdtInitialize
  <2>1. Plain("idt", {"idt"}, 0)
    BY <1>8 DEF IdtInitialize
  <2>2. at = 14
    BY <1>0, <2>1, PlainAt, StageNumbers
  <2>3. Needs("idt") \subseteq up /\ Brings("idt") \subseteq {"idt"}
    BY <1>0, <2>2, Numbers DEF Needs, Brings, Facilities
  <2> QED
    BY <2>1, <2>2, <2>3, PlainKeeps
<1>9. CASE SyscallInitialize
  <2>1. Plain("syscall", {"syscall"}, 0)
    BY <1>9 DEF SyscallInitialize
  <2>2. at = 15
    BY <1>0, <2>1, PlainAt, StageNumbers
  <2>3. Needs("syscall") \subseteq up /\ Brings("syscall") \subseteq {"syscall"}
    BY <1>0, <2>2, Numbers DEF Needs, Brings, Facilities
  <2> QED
    BY <2>1, <2>2, <2>3, PlainKeeps
<1>10. CASE EnableApic
  <2>1. Plain("apic", {"apic_addr"}, 1)
    BY <1>10 DEF EnableApic
  <2>2. at = 18
    BY <1>0, <2>1, PlainAt, StageNumbers
  <2>3. Needs("apic") \subseteq up /\ Brings("apic") \subseteq {"apic_addr"}
    BY <1>0, <2>2, Numbers DEF Needs, Brings, Facilities
  <2> QED
    BY <2>1, <2>2, <2>3, PlainKeeps
<1>11. CASE CreateInitProcess
  <2>1. Plain("init_process", {"init_thread"}, 0)
    BY <1>11 DEF CreateInitProcess
  <2>2. at = 25
    BY <1>0, <2>1, PlainAt, StageNumbers
  <2>3. Needs("init_process") \subseteq up /\ Brings("init_process") \subseteq {"init_thread"}
    BY <1>0, <2>2, Numbers DEF Needs, Brings, Facilities
  <2> QED
    BY <2>1, <2>2, <2>3, PlainKeeps
<1>12. CASE CreateTestProcess
  <2>1. Plain("test_process", {"test_thread"}, 1)
    BY <1>12 DEF CreateTestProcess
  <2>2. at = 26
    BY <1>0, <2>1, PlainAt, StageNumbers
  <2>3. Needs("test_process") \subseteq up /\ Brings("test_process") \subseteq {"test_thread"}
    BY <1>0, <2>2, Numbers DEF Needs, Brings, Facilities
  <2> QED
    BY <2>1, <2>2, <2>3, PlainKeeps
<1>13. CASE UseSerialDevice
  <2>1. Plain("find_device", {}, 3)
    BY <1>13 DEF UseSerialDevice
  <2>2. at = 28
    BY <1>0, <2>1, PlainAt, StageNumbers
  <2>3. Needs("find_device") \subseteq up /\ Brings("find_device") \subseteq {}
    BY <1>0, <2>2, Numbers DEF Needs, Brings, Facilities
  <2> QED
    BY <2>1, <2>2, <2>3, PlainKeeps
<1>14. CASE SetReady
  <2>1. Plain("set_ready", {"ready"}, 0)
    BY <1>14 DEF SetReady
  <2>2. at = 29
    BY <1>0, <2>1, PlainAt, StageNumbers
  <2>3. Needs("set_ready") \subseteq up /\ Brings("set_ready") \subseteq {"ready"}
    BY <1>0, <2>2, Numbers DEF Needs, Brings, Facilities
  <2> QED
    BY <2>1, <2>2, <2>3, PlainKeeps
<1>15. CASE ReplaceImage
  <2>1. Plain("replace_image", {"image"}, 1)
    BY <1>15 DEF ReplaceImage
  <2>2. at = 32
    BY <1>0, <2>1, PlainAt, StageNumbers
  <2>3. Needs("replace_image") \subseteq up /\ Brings("replace_image") \subseteq {"image"}
    BY <1>0, <2>2, Numbers DEF Needs, Brings, Facilities
  <2> QED
    BY <2>1, <2>2, <2>3, PlainKeeps
<1> QED
  BY <1>1, <1>2, <1>3, <1>4, <1>5, <1>6, <1>7, <1>8,
     <1>9, <1>10, <1>11, <1>12, <1>13, <1>14, <1>15 DEF PlainStage

\* A panic, in any stage in which the kernel can.
LEMMA PanicKeeps ==
    ASSUME IInv, Panics, at \notin 9 .. 11
    PROVE  IInv'
<1>1. at \in 1 .. 33 /\ Printing /\ Facilities /\ Vectors /\ ~misused
  BY Numbers DEF IInv, Printing, NothingUsedEarly
<1>2. Prints(1) /\ intr' = FALSE
  <2>1. SayWith(1, FALSE) /\ pending = << >>
    BY DEF Panics
  <2> QED
    BY <1>1, <2>1, SayWithPrints
<1>3. UNCHANGED <<at, up, early, switched, flushed, tables, raises>>
  BY DEF Panics, switchVars, acpiVars
<1>4. Printing'
  <2>1. at' \in 1 .. 33 /\ (at < 9 => at' <= 9) /\ (at > 11 => at' > 11)
    BY <1>1, <1>3
  <2> QED
    BY <1>1, <1>2, <1>3, <2>1, PrintsKeep
<1>5. Facilities' /\ Vectors'
  BY <1>1, <1>2, <1>3 DEF Facilities, Vectors
<1>6. ~PrintsEarly
  <2>1. CASE at <= 9
    BY <1>1, <2>1, Numbers DEF Printing, OnlyBuffered, PrintsEarly
  <2>2. CASE at > 9
    BY <1>1, <2>2, Numbers DEF Facilities, PrintsEarly
  <2> QED
    BY <1>1, <2>1, <2>2
<1>7. ~misused'
  BY <1>1, <1>6 DEF Panics
<1> QED
  BY <1>3, <1>4, <1>5, <1>7 DEF IInv, NothingUsedEarly

PanicStage ==
    \/ AllocationFails \/ ParseMadtPanics \/ InitializeIoApicPanics
    \/ ReadInitrdPanics \/ ReadFilePanics \/ ParseFilePanics

LEMMA PanicStageKeeps ==
    ASSUME IInv, PanicStage
    PROVE  IInv'
<1>1. at \in 1 .. 33
  BY Numbers DEF IInv, Printing
<1>2. PICK stage \in Allocating \cup {"parse_madt", "io_apic", "initrd", "read_file", "parse_file"} :
          PanicsIn(stage)
  BY DEF PanicStage, AllocationFails, ParseMadtPanics, InitializeIoApicPanics,
         ReadInitrdPanics, ReadFilePanics, ParseFilePanics
<1>3. at \in 1 .. 32 /\ Order[at] = stage /\ Panics
  BY <1>1, <1>2, Numbers DEF PanicsIn, Done
<1>4. at \notin 9 .. 11
  <2>1. /\ Order[9] = "switch_early_print" /\ Order[10] = "console_init"
        /\ Order[11] = "flush_early_print_buffer"
    BY DEF Order
  <2> QED
    BY <1>2, <1>3, <2>1 DEF Allocating
<1> QED
  BY <1>3, <1>4, PanicKeeps

\* The same for a stage that also changes something else.
LEMMA StepKeeps ==
    ASSUME IInv, NEW stage, NEW facilities, NEW next, NEW m \in Nat,
           RunsTo(stage, facilities, next), Prints(m),
           next = at \/ next = at + 1 \/ (at = 16 /\ next = 20),
           UNCHANGED <<early, switched, flushed>>,
           Needs(stage) \subseteq up, Brings(stage) \subseteq facilities, at \notin 9 .. 11
    PROVE  Printing' /\ Facilities' /\ NothingUsedEarly'
<1>1. at \in 1 .. 33 /\ Printing
  BY Numbers DEF IInv, Printing
<1>2. at \in 1 .. 32 /\ at' = next
  BY <1>1, RunsAt
<1>3. at' \in 1 .. 33 /\ (at < 9 => at' <= 9) /\ (at > 11 => at' > 11)
  BY <1>2
<1>4. Printing'
  BY <1>1, <1>3, PrintsKeep
<1> QED
  BY <1>4, StageKeeps DEF IInv

LEMMA EarlyInitializeKeeps ==
    ASSUME IInv, EarlyInitialize
    PROVE  IInv'
<1>0. at \in 1 .. 33 /\ Printing /\ Facilities /\ Vectors
  BY Numbers DEF IInv, Printing
<1>1. RunsTo("early_initialize", {"serial"}, at + 1)
  BY DEF EarlyInitialize, Runs
<1>2. at = 1 /\ at' = 2 /\ up' = up \cup {"serial"}
  <2>1. at = 1 /\ at' = 2
    BY <1>0, <1>1, RunsAt, StageNumbers
  <2>2. up' = up \cup {"serial"}
    BY <1>1 DEF RunsTo
  <2> QED
    BY <2>1, <2>2
<1>3. UNCHANGED <<buffer, pending, serial, said, early, switched, flushed, tables, raises>>
  BY DEF EarlyInitialize, switchVars, acpiVars, Quiet, printVars
<1>4. Prints(0)
  BY <1>0, <1>3, QuietPrints
<1>m. PICK m \in Nat : Prints(m)
  BY <1>4
<1>5. Needs("early_initialize") \subseteq up /\ Brings("early_initialize") \subseteq {"serial"}
  BY <1>0, <1>2, Numbers DEF Needs, Brings, Facilities
<1>6. Printing' /\ Facilities' /\ NothingUsedEarly'
  BY <1>1, <1>2, <1>3, <1>5, <1>m, StepKeeps
<1>7. Vectors'
  <2>1. intr' = FALSE
    BY DEF EarlyInitialize
  <2> QED
    BY <1>0, <1>2, <1>3, <2>1, Numbers DEF Vectors
<1>8. tables' \in Seq([signature : STRING, records : Seq(Records)])
  BY <1>3 DEF IInv
<1> QED
  BY <1>6, <1>7, <1>8 DEF IInv

LEMMA DisplayMemoryMapKeeps ==
    ASSUME IInv, DisplayMemoryMap
    PROVE  IInv'
<1>0. at \in 1 .. 33 /\ Printing /\ Facilities /\ Vectors
  BY Numbers DEF IInv, Printing
<1>1. RunsTo("display_memory_map", {}, at + 1)
  BY DEF DisplayMemoryMap, Runs
<1>2. at = 4 /\ at' = 5 /\ up' = up \cup {}
  <2>1. at = 4 /\ at' = 5
    BY <1>0, <1>1, RunsAt, StageNumbers
  <2>2. up' = up \cup {}
    BY <1>1 DEF RunsTo
  <2> QED
    BY <2>1, <2>2
<1>3. UNCHANGED <<early, switched, flushed, tables, raises>>
  BY DEF DisplayMemoryMap, switchVars, acpiVars
<1>m. PICK m \in Nat : Prints(m) /\ intr' = intr
  <2>1. PICK m \in Nat : SayWith(m, intr)
    BY FirmwareAssumption DEF DisplayMemoryMap, Say
  <2> QED
    BY <1>0, <1>1, <2>1, SayPrints
<1>5. Needs("display_memory_map") \subseteq up /\ Brings("display_memory_map") \subseteq {}
  BY <1>0, <1>2, Numbers DEF Needs, Brings, Facilities
<1>6. Printing' /\ Facilities' /\ NothingUsedEarly'
  BY <1>1, <1>2, <1>3, <1>5, <1>m, StepKeeps
<1>7. Vectors'
  BY <1>0, <1>2, <1>3, <1>m, Numbers DEF Vectors
<1>8. tables' \in Seq([signature : STRING, records : Seq(Records)])
  BY <1>3 DEF IInv
<1> QED
  BY <1>6, <1>7, <1>8 DEF IInv

LEMMA AcpiInitializeKeeps ==
    ASSUME IInv, AcpiInitialize
    PROVE  IInv'
<1>0. at \in 1 .. 33 /\ Printing /\ Facilities /\ Vectors
  BY Numbers DEF IInv, Printing
<1>1. RunsTo("acpi", {}, at + 1)
  BY DEF AcpiInitialize, Runs
<1>2. at = 12 /\ at' = 13 /\ up' = up \cup {}
  <2>1. at = 12 /\ at' = 13
    BY <1>0, <1>1, RunsAt, StageNumbers
  <2>2. up' = up \cup {}
    BY <1>1 DEF RunsTo
  <2> QED
    BY <2>1, <2>2
<1>3. UNCHANGED <<early, switched, flushed, raises>>
  BY DEF AcpiInitialize, switchVars, acpiVars
<1>m. PICK m \in Nat : Prints(m) /\ intr' = intr
  <2>1. CASE Quiet
    BY <1>0, <2>1, QuietPrints DEF Quiet, printVars
  <2>2. CASE \E warnings \in 0 .. 1 : Say(warnings)
    BY <1>0, <1>1, <2>2, SayPrints DEF Say
  <2> QED
    BY <2>1, <2>2 DEF AcpiInitialize
<1>5. Needs("acpi") \subseteq up /\ Brings("acpi") \subseteq {}
  BY <1>0, <1>2, Numbers DEF Needs, Brings, Facilities
<1>6. Printing' /\ Facilities' /\ NothingUsedEarly'
  BY <1>1, <1>2, <1>3, <1>5, <1>m, StepKeeps
<1>7. Vectors'
  BY <1>0, <1>2, <1>3, <1>m, Numbers DEF Vectors
<1>8. tables' \in Seq([signature : STRING, records : Seq(Records)])
  BY FirmwareAssumption DEF IInv, AcpiInitialize
<1> QED
  BY <1>6, <1>7, <1>8 DEF IInv

LEMMA DebugDumpKeeps ==
    ASSUME IInv, DebugDump
    PROVE  IInv'
<1>0. at \in 1 .. 33 /\ Printing /\ Facilities /\ Vectors
  BY Numbers DEF IInv, Printing
<1>1. RunsTo("debug_dump", {}, at + 1)
  BY DEF DebugDump, Runs
<1>2. at = 21 /\ at' = 22 /\ up' = up \cup {}
  <2>1. at = 21 /\ at' = 22
    BY <1>0, <1>1, RunsAt, StageNumbers
  <2>2. up' = up \cup {}
    BY <1>1 DEF RunsTo
  <2> QED
    BY <2>1, <2>2
<1>3. UNCHANGED <<early, switched, flushed, tables, raises>>
  BY DEF DebugDump, switchVars, acpiVars
<1>s. Len(tables) \in Nat
  BY LenProperties DEF IInv
<1>m. PICK m \in Nat : Prints(m) /\ intr' = intr
  <2>1. PICK m \in Nat : SayWith(m, intr)
    BY <1>s DEF DebugDump, Say
  <2> QED
    BY <1>0, <1>1, <2>1, SayPrints
<1>5. Needs("debug_dump") \subseteq up /\ Brings("debug_dump") \subseteq {}
  BY <1>0, <1>2, Numbers DEF Needs, Brings, Facilities
<1>6. Printing' /\ Facilities' /\ NothingUsedEarly'
  BY <1>1, <1>2, <1>3, <1>5, <1>m, StepKeeps
<1>7. Vectors'
  BY <1>0, <1>2, <1>3, <1>m, Numbers DEF Vectors
<1>8. tables' \in Seq([signature : STRING, records : Seq(Records)])
  BY <1>3 DEF IInv
<1> QED
  BY <1>6, <1>7, <1>8 DEF IInv

LEMMA EnableInterruptsKeeps ==
    ASSUME IInv, EnableInterrupts
    PROVE  IInv'
<1>0. at \in 1 .. 33 /\ Printing /\ Facilities /\ Vectors
  BY Numbers DEF IInv, Printing
<1>1. RunsTo("enable_interrupts", {}, at + 1)
  BY DEF EnableInterrupts, Runs
<1>2. at = 22 /\ at' = 23 /\ up' = up \cup {}
  <2>1. at = 22 /\ at' = 23
    BY <1>0, <1>1, RunsAt, StageNumbers
  <2>2. up' = up \cup {}
    BY <1>1 DEF RunsTo
  <2> QED
    BY <2>1, <2>2
<1>3. UNCHANGED <<buffer, pending, serial, said, early, switched, flushed, tables, raises>>
  BY DEF EnableInterrupts, switchVars, acpiVars, Quiet, printVars
<1>4. Prints(0)
  BY <1>0, <1>3, QuietPrints
<1>m. PICK m \in Nat : Prints(m)
  BY <1>4
<1>5. Needs("enable_interrupts") \subseteq up /\ Brings("enable_interrupts") \subseteq {}
  BY <1>0, <1>2, Numbers DEF Needs, Brings, Facilities
<1>6. Printing' /\ Facilities' /\ NothingUsedEarly'
  BY <1>1, <1>2, <1>3, <1>5, <1>m, StepKeeps
<1>7. Vectors'
  BY <1>0, <1>2, <1>3, <1>m, Numbers DEF Vectors
<1>8. tables' \in Seq([signature : STRING, records : Seq(Records)])
  BY <1>3 DEF IInv
<1> QED
  BY <1>6, <1>7, <1>8 DEF IInv

LEMMA StartKeeps ==
    ASSUME IInv, Start
    PROVE  IInv'
<1>0. at \in 1 .. 33 /\ Printing /\ Facilities /\ Vectors
  BY Numbers DEF IInv, Printing
<1>1. RunsTo("start", {"current"}, at + 1)
  BY DEF Start, Runs
<1>2. at = 27 /\ at' = 28 /\ up' = up \cup {"current"}
  <2>1. at = 27 /\ at' = 28
    BY <1>0, <1>1, RunsAt, StageNumbers
  <2>2. up' = up \cup {"current"}
    BY <1>1 DEF RunsTo
  <2> QED
    BY <2>1, <2>2
<1>3. UNCHANGED <<buffer, pending, serial, said, early, switched, flushed, tables, raises>>
  BY DEF Start, switchVars, acpiVars, Quiet, printVars
<1>4. Prints(0)
  BY <1>0, <1>3, QuietPrints
<1>m. PICK m \in Nat : Prints(m)
  BY <1>4
<1>5. Needs("start") \subseteq up /\ Brings("start") \subseteq {"current"}
  BY <1>0, <1>2, Numbers DEF Needs, Brings, Facilities
<1>6. Printing' /\ Facilities' /\ NothingUsedEarly'
  BY <1>1, <1>2, <1>3, <1>5, <1>m, StepKeeps
<1>7. Vectors'
  BY <1>0, <1>2, <1>3, <1>m, Numbers DEF Vectors
<1>8. tables' \in Seq([signature : STRING, records : Seq(Records)])
  BY <1>3 DEF IInv
<1> QED
  BY <1>6, <1>7, <1>8 DEF IInv

LEMMA ParseFileKeeps ==
    ASSUME IInv, ParseFile
    PROVE  IInv'
<1>0. at \in 1 .. 33 /\ Printing /\ Facilities /\ Vectors
  BY Numbers DEF IInv, Printing
<1>1. RunsTo("parse_file", {}, at + 1)
  BY DEF ParseFile, Runs
<1>2. at = 31 /\ at' = 32 /\ up' = up \cup {}
  <2>1. at = 31 /\ at' = 32
    BY <1>0, <1>1, RunsAt, StageNumbers
  <2>2. up' = up \cup {}
    BY <1>1 DEF RunsTo
  <2> QED
    BY <2>1, <2>2
<1>3. UNCHANGED <<buffer, pending, serial, said, intr, early, switched, flushed, tables, raises>>
  BY DEF ParseFile, switchVars, acpiVars, Quiet, printVars
<1>4. Prints(0)
  BY <1>0, <1>3, QuietPrints
<1>m. PICK m \in Nat : Prints(m)
  BY <1>4
<1>5. Needs("parse_file") \subseteq up /\ Brings("parse_file") \subseteq {}
  BY <1>0, <1>2, Numbers DEF Needs, Brings, Facilities
<1>6. Printing' /\ Facilities' /\ NothingUsedEarly'
  BY <1>1, <1>2, <1>3, <1>5, <1>m, StepKeeps
<1>7. Vectors'
  BY <1>0, <1>2, <1>3, <1>m, Numbers DEF Vectors
<1>8. tables' \in Seq([signature : STRING, records : Seq(Records)])
  BY <1>3 DEF IInv
<1> QED
  BY <1>6, <1>7, <1>8 DEF IInv

LEMMA FindMadtKeeps ==
    ASSUME IInv, FindMadt
    PROVE  IInv'
<1>0. at \in 1 .. 33 /\ Printing /\ Facilities /\ Vectors
  BY Numbers DEF IInv, Printing
<1>1. PICK next \in {17, 20} : RunsTo("find_madt", {}, next)
  <2>1. \E next \in {at + 1, 20} : RunsTo("find_madt", {}, next)
    BY Numbers DEF FindMadt, Runs
  <2>2. PICK next \in {at + 1, 20} : RunsTo("find_madt", {}, next)
    BY <2>1
  <2>3. at = 16
    BY <1>0, <2>2, RunsAt, StageNumbers
  <2> QED
    BY <2>2, <2>3
<1>2. at = 16 /\ at' = next /\ up' = up
  <2>1. at = 16 /\ at' = next
    BY <1>0, <1>1, RunsAt, StageNumbers
  <2>2. up' = up
    BY <1>1 DEF RunsTo
  <2> QED
    BY <2>1, <2>2
<1>3. UNCHANGED <<early, switched, flushed, tables, raises>> /\ Say(2)
  BY DEF FindMadt, switchVars, acpiVars
<1>4. Prints(2) /\ intr' = intr
  BY <1>0, <1>1, <1>3, SayPrints DEF Say
<1>5. Needs("find_madt") \subseteq up /\ Brings("find_madt") \subseteq {}
  BY <1>0, <1>2, Numbers DEF Needs, Brings, Facilities
<1>6. Printing' /\ Facilities' /\ NothingUsedEarly'
  BY <1>1, <1>2, <1>3, <1>4, <1>5, StepKeeps
<1>7. Vectors'
  BY <1>0, <1>1, <1>2, <1>3, <1>4, Numbers DEF Vectors
<1> QED
  BY <1>0, <1>3, <1>6, <1>7 DEF IInv

LEMMA ParseMadtRecordKeeps ==
    ASSUME IInv, ParseMadtRecord
    PROVE  IInv'
<1>0. at \in 1 .. 33 /\ Printing /\ Facilities /\ Vectors
  BY Numbers DEF IInv, Printing
<1>1. PICK next \in {at, at + 1} : RunsTo("parse_madt", {}, next)
  BY <1>0 DEF ParseMadtRecord
<1>2. at = 17 /\ at' = next /\ up' = up
  <2>1. at = 17 /\ at' = next
    BY <1>0, <1>1, RunsAt, StageNumbers
  <2>2. up' = up
    BY <1>1 DEF RunsTo
  <2> QED
    BY <2>1, <2>2
<1>3. UNCHANGED <<early, switched, flushed, tables, raises>> /\ Say(1)
  BY DEF ParseMadtRecord, switchVars
<1>4. Prints(1) /\ intr' = intr
  BY <1>0, <1>1, <1>3, SayPrints DEF Say
<1>5. Needs("parse_madt") \subseteq up /\ Brings("parse_madt") \subseteq {}
  BY <1>0, <1>2, Numbers DEF Needs, Brings, Facilities
<1>6. Printing' /\ Facilities' /\ NothingUsedEarly'
  BY <1>1, <1>2, <1>3, <1>4, <1>5, StepKeeps
<1>7. Vectors'
  BY <1>0, <1>1, <1>2, <1>3, <1>4, Numbers DEF Vectors
<1> QED
  BY <1>0, <1>3, <1>6, <1>7 DEF IInv

LEMMA InitializeIoApicKeeps ==
    ASSUME IInv, InitializeIoApic
    PROVE  IInv'
<1>0. at \in 1 .. 33 /\ Printing /\ Facilities /\ Vectors
  BY Numbers DEF IInv, Printing
<1>1. RunsTo("io_apic", {}, at + 1)
  BY DEF InitializeIoApic, Runs
<1>2. at = 19 /\ at' = 20 /\ up' = up \cup {}
  <2>1. at = 19 /\ at' = 20
    BY <1>0, <1>1, RunsAt, StageNumbers
  <2>2. up' = up \cup {}
    BY <1>1 DEF RunsTo
  <2> QED
    BY <2>1, <2>2
<1>3. UNCHANGED <<early, switched, flushed, tables>>
  BY DEF InitializeIoApic, switchVars, acpiVars
<1>m. PICK m \in Nat : Prints(m) /\ intr' = intr
  <2>1. PICK m \in Nat : SayWith(m, intr)
    BY FirmwareAssumption DEF InitializeIoApic, Say
  <2> QED
    BY <1>0, <1>1, <2>1, SayPrints
<1>5. Needs("io_apic") \subseteq up /\ Brings("io_apic") \subseteq {}
  BY <1>0, <1>2, Numbers DEF Needs, Brings, Facilities
<1>6. Printing' /\ Facilities' /\ NothingUsedEarly'
  BY <1>1, <1>2, <1>3, <1>5, <1>m, StepKeeps
<1>7. Vectors'
  BY <1>0, <1>2, <1>3, <1>m, Numbers DEF Vectors
<1>8. tables' \in Seq([signature : STRING, records : Seq(Records)])
  BY <1>3 DEF IInv
<1> QED
  BY <1>6, <1>7, <1>8 DEF IInv

LEMMA InitializeCoreKeeps ==
    ASSUME IInv, InitializeCore
    PROVE  IInv'
<1>0. at \in 1 .. 33 /\ Printing /\ Facilities /\ Vectors
  BY Numbers DEF IInv, Printing
<1>1. PICK facilities \in {{}, {"apic"}} :
          /\ RunsTo("initialize_core", facilities, at + 1)
          /\ "apic_addr" \in up => facilities = {"apic"}
  BY DEF InitializeCore, Runs
<1>2. at = 20 /\ at' = 21 /\ up' = up \cup facilities
  <2>1. at = 20 /\ at' = 21
    BY <1>0, <1>1, RunsAt, StageNumbers
  <2>2. up' = up \cup facilities
    BY <1>1 DEF RunsTo
  <2> QED
    BY <2>1, <2>2
<1>3. UNCHANGED <<early, switched, flushed, tables>> /\ Say(1)
  BY DEF InitializeCore, switchVars
<1>4. Prints(1) /\ intr' = intr
  BY <1>0, <1>1, <1>3, SayPrints DEF Say
<1>5. Needs("initialize_core") \subseteq up /\ Brings("initialize_core") \subseteq facilities
  BY <1>0, <1>2, Numbers DEF Needs, Brings, Facilities
<1>6. Printing' /\ Facilities' /\ NothingUsedEarly'
  BY <1>1, <1>2, <1>3, <1>4, <1>5, StepKeeps
<1>7. Vectors'
  <2>1. raises' # {} => "apic_addr" \in up
    BY <1>0 DEF Vectors, InitializeCore
  <2> QED
    BY <1>0, <1>1, <1>2, <1>4, <2>1, Numbers DEF Vectors
<1> QED
  BY <1>0, <1>3, <1>6, <1>7 DEF IInv

LEMMA ReadInitrdKeeps ==
    ASSUME IInv, ReadInitrd
    PROVE  IInv'
<1>0. at \in 1 .. 33 /\ Printing /\ Facilities /\ Vectors
  BY Numbers DEF IInv, Printing
<1>1. PICK facilities \in {{}, {"cpio"}} : RunsTo("initrd", facilities, at + 1)
  BY DEF ReadInitrd, Runs
<1>2. at = 24 /\ at' = 25 /\ up' = up \cup facilities
  <2>1. at = 24 /\ at' = 25
    BY <1>0, <1>1, RunsAt, StageNumbers
  <2>2. up' = up \cup facilities
    BY <1>1 DEF RunsTo
  <2> QED
    BY <2>1, <2>2
<1>3. UNCHANGED <<early, switched, flushed, tables, raises>>
  BY DEF ReadInitrd, switchVars, acpiVars
<1>4. PICK m \in Nat : Prints(m) /\ intr' = intr
  <2>1. PICK m \in Nat : SayWith(m, intr)
    BY DEF ReadInitrd, Say
  <2> QED
    BY <1>0, <1>1, <2>1, SayPrints
<1>5. Needs("initrd") \subseteq up /\ Brings("initrd") \subseteq facilities
  BY <1>0, <1>2, Numbers DEF Needs, Brings, Facilities
<1>6. Printing' /\ Facilities' /\ NothingUsedEarly'
  BY <1>1, <1>2, <1>3, <1>4, <1>5, StepKeeps
<1>7. Vectors'
  BY <1>0, <1>1, <1>2, <1>3, <1>4, Numbers DEF Vectors
<1> QED
  BY <1>0, <1>3, <1>6, <1>7 DEF IInv

LEMMA ReadFileKeeps ==
    ASSUME IInv, ReadFile
    PROVE  IInv'
<1>0. at \in 1 .. 33 /\ Printing /\ Facilities /\ Vectors
  BY Numbers DEF IInv, Printing
<1>1. PICK next \in {at, at + 1} : RunsTo("read_file", {}, next)
  BY DEF ReadFile, Runs
<1>2. at = 30 /\ at' = next /\ up' = up
  <2>1. at = 30 /\ at' = next
    BY <1>0, <1>1, RunsAt, StageNumbers
  <2>2. up' = up
    BY <1>1 DEF RunsTo
  <2> QED
    BY <2>1, <2>2
<1>3. UNCHANGED <<early, switched, flushed, tables, raises, intr, buffer, pending, serial, said>>
  BY DEF ReadFile, switchVars, acpiVars, Quiet, printVars
<1>4. Prints(0)
  BY <1>0, <1>3, QuietPrints
<1>5. Needs("read_file") \subseteq up /\ Brings("read_file") \subseteq {}
  BY <1>0, <1>2, Numbers DEF Needs, Brings, Facilities
<1>6. Printing' /\ Facilities' /\ NothingUsedEarly'
  BY <1>1, <1>2, <1>3, <1>4, <1>5, StepKeeps
<1>7. Vectors'
  BY <1>0, <1>1, <1>2, <1>3, Numbers DEF Vectors
<1> QED
  BY <1>0, <1>3, <1>6, <1>7 DEF IInv

\* switch_early_print, the console and the flush, between which nothing is
\* printed.
LEMMA SwitchStageKeeps ==
    ASSUME IInv, SwitchEarlyPrint \/ ConsoleInit \/ FlushEarlyPrintBuffer
    PROVE  IInv'
<1>0. at \in 1 .. 33 /\ Printing /\ Facilities /\ Vectors
  BY Numbers DEF IInv, Printing
<1>1. PICK stage \in {"switch_early_print", "console_init", "flush_early_print_buffer"},
           facilities \in {{}, {"console"}} :
          /\ RunsTo(stage, facilities, at + 1)
          /\ stage = "console_init" => facilities = {"console"}
  BY DEF SwitchEarlyPrint, ConsoleInit, FlushEarlyPrintBuffer, Runs
<1>2. at \in 9 .. 11 /\ Order[at] = stage /\ at' = at + 1 /\ up' = up \cup facilities
  <2>1. at \in 9 .. 11 /\ Order[at] = stage /\ at' = at + 1
    BY <1>0, <1>1, RunsAt, StageNumbers
  <2>2. up' = up \cup facilities
    BY <1>1 DEF RunsTo
  <2> QED
    BY <2>1, <2>2
<1>3. UNCHANGED <<tables, raises, intr>>
  BY DEF SwitchEarlyPrint, ConsoleInit, FlushEarlyPrintBuffer, acpiVars, Quiet, printVars
<1>4. Needs(stage) \subseteq up /\ Brings(stage) \subseteq facilities
  <2>1. CASE stage = "switch_early_print"
    BY <2>1 DEF Needs, Brings
  <2>2. CASE stage = "console_init"
    <3>1. at = 10
      BY <1>2, <2>2, StageNumbers
    <3> QED
      BY <1>0, <1>1, <2>2, <3>1, Numbers DEF Needs, Brings, Facilities
  <2>3. CASE stage = "flush_early_print_buffer"
    <3>1. at = 11
      BY <1>2, <2>3, StageNumbers
    <3> QED
      BY <1>0, <2>3, <3>1, Numbers DEF Needs, Brings, Facilities
  <2> QED
    BY <1>1, <2>1, <2>2, <2>3
<1>5. Facilities' /\ NothingUsedEarly'
  BY <1>1, <1>4, StageKeeps DEF IInv
<1>6. Printing'
  BY <1>0, SwitchKeeps
<1>7. Vectors'
  BY <1>0, <1>1, <1>2, <1>3, Numbers DEF Vectors
<1> QED
  BY <1>0, <1>3, <1>5, <1>6, <1>7 DEF IInv

\* The message that is printed without interrupts, all of it at once.
LEMMA PrintInterruptsKeeps ==
    ASSUME IInv, PrintInterrupts
    PROVE  IInv'
<1>0. at \in 1 .. 33 /\ Printing /\ Facilities /\ Vectors /\ said \in Nat
  BY Numbers DEF IInv, Printing
<1>1. RunsTo("print_interrupts", {}, at + 1)
  BY DEF PrintInterrupts, Runs
<1>e. pending = << >>
  BY <1>1 DEF RunsTo
<1>2. at = 23 /\ at' = 24 /\ up' = up
  <2>1. at = 23 /\ at' = 24
    BY <1>0, <1>1, RunsAt, StageNumbers
  <2> QED
    BY <1>1, <2>1 DEF RunsTo
<1>3. /\ UNCHANGED <<intr, pending, early, switched, flushed, tables, raises>>
      /\ said' = said + 1
  BY DEF PrintInterrupts, switchVars, acpiVars, WithoutInterrupts
<1>4. ~early
  <2>1. at > Index("switch_early_print")
    BY <1>2, Numbers
  <2> QED
    BY <1>0, <2>1 DEF Printing, Switched
<1>5. serial' = serial \o Parts(said + 1, said + 1) /\ buffer' = buffer
  BY <1>3, <1>4 DEF PrintInterrupts
<1>6. Prints(1)
  <2>1. PICK x \in AnyPart, y \in AnyPart :
            x.by = "kernel" /\ y.by = "kernel" /\ Parts(said + 1, said + 1) = <<x, y>>
    <3>1. PICK a \in Int : a = said + 1
      BY <1>0
    <3> DEFINE x == [by |-> "kernel", message |-> a, part |-> "time"]
               y == [by |-> "kernel", message |-> a, part |-> "text"]
    <3>2. x \in Part /\ y \in Part /\ x \in AnyPart /\ y \in AnyPart
      BY DEF Part, AnyPart
    <3>3. Parts(a, a) \in Seq(Part) /\ Len(Parts(a, a)) = 2
      <4>1. PICK b \in Int : b = a /\ a <= b + 1 /\ 2 * (b - a + 1) = 2
        OBVIOUS
      <4>2. Parts(a, b) \in Seq(Part) /\ Len(Parts(a, b)) = 2 * (b - a + 1)
        BY <4>1, PartsType
      <4> QED
        BY <4>1, <4>2
    <3>4. Parts(a, a)[1] = x /\ Parts(a, a)[2] = y
      <4>1. /\ 2 * (a - a + 1) = 2
            /\ a + (1 - 1) \div 2 = a /\ a + (2 - 1) \div 2 = a
            /\ 1 % 2 = 1 /\ 2 % 2 # 1
        OBVIOUS
      <4> QED
        BY <4>1 DEF Parts
    <3> HIDE DEF x, y
    <3>5. <<x, y>> \in Seq(Part) /\ Len(<<x, y>>) = 2 /\ <<x, y>>[1] = x /\ <<x, y>>[2] = y
      BY <3>2
    <3>6. Parts(a, a) = <<x, y>>
      <4>1. \A i \in 1 .. Len(Parts(a, a)) : Parts(a, a)[i] = <<x, y>>[i]
        BY <3>3, <3>4, <3>5
      <4> QED
        BY <3>3, <3>5, <4>1, SeqEqual
    <3> QED
      BY <3>1, <3>2, <3>6 DEF x, y
  <2>2. serial' \in Seq(AnyPart) /\ Own(serial') = Own(serial) \o Parts(said + 1, said + 1)
    <3>1. serial \in Seq(AnyPart)
      BY <1>0 DEF Printing
    <3>a. x.by = "kernel" /\ x.by = y.by
      BY <2>1
    <3>2. /\ serial \o <<x, y>> \in Seq(AnyPart)
          /\ Own(serial \o <<x, y>>) = Own(serial) \o <<x, y>>
      BY <3>1, <3>a, OwnMore
    <3> QED
      BY <1>5, <2>1, <3>2
  <2>3. Output = Own(serial)
    BY <1>0, <1>e, PrintingTypes, ConcatEmptySeq DEF Output
  <2>4. Output' = Own(serial')
    <3>1. Own(serial') \in Seq(Part)
      BY <2>2, OwnType
    <3> QED
      BY <1>e, <1>3, <3>1, ConcatEmptySeq DEF Output
  <2>5. pending' \in Seq(Part)
    BY <1>0, <1>3 DEF Printing
  <2> QED
    BY <1>3, <1>4, <1>5, <2>2, <2>3, <2>4, <2>5 DEF Prints
<1>7. Needs("print_interrupts") \subseteq up /\ Brings("print_interrupts") \subseteq {}
  BY <1>0, <1>2, Numbers DEF Needs, Brings, Facilities
<1>8. Printing' /\ Facilities' /\ NothingUsedEarly'
  BY <1>1, <1>2, <1>3, <1>6, <1>7, StepKeeps
<1>9. Vectors'
  BY <1>0, <1>2, <1>3, Numbers DEF Vectors
<1> QED
  BY <1>0, <1>3, <1>8, <1>9 DEF IInv

\* A step that is none of kernel_init's and leaves its output as it is.
LEMMA AsideKeeps ==
    ASSUME IInv, serial' \in Seq(AnyPart), pending' \in Seq(Part), Output' = Output,
           NothingUsedEarly', UNCHANGED <<at, up, intr, early, buffer, said, switched, flushed, tables,
                       raises>>
    PROVE  IInv'
<1>1. OnlyBuffered' = OnlyBuffered /\ Switched' = Switched
  BY DEF OnlyBuffered, Switched, BeforeFlush
<1>2. Printing' /\ Facilities' = Facilities /\ Vectors' = Vectors
  <2>1. Printing'
    <3> HIDE DEF OnlyBuffered, Switched
    <3> QED
      BY <1>1 DEF IInv, Printing
  <2> QED
    BY <2>1 DEF Facilities, Vectors
<1> QED
  BY <1>2 DEF IInv

\* A part leaves for the port.
LEMMA PrintPartKeeps ==
    ASSUME IInv, PrintPart
    PROVE  IInv'
<1>1. serial \in Seq(AnyPart) /\ pending \in Seq(Part) /\ Printing
  BY DEF IInv, Printing
<1>2. PICK x \in Part, l \in Seq(Part) : x = Head(pending) /\ l = Tail(pending)
  BY <1>1, HeadTailProperties DEF PrintPart
<1>3. <<x>> \o l = pending
  <2>1. <<x>> \in Seq(Part) /\ Len(<<x>>) = 1 /\ <<x>>[1] = x
    OBVIOUS
  <2>2. /\ Len(pending) \in Nat \ {0} /\ Len(l) = Len(pending) - 1
        /\ \A i \in 1 .. Len(l) : l[i] = pending[i + 1]
        /\ pending[1] = x
    BY <1>1, <1>2, EmptySeq, HeadTailProperties DEF PrintPart
  <2>3. /\ <<x>> \o l \in Seq(Part)
        /\ Len(<<x>> \o l) = Len(pending)
        /\ \A i \in 1 .. Len(pending) : (<<x>> \o l)[i] = IF i <= 1 THEN <<x>>[i] ELSE l[i - 1]
    BY <2>1, <2>2, ConcatProperties
  <2>4. \A i \in 1 .. Len(pending) : (<<x>> \o l)[i] = pending[i]
    <3> SUFFICES ASSUME NEW i \in 1 .. Len(pending) PROVE (<<x>> \o l)[i] = pending[i]
      OBVIOUS
    <3>1. CASE i = 1
      BY <2>1, <2>2, <2>3, <3>1
    <3>2. CASE i # 1
      <4>1. i - 1 \in 1 .. Len(l) /\ (i - 1) + 1 = i /\ ~(i <= 1)
        BY <2>2, <3>2
      <4> QED
        BY <2>2, <2>3, <4>1
    <3> QED
      BY <3>1, <3>2
  <2> QED
    BY <1>1, <2>3, <2>4, SeqEqual
<1>4. x \in AnyPart /\ x.by = "kernel"
  BY DEF Part, AnyPart
<1>5. /\ serial' \in Seq(AnyPart) /\ pending' = l
      /\ Own(serial') = Append(Own(serial), x) /\ Own(serial) \in Seq(Part)
  BY <1>1, <1>2, <1>4, OwnAppend DEF PrintPart
<1>6. Output' = Output
  <2>1. PICK o \in Seq(Part) : o = Own(serial)
    BY <1>5
  <2>2. Append(o, x) = o \o <<x>> /\ <<x>> \in Seq(Part)
    BY AppendIsConcat
  <2>3. (o \o <<x>>) \o l = o \o (<<x>> \o l)
    BY <2>2, ConcatAssociative
  <2> QED
    BY <1>3, <1>5, <2>1, <2>2, <2>3 DEF Output
<1>7. UNCHANGED <<at, up, misused, intr, early, buffer, said, switched, flushed, tables, raises>>
  BY DEF PrintPart, progressVars, switchVars, acpiVars, WithoutInterrupts
<1>8. NothingUsedEarly'
  BY <1>7 DEF IInv, NothingUsedEarly
<1> QED
  BY <1>2, <1>5, <1>6, <1>7, <1>8, AsideKeeps

\* The loop without an end prints nothing new.
LEMMA ParseMadtHangsKeeps ==
    ASSUME IInv, ParseMadtHangs
    PROVE  IInv'
<1>1. UNCHANGED <<at, up, misused, intr, early, buffer, pending, serial, said, switched, flushed,
                  tables, raises>>
  BY DEF ParseMadtHangs, printVars, switchVars, acpiVars
<1>2. Output' = Output
  BY <1>1 DEF Output
<1>3. serial' \in Seq(AnyPart) /\ pending' \in Seq(Part)
  BY <1>1 DEF IInv, Printing
<1>4. NothingUsedEarly'
  BY <1>1 DEF IInv, NothingUsedEarly
<1> QED
  BY <1>1, <1>2, <1>3, <1>4, AsideKeeps

\* The timer and the keyboard, which find all they use, and whose parts are
\* not the kernel's own.
LEMMA InterruptKeeps ==
    ASSUME IInv, Interrupt
    PROVE  IInv'
<1>0. at \in 1 .. 33 /\ Printing /\ Facilities /\ Vectors
  BY Numbers DEF IInv, Printing
<1>1. UNCHANGED <<at, up, intr, early, pending, said, switched, flushed, tables, raises>>
  BY DEF Interrupt, switchVars, acpiVars
<1>3. at > 22
  BY <1>0, Numbers DEF Interrupt, Vectors
<1>4. ~early
  <2>1. at > Index("switch_early_print")
    BY <1>0, <1>3, Numbers
  <2> QED
    BY <1>0, <2>1 DEF Printing, Switched
<1>5. PICK vector \in raises :
          serial' = serial \o HandlerParts(vector) /\ buffer' = buffer
  BY <1>4 DEF Interrupt
<1>6. PICK x \in AnyPart, y \in AnyPart :
          /\ x.by = "handler" /\ y.by = "handler"
          /\ serial' = serial \o <<x>> \/ serial' = serial \o <<x, y>>
  <2> DEFINE x == [by |-> "handler", message |-> 0, part |-> "text"]
             y == [by |-> "handler", message |-> 0, part |-> "time"]
  <2>1. HandlerParts(vector) = IF vector = 224 THEN <<x>> ELSE <<y, x>>
    BY DEF HandlerParts
  <2>2. x \in AnyPart /\ y \in AnyPart /\ x.by = "handler" /\ y.by = "handler"
    BY DEF AnyPart
  <2> HIDE DEF x, y
  <2> QED
    BY <1>5, <2>1, <2>2
<1>7. serial' \in Seq(AnyPart) /\ Own(serial') = Own(serial) /\ pending' \in Seq(Part)
  <2>1. serial \in Seq(AnyPart) /\ pending' \in Seq(Part)
    BY <1>0, <1>1 DEF Printing
  <2>2. /\ serial \o <<x, y>> \in Seq(AnyPart) /\ serial \o <<x>> \in Seq(AnyPart)
        /\ Own(serial \o <<x, y>>) = Own(serial) /\ Own(serial \o <<x>>) = Own(serial)
    BY <1>6, <2>1, OwnMore
  <2> QED
    BY <1>6, <2>1, <2>2
<1>8. Output' = Output
  BY <1>1, <1>7 DEF Output
<1>9. {"gs", "serial", "gdt", "idt", "apic"} \subseteq up
  BY <1>0, <1>3, Numbers DEF Interrupt, Facilities, Vectors
<1>10. NothingUsedEarly'
  BY <1>9 DEF Interrupt, IInv, NothingUsedEarly, PrintsEarly
<1> QED
  BY <1>1, <1>5, <1>7, <1>8, <1>10, AsideKeeps
-----------------------------------------------------------------------------
LEMMA NextIInv == IInv /\ [Next]_vars => IInv'
<1> SUFFICES ASSUME IInv, [Next]_vars PROVE IInv'
  OBVIOUS
<1>1. CASE UNCHANGED vars
  <2>1. UNCHANGED <<at, up, misused, intr, early, buffer, pending, serial, said, switched,
                    flushed, tables, raises>>
    BY <1>1 DEF vars, progressVars, printVars, switchVars, acpiVars
  <2>2. Output' = Output
    BY <2>1 DEF Output
  <2>3. serial' \in Seq(AnyPart) /\ pending' \in Seq(Part)
    BY <2>1 DEF IInv, Printing
  <2>4. NothingUsedEarly'
    BY <2>1 DEF IInv, NothingUsedEarly
  <2> QED
    BY <2>1, <2>2, <2>3, <2>4, AsideKeeps
<1>2. CASE PlainStage
  BY <1>2, PlainStageKeeps
<1>3. CASE PanicStage
  BY <1>3, PanicStageKeeps
<1>4. CASE SwitchEarlyPrint \/ ConsoleInit \/ FlushEarlyPrintBuffer
  BY <1>4, SwitchStageKeeps
<1>5. CASE Interrupt \/ PrintPart \/ ParseMadtHangs \/ PrintInterrupts
  BY <1>5, InterruptKeeps, PrintPartKeeps, ParseMadtHangsKeeps, PrintInterruptsKeeps
<1>6. CASE \/ EarlyInitialize \/ DisplayMemoryMap \/ AcpiInitialize \/ FindMadt
           \/ ParseMadtRecord \/ InitializeIoApic \/ InitializeCore
  BY <1>6, EarlyInitializeKeeps, DisplayMemoryMapKeeps, AcpiInitializeKeeps, FindMadtKeeps,
     ParseMadtRecordKeeps, InitializeIoApicKeeps, InitializeCoreKeeps
<1>7. CASE DebugDump \/ EnableInterrupts \/ ReadInitrd \/ Start \/ ReadFile \/ ParseFile
  BY <1>7, DebugDumpKeeps, EnableInterruptsKeeps, ReadInitrdKeeps, StartKeeps, ReadFileKeeps,
     ParseFileKeeps
<1> QED
  BY <1>1, <1>2, <1>3, <1>4, <1>5, <1>6, <1>7 DEF Next, Boot, PlainStage, PanicStage

\* No stage, print, panic or interrupt of the boot breaks the invariant.
THEOREM Invariance == Spec => []IInv
  BY InitIInv, NextIInv, PTL DEF Spec

\* For every capacity of the early print buffer, every memory map and every
\* set of tables, and wherever interrupts and panics fall, between the time
\* and the text of a message too, the serial port shows what the kernel printed
\* in the order it was printed.
THEOREM OutputCorrect == Spec => []OutputInOrder
<1>1. IInv => OutputInOrder
  <2> SUFFICES ASSUME IInv PROVE OutputInOrder
    OBVIOUS
  <2>1. at \in 1 .. 33 /\ Index("switch_early_print") = 9 /\ Printing
    BY Numbers DEF IInv, Printing
  <2>2. CASE at <= 9
    BY <2>1, <2>2 DEF OutputInOrder, Printing, OnlyBuffered, Output
  <2>3. CASE at > 9
    <3>1. Switched /\ ~(at <= Index("switch_early_print"))
      BY <2>1, <2>3 DEF Printing
    <3> QED
      BY <3>1 DEF Switched, BeforeFlush, OutputInOrder, Output
  <2> QED
    BY <2>1, <2>2, <2>3
<1> QED
  BY <1>1, Invariance, PTL

\* No stage of the boot, no print, no panic and no interrupt uses what is not
\* yet initialised, whatever the firmware's tables hold.
THEOREM NeverTooEarly == Spec => []NothingUsedEarly
<1>1. IInv => NothingUsedEarly
  BY DEF IInv
<1> QED
  BY <1>1, Invariance, PTL
-----------------------------------------------------------------------------
\* Every record takes some of the table.
LEMMA SpaceTaken ==
    ASSUME NEW r \in Records
    PROVE  Space(r) \in Nat \ {0}
<1>1. PICK l \in 0 .. 255 : l = r.length
  BY DEF Records
<1> QED
  BY <1>1 DEF Space

\* The offsets of the records of a MADT, by recursion: they grow by what each
\* record takes.
LEMMA RecordOffsets ==
    ASSUME NEW madt \in Seq(Records)
    PROVE  /\ RecordOffset(madt) \in [1 .. Len(madt) + 1 -> Nat]
           /\ RecordOffset(madt)[1] = FirstRecord
           /\ \A i \in 1 .. Len(madt) :
                RecordOffset(madt)[i + 1] = RecordOffset(madt)[i] + Space(madt[i])
<1> DEFINE n == Len(madt)
           Size(i) == Space(madt[i])
           g == [x \in Nat \X Int |-> x[1] + (IF x[2] - 1 \in 1 .. n THEN Size(x[2] - 1) ELSE 0)]
<1>1. n \in Nat /\ \A i \in 1 .. n : Size(i) \in Nat
  <2>1. n \in Nat /\ \A i \in 1 .. n : madt[i] \in Records
    BY LenProperties, ElementOfSeq
  <2>2. \A r \in Records : Space(r) \in Nat
    BY SpaceTaken
  <2> QED
    BY <2>1, <2>2
<1> HIDE DEF Size, n
<1>2. g \in [Nat \X Int -> Nat]
  BY <1>1
<1>3. FirstRecord \in Nat
  BY DEF FirstRecord
<1> HIDE DEF g
<1>4. PICK f \in [1 .. n + 1 -> Nat] :
          f[1] = FirstRecord /\ \A k \in 1 + 1 .. n + 1 : f[k] = g[<<f[k - 1], k>>]
  <2>1. PICK m \in Int, h \in Int : m = 1 /\ h = n + 1 /\ m <= h
    BY <1>1
  <2>2. \E f : Recursive(f, m, h, Nat, FirstRecord, g)
    BY <1>2, <1>3, <2>1, Recursion
  <2> QED
    BY <2>1, <2>2 DEF Recursive
<1>5. \A k \in 2 .. n + 1 : f[k] = f[k - 1] + Size(k - 1)
  <2> SUFFICES ASSUME NEW k \in 2 .. n + 1 PROVE f[k] = f[k - 1] + Size(k - 1)
    OBVIOUS
  <2>1. f[k] = g[<<f[k - 1], k>>] /\ f[k - 1] \in Nat /\ k - 1 \in 1 .. n
    BY <1>1, <1>4
  <2>2. g[<<f[k - 1], k>>] = f[k - 1] + Size(k - 1)
    BY <2>1 DEF g
  <2> QED
    BY <2>1, <2>2
<1> DEFINE IsOffset(o) == o = [i \in 1 .. n + 1 |-> IF i = 1 THEN FirstRecord
                                                    ELSE o[i - 1] + Size(i - 1)]
<1>6. IsOffset(f)
  BY <1>1, <1>4, <1>5
<1>7. RecordOffset(madt) = CHOOSE o : IsOffset(o)
  BY DEF RecordOffset, n, Size
<1>8. IsOffset(RecordOffset(madt))
  <2> HIDE DEF IsOffset
  <2> QED
    BY <1>6, <1>7
<1> DEFINE o == RecordOffset(madt)
<1>9. o = [i \in 1 .. n + 1 |-> IF i = 1 THEN FirstRecord ELSE o[i - 1] + Size(i - 1)]
  BY <1>8
<1> HIDE DEF o
<1>10. o[1] = FirstRecord /\ \A i \in 1 .. n : o[i + 1] = o[i] + Size(i)
  <2>1. 1 \in 1 .. n + 1
    BY <1>1
  <2>2. \A i \in 1 .. n : i + 1 \in 1 .. n + 1 /\ i + 1 # 1 /\ (i + 1) - 1 = i
    BY <1>1
  <2> QED
    BY <1>9, <2>1, <2>2
<1>11. 1 .. n + 1 \subseteq {i \in 1 .. n + 1 : o[i] \in Nat}
  <2> DEFINE T == {i \in 1 .. n + 1 : o[i] \in Nat}
  <2>1. 1 \in T
    BY <1>1, <1>3, <1>10
  <2>2. PICK m \in Int, h \in Int : m = 1 /\ h = n + 1 /\ m <= h
    BY <1>1
  <2>3. \A i \in m .. h - 1 : i \in T => i + 1 \in T
    BY <1>1, <1>10, <2>2, SMTT(20)
  <2> HIDE DEF T
  <2>4. m .. h \subseteq T
    BY <2>1, <2>2, <2>3, Ascent
  <2> QED
    BY <2>2, <2>4 DEF T
<1>12. o \in [1 .. n + 1 -> Nat]
  BY <1>9, <1>11
<1> QED
  BY <1>10, <1>12 DEF o, n, Size

\* The record at the offset of the j-th one is that one.
LEMMA RecordsApart ==
    ASSUME NEW madt \in Seq(Records)
    PROVE  /\ \A i, j \in 1 .. Len(madt) + 1 :
                i < j => RecordOffset(madt)[i] < RecordOffset(madt)[j]
           /\ \A j \in 1 .. Len(madt) : RecordAt(madt, RecordOffset(madt)[j]) = madt[j]
           /\ \A j \in 1 .. Len(madt) + 1 :
                RecordOffset(madt)[j] >= DataLength(madt) <=> j = Len(madt) + 1
<1>1. PICK n \in Nat : n = Len(madt) /\ DOMAIN madt = 1 .. n
  BY LenProperties
<1>2. PICK o \in [1 .. n + 1 -> Nat] :
          /\ o = RecordOffset(madt)
          /\ \A i \in 1 .. n : o[i + 1] = o[i] + Space(madt[i])
  BY <1>1, RecordOffsets
<1>3. \A i \in 1 .. n : o[i] < o[i + 1]
  <2>1. \A r \in Records : Space(r) \in Nat \ {0}
    BY SpaceTaken
  <2>2. \A i \in 1 .. n : madt[i] \in Records
    BY <1>1, ElementOfSeq
  <2> SUFFICES ASSUME NEW i \in 1 .. n PROVE o[i] < o[i + 1]
    OBVIOUS
  <2>3. PICK l \in Nat \ {0} : l = Space(madt[i])
    BY <2>1, <2>2
  <2>4. o[i] \in Nat /\ o[i + 1] = o[i] + l
    BY <1>2, <2>3
  <2> QED
    BY <2>4
<1>4. \A i, j \in 1 .. n + 1 : i < j => o[i] < o[j]
  BY <1>3, Growing
<1>5. \A i, j \in 1 .. n + 1 : o[i] = o[j] => i = j
  BY <1>4
<1>6. ASSUME NEW j \in 1 .. n
      PROVE  RecordAt(madt, o[j]) = madt[j]
  <2>1. (CHOOSE i \in DOMAIN madt : o[i] = o[j]) = j
    BY <1>1, <1>5
  <2> QED
    BY <1>2, <2>1 DEF RecordAt
<1>7. \A j \in 1 .. n + 1 : o[j] >= o[n + 1] <=> j = n + 1
  BY <1>4
<1> QED
  BY <1>1, <1>2, <1>4, <1>6, <1>7 DEF DataLength
-----------------------------------------------------------------------------
\* The same for the headers of an archive, which lie at multiples of four.
FileEntry == [name : [text : STRING, dotted : BOOLEAN], file_size : Nat]

LEMMA EntrySizes ==
    ASSUME NEW e \in FileEntry
    PROVE  NameSize(e.name) \in Nat /\ e.file_size \in Nat
<1>1. e.name.dotted \in BOOLEAN /\ e.file_size \in Nat
  BY DEF FileEntry
<1> QED
  BY <1>1 DEF NameSize

\* Where the code looks is where the format puts things.
LEMMA PaddingRight ==
    ASSUME NEW e \in FileEntry, NEW h \in Nat, h % 4 = 0
    PROVE  /\ DataFrom(h, e) \in Nat /\ DataFrom(h, e) > h
           /\ ContentsFrom(h, e) = DataFrom(h, e)
           /\ NextHeader(h, e) = Align4(DataFrom(h, e) + e.file_size)
           /\ NextHeader(h, e) \in Nat
           /\ NextHeader(h, e) % 4 = 0
           /\ NextHeader(h, e) > h
<1>1. PICK n \in Nat, z \in Nat : n = NameSize(e.name) /\ z = e.file_size
  BY EntrySizes
<1>2. DataFrom(h, e) = ((h + 110 + n + 3) \div 4) * 4
  BY <1>1 DEF DataFrom, Align4, HeaderSize
<1>3. PICK d \in Nat : d = DataFrom(h, e) /\ d > h /\ d % 4 = 0
  BY <1>2
<1>4. ContentsFrom(h, e) = d
  <2>1. ContentsFrom(h, e) = h + 110 + n + (IF (110 + n) % 4 = 0 THEN 0 ELSE 4 - ((110 + n) % 4))
    BY <1>1 DEF ContentsFrom, PadTo4, HeaderSize
  <2> QED
    BY <1>2, <1>3, <2>1
<1>5. NextHeader(h, e) = d + z + (IF z % 4 = 0 THEN 0 ELSE 4 - (z % 4))
  BY <1>1, <1>4 DEF NextHeader, PadTo4
<1>6. Align4(d + z) = ((d + z + 3) \div 4) * 4
  BY DEF Align4
<1>7. NextHeader(h, e) = ((d + z + 3) \div 4) * 4
  <2>1. PICK q \in Nat, r \in Nat, x \in 0 .. 3 :
            d = 4 * q /\ z = 4 * r + x /\ x = z % 4
    <3>1. d \div 4 \in Nat /\ d = 4 * (d \div 4)
      BY <1>3
    <3>2. PICK r \in Nat, x \in 0 .. 3 : z = 4 * r + x /\ x = z % 4
      <4>1. z \div 4 \in Nat
        BY <1>1
      <4>2. z % 4 \in 0 .. 3
        BY <1>1
      <4>3. z = 4 * (z \div 4) + (z % 4)
        BY <1>1
      <4> QED
        BY <4>1, <4>2, <4>3
    <3> QED
      BY <3>1, <3>2
  <2>2. CASE z % 4 = 0
    BY <1>5, <2>1, <2>2
  <2>3. CASE z % 4 # 0
    <3>1. d + z + 3 = 4 * (q + r + 1) + (x - 1) /\ x - 1 \in 0 .. 2
      BY <2>1, <2>3
    <3>2. (d + z + 3) \div 4 = q + r + 1
      BY <2>1, <3>1
    <3> QED
      BY <1>5, <2>1, <2>3, <3>2
  <2> QED
    BY <2>2, <2>3
<1>8. NextHeader(h, e) \in Nat /\ NextHeader(h, e) % 4 = 0 /\ NextHeader(h, e) > h
  BY <1>3, <1>7
<1> QED
  BY <1>1, <1>3, <1>4, <1>6, <1>7, <1>8

LEMMA HeaderOffsets ==
    ASSUME NEW entries \in Seq(FileEntry)
    PROVE  /\ HeaderOffset(entries) \in [1 .. Len(entries) + 1 -> Nat]
           /\ HeaderOffset(entries)[1] = 0
           /\ \A i \in 1 .. Len(entries) + 1 : HeaderOffset(entries)[i] % 4 = 0
           /\ \A i \in 1 .. Len(entries) :
                /\ entries[i] \in FileEntry
                /\ HeaderOffset(entries)[i + 1] = NextHeader(HeaderOffset(entries)[i], entries[i])
<1> DEFINE n == Len(entries)
           S == {h \in Nat : h % 4 = 0}
           After(h, i) == Align4(DataFrom(h, entries[i]) + entries[i].file_size)
           g == [x \in S \X Int |-> IF x[2] - 1 \in 1 .. n THEN After(x[1], x[2] - 1) ELSE 0]
<1>1. n \in Nat /\ \A i \in 1 .. n : entries[i] \in FileEntry
  BY LenProperties, ElementOfSeq
<1>2. \A h \in S : \A i \in 1 .. n :
          After(h, i) \in S /\ After(h, i) = NextHeader(h, entries[i])
  BY <1>1, PaddingRight
<1>3. 0 \in S
  OBVIOUS
<1> HIDE DEF After, n, S
<1>4. g \in [S \X Int -> S]
  BY <1>1, <1>2, <1>3
<1> HIDE DEF g
<1>5. PICK f \in [1 .. n + 1 -> S] :
          f[1] = 0 /\ \A k \in 1 + 1 .. n + 1 : f[k] = g[<<f[k - 1], k>>]
  <2>1. PICK m \in Int, h \in Int : m = 1 /\ h = n + 1 /\ m <= h
    BY <1>1
  <2>2. \E f : Recursive(f, m, h, S, 0, g)
    BY <1>3, <1>4, <2>1, Recursion
  <2> QED
    BY <2>1, <2>2 DEF Recursive
<1>6. \A k \in 2 .. n + 1 : f[k] = After(f[k - 1], k - 1)
  <2> SUFFICES ASSUME NEW k \in 2 .. n + 1 PROVE f[k] = After(f[k - 1], k - 1)
    OBVIOUS
  <2>1. f[k] = g[<<f[k - 1], k>>] /\ f[k - 1] \in S /\ k - 1 \in 1 .. n
    BY <1>1, <1>5
  <2>2. g[<<f[k - 1], k>>] = After(f[k - 1], k - 1)
    BY <2>1 DEF g
  <2> QED
    BY <2>1, <2>2
<1> DEFINE IsOffset(o) == o = [i \in 1 .. n + 1 |-> IF i = 1 THEN 0 ELSE After(o[i - 1], i - 1)]
<1>7. IsOffset(f)
  BY <1>1, <1>5, <1>6
<1>8. HeaderOffset(entries) = CHOOSE o : IsOffset(o)
  BY DEF HeaderOffset, n, After
<1>9. IsOffset(HeaderOffset(entries))
  <2> HIDE DEF IsOffset
  <2> QED
    BY <1>7, <1>8
<1> DEFINE o == HeaderOffset(entries)
<1>10. o = [i \in 1 .. n + 1 |-> IF i = 1 THEN 0 ELSE After(o[i - 1], i - 1)]
  BY <1>9
<1> HIDE DEF o
<1>11. o[1] = 0 /\ \A i \in 1 .. n : o[i + 1] = After(o[i], i)
  <2>1. 1 \in 1 .. n + 1
    BY <1>1
  <2>2. \A i \in 1 .. n : i + 1 \in 1 .. n + 1 /\ i + 1 # 1 /\ (i + 1) - 1 = i
    BY <1>1
  <2> QED
    BY <1>10, <2>1, <2>2
<1>12. 1 .. n + 1 \subseteq {i \in 1 .. n + 1 : o[i] \in S}
  <2> DEFINE T == {i \in 1 .. n + 1 : o[i] \in S}
  <2>1. 1 \in T
    BY <1>1, <1>3, <1>11
  <2>2. PICK m \in Int, h \in Int : m = 1 /\ h = n + 1 /\ m <= h
    BY <1>1
  <2>3. \A i \in m .. h - 1 : i \in T => i + 1 \in T
    BY <1>1, <1>2, <1>11, <2>2
  <2> HIDE DEF T
  <2>4. m .. h \subseteq T
    BY <2>1, <2>2, <2>3, Ascent
  <2> QED
    BY <2>2, <2>4 DEF T
<1>13. o \in [1 .. n + 1 -> S]
  BY <1>10, <1>12
<1>14. \A i \in 1 .. n + 1 : o[i] \in Nat /\ o[i] % 4 = 0
  BY <1>13 DEF S
<1>15. o \in [1 .. n + 1 -> Nat]
  BY <1>13, <1>14
<1>16. \A i \in 1 .. n : o[i + 1] = NextHeader(o[i], entries[i])
  BY <1>1, <1>2, <1>11, <1>13
<1> QED
  BY <1>1, <1>11, <1>14, <1>15, <1>16 DEF o, n

LEMMA HeadersApart ==
    ASSUME NEW entries \in Seq(FileEntry)
    PROVE  /\ \A i, j \in 1 .. Len(entries) + 1 :
                HeaderOffset(entries)[i] = HeaderOffset(entries)[j] => i = j
           /\ \A j \in 1 .. Len(entries) :
                /\ HeaderAt(entries, HeaderOffset(entries)[j])
                /\ EntryAt(entries, HeaderOffset(entries)[j]) = entries[j]
           /\ ~HeaderAt(entries, HeaderOffset(entries)[Len(entries) + 1])
<1>1. PICK n \in Nat : n = Len(entries) /\ DOMAIN entries = 1 .. n
  BY LenProperties
<1>2. PICK o \in [1 .. n + 1 -> Nat] :
          /\ o = HeaderOffset(entries)
          /\ \A i \in 1 .. n + 1 : o[i] % 4 = 0
          /\ \A i \in 1 .. n : entries[i] \in FileEntry /\ o[i + 1] = NextHeader(o[i], entries[i])
  BY <1>1, HeaderOffsets
<1>3. \A i \in 1 .. n : o[i] < o[i + 1]
  <2> SUFFICES ASSUME NEW i \in 1 .. n PROVE o[i] < o[i + 1]
    OBVIOUS
  <2>1. PICK h \in Nat : h = o[i] /\ h % 4 = 0
    BY <1>2
  <2>2. NextHeader(h, entries[i]) \in Nat /\ NextHeader(h, entries[i]) > h
    BY <1>2, <2>1, PaddingRight
  <2> QED
    BY <1>2, <2>1, <2>2
<1>4. \A i, j \in 1 .. n + 1 : i < j => o[i] < o[j]
  BY <1>3, Growing
<1>5. \A i, j \in 1 .. n + 1 : o[i] = o[j] => i = j
  BY <1>4
<1>6. ASSUME NEW j \in 1 .. n
      PROVE  HeaderAt(entries, o[j]) /\ EntryAt(entries, o[j]) = entries[j]
  <2>1. (CHOOSE i \in DOMAIN entries : o[i] = o[j]) = j
    BY <1>1, <1>5
  <2> QED
    BY <1>1, <1>2, <2>1 DEF EntryAt, HeaderAt
<1>7. ~HeaderAt(entries, o[n + 1])
  <2>1. \A i \in 1 .. n : o[i] # o[n + 1]
    BY <1>4
  <2> QED
    BY <1>1, <1>2, <2>1 DEF HeaderAt
<1> QED
  BY <1>1, <1>2, <1>5, <1>6, <1>7
-----------------------------------------------------------------------------
\* Most steps leave what has been read alone.
Reads == {"find_madt", "parse_madt", "initrd", "read_file"}
Elsewhere ==
    /\ UNCHANGED <<hung, tables, cursor, cores, io_apics, initrd, start, file>>
    /\ up \subseteq up'
    /\ \/ UNCHANGED <<at, panicked>>
       \/ at \notin {17, 30} /\ at' = at
       \/ at \notin {16, 17, 24, 30} /\ at' = at + 1 /\ ~panicked'

LEMMA ReadsAt ==
    Order[16] = "find_madt" /\ Order[17] = "parse_madt" /\ Order[24] = "initrd"
        /\ Order[30] = "read_file"
  BY DEF Order

LEMMA StageElsewhere ==
    ASSUME at \in 1 .. 33, NEW stage, stage \notin Reads, NEW facilities,
           Runs(stage, facilities),
           UNCHANGED <<tables, cursor, cores, io_apics, initrd, start, file>>
    PROVE  Elsewhere
<1>1. at \in 1 .. 32 /\ Order[at] = stage /\ at' = at + 1
  BY RunsAt DEF Runs
<1>2. at \notin {16, 17, 24, 30}
  BY <1>1, ReadsAt DEF Reads
<1>3. up \subseteq up' /\ ~panicked' /\ hung' = hung
  BY DEF Runs, RunsTo
<1> QED
  BY <1>1, <1>2, <1>3 DEF Elsewhere

\* Where a panic happens, and the loop without an end.
LEMMA PanicsAt ==
    ASSUME at \in 1 .. 33, NEW stage, PanicsIn(stage)
    PROVE  /\ at \in 1 .. 32 /\ Order[at] = stage
           /\ ~hung'
           /\ UNCHANGED <<at, hung, up, tables, cursor, cores, io_apics, initrd, start, file>>
<1>1. at \in 1 .. 32 /\ Order[at] = stage
  BY Numbers DEF PanicsIn, Done
<1>2. /\ ~hung'
      /\ UNCHANGED <<at, hung, up, tables, cursor, cores, io_apics, initrd, start, file>>
  BY DEF PanicsIn, Panics, acpiVars, fileVars
<1> QED
  BY <1>1, <1>2

LEMMA HangsAt ==
    ASSUME at \in 1 .. 33, ParseMadtHangs
    PROVE  /\ at = 17 /\ ~panicked'
           /\ UNCHANGED <<at, up, tables, cursor, cores, io_apics, initrd, start, file>>
<1>1. at \in 1 .. 32 /\ Order[at] = "parse_madt"
  BY Numbers DEF ParseMadtHangs, Done
<1>2. /\ ~panicked'
      /\ UNCHANGED <<at, up, tables, cursor, cores, io_apics, initrd, start, file>>
  BY DEF ParseMadtHangs, acpiVars, fileVars
<1> QED
  BY <1>1, <1>2, StageNumbers

LEMMA PanicElsewhere ==
    ASSUME at \in 1 .. 33, NEW stage, stage \notin Reads, PanicsIn(stage)
    PROVE  Elsewhere
<1>1. at \in 1 .. 32 /\ Order[at] = stage
  BY Numbers DEF PanicsIn, Done
<1>2. at \notin {17, 30}
  BY <1>1, ReadsAt DEF Reads
<1>3. UNCHANGED <<at, hung, up, tables, cursor, cores, io_apics, initrd, start, file>>
  BY DEF PanicsIn, Panics, acpiVars, fileVars
<1> QED
  BY <1>2, <1>3 DEF Elsewhere

Reading ==
    \/ AcpiInitialize \/ FindMadt \/ ParseMadtRecord \/ ParseMadtHangs \/ ParseMadtPanics
    \/ ReadInitrd \/ ReadFile \/ ReadFilePanics

LEMMA MostElsewhere ==
    ASSUME IInv, [Next]_vars, ~Reading
    PROVE  Elsewhere
<1>0. at \in 1 .. 33
  BY Numbers DEF IInv, Printing
<1>1. CASE UNCHANGED vars
  BY <1>1 DEF vars, progressVars, acpiVars, fileVars, Elsewhere
<1>2. CASE PlainStage
  <2>1. PICK stage, facilities, m : Plain(stage, facilities, m) /\ stage \notin Reads
    BY <1>2 DEF PlainStage, Banner, InitializeHeap, MmInitialize, ProcessorInit,
       TimeInitialize, RegisterDevices, GdtInitialize, IdtInitialize, SyscallInitialize,
       EnableApic, CreateInitProcess, CreateTestProcess, UseSerialDevice,
       SetReady, ReplaceImage, Reads
  <2>2. UNCHANGED <<tables, cursor, cores, io_apics, initrd, start, file>>
    BY <2>1 DEF Plain, acpiVars, fileVars
  <2>3. Runs(stage, facilities)
    BY <2>1 DEF Plain
  <2> QED
    BY <1>0, <2>1, <2>2, <2>3, StageElsewhere
<1>3. CASE AllocationFails \/ InitializeIoApicPanics \/ ReadInitrdPanics \/ ParseFilePanics
  <2>1. CASE ReadInitrdPanics
    <3>1. at = 24
      BY <1>0, <2>1, Numbers, StageNumbers DEF ReadInitrdPanics, PanicsIn, Done
    <3> QED
      BY <2>1, <3>1 DEF ReadInitrdPanics, PanicsIn, Panics, acpiVars, fileVars, Elsewhere
  <2>2. CASE ~ReadInitrdPanics
    <3>1. PICK stage : PanicsIn(stage) /\ stage \notin Reads
      BY <1>3, <2>2 DEF AllocationFails, InitializeIoApicPanics, ParseFilePanics, Allocating,
                        Reads
    <3> QED
      BY <1>0, <3>1, PanicElsewhere
  <2> QED
    BY <2>1, <2>2
<1>4. CASE SwitchEarlyPrint \/ ConsoleInit \/ FlushEarlyPrintBuffer
  <2>1. PICK stage, facilities : Runs(stage, facilities) /\ stage \notin Reads
    BY <1>4 DEF SwitchEarlyPrint, ConsoleInit, FlushEarlyPrintBuffer, Reads
  <2>2. UNCHANGED <<tables, cursor, cores, io_apics, initrd, start, file>>
    BY <1>4 DEF SwitchEarlyPrint, ConsoleInit, FlushEarlyPrintBuffer, acpiVars, fileVars
  <2> QED
    BY <1>0, <2>1, <2>2, StageElsewhere
<1>5. CASE Interrupt \/ PrintPart
  BY <1>5 DEF Interrupt, PrintPart, progressVars, acpiVars, fileVars, Elsewhere
<1>6. CASE \/ EarlyInitialize \/ DisplayMemoryMap \/ InitializeIoApic \/ InitializeCore
           \/ DebugDump \/ EnableInterrupts \/ PrintInterrupts \/ Start \/ ParseFile
  <2>1. PICK stage, facilities : Runs(stage, facilities) /\ stage \notin Reads
    BY <1>6 DEF EarlyInitialize, DisplayMemoryMap, InitializeIoApic, InitializeCore,
                DebugDump, EnableInterrupts, PrintInterrupts, Start, ParseFile, Reads
  <2>2. UNCHANGED <<tables, cursor, cores, io_apics, initrd, start, file>>
    BY <1>6 DEF EarlyInitialize, DisplayMemoryMap, InitializeIoApic, InitializeCore,
                DebugDump, EnableInterrupts, PrintInterrupts, Start, ParseFile, acpiVars,
                fileVars
  <2> QED
    BY <1>0, <2>1, <2>2, StageElsewhere
<1> QED
  BY <1>1, <1>2, <1>3, <1>4, <1>5, <1>6 DEF Next, Boot, PlainStage, Reading
-----------------------------------------------------------------------------
\* The first MADT, which find_table finds.
IsFirst(t, f) ==
    /\ f \in DOMAIN t
    /\ t[f].signature = "APIC"
    /\ \A j \in DOMAIN t : t[j].signature = "APIC" => f <= j

LEMMA FirstMadt ==
    ASSUME NEW t \in RootTables, HasTable(t, "APIC")
    PROVE  \E f : /\ IsFirst(t, f)
                  /\ \A g : IsFirst(t, g) => g = f
                  /\ FindTable(t, "APIC") = t[f]
                  /\ t[f].records \in Seq(Records)
                  /\ t[f].records # << >>
<1>1. PICK n \in Nat : DOMAIN t = 1 .. n
  BY FirmwareAssumption, LenProperties
<1>2. \A i \in 1 .. n : /\ t[i].records \in Seq(Records)
                        /\ t[i].signature = "APIC" => t[i].records # << >>
  <2> DEFINE Table == [signature : STRING, records : Seq(Records)]
  <2>a. t \in Seq(Table)
    BY FirmwareAssumption
  <2>b. \A i \in 1 .. n : t[i] \in Table
    <3> HIDE DEF Table
    <3>1. DOMAIN t = 1 .. Len(t)
      BY <2>a, LenProperties
    <3> QED
      BY <1>1, <2>a, <3>1, ElementOfSeq
  <2>1. \A i \in 1 .. n : t[i] \in [signature : STRING, records : Seq(Records)]
    BY <2>b
  <2>2. \A i \in 1 .. n : t[i].signature = "APIC" => t[i].records # << >>
    BY <1>1, FirmwareAssumption
  <2>3. \A i \in 1 .. n : t[i].records \in Seq(Records)
    BY <2>1
  <2> QED
    BY <2>2, <2>3
<1> DEFINE A == {i \in 1 .. n : t[i].signature = "APIC"}
<1>3. A # {} /\ A \subseteq Nat
  BY <1>1 DEF HasTable
<1>4. PICK f \in A : \A j \in A : f <= j
  <2> HIDE DEF A
  <2> QED
    BY <1>3, Least
<1>5. IsFirst(t, f) /\ \A g : IsFirst(t, g) => g = f
  BY <1>1, <1>4 DEF IsFirst
<1>6. FindTable(t, "APIC") = t[f]
  <2>1. /\ f \in DOMAIN t /\ t[f].signature = "APIC"
        /\ \A j \in 1 .. f - 1 : t[j].signature # "APIC"
    BY <1>1, <1>4
  <2>2. ASSUME NEW g \in DOMAIN t, t[g].signature = "APIC",
               \A j \in 1 .. g - 1 : t[j].signature # "APIC"
        PROVE  g = f
    <3>1. f <= g
      BY <1>1, <1>4, <2>2
    <3>2. ~(f < g)
      BY <1>1, <2>1, <2>2
    <3> QED
      BY <1>1, <3>1, <3>2
  <2> DEFINE P(g) == /\ t[g].signature = "APIC"
                     /\ \A j \in 1 .. g - 1 : t[j].signature # "APIC"
  <2>3. P(f) /\ f \in DOMAIN t /\ \A g \in DOMAIN t : P(g) => g = f
    BY <2>1, <2>2
  <2>4. FindTable(t, "APIC") = t[CHOOSE g \in DOMAIN t : P(g)]
    BY DEF FindTable
  <2> HIDE DEF P
  <2>5. (CHOOSE g \in DOMAIN t : P(g)) = f
    BY <2>3
  <2> QED
    BY <2>4, <2>5
<1> QED
  BY <1>2, <1>4, <1>5, <1>6

\* The loop of parse_madt_table has read the records before the j-th.
Kinds(madt) == [i \in 1 .. Len(madt) |-> madt[i].kind]
ReadTo(madt, j) ==
    /\ cursor = RecordOffset(madt)[j]
    /\ cores = CountTo(Kinds(madt), "lapic", j)
    /\ io_apics = CountTo(Kinds(madt), "io_apic", j)
    /\ CountTo(Kinds(madt), "disabled_lapic", j) = 0
    /\ CountTo(Kinds(madt), "unhandled", j) = 0

\* It comes to an IO APIC without a length for the second time.
ReadAgain(madt, j) ==
    cursor = RecordOffset(madt)[j] /\ io_apics # 0 /\ madt[j].kind = "io_apic"
Refused == {"disabled_lapic", "unhandled", "io_apic"}

\* Nothing is counted before the loop, and the cursor always is where a
\* record starts: with the counts, that is the invariant of the loop.
MadtWalk ==
    /\ tables = << >> \/ tables \in RootTables
    /\ at <= 16 => cores = 0 /\ io_apics = 0
    /\ HasTable(tables, "APIC") =>
           /\ at = 17 => \E j \in 1 .. Len(Madt) : ReadTo(Madt, j) \/ ReadAgain(Madt, j)
           /\ at > 17 => ReadTo(Madt, Len(Madt) + 1)
           /\ at = 17 /\ panicked => \E i \in 1 .. Len(Madt) : Madt[i].kind \in Refused
           /\ hung => \E i \in 1 .. Len(Madt) : Madt[i].length = 0

LEMMA MadtAside ==
    ASSUME MadtWalk, at \in 1 .. 33, UNCHANGED <<hung, tables, cursor, cores, io_apics>>,
           \/ UNCHANGED <<at, panicked>>
           \/ at # 17 /\ at' = at
           \/ at \notin {16, 17} /\ at' = at + 1
    PROVE  MadtWalk'
<1>1. Madt' = Madt
  BY DEF Madt
<1>2. \A m, j : (ReadTo(m, j)' <=> ReadTo(m, j)) /\ (ReadAgain(m, j)' <=> ReadAgain(m, j))
  BY DEF ReadTo, ReadAgain
<1>3. /\ at' = 17 => at = 17 /\ (panicked' => panicked)
      /\ at' > 17 => at > 17
      /\ at' <= 16 => at <= 16
  OBVIOUS
<1> HIDE DEF Madt, ReadTo, ReadAgain
<1> QED
  BY <1>1, <1>2, <1>3 DEF MadtWalk

LEMMA MadtTyped ==
    ASSUME MadtWalk, HasTable(tables, "APIC")
    PROVE  Madt \in Seq(Records) /\ Len(Madt) \in Nat /\ Len(Madt) >= 1
<1>1. tables \in RootTables
  <2>1. tables # << >>
    BY DEF HasTable
  <2> QED
    BY <2>1 DEF MadtWalk
<1>2. PICK f : /\ FindTable(tables, "APIC") = tables[f]
               /\ tables[f].records \in Seq(Records)
               /\ tables[f].records # << >>
  BY <1>1, FirstMadt
<1>3. Madt \in Seq(Records) /\ Madt # << >>
  BY <1>2 DEF Madt
<1> QED
  BY <1>3, LenProperties, EmptySeq

LEMMA AcpiInitializeReads ==
    ASSUME IInv, MadtWalk, AcpiInitialize
    PROVE  MadtWalk'
<1>0. at \in 1 .. 33
  BY Numbers DEF IInv, Printing
<1>1. at = 12 /\ at' = 13 /\ ~hung'
  <2>1. RunsTo("acpi", {}, at + 1)
    BY DEF AcpiInitialize, Runs
  <2>2. at = 12 /\ at' = 13
    BY <1>0, <2>1, RunsAt, StageNumbers
  <2> QED
    BY <2>1, <2>2 DEF RunsTo
<1>2. UNCHANGED <<cores, io_apics>> /\ (tables' = tables \/ tables' \in RootTables)
  BY DEF AcpiInitialize
<1> QED
  BY <1>1, <1>2 DEF MadtWalk

LEMMA FindMadtReads ==
    ASSUME IInv, MadtWalk, FindMadt
    PROVE  MadtWalk'
<1>0. at \in 1 .. 33
  BY Numbers DEF IInv, Printing
<1>1. CASE HasTable(tables, "APIC")
  <2>1. at = 16 /\ at' = 17 /\ ~panicked' /\ ~hung'
    <3>1. RunsTo("find_madt", {}, at + 1)
      BY <1>1 DEF FindMadt, Runs
    <3>2. at = 16 /\ at' = 17
      BY <1>0, <3>1, RunsAt, StageNumbers
    <3> QED
      BY <3>1, <3>2 DEF RunsTo
  <2>2. UNCHANGED <<tables, cores, io_apics>> /\ cursor' = FirstRecord
    BY <1>1 DEF FindMadt, acpiVars
  <2>3. PICK m \in Seq(Records), n \in Nat : m = Madt /\ n = Len(m) /\ n >= 1
    BY <1>1, MadtTyped
  <2>4. Madt' = m
    BY <2>2, <2>3 DEF Madt
  <2>5. cores' = 0 /\ io_apics' = 0
    BY <2>1, <2>2 DEF MadtWalk
  <2>6. cursor' = RecordOffset(m)[1]
    BY <2>2, <2>3, RecordOffsets
  <2>7. \A x : CountTo(Kinds(m), x, 1) = 0
    BY Counting
  <2>8. ReadTo(m, 1)'
    BY <2>5, <2>6, <2>7 DEF ReadTo
  <2>9. \E j \in 1 .. Len(m) : ReadTo(m, j)'
    BY <2>3, <2>8
  <2> QED
    BY <2>1, <2>2, <2>4, <2>9 DEF MadtWalk
<1>2. CASE ~HasTable(tables, "APIC")
  <2>1. at = 16 /\ at' = 20
    <3>1. RunsTo("find_madt", {}, 20)
      BY <1>2, Numbers DEF FindMadt
    <3> QED
      BY <1>0, <3>1, RunsAt, StageNumbers
  <2>2. UNCHANGED tables
    BY <1>2 DEF FindMadt, acpiVars
  <2> QED
    BY <1>2, <2>1, <2>2 DEF MadtWalk
<1> QED
  BY <1>1, <1>2

\* One round of the loop reads one record more.
LEMMA ParseMadtRecordReads ==
    ASSUME IInv, MadtWalk, ParseMadtRecord
    PROVE  MadtWalk'
<1>0. at \in 1 .. 33
  BY Numbers DEF IInv, Printing
<1>1. PICK next \in {at, at + 1} : RunsTo("parse_madt", {}, next)
  BY DEF ParseMadtRecord
<1>2. at = 17 /\ at' = next /\ ~panicked' /\ ~hung'
  BY <1>0, <1>1, RunsAt, StageNumbers DEF RunsTo
<1>3. UNCHANGED tables
  BY DEF ParseMadtRecord
<1>4. CASE ~HasTable(tables, "APIC")
  BY <1>2, <1>3, <1>4 DEF MadtWalk
<1>5. CASE HasTable(tables, "APIC")
  <2>1. PICK m \in Seq(Records), n \in Nat : m = Madt /\ n = Len(m) /\ n >= 1
    BY <1>5, MadtTyped
  <2>2. Madt' = m
    BY <1>3, <2>1 DEF Madt
  <2>3. PICK j \in 1 .. n : ReadTo(m, j) \/ ReadAgain(m, j)
    BY <1>2, <1>5, <2>1 DEF MadtWalk
  <2>4. RecordAt(m, cursor) = m[j] /\ m[j] \in Records
    BY <2>1, <2>3, RecordsApart, ElementOfSeq DEF ReadTo, ReadAgain
  <2>a. PICK kind, length : kind = m[j].kind /\ length = m[j].length /\ length \in 0 .. 255
    BY <2>4 DEF Records
  <2>5. /\ cursor' = cursor + length
        /\ \/ kind \in {"lapic", "override", "nmi"} /\ length # 0
           \/ kind = "io_apic" /\ io_apics = 0
        /\ cores' = cores + (IF kind = "lapic" THEN 1 ELSE 0)
        /\ io_apics' = io_apics + (IF kind = "io_apic" THEN 1 ELSE 0)
        /\ next = IF LastRecord(cursor') THEN at + 1 ELSE at
    <3>1. at' = IF LastRecord(cursor') THEN at + 1 ELSE at
      BY DEF ParseMadtRecord, RunsTo
    <3> QED
      BY <1>2, <2>1, <2>4, <2>a, <3>1 DEF ParseMadtRecord, Record
  <2>b. ReadTo(m, j)
    BY <2>3, <2>5, <2>a DEF ReadAgain
  <2>c. CASE length = 0
    <3>1. cursor \in Nat /\ cursor = RecordOffset(m)[j]
      BY <2>1, <2>b, RecordOffsets DEF ReadTo
    <3>2. cursor' = cursor /\ io_apics' = 1 /\ kind = "io_apic"
      BY <2>5, <2>c, <3>1
    <3>3. at' = 17
      <4>1. ~(cursor >= DataLength(m))
        <5>1. j \in 1 .. n + 1 /\ j # n + 1
          OBVIOUS
        <5> QED
          BY <2>1, <3>1, <5>1, RecordsApart
      <4> QED
        BY <1>2, <2>1, <2>5, <3>2, <4>1 DEF LastRecord
    <3>4. ReadAgain(m, j)'
      BY <2>a, <3>1, <3>2 DEF ReadAgain
    <3> QED
      BY <1>2, <1>3, <2>1, <2>2, <3>3, <3>4 DEF MadtWalk
  <2>d. CASE length # 0
    <3>6. cursor' = RecordOffset(m)[j + 1]
      <4>1. Space(m[j]) = length
        BY <2>a, <2>d DEF Space
      <4> QED
        BY <2>1, <2>b, <2>5, <4>1, RecordOffsets DEF ReadTo
    <3>7. \A x : /\ CountTo(Kinds(m), x, j) \in Nat
                 /\ kind = x => CountTo(Kinds(m), x, j + 1) = CountTo(Kinds(m), x, j) + 1
                 /\ kind # x => CountTo(Kinds(m), x, j + 1) = CountTo(Kinds(m), x, j)
      <4>1. j \in Nat \ {0} /\ Kinds(m)[j] = kind
        BY <2>1, <2>a DEF Kinds
      <4> QED
        BY <4>1, Counting
    <3>8. /\ CountTo(Kinds(m), "disabled_lapic", j + 1) = 0
          /\ CountTo(Kinds(m), "unhandled", j + 1) = 0
      BY <2>b, <2>5, <3>7 DEF ReadTo
    <3>9. /\ cores' = CountTo(Kinds(m), "lapic", j + 1)
          /\ io_apics' = CountTo(Kinds(m), "io_apic", j + 1)
      BY <2>b, <2>5, <3>7 DEF ReadTo
    <3>10. ReadTo(m, j + 1)'
      BY <3>6, <3>8, <3>9 DEF ReadTo
    <3>11. LastRecord(cursor') <=> j + 1 = n + 1
      <4>1. j + 1 \in 1 .. n + 1
        BY <2>1
      <4>2. RecordOffset(m)[j + 1] >= DataLength(m) <=> j + 1 = n + 1
        BY <2>1, <4>1, RecordsApart
      <4> QED
        BY <2>1, <3>6, <4>2 DEF LastRecord
    <3>12. CASE j = n
      <4>1. at' = 18 /\ ReadTo(m, n + 1)'
        BY <1>2, <2>5, <3>10, <3>11, <3>12
      <4> QED
        BY <1>2, <1>3, <2>1, <2>2, <4>1 DEF MadtWalk
    <3>13. CASE j # n
      <4>1. at' = 17 /\ j + 1 \in 1 .. n
        BY <1>2, <2>1, <2>5, <3>11, <3>13
      <4>2. \E k \in 1 .. n : ReadTo(m, k)'
        BY <3>10, <4>1
      <4> QED
        BY <1>2, <1>3, <2>1, <2>2, <4>1, <4>2 DEF MadtWalk
    <3> QED
      BY <3>12, <3>13
  <2> QED
    BY <2>c, <2>d
<1> QED
  BY <1>4, <1>5

LEMMA ParseMadtPanicsReads ==
    ASSUME IInv, MadtWalk, ParseMadtPanics
    PROVE  MadtWalk'
<1>0. at \in 1 .. 33
  BY Numbers DEF IInv, Printing
<1>1. at = 17 /\ at' = at /\ ~hung' /\ UNCHANGED <<tables, cursor, cores, io_apics>>
  BY <1>0, PanicsAt, StageNumbers DEF ParseMadtPanics
<1>2. CASE ~HasTable(tables, "APIC")
  BY <1>1, <1>2 DEF MadtWalk
<1>3. CASE HasTable(tables, "APIC")
  <2>1. PICK m \in Seq(Records), n \in Nat : m = Madt /\ n = Len(m) /\ n >= 1
    BY <1>3, MadtTyped
  <2>2. Madt' = m
    BY <1>1, <2>1 DEF Madt
  <2>3. PICK j \in 1 .. n : ReadTo(m, j) \/ ReadAgain(m, j)
    BY <1>1, <1>3, <2>1 DEF MadtWalk
  <2>4. RecordAt(m, cursor) = m[j]
    BY <2>1, <2>3, RecordsApart DEF ReadTo, ReadAgain
  <2>5. m[j].kind \in Refused
    BY <2>1, <2>4 DEF ParseMadtPanics, Record, Refused
  <2>6. ReadTo(m, j)' \/ ReadAgain(m, j)'
    BY <1>1, <2>3 DEF ReadTo, ReadAgain
  <2>7. /\ \E k \in 1 .. n : ReadTo(m, k)' \/ ReadAgain(m, k)'
        /\ \E k \in 1 .. n : m[k].kind \in Refused
    BY <2>5, <2>6
  <2> QED
    BY <1>1, <2>1, <2>2, <2>7 DEF MadtWalk
<1> QED
  BY <1>2, <1>3

\* Only a record without a length keeps the loop where it is.
LEMMA ParseMadtHangsReads ==
    ASSUME IInv, MadtWalk, ParseMadtHangs
    PROVE  MadtWalk'
<1>0. at \in 1 .. 33
  BY Numbers DEF IInv, Printing
<1>1. at = 17 /\ at' = at /\ ~panicked' /\ UNCHANGED <<tables, cursor, cores, io_apics>>
  BY <1>0, HangsAt
<1>2. CASE ~HasTable(tables, "APIC")
  BY <1>1, <1>2 DEF MadtWalk
<1>3. CASE HasTable(tables, "APIC")
  <2>1. PICK m \in Seq(Records), n \in Nat : m = Madt /\ n = Len(m) /\ n >= 1
    BY <1>3, MadtTyped
  <2>2. Madt' = m
    BY <1>1, <2>1 DEF Madt
  <2>3. PICK j \in 1 .. n : ReadTo(m, j) \/ ReadAgain(m, j)
    BY <1>1, <1>3, <2>1 DEF MadtWalk
  <2>4. RecordAt(m, cursor) = m[j]
    BY <2>1, <2>3, RecordsApart DEF ReadTo, ReadAgain
  <2>5. m[j].length = 0
    BY <2>1, <2>4 DEF ParseMadtHangs, Record
  <2>6. ReadTo(m, j)' \/ ReadAgain(m, j)'
    BY <1>1, <2>3 DEF ReadTo, ReadAgain
  <2>7. /\ \E k \in 1 .. n : ReadTo(m, k)' \/ ReadAgain(m, k)'
        /\ \E k \in 1 .. n : m[k].length = 0
    BY <2>5, <2>6
  <2> QED
    BY <1>1, <2>1, <2>2, <2>7 DEF MadtWalk
<1> QED
  BY <1>2, <1>3

LEMMA NextMadtWalk == IInv /\ MadtWalk /\ [Next]_vars => MadtWalk'
<1> SUFFICES ASSUME IInv, MadtWalk, [Next]_vars PROVE MadtWalk'
  OBVIOUS
<1>0. at \in 1 .. 33
  BY Numbers DEF IInv, Printing
<1>1. CASE ~Reading
  <2>1. Elsewhere
    BY <1>1, MostElsewhere
  <2> QED
    BY <1>0, <2>1, MadtAside DEF Elsewhere
<1>2. CASE ReadInitrd \/ ReadFile \/ ReadFilePanics
  <2>1. UNCHANGED <<hung, tables, cursor, cores, io_apics>>
    BY <1>2 DEF ReadInitrd, ReadFile, ReadFilePanics, PanicsIn, Panics, Runs, RunsTo, acpiVars
  <2>2. CASE ReadInitrd
    <3>1. PICK facilities : RunsTo("initrd", facilities, at + 1)
      BY <2>2 DEF ReadInitrd, Runs
    <3>2. at = 24 /\ at' = at + 1
      BY <1>0, <3>1, RunsAt, StageNumbers
    <3> QED
      BY <1>0, <2>1, <3>2, MadtAside
  <2>3. CASE ReadFile
    <3>1. PICK next \in {at, at + 1} : RunsTo("read_file", {}, next)
      BY <2>3 DEF ReadFile, Runs
    <3>2. at = 30 /\ at' = next
      BY <1>0, <3>1, RunsAt, StageNumbers
    <3> QED
      BY <1>0, <2>1, <3>1, <3>2, MadtAside
  <2>4. CASE ReadFilePanics
    <3>1. at = 30 /\ at' = at
      BY <1>0, <2>4, PanicsAt, StageNumbers DEF ReadFilePanics
    <3> QED
      BY <1>0, <2>1, <3>1, MadtAside
  <2> QED
    BY <1>2, <2>2, <2>3, <2>4
<1> QED
  BY <1>1, <1>2, AcpiInitializeReads, FindMadtReads, ParseMadtRecordReads,
     ParseMadtPanicsReads, ParseMadtHangsReads DEF Reading

\* The records the property counts are those of the loop.
LEMMA MadtWalkSuffices == IInv /\ MadtWalk => MadtRead
<1> SUFFICES ASSUME IInv, MadtWalk, HasTable(tables, "APIC") PROVE MadtRead
  BY DEF MadtRead
<1>0. at \in 1 .. 33 /\ Index("parse_madt") = 17
  BY Numbers DEF IInv, Printing
<1>1. tables \in RootTables
  <2>1. tables # << >>
    BY DEF HasTable
  <2> QED
    BY <2>1 DEF MadtWalk
<1>2. PICK f : /\ IsFirst(tables, f)
               /\ \A g : IsFirst(tables, g) => g = f
               /\ FindTable(tables, "APIC") = tables[f]
  BY <1>1, FirstMadt
<1>3. PICK m \in Seq(Records), n \in Nat : m = Madt /\ n = Len(m) /\ n >= 1
  BY MadtTyped
<1> DEFINE first == CHOOSE i \in DOMAIN tables :
                       /\ tables[i].signature = "APIC"
                       /\ \A j \in DOMAIN tables : tables[j].signature = "APIC" => i <= j
           Number(kind) == Cardinality({i \in DOMAIN tables[first].records :
                                            tables[first].records[i].kind = kind})
<1>4. first = f
  BY <1>2 DEF IsFirst
<1>5. m = tables[first].records /\ DOMAIN m = 1 .. n
  <2>1. m = tables[first].records
    BY <1>2, <1>3, <1>4 DEF Madt
  <2> QED
    BY <1>3, <2>1, LenProperties
<1>6. \A kind : Number(kind) = CountTo(Kinds(m), kind, n + 1)
  <2>1. (n + 1) - 1 = n
    BY <1>3
  <2> HIDE DEF first
  <2>2. \A i \in 1 .. n : Kinds(m)[i] = m[i].kind
    BY <1>3 DEF Kinds
  <2>3. \A kind : {i \in 1 .. n : m[i].kind = kind} = {i \in 1 .. n : Kinds(m)[i] = kind}
    BY <2>2
  <2> QED
    BY <1>5, <2>1, <2>3 DEF CountTo
<1>7. MadtRead <=>
          /\ at > Index("parse_madt") =>
                /\ cores = Number("lapic") /\ io_apics = Number("io_apic")
                /\ Number("disabled_lapic") + Number("unhandled") = 0
          /\ at = Index("parse_madt") /\ panicked =>
                Number("disabled_lapic") + Number("unhandled") + Number("io_apic") > 0
          /\ hung => \E i \in DOMAIN tables[first].records : tables[first].records[i].length = 0
  BY DEF MadtRead
<1> HIDE DEF Number, first
<1>h. hung => \E i \in DOMAIN tables[first].records : tables[first].records[i].length = 0
  BY <1>3, <1>5 DEF MadtWalk
<1>8. CASE at > 17
  <2>1. ReadTo(m, n + 1)
    BY <1>3, <1>8 DEF MadtWalk
  <2> QED
    BY <1>0, <1>6, <1>7, <1>8, <1>h, <2>1 DEF ReadTo
<1>9. CASE at = 17 /\ panicked
  <2>1. PICK i \in 1 .. n : Kinds(m)[i] \in Refused
    BY <1>3, <1>9 DEF MadtWalk, Kinds
  <2>2. \A x : /\ CountTo(Kinds(m), x, n + 1) \in Nat
               /\ CountTo(Kinds(m), x, n + 1) = 0 <=>
                     \A k \in 1 .. (n + 1) - 1 : Kinds(m)[k] # x
    <3>1. PICK j \in Nat \ {0} : j = n + 1
      BY <1>3
    <3> QED
      BY <3>1, Counting
  <2>3. PICK x \in Refused : Kinds(m)[i] = x /\ CountTo(Kinds(m), x, n + 1) # 0
    BY <1>3, <2>1, <2>2
  <2> QED
    BY <1>0, <1>6, <1>7, <1>9, <1>h, <2>2, <2>3, SMTT(20) DEF Refused
<1>10. CASE at < 17 \/ (at = 17 /\ ~panicked)
  BY <1>0, <1>7, <1>10, <1>h
<1> QED
  BY <1>0, <1>8, <1>9, <1>10, SMTT(20)

\* Whatever tables the firmware has and whatever their records and lengths,
\* every core that can be used is counted, the IO APIC is found, and the parser
\* neither stops early nor runs past the end nor steps into the middle of a
\* record; it only goes round for ever at a record without a length.
THEOREM MadtCorrect == Spec => []MadtRead
<1>1. Init => MadtWalk
  BY DEF Init, MadtWalk, HasTable
<1> QED
  BY <1>1, Invariance, NextMadtWalk, MadtWalkSuffices, PTL DEF Spec
-----------------------------------------------------------------------------
\* The search of read_file has passed the entries before the j-th.
Passed(entries, j) ==
    /\ start = HeaderOffset(entries)[j]
    /\ \A i \in 1 .. j - 1 : entries[i].name.text # "init" /\ ~IsTrailer(entries[i].name)
Inits == IF initrd.kind # "newc" THEN {}
         ELSE {i \in Listed(initrd.entries) : initrd.entries[i].name.text = "init"}
Found ==
    \E i \in Inits :
        /\ \A j \in Inits : i <= j
        /\ file.from = DataOffset(initrd.entries, i)
        /\ file.to = file.from + initrd.entries[i].file_size - 1

\* `start' always is where an entry starts or where the archive ends, and no
\* entry that was passed would have ended the search.
FileSearch ==
    /\ initrd.kind = "newc" => initrd \in Initrds
    /\ at < 30 => start = 0
    /\ at > 24 /\ initrd.kind = "newc" => "cpio" \in up
    /\ at = 30 /\ initrd.kind = "newc" =>
           \E j \in 1 .. Len(initrd.entries) + 1 : Passed(initrd.entries, j)
    /\ at = 30 /\ panicked => Inits = {}
    /\ at > 30 => Found

LEMMA EntriesTyped ==
    ASSUME NEW i \in Initrds
    PROVE  /\ i.entries \in Seq(FileEntry)
           /\ Len(i.entries) \in Nat
           /\ DOMAIN i.entries = 1 .. Len(i.entries)
<1>1. i.entries \in Seq(FileEntry)
  BY FirmwareAssumption DEF FileEntry
<1> QED
  BY <1>1, LenProperties

LEMMA SearchStarts ==
    ASSUME FileSearch, initrd.kind = "newc", start = 0
    PROVE  \E j \in 1 .. Len(initrd.entries) + 1 : Passed(initrd.entries, j)
<1>1. PICK e \in Seq(FileEntry), n \in Nat : e = initrd.entries /\ n = Len(e)
  <2>1. initrd \in Initrds
    BY DEF FileSearch
  <2> QED
    BY <2>1, EntriesTyped
<1>2. HeaderOffset(e)[1] = 0
  BY HeaderOffsets
<1>3. Passed(e, 1) /\ 1 \in 1 .. n + 1
  BY <1>1, <1>2 DEF Passed
<1> QED
  BY <1>1, <1>3

LEMMA FileAside ==
    ASSUME FileSearch, at \in 1 .. 33, UNCHANGED <<initrd, start, file>>, up \subseteq up',
           \/ UNCHANGED <<at, panicked>>
           \/ at # 30 /\ at' = at
           \/ at \notin {24, 30} /\ at' = at + 1 /\ ~panicked'
           \/ at < 24 /\ at' <= 24 /\ at' \in Nat
    PROVE  FileSearch'
<1>1. Inits' = Inits /\ Found' = Found /\ \A e, j : Passed(e, j)' <=> Passed(e, j)
  BY DEF Inits, Found, Passed
<1>2. /\ at' < 30 => at < 30
      /\ at' > 24 => at > 24
      /\ at' = 30 => at = 30 \/ (at < 30 /\ ~panicked')
      /\ at' > 30 => at > 30
  OBVIOUS
<1>3. at' = 30 /\ panicked' => at = 30 /\ panicked
  <2>1. CASE UNCHANGED <<at, panicked>>
    BY <2>1
  <2>2. CASE at # 30 /\ at' = at
    BY <2>2
  <2>3. CASE at \notin {24, 30} /\ at' = at + 1 /\ ~panicked'
    BY <2>3
  <2>4. CASE at < 24 /\ at' <= 24 /\ at' \in Nat
    BY <2>4
  <2> QED
    BY <2>1, <2>2, <2>3, <2>4
<1>4. at' = 30 /\ initrd.kind = "newc" =>
          \E j \in 1 .. Len(initrd.entries) + 1 : Passed(initrd.entries, j)
  <2>1. CASE at = 30
    BY <2>1 DEF FileSearch
  <2>2. CASE at < 30
    <3>1. start = 0
      BY <2>2 DEF FileSearch
    <3> QED
      BY <3>1, SearchStarts
  <2> QED
    BY <1>2, <2>1, <2>2
<1> HIDE DEF Inits, Found, Passed
<1> QED
  BY <1>1, <1>2, <1>3, <1>4 DEF FileSearch

LEMMA ReadInitrdSearches ==
    ASSUME IInv, FileSearch, ReadInitrd
    PROVE  FileSearch'
<1>0. at \in 1 .. 33
  BY Numbers DEF IInv, Printing
<1>1. PICK i \in Initrds :
          /\ Runs("initrd", IF i.kind = "unknown" THEN {} ELSE {"cpio"})
          /\ initrd' = i
  BY DEF ReadInitrd
<1>2. at = 24 /\ at' = 25
  BY <1>0, <1>1, RunsAt, StageNumbers DEF Runs
<1>3. i.kind = "newc" => "cpio" \in up'
  BY <1>1 DEF Runs, RunsTo
<1>4. start' = 0
  BY <1>2 DEF ReadInitrd, FileSearch
<1> QED
  BY <1>1, <1>2, <1>3, <1>4 DEF FileSearch

LEMMA ReadFileSearches ==
    ASSUME IInv, FileSearch, ReadFile
    PROVE  FileSearch'
<1>0. at \in 1 .. 33
  BY Numbers DEF IInv, Printing
<1>1. PICK next \in {at, at + 1} : RunsTo("read_file", {}, next)
  BY DEF ReadFile, Runs
<1>2. at = 30 /\ at' = next /\ ~panicked' /\ up' = up
  <2>1. at = 30 /\ at' = next
    BY <1>0, <1>1, RunsAt, StageNumbers
  <2> QED
    BY <1>1, <2>1 DEF RunsTo
<1>3. initrd.kind = "newc" /\ initrd' = initrd /\ initrd \in Initrds
  BY DEF ReadFile, ReadsEntry, FileSearch
<1>4. PICK e \in Seq(FileEntry), n \in Nat :
          e = initrd.entries /\ n = Len(e) /\ DOMAIN e = 1 .. n
  BY <1>3, EntriesTyped
<1>5. PICK j \in 1 .. n + 1 : Passed(e, j)
  BY <1>2, <1>3, <1>4 DEF FileSearch
<1>6. j \in 1 .. n /\ EntryAt(e, start) = e[j]
  <2>1. HeaderAt(e, start) /\ start = HeaderOffset(e)[j]
    BY <1>4, <1>5 DEF ReadFile, ReadsEntry, Passed
  <2>2. j # n + 1
    BY <1>4, <2>1, HeadersApart
  <2>3. j \in 1 .. n
    BY <1>4, <2>2
  <2> QED
    BY <1>4, <2>1, <2>3, HeadersApart
<1>7. PICK h \in Nat : h = start /\ h % 4 = 0 /\ e[j] \in FileEntry
                        /\ HeaderOffset(e)[j + 1] = NextHeader(h, e[j])
  BY <1>4, <1>5, <1>6, HeaderOffsets DEF Passed
<1>8. CASE e[j].name.text = "init"
  <2>1. /\ Runs("read_file", {})
        /\ file' = [from |-> ContentsFrom(h, e[j]),
                    to |-> ContentsFrom(h, e[j]) + e[j].file_size - 1]
    BY <1>4, <1>6, <1>7, <1>8 DEF ReadFile, CorrectPath
  <2>2. at' = 31
    BY <1>2, <2>1 DEF Runs, RunsTo
  <2>3. ContentsFrom(h, e[j]) = DataFrom(h, e[j])
    BY <1>7, PaddingRight
  <2>4. DataFrom(h, e[j]) = DataOffset(e, j)
    BY <1>5, <1>7 DEF DataOffset, Passed
  <2>5. j \in Inits'
    <3>1. \A name : IsTrailer(name) => name.text # "init"
      BY DEF IsTrailer, Trailer
    <3>2. \A i \in 1 .. j : ~IsTrailer(e[i].name)
      BY <1>5, <1>6, <1>8, <3>1 DEF Passed
    <3>3. j \in Listed(e)
      BY <1>4, <1>6, <3>2 DEF Listed
    <3> QED
      BY <1>3, <1>4, <1>8, <3>3 DEF Inits
  <2>6. \A i \in Inits' : j <= i
    <3>1. \A i \in Inits' : i \in 1 .. n /\ e[i].name.text = "init"
      BY <1>3, <1>4 DEF Inits, Listed
    <3> QED
      BY <1>5, <1>6, <3>1 DEF Passed
  <2>7. Found'
    <3>1. /\ file'.from = DataOffset(e, j)
          /\ file'.to = file'.from + e[j].file_size - 1
      BY <2>1, <2>3, <2>4
    <3>2. initrd'.entries = e
      BY <1>3, <1>4
    <3> QED
      BY <2>5, <2>6, <3>1, <3>2 DEF Found
  <2> QED
    BY <1>2, <1>3, <2>2, <2>7 DEF FileSearch
<1>9. CASE e[j].name.text # "init"
  <2>1. /\ ~IsTrailer(e[j].name)
        /\ RunsTo("read_file", {}, at)
        /\ start' = NextHeader(h, e[j])
    BY <1>4, <1>6, <1>7, <1>9 DEF ReadFile, CorrectPath
  <2>2. at' = 30
    BY <1>2, <2>1 DEF RunsTo
  <2>3. Passed(e, j + 1)'
    <3>1. start' = HeaderOffset(e)[j + 1]
      BY <1>7, <2>1
    <3>2. \A i \in 1 .. (j + 1) - 1 : e[i].name.text # "init" /\ ~IsTrailer(e[i].name)
      BY <1>5, <1>6, <1>9, <2>1 DEF Passed
    <3> QED
      BY <3>1, <3>2 DEF Passed
  <2>4. \E k \in 1 .. n + 1 : Passed(e, k)'
    BY <1>6, <2>3
  <2> QED
    BY <1>2, <1>3, <1>4, <2>2, <2>4 DEF FileSearch
<1> QED
  BY <1>8, <1>9

LEMMA ReadFilePanicsSearches ==
    ASSUME IInv, FileSearch, ReadFilePanics
    PROVE  FileSearch'
<1>0. at \in 1 .. 33
  BY Numbers DEF IInv, Printing
<1>1. at = 30 /\ at' = 30 /\ UNCHANGED <<initrd, start, file, up>>
  BY <1>0, PanicsAt, StageNumbers DEF ReadFilePanics
<1>2. Inits' = Inits /\ \A e, j : Passed(e, j)' <=> Passed(e, j)
  BY <1>1 DEF Inits, Passed
<1>3. Inits = {}
  <2>1. CASE initrd.kind # "newc"
    BY <2>1 DEF Inits
  <2>2. CASE initrd.kind = "newc"
    <3>1. PICK e \in Seq(FileEntry), n \in Nat :
              e = initrd.entries /\ n = Len(e) /\ DOMAIN e = 1 .. n
      BY <2>2, EntriesTyped DEF FileSearch
    <3>2. PICK j \in 1 .. n + 1 : Passed(e, j)
      BY <1>1, <2>2, <3>1 DEF FileSearch
    <3>3. \A i \in Listed(e) : i \in 1 .. n /\ (j \in 1 .. n => i < j)
      <4>1. CASE j \notin 1 .. n
        BY <3>1, <4>1 DEF Listed
      <4>2. CASE j \in 1 .. n
        <5>1. HeaderAt(e, start) /\ EntryAt(e, start) = e[j]
          BY <3>1, <3>2, <4>2, HeadersApart DEF Passed
        <5>2. ReadsEntry
          BY <1>1, <2>2, <3>1, <5>1 DEF ReadsEntry, FileSearch
        <5>3. IsTrailer(e[j].name)
          BY <3>1, <5>1, <5>2 DEF ReadFilePanics
        <5>4. \A i \in Listed(e) : i \in 1 .. n /\ ~(j \in 1 .. i)
          BY <3>1, <5>3 DEF Listed
        <5> QED
          BY <4>2, <5>4
      <4> QED
        BY <4>1, <4>2
    <3>4. \A i \in Listed(e) : i \in 1 .. j - 1
      BY <3>1, <3>2, <3>3
    <3>5. \A i \in Listed(e) : e[i].name.text # "init"
      BY <3>2, <3>4 DEF Passed
    <3> QED
      BY <2>2, <3>1, <3>5 DEF Inits
  <2> QED
    BY <2>1, <2>2
<1> HIDE DEF Inits, Passed
<1> QED
  BY <1>1, <1>2, <1>3 DEF FileSearch

LEMMA NextFileSearch == IInv /\ FileSearch /\ [Next]_vars => FileSearch'
<1> SUFFICES ASSUME IInv, FileSearch, [Next]_vars PROVE FileSearch'
  OBVIOUS
<1>0. at \in 1 .. 33
  BY Numbers DEF IInv, Printing
<1>1. CASE ~Reading
  <2>1. Elsewhere
    BY <1>1, MostElsewhere
  <2> QED
    BY <1>0, <2>1, FileAside DEF Elsewhere
<1>2. CASE \/ AcpiInitialize \/ FindMadt \/ ParseMadtRecord \/ ParseMadtPanics
           \/ ParseMadtHangs
  <2>1. UNCHANGED <<initrd, start, file>>
    BY <1>2 DEF AcpiInitialize, FindMadt, ParseMadtRecord, ParseMadtPanics, ParseMadtHangs,
                PanicsIn, Panics, fileVars
  <2>2. CASE AcpiInitialize \/ FindMadt \/ ParseMadtRecord
    <3>1. PICK stage \in {"acpi", "find_madt", "parse_madt"}, next \in {at, at + 1, 20} :
              RunsTo(stage, {}, next)
      BY <2>2, Numbers DEF AcpiInitialize, FindMadt, ParseMadtRecord, Runs
    <3>2. at \in 12 .. 17 /\ at' = next /\ next <= 24 /\ next \in Nat
      BY <1>0, <3>1, RunsAt, StageNumbers
    <3>3. up \subseteq up'
      BY <3>1 DEF RunsTo
    <3> QED
      BY <1>0, <2>1, <3>2, <3>3, FileAside
  <2>3. CASE ParseMadtPanics
    <3>1. at = 17 /\ at' = at /\ up' = up
      BY <1>0, <2>3, PanicsAt, StageNumbers DEF ParseMadtPanics
    <3> QED
      BY <1>0, <2>1, <3>1, FileAside
  <2>4. CASE ParseMadtHangs
    <3>1. at = 17 /\ at' = at /\ up' = up
      BY <1>0, <2>4, HangsAt
    <3> QED
      BY <1>0, <2>1, <3>1, FileAside
  <2> QED
    BY <1>2, <2>2, <2>3, <2>4
<1> QED
  BY <1>1, <1>2, ReadInitrdSearches, ReadFileSearches, ReadFilePanicsSearches DEF Reading

\* For every archive, of any length and with files of any size: read_file
\* returns exactly the contents of the first "init" before the trailer, and
\* the kernel only panics there when there is none.
THEOREM FileCorrect == Spec => []ReadsRightFile
<1>1. Init => FileSearch
  BY DEF Init, FileSearch, NoInitrd
<1>2. IInv /\ FileSearch => ReadsRightFile
  <2>1. Index("read_file") = 30
    BY Numbers
  <2> QED
    BY <2>1 DEF FileSearch, ReadsRightFile, Inits, Found
<1> QED
  BY <1>1, <1>2, Invariance, NextFileSearch, PTL DEF Spec
=============================================================================
