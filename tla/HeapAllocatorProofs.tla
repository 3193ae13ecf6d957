------------------------ MODULE HeapAllocatorProofs ------------------------
(***************************************************************************)
(* Proofs about HeapAllocator for every heap and every set of layouts:     *)
(* blocks and free nodes never overlap, nodes satisfy the assertions of    *)
(* add_free_region, blocks suit their layouts, and memory is only lost as  *)
(* padding.                                                                *)
(***************************************************************************)
EXTENDS HeapAllocator, DataLemmas

\* A block can become a node when it is freed.
BlocksAligned == \A b \in blocks : b.addr % NodeAlign = 0

\* The inductive invariant.  NoOverlap alone does not say that the node
\* written behind a block, or into a freed one, has room and is aligned.
IInv == TypeOK /\ NoOverlap /\ NodesFit /\ BlocksSuit /\ BlocksAligned
-----------------------------------------------------------------------------
\* Multiples.
LEMMA MultipleIs ==
    ASSUME NEW x \in Int, NEW a \in Nat \ {0}, x % a = 0
    PROVE  x = (x \div a) * a /\ x \div a \in Int
OBVIOUS

LEMMA MultipleOf ==
    ASSUME NEW q \in Int, NEW a \in Nat \ {0}
    PROVE  (q * a) % a = 0
OBVIOUS

LEMMA MultipleSum ==
    ASSUME NEW x \in Int, NEW y \in Int, NEW a \in Nat \ {0}, x % a = 0, y % a = 0
    PROVE  (x + y) % a = 0
<1> DEFINE q == x \div a
           r == y \div a
<1>1. x = q * a /\ q \in Int /\ y = r * a /\ r \in Int
  BY MultipleIs
<1> HIDE DEF q, r
<1>2. q + r \in Int /\ q * a + r * a = (q + r) * a
  BY <1>1
<1>3. ((q + r) * a) % a = 0
  BY <1>2, MultipleOf
<1> QED
  BY <1>1, <1>2, <1>3

LEMMA MultipleTrans ==
    ASSUME NEW x \in Int, NEW y \in Nat \ {0}, NEW a \in Nat \ {0}, x % y = 0, y % a = 0
    PROVE  x % a = 0
<1> DEFINE q == x \div y
           r == y \div a
<1>1. x = q * y /\ q \in Int /\ y = r * a /\ r \in Int
  BY MultipleIs
<1> HIDE DEF q, r
<1>2. q * (r * a) = (q * r) * a /\ q * r \in Int
  BY <1>1
<1>3. ((q * r) * a) % a = 0
  BY <1>2, MultipleOf
<1> QED
  BY <1>1, <1>2, <1>3

\* align_up answers the next multiple, and a multiple is its own.
LEMMA AlignUpProperties ==
    ASSUME NEW x \in Nat, NEW a \in Nat \ {0}
    PROVE  /\ AlignUp(x, a) \in Nat
           /\ x <= AlignUp(x, a)
           /\ AlignUp(x, a) < x + a
           /\ AlignUp(x, a) % a = 0
           /\ x % a = 0 => AlignUp(x, a) = x
<1>1. /\ AlignUp(x, a) \in Nat
      /\ x <= AlignUp(x, a)
      /\ AlignUp(x, a) < x + a
  BY DEF AlignUp
<1>2. AlignUp(x, a) % a = 0
  <2>1. (x + a - 1) \div a \in Int
    OBVIOUS
  <2> QED
    BY <2>1, MultipleOf DEF AlignUp
<1>3. ASSUME x % a = 0 PROVE AlignUp(x, a) = x
  <2> DEFINE q == x \div a
             r == AlignUp(x, a) \div a
  <2>0. PICK u \in Nat : u = AlignUp(x, a)
    BY <1>1
  <2>a. x = q * a /\ q \in Int
    BY <1>3, MultipleIs
  <2>b. u = (u \div a) * a /\ u \div a \in Int
    BY <1>2, <2>0, MultipleIs
  <2>1. x = q * a /\ q \in Int /\ AlignUp(x, a) = r * a /\ r \in Int
    BY <2>0, <2>a, <2>b
  <2> HIDE DEF q, r
  <2>2. r = q
    <3>1. CASE r < q
      <4>1. r * a < q * a
        BY <2>1, <3>1
      <4> QED
        BY <1>1, <2>1, <4>1
    <3>2. CASE r > q
      <4>1. q * a + a <= r * a
        BY <2>1, <3>2
      <4> QED
        BY <1>1, <2>1, <4>1
    <3> QED
      BY <2>1, <3>1, <3>2
  <2> QED
    BY <2>1, <2>2
<1> QED
  BY <1>1, <1>2, <1>3

\* What size_align makes of a layout.
LEMMA LayoutProperties ==
    ASSUME NEW layout \in Layouts
    PROVE  /\ layout.size \in Nat \ {0} /\ layout.align \in Nat \ {0}
           /\ AlignOf(layout) \in Nat \ {0}
           /\ AlignOf(layout) % NodeAlign = 0
           /\ AlignOf(layout) % layout.align = 0
           /\ SizeOf(layout) \in Nat
           /\ SizeOf(layout) >= NodeSize
           /\ SizeOf(layout) >= layout.size
           /\ SizeOf(layout) % NodeAlign = 0
<1>1. layout.size \in Nat \ {0} /\ layout.align \in Nat \ {0}
  BY LayoutAssumption
<1>2. AlignOf(layout) \in Nat \ {0}
  BY <1>1, HeapAssumption DEF AlignOf
<1>3. AlignOf(layout) % NodeAlign = 0 /\ AlignOf(layout) % layout.align = 0
  <2>1. \A a \in Nat \ {0} : a % a = 0
    OBVIOUS
  <2>2. CASE layout.align > NodeAlign
    <3>1. AlignOf(layout) = layout.align
      BY <2>2 DEF AlignOf
    <3> QED
      BY <1>1, <2>1, <2>2, <3>1, AlignAssumption
  <2>3. CASE ~(layout.align > NodeAlign)
    <3>1. AlignOf(layout) = NodeAlign /\ layout.align <= NodeAlign
      BY <1>1, <2>3, HeapAssumption DEF AlignOf
    <3> QED
      BY <2>1, <3>1, AlignAssumption, HeapAssumption
  <2> QED
    BY <2>2, <2>3
<1> DEFINE p == AlignUp(layout.size, AlignOf(layout))
<1>4. p \in Nat /\ layout.size <= p /\ p % AlignOf(layout) = 0
  BY <1>1, <1>2, AlignUpProperties
<1>5. p % NodeAlign = 0
  BY <1>2, <1>3, <1>4, MultipleTrans, HeapAssumption
<1>6. SizeOf(layout) = IF p > NodeSize THEN p ELSE NodeSize
  BY DEF SizeOf
<1> HIDE DEF p
<1>7. CASE p > NodeSize
  BY <1>1, <1>2, <1>3, <1>4, <1>5, <1>6, <1>7, HeapAssumption
<1>8. CASE ~(p > NodeSize)
  BY <1>1, <1>2, <1>3, <1>4, <1>5, <1>6, <1>8, HeapAssumption
<1> QED
  BY <1>7, <1>8
-----------------------------------------------------------------------------
NodesApart(list) ==
    \A i, j \in DOMAIN list :
        i # j => Apart(list[i].addr, list[i].size, list[j].addr, list[j].size)

\* Unlinking a node from the free list leaves the others.
LEMMA UnlinkNode ==
    ASSUME NEW list \in Seq(Node), NodesApart(list), NEW i \in DOMAIN list
    PROVE  /\ RemoveAt(list, i) \in Seq(Node)
           /\ NodesApart(RemoveAt(list, i))
           /\ \A k \in DOMAIN RemoveAt(list, i) :
                \E m \in DOMAIN list \ {i} : RemoveAt(list, i)[k] = list[m]
           /\ \A m \in DOMAIN list \ {i} :
                \E k \in DOMAIN RemoveAt(list, i) : RemoveAt(list, i)[k] = list[m]
<1> DEFINE r == RemoveAt(list, i)
<1>1. /\ r \in Seq(Node)
      /\ \A k \in DOMAIN r : Before(i, k) \in DOMAIN list \ {i} /\ r[k] = list[Before(i, k)]
  BY RemoveAtProperties
<1>2. /\ \A m \in DOMAIN list \ {i} : \E k \in DOMAIN r : r[k] = list[m]
      /\ \A k, l \in DOMAIN r : k # l => Before(i, k) # Before(i, l)
  BY RemoveAtKeeps
<1> HIDE DEF r
<1>3. NodesApart(r)
  <2> SUFFICES ASSUME NEW k \in DOMAIN r, NEW l \in DOMAIN r, k # l
               PROVE  Apart(r[k].addr, r[k].size, r[l].addr, r[l].size)
    BY DEF NodesApart
  <2> QED
    BY <1>1, <1>2 DEF NodesApart
<1> QED
  BY <1>1, <1>2, <1>3 DEF r

\* add_free_region puts a node apart from the others on the list.
Pushed(list, new, longer) ==
    /\ longer \in Seq(Node)
    /\ NodesApart(longer)
    /\ \A k \in DOMAIN longer : longer[k] = new \/ \E m \in DOMAIN list : longer[k] = list[m]
    /\ \E k \in DOMAIN longer : longer[k] = new
    /\ \A m \in DOMAIN list : \E k \in DOMAIN longer : longer[k] = list[m]

LEMMA PushNode ==
    ASSUME NEW list \in Seq(Node), NodesApart(list),
           NEW addr \in Nat, NEW size \in Nat \ {0},
           \A m \in DOMAIN list : Apart(addr, size, list[m].addr, list[m].size)
    PROVE  Pushed(list, [addr |-> addr, size |-> size], AddFreeRegion(list, addr, size))
<1> DEFINE new == [addr |-> addr, size |-> size]
           longer == AddFreeRegion(list, addr, size)
<1>0. new \in Node /\ new.addr = addr /\ new.size = size
  BY DEF Node
<1>1. Len(list) \in Nat /\ DOMAIN list = 1 .. Len(list)
  BY LenProperties
<1>2. longer = <<new>> \o list
  BY DEF AddFreeRegion
<1> HIDE DEF new, longer
<1>3. /\ longer \in Seq(Node)
      /\ DOMAIN longer = 1 .. Len(list) + 1
      /\ longer[1] = new
      /\ \A j \in 2 .. Len(list) + 1 : j - 1 \in DOMAIN list /\ longer[j] = list[j - 1]
  BY <1>0, <1>2, PushFrontProperties
<1>4. \A k \in DOMAIN longer : k = 1 \/ k \in 2 .. Len(list) + 1
  BY <1>1, <1>3
<1>5. NodesApart(longer)
  <2> SUFFICES ASSUME NEW k \in DOMAIN longer, NEW l \in DOMAIN longer, k # l
               PROVE  Apart(longer[k].addr, longer[k].size, longer[l].addr, longer[l].size)
    BY DEF NodesApart
  <2>1. CASE k = 1
    <3>1. l \in 2 .. Len(list) + 1
      BY <1>4, <2>1
    <3> QED
      BY <1>0, <1>3, <2>1, <3>1
  <2>2. CASE l = 1
    <3>1. k \in 2 .. Len(list) + 1
      BY <1>4, <2>2
    <3>2. Apart(addr, size, list[k - 1].addr, list[k - 1].size)
      BY <1>3, <3>1
    <3> QED
      BY <1>0, <1>3, <2>2, <3>1, <3>2 DEF Apart
  <2>3. CASE k # 1 /\ l # 1
    <3>1. /\ k - 1 \in DOMAIN list /\ longer[k] = list[k - 1]
          /\ l - 1 \in DOMAIN list /\ longer[l] = list[l - 1]
      BY <1>3, <1>4, <2>3
    <3>2. k - 1 # l - 1
      BY <1>1, <1>3
    <3> QED
      BY <3>1, <3>2 DEF NodesApart
  <2> QED
    BY <2>1, <2>2, <2>3
<1>6. \A k \in DOMAIN longer : longer[k] = new \/ \E m \in DOMAIN list : longer[k] = list[m]
  BY <1>3, <1>4
<1>7. \E k \in DOMAIN longer : longer[k] = new
  BY <1>1, <1>3
<1>8. ASSUME NEW m \in DOMAIN list PROVE \E k \in DOMAIN longer : longer[k] = list[m]
  <2>1. m + 1 \in 2 .. Len(list) + 1 /\ m + 1 \in DOMAIN longer /\ (m + 1) - 1 = m
    BY <1>1, <1>3
  <2> QED
    BY <1>3, <2>1
<1> QED
  BY <1>3, <1>5, <1>6, <1>7, <1>8 DEF Pushed, new, longer

\* The block alloc_from_region carves out of a suitable node: it lies in the
\* node, and nothing or a whole node remains behind it.  Padding in front of
\* it means that the layout is aligned more strictly than a node.
LEMMA SuitableProperties ==
    ASSUME NEW node \in Node, node.addr % NodeAlign = 0, NEW layout \in Layouts,
           Suitable(node, SizeOf(layout), AlignOf(layout))
    PROVE  LET start == AlignUp(node.addr, AlignOf(layout))
               excess == (node.addr + node.size) - (start + SizeOf(layout))
           IN  /\ start \in Nat /\ excess \in Nat
               /\ excess = 0 \/ excess >= NodeSize
               /\ node.addr <= start
               /\ start % NodeAlign = 0
               /\ start % layout.align = 0
               /\ (start + SizeOf(layout)) % NodeAlign = 0
               /\ start # node.addr =>
                    layout.align > NodeAlign /\ start < node.addr + layout.align
<1> DEFINE start == AlignUp(node.addr, AlignOf(layout))
           excess == (node.addr + node.size) - (start + SizeOf(layout))
<1>1. node.addr \in Nat /\ node.size \in Nat \ {0}
  BY DEF Node
<1>2. /\ layout.size \in Nat \ {0} /\ layout.align \in Nat \ {0}
      /\ AlignOf(layout) \in Nat \ {0}
      /\ AlignOf(layout) % NodeAlign = 0
      /\ AlignOf(layout) % layout.align = 0
      /\ SizeOf(layout) \in Nat
      /\ SizeOf(layout) % NodeAlign = 0
  BY LayoutProperties
<1>3. /\ start \in Nat
      /\ node.addr <= start
      /\ start < node.addr + AlignOf(layout)
      /\ start % AlignOf(layout) = 0
      /\ node.addr % AlignOf(layout) = 0 => start = node.addr
  BY <1>1, <1>2, AlignUpProperties
<1>4. excess \in Int /\ (excess = 0 \/ excess >= NodeSize)
  BY <1>1, <1>2, <1>3 DEF Suitable
<1> HIDE DEF start, excess
<1>5. excess \in Nat
  BY <1>4, HeapAssumption
<1>6. start % NodeAlign = 0 /\ start % layout.align = 0
  BY <1>2, <1>3, MultipleTrans, HeapAssumption
<1>7. (start + SizeOf(layout)) % NodeAlign = 0
  <2>1. start \in Int /\ SizeOf(layout) \in Int /\ NodeAlign \in Nat \ {0}
    BY <1>2, <1>3, HeapAssumption
  <2> QED
    BY <1>2, <1>6, <2>1, MultipleSum, Zenon
<1>8. ASSUME start # node.addr
      PROVE  layout.align > NodeAlign /\ start < node.addr + layout.align
  <2>1. AlignOf(layout) # NodeAlign
    BY <1>3, <1>8
  <2> QED
    BY <1>2, <1>3, <2>1, HeapAssumption DEF AlignOf
<1> QED
  BY <1>3, <1>4, <1>5, <1>6, <1>7, <1>8 DEF start, excess
-----------------------------------------------------------------------------
\* Init establishes the invariant.
LEMMA InitIInv == Init => IInv
<1> SUFFICES ASSUME Init PROVE IInv
  OBVIOUS
<1> DEFINE node == [addr |-> HeapStart, size |-> HeapSize]
<1>1. HeapStart \in Nat /\ HeapSize \in Nat \ {0}
  BY HeapAssumption
<1>2. << >> \in Seq(Node) /\ DOMAIN << >> = {} /\ NodesApart(<< >>)
  BY EmptySeq DEF NodesApart
<1>3. /\ free_list \in Seq(Node)
      /\ NodesApart(free_list)
      /\ \A k \in DOMAIN free_list : free_list[k] = node
  BY <1>1, <1>2, PushNode DEF Init, Pushed
<1>4. TypeOK
  BY <1>3 DEF Init, TypeOK
<1>5. NoOverlap
  BY <1>1, <1>3 DEF Init, NoOverlap, NodesApart
<1>6. NodesFit
  BY <1>3, HeapAssumption DEF NodesFit
<1> QED
  BY <1>4, <1>5, <1>6 DEF Init, IInv, BlocksSuit, BlocksAligned

\* The parts of the invariant the steps use.
LEMMA IInvParts ==
    ASSUME IInv
    PROVE  /\ free_list \in Seq(Node)
           /\ NodesApart(free_list)
           /\ \A i \in DOMAIN free_list :
                /\ free_list[i] \in Node
                /\ free_list[i].addr \in Nat
                /\ free_list[i].size \in Nat \ {0}
                /\ free_list[i].addr % NodeAlign = 0
                /\ free_list[i].size >= NodeSize
                /\ HeapStart <= free_list[i].addr
                /\ free_list[i].addr + free_list[i].size <= HeapStart + HeapSize
           /\ \A b \in blocks :
                /\ b.addr \in Nat
                /\ b.layout \in Layouts
                /\ SizeOf(b.layout) \in Nat \ {0}
                /\ SizeOf(b.layout) >= NodeSize
<1>1. free_list \in Seq(Node) /\ blocks \subseteq Block
  BY DEF IInv, TypeOK
<1>2. \A i \in DOMAIN free_list : free_list[i] \in Node
  BY <1>1
<1>3. \A i \in DOMAIN free_list : free_list[i].addr \in Nat /\ free_list[i].size \in Nat \ {0}
  BY <1>2 DEF Node
<1>4. NodesApart(free_list)
  BY DEF IInv, NoOverlap, NodesApart
<1>5. \A b \in blocks : b.addr \in Nat /\ b.layout \in Layouts
  BY <1>1 DEF Block
<1>6. \A b \in blocks : SizeOf(b.layout) \in Nat \ {0} /\ SizeOf(b.layout) >= NodeSize
  BY <1>5, LayoutProperties, HeapAssumption
<1> QED
  BY <1>1, <1>2, <1>3, <1>4, <1>5, <1>6 DEF IInv, NoOverlap, NodesFit

\* The whole effect of a successful alloc: node i makes way for a block that
\* lies in it, and for a node with the rest behind the block.
LEMMA AllocShape ==
    ASSUME IInv, NEW layout \in Layouts, Alloc(layout)
    PROVE  \E i \in DOMAIN free_list, start \in Nat, excess \in Nat :
             LET node == free_list[i]
                 behind == [addr |-> start + SizeOf(layout), size |-> excess]
             IN  /\ blocks' = blocks \cup {[addr |-> start, layout |-> layout]}
                 /\ panicked' = panicked
                 /\ node.addr <= start
                 /\ start + SizeOf(layout) + excess = node.addr + node.size
                 /\ start % layout.align = 0
                 /\ start % NodeAlign = 0
                 /\ start # node.addr =>
                      layout.align > NodeAlign /\ start < node.addr + layout.align
                 /\ excess > 0 => behind.addr % NodeAlign = 0 /\ excess >= NodeSize
                 /\ free_list' \in Seq(Node)
                 /\ NodesApart(free_list')
                 /\ \A k \in DOMAIN free_list' :
                      \/ excess > 0 /\ free_list'[k] = behind
                      \/ \E m \in DOMAIN free_list \ {i} : free_list'[k] = free_list[m]
                 /\ excess > 0 => \E k \in DOMAIN free_list' : free_list'[k] = behind
                 /\ \A m \in DOMAIN free_list \ {i} :
                      \E k \in DOMAIN free_list' : free_list'[k] = free_list[m]
<1>1. PICK i \in DOMAIN free_list :
        LET node == free_list[i]
            start == AlignUp(node.addr, AlignOf(layout))
            excess == (node.addr + node.size) - (start + SizeOf(layout))
            rest == RemoveAt(free_list, i)
        IN  /\ Suitable(node, SizeOf(layout), AlignOf(layout))
            /\ free_list' = IF excess > 0 THEN AddFreeRegion(rest, start + SizeOf(layout), excess)
                                          ELSE rest
            /\ blocks' = blocks \cup {[addr |-> start, layout |-> layout]}
  BY DEF Alloc
<1> DEFINE node == free_list[i]
           start == AlignUp(node.addr, AlignOf(layout))
           excess == (node.addr + node.size) - (start + SizeOf(layout))
           rest == RemoveAt(free_list, i)
           behind == [addr |-> start + SizeOf(layout), size |-> excess]
<1>2. /\ Suitable(node, SizeOf(layout), AlignOf(layout))
      /\ free_list' = IF excess > 0 THEN AddFreeRegion(rest, start + SizeOf(layout), excess)
                                    ELSE rest
      /\ blocks' = blocks \cup {[addr |-> start, layout |-> layout]}
  BY <1>1
<1>3. /\ free_list \in Seq(Node) /\ NodesApart(free_list)
      /\ node \in Node /\ node.addr \in Nat /\ node.size \in Nat \ {0}
      /\ node.addr % NodeAlign = 0
      /\ \A m \in DOMAIN free_list :
           free_list[m].addr \in Nat /\ free_list[m].size \in Nat \ {0}
  BY IInvParts
<1>4. SizeOf(layout) \in Nat
  BY LayoutProperties
<1> HIDE DEF node
<1>5. /\ start \in Nat /\ excess \in Nat
      /\ excess = 0 \/ excess >= NodeSize
      /\ node.addr <= start
      /\ start % NodeAlign = 0
      /\ start % layout.align = 0
      /\ (start + SizeOf(layout)) % NodeAlign = 0
      /\ start # node.addr => layout.align > NodeAlign /\ start < node.addr + layout.align
  BY <1>2, <1>3, SuitableProperties
<1>6. start + SizeOf(layout) + excess = node.addr + node.size
  <2> HIDE DEF start
  <2> QED
    BY <1>3, <1>4, <1>5
<1> HIDE DEF start, excess
<1>7. /\ rest \in Seq(Node)
      /\ NodesApart(rest)
      /\ \A k \in DOMAIN rest : \E m \in DOMAIN free_list \ {i} : rest[k] = free_list[m]
      /\ \A m \in DOMAIN free_list \ {i} : \E k \in DOMAIN rest : rest[k] = free_list[m]
  BY <1>3, UnlinkNode
<1> HIDE DEF rest
<1>8. \A m \in DOMAIN rest :
        excess > 0 => Apart(start + SizeOf(layout), excess, rest[m].addr, rest[m].size)
  <2> TAKE k \in DOMAIN rest
  <2>1. PICK m \in DOMAIN free_list \ {i} : rest[k] = free_list[m]
    BY <1>7
  <2>2. Apart(node.addr, node.size, free_list[m].addr, free_list[m].size)
    BY <1>3 DEF NodesApart, node
  <2>3. PICK a \in Nat, n \in Nat, x \in Nat, y \in Nat :
            /\ a = node.addr /\ n = node.size
            /\ x = free_list[m].addr /\ y = free_list[m].size
    BY <1>3, IInvParts, ElementOfSeq DEF Node
  <2>4. PICK z \in Nat : z = SizeOf(layout) /\ start + z + excess = a + n /\ a <= start
    BY <1>4, <1>5, <1>6, <2>3
  <2>5. a + n <= x \/ x + y <= a
    BY <2>2, <2>3 DEF Apart
  <2>6. start + z + excess <= x \/ x + y <= start + z
    BY <1>5, <2>3, <2>4, <2>5
  <2> QED
    BY <2>1, <2>3, <2>4, <2>6 DEF Apart
<1>9. /\ free_list' \in Seq(Node)
      /\ NodesApart(free_list')
      /\ \A k \in DOMAIN free_list' :
           \/ excess > 0 /\ free_list'[k] = behind
           \/ \E m \in DOMAIN free_list \ {i} : free_list'[k] = free_list[m]
      /\ excess > 0 => \E k \in DOMAIN free_list' : free_list'[k] = behind
      /\ \A m \in DOMAIN free_list \ {i} :
           \E k \in DOMAIN free_list' : free_list'[k] = free_list[m]
  <2>1. CASE excess > 0
    <3>1. PICK a \in Nat, n \in Nat \ {0} : a = start + SizeOf(layout) /\ n = excess
      BY <1>4, <1>5, <2>1
    <3> DEFINE longer == AddFreeRegion(rest, a, n)
               new == [addr |-> a, size |-> n]
    <3>2. \A m \in DOMAIN rest : Apart(a, n, rest[m].addr, rest[m].size)
      BY <1>8, <2>1, <3>1
    <3>3. /\ longer \in Seq(Node)
          /\ NodesApart(longer)
          /\ \A k \in DOMAIN longer : longer[k] = new \/ \E m \in DOMAIN rest : longer[k] = rest[m]
          /\ \E k \in DOMAIN longer : longer[k] = new
          /\ \A m \in DOMAIN rest : \E k \in DOMAIN longer : longer[k] = rest[m]
      <4>1. Pushed(rest, new, longer)
        BY <1>7, <3>2, PushNode
      <4> QED
        BY <4>1 DEF Pushed
    <3>4. free_list' = longer /\ behind = new
      BY <1>2, <2>1, <3>1
    <3> HIDE DEF longer, new
    <3> HIDE DEF behind
    <3> QED
      BY <1>7, <2>1, <3>3, <3>4
  <2>2. CASE ~(excess > 0)
    BY <1>2, <1>7, <2>2
  <2> QED
    BY <2>1, <2>2
<1>10. panicked' = panicked
  BY DEF Alloc
<1>11. /\ excess > 0 => behind.addr % NodeAlign = 0 /\ excess >= NodeSize
  BY <1>5
<1> HIDE DEF behind
<1>12. behind = [addr |-> start + SizeOf(layout), size |-> excess]
  BY DEF behind
<1> QED
  BY <1>2, <1>5, <1>6, <1>9, <1>10, <1>11, <1>12 DEF node

\* A successful alloc preserves the invariant.
LEMMA AllocIInv ==
    ASSUME IInv, NEW layout \in Layouts, Alloc(layout)
    PROVE  IInv'
<1>1. PICK i \in DOMAIN free_list, start \in Nat, excess \in Nat :
        /\ blocks' = blocks \cup {[addr |-> start, layout |-> layout]}
        /\ panicked' = panicked
        /\ free_list[i].addr <= start
        /\ start + SizeOf(layout) + excess = free_list[i].addr + free_list[i].size
        /\ start % layout.align = 0
        /\ start % NodeAlign = 0
        /\ start # free_list[i].addr =>
             layout.align > NodeAlign /\ start < free_list[i].addr + layout.align
        /\ excess > 0 => (start + SizeOf(layout)) % NodeAlign = 0 /\ excess >= NodeSize
        /\ free_list' \in Seq(Node)
        /\ NodesApart(free_list')
        /\ \A k \in DOMAIN free_list' :
             \/ excess > 0 /\ free_list'[k] = [addr |-> start + SizeOf(layout), size |-> excess]
             \/ \E m \in DOMAIN free_list \ {i} : free_list'[k] = free_list[m]
        /\ excess > 0 =>
             \E k \in DOMAIN free_list' :
                 free_list'[k] = [addr |-> start + SizeOf(layout), size |-> excess]
        /\ \A m \in DOMAIN free_list \ {i} :
             \E k \in DOMAIN free_list' : free_list'[k] = free_list[m]
  BY AllocShape
<1>2. PICK n, z :
        /\ n = free_list[i] /\ z = SizeOf(layout)
        /\ n.addr \in Nat /\ n.size \in Nat \ {0}
        /\ HeapStart <= n.addr /\ n.addr + n.size <= HeapStart + HeapSize
        /\ z \in Nat \ {0} /\ z >= NodeSize /\ z >= layout.size
  BY IInvParts, LayoutProperties, HeapAssumption
<1> DEFINE new == [addr |-> start, layout |-> layout]
           behind == [addr |-> start + SizeOf(layout), size |-> excess]
<1>3. /\ n.addr <= start
      /\ start + z + excess = n.addr + n.size
  BY <1>1, <1>2
<1>4. TypeOK'
  BY <1>1 DEF IInv, TypeOK, Block
\* Where a node of the new list comes from.
<1>5. ASSUME NEW k \in DOMAIN free_list'
      PROVE  \/ /\ excess > 0
                /\ free_list'[k].addr = start + z
                /\ free_list'[k].size = excess
             \/ \E m \in DOMAIN free_list \ {i} : free_list'[k] = free_list[m]
  <2>1. behind.addr = start + z /\ behind.size = excess
    BY <1>2
  <2> QED
    BY <1>1, <2>1
\* Whatever was apart from the node is apart from what came out of it.
<1>6. ASSUME NEW addr \in Nat, NEW size \in Nat, Apart(addr, size, n.addr, n.size)
      PROVE  Apart(addr, size, start, z) /\ Apart(addr, size, start + z, excess)
  BY <1>2, <1>3, <1>6 DEF Apart
<1>7. /\ HeapStart <= start /\ start + z <= HeapStart + HeapSize
      /\ HeapStart <= start + z /\ start + z + excess <= HeapStart + HeapSize
      /\ Apart(start, z, start + z, excess)
  BY <1>2, <1>3, HeapAssumption DEF Apart
<1>8. \A b \in blocks :
        /\ b.addr \in Nat /\ SizeOf(b.layout) \in Nat
        /\ HeapStart <= b.addr /\ b.addr + SizeOf(b.layout) <= HeapStart + HeapSize
        /\ \A m \in DOMAIN free_list :
             Apart(b.addr, SizeOf(b.layout), free_list[m].addr, free_list[m].size)
        /\ \A c \in blocks \ {b} : Apart(b.addr, SizeOf(b.layout), c.addr, SizeOf(c.layout))
  BY IInvParts DEF IInv, NoOverlap
<1>9. \A m \in DOMAIN free_list \ {i} :
        /\ free_list[m].addr \in Nat /\ free_list[m].size \in Nat
        /\ HeapStart <= free_list[m].addr
        /\ free_list[m].addr + free_list[m].size <= HeapStart + HeapSize
        /\ Apart(free_list[m].addr, free_list[m].size, n.addr, n.size)
        /\ free_list[m].addr % NodeAlign = 0
        /\ free_list[m].size >= NodeSize
  BY <1>2, IInvParts DEF NodesApart
<1>10. \A b \in blocks : Apart(b.addr, SizeOf(b.layout), start, z)
  BY <1>2, <1>6, <1>8
<1>11. new.addr = start /\ new.layout = layout /\ blocks' = blocks \cup {new}
  BY <1>1
<1> HIDE DEF new, behind
<1>12. NoOverlap'
  <2>1. ASSUME NEW b \in blocks'
        PROVE  /\ HeapStart <= b.addr /\ b.addr + SizeOf(b.layout) <= HeapStart + HeapSize
               /\ \A c \in blocks' \ {b} :
                    Apart(b.addr, SizeOf(b.layout), c.addr, SizeOf(c.layout))
    <3>1. CASE b \in blocks
      BY <1>2, <1>8, <1>10, <1>11, <3>1
    <3>2. CASE b = new
      <4>1. ASSUME NEW c \in blocks' \ {b}
            PROVE  Apart(b.addr, SizeOf(b.layout), c.addr, SizeOf(c.layout))
        <5>1. c \in blocks
          BY <1>11, <3>2, <4>1
        <5> QED
          BY <1>2, <1>8, <1>10, <1>11, <3>2, <5>1 DEF Apart
      <4> QED
        BY <1>2, <1>7, <1>11, <3>2, <4>1
    <3> QED
      BY <1>11, <3>1, <3>2
  <2>2. ASSUME NEW b \in blocks', NEW k \in DOMAIN free_list'
        PROVE  Apart(b.addr, SizeOf(b.layout), free_list'[k].addr, free_list'[k].size)
    <3>1. CASE b \in blocks
      <4>1. CASE \E m \in DOMAIN free_list \ {i} : free_list'[k] = free_list[m]
        BY <1>8, <3>1, <4>1
      <4>2. CASE free_list'[k].addr = start + z /\ free_list'[k].size = excess
        BY <1>2, <1>6, <1>8, <3>1, <4>2
      <4> QED
        BY <1>5, <4>1, <4>2
    <3>2. CASE b = new
      <4>1. CASE \E m \in DOMAIN free_list \ {i} : free_list'[k] = free_list[m]
        <5>1. PICK m \in DOMAIN free_list \ {i} : free_list'[k] = free_list[m]
          BY <4>1
        <5>2. Apart(free_list[m].addr, free_list[m].size, start, z)
          BY <1>6, <1>9
        <5> QED
          BY <1>2, <1>11, <3>2, <5>1, <5>2 DEF Apart
      <4>2. CASE free_list'[k].addr = start + z /\ free_list'[k].size = excess
        BY <1>2, <1>7, <1>11, <3>2, <4>2
      <4> QED
        BY <1>5, <4>1, <4>2
    <3> QED
      BY <1>11, <3>1, <3>2
  <2>3. ASSUME NEW k \in DOMAIN free_list'
        PROVE  /\ HeapStart <= free_list'[k].addr
               /\ free_list'[k].addr + free_list'[k].size <= HeapStart + HeapSize
               /\ \A l \in DOMAIN free_list' \ {k} :
                    Apart(free_list'[k].addr, free_list'[k].size,
                          free_list'[l].addr, free_list'[l].size)
    <3>1. /\ HeapStart <= free_list'[k].addr
          /\ free_list'[k].addr + free_list'[k].size <= HeapStart + HeapSize
      BY <1>5, <1>7, <1>9
    <3> QED
      BY <1>1, <3>1 DEF NodesApart
  <2> QED
    BY <2>1, <2>2, <2>3 DEF NoOverlap
<1>13. NodesFit'
  <2> SUFFICES ASSUME NEW k \in DOMAIN free_list'
               PROVE  free_list'[k].addr % NodeAlign = 0 /\ free_list'[k].size >= NodeSize
    BY DEF NodesFit
  <2>1. excess > 0 => (start + z) % NodeAlign = 0 /\ excess >= NodeSize
    BY <1>1, <1>2
  <2> QED
    BY <1>5, <1>9, <2>1
<1>14. BlocksSuit' /\ BlocksAligned'
  BY <1>1, <1>2, <1>11 DEF IInv, BlocksSuit, BlocksAligned
<1> QED
  BY <1>4, <1>12, <1>13, <1>14 DEF IInv

\* The whole effect of dealloc: the block becomes a node.
LEMMA DeallocShape ==
    ASSUME IInv, NEW b \in blocks, Dealloc(b)
    PROVE  LET new == [addr |-> b.addr, size |-> SizeOf(b.layout)]
           IN  /\ blocks' = blocks \ {b}
               /\ panicked' = panicked
               /\ free_list' \in Seq(Node)
               /\ NodesApart(free_list')
               /\ \A k \in DOMAIN free_list' :
                    free_list'[k] = new \/ \E m \in DOMAIN free_list : free_list'[k] = free_list[m]
               /\ \E k \in DOMAIN free_list' : free_list'[k] = new
               /\ \A m \in DOMAIN free_list :
                    \E k \in DOMAIN free_list' : free_list'[k] = free_list[m]
<1>0. free_list \in Seq(Node) /\ NodesApart(free_list)
  BY IInvParts
<1>1. b.addr \in Nat /\ SizeOf(b.layout) \in Nat \ {0}
  BY IInvParts
<1>2. \A m \in DOMAIN free_list :
        Apart(b.addr, SizeOf(b.layout), free_list[m].addr, free_list[m].size)
  BY DEF IInv, NoOverlap
<1>3. /\ blocks' = blocks \ {b}
      /\ panicked' = panicked
      /\ free_list' = AddFreeRegion(free_list, b.addr, SizeOf(b.layout))
  BY DEF Dealloc
<1>4. PICK a \in Nat, n \in Nat \ {0} : a = b.addr /\ n = SizeOf(b.layout)
  BY <1>1
<1> DEFINE new == [addr |-> a, size |-> n]
           longer == AddFreeRegion(free_list, a, n)
<1>5. \A m \in DOMAIN free_list : Apart(a, n, free_list[m].addr, free_list[m].size)
  BY <1>2, <1>4
<1>6. /\ longer \in Seq(Node)
      /\ NodesApart(longer)
      /\ \A k \in DOMAIN longer :
           longer[k] = new \/ \E m \in DOMAIN free_list : longer[k] = free_list[m]
      /\ \E k \in DOMAIN longer : longer[k] = new
      /\ \A m \in DOMAIN free_list : \E k \in DOMAIN longer : longer[k] = free_list[m]
  <2>1. Pushed(free_list, new, longer)
    BY <1>0, <1>5, PushNode
  <2> QED
    BY <2>1 DEF Pushed
<1>7. free_list' = longer /\ new = [addr |-> b.addr, size |-> SizeOf(b.layout)]
  BY <1>3, <1>4
<1> HIDE DEF new, longer
<1> QED
  BY <1>3, <1>6, <1>7

\* dealloc preserves the invariant.
LEMMA DeallocIInv ==
    ASSUME IInv, NEW b \in blocks, Dealloc(b)
    PROVE  IInv'
<1> DEFINE new == [addr |-> b.addr, size |-> SizeOf(b.layout)]
<1>1. /\ blocks' = blocks \ {b}
      /\ panicked' = panicked
      /\ free_list' \in Seq(Node)
      /\ NodesApart(free_list')
      /\ \A k \in DOMAIN free_list' :
           free_list'[k] = new \/ \E m \in DOMAIN free_list : free_list'[k] = free_list[m]
  BY DeallocShape
<1>2. new.addr = b.addr /\ new.size = SizeOf(b.layout)
  OBVIOUS
<1> HIDE DEF new
<1>3. TypeOK'
  BY <1>1 DEF IInv, TypeOK
<1>4. NoOverlap'
  <2>1. \A c \in blocks' :
          /\ HeapStart <= c.addr /\ c.addr + SizeOf(c.layout) <= HeapStart + HeapSize
          /\ \A d \in blocks' \ {c} :
               Apart(c.addr, SizeOf(c.layout), d.addr, SizeOf(d.layout))
    BY <1>1 DEF IInv, NoOverlap
  <2>2. ASSUME NEW c \in blocks', NEW k \in DOMAIN free_list'
        PROVE  Apart(c.addr, SizeOf(c.layout), free_list'[k].addr, free_list'[k].size)
    BY <1>1, <1>2 DEF IInv, NoOverlap
  <2>3. ASSUME NEW k \in DOMAIN free_list'
        PROVE  /\ HeapStart <= free_list'[k].addr
               /\ free_list'[k].addr + free_list'[k].size <= HeapStart + HeapSize
               /\ \A l \in DOMAIN free_list' \ {k} :
                    Apart(free_list'[k].addr, free_list'[k].size,
                          free_list'[l].addr, free_list'[l].size)
    <3>1. /\ HeapStart <= free_list'[k].addr
          /\ free_list'[k].addr + free_list'[k].size <= HeapStart + HeapSize
      BY <1>1, <1>2 DEF IInv, NoOverlap
    <3> QED
      BY <1>1, <3>1 DEF NodesApart
  <2> QED
    BY <2>1, <2>2, <2>3 DEF NoOverlap
<1>5. NodesFit'
  <2>1. b.addr % NodeAlign = 0 /\ SizeOf(b.layout) >= NodeSize
    BY IInvParts DEF IInv, BlocksAligned
  <2> QED
    BY <1>1, <1>2, <2>1 DEF IInv, NodesFit
<1>6. BlocksSuit' /\ BlocksAligned'
  BY <1>1 DEF IInv, BlocksSuit, BlocksAligned
<1> QED
  BY <1>3, <1>4, <1>5, <1>6 DEF IInv

\* Every step preserves the invariant.
LEMMA NextIInv == IInv /\ [Next]_vars => IInv'
<1> SUFFICES ASSUME IInv, [Next]_vars PROVE IInv'
  OBVIOUS
<1>1. ASSUME NEW layout \in Layouts, Alloc(layout) PROVE IInv'
  BY <1>1, AllocIInv
<1>2. ASSUME NEW b \in blocks, Dealloc(b) PROVE IInv'
  BY <1>2, DeallocIInv
<1>3. ASSUME free_list' = free_list, blocks' = blocks, panicked' \in BOOLEAN PROVE IInv'
  BY <1>3 DEF IInv, TypeOK, NoOverlap, NodesFit, BlocksSuit, BlocksAligned
<1>4. ASSUME NEW layout \in Layouts, AllocPanic(layout) PROVE IInv'
  BY <1>3, <1>4 DEF AllocPanic
<1>5. CASE UNCHANGED vars
  BY <1>3, <1>5 DEF vars, IInv, TypeOK
<1> QED
  BY <1>1, <1>2, <1>4, <1>5 DEF Next

\* The invariant holds after every sequence of allocations and frees.
THEOREM Invariance == Spec => []IInv
BY InitIInv, NextIInv, PTL DEF Spec
-----------------------------------------------------------------------------
\* The heap hands out no byte twice, writes no node into a block, and stays
\* inside its memory, for every heap size and every set of layouts.
THEOREM HeapSound == Spec => []NoOverlap
<1>1. IInv => NoOverlap
  BY DEF IInv
<1> QED
  BY <1>1, Invariance, PTL

\* The assertions of add_free_region never fail.
THEOREM AssertionsHold == Spec => []NodesFit
<1>1. IInv => NodesFit
  BY DEF IInv
<1> QED
  BY <1>1, Invariance, PTL

\* GlobalAlloc's promise: a block has the alignment and the size its layout
\* asks for.
THEOREM BlocksCorrect == Spec => []BlocksSuit
<1>1. IInv => BlocksSuit
  BY DEF IInv
<1> QED
  BY <1>1, Invariance, PTL
-----------------------------------------------------------------------------
\* Byte x lies in a node, or in a block.
InNode(x, node) == x \in Int /\ node.addr <= x /\ x < node.addr + node.size
InBlock(x, b) == x \in Int /\ b.addr <= x /\ x < b.addr + SizeOf(b.layout)

HeldBy(list, held, x) ==
    \/ \E i \in DOMAIN list : InNode(x, list[i])
    \/ \E b \in held : InBlock(x, b)

\* Held, written as a union of intervals, is the set of these bytes.
LEMMA IntervalsHold ==
    ASSUME NEW list, NEW held, NEW x,
           \A i \in DOMAIN list : list[i].addr \in Nat /\ list[i].size \in Nat,
           \A b \in held : b.addr \in Nat /\ SizeOf(b.layout) \in Nat
    PROVE  x \in (UNION {list[i].addr .. list[i].addr + list[i].size - 1 : i \in DOMAIN list})
                 \cup (UNION {b.addr .. b.addr + SizeOf(b.layout) - 1 : b \in held})
             <=> HeldBy(list, held, x)
<1>1. \A i \in DOMAIN list :
        x \in list[i].addr .. list[i].addr + list[i].size - 1 <=> InNode(x, list[i])
  BY DEF InNode
<1>2. \A b \in held : x \in b.addr .. b.addr + SizeOf(b.layout) - 1 <=> InBlock(x, b)
  BY DEF InBlock
<1>3. x \in UNION {list[i].addr .. list[i].addr + list[i].size - 1 : i \in DOMAIN list}
        <=> \E i \in DOMAIN list : InNode(x, list[i])
  BY <1>1
<1>4. x \in UNION {b.addr .. b.addr + SizeOf(b.layout) - 1 : b \in held}
        <=> \E b \in held : InBlock(x, b)
  BY <1>2
<1> QED
  BY <1>3, <1>4 DEF HeldBy

\* The sizes that IntervalsHold asks for.
RangesTyped ==
    /\ \A i \in DOMAIN free_list : free_list[i].addr \in Nat /\ free_list[i].size \in Nat
    /\ \A b \in blocks : b.addr \in Nat /\ SizeOf(b.layout) \in Nat

LEMMA TypedRanges == IInv => RangesTyped
BY IInvParts DEF RangesTyped

LEMMA HeldIs ==
    ASSUME RangesTyped, RangesTyped'
    PROVE  \A x : /\ x \in Held <=> HeldBy(free_list, blocks, x)
                  /\ x \in Held' <=> HeldBy(free_list', blocks', x)
BY IntervalsHold DEF RangesTyped, Held

\* What alloc loses is the padding between the node and the block.
LEMMA AllocLoss ==
    ASSUME IInv, RangesTyped, RangesTyped', NEW layout \in Layouts, Alloc(layout)
    PROVE  /\ Held' \subseteq Held
           /\ Held' # Held =>
                \E b \in blocks' \ blocks :
                    /\ b.layout.align > NodeAlign
                    /\ Held \ Held' \subseteq b.addr - b.layout.align + 1 .. b.addr - 1
<1>1. PICK i \in DOMAIN free_list, start \in Nat, excess \in Nat :
        /\ blocks' = blocks \cup {[addr |-> start, layout |-> layout]}
        /\ panicked' = panicked
        /\ free_list[i].addr <= start
        /\ start + SizeOf(layout) + excess = free_list[i].addr + free_list[i].size
        /\ start % layout.align = 0
        /\ start % NodeAlign = 0
        /\ start # free_list[i].addr =>
             layout.align > NodeAlign /\ start < free_list[i].addr + layout.align
        /\ excess > 0 => (start + SizeOf(layout)) % NodeAlign = 0 /\ excess >= NodeSize
        /\ free_list' \in Seq(Node)
        /\ NodesApart(free_list')
        /\ \A k \in DOMAIN free_list' :
             \/ excess > 0 /\ free_list'[k] = [addr |-> start + SizeOf(layout), size |-> excess]
             \/ \E m \in DOMAIN free_list \ {i} : free_list'[k] = free_list[m]
        /\ excess > 0 =>
             \E k \in DOMAIN free_list' :
                 free_list'[k] = [addr |-> start + SizeOf(layout), size |-> excess]
        /\ \A m \in DOMAIN free_list \ {i} :
             \E k \in DOMAIN free_list' : free_list'[k] = free_list[m]
  BY AllocShape
<1>2. PICK n, z :
        /\ n = free_list[i] /\ z = SizeOf(layout)
        /\ n.addr \in Nat /\ n.size \in Nat \ {0}
        /\ z \in Nat \ {0}
  BY IInvParts, LayoutProperties, HeapAssumption
<1> DEFINE new == [addr |-> start, layout |-> layout]
           behind == [addr |-> start + SizeOf(layout), size |-> excess]
<1>3. /\ n.addr <= start
      /\ start + z + excess = n.addr + n.size
  BY <1>1, <1>2
<1>4. /\ new.addr = start /\ new.layout = layout /\ blocks' = blocks \cup {new}
      /\ behind.addr = start + z /\ behind.size = excess
  BY <1>1, <1>2
<1>5. new \notin blocks
  <2> SUFFICES ASSUME new \in blocks PROVE FALSE
    OBVIOUS
  <2>1. Apart(new.addr, SizeOf(new.layout), n.addr, n.size)
    BY <1>2 DEF IInv, NoOverlap
  <2> HIDE DEF new
  <2> QED
    BY <1>2, <1>3, <1>4, <2>1 DEF Apart
<1>6. \A k \in DOMAIN free_list' :
        \/ excess > 0 /\ free_list'[k] = behind
        \/ \E m \in DOMAIN free_list \ {i} : free_list'[k] = free_list[m]
  BY <1>1
<1>7. excess > 0 => \E k \in DOMAIN free_list' : free_list'[k] = behind
  BY <1>1
<1> HIDE DEF new, behind
\* A byte is still held unless it lies between the node's start and the block's.
<1>8. ASSUME NEW x PROVE x \in Held' => x \in Held
  <2> SUFFICES ASSUME x \in Held' PROVE x \in Held
    OBVIOUS
  <2>1. \/ \E k \in DOMAIN free_list' : InNode(x, free_list'[k])
        \/ \E b \in blocks' : InBlock(x, b)
    BY HeldIs DEF HeldBy
  <2>2. ASSUME NEW k \in DOMAIN free_list', InNode(x, free_list'[k]) PROVE x \in Held
    <3>1. CASE free_list'[k] = behind
      <4>1. InNode(x, free_list[i])
        BY <1>2, <1>3, <1>4, <2>2, <3>1 DEF InNode
      <4> QED
        BY <4>1, HeldIs DEF HeldBy
    <3>2. CASE \E m \in DOMAIN free_list \ {i} : free_list'[k] = free_list[m]
      <4>1. \E m \in DOMAIN free_list : InNode(x, free_list[m])
        BY <2>2, <3>2 DEF InNode
      <4> QED
        BY <4>1, HeldIs DEF HeldBy
    <3> QED
      BY <1>6, <3>1, <3>2
  <2>3. ASSUME NEW b \in blocks', InBlock(x, b) PROVE x \in Held
    <3>1. CASE b \in blocks
      BY <2>3, <3>1, HeldIs DEF HeldBy
    <3>2. CASE b = new
      <4>1. InNode(x, free_list[i])
        BY <1>2, <1>3, <1>4, <2>3, <3>2 DEF InNode, InBlock
      <4> QED
        BY <4>1, HeldIs DEF HeldBy
    <3> QED
      BY <1>4, <3>1, <3>2
  <2> QED
    BY <2>1, <2>2, <2>3
<1>9. ASSUME NEW x \in Held, x \notin Held'
      PROVE  x \in Int /\ n.addr <= x /\ x < start
  <2>1. CASE \E b \in blocks : InBlock(x, b)
    <3>1. \E b \in blocks' : InBlock(x, b)
      BY <1>4, <2>1 DEF InBlock
    <3> QED
      BY <1>9, <3>1, HeldIs DEF HeldBy
  <2>2. CASE \E m \in DOMAIN free_list \ {i} : InNode(x, free_list[m])
    <3>1. PICK m \in DOMAIN free_list \ {i} : InNode(x, free_list[m])
      BY <2>2
    <3>2. PICK k \in DOMAIN free_list' : free_list'[k] = free_list[m]
      BY <1>1
    <3>3. InNode(x, free_list'[k])
      BY <3>1, <3>2 DEF InNode
    <3> QED
      BY <1>9, <3>3, HeldIs DEF HeldBy
  <2>3. CASE InNode(x, free_list[i])
    <3>1. x \in Int /\ n.addr <= x /\ x < n.addr + n.size
      BY <1>2, <2>3 DEF InNode
    <3>2. CASE x < start
      BY <3>1, <3>2
    <3>3. CASE start <= x /\ x < start + z
      <4>1. new \in blocks' /\ InBlock(x, new)
        BY <1>2, <1>4, <3>1, <3>3 DEF InBlock
      <4> QED
        BY <1>9, <4>1, HeldIs DEF HeldBy
    <3>4. CASE start + z <= x
      <4>1. excess > 0
        BY <1>2, <1>3, <3>1, <3>4
      <4>2. PICK k \in DOMAIN free_list' : free_list'[k] = behind
        BY <1>7, <4>1
      <4>3. InNode(x, free_list'[k])
        BY <1>2, <1>3, <1>4, <3>1, <3>4, <4>2 DEF InNode
      <4> QED
        BY <1>9, <4>3, HeldIs DEF HeldBy
    <3> QED
      BY <1>2, <3>1, <3>2, <3>3, <3>4
  <2> QED
    BY <2>1, <2>2, <2>3, HeldIs DEF HeldBy
<1>10. ASSUME Held' # Held
       PROVE  /\ new.layout.align > NodeAlign
              /\ Held \ Held' \subseteq new.addr - new.layout.align + 1 .. new.addr - 1
  <2>1. PICK y \in Held : y \notin Held'
    BY <1>8, <1>10
  <2>2. start # n.addr
    BY <1>2, <1>9, <2>1
  <2>3. layout.align > NodeAlign /\ start < n.addr + layout.align
    BY <1>1, <1>2, <2>2
  <2>4. layout.align \in Nat
    BY LayoutProperties
  <2>5. \A x \in Held \ Held' : x \in start - layout.align + 1 .. start - 1
    BY <1>2, <1>9, <2>3, <2>4
  <2> QED
    BY <1>4, <2>3, <2>5
<1> QED
  BY <1>4, <1>5, <1>8, <1>10

\* dealloc loses nothing.
LEMMA DeallocLoss ==
    ASSUME IInv, RangesTyped, RangesTyped', NEW b \in blocks, Dealloc(b)
    PROVE  Held' = Held
<1> DEFINE new == [addr |-> b.addr, size |-> SizeOf(b.layout)]
<1>1. /\ blocks' = blocks \ {b}
      /\ \A k \in DOMAIN free_list' :
           free_list'[k] = new \/ \E m \in DOMAIN free_list : free_list'[k] = free_list[m]
      /\ \E k \in DOMAIN free_list' : free_list'[k] = new
      /\ \A m \in DOMAIN free_list : \E k \in DOMAIN free_list' : free_list'[k] = free_list[m]
  BY DeallocShape
<1>2. new.addr = b.addr /\ new.size = SizeOf(b.layout)
  OBVIOUS
<1> HIDE DEF new
<1>3. ASSUME NEW x
      PROVE  (\E k \in DOMAIN free_list' : InNode(x, free_list'[k]))
                <=> InBlock(x, b) \/ \E m \in DOMAIN free_list : InNode(x, free_list[m])
  <2>1. ASSUME NEW k \in DOMAIN free_list', InNode(x, free_list'[k])
        PROVE  InBlock(x, b) \/ \E m \in DOMAIN free_list : InNode(x, free_list[m])
    BY <1>1, <1>2, <2>1 DEF InNode, InBlock
  <2>2. ASSUME InBlock(x, b) PROVE \E k \in DOMAIN free_list' : InNode(x, free_list'[k])
    BY <1>1, <1>2, <2>2 DEF InNode, InBlock
  <2>3. ASSUME NEW m \in DOMAIN free_list, InNode(x, free_list[m])
        PROVE  \E k \in DOMAIN free_list' : InNode(x, free_list'[k])
    BY <1>1, <2>3 DEF InNode
  <2> QED
    BY <2>1, <2>2, <2>3
<1>5. ASSUME NEW x PROVE x \in Held' <=> x \in Held
  <2>1. x \in Held' <=> \/ \E i \in DOMAIN free_list' : InNode(x, free_list'[i])
                        \/ \E c \in blocks' : InBlock(x, c)
    BY HeldIs DEF HeldBy
  <2>2. x \in Held <=> \/ \E i \in DOMAIN free_list : InNode(x, free_list[i])
                       \/ \E c \in blocks : InBlock(x, c)
    BY HeldIs DEF HeldBy
  <2> QED
    BY <1>1, <1>3, <2>1, <2>2
<1> QED
  BY <1>5

\* Memory leaves the free list and the blocks only as the padding in front of
\* a block, less than its alignment: for every heap and every set of layouts.
THEOREM OnlyPaddingLost == Spec => LossIsPadding
<1> DEFINE A == /\ Held' \subseteq Held
                /\ Held' # Held =>
                     \E b \in blocks' \ blocks :
                         /\ b.layout.align > NodeAlign
                         /\ Held \ Held' \subseteq b.addr - b.layout.align + 1 .. b.addr - 1
<1>1. IInv /\ RangesTyped /\ RangesTyped' /\ [Next]_vars => [A]_vars
  <2> SUFFICES ASSUME IInv, RangesTyped, RangesTyped', Next PROVE A \/ UNCHANGED vars
    OBVIOUS
  <2>1. ASSUME NEW layout \in Layouts, Alloc(layout) PROVE A
    BY <2>1, AllocLoss
  <2>2. ASSUME NEW layout \in Layouts, AllocPanic(layout) PROVE A
    BY <2>2 DEF AllocPanic, Held
  <2>3. ASSUME NEW b \in blocks, Dealloc(b) PROVE A
    BY <2>3, DeallocLoss
  <2> HIDE DEF A
  <2> QED
    BY <2>1, <2>2, <2>3 DEF Next
<1> QED
  BY <1>1, Invariance, TypedRanges, PTL DEF Spec, LossIsPadding
=============================================================================
