---------------------------- MODULE RegistryProofs ----------------------------
(***************************************************************************)
(* Theorems about List and Registry, for any lists, heap and modules:      *)
(* WellFormed, and that the lists are those of CursorList.                 *)
(*                                                                         *)
(* Neither is inductive.  Inv says what they leave open: where the nodes   *)
(* of each list are (Chains), that what a node holds is a block of its own *)
(* or static (Owned), how far list_sort() has come and what it started     *)
(* with (InSort), and what mybmm_load_module() knows of the list it walks  *)
(* (Loads); without that a module could be added twice.                    *)
(*                                                                         *)
(* The lemmas go from the heap up: what following the pointers gives; what *)
(* each operation makes of the heap; what that is to the callers of the    *)
(* list (Result, Calls); the steps of Registry.                            *)
(***************************************************************************)
EXTENDS Registry, SequenceTheorems, FiniteSetTheorems, WellFoundedInduction, TLAPS

-----------------------------------------------------------------------------
(* Induction over the natural numbers, from the fact that a set of them has *)
(* a least one.                                                             *)

Below == {ss \in Nat \X Nat : ss[1] < ss[2]}

\* Each set of numbers that is not empty has a least element.
LEMMA NatLess == IsWellFoundedOn(Below, Nat)
  BY NatLessThanWellFounded DEF Below, OpToRel

\* The relation is that of the numbers.
LEMMA BelowIsLess == \A a, b \in Nat : <<a, b>> \in Below <=> a < b
  <1> TAKE a, b \in Nat
  <1>1. <<a, b>> \in Nat \X Nat /\ <<a, b>>[1] = a /\ <<a, b>>[2] = b
    OBVIOUS
  <1> QED BY <1>1 DEF Below

\* A set that has 0, and with a number the next, has all.
LEMMA SetInduction ==
    ASSUME NEW S, 0 \in S, \A n \in Nat : n \in S => n + 1 \in S
    PROVE  Nat \subseteq S
  <1> SUFFICES ASSUME NEW x \in Nat, x \notin S PROVE FALSE
    OBVIOUS
  <1> DEFINE T == Nat \ S
  <1>1. PICK m \in T : \A y \in T : ~(<<y, m>> \in Below)
    <2>1. T \subseteq Nat /\ T # {}
      OBVIOUS
    <2> HIDE DEF T
    <2> QED BY NatLess, WFMin, <2>1
  <1>2. m \in Nat /\ m # 0
    BY <1>1
  <1>3. m - 1 \in Nat /\ (m - 1) + 1 = m
    BY <1>2
  <1>4. m - 1 \in S
    <2>1. <<m - 1, m>> \in Below
      BY <1>2, <1>3, BelowIsLess
    <2> QED BY <1>1, <1>3, <2>1
  <1> QED BY <1>1, <1>3, <1>4

-----------------------------------------------------------------------------
(* Walking along a list. *)

\* The nodes of w follow each other, and nothing follows the last.
Leads(m, w) == \A k \in 1..Len(w) : m.node[w[k]].next = IF k = Len(w) THEN 0 ELSE w[k + 1]

Once(w) == \A j, k \in 1..Len(w) : w[j] = w[k] => j = k

\* A list has no more nodes than the heap.
LEMMA ChainFits ==
    ASSUME NEW w \in Seq(Node), Once(w)
    PROVE  Len(w) <= N
  <1>1. Len(w) \in Nat /\ w \in [1..Len(w) -> Node] /\ DOMAIN w = 1..Len(w)
    BY LenProperties
  <1>2. w \in Injection(1..Len(w), Node)
    BY <1>1 DEF Injection, IsInjective, Once
  <1>3. /\ IsFiniteSet(Node) /\ Cardinality(Node) = N
        /\ Cardinality(1..Len(w)) = Len(w)
    <2>1. \A a \in Nat : IsFiniteSet(1..a) /\ Cardinality(1..a) = a
      <3> TAKE a \in Nat
      <3>1. IsFiniteSet(1..a) /\ Cardinality(1..a) = IF 1 > a THEN 0 ELSE a - 1 + 1
        BY FS_Interval
      <3> QED BY <3>1
    <2> QED BY <1>1, <2>1, HeapAssumption DEF Node
  <1>4. Cardinality(1..Len(w)) <= Cardinality(Node)
    BY <1>2, <1>3, FS_Injection
  <1> QED BY <1>3, <1>4

\* Following the pointers gives the nodes in their order.
LEMMA FollowIs ==
    ASSUME NEW m, NEW w \in Seq(Node), Once(w), Leads(m, w),
           NEW n, n = IF w = <<>> THEN 0 ELSE w[1]
    PROVE  Follow(m, n) = w
  <1> DEFINE Step(f) == [k \in Node |-> IF k = 1 THEN n
                                        ELSE LET p == f[k - 1]
                                             IN IF p = 0 THEN 0 ELSE m.node[p].next]
             at == CHOOSE f : f = Step(f)
             g  == [k \in Node |-> IF k <= Len(w) THEN w[k] ELSE 0]
  <1>1. /\ Len(w) \in Nat /\ Len(w) <= N /\ N \in Nat
        /\ w = [k \in 1..Len(w) |-> w[k]]
        /\ \A k \in 1..Len(w) : w[k] \in Node
    BY LenProperties, ElementOfSeq, ChainFits, HeapAssumption
  <1>2. w = <<>> <=> Len(w) = 0
    BY EmptySeq
  <1>3. \A k \in Node : g[k] = IF k = 1 THEN n
                               ELSE IF g[k - 1] = 0 THEN 0 ELSE m.node[g[k - 1]].next
    <2> TAKE k \in Node
    <2>1. k \in Nat /\ 1 <= k /\ k <= N
      BY <1>1 DEF Node
    <2>2. CASE k = 1
      BY <1>1, <1>2, <2>1, <2>2
    <2>3. CASE k # 1 /\ k <= Len(w)
      <3>1. k - 1 \in 1..Len(w) /\ k - 1 \in Node /\ k - 1 # Len(w) /\ (k - 1) + 1 = k
        BY <1>1, <2>1, <2>3 DEF Node
      <3>2. g[k - 1] = w[k - 1] /\ w[k - 1] # 0
        BY <1>1, <3>1 DEF Node
      <3> QED BY <2>3, <3>1, <3>2 DEF Leads
    <2>4. CASE k # 1 /\ k = Len(w) + 1
      <3>1. k - 1 = Len(w) /\ k - 1 \in Node /\ k - 1 \in 1..Len(w) /\ ~(k <= Len(w))
        BY <1>1, <2>1, <2>4 DEF Node
      <3>2. g[k - 1] = w[k - 1] /\ g[k] = 0
        BY <3>1
      <3> QED BY <2>4, <3>1, <3>2 DEF Leads
    <2>5. CASE k > Len(w) + 1
      <3>1. k # 1 /\ k - 1 \in Node /\ ~(k - 1 <= Len(w)) /\ ~(k <= Len(w))
        BY <1>1, <2>1, <2>5 DEF Node
      <3> QED BY <3>1
    <2> QED BY <1>1, <2>1, <2>2, <2>3, <2>4, <2>5
  <1>4. at = Step(at)
    <2>1. g = Step(g)
      <3> DEFINE val(k) == IF k <= Len(w) THEN w[k] ELSE 0
      <3> HIDE DEF g
      <3>1. g = [k \in Node |-> g[k]]
        BY DEF g
      <3> QED BY <1>3, <3>1
    <2> HIDE DEF Step, g
    <2> QED BY <2>1
  <1>5. Follow(m, n) = [k \in {j \in Node : at[j] # 0} |-> at[k]]
    BY DEF Follow
  <1> HIDE DEF at
  <1>6. \A k \in Node : at[k] = IF k = 1 THEN n
                                ELSE IF at[k - 1] = 0 THEN 0 ELSE m.node[at[k - 1]].next
    <2> TAKE k \in Node
    <2>1. at[k] = Step(at)[k]
      <3> HIDE DEF Step
      <3> QED BY <1>4
    <2> QED BY <2>1
  <1> HIDE DEF g, Step
  <1> DEFINE Same == {k \in Nat : k \in Node => at[k] = g[k]}
  <1>7. 0 \in Same
    BY DEF Node
  <1>8. ASSUME NEW k \in Nat, k \in Same PROVE k + 1 \in Same
    <2> SUFFICES ASSUME k + 1 \in Node PROVE at[k + 1] = g[k + 1]
      OBVIOUS
    <2>1. (k + 1) - 1 = k /\ (k + 1 # 1 => k \in Node)
      BY <1>1 DEF Node
    <2>2. CASE k + 1 = 1
      BY <1>3, <1>6, <2>2
    <2>3. CASE k + 1 # 1
      <3>1. at[k] = g[k]
        BY <1>8, <2>1, <2>3
      <3> QED BY <1>3, <1>6, <2>1, <2>3, <3>1
    <2> QED BY <2>2, <2>3
  <1>9. \A k \in Node : at[k] = g[k]
    <2>1. Nat \subseteq Same
      <3> HIDE DEF Same
      <3> QED BY <1>7, <1>8, SetInduction
    <2> QED BY <1>1, <2>1 DEF Node
  <1>10. {j \in Node : at[j] # 0} = 1..Len(w)
    <2>1. \A j \in Node : g[j] # 0 <=> j <= Len(w)
      BY <1>1 DEF g, Node
    <2> QED BY <1>1, <1>9, <2>1 DEF Node
  <1>11. \A k \in 1..Len(w) : at[k] = w[k]
    BY <1>1, <1>9 DEF g, Node
  <1> QED BY <1>1, <1>5, <1>10, <1>11

-----------------------------------------------------------------------------
(* The heap and the chains in it. *)

Pointer == {0} \cup Node
Header  == [first : Pointer, last : Pointer, next : Pointer]
Heap    == [node  : [Node -> [item : Pointer \cup Static, size : {0, 1},
                              prev : Pointer, next : Pointer]],
            block : [Node -> {0} \cup Val],
            head  : [Lists -> {Gone} \cup Header]]

\* The nodes of list l are those of w, in both directions.
Backs(m, w)  == \A k \in 1..Len(w) : m.node[w[k]].prev = IF k = 1 THEN 0 ELSE w[k - 1]
Ends(h, w)   == /\ h.first = IF w = <<>> THEN 0 ELSE w[1]
                /\ h.last  = IF w = <<>> THEN 0 ELSE w[Len(w)]
CursorIn(h, w) == h.next = 0 \/ \E k \in 1..Len(w) : w[k] = h.next
Chain(m, l, w) == Leads(m, w) /\ Backs(m, w) /\ Ends(m.head[l], w) /\ CursorIn(m.head[l], w)

Apart(c) == \A l, h \in Lists : \A j \in 1..Len(c[l]), k \in 1..Len(c[h]) :
               c[l][j] = c[h][k] => l = h /\ j = k

In(n, w) == \E k \in 1..Len(w) : w[k] = n

\* c[l] are the nodes of list l; no node is in two places, and none is lost.
Chains(m, c) == /\ c \in [Lists -> Seq(Node)] /\ Apart(c)
                /\ \A l \in Lists : IF m.head[l] = Gone THEN c[l] = <<>> ELSE Chain(m, l, c[l])
                /\ \A n \in Node : m.node[n] # Free <=> \E l \in Lists : In(n, c[l])

\* A list that is not there has no header.
LEMMA Headers ==
    ASSUME NEW m \in Heap, NEW l \in Lists
    PROVE  /\ l \in Live(m) <=> m.head[l] # Gone
           /\ l \in Live(m) <=> m.head[l] \in Header
           /\ Gone \notin Header
  <1>1. -1 \notin Pointer
    BY HeapAssumption DEF Pointer, Node
  <1>2. Gone.first = -1
    BY DEF Gone
  <1>3. Gone \notin Header
    <2> SUFFICES ASSUME Gone \in Header PROVE FALSE
      OBVIOUS
    <2>1. Gone.first \in Pointer
      BY DEF Header
    <2> QED BY <1>1, <1>2, <2>1
  <1>4. m.head \in [Lists -> {Gone} \cup Header]
    BY DEF Heap
  <1> QED BY <1>3, <1>4 DEF Live

\* What walking gives are the nodes of the list.
LEMMA WalkIs ==
    ASSUME NEW m \in Heap, NEW c, Chains(m, c), NEW l \in Lists
    PROVE  Walk(m, l) = c[l]
  <1>1. CASE l \notin Live(m)
    BY <1>1, Headers DEF Walk, Chains
  <1>2. CASE l \in Live(m)
    <2>1. c[l] \in Seq(Node) /\ Chain(m, l, c[l]) /\ Once(c[l])
      BY <1>2, Headers DEF Chains, Apart, Once
    <2>2. Follow(m, m.head[l].first) = c[l]
      BY <2>1, FollowIs DEF Chain, Ends
    <2> QED BY <1>2, <2>2 DEF Walk
  <1> QED BY <1>1, <1>2

\* r are the nodes of w behind place p.
Behind(r, w, p) == /\ r \in Seq(Node) /\ Len(r) = Len(w) - p
                   /\ \A k \in 1..(Len(w) - p) : r[k] = w[p + k]

\* Following the pointers from place p on gives those behind it.
LEMMA RestIs ==
    ASSUME NEW m \in Heap, NEW c, Chains(m, c), NEW l \in Live(m), NEW p \in 1..Len(c[l])
    PROVE  Behind(Follow(m, m.node[c[l][p]].next), c[l], p)
  <1> DEFINE w == c[l]
             r == SubSeq(w, p + 1, Len(w))
             n == m.node[w[p]].next
  <1>1. l \in Lists /\ w \in Seq(Node) /\ Once(w) /\ Leads(m, w)
    BY Headers DEF Live, Chains, Apart, Once, Chain
  <1>2. Len(w) \in Nat /\ p \in Nat /\ p >= 1 /\ p <= Len(w)
    BY <1>1, LenProperties
  <1> HIDE DEF w
  <1>3. /\ r \in Seq(Node) /\ Len(r) = Len(w) - p
        /\ \A k \in 1..(Len(w) - p) : r[k] = w[p + k]
    BY <1>1, <1>2, SubSeqProperties
  <1> HIDE DEF r
  <1>4. Once(r)
    <2> SUFFICES ASSUME NEW j \in 1..Len(r), NEW k \in 1..Len(r), r[j] = r[k] PROVE j = k
      BY DEF Once
    <2>1. p + j \in 1..Len(w) /\ p + k \in 1..Len(w) /\ w[p + j] = w[p + k]
      BY <1>2, <1>3
    <2>2. p + j = p + k
      BY <1>1, <2>1 DEF Once
    <2> QED BY <1>2, <2>2
  <1>5. Leads(m, r)
    <2> SUFFICES ASSUME NEW k \in 1..Len(r)
                 PROVE  m.node[r[k]].next = IF k = Len(r) THEN 0 ELSE r[k + 1]
      BY DEF Leads
    <2>1. p + k \in 1..Len(w) /\ r[k] = w[p + k]
      BY <1>2, <1>3
    <2>2. m.node[r[k]].next = IF p + k = Len(w) THEN 0 ELSE w[(p + k) + 1]
      BY <1>1, <2>1 DEF Leads
    <2>3. CASE k = Len(r)
      BY <1>2, <1>3, <2>2, <2>3
    <2>4. CASE k # Len(r)
      <3>1. k \in Nat /\ 1 <= k /\ k < Len(w) - p
        BY <1>2, <1>3, <2>4
      <3>2. k + 1 \in 1..(Len(w) - p) /\ p + (k + 1) = (p + k) + 1 /\ p + k # Len(w)
        BY <1>2, <3>1
      <3>3. r[k + 1] = w[(p + k) + 1]
        BY <1>3, <3>2
      <3> QED BY <2>2, <2>4, <3>2, <3>3
    <2> QED BY <2>3, <2>4
  <1>6. n = IF r = <<>> THEN 0 ELSE r[1]
    <2>1. n = IF p = Len(w) THEN 0 ELSE w[p + 1]
      BY <1>1, <1>2 DEF Leads
    <2>2. r = <<>> <=> Len(r) = 0
      BY <1>3, EmptySeq
    <2>3. p # Len(w) => r[1] = w[p + 1]
      BY <1>2, <1>3
    <2> QED BY <1>2, <1>3, <2>1, <2>2, <2>3
  <1> HIDE DEF n
  <1>7. Follow(m, n) = r
    BY <1>3, <1>4, <1>5, <1>6, FollowIs
  <1> QED BY <1>3, <1>7 DEF n, w, Behind

-----------------------------------------------------------------------------
(* list_add(). *)

\* malloc() gives one of what there is.
LEMMA AnyOf == \A S : S # {} => malloc(S) \in S
  BY DEF malloc

\* The last node of a list is one that is used.
LEMMA LastUsed ==
    ASSUME NEW m \in Heap, NEW c, Chains(m, c), NEW l \in Live(m), c[l] # <<>>
    PROVE  /\ Len(c[l]) \in 1..Len(c[l]) /\ 1 \in 1..Len(c[l])
           /\ c[l][Len(c[l])] \in Node /\ c[l][1] \in Node
           /\ m.head[l].first = c[l][1] /\ m.head[l].last = c[l][Len(c[l])]
           /\ m.node[c[l][Len(c[l])]] # Free
  <1>1. l \in Lists /\ c[l] \in Seq(Node) /\ Ends(m.head[l], c[l])
    BY Headers DEF Live, Chains, Chain
  <1>2. Len(c[l]) \in Nat \ {0}
    BY <1>1, EmptySeq
  <1>3. c[l][Len(c[l])] \in Node /\ c[l][1] \in Node
    BY <1>1, <1>2, ElementOfSeq
  <1>4. In(c[l][Len(c[l])], c[l])
    BY <1>2 DEF In
  <1> QED BY <1>1, <1>2, <1>3, <1>4 DEF Ends, Chains

\* list_add() links the new node behind the last one and touches nothing else.
LEMMA LinkedIs ==
    ASSUME NEW m \in Heap, NEW c, Chains(m, c), NEW l \in Live(m), FreeNodes(m) # {},
           NEW item \in Pointer \cup Static, NEW size \in {0, 1},
           NEW n, n = malloc(FreeNodes(m)), NEW m2, m2 = Linked(m, l, item, size),
           NEW w, w = c[l]
    PROVE  /\ n \in Node /\ m.node[n] = Free /\ m2 \in Heap /\ m2.block = m.block
           /\ m2.node[n] = [item |-> item, size |-> size,
                            prev |-> IF w = <<>> THEN 0 ELSE w[Len(w)], next |-> 0]
           /\ w # <<>> => m2.node[w[Len(w)]] = [m.node[w[Len(w)]] EXCEPT !.next = n]
           /\ \A x \in Node : x # n /\ (w # <<>> => x # w[Len(w)]) => m2.node[x] = m.node[x]
           /\ m2.head[l] = [first |-> IF w = <<>> THEN n ELSE w[1], last |-> n,
                            next |-> IF w = <<>> THEN n ELSE m.head[l].next]
           /\ \A h \in Lists : h # l => m2.head[h] = m.head[h]
  <1>1. n \in Node /\ m.node[n] = Free
    BY AnyOf DEF FreeNodes
  <1>2. l \in Lists /\ m.head[l] \in Header /\ c[l] \in Seq(Node)
    BY Headers DEF Live, Chains
  <1>3. /\ m.node \in [Node -> [item : Pointer \cup Static, size : {0, 1},
                                prev : Pointer, next : Pointer]]
        /\ m.block \in [Node -> {0} \cup Val] /\ m.head \in [Lists -> {Gone} \cup Header]
    BY DEF Heap
  <1>4. 0 \in Pointer /\ n \in Pointer
    BY <1>1 DEF Pointer
  <1>5. CASE w = <<>>
    <2>1. m.head[l].first = 0
      BY <1>2, <1>5, Headers DEF Chains, Chain, Ends
    <2>2. m2 = [m EXCEPT !.node[n] = [item |-> item, size |-> size, prev |-> 0, next |-> 0],
                         !.head[l] = [first |-> n, last |-> n, next |-> n]]
      BY <2>1 DEF Linked
    <2>3. /\ m2.node = [m.node EXCEPT ![n] = [item |-> item, size |-> size, prev |-> 0, next |-> 0]]
          /\ m2.head = [m.head EXCEPT ![l] = [first |-> n, last |-> n, next |-> n]]
          /\ m2.block = m.block
          /\ m2 = [node |-> m2.node, block |-> m2.block, head |-> m2.head]
      BY <2>2 DEF Heap
    <2>4. m2 \in Heap
      <3>1. m2.node \in [Node -> [item : Pointer \cup Static, size : {0, 1},
                                  prev : Pointer, next : Pointer]]
        BY <1>1, <1>3, <1>4, <2>3
      <3>2. m2.head \in [Lists -> {Gone} \cup Header]
        BY <1>2, <1>3, <1>4, <2>3 DEF Header
      <3> QED BY <1>3, <2>3, <3>1, <3>2 DEF Heap
    <2> QED BY <1>1, <1>2, <1>3, <1>5, <2>3, <2>4
  <1>6. CASE w # <<>>
    <2> DEFINE z == w[Len(w)]
               h == m.head[l]
    <2>1. h.first = w[1] /\ h.last = z /\ w[1] \in Node /\ z \in Node /\ m.node[z] # Free
      BY <1>6, LastUsed
    <2>2. h.first # 0 /\ z # n
      BY <1>1, <2>1, HeapAssumption DEF Node
    <2>3. m2 = [m EXCEPT !.node = [@ EXCEPT ![n] = [item |-> item, size |-> size,
                                                    prev |-> z, next |-> 0],
                                            ![z].next = n],
                         !.head[l].last = n]
      BY <2>1, <2>2 DEF Linked
    <2> HIDE DEF z
    <2>4. /\ m2.node = [m.node EXCEPT ![n] = [item |-> item, size |-> size,
                                              prev |-> z, next |-> 0],
                                      ![z].next = n]
          /\ m2.head = [m.head EXCEPT ![l].last = n]
          /\ m2.block = m.block
          /\ m2 = [node |-> m2.node, block |-> m2.block, head |-> m2.head]
      BY <2>3 DEF Heap
    <2>5. /\ m2.node[n] = [item |-> item, size |-> size, prev |-> z, next |-> 0]
          /\ m2.node[z] = [m.node[z] EXCEPT !.next = n]
          /\ \A x \in Node \ {n, z} : m2.node[x] = m.node[x]
          /\ m2.node \in [Node -> [item : Pointer \cup Static, size : {0, 1},
                                   prev : Pointer, next : Pointer]]
      <3>1. z \in Pointer
        BY <2>1 DEF Pointer
      <3> QED BY <1>1, <1>3, <1>4, <2>1, <2>2, <2>4, <3>1
    <2>6. /\ m2.head[l] = [first |-> h.first, last |-> n, next |-> h.next]
          /\ \A x \in Lists \ {l} : m2.head[x] = m.head[x]
          /\ m2.head \in [Lists -> {Gone} \cup Header]
      BY <1>2, <1>3, <1>4, <2>4 DEF Header
    <2>7. m2 \in Heap
      BY <1>3, <2>4, <2>5, <2>6 DEF Heap
    <2> QED BY <1>1, <1>6, <2>1, <2>4, <2>5, <2>6, <2>7 DEF z
  <1> QED BY <1>5, <1>6

\* A list whose header and pointers stay is the same list.
LEMMA ChainKept ==
    ASSUME NEW m, NEW m2, NEW l, NEW w, Chain(m, l, w), m2.head[l] = m.head[l],
           \A k \in 1..Len(w) : /\ m2.node[w[k]].prev = m.node[w[k]].prev
                                /\ m2.node[w[k]].next = m.node[w[k]].next
    PROVE  Chain(m2, l, w)
  <1>1. Leads(m2, w) /\ Backs(m2, w)
    BY DEF Chain, Leads, Backs
  <1> QED BY <1>1 DEF Chain

\* What a list that is one longer has at each place.
LEMMA Appended ==
    ASSUME NEW w \in Seq(Node), NEW n \in Node
    PROVE  /\ Append(w, n) \in Seq(Node) /\ Append(w, n) # <<>>
           /\ Len(Append(w, n)) = Len(w) + 1 /\ Len(w) \in Nat
           /\ \A k \in 1..Len(w) : Append(w, n)[k] = w[k]
           /\ Append(w, n)[Len(w) + 1] = n
           /\ 1..(Len(w) + 1) = (1..Len(w)) \cup {Len(w) + 1}
           /\ \A x : In(x, Append(w, n)) <=> x = n \/ In(x, w)
  <1>1. /\ Append(w, n) \in Seq(Node) /\ Append(w, n) # <<>>
        /\ Len(Append(w, n)) = Len(w) + 1 /\ Len(w) \in Nat
        /\ \A k \in 1..Len(w) : Append(w, n)[k] = w[k]
        /\ Append(w, n)[Len(w) + 1] = n
    BY AppendProperties, LenProperties
  <1>2. 1..(Len(w) + 1) = (1..Len(w)) \cup {Len(w) + 1} /\ Len(w) + 1 \in 1..(Len(w) + 1)
    BY <1>1
  <1>3. \A x : In(x, Append(w, n)) <=> x = n \/ In(x, w)
    BY <1>1, <1>2 DEF In
  <1> QED BY <1>1, <1>2, <1>3

\* A node that is free can be put at the end of a list.
LEMMA ApartAppended ==
    ASSUME NEW c \in [Lists -> Seq(Node)], Apart(c), NEW l \in Lists, NEW n \in Node,
           \A h \in Lists : ~In(n, c[h]), NEW c2, c2 = [c EXCEPT ![l] = Append(c[l], n)]
    PROVE  Apart(c2)
  <1>1. /\ c2[l] = Append(c[l], n) /\ \A h \in Lists : h # l => c2[h] = c[h]
        /\ c[l] \in Seq(Node)
    OBVIOUS
  <1>2. /\ \A h \in Lists \ {l} : 1..Len(c2[h]) = 1..Len(c[h])
        /\ 1..Len(c2[l]) = (1..Len(c[l])) \cup {Len(c[l]) + 1}
        /\ \A k \in 1..Len(c[l]) : c2[l][k] = c[l][k]
        /\ c2[l][Len(c[l]) + 1] = n
    BY <1>1, Appended
  <1>3. \A h \in Lists : \A k \in 1..Len(c2[h]) :
           \/ k \in 1..Len(c[h]) /\ c2[h][k] = c[h][k]
           \/ h = l /\ k = Len(c[l]) + 1 /\ c2[h][k] = n
    BY <1>1, <1>2
  <1> SUFFICES ASSUME NEW h \in Lists, NEW i \in Lists, NEW j \in 1..Len(c2[h]), NEW k \in 1..Len(c2[i]),
                      c2[h][j] = c2[i][k]
               PROVE  h = i /\ j = k
    BY DEF Apart
  <1> QED BY <1>3 DEF Apart, In

\* m2 is m with node n at the end of list l.
Links(m, c, l, item, size, n, m2) ==
    /\ m2 \in Heap /\ Chains(m2, [c EXCEPT ![l] = Append(c[l], n)])
    /\ n \in FreeNodes(m) /\ FreeNodes(m2) = FreeNodes(m) \ {n}
    /\ m2.block = m.block /\ Live(m2) = Live(m)
    /\ m2.node[n].item = item /\ m2.node[n].size = size
    /\ \A x \in Node : x # n => /\ m2.node[x].item = m.node[x].item
                                /\ m2.node[x].size = m.node[x].size
    /\ \A h \in Lists : h # l => m2.head[h].next = m.head[h].next
    /\ m2.head[l].next = IF c[l] = <<>> THEN n ELSE m.head[l].next

\* So list_add() makes the list one longer, and leaves the others alone.
LEMMA LinkedChains ==
    ASSUME NEW m \in Heap, NEW c, Chains(m, c), NEW l \in Live(m), FreeNodes(m) # {},
           NEW item \in Node \cup Static, NEW size \in {0, 1},
           NEW n, n = malloc(FreeNodes(m)), NEW m2, m2 = Linked(m, l, item, size)
    PROVE  Links(m, c, l, item, size, n, m2)
  <1> DEFINE w == c[l]
             c2 == [c EXCEPT ![l] = Append(c[l], n)]
  <1>1. l \in Lists /\ w \in Seq(Node) /\ Chain(m, l, w) /\ c \in [Lists -> Seq(Node)] /\ Apart(c)
        /\ item \in Pointer \cup Static /\ item # 0
    BY Headers, HeapAssumption DEF Live, Chains, Pointer, Node
  <1>2. /\ n \in Node /\ m.node[n] = Free /\ m2 \in Heap /\ m2.block = m.block
        /\ m2.node[n] = [item |-> item, size |-> size,
                         prev |-> IF w = <<>> THEN 0 ELSE w[Len(w)], next |-> 0]
        /\ w # <<>> => m2.node[w[Len(w)]] = [m.node[w[Len(w)]] EXCEPT !.next = n]
        /\ \A x \in Node : x # n /\ (w # <<>> => x # w[Len(w)]) => m2.node[x] = m.node[x]
        /\ m2.head[l] = [first |-> IF w = <<>> THEN n ELSE w[1], last |-> n,
                         next |-> IF w = <<>> THEN n ELSE m.head[l].next]
        /\ \A h \in Lists : h # l => m2.head[h] = m.head[h]
    <2>1. item \in Pointer \cup Static
      BY <1>1
    <2> QED BY ONLY m \in Heap, Chains(m, c), l \in Live(m), FreeNodes(m) # {}, size \in {0, 1},
                    n = malloc(FreeNodes(m)), m2 = Linked(m, l, item, size), <2>1, LinkedIs
  <1>3. w # <<>> => /\ Len(w) \in 1..Len(w) /\ 1 \in 1..Len(w)
                    /\ w[Len(w)] \in Node /\ w[1] \in Node /\ m.node[w[Len(w)]] # Free
    BY LastUsed
  <1>4. /\ c2[l] = Append(w, n) /\ \A h \in Lists : h # l => c2[h] = c[h]
        /\ c2 \in [Lists -> Seq(Node)]
    BY <1>1, <1>2, Appended
  <1> HIDE DEF c2
  <1>5. \A x \in Node : x # n => /\ m2.node[x].item = m.node[x].item
                                 /\ m2.node[x].size = m.node[x].size
                                 /\ m2.node[x].prev = m.node[x].prev
    <2> TAKE x \in Node
    <2>1. m.node[x] \in [item : Pointer \cup Static, size : {0, 1}, prev : Pointer, next : Pointer]
      BY DEF Heap
    <2>2. CASE w # <<>> /\ x = w[Len(w)]
      <3>1. m2.node[x] = [m.node[x] EXCEPT !.next = n]
        BY <1>2, <2>2
      <3> QED BY <2>1, <3>1
    <2>3. CASE w = <<>> \/ x # w[Len(w)]
      BY <1>2, <2>3
    <2> QED BY <2>2, <2>3
  <1>6. \A h \in Lists : ~In(n, c[h])
    BY <1>2 DEF Chains
  <1>7. Apart(c2)
    BY <1>1, <1>2, <1>6, ApartAppended DEF c2
  <1>8. ASSUME NEW h \in Lists, h # l, m2.head[h] # Gone PROVE Chain(m2, h, c2[h])
    <2>1. Chain(m, h, c[h]) /\ c[h] \in Seq(Node)
      BY <1>1, <1>2, <1>8 DEF Chains
    <2>2. ASSUME NEW k \in 1..Len(c[h])
          PROVE  m2.node[c[h][k]] = m.node[c[h][k]]
      <3>1. c[h][k] \in Node /\ c[h][k] # n
        BY <1>6, <2>1, ElementOfSeq DEF In
      <3>2. w # <<>> => c[h][k] # w[Len(w)]
        BY <1>1, <1>3, <1>8 DEF Apart
      <3> QED BY <1>2, <3>1, <3>2
    <2>3. m2.head[h] = m.head[h] /\ c2[h] = c[h]
      BY <1>2, <1>4, <1>8
    <2>4. Chain(m2, h, c[h])
      BY <2>1, <2>2, <2>3, ChainKept
    <2> QED BY <2>3, <2>4
  <1>9. Chain(m2, l, c2[l])
    <2> DEFINE v == c2[l]
    <2>1. /\ v # <<>> /\ Len(v) = Len(w) + 1 /\ Len(w) \in Nat
          /\ \A k \in 1..Len(w) : v[k] = w[k]
          /\ v[Len(w) + 1] = n
          /\ 1..(Len(w) + 1) = (1..Len(w)) \cup {Len(w) + 1}
          /\ \A x : In(x, v) <=> x = n \/ In(x, w)
      BY <1>1, <1>2, <1>4, Appended
    <2>2. w = <<>> <=> Len(w) = 0
      BY <1>1, EmptySeq
    <2> HIDE DEF v
    <2>3. \A k \in 1..Len(w) : w[k] \in Node /\ w[k] # n
      BY <1>1, <1>6, ElementOfSeq DEF In
    <2>4. Leads(m2, v)
      <3> SUFFICES ASSUME NEW k \in 1..Len(v)
                   PROVE  m2.node[v[k]].next = IF k = Len(v) THEN 0 ELSE v[k + 1]
        BY DEF Leads
      <3>1. CASE k = Len(w) + 1
        BY <1>2, <2>1, <3>1
      <3>2. CASE k \in 1..Len(w) /\ k = Len(w)
        <4>1. m.node[w[k]] \in [item : Pointer \cup Static, size : {0, 1}, prev : Pointer, next : Pointer]
          BY <2>3, <3>2 DEF Heap
        <4>2. m2.node[w[k]].next = n
          BY <1>2, <2>1, <2>2, <3>2, <4>1
        <4> QED BY <2>1, <3>2, <4>2
      <3>3. CASE k \in 1..Len(w) /\ k # Len(w)
        <4>1. w[k] # w[Len(w)] /\ Len(w) \in 1..Len(w) /\ k + 1 \in 1..Len(w)
          BY <1>1, <2>1, <3>3 DEF Apart
        <4>2. m2.node[w[k]] = m.node[w[k]]
          BY <1>2, <2>3, <3>3, <4>1
        <4>3. m.node[w[k]].next = w[k + 1]
          BY <1>1, <3>3 DEF Chain, Leads
        <4> QED BY <2>1, <3>3, <4>1, <4>2, <4>3
      <3> QED BY <2>1, <3>1, <3>2, <3>3
    <2>5. Backs(m2, v)
      <3> SUFFICES ASSUME NEW k \in 1..Len(v)
                   PROVE  m2.node[v[k]].prev = IF k = 1 THEN 0 ELSE v[k - 1]
        BY DEF Backs
      <3>1. CASE k = Len(w) + 1
        <4>1. w # <<>> => k - 1 \in 1..Len(w) /\ k - 1 = Len(w) /\ k # 1
          BY <1>3, <2>1, <3>1
        <4>2. m2.node[v[k]].prev = IF w = <<>> THEN 0 ELSE w[Len(w)]
          BY <1>2, <2>1, <3>1
        <4>3. w = <<>> => k = 1
          BY <2>2, <3>1
        <4> QED BY <2>1, <4>1, <4>2, <4>3
      <3>2. CASE k \in 1..Len(w)
        <4>1. m2.node[v[k]].prev = IF k = 1 THEN 0 ELSE w[k - 1]
          BY <1>1, <1>5, <2>1, <2>3, <3>2 DEF Chain, Backs
        <4>2. k # 1 => k - 1 \in 1..Len(w)
          BY <2>1, <3>2
        <4> QED BY <2>1, <4>1, <4>2
      <3> QED BY <2>1, <3>1, <3>2
    <2>6. Ends(m2.head[l], v)
      BY <1>2, <1>3, <2>1, <2>2 DEF Ends
    <2>7. CursorIn(m2.head[l], v)
      <3>1. CursorIn(m.head[l], w)
        BY <1>1 DEF Chain
      <3>2. In(n, v) /\ \A x : In(x, w) => In(x, v)
        BY <2>1
      <3>3. m2.head[l].next = IF w = <<>> THEN n ELSE m.head[l].next
        BY <1>2
      <3>4. m2.head[l].next = 0 \/ In(m2.head[l].next, v)
        <4>1. m.head[l].next = 0 \/ In(m.head[l].next, w)
          BY <3>1 DEF CursorIn, In
        <4> QED BY <3>2, <3>3, <4>1
      <3> QED BY <3>4 DEF CursorIn, In
    <2> QED BY <2>4, <2>5, <2>6, <2>7 DEF Chain, v
  <1>10. m2.head[l] # Gone
    <2>1. m2.head[l].first # -1
      BY <1>2, <1>3, HeapAssumption DEF Node
    <2> QED BY <2>1 DEF Gone
  <1>11. \A x \in Node : m2.node[x] # Free <=> x = n \/ m.node[x] # Free
    <2>1. m2.node[n] # Free
      BY <1>1, <1>2 DEF Free
    <2>2. ASSUME NEW x \in Node, x # n PROVE m2.node[x] # Free <=> m.node[x] # Free
      <3>1. CASE w # <<>> /\ x = w[Len(w)]
        <4>1. m2.node[x].next = n /\ n # 0
          <5>1. m.node[x] \in [item : Pointer \cup Static, size : {0, 1}, prev : Pointer, next : Pointer]
            BY <2>2 DEF Heap
          <5> QED BY <1>2, <3>1, <5>1, HeapAssumption DEF Node
        <4>2. m2.node[x] # Free
          BY <4>1 DEF Free
        <4> QED BY <1>3, <3>1, <4>2
      <3>2. CASE w = <<>> \/ x # w[Len(w)]
        BY <1>2, <2>2, <3>2
      <3> QED BY <3>1, <3>2
    <2> QED BY <1>2, <2>1, <2>2
  <1>12. \A x \in Node : m2.node[x] # Free <=> \E h \in Lists : In(x, c2[h])
    <2>1. \A x : In(x, c2[l]) <=> x = n \/ In(x, w)
      BY <1>1, <1>2, <1>4, Appended
    <2> QED BY <1>1, <1>4, <1>11, <2>1 DEF Chains
  <1>13. Chains(m2, c2)
    <2>1. ASSUME NEW h \in Lists PROVE IF m2.head[h] = Gone THEN c2[h] = <<>> ELSE Chain(m2, h, c2[h])
      <3>1. CASE h = l
        BY <1>9, <1>10, <3>1
      <3>2. CASE h # l
        <4>1. m2.head[h] = m.head[h] /\ c2[h] = c[h]
          BY <1>2, <1>4, <3>2
        <4>2. CASE m2.head[h] = Gone
          BY <4>1, <4>2 DEF Chains
        <4>3. CASE m2.head[h] # Gone
          BY <1>8, <3>2, <4>3
        <4> QED BY <4>2, <4>3
      <3> QED BY <3>1, <3>2
    <2> QED BY <1>4, <1>7, <1>12, <2>1 DEF Chains
  <1>14. FreeNodes(m2) = FreeNodes(m) \ {n} /\ n \in FreeNodes(m)
    BY <1>2, <1>11 DEF FreeNodes
  <1>15. Live(m2) = Live(m)
    BY <1>2, <1>10 DEF Live
  <1> QED BY <1>2, <1>5, <1>13, <1>14, <1>15 DEF c2, Links

-----------------------------------------------------------------------------
(* Items and their copies. *)

ItemAt(m, n) == [ptr |-> m.node[n].item, val |-> Value(m, m.node[n].item)]

\* A node has a copy of its own or a static item, and each copy has a node.
Owned(m) == /\ \A n \in Node : \/ m.node[n] = Free
                               \/ m.node[n].size = 1 /\ m.node[n].item \in Node
                                     /\ m.block[m.node[n].item] # 0
                               \/ m.node[n].size = 0 /\ m.node[n].item \in Static
            /\ \A n, p \in Node : m.node[n].size = 1 /\ m.node[p].size = 1
                                     /\ m.node[n].item = m.node[p].item => n = p
            /\ \A b \in Node : m.block[b] # 0 =>
                  \E n \in Node : m.node[n].size = 1 /\ m.node[n].item = b

\* No item is in the list twice.
OnceEach(m, w) == \A j, k \in 1..Len(w) : m.node[w[j]].item = m.node[w[k]].item => j = k

Sound(m, c) == m \in Heap /\ Chains(m, c) /\ Owned(m) /\ \A l \in Lists : OnceEach(m, c[l])

\* m2 is m with the free node n at the end of list l.
Adds(m, c, l, n, m2) ==
    /\ Sound(m2, [c EXCEPT ![l] = Append(c[l], n)])
    /\ n \in FreeNodes(m) /\ FreeNodes(m2) = FreeNodes(m) \ {n} /\ Live(m2) = Live(m)
    /\ \A x \in Node \ FreeNodes(m) : /\ ItemAt(m2, x) = ItemAt(m, x)
                                      /\ m2.node[x].size = m.node[x].size
    /\ \A h \in Lists : h # l => m2.head[h].next = m.head[h].next
    /\ m2.head[l].next = IF c[l] = <<>> THEN n ELSE m.head[l].next

\* A node in a list is used, and what it holds is in a block or static.
LEMMA UsedHolds ==
    ASSUME NEW m \in Heap, NEW c, Chains(m, c), Owned(m), NEW l \in Lists, NEW k \in 1..Len(c[l])
    PROVE  /\ c[l][k] \in Node /\ m.node[c[l][k]] # Free /\ c[l][k] \notin FreeNodes(m)
           /\ m.node[c[l][k]].item \in Node => m.block[m.node[c[l][k]].item] # 0
           /\ m.node[c[l][k]].item \notin Node => m.node[c[l][k]].item \in Static
           /\ m.node[c[l][k]].item # 0
  <1>1. c[l][k] \in Node
    BY ElementOfSeq DEF Chains
  <1>2. In(c[l][k], c[l])
    BY DEF In
  <1>3. m.node[c[l][k]] # Free
    BY <1>1, <1>2 DEF Chains
  <1>4. \A s \in Static : s \notin Node /\ s # 0
    BY HeapAssumption DEF Node
  <1>5. 0 \notin Node
    BY HeapAssumption DEF Node
  <1> QED BY <1>1, <1>3, <1>4, <1>5 DEF Owned, FreeNodes

\* The new item is in no list yet: then no list has it twice.
LEMMA OnceAppended ==
    ASSUME NEW m \in Heap, NEW c, Chains(m, c), Owned(m), NEW l \in Lists, NEW n \in FreeNodes(m),
           OnceEach(m, c[l]), NEW m2, NEW item, m2.node[n].item = item,
           \A k \in 1..Len(c[l]) : /\ m2.node[c[l][k]].item = m.node[c[l][k]].item
                                   /\ m.node[c[l][k]].item # item
    PROVE  OnceEach(m2, Append(c[l], n))
  <1> DEFINE w == c[l]
             v == Append(w, n)
  <1>1. w \in Seq(Node) /\ n \in Node
    BY DEF Chains, FreeNodes
  <1>2. /\ Len(v) = Len(w) + 1 /\ \A k \in 1..Len(w) : v[k] = w[k]
        /\ v[Len(w) + 1] = n /\ 1..(Len(w) + 1) = (1..Len(w)) \cup {Len(w) + 1}
    BY <1>1, Appended
  <1> HIDE DEF v
  <1>3. \A k \in 1..Len(w) : /\ m2.node[v[k]].item = m.node[w[k]].item
                             /\ m2.node[v[k]].item # item
    BY <1>2
  <1>4. m2.node[v[Len(w) + 1]].item = item
    BY <1>2
  <1>5. \A j, k \in 1..Len(v) : m2.node[v[j]].item = m2.node[v[k]].item => j = k
    BY <1>2, <1>3, <1>4 DEF OnceEach
  <1> QED BY <1>5 DEF OnceEach, v

\* list_add() of something static.
LEMMA StaticAdded ==
    ASSUME NEW m, NEW c, Sound(m, c), NEW l \in Live(m), FreeNodes(m) # {}, NEW s \in Static,
           \A k \in 1..Len(c[l]) : m.node[c[l][k]].item # s
    PROVE  \E n : /\ Adds(m, c, l, n, Linked(m, l, s, 0))
                  /\ ItemAt(Linked(m, l, s, 0), n) = [ptr |-> s, val |-> s]
                  /\ Linked(m, l, s, 0).node[n].size = 0
  <1> DEFINE n  == malloc(FreeNodes(m))
             m2 == Linked(m, l, s, 0)
             c2 == [c EXCEPT ![l] = Append(c[l], n)]
  <1>1. m \in Heap /\ Chains(m, c) /\ Owned(m) /\ l \in Lists /\ 0 \in {0, 1}
    BY DEF Sound, Live
  <1>2. /\ m2 \in Heap /\ Chains(m2, c2)
        /\ n \in FreeNodes(m) /\ FreeNodes(m2) = FreeNodes(m) \ {n}
        /\ m2.block = m.block /\ Live(m2) = Live(m)
        /\ m2.node[n].item = s /\ m2.node[n].size = 0
        /\ \A x \in Node : x # n => /\ m2.node[x].item = m.node[x].item
                                    /\ m2.node[x].size = m.node[x].size
        /\ \A h \in Lists : h # l => m2.head[h].next = m.head[h].next
        /\ m2.head[l].next = IF c[l] = <<>> THEN n ELSE m.head[l].next
    <2>1. Links(m, c, l, s, 0, n, m2)
      BY <1>1, LinkedChains
    <2> QED BY <2>1 DEF Links
  <1>3. c2[l] = Append(c[l], n) /\ \A h \in Lists : h # l => c2[h] = c[h]
    BY <1>1 DEF Chains
  <1> HIDE DEF n, m2, c2
  <1>4. Owned(m2)
    <2>1. m.node[n].size = 0 /\ n \in Node
      BY <1>2 DEF FreeNodes, Free
    <2>2. \A x \in Node : x # n => (m2.node[x] = Free <=> m.node[x] = Free)
      BY <1>2 DEF FreeNodes
    <2>3. \A x \in Node : m2.node[x].size = m.node[x].size
      BY <1>2, <2>1
    <2>4. \A x \in Node : m2.node[x].size = 1 => x # n /\ m2.node[x].item = m.node[x].item
      BY <1>2, <2>1
    <2>5. \A x \in Node : m.node[x].size = 1 => m2.node[x].size = 1 /\ m2.node[x].item = m.node[x].item
      BY <1>2, <2>1
    <2> QED BY <1>1, <1>2, <2>1, <2>2, <2>3, <2>4, <2>5 DEF Owned
  <1>5. ASSUME NEW h \in Lists PROVE OnceEach(m2, c2[h])
    <2>1. \A k \in 1..Len(c[h]) : /\ c[h][k] \in Node /\ c[h][k] # n
                                  /\ m2.node[c[h][k]].item = m.node[c[h][k]].item
      BY <1>1, <1>2, UsedHolds
    <2>2. OnceEach(m, c[h])
      BY DEF Sound
    <2>3. CASE h = l
      <3>1. \A k \in 1..Len(c[l]) : /\ m2.node[c[l][k]].item = m.node[c[l][k]].item
                                    /\ m.node[c[l][k]].item # s
        BY <2>1, <2>3
      <3>2. n \in FreeNodes(m) /\ m2.node[n].item = s /\ OnceEach(m, c[l])
        BY <1>2, <2>2, <2>3
      <3>3. OnceEach(m2, Append(c[l], n))
        BY <1>1, <3>1, <3>2, OnceAppended
      <3> QED BY <1>3, <2>3, <3>3
    <2>4. CASE h # l
      BY <1>3, <2>1, <2>2, <2>4 DEF OnceEach
    <2> QED BY <2>3, <2>4
  <1>6. \A x \in Node \ FreeNodes(m) : /\ ItemAt(m2, x) = ItemAt(m, x)
                                       /\ m2.node[x].size = m.node[x].size
    BY <1>2 DEF ItemAt, Value
  <1>7. Adds(m, c, l, n, m2)
    BY <1>2, <1>4, <1>5, <1>6 DEF Adds, Sound, c2
  <1>8. ItemAt(m2, n) = [ptr |-> s, val |-> s]
    BY <1>2, HeapAssumption DEF ItemAt, Value, Node
  <1> QED BY <1>2, <1>7, <1>8 DEF m2

\* What is in the blocks makes no difference to the chains.
LEMMA ChainsOfNodes ==
    ASSUME NEW m, NEW c, Chains(m, c), NEW m2, m2.node = m.node, m2.head = m.head
    PROVE  Chains(m2, c)
  <1>1. \A l \in Lists : Chain(m, l, c[l]) => Chain(m2, l, c[l])
    BY DEF Chain, Leads, Backs
  <1> QED BY <1>1 DEF Chains

\* list_add() of something that is copied.
LEMMA CopyAdded ==
    ASSUME NEW m, NEW c, Sound(m, c), NEW l \in Live(m), FreeNodes(m) # {}, FreeBlocks(m) # {},
           NEW v \in Val
    PROVE  \E n : /\ Adds(m, c, l, n, WithCopy(m, l, v))
                  /\ ItemAt(WithCopy(m, l, v), n).val = v
                  /\ WithCopy(m, l, v).node[n].size = 1
                  /\ \E b \in FreeBlocks(m) :
                        FreeBlocks(WithCopy(m, l, v)) = FreeBlocks(m) \ {b}
  <1> DEFINE n  == malloc(FreeNodes(m))
             b  == malloc(FreeBlocks(m))
             m1 == [m EXCEPT !.block[b] = v]
             m2 == WithCopy(m, l, v)
             c2 == [c EXCEPT ![l] = Append(c[l], n)]
  <1>1. m \in Heap /\ Chains(m, c) /\ Owned(m) /\ l \in Lists /\ 1 \in {0, 1}
    BY DEF Sound, Live
  <1>2. b \in Node /\ m.block[b] = 0 /\ b \in FreeBlocks(m)
    BY AnyOf DEF FreeBlocks
  <1>3. v # 0 /\ v \in {0} \cup Val
    BY HeapAssumption
  <1>4. m2 = Linked(m1, l, b, 1)
    BY DEF WithCopy
  <1>5. c2[l] = Append(c[l], n) /\ \A h \in Lists : h # l => c2[h] = c[h]
    BY <1>1 DEF Chains
  <1> HIDE DEF b
  <1>6. /\ m1 \in Heap /\ m1.node = m.node /\ m1.head = m.head
        /\ m1.block = [m.block EXCEPT ![b] = v]
    BY <1>1, <1>2, <1>3 DEF Heap
  <1> HIDE DEF m1, m2
  <1>7. /\ Chains(m1, c) /\ FreeNodes(m1) = FreeNodes(m) /\ Live(m1) = Live(m)
    BY <1>1, <1>6, ChainsOfNodes DEF FreeNodes, Live
  <1>8. /\ m2 \in Heap /\ Chains(m2, c2)
        /\ n \in FreeNodes(m) /\ FreeNodes(m2) = FreeNodes(m) \ {n}
        /\ m2.block = m1.block /\ Live(m2) = Live(m)
        /\ m2.node[n].item = b /\ m2.node[n].size = 1
        /\ \A x \in Node : x # n => /\ m2.node[x].item = m.node[x].item
                                    /\ m2.node[x].size = m.node[x].size
        /\ \A h \in Lists : h # l => m2.head[h].next = m.head[h].next
        /\ m2.head[l].next = IF c[l] = <<>> THEN n ELSE m.head[l].next
    <2>1. n = malloc(FreeNodes(m1)) /\ FreeNodes(m1) # {} /\ l \in Live(m1) /\ b \in Node \cup Static
      BY <1>2, <1>7
    <2> HIDE DEF n, c2
    <2>2. Links(m1, c, l, b, 1, n, m2)
      BY <1>1, <1>4, <1>6, <1>7, <2>1, LinkedChains
    <2> QED BY <1>6, <1>7, <2>2 DEF Links, c2
  <1> HIDE DEF n, c2
  <1>9. /\ m2.block[b] = v
        /\ \A a \in Node : a # b => m2.block[a] = m.block[a]
    BY <1>1, <1>2, <1>6, <1>8 DEF Heap
  <1>10. \A x \in Node \ FreeNodes(m) : m.node[x].item # b
    BY <1>1, <1>2, HeapAssumption DEF Owned, FreeNodes, Node
  <1>11. Owned(m2)
    <2>1. m.node[n].size = 0 /\ n \in Node
      BY <1>8 DEF FreeNodes, Free
    <2>2. \A x \in Node : x # n => (m2.node[x] = Free <=> m.node[x] = Free)
      BY <1>8 DEF FreeNodes
    <2>3. \A x \in Node : x # n /\ m.node[x] # Free => m.node[x].item # b
      BY <1>10 DEF FreeNodes
    <2>4. \A x \in Node : m.node[x] = Free => m.node[x].size = 0
      BY DEF Free
    <2>5. \A x \in Node : \/ m2.node[x] = Free
                          \/ m2.node[x].size = 1 /\ m2.node[x].item \in Node
                                /\ m2.block[m2.node[x].item] # 0
                          \/ m2.node[x].size = 0 /\ m2.node[x].item \in Static
      <3> TAKE x \in Node
      <3>1. CASE x = n
        BY <1>2, <1>3, <1>8, <1>9, <3>1
      <3>2. CASE x # n
        BY <1>1, <1>8, <1>9, <2>2, <2>3, <3>2 DEF Owned
      <3> QED BY <3>1, <3>2
    <2>6. ASSUME NEW x \in Node, NEW p \in Node, m2.node[x].size = 1, m2.node[p].size = 1,
                 m2.node[x].item = m2.node[p].item
          PROVE  x = p
      <3>1. \A y \in Node : y # n /\ m2.node[y].size = 1 =>
               m.node[y].size = 1 /\ m2.node[y].item = m.node[y].item /\ m.node[y].item # b
        BY <1>8, <2>3, <2>4
      <3>2. CASE x = n \/ p = n
        BY <1>8, <2>6, <3>1, <3>2
      <3>3. CASE x # n /\ p # n
        BY <1>1, <2>6, <3>1, <3>3 DEF Owned
      <3> QED BY <3>2, <3>3
    <2>7. ASSUME NEW a \in Node, m2.block[a] # 0
          PROVE  \E x \in Node : m2.node[x].size = 1 /\ m2.node[x].item = a
      <3>1. CASE a = b
        BY <1>8, <2>1, <3>1
      <3>2. CASE a # b
        <4>1. PICK x \in Node : m.node[x].size = 1 /\ m.node[x].item = a
          BY <1>1, <1>9, <2>7, <3>2 DEF Owned
        <4>2. x # n
          BY <2>1, <4>1
        <4> QED BY <1>8, <4>1, <4>2
      <3> QED BY <3>1, <3>2
    <2> QED BY <2>5, <2>6, <2>7 DEF Owned
  <1>12. ASSUME NEW h \in Lists PROVE OnceEach(m2, c2[h])
    <2>1. \A k \in 1..Len(c[h]) : /\ c[h][k] \in Node /\ c[h][k] # n
                                  /\ m2.node[c[h][k]].item = m.node[c[h][k]].item
                                  /\ m.node[c[h][k]].item # b
      BY <1>1, <1>8, <1>10, UsedHolds
    <2>2. OnceEach(m, c[h])
      BY DEF Sound
    <2>3. CASE h = l
      <3>1. \A k \in 1..Len(c[l]) : /\ m2.node[c[l][k]].item = m.node[c[l][k]].item
                                    /\ m.node[c[l][k]].item # b
        BY <2>1, <2>3
      <3>2. n \in FreeNodes(m) /\ m2.node[n].item = b /\ OnceEach(m, c[l])
        BY <1>8, <2>2, <2>3
      <3>3. OnceEach(m2, Append(c[l], n))
        BY <1>1, <3>1, <3>2, OnceAppended
      <3> QED BY <1>5, <2>3, <3>3
    <2>4. CASE h # l
      BY <1>5, <2>1, <2>2, <2>4 DEF OnceEach
    <2> QED BY <2>3, <2>4
  <1>13. \A x \in Node \ FreeNodes(m) : /\ ItemAt(m2, x) = ItemAt(m, x)
                                        /\ m2.node[x].size = m.node[x].size
    <2> TAKE x \in Node \ FreeNodes(m)
    <2>1. x # n /\ m2.node[x].item = m.node[x].item /\ m.node[x].item # b
      BY <1>8, <1>10
    <2>2. Value(m2, m.node[x].item) = Value(m, m.node[x].item)
      BY <1>9, <2>1 DEF Value
    <2> QED BY <1>8, <2>1, <2>2 DEF ItemAt
  <1>14. Adds(m, c, l, n, m2)
    BY <1>8, <1>11, <1>12, <1>13 DEF Adds, Sound, c2
  <1>15. ItemAt(m2, n).val = v
    BY <1>2, <1>8, <1>9 DEF ItemAt, Value
  <1>16. FreeBlocks(m2) = FreeBlocks(m) \ {b}
    BY <1>2, <1>3, <1>9 DEF FreeBlocks
  <1> QED BY <1>2, <1>8, <1>14, <1>15, <1>16 DEF m2

-----------------------------------------------------------------------------
(* list_add_list() and list_dup(). *)

\* m2 is m with copies of the first k nodes of w at the end of list l.
Copied(m, c, l, w, k, m2, c2) ==
    /\ Sound(m2, c2) /\ Live(m2) = Live(m)
    /\ \A h \in Lists : h # l => c2[h] = c[h] /\ m2.head[h].next = m.head[h].next
    /\ Len(c2[l]) = Len(c[l]) + k
    /\ \A j \in 1..Len(c[l]) : c2[l][j] = c[l][j]
    /\ \A j \in 1..k : /\ ItemAt(m2, c2[l][Len(c[l]) + j]).val = ItemAt(m, w[j]).val
                       /\ m2.node[c2[l][Len(c[l]) + j]].size = 1
    /\ \A x \in Node \ FreeNodes(m) : /\ x \notin FreeNodes(m2)
                                      /\ ItemAt(m2, x) = ItemAt(m, x)
                                      /\ m2.node[x].size = m.node[x].size
    /\ m2.head[l].next = IF c[l] = <<>> /\ k # 0 THEN c2[l][1] ELSE m.head[l].next

Room2(m, k) == Cardinality(FreeNodes(m)) >= k /\ Cardinality(FreeBlocks(m)) >= k

\* One element less in a set of nodes.
LEMMA OneLess ==
    ASSUME NEW S \in SUBSET Node, NEW x \in S, NEW k \in Nat, Cardinality(S) >= k + 1
    PROVE  Cardinality(S \ {x}) >= k
  <1>1. IsFiniteSet(Node)
    BY FS_Interval, HeapAssumption DEF Node
  <1>2. IsFiniteSet(S)
    BY <1>1, FS_Subset
  <1>3. Cardinality(S \ {x}) = Cardinality(S) - 1 /\ Cardinality(S) \in Nat
    BY <1>2, FS_RemoveElement, FS_CardinalityType
  <1> QED BY <1>3

\* Where there is room for one more, a node and a block are free.
LEMMA SomeFree ==
    ASSUME NEW m, NEW k \in Nat, Room2(m, k + 1)
    PROVE  FreeNodes(m) # {} /\ FreeBlocks(m) # {}
  <1>1. Cardinality({}) = 0 /\ ~(0 >= k + 1)
    BY FS_EmptySet
  <1> QED BY <1>1 DEF Room2

\* One node more of w.
LEMMA CopiedOne ==
    ASSUME NEW m, NEW c, Sound(m, c), NEW l \in Live(m), NEW f \in Live(m), f # l,
           NEW k \in Nat, k + 1 \in 1..Len(c[f]), m.node[c[f][k + 1]].size = 1,
           NEW m1, NEW c1, Copied(m, c, l, c[f], k, m1, c1), NEW r \in Nat, Room2(m1, r + 1)
    PROVE  \E c2 : /\ Copied(m, c, l, c[f], k + 1, CopyOf(m1, l, c[f][k + 1]), c2)
                   /\ Room2(CopyOf(m1, l, c[f][k + 1]), r)
  <1> DEFINE w == c[f]
             x == w[k + 1]
             v == m1.block[m1.node[x].item]
             m2 == CopyOf(m1, l, x)
  <1>1. /\ m \in Heap /\ Chains(m, c) /\ Owned(m) /\ l \in Lists /\ f \in Lists
        /\ m1 \in Heap /\ Chains(m1, c1) /\ Owned(m1) /\ l \in Live(m1)
        /\ Sound(m1, c1)
    BY DEF Sound, Live, Copied
  <1>2. /\ x \in Node \ FreeNodes(m) /\ m.node[x] # Free
        /\ m.node[x].item \in Node
    BY <1>1, UsedHolds DEF Owned
  <1>3. /\ m1.node[x].size = 1 /\ ItemAt(m1, x) = ItemAt(m, x) /\ x \notin FreeNodes(m1)
    BY <1>2 DEF Copied
  <1>4. m1.node[x].item \in Node /\ v = ItemAt(m, x).val /\ v \in Val
    <2>1. m1.node[x].item = m.node[x].item
      BY <1>3 DEF ItemAt
    <2>2. v = ItemAt(m1, x).val
      BY <1>2, <2>1 DEF ItemAt, Value
    <2>3. m1.node[x] # Free
      BY <1>2, <1>3 DEF FreeNodes
    <2>4. v # 0 /\ v \in {0} \cup Val
      BY <1>1, <1>2, <1>3, <2>1, <2>3 DEF Owned, Heap
    <2> QED BY <1>2, <1>3, <2>1, <2>2, <2>4
  <1>5. m2 = WithCopy(m1, l, v)
    BY <1>3 DEF CopyOf
  <1>6. FreeNodes(m1) # {} /\ FreeBlocks(m1) # {}
    BY SomeFree
  <1> HIDE DEF v, m2
  <1>7. PICK n : /\ Adds(m1, c1, l, n, m2) /\ ItemAt(m2, n).val = v /\ m2.node[n].size = 1
                 /\ \E b \in FreeBlocks(m1) : FreeBlocks(m2) = FreeBlocks(m1) \ {b}
    BY <1>1, <1>4, <1>5, <1>6, CopyAdded
  <1> DEFINE c2 == [c1 EXCEPT ![l] = Append(c1[l], n)]
             i  == Len(c[l])
  <1>8. /\ Sound(m2, c2) /\ n \in FreeNodes(m1) /\ FreeNodes(m2) = FreeNodes(m1) \ {n}
        /\ Live(m2) = Live(m1)
        /\ \A y \in Node \ FreeNodes(m1) : /\ ItemAt(m2, y) = ItemAt(m1, y)
                                           /\ m2.node[y].size = m1.node[y].size
        /\ \A h \in Lists : h # l => m2.head[h].next = m1.head[h].next
        /\ m2.head[l].next = IF c1[l] = <<>> THEN n ELSE m1.head[l].next
    BY <1>7 DEF Adds
  <1>9. /\ c2[l] = Append(c1[l], n) /\ \A h \in Lists : h # l => c2[h] = c1[h]
        /\ c1[l] \in Seq(Node) /\ n \in Node /\ c[l] \in Seq(Node)
    BY <1>1, <1>8 DEF Chains, FreeNodes
  <1> HIDE DEF c2
  <1>10. /\ i \in Nat /\ Len(c1[l]) = i + k /\ i = Len(c[l])
    BY <1>9, LenProperties DEF Copied
  <1> HIDE DEF i
  <1>11. /\ Len(c2[l]) = i + (k + 1) /\ c2[l][i + (k + 1)] = n
         /\ \A j \in 1..(i + k) : c2[l][j] = c1[l][j]
    <2>1. /\ Len(c2[l]) = (i + k) + 1 /\ c2[l][(i + k) + 1] = n
          /\ \A j \in 1..(i + k) : c2[l][j] = c1[l][j]
      <3>1. /\ Len(c2[l]) = Len(c1[l]) + 1 /\ c2[l][Len(c1[l]) + 1] = n
            /\ \A j \in 1..Len(c1[l]) : c2[l][j] = c1[l][j]
        BY <1>9, Appended
      <3> QED BY <1>10, <3>1
    <2>2. (i + k) + 1 = i + (k + 1)
      <3>1. i \in Nat /\ k \in Nat
        BY <1>10
      <3> QED BY ONLY <3>1
    <2> QED BY <2>1, <2>2
  <1>12. \A j \in 1..i : c2[l][j] = c[l][j]
    <2> TAKE j \in 1..i
    <2>1. j \in 1..(i + k)
      BY <1>10
    <2> QED BY <1>10, <1>11, <2>1 DEF Copied
  <1>13. \A y \in Node \ FreeNodes(m) : /\ y \notin FreeNodes(m2)
                                        /\ ItemAt(m2, y) = ItemAt(m, y)
                                        /\ m2.node[y].size = m.node[y].size
    BY <1>8 DEF Copied
  <1>14. ASSUME NEW j \in 1..(k + 1)
         PROVE  /\ ItemAt(m2, c2[l][i + j]).val = ItemAt(m, w[j]).val
                /\ m2.node[c2[l][i + j]].size = 1
    <2>1. CASE j = k + 1
      BY <1>4, <1>7, <1>11, <2>1
    <2>2. CASE j # k + 1
      <3>1. j \in 1..k /\ i + j \in 1..(i + k)
        BY <1>10, <2>2
      <3>2. c1[l][i + j] \in Node \ FreeNodes(m1)
        BY <1>1, <1>10, <3>1, UsedHolds
      <3>3. c2[l][i + j] = c1[l][i + j]
        BY <1>11, <3>1
      <3>4. /\ ItemAt(m1, c1[l][i + j]).val = ItemAt(m, w[j]).val
            /\ m1.node[c1[l][i + j]].size = 1
        BY <1>10, <3>1 DEF Copied
      <3> QED BY <1>8, <3>2, <3>3, <3>4
    <2> QED BY <2>1, <2>2
  <1>15. m2.head[l].next = IF c[l] = <<>> THEN c2[l][1] ELSE m.head[l].next
    <2>1. (c[l] = <<>> <=> i = 0) /\ (c1[l] = <<>> <=> i = 0 /\ k = 0)
      <3>1. (c[l] = <<>> <=> Len(c[l]) = 0) /\ (c1[l] = <<>> <=> Len(c1[l]) = 0)
        BY <1>9, EmptySeq
      <3> QED BY <1>10, <3>1
    <2>2. CASE c1[l] = <<>>
      <3>1. i = 0 /\ k = 0 /\ i + (k + 1) = 1
        BY <1>10, <2>1, <2>2
      <3> QED BY <1>8, <1>11, <2>1, <2>2, <3>1
    <2>3. CASE c1[l] # <<>>
      <3>1. 1 \in 1..(i + k) /\ (i = 0 => k # 0)
        BY <1>10, <2>1, <2>3
      <3>2. m2.head[l].next = m1.head[l].next
        BY <1>8, <2>3
      <3>3. m1.head[l].next = IF c[l] = <<>> /\ k # 0 THEN c1[l][1] ELSE m.head[l].next
        BY DEF Copied
      <3> QED BY <1>11, <2>1, <3>1, <3>2, <3>3
    <2> QED BY <2>2, <2>3
  <1>16. Copied(m, c, l, w, k + 1, m2, c2)
    <2>1. k + 1 # 0
      OBVIOUS
    <2>2. Live(m2) = Live(m) /\ \A h \in Lists : h # l => c2[h] = c[h] /\ m2.head[h].next = m.head[h].next
      BY <1>8, <1>9 DEF Copied
    <2>3. /\ Sound(m2, c2) /\ Len(c2[l]) = Len(c[l]) + (k + 1)
          /\ \A j \in 1..Len(c[l]) : c2[l][j] = c[l][j]
          /\ \A j \in 1..(k + 1) : /\ ItemAt(m2, c2[l][Len(c[l]) + j]).val = ItemAt(m, w[j]).val
                                  /\ m2.node[c2[l][Len(c[l]) + j]].size = 1
          /\ m2.head[l].next = IF c[l] = <<>> /\ k + 1 # 0 THEN c2[l][1] ELSE m.head[l].next
      BY <1>8, <1>10, <1>11, <1>12, <1>14, <1>15, <2>1
    <2> HIDE DEF w, x
    <2> QED BY <1>13, <2>2, <2>3 DEF Copied
  <1>17. Room2(m2, r)
    <2>1. PICK b \in FreeBlocks(m1) : FreeBlocks(m2) = FreeBlocks(m1) \ {b}
      BY <1>7
    <2>2. Cardinality(FreeNodes(m1)) >= r + 1 /\ Cardinality(FreeBlocks(m1)) >= r + 1
      BY DEF Room2
    <2>3. FreeNodes(m1) \in SUBSET Node /\ FreeBlocks(m1) \in SUBSET Node
      BY DEF FreeNodes, FreeBlocks
    <2> QED BY <1>8, <2>1, <2>2, <2>3, OneLess DEF Room2
  <1> QED BY <1>16, <1>17 DEF m2

\* The states of the loop, from m to the one with k nodes of w copied.
CopyLoop(f, m, l, w, k) ==
    f = [j \in 0..k |-> IF j = 0 THEN m ELSE CopyOf(f[j - 1], l, w[j])]

\* The loop has such states.
LEMMA CopyLoopExists ==
    ASSUME NEW m, NEW l, NEW w, NEW n \in Nat
    PROVE  \E f : CopyLoop(f, m, l, w, n)
  <1> DEFINE Done == {k \in Nat : \E f : CopyLoop(f, m, l, w, k)}
  <1>1. 0 \in Done
    <2> DEFINE z == [j \in 0..0 |-> m]
    <2>1. z = [j \in 0..0 |-> IF j = 0 THEN m ELSE CopyOf(z[j - 1], l, w[j])]
      OBVIOUS
    <2>2. CopyLoop(z, m, l, w, 0)
      BY <2>1 DEF CopyLoop
    <2> HIDE DEF z
    <2> QED BY <2>2
  <1>2. ASSUME NEW k \in Nat, k \in Done PROVE k + 1 \in Done
    <2>1. PICK f : CopyLoop(f, m, l, w, k)
      BY <1>2
    <2> DEFINE v == CopyOf(f[k], l, w[k + 1])
               g == [j \in 0..(k + 1) |-> IF j = k + 1 THEN v ELSE f[j]]
    <2>2. /\ \A j \in 0..k : f[j] = IF j = 0 THEN m ELSE CopyOf(f[j - 1], l, w[j])
      <3> DEFINE F == [j \in 0..k |-> IF j = 0 THEN m ELSE CopyOf(f[j - 1], l, w[j])]
      <3>1. \A j \in 0..k : F[j] = IF j = 0 THEN m ELSE CopyOf(f[j - 1], l, w[j])
        OBVIOUS
      <3>2. f = F
        BY <2>1 DEF CopyLoop
      <3> HIDE DEF F
      <3> QED BY <3>1, <3>2
    <2> HIDE DEF v
    <2>3. g[k + 1] = v /\ \A j \in 0..k : g[j] = f[j]
      OBVIOUS
    <2>4. g = [j \in 0..(k + 1) |-> g[j]]
      OBVIOUS
    <2> HIDE DEF g
    <2>5. ASSUME NEW j \in 0..(k + 1)
          PROVE  g[j] = IF j = 0 THEN m ELSE CopyOf(g[j - 1], l, w[j])
      <3>1. CASE j = k + 1
        <4>1. j - 1 = k /\ k \in 0..k /\ j # 0
          BY <3>1
        <4> QED BY <2>3, <3>1, <4>1 DEF v
      <3>2. CASE j # k + 1
        <4>1. j \in 0..k /\ (j # 0 => j - 1 \in 0..k)
          BY <3>2
        <4> QED BY <2>2, <2>3, <4>1
      <3> QED BY <3>1, <3>2
    <2>6. CopyLoop(g, m, l, w, k + 1)
      BY <2>4, <2>5 DEF CopyLoop
    <2> QED BY <2>6
  <1>3. Nat \subseteq Done
    <2> HIDE DEF Done
    <2> QED BY <1>1, <1>2, SetInduction
  <1> QED BY <1>3

\* Another list is copied to the end of this one, if the heap has room for it.
LEMMA AllCopiedIs ==
    ASSUME NEW m, NEW c, Sound(m, c), NEW l \in Live(m), NEW h \in Live(m), h # l,
           Room2(m, Len(c[h])), \A k \in 1..Len(c[h]) : m.node[c[h][k]].size = 1
    PROVE  \E c2 : Copied(m, c, l, c[h], Len(c[h]), AllCopied(m, l, h), c2)
  <1> DEFINE w == c[h]
             n == Len(w)
             Step(f) == [j \in 0..n |-> IF j = 0 THEN m ELSE CopyOf(f[j - 1], l, w[j])]
             copied == CHOOSE f : f = Step(f)
  <1>1. /\ n \in Nat /\ Walk(m, h) = w /\ c[l] \in Seq(Node) /\ c \in [Lists -> Seq(Node)]
        /\ l \in Lists /\ h \in Lists
    BY WalkIs, LenProperties DEF Sound, Live, Chains
  <1>2. AllCopied(m, l, h) = copied[n]
    BY <1>1 DEF AllCopied
  <1>3. copied = Step(copied)
    <2>1. PICK f : CopyLoop(f, m, l, w, n)
      BY <1>1, CopyLoopExists
    <2>2. f = Step(f)
      BY <2>1 DEF CopyLoop
    <2> HIDE DEF Step
    <2> QED BY <2>2
  <1> HIDE DEF copied
  <1>4. \A j \in 0..n : copied[j] = IF j = 0 THEN m ELSE CopyOf(copied[j - 1], l, w[j])
    <2> TAKE j \in 0..n
    <2>1. copied[j] = Step(copied)[j]
      <3> HIDE DEF Step
      <3> QED BY <1>3
    <2> QED BY <2>1
  <1> DEFINE Good(k) == \E c2 : /\ Copied(m, c, l, w, k, copied[k], c2)
                                /\ Room2(copied[k], n - k)
             Done == {k \in Nat : k <= n => Good(k)}
  <1> HIDE DEF Step, n
  <1>5. 0 \in Done
    <2>1. Copied(m, c, l, w, 0, m, c)
      <3>1. Len(c[l]) \in Nat
        BY <1>1, LenProperties
      <3> QED BY <1>1, <3>1 DEF Copied, Sound
    <2>2. copied[0] = m /\ n - 0 = n
      BY <1>1, <1>4
    <2>3. Good(0)
      BY <2>1, <2>2 DEF n
    <2> HIDE DEF Good
    <2> QED BY <2>3
  <1>6. ASSUME NEW k \in Nat, k \in Done PROVE k + 1 \in Done
    <2> SUFFICES ASSUME k + 1 <= n PROVE Good(k + 1)
      OBVIOUS
    <2>1. Good(k)
      BY <1>1, <1>6
    <2>2. PICK c1 : Copied(m, c, l, w, k, copied[k], c1) /\ Room2(copied[k], n - k)
      BY <2>1
    <2> HIDE DEF Good, Done
    <2>3. /\ k + 1 \in 1..n /\ n - (k + 1) \in Nat /\ (n - (k + 1)) + 1 = n - k
          /\ k + 1 \in 0..n /\ (k + 1) - 1 = k /\ k + 1 # 0
      BY <1>1
    <2>4. copied[k + 1] = CopyOf(copied[k], l, w[k + 1])
      BY <1>4, <2>3
    <2>5. k + 1 \in 1..Len(c[h]) /\ m.node[c[h][k + 1]].size = 1
      BY <2>3 DEF n
    <2>6. \E c2 : /\ Copied(m, c, l, c[h], k + 1, CopyOf(copied[k], l, c[h][k + 1]), c2)
                  /\ Room2(CopyOf(copied[k], l, c[h][k + 1]), n - (k + 1))
      BY <2>2, <2>3, <2>5, CopiedOne
    <2> QED BY <2>4, <2>6 DEF Good
  <1>7. Nat \subseteq Done
    <2> HIDE DEF Done
    <2> QED BY <1>5, <1>6, SetInduction
  <1>8. Good(n)
    <2>1. n \in Done
      BY <1>1, <1>7
    <2> QED BY <1>1, <2>1
  <1> QED BY <1>2, <1>8 DEF n

-----------------------------------------------------------------------------
(* The other calls. *)

\* list_create() makes a list without nodes.
LEMMA CreatedIs ==
    ASSUME NEW m, NEW c, Sound(m, c), NEW l \in Lists, l \notin Live(m),
           NEW m2, m2 = Created(m, l)
    PROVE  /\ Sound(m2, c) /\ Live(m2) = Live(m) \cup {l} /\ c[l] = <<>>
           /\ m2.node = m.node /\ m2.block = m.block /\ m2.head[l].next = 0
           /\ \A h \in Lists : h # l => m2.head[h] = m.head[h]
  <1> DEFINE new == [first |-> 0, last |-> 0, next |-> 0]
  <1>1. m \in Heap /\ Chains(m, c) /\ Owned(m) /\ c[l] = <<>>
    BY Headers DEF Sound, Chains
  <1>2. new \in Header /\ new # Gone
    <2>1. new \in Header
      BY DEF Header, Pointer
    <2> QED BY <1>1, <2>1, Headers
  <1>3. /\ m2 \in Heap /\ m2.node = m.node /\ m2.block = m.block
        /\ m2.head = [m.head EXCEPT ![l] = new]
    <2>1. m2 = [m EXCEPT !.head[l] = new]
      BY DEF Created
    <2> HIDE DEF new
    <2> QED BY <1>1, <1>2, <2>1 DEF Heap
  <1>4. m2.head[l] = new /\ \A h \in Lists : h # l => m2.head[h] = m.head[h]
    BY <1>1, <1>3 DEF Heap
  <1>5. Chain(m2, l, <<>>)
    <2>1. Len(<<>>) = 0
      OBVIOUS
    <2> QED BY <1>4, <2>1 DEF Chain, Leads, Backs, Ends, CursorIn
  <1>6. Chains(m2, c)
    <2>1. \A h \in Lists : h # l /\ Chain(m, h, c[h]) => Chain(m2, h, c[h])
      BY <1>3, <1>4, ChainKept
    <2> HIDE DEF new
    <2>2. ASSUME NEW h \in Lists PROVE IF m2.head[h] = Gone THEN c[h] = <<>> ELSE Chain(m2, h, c[h])
      BY <1>1, <1>2, <1>4, <1>5, <2>1 DEF Chains
    <2> QED BY <1>1, <1>3, <2>2 DEF Chains
  <1>7. Owned(m2) /\ \A h \in Lists : OnceEach(m2, c[h])
    BY <1>3 DEF Sound, Owned, OnceEach
  <1>8. Live(m2) = Live(m) \cup {l}
    <2> HIDE DEF new
    <2> QED BY <1>2, <1>4 DEF Live
  <1> QED BY <1>1, <1>3, <1>4, <1>6, <1>7, <1>8 DEF Sound

CursorAt(m, l, x) == [m EXCEPT !.head[l].next = x]

\* The cursor can be put on any node of its list.
LEMMA CursorMoved ==
    ASSUME NEW m, NEW c, Sound(m, c), NEW l \in Live(m), NEW x, x = 0 \/ In(x, c[l]),
           NEW m2, m2 = CursorAt(m, l, x)
    PROVE  /\ Sound(m2, c) /\ Live(m2) = Live(m)
           /\ m2.node = m.node /\ m2.block = m.block /\ m2.head[l].next = x
           /\ \A h \in Lists : h # l => m2.head[h] = m.head[h]
  <1>1. m \in Heap /\ Chains(m, c) /\ Owned(m) /\ l \in Lists /\ m.head[l] \in Header
        /\ Chain(m, l, c[l])
    BY Headers DEF Sound, Live, Chains
  <1>2. x \in Pointer
    BY <1>1, ElementOfSeq DEF In, Pointer, Chains
  <1>3. /\ m2 \in Heap /\ m2.node = m.node /\ m2.block = m.block
        /\ m2.head = [m.head EXCEPT ![l].next = x]
    BY <1>1, <1>2 DEF Heap, Header, CursorAt
  <1>4. /\ m2.head[l] \in Header /\ m2.head[l].next = x
        /\ m2.head[l].first = m.head[l].first /\ m2.head[l].last = m.head[l].last
        /\ \A h \in Lists : h # l => m2.head[h] = m.head[h]
    BY <1>1, <1>2, <1>3 DEF Heap, Header
  <1>5. Live(m2) = Live(m)
    BY <1>1, <1>3, <1>4, Headers DEF Live
  <1>6. Chain(m2, l, c[l])
    <2>1. CursorIn(m2.head[l], c[l])
      BY <1>4 DEF CursorIn, In
    <2>2. Ends(m2.head[l], c[l])
      BY <1>1, <1>4 DEF Chain, Ends
    <2> QED BY <1>1, <1>3, <2>1, <2>2 DEF Chain, Leads, Backs
  <1>7. Chains(m2, c)
    <2>1. \A h \in Lists : h # l /\ Chain(m, h, c[h]) => Chain(m2, h, c[h])
      BY <1>3, <1>4, ChainKept
    <2>2. ASSUME NEW h \in Lists PROVE IF m2.head[h] = Gone THEN c[h] = <<>> ELSE Chain(m2, h, c[h])
      BY <1>1, <1>4, <1>5, <1>6, <2>1 DEF Chains, Live
    <2> QED BY <1>1, <1>3, <2>2 DEF Chains
  <1>8. Owned(m2) /\ \A h \in Lists : OnceEach(m2, c[h])
    BY <1>3 DEF Sound, Owned, OnceEach
  <1> QED BY <1>3, <1>4, <1>5, <1>7, <1>8 DEF Sound

\* Where the nodes behind place p were before it was taken out.
Up(k, p) == IF k < p THEN k ELSE k + 1

\* A list without the node at place p.
LEMMA Removed ==
    ASSUME NEW S, NEW w \in Seq(S), NEW p \in 1..Len(w), NEW v, v = RemoveAt(w, p)
    PROVE  /\ v \in Seq(S) /\ Len(w) \in Nat \ {0} /\ Len(v) = Len(w) - 1
           /\ \A k \in 1..(Len(w) - 1) : v[k] = w[Up(k, p)]
  <1> DEFINE a == SubSeq(w, 1, p - 1)
             b == SubSeq(w, p + 1, Len(w))
             z == Len(w)
  <1>1. z \in Nat /\ p \in Nat /\ 1 <= p /\ p <= z
    BY LenProperties
  <1>2. v = a \o b
    BY DEF RemoveAt
  <1>3. /\ a \in Seq(S) /\ Len(a) = p - 1
        /\ \A k \in 1..(p - 1) : a[k] = w[k]
    <2>1. /\ a \in Seq(S) /\ Len(a) = IF 1 <= p - 1 THEN p - 1 - 1 + 1 ELSE 0
          /\ \A k \in 1..(p - 1 - 1 + 1) : a[k] = w[1 + k - 1]
      BY <1>1, SubSeqProperties
    <2>2. p - 1 - 1 + 1 = p - 1 /\ (~(1 <= p - 1) => p - 1 = 0)
          /\ \A k \in 1..(p - 1) : 1 + k - 1 = k
      BY <1>1
    <2> HIDE DEF a
    <2> QED BY <2>1, <2>2
  <1>4. /\ b \in Seq(S) /\ Len(b) = z - p
        /\ \A k \in 1..(z - p) : b[k] = w[p + k]
    <2>1. /\ b \in Seq(S) /\ Len(b) = IF p + 1 <= z THEN z - (p + 1) + 1 ELSE 0
          /\ \A k \in 1..(z - (p + 1) + 1) : b[k] = w[(p + 1) + k - 1]
      BY <1>1, SubSeqProperties
    <2> HIDE DEF b, z
    <2>2. z - (p + 1) + 1 = z - p /\ (~(p + 1 <= z) => z - p = 0)
          /\ \A k \in 1..(z - p) : (p + 1) + k - 1 = p + k
      BY <1>1
    <2> QED BY <2>1, <2>2
  <1> HIDE DEF a, b
  <1>5. /\ v \in Seq(S) /\ Len(v) = Len(a) + Len(b)
        /\ \A k \in 1..(Len(a) + Len(b)) : v[k] = IF k <= Len(a) THEN a[k] ELSE b[k - Len(a)]
    <2>1. a \in Seq(S) /\ b \in Seq(S)
      BY <1>3, <1>4
    <2>2. /\ a \o b \in Seq(S) /\ Len(a \o b) = Len(a) + Len(b)
          /\ \A k \in 1..(Len(a) + Len(b)) :
                (a \o b)[k] = IF k <= Len(a) THEN a[k] ELSE b[k - Len(a)]
      BY ONLY <2>1, ConcatProperties, Zenon
    <2> QED BY <1>2, <2>2
  <1> HIDE DEF z
  <1>6. Len(a) + Len(b) = z - 1
    BY <1>1, <1>3, <1>4
  <1>7. ASSUME NEW k \in 1..(z - 1) PROVE v[k] = w[Up(k, p)]
    <2>1. CASE k < p
      <3>1. k \in 1..(p - 1) /\ k <= Len(a) /\ Up(k, p) = k
        BY <1>1, <1>3, <2>1 DEF Up
      <3> QED BY <1>3, <1>5, <1>6, <3>1
    <2>2. CASE ~(k < p)
      <3>1. /\ k - (p - 1) \in 1..(z - p) /\ ~(k <= Len(a)) /\ Up(k, p) = k + 1
            /\ p + (k - (p - 1)) = k + 1
        BY <1>1, <1>3, <2>2 DEF Up
      <3>2. v[k] = b[k - (p - 1)]
        BY <1>3, <1>5, <1>6, <3>1
      <3> QED BY <1>4, <3>1, <3>2
    <2> QED BY <2>1, <2>2
  <1> QED BY <1>1, <1>5, <1>6, <1>7 DEF z

\* All the other nodes are still there.
LEMMA RemovedIn ==
    ASSUME NEW w \in Seq(Node), Once(w), NEW p \in 1..Len(w), NEW v, v = RemoveAt(w, p)
    PROVE  /\ \A x : In(x, v) <=> In(x, w) /\ x # w[p]
           /\ \A k \in 1..Len(v) : Up(k, p) \in 1..Len(w) /\ v[k] = w[Up(k, p)] /\ Up(k, p) # p
           /\ \A j, k \in 1..Len(v) : Up(j, p) = Up(k, p) => j = k
  <1> DEFINE z == Len(w)
  <1>1. /\ z \in Nat \ {0} /\ Len(v) = z - 1 /\ \A k \in 1..(z - 1) : v[k] = w[Up(k, p)]
        /\ p \in 1..z
    BY Removed
  <1> HIDE DEF z
  <1>2. \A k \in 1..(z - 1) : Up(k, p) \in 1..z /\ Up(k, p) # p
    BY <1>1 DEF Up
  <1>3. \A j, k \in 1..(z - 1) : Up(j, p) = Up(k, p) => j = k
    BY <1>1 DEF Up
  <1>4. ASSUME NEW x, In(x, v) PROVE In(x, w) /\ x # w[p]
    <2>1. PICK k \in 1..(z - 1) : v[k] = x
      BY <1>1, <1>4 DEF In
    <2> QED BY <1>1, <1>2, <2>1 DEF In, Once, z
  <1>5. ASSUME NEW x, In(x, w), x # w[p] PROVE In(x, v)
    <2>1. PICK i \in 1..z : w[i] = x
      BY <1>5 DEF In, z
    <2> DEFINE k == IF i < p THEN i ELSE i - 1
    <2>2. k \in 1..(z - 1) /\ Up(k, p) = i
      BY <1>1, <1>5, <2>1 DEF Up
    <2> QED BY <1>1, <2>1, <2>2 DEF In
  <1> QED BY <1>1, <1>2, <1>3, <1>4, <1>5 DEF z

\* The pointers of a node after the one at place p has gone.
LEMMA WithoutIs ==
    ASSUME NEW m \in Heap, NEW c, Chains(m, c), NEW l \in Live(m), NEW p \in 1..Len(c[l]),
           NEW n, n = c[l][p], NEW node, node = Without(m, n),
           NEW pv, pv = (IF p = 1 THEN 0 ELSE c[l][p - 1]),
           NEW nx, nx = (IF p = Len(c[l]) THEN 0 ELSE c[l][p + 1])
    PROVE  /\ node[n] = Free /\ n \in Node /\ pv \in Pointer /\ nx \in Pointer
           /\ m.node[n].next = nx /\ m.node[n].prev = pv
           /\ node \in [Node -> [item : Pointer \cup Static, size : {0, 1},
                                 prev : Pointer, next : Pointer]]
           /\ \A x \in Node : x # n =>
                 /\ node[x].item = m.node[x].item /\ node[x].size = m.node[x].size
                 /\ node[x].next = (IF x = pv THEN nx ELSE m.node[x].next)
                 /\ node[x].prev = (IF x = nx THEN pv ELSE m.node[x].prev)
                 /\ x # pv /\ x # nx => node[x] = m.node[x]
  <1> DEFINE w == c[l]
             Cell == [item : Pointer \cup Static, size : {0, 1}, prev : Pointer, next : Pointer]
  <1>1. l \in Lists /\ w \in Seq(Node) /\ Chain(m, l, w)
    BY Headers DEF Live, Chains
  <1>2. Len(w) \in Nat /\ p \in 1..Len(w) /\ \A k \in 1..Len(w) : w[k] \in Node
    BY <1>1, LenProperties, ElementOfSeq
  <1>3. /\ n \in Node /\ m.node[n].next = nx /\ m.node[n].prev = pv
    BY <1>1, <1>2 DEF Chain, Leads, Backs
  <1>4. pv \in Pointer /\ nx \in Pointer
    <2>1. p # 1 => p - 1 \in 1..Len(w)
      BY <1>2
    <2>2. p # Len(w) => p + 1 \in 1..Len(w)
      BY <1>2
    <2> QED BY <1>2, <2>1, <2>2 DEF Pointer
  <1>5. m.node \in [Node -> Cell]
    BY DEF Heap
  <1> HIDE DEF w
  <1>6. \A x \in Node : node[x] = IF x = n THEN Free
                                  ELSE [m.node[x] EXCEPT
                                          !.next = IF x = pv THEN nx ELSE @,
                                          !.prev = IF x = nx THEN pv ELSE @]
    BY <1>3 DEF Without
  <1>7. Free \in Cell
    BY DEF Free, Pointer
  <1>8. ASSUME NEW x \in Node, x # n
        PROVE  /\ node[x] \in Cell
               /\ node[x].item = m.node[x].item /\ node[x].size = m.node[x].size
               /\ node[x].next = (IF x = pv THEN nx ELSE m.node[x].next)
               /\ node[x].prev = (IF x = nx THEN pv ELSE m.node[x].prev)
               /\ x # pv /\ x # nx => node[x] = m.node[x]
    <2>1. m.node[x] \in Cell
      BY <1>5
    <2>2. node[x] = [m.node[x] EXCEPT !.next = IF x = pv THEN nx ELSE @,
                                      !.prev = IF x = nx THEN pv ELSE @]
      BY <1>6, <1>8
    <2> QED BY <1>4, <2>1, <2>2
  <1>9. node \in [Node -> Cell]
    <2>1. node = [x \in Node |-> node[x]]
      BY DEF Without
    <2>2. \A x \in Node : node[x] \in Cell
      <3> TAKE x \in Node
      <3>1. CASE x = n
        BY <1>6, <1>7, <3>1
      <3>2. CASE x # n
        BY <1>8, <3>2
      <3> QED BY <3>1, <3>2
    <2> HIDE DEF Cell
    <2> QED BY <2>1, <2>2
  <1> QED BY <1>3, <1>4, <1>6, <1>8, <1>9

\* m2 is m without the node at place p of list l.
Unlinks(m, c, l, p, n, m2, c2) ==
    /\ m2 \in Heap /\ Chains(m2, c2) /\ Live(m2) = Live(m)
    /\ FreeNodes(m2) = FreeNodes(m) \cup {n} /\ n \in Node \ FreeNodes(m)
    /\ m2.block = [m.block EXCEPT ![m.node[n].item] = 0]
    /\ m2.node[n] = Free
    /\ \A x \in Node : x # n => /\ m2.node[x].item = m.node[x].item
                                /\ m2.node[x].size = m.node[x].size
    /\ \A h \in Lists : h # l => m2.head[h] = m.head[h]
    /\ m2.head[l].next = IF m.head[l].next # n THEN m.head[l].next
                         ELSE IF p = Len(c[l]) THEN 0 ELSE c[l][p + 1]

\* list_delete() takes the node out of its list, wherever it is.
LEMMA UnlinkedChains ==
    ASSUME NEW m \in Heap, NEW c, Chains(m, c), Owned(m), NEW l \in Live(m), NEW p \in 1..Len(c[l]),
           NEW n, n = c[l][p], m.node[n].item \in Node, NEW m2, m2 = Unlinked(m, l, n),
           NEW c2, c2 = [c EXCEPT ![l] = RemoveAt(c[l], p)]
    PROVE  Unlinks(m, c, l, p, n, m2, c2)
  <1> DEFINE w  == c[l]
             v  == c2[l]
             z  == Len(w)
             pv == IF p = 1 THEN 0 ELSE w[p - 1]
             nx == IF p = z THEN 0 ELSE w[p + 1]
             hd == m.head[l]
             Cell == [item : Pointer \cup Static, size : {0, 1}, prev : Pointer, next : Pointer]
             new == [first |-> IF hd.first = n THEN nx ELSE hd.first,
                     last  |-> IF hd.last = n THEN pv ELSE hd.last,
                     next  |-> IF hd.next = n THEN nx ELSE hd.next]
  <1>1. /\ l \in Lists /\ w \in Seq(Node) /\ Chain(m, l, w) /\ Once(w) /\ hd \in Header
        /\ c \in [Lists -> Seq(Node)] /\ Apart(c)
    BY Headers DEF Live, Chains, Apart, Once
  <1>2. /\ m2.node[n] = Free /\ n \in Node /\ pv \in Pointer /\ nx \in Pointer
        /\ m.node[n].next = nx /\ m.node[n].prev = pv
        /\ m2.node \in [Node -> Cell]
        /\ \A x \in Node : x # n =>
              /\ m2.node[x].item = m.node[x].item /\ m2.node[x].size = m.node[x].size
              /\ m2.node[x].next = (IF x = pv THEN nx ELSE m.node[x].next)
              /\ m2.node[x].prev = (IF x = nx THEN pv ELSE m.node[x].prev)
              /\ x # pv /\ x # nx => m2.node[x] = m.node[x]
    <2>1. m2.node = Without(m, n)
      BY DEF Unlinked
    <2> QED BY <2>1, WithoutIs
  <1> HIDE DEF pv, nx
  <1>3. /\ m2.block = [m.block EXCEPT ![m.node[n].item] = 0]
        /\ m2.head = [m.head EXCEPT ![l] = new]
        /\ m2 = [node |-> m2.node, block |-> m2.block, head |-> m2.head]
    BY <1>2 DEF Unlinked
  <1>4. /\ m2.head[l] = new /\ new \in Header
        /\ \A h \in Lists : h # l => m2.head[h] = m.head[h]
    <2>1. new \in Header
      BY <1>1, <1>2 DEF Header
    <2> HIDE DEF new
    <2> QED BY <1>1, <1>3, <2>1 DEF Heap
  <1>5. m2 \in Heap
    <2>1. m2.block \in [Node -> {0} \cup Val]
      BY <1>3 DEF Heap
    <2>2. m2.head \in [Lists -> {Gone} \cup Header]
      <3> HIDE DEF new
      <3> QED BY <1>3, <1>4 DEF Heap
    <2> HIDE DEF new
    <2> QED BY <1>2, <1>3, <2>1, <2>2 DEF Heap
  <1>6. Live(m2) = Live(m)
    <2> HIDE DEF new
    <2> QED BY <1>1, <1>4, Headers DEF Live
  <1>7. /\ v = RemoveAt(w, p) /\ \A h \in Lists : h # l => c2[h] = c[h]
        /\ v \in Seq(Node) /\ z \in Nat \ {0} /\ Len(v) = z - 1
        /\ c2 \in [Lists -> Seq(Node)]
    <2>1. RemoveAt(w, p) \in Seq(Node) /\ z \in Nat \ {0} /\ Len(RemoveAt(w, p)) = z - 1
      BY <1>1, Removed
    <2> QED BY <1>1, <2>1
  <1>8. /\ \A x : In(x, v) <=> In(x, w) /\ x # n
        /\ \A k \in 1..Len(v) : Up(k, p) \in 1..z /\ v[k] = w[Up(k, p)] /\ Up(k, p) # p
        /\ \A j, k \in 1..Len(v) : Up(j, p) = Up(k, p) => j = k
    BY <1>1, <1>7, RemovedIn
  <1>9. /\ p \in 1..z /\ z = Len(w) /\ \A k \in 1..z : w[k] \in Node /\ w[k] # 0 /\ In(w[k], w)
        /\ \A j, k \in 1..z : w[j] = w[k] => j = k
    BY <1>1, ElementOfSeq, HeapAssumption DEF Once, Node, In
  <1>10. \A k \in 1..z : (w[k] = n <=> k = p) /\ (w[k] = pv <=> k + 1 = p) /\ (w[k] = nx <=> k = p + 1)
    <2> TAKE k \in 1..z
    <2>1. w[k] = n <=> k = p
      BY <1>9
    <2>2. w[k] = pv <=> k + 1 = p
      <3>1. CASE p = 1
        BY <1>9, <3>1 DEF pv
      <3>2. CASE p # 1
        <4>1. p - 1 \in 1..z /\ (k + 1 = p <=> k = p - 1)
          BY <1>9, <3>2
        <4> QED BY <1>9, <3>2, <4>1 DEF pv
      <3> QED BY <3>1, <3>2
    <2>3. w[k] = nx <=> k = p + 1
      <3>1. CASE p = z
        BY <1>9, <3>1 DEF nx
      <3>2. CASE p # z
        <4>1. p + 1 \in 1..z
          BY <1>7, <1>9, <3>2
        <4> QED BY <1>9, <3>2, <4>1 DEF nx
      <3> QED BY <3>1, <3>2
    <2> QED BY <2>1, <2>2, <2>3
  <1>11. (pv = 0 \/ In(pv, w)) /\ (nx = 0 \/ In(nx, w))
    <2>1. p # 1 => p - 1 \in 1..z
      BY <1>9
    <2>2. p # z => p + 1 \in 1..z
      BY <1>7, <1>9
    <2> QED BY <1>9, <2>1, <2>2 DEF pv, nx
  <1> HIDE DEF v, z, new, Cell
  <1>12. ASSUME NEW h \in Lists, h # l, m2.head[h] # Gone PROVE Chain(m2, h, c2[h])
    <2>1. Chain(m, h, c[h]) /\ c[h] \in Seq(Node) /\ c2[h] = c[h] /\ m2.head[h] = m.head[h]
      BY <1>1, <1>4, <1>7, <1>12 DEF Chains
    <2>2. ASSUME NEW k \in 1..Len(c[h]) PROVE m2.node[c[h][k]] = m.node[c[h][k]]
      <3>1. c[h][k] \in Node /\ c[h][k] # 0 /\ ~In(c[h][k], w)
        BY <1>1, <1>12, <2>1, ElementOfSeq, HeapAssumption DEF In, Apart, Node
      <3>2. In(n, w)
        BY <1>9
      <3> QED BY <1>2, <1>11, <3>1, <3>2
    <2> QED BY <2>1, <2>2, ChainKept
  <1>13. Leads(m2, v)
    <2> SUFFICES ASSUME NEW k \in 1..Len(v)
                 PROVE  m2.node[v[k]].next = IF k = Len(v) THEN 0 ELSE v[k + 1]
      BY DEF Leads
    <2> DEFINE u == Up(k, p)
    <2>1. u \in 1..z /\ v[k] = w[u] /\ u # p /\ w[u] \in Node /\ w[u] # n
      BY <1>8, <1>9, <1>10
    <2>2. m2.node[w[u]].next = IF u + 1 = p THEN nx ELSE IF u = z THEN 0 ELSE w[u + 1]
      BY <1>1, <1>2, <1>9, <1>10, <2>1 DEF Chain, Leads
    <2>3. k \in 1..(z - 1) /\ z \in Nat /\ p \in 1..z /\ u = IF k < p THEN k ELSE k + 1
      BY <1>7, <1>9 DEF Up
    <2> HIDE DEF u
    <2>4. CASE k = z - 1
      <3>1. (u + 1 = p => p = z) /\ (u + 1 # p => u = z)
        BY <2>3, <2>4
      <3> QED BY <1>7, <2>1, <2>2, <2>4, <3>1 DEF nx
    <2>5. CASE k # z - 1
      <3>1. k + 1 \in 1..(z - 1)
        BY <2>3, <2>5
      <3>2. v[k + 1] = w[Up(k + 1, p)]
        BY <1>7, <1>8, <3>1
      <3>3. CASE u + 1 = p
        <4>1. Up(k + 1, p) = p + 1 /\ p # z
          BY <2>3, <3>1, <3>3 DEF Up
        <4> QED BY <1>7, <2>1, <2>2, <2>5, <3>2, <3>3, <4>1 DEF nx
      <3>4. CASE u + 1 # p
        <4>1. Up(k + 1, p) = u + 1 /\ u # z
          BY <2>3, <3>1, <3>4 DEF Up
        <4> QED BY <1>7, <2>1, <2>2, <2>5, <3>2, <3>4, <4>1
      <3> QED BY <3>3, <3>4
    <2> QED BY <2>4, <2>5
  <1>14. Backs(m2, v)
    <2> SUFFICES ASSUME NEW k \in 1..Len(v)
                 PROVE  m2.node[v[k]].prev = IF k = 1 THEN 0 ELSE v[k - 1]
      BY DEF Backs
    <2> DEFINE u == Up(k, p)
    <2>1. u \in 1..z /\ v[k] = w[u] /\ u # p /\ w[u] \in Node /\ w[u] # n
      BY <1>8, <1>9, <1>10
    <2>2. m2.node[w[u]].prev = IF u = p + 1 THEN pv ELSE IF u = 1 THEN 0 ELSE w[u - 1]
      BY <1>1, <1>2, <1>9, <1>10, <2>1 DEF Chain, Backs
    <2>3. k \in 1..(z - 1) /\ z \in Nat /\ p \in 1..z /\ u = IF k < p THEN k ELSE k + 1
      BY <1>7, <1>9 DEF Up
    <2> HIDE DEF u
    <2>4. CASE k = 1
      <3>1. (u = p + 1 => p = 1) /\ (u # p + 1 => u = 1)
        BY <2>1, <2>3, <2>4
      <3> QED BY <2>1, <2>2, <2>4, <3>1 DEF pv
    <2>5. CASE k # 1
      <3>1. k - 1 \in 1..(z - 1)
        BY <2>3, <2>5
      <3>2. v[k - 1] = w[Up(k - 1, p)]
        BY <1>7, <1>8, <3>1
      <3>3. CASE u = p + 1
        <4>1. Up(k - 1, p) = p - 1 /\ p # 1
          BY <2>3, <2>5, <3>1, <3>3 DEF Up
        <4> QED BY <2>1, <2>2, <2>5, <3>2, <3>3, <4>1 DEF pv
      <3>4. CASE u # p + 1
        <4>1. Up(k - 1, p) = u - 1 /\ u # 1
          BY <2>1, <2>3, <2>5, <3>1, <3>4 DEF Up
        <4> QED BY <2>1, <2>2, <2>5, <3>2, <3>4, <4>1
      <3> QED BY <3>3, <3>4
    <2> QED BY <2>4, <2>5
  <1>15. Ends(m2.head[l], v)
    <2>1. /\ w # <<>> /\ hd.first = w[1] /\ hd.last = w[z]
          /\ 1 \in 1..z /\ z \in 1..z /\ (v = <<>> <=> z = 1)
      <3>1. (v = <<>> <=> Len(v) = 0) /\ (w = <<>> <=> z = 0)
        BY <1>1, <1>7, <1>9, EmptySeq
      <3>2. w # <<>> /\ (v = <<>> <=> z = 1)
        BY <1>7, <3>1
      <3> QED BY <1>1, <1>7, <1>9, <3>2 DEF Chain, Ends
    <2>2. /\ m2.head[l].first = IF p = 1 THEN nx ELSE w[1]
          /\ m2.head[l].last  = IF p = z THEN pv ELSE w[z]
      BY <1>4, <1>10, <2>1 DEF new
    <2>3. z # 1 => /\ 1 \in 1..Len(v) /\ z - 1 \in 1..Len(v)
                   /\ Up(1, p) = (IF p = 1 THEN 2 ELSE 1)
                   /\ Up(z - 1, p) = (IF p = z THEN z - 1 ELSE z)
      BY <1>7, <1>9 DEF Up
    <2>4. z # 1 => /\ v[1] = w[IF p = 1 THEN 2 ELSE 1]
                   /\ v[z - 1] = w[IF p = z THEN z - 1 ELSE z]
      BY <1>8, <2>3
    <2>5. /\ nx = IF p = z THEN 0 ELSE w[p + 1]
          /\ pv = IF p = 1 THEN 0 ELSE w[p - 1]
      BY DEF nx, pv, z
    <2>6. z = 1 => p = 1 /\ p = z
      BY <1>9
    <2> QED BY <1>7, <2>1, <2>2, <2>4, <2>5, <2>6 DEF Ends
  <1>16. CursorIn(m2.head[l], v)
    <2>1. m2.head[l].next = IF hd.next = n THEN nx ELSE hd.next
      BY <1>4 DEF new
    <2>2. hd.next = 0 \/ In(hd.next, w)
      BY <1>1 DEF Chain, CursorIn, In
    <2>3. nx # n
      <3>1. p # p + 1 /\ n = w[p]
        BY <1>9
      <3> QED BY <1>9, <1>10, <3>1
    <2>4. m2.head[l].next = 0 \/ In(m2.head[l].next, v)
      BY <1>8, <1>11, <2>1, <2>2, <2>3
    <2> QED BY <2>4 DEF CursorIn, In
  <1>17. Apart(c2)
    <2> SUFFICES ASSUME NEW h \in Lists, NEW i \in Lists, NEW j \in 1..Len(c2[h]), NEW k \in 1..Len(c2[i]),
                        c2[h][j] = c2[i][k]
                 PROVE  h = i /\ j = k
      BY DEF Apart
    <2>1. \A g \in Lists : \A k1 \in 1..Len(c2[g]) :
             \E k2 \in 1..Len(c[g]) : /\ c2[g][k1] = c[g][k2]
                                      /\ k2 = IF g = l THEN Up(k1, p) ELSE k1
      <3> SUFFICES ASSUME NEW g \in Lists, NEW k1 \in 1..Len(c2[g])
                   PROVE  \E k2 \in 1..Len(c[g]) : /\ c2[g][k1] = c[g][k2]
                                                   /\ k2 = IF g = l THEN Up(k1, p) ELSE k1
        OBVIOUS
      <3>1. CASE g = l
        BY <1>8, <1>9, <3>1 DEF v
      <3>2. CASE g # l
        BY <1>7, <3>2
      <3> QED BY <3>1, <3>2
    <2>2. PICK j2 \in 1..Len(c[h]) : c2[h][j] = c[h][j2] /\ j2 = IF h = l THEN Up(j, p) ELSE j
      BY <2>1
    <2>3. PICK k2 \in 1..Len(c[i]) : c2[i][k] = c[i][k2] /\ k2 = IF i = l THEN Up(k, p) ELSE k
      BY <2>1
    <2>4. h = i /\ j2 = k2
      BY <1>1, <2>2, <2>3 DEF Apart
    <2> QED BY <1>8, <2>2, <2>3, <2>4 DEF v
  <1>18. \A x \in Node : m2.node[x] # Free <=> x # n /\ m.node[x] # Free
    <2> TAKE x \in Node
    <2>1. CASE x = n
      BY <1>2, <2>1
    <2>2. CASE x # n /\ m.node[x] = Free
      <3>1. ~In(x, w) /\ x # 0
        BY <1>1, <2>2, HeapAssumption DEF Chains, Node
      <3> QED BY <1>2, <1>11, <2>2, <3>1
    <2>3. CASE x # n /\ m.node[x] # Free
      <3>1. m.node[x].item # 0
        BY <2>3, HeapAssumption DEF Owned, Node
      <3>2. m2.node[x].item # 0
        BY <1>2, <2>3, <3>1
      <3> QED BY <2>3, <3>2 DEF Free
    <2> QED BY <2>1, <2>2, <2>3
  <1>19. \A x \in Node : m2.node[x] # Free <=> \E h \in Lists : In(x, c2[h])
    <2>1. In(n, w) /\ \A h \in Lists : h # l => ~In(n, c[h])
      BY <1>1, <1>9 DEF Apart, In
    <2> QED BY <1>1, <1>7, <1>8, <1>18, <2>1 DEF Chains, v
  <1>20. Chains(m2, c2)
    <2>1. ASSUME NEW h \in Lists PROVE IF m2.head[h] = Gone THEN c2[h] = <<>> ELSE Chain(m2, h, c2[h])
      <3>1. CASE h = l
        <4>1. m2.head[l] # Gone
          BY <1>4, <1>5, Headers
        <4>2. Chain(m2, l, v)
          BY <1>13, <1>14, <1>15, <1>16 DEF Chain
        <4> QED BY <3>1, <4>1, <4>2 DEF v
      <3>2. CASE h # l
        BY <1>4, <1>7, <1>12, <3>2 DEF Chains
      <3> QED BY <3>1, <3>2
    <2> QED BY <1>7, <1>17, <1>19, <2>1 DEF Chains
  <1>21. FreeNodes(m2) = FreeNodes(m) \cup {n} /\ n \in Node \ FreeNodes(m)
    <2>1. In(n, w)
      BY <1>9
    <2>2. m.node[n] # Free
      BY <1>1, <1>2, <2>1 DEF Chains
    <2> QED BY <1>2, <1>18, <2>2 DEF FreeNodes
  <1>22. m2.head[l].next = IF hd.next # n THEN hd.next ELSE IF p = Len(w) THEN 0 ELSE w[p + 1]
    BY <1>4 DEF new, nx, z
  <1> QED BY <1>2, <1>3, <1>4, <1>5, <1>6, <1>20, <1>21, <1>22 DEF Unlinks

\* So does its item: list_delete() leaves a list of the other items.
LEMMA UnlinkedIs ==
    ASSUME NEW m, NEW c, Sound(m, c), NEW l \in Live(m), NEW p \in 1..Len(c[l]),
           NEW n, n = c[l][p], m.node[n].size = 1, NEW m2, m2 = Unlinked(m, l, n),
           NEW c2, c2 = [c EXCEPT ![l] = RemoveAt(c[l], p)]
    PROVE  /\ Sound(m2, c2) /\ Live(m2) = Live(m)
           /\ \A x \in Node \ FreeNodes(m) : x # n => /\ ItemAt(m2, x) = ItemAt(m, x)
                                                      /\ m2.node[x].size = m.node[x].size
           /\ \A h \in Lists : h # l => m2.head[h] = m.head[h]
           /\ m2.head[l].next = IF m.head[l].next # n THEN m.head[l].next
                                ELSE IF p = Len(c[l]) THEN 0 ELSE c[l][p + 1]
  <1> DEFINE i == m.node[n].item
  <1>1. /\ m \in Heap /\ Chains(m, c) /\ Owned(m) /\ l \in Lists
        /\ c \in [Lists -> Seq(Node)]
    BY DEF Sound, Live, Chains
  <1>2. i \in Node
    BY <1>1, UsedHolds DEF Owned
  <1> HIDE DEF i
  <1>3. /\ m2 \in Heap /\ Chains(m2, c2) /\ Live(m2) = Live(m)
        /\ FreeNodes(m2) = FreeNodes(m) \cup {n} /\ n \in Node \ FreeNodes(m)
        /\ m2.block = [m.block EXCEPT ![i] = 0]
        /\ m2.node[n] = Free
        /\ \A x \in Node : x # n => /\ m2.node[x].item = m.node[x].item
                                    /\ m2.node[x].size = m.node[x].size
        /\ \A h \in Lists : h # l => m2.head[h] = m.head[h]
        /\ m2.head[l].next = IF m.head[l].next # n THEN m.head[l].next
                             ELSE IF p = Len(c[l]) THEN 0 ELSE c[l][p + 1]
    <2>1. m.node[n].item \in Node
      BY <1>2 DEF i
    <2>2. Unlinks(m, c, l, p, n, m2, c2)
      BY <1>1, <2>1, UnlinkedChains
    <2> QED BY <2>2 DEF Unlinks, i
  <1>4. m2.block[i] = 0 /\ \A b \in Node : b # i => m2.block[b] = m.block[b]
    BY <1>1, <1>2, <1>3 DEF Heap
  <1>5. \A x \in Node \ FreeNodes(m) : x # n => m.node[x].item # i
    <2> TAKE x \in Node \ FreeNodes(m)
    <2> HAVE x # n
    <2>1. CASE m.node[x].size = 1
      BY <1>1, <1>3, <2>1 DEF Owned, i
    <2>2. CASE m.node[x].size # 1
      <3>1. m.node[x].item \in Static
        BY <1>1, <2>2 DEF Owned, FreeNodes
      <3> QED BY <1>2, <3>1, HeapAssumption DEF Node
    <2> QED BY <2>1, <2>2
  <1>6. \A x \in Node \ FreeNodes(m) : x # n => /\ ItemAt(m2, x) = ItemAt(m, x)
                                                /\ m2.node[x].size = m.node[x].size
    BY <1>3, <1>4, <1>5 DEF ItemAt, Value
  <1>7. Owned(m2)
    <2>1. \A x \in Node : x # n => (m2.node[x] = Free <=> m.node[x] = Free)
      BY <1>3 DEF FreeNodes
    <2>2. m2.node[n].size = 0
      BY <1>3 DEF Free
    <2>3. ASSUME NEW x \in Node
          PROVE  \/ m2.node[x] = Free
                 \/ m2.node[x].size = 1 /\ m2.node[x].item \in Node
                       /\ m2.block[m2.node[x].item] # 0
                 \/ m2.node[x].size = 0 /\ m2.node[x].item \in Static
      <3>1. CASE x = n \/ m.node[x] = Free
        BY <1>3, <2>1, <3>1
      <3>2. CASE x # n /\ m.node[x] # Free
        BY <1>1, <1>3, <1>4, <1>5, <3>2 DEF Owned, FreeNodes
      <3> QED BY <3>1, <3>2
    <2>4. \A x, y \in Node : m2.node[x].size = 1 /\ m2.node[y].size = 1
                                /\ m2.node[x].item = m2.node[y].item => x = y
      BY <1>1, <1>3, <2>2 DEF Owned
    <2>5. \A b \in Node : m2.block[b] # 0 =>
             \E x \in Node : m2.node[x].size = 1 /\ m2.node[x].item = b
      <3> TAKE b \in Node
      <3> HAVE m2.block[b] # 0
      <3>1. b # i /\ m.block[b] # 0
        BY <1>2, <1>4
      <3>2. PICK x \in Node : m.node[x].size = 1 /\ m.node[x].item = b
        BY <1>1, <3>1 DEF Owned
      <3>3. x # n
        BY <3>1, <3>2 DEF i
      <3> QED BY <1>3, <3>2, <3>3
    <2> QED BY <2>3, <2>4, <2>5 DEF Owned
  <1>8. ASSUME NEW h \in Lists PROVE OnceEach(m2, c2[h])
    <2>1. OnceEach(m, c[h]) /\ Once(c[h]) /\ c[h] \in Seq(Node)
      BY <1>1 DEF Sound, Chains, Apart, Once
    <2>2. CASE h = l
      <3>1. /\ \A k \in 1..Len(c2[l]) : /\ Up(k, p) \in 1..Len(c[l])
                                        /\ c2[l][k] = c[l][Up(k, p)] /\ Up(k, p) # p
            /\ \A j, k \in 1..Len(c2[l]) : Up(j, p) = Up(k, p) => j = k
        <4>1. c2[l] = RemoveAt(c[l], p)
          BY <1>1
        <4> QED BY <2>1, <2>2, <4>1, RemovedIn
      <3>2. \A k \in 1..Len(c2[l]) : m2.node[c2[l][k]].item = m.node[c[l][Up(k, p)]].item
        <4> TAKE k \in 1..Len(c2[l])
        <4>1. c2[l][k] \in Node /\ c2[l][k] # n
          BY <2>1, <2>2, <3>1, ElementOfSeq DEF Once
        <4> QED BY <1>3, <3>1, <4>1
      <3> SUFFICES ASSUME NEW j \in 1..Len(c2[l]), NEW k \in 1..Len(c2[l]),
                          m2.node[c2[l][j]].item = m2.node[c2[l][k]].item
                   PROVE  j = k
        BY <2>2 DEF OnceEach
      <3>3. m.node[c[l][Up(j, p)]].item = m.node[c[l][Up(k, p)]].item
        BY <3>2
      <3>4. Up(j, p) = Up(k, p)
        BY <2>1, <2>2, <3>1, <3>3 DEF OnceEach
      <3> QED BY <3>1, <3>4
    <2>3. CASE h # l
      <3>1. c2[h] = c[h]
        BY <1>1, <2>3
      <3>2. \A k \in 1..Len(c[h]) : m2.node[c[h][k]].item = m.node[c[h][k]].item
        <4> TAKE k \in 1..Len(c[h])
        <4>1. c[h][k] \in Node /\ c[h][k] # n
          BY <1>1, <2>1, <2>3, ElementOfSeq DEF Chains, Apart
        <4> QED BY <1>3, <4>1
      <3> QED BY <2>1, <3>1, <3>2 DEF OnceEach
    <2> QED BY <2>2, <2>3
  <1> QED BY <1>3, <1>6, <1>7, <1>8 DEF Sound

\* list_destroy() frees the nodes and copies of its list, and no other.
LEMMA DestroyedIs ==
    ASSUME NEW m, NEW c, Sound(m, c), NEW l \in Live(m), NEW m2, m2 = Destroyed(m, l),
           NEW c2, c2 = [c EXCEPT ![l] = <<>>]
    PROVE  /\ Sound(m2, c2) /\ Live(m2) = Live(m) \ {l}
           /\ \A x \in Node \ FreeNodes(m) : ~In(x, c[l]) =>
                 ItemAt(m2, x) = ItemAt(m, x) /\ m2.node[x].size = m.node[x].size
           /\ \A h \in Lists : h # l => m2.head[h] = m.head[h]
  <1> DEFINE w == c[l]
             gone == ToSet(Walk(m, l))
             held == {m.node[n].item : n \in {x \in gone : m.node[x].size > 0}}
  <1>1. /\ m \in Heap /\ Chains(m, c) /\ Owned(m) /\ l \in Lists /\ w \in Seq(Node)
        /\ c \in [Lists -> Seq(Node)] /\ Apart(c) /\ Gone \notin Header
    BY Headers DEF Sound, Live, Chains
  <1>2. /\ m.node \in [Node -> [item : Pointer \cup Static, size : {0, 1},
                                prev : Pointer, next : Pointer]]
        /\ m.block \in [Node -> {0} \cup Val] /\ m.head \in [Lists -> {Gone} \cup Header]
    BY <1>1 DEF Heap
  <1>3. \A x : x \in gone <=> In(x, w)
    <2>1. Walk(m, l) = w
      BY <1>1, WalkIs
    <2>2. DOMAIN w = 1..Len(w)
      BY <1>1, LenProperties
    <2> QED BY <2>1, <2>2 DEF ToSet, In
  <1>4. /\ m2.node = [n \in Node |-> IF n \in gone THEN Free ELSE m.node[n]]
        /\ m2.block = [b \in Node |-> IF b \in held THEN 0 ELSE m.block[b]]
        /\ m2.head = [m.head EXCEPT ![l] = Gone]
        /\ m2 = [node |-> m2.node, block |-> m2.block, head |-> m2.head]
    BY DEF Destroyed
  <1>5. \A b : b \in held <=> \E n \in Node : In(n, w) /\ m.node[n].size = 1 /\ m.node[n].item = b
    <2>1. \A n : In(n, w) => n \in Node
      BY <1>1, ElementOfSeq DEF In
    <2>2. \A n \in Node : m.node[n].size > 0 <=> m.node[n].size = 1
      BY <1>2
    <2> HIDE DEF gone, w
    <2> QED BY <1>3, <2>1, <2>2
  <1> HIDE DEF gone, held
  <1>6. m2 \in Heap
    <2>1. Free \in [item : Pointer \cup Static, size : {0, 1}, prev : Pointer, next : Pointer]
      BY DEF Free, Pointer
    <2> QED BY <1>2, <1>4, <2>1 DEF Heap
  <1>7. /\ m2.head[l] = Gone /\ \A h \in Lists : h # l => m2.head[h] = m.head[h]
        /\ Live(m2) = Live(m) \ {l}
    BY <1>1, <1>2, <1>4 DEF Live
  <1>8. /\ \A x \in Node : m2.node[x] = IF In(x, w) THEN Free ELSE m.node[x]
        /\ c2[l] = <<>> /\ Len(<<>>) = 0 /\ \A h \in Lists : h # l => c2[h] = c[h]
        /\ c2 \in [Lists -> Seq(Node)]
    <2>1. <<>> \in Seq(Node)
      OBVIOUS
    <2> QED BY <1>1, <1>3, <1>4, <2>1
  <1>9. \A h \in Lists : h # l => \A k \in 1..Len(c[h]) : /\ c[h][k] \in Node /\ ~In(c[h][k], w)
                                                          /\ m2.node[c[h][k]] = m.node[c[h][k]]
    <2> TAKE h \in Lists
    <2> HAVE h # l
    <2> TAKE k \in 1..Len(c[h])
    <2>1. c[h][k] \in Node /\ ~In(c[h][k], w)
      BY <1>1, ElementOfSeq DEF Apart, In
    <2> QED BY <1>8, <2>1
  <1>10. Chains(m2, c2)
    <2>1. Apart(c2)
      <3> SUFFICES ASSUME NEW h \in Lists, NEW i \in Lists,
                          NEW j \in 1..Len(c2[h]), NEW k \in 1..Len(c2[i]), c2[h][j] = c2[i][k]
                   PROVE  h = i /\ j = k
        BY DEF Apart
      <3>1. h # l /\ i # l
        BY <1>8
      <3> QED BY <1>1, <1>8, <3>1 DEF Apart
    <2>2. \A h \in Lists : h # l /\ Chain(m, h, c[h]) => Chain(m2, h, c[h])
      BY <1>7, <1>9, ChainKept
    <2>3. \A h \in Lists : IF m2.head[h] = Gone THEN c2[h] = <<>> ELSE Chain(m2, h, c2[h])
      BY <1>1, <1>7, <1>8, <2>2 DEF Chains
    <2>4. \A n \in Node : m2.node[n] # Free <=> \E h \in Lists : In(n, c2[h])
      <3> TAKE n \in Node
      <3>1. ~In(n, <<>>)
        BY <1>8 DEF In
      <3>2. In(n, w) => \A h \in Lists : h # l => ~In(n, c[h])
        BY <1>9 DEF In
      <3>3. m.node[n] # Free <=> \E h \in Lists : In(n, c[h])
        BY <1>1 DEF Chains
      <3> QED BY <1>1, <1>8, <3>1, <3>2, <3>3
    <2> QED BY <1>8, <2>1, <2>3, <2>4 DEF Chains
  <1>11. \A x \in Node \ FreeNodes(m) : ~In(x, w) => m.node[x].item \notin held
    <2> TAKE x \in Node \ FreeNodes(m)
    <2> HAVE ~In(x, w)
    <2>1. CASE m.node[x].size = 1
      <3> SUFFICES ASSUME m.node[x].item \in held PROVE FALSE
        OBVIOUS
      <3>1. PICK n \in Node : In(n, w) /\ m.node[n].size = 1 /\ m.node[n].item = m.node[x].item
        BY <1>5
      <3>2. n = x
        BY <1>1, <2>1, <3>1 DEF Owned
      <3> QED BY <3>1, <3>2
    <2>2. CASE m.node[x].size # 1
      <3>1. m.node[x].item \in Static
        BY <1>1, <2>2 DEF Owned, FreeNodes
      <3>2. m.node[x].item \notin Node
        BY <3>1, HeapAssumption DEF Node
      <3>3. \A b \in held : b \in Node
        <4> TAKE b \in held
        <4>1. PICK n \in Node : m.node[n].size = 1 /\ m.node[n].item = b
          BY <1>5
        <4>2. m.node[n] # Free
          BY <4>1 DEF Free
        <4> QED BY <1>1, <4>1, <4>2 DEF Owned
      <3> QED BY <3>2, <3>3
    <2> QED BY <2>1, <2>2
  <1>12. \A x \in Node \ FreeNodes(m) : ~In(x, w) =>
            /\ ItemAt(m2, x) = ItemAt(m, x)
            /\ m2.node[x] = m.node[x]
    <2> TAKE x \in Node \ FreeNodes(m)
    <2> HAVE ~In(x, w)
    <2>1. m2.node[x] = m.node[x] /\ m.node[x].item \notin held
      BY <1>8, <1>11
    <2>2. Value(m2, m.node[x].item) = Value(m, m.node[x].item)
      BY <1>4, <2>1 DEF Value
    <2> QED BY <2>1, <2>2 DEF ItemAt
  <1>13. Owned(m2)
    <2>1. ASSUME NEW x \in Node
          PROVE  \/ m2.node[x] = Free
                 \/ m2.node[x].size = 1 /\ m2.node[x].item \in Node
                       /\ m2.block[m2.node[x].item] # 0
                 \/ m2.node[x].size = 0 /\ m2.node[x].item \in Static
      <3>1. CASE In(x, w) \/ m.node[x] = Free
        BY <1>8, <3>1
      <3>2. CASE ~In(x, w) /\ m.node[x] # Free
        BY <1>1, <1>4, <1>8, <1>11, <3>2 DEF Owned, FreeNodes
      <3> QED BY <3>1, <3>2
    <2>2. \A x \in Node : m2.node[x].size = 1 => ~In(x, w) /\ m2.node[x] = m.node[x]
      BY <1>8 DEF Free
    <2>3. \A x, y \in Node : m2.node[x].size = 1 /\ m2.node[y].size = 1
                                /\ m2.node[x].item = m2.node[y].item => x = y
      BY <1>1, <2>2 DEF Owned
    <2>4. \A b \in Node : m2.block[b] # 0 =>
             \E x \in Node : m2.node[x].size = 1 /\ m2.node[x].item = b
      <3> TAKE b \in Node
      <3> HAVE m2.block[b] # 0
      <3>1. b \notin held /\ m.block[b] # 0
        BY <1>4
      <3>2. PICK x \in Node : m.node[x].size = 1 /\ m.node[x].item = b
        BY <1>1, <3>1 DEF Owned
      <3>3. ~In(x, w)
        BY <1>5, <3>1, <3>2
      <3> QED BY <1>8, <3>2, <3>3
    <2> QED BY <2>1, <2>3, <2>4 DEF Owned
  <1>14. ASSUME NEW h \in Lists PROVE OnceEach(m2, c2[h])
    <2>1. CASE h = l
      BY <1>8, <2>1 DEF OnceEach
    <2>2. CASE h # l
      BY <1>8, <1>9, <2>2 DEF OnceEach, Sound
    <2> QED BY <2>1, <2>2
  <1> QED BY <1>6, <1>7, <1>10, <1>12, <1>13, <1>14 DEF Sound

\* list_sort() leaves the nodes, the cursor and the blocks where they are.
LEMMA SwappedIs ==
    ASSUME NEW m, NEW c, Sound(m, c), NEW l \in Live(m),
           NEW p \in 1..Len(c[l]), NEW q \in 1..Len(c[l]), p # q,
           NEW a, a = c[l][p], NEW b, b = c[l][q],
           m.node[a].size = 1, m.node[b].size = 1, NEW m2, m2 = Swapped(m, a, b)
    PROVE  /\ Sound(m2, c) /\ m2.head = m.head /\ m2.block = m.block
           /\ \A x \in Node : /\ ItemAt(m2, x) = ItemAt(m, IF x = a THEN b ELSE IF x = b THEN a ELSE x)
                              /\ m2.node[x].size = m.node[x].size
                              /\ m2.node[x].next = m.node[x].next
  <1> DEFINE Other(x) == IF x = a THEN b ELSE IF x = b THEN a ELSE x
             Cell == [item : Pointer \cup Static, size : {0, 1}, prev : Pointer, next : Pointer]
  <1>1. /\ m \in Heap /\ Chains(m, c) /\ Owned(m) /\ l \in Lists /\ Apart(c)
        /\ c \in [Lists -> Seq(Node)]
    BY DEF Sound, Live, Chains
  <1>2. a \in Node /\ b \in Node /\ a # b /\ m.node[a] # Free /\ m.node[b] # Free
    <2>1. a # b
      BY <1>1 DEF Apart
    <2> QED BY <1>1, <2>1, UsedHolds
  <1>3. m.node \in [Node -> Cell]
    BY <1>1 DEF Heap
  <1>4. /\ m2.node = [m.node EXCEPT ![a].item = m.node[b].item, ![a].size = m.node[b].size,
                                    ![b].item = m.node[a].item, ![b].size = m.node[a].size]
        /\ m2.block = m.block /\ m2.head = m.head
        /\ m2 = [node |-> m2.node, block |-> m2.block, head |-> m2.head]
    BY <1>1 DEF Swapped, Heap
  <1>5. \A x \in Node : /\ m2.node[x] \in Cell
                        /\ m2.node[x].item = m.node[Other(x)].item
                        /\ m2.node[x].size = m.node[x].size
                        /\ m2.node[x].next = m.node[x].next
                        /\ m2.node[x].prev = m.node[x].prev
    <2> TAKE x \in Node
    <2>1. m.node[x] \in Cell /\ m.node[a] \in Cell /\ m.node[b] \in Cell
      BY <1>2, <1>3
    <2>2. CASE x = a
      <3>1. m2.node[x] = [[m.node[a] EXCEPT !.item = m.node[b].item] EXCEPT !.size = m.node[b].size]
        BY <1>2, <1>3, <1>4, <2>2
      <3> QED BY <1>2, <2>1, <2>2, <3>1
    <2>3. CASE x = b
      <3>1. m2.node[x] = [[m.node[b] EXCEPT !.item = m.node[a].item] EXCEPT !.size = m.node[a].size]
        BY <1>2, <1>3, <1>4, <2>3
      <3> QED BY <1>2, <2>1, <2>3, <3>1
    <2>4. CASE x # a /\ x # b
      <3>1. m2.node[x] = m.node[x]
        BY <1>2, <1>3, <1>4, <2>4
      <3> QED BY <2>1, <2>4, <3>1
    <2> QED BY <2>2, <2>3, <2>4
  <1>6. m2.node = [x \in Node |-> m2.node[x]]
    BY <1>3, <1>4
  <1>7. m2 \in Heap
    <2>1. m2.node \in [Node -> Cell]
      <3> HIDE DEF Cell
      <3> QED BY <1>5, <1>6
    <2> QED BY <1>1, <1>4, <2>1 DEF Heap
  <1> HIDE DEF Cell
  <1>8. \A x \in Node : m2.node[x] = Free <=> m.node[x] = Free
    <2> TAKE x \in Node
    <2>1. CASE x = a \/ x = b
      <3>1. m2.node[x].size = 1
        BY <1>5, <2>1
      <3>2. m2.node[x] # Free
        BY <3>1 DEF Free
      <3> QED BY <1>2, <2>1, <3>2
    <2>2. CASE x # a /\ x # b
      <3>1. m2.node[x] = m.node[x]
        BY <1>2, <1>3, <1>4, <2>2
      <3> QED BY <3>1
    <2> QED BY <2>1, <2>2
  <1>9. Chains(m2, c)
    <2>1. \A h \in Lists : Chain(m, h, c[h]) => Chain(m2, h, c[h])
      <3> TAKE h \in Lists
      <3> HAVE Chain(m, h, c[h])
      <3>1. \A k \in 1..Len(c[h]) : c[h][k] \in Node
        BY <1>1, ElementOfSeq
      <3>2. m2.head[h] = m.head[h]
        BY <1>4
      <3>3. \A k \in 1..Len(c[h]) : /\ m2.node[c[h][k]].prev = m.node[c[h][k]].prev
                                     /\ m2.node[c[h][k]].next = m.node[c[h][k]].next
        BY <1>5, <3>1
      <3> QED BY <3>2, <3>3, ChainKept
    <2> QED BY <1>1, <1>4, <1>8, <2>1 DEF Chains
  <1>10. /\ \A x \in Node : Other(x) \in Node /\ Other(Other(x)) = x
                            /\ m.node[Other(x)].size = m.node[x].size
                            /\ (m.node[Other(x)] = Free <=> m.node[x] = Free)
         /\ \A x, y \in Node : Other(x) = Other(y) => x = y
    BY <1>2
  <1> HIDE DEF Other
  <1>11. Owned(m2)
    <2>1. ASSUME NEW x \in Node
          PROVE  \/ m2.node[x] = Free
                 \/ m2.node[x].size = 1 /\ m2.node[x].item \in Node
                       /\ m2.block[m2.node[x].item] # 0
                 \/ m2.node[x].size = 0 /\ m2.node[x].item \in Static
      <3>1. CASE m.node[x] = Free
        BY <1>8, <3>1
      <3>2. CASE m.node[x] # Free
        <4> DEFINE y == Other(x)
        <4>1. y \in Node /\ m.node[y] # Free /\ m.node[y].size = m.node[x].size
          BY <1>10, <3>2
        <4>2. m2.node[x].item = m.node[y].item /\ m2.node[x].size = m.node[y].size
          BY <1>5, <4>1
        <4> HIDE DEF y
        <4>3. \/ m.node[y].size = 1 /\ m.node[y].item \in Node /\ m.block[m.node[y].item] # 0
              \/ m.node[y].size = 0 /\ m.node[y].item \in Static
          BY <1>1, <4>1 DEF Owned
        <4> QED BY <1>4, <4>2, <4>3
      <3> QED BY <3>1, <3>2
    <2>2. \A x, y \in Node : m2.node[x].size = 1 /\ m2.node[y].size = 1
                                /\ m2.node[x].item = m2.node[y].item => x = y
      <3> TAKE x, y \in Node
      <3> HAVE m2.node[x].size = 1 /\ m2.node[y].size = 1 /\ m2.node[x].item = m2.node[y].item
      <3>1. Other(x) = Other(y)
        BY <1>1, <1>5, <1>10 DEF Owned
      <3> QED BY <1>10, <3>1
    <2>3. \A i \in Node : m2.block[i] # 0 =>
             \E x \in Node : m2.node[x].size = 1 /\ m2.node[x].item = i
      <3> TAKE i \in Node
      <3> HAVE m2.block[i] # 0
      <3>1. PICK x \in Node : m.node[x].size = 1 /\ m.node[x].item = i
        BY <1>1, <1>4 DEF Owned
      <3>2. m2.node[Other(x)].size = 1 /\ m2.node[Other(x)].item = i /\ Other(x) \in Node
        BY <1>5, <1>10, <3>1
      <3> QED BY <3>2
    <2> QED BY <2>1, <2>2, <2>3 DEF Owned
  <1>12. ASSUME NEW h \in Lists PROVE OnceEach(m2, c[h])
    <2>1. OnceEach(m, c[h]) /\ \A k \in 1..Len(c[h]) : c[h][k] \in Node
      BY <1>1, ElementOfSeq DEF Sound
    <2>2. CASE h = l
      <3> SUFFICES ASSUME NEW j \in 1..Len(c[l]), NEW k \in 1..Len(c[l]),
                          m2.node[c[l][j]].item = m2.node[c[l][k]].item
                   PROVE  j = k
        BY <2>2 DEF OnceEach
      <3> DEFINE To(i) == IF i = p THEN q ELSE IF i = q THEN p ELSE i
      <3>1. \A i \in 1..Len(c[l]) : /\ To(i) \in 1..Len(c[l])
                                    /\ Other(c[l][i]) = c[l][To(i)]
        BY <1>1 DEF Apart, Other
      <3>2. m.node[c[l][To(j)]].item = m.node[c[l][To(k)]].item
        <4> HIDE DEF To
        <4>1. \A i \in 1..Len(c[l]) : c[l][i] \in Node /\ m2.node[c[l][i]].item = m.node[c[l][To(i)]].item
          <5> TAKE i \in 1..Len(c[l])
          <5>1. c[l][i] \in Node /\ Other(c[l][i]) = c[l][To(i)]
            BY <2>1, <2>2, <3>1
          <5>2. m2.node[c[l][i]].item = m.node[Other(c[l][i])].item
            BY <1>5, <5>1
          <5> QED BY <5>1, <5>2
        <4> QED BY <4>1
      <3>3. To(j) = To(k)
        BY <2>1, <2>2, <3>1, <3>2 DEF OnceEach
      <3> QED BY <3>3
    <2>3. CASE h # l
      <3>1. \A k \in 1..Len(c[h]) : Other(c[h][k]) = c[h][k]
        BY <1>1, <2>3 DEF Apart, Other
      <3>2. \A k \in 1..Len(c[h]) : m2.node[c[h][k]].item = m.node[c[h][k]].item
        BY <1>5, <2>1, <3>1
      <3> QED BY <2>1, <3>2 DEF OnceEach
    <2> QED BY <2>2, <2>3
  <1>13. \A x \in Node : ItemAt(m2, x) = ItemAt(m, Other(x))
    BY <1>4, <1>5 DEF ItemAt, Value
  <1> QED BY <1>4, <1>5, <1>7, <1>9, <1>11, <1>12, <1>13 DEF Sound, Other

-----------------------------------------------------------------------------
(* The invariant. *)

Walks(m) == [l \in Lists |-> Walk(m, l)]

\* Only conf->modules has items that are not copied.
OnlyCopies(m, w) == \A k \in 1..Len(w) : m.node[w[k]].size = 1

Above(m, w, j, k) == Compare(ItemAt(m, w[j]).val, ItemAt(m, w[k]).val) = sort.comp

\* Up to ip1, at place p, no item has one behind it that belongs before it.
SortedTo(m, w, p) ==
    /\ sort.at = IF p = Len(w) + 1 THEN 0 ELSE w[p]
    /\ \A j \in 1..(p - 1), k \in 1..Len(w) : j < k => ~Above(m, w, j, k)

\* list_sort() has kept the items it was called with.
SameItems(m, w) == /\ Len(before) = Len(w)
                   /\ \A k \in 1..Len(w) :
                         /\ \E j \in 1..Len(w) : before[j] = ItemAt(m, w[k])
                         /\ \E j \in 1..Len(w) : before[k] = ItemAt(m, w[j])

InSort(m, c) == \/ sort = NoSort
                \/ /\ sort \in [l : Live(m) \ {Modules}, at : Pointer, comp : {1, -1}]
                   /\ before \in Seq([ptr : Node \cup Static, val : Nat])
                   /\ \E p \in 1..(Len(c[sort.l]) + 1) : SortedTo(m, c[sort.l], p)
                   /\ SameItems(m, c[sort.l])

\* What mybmm_load_module() knows of the list: it is empty until the transport
\* is loaded; up to the cursor, or when the walk has ended, the name is not in it.
Loads(m, w) == /\ type \in {"transport", "cellmon"}
               /\ type = "transport" => w = <<>>
               /\ type = "cellmon" => name = jbd
               /\ pc = "add" => name \in Static
               /\ pc = "walk" => \A k \in 1..Len(w) :
                     m.node[w[k]].item = name => \E j \in 1..k : w[j] = m.head[Modules].next
               /\ pc \in {"init", "add"} => \A k \in 1..Len(w) : m.node[w[k]].item # name

Inv == LET c == Walks(mem)
       IN /\ Sound(mem, c)
          /\ \A l \in Lists \ {Modules} : OnlyCopies(mem, c[l])
          /\ Loads(mem, c[Modules])
          /\ InSort(mem, c)

-----------------------------------------------------------------------------
(* What a list is to its users. *)

\* What walking the lists gives is what the invariant says of them.
LEMMA WalksIs ==
    ASSUME NEW m, NEW c, Sound(m, c)
    PROVE  Walks(m) = c
  <1>1. \A l \in Lists : Walk(m, l) = c[l]
    BY WalkIs DEF Sound
  <1>2. c = [l \in Lists |-> c[l]]
    BY DEF Sound, Chains
  <1> QED BY <1>1, <1>2 DEF Walks

\* Its items are those of its nodes.
ItemsOf(m, c, l) ==
    /\ Items(m, l) = [k \in 1..Len(c[l]) |-> ItemAt(m, c[l][k])]
    /\ Len(c[l]) \in Nat /\ DOMAIN Items(m, l) = 1..Len(c[l])
    /\ Items(m, l) \in Seq([ptr : Node \cup Static, val : Nat])
    /\ Len(Items(m, l)) = Len(c[l])
    /\ \A k \in 1..Len(c[l]) : Items(m, l)[k] = ItemAt(m, c[l][k])
    /\ Items(m, l) = <<>> <=> c[l] = <<>>
    /\ \A j, k \in 1..Len(c[l]) : Items(m, l)[j].ptr = Items(m, l)[k].ptr => j = k

\* An item is a block or a static one, and its value a number.
LEMMA ItemsIs ==
    ASSUME NEW m, NEW c, Sound(m, c), NEW l \in Lists
    PROVE  ItemsOf(m, c, l)
  <1> DEFINE w == c[l]
             s == [k \in 1..Len(w) |-> ItemAt(m, w[k])]
             It == [ptr : Node \cup Static, val : Nat]
  <1>1. m \in Heap /\ Chains(m, c) /\ Owned(m) /\ OnceEach(m, w) /\ w \in Seq(Node)
    BY DEF Sound, Chains
  <1>2. Walk(m, l) = w /\ DOMAIN w = 1..Len(w) /\ Len(w) \in Nat
    BY <1>1, WalkIs, LenProperties
  <1>3. Items(m, l) = s
    BY <1>2 DEF Items, ItemAt
  <1>4. ASSUME NEW k \in 1..Len(w) PROVE ItemAt(m, w[k]) \in It
    <2>1. /\ m.node[w[k]].item \in Node => m.block[m.node[w[k]].item] # 0
          /\ m.node[w[k]].item \notin Node => m.node[w[k]].item \in Static
      BY <1>1, UsedHolds
    <2>2. m.block \in [Node -> {0} \cup Val] /\ Val \subseteq Nat /\ Static \subseteq Nat
      BY <1>1, HeapAssumption DEF Heap
    <2> QED BY <2>1, <2>2 DEF ItemAt, Value
  <1> HIDE DEF It
  <1>5. s \in Seq(It)
    BY <1>2, <1>4
  <1>6. Len(s) = Len(w) /\ DOMAIN s = 1..Len(w) /\ \A k \in 1..Len(w) : s[k] = ItemAt(m, w[k])
    BY <1>2, <1>5, LenProperties
  <1>7. s = <<>> <=> w = <<>>
    BY <1>1, <1>5, <1>6, EmptySeq
  <1>8. \A j, k \in 1..Len(w) : s[j].ptr = s[k].ptr => j = k
    BY <1>1 DEF OnceEach, ItemAt
  <1>9. Items(m, l) = [k \in 1..Len(w) |-> ItemAt(m, w[k])]
    BY <1>3
  <1>10. s \in Seq([ptr : Node \cup Static, val : Nat])
    BY <1>5 DEF It
  <1> HIDE DEF s
  <1> QED BY <1>2, <1>3, <1>6, <1>7, <1>8, <1>9, <1>10 DEF ItemsOf

\* The cursor is on the node it points at.
LEMMA CursorIs ==
    ASSUME NEW m, NEW c, Sound(m, c), NEW l \in Lists
    PROVE  /\ l \notin Live(m) \/ m.head[l].next = 0 => Cursor(m, l) = 0
           /\ \A k \in 1..Len(c[l]) : l \in Live(m) /\ c[l][k] = m.head[l].next => Cursor(m, l) = k
           /\ l \in Live(m) /\ m.head[l].next # 0 =>
                 \E k \in 1..Len(c[l]) : c[l][k] = m.head[l].next /\ Cursor(m, l) = k
  <1> DEFINE w == c[l]
  <1>1. m \in Heap /\ Chains(m, c) /\ Once(w) /\ w \in Seq(Node)
    BY DEF Sound, Chains, Apart, Once
  <1>2. Walk(m, l) = w /\ DOMAIN w = 1..Len(w) /\ \A k \in 1..Len(w) : w[k] # 0
    BY <1>1, WalkIs, LenProperties, ElementOfSeq, HeapAssumption DEF Node
  <1>3. l \notin Live(m) \/ m.head[l].next = 0 => Cursor(m, l) = 0
    BY DEF Cursor
  <1>4. ASSUME NEW k \in 1..Len(w), l \in Live(m), w[k] = m.head[l].next
        PROVE  Cursor(m, l) = k
    <2>1. Cursor(m, l) = CHOOSE j \in 1..Len(w) : w[j] = m.head[l].next
      BY <1>2, <1>4 DEF Cursor
    <2>2. \A j \in 1..Len(w) : w[j] = m.head[l].next => j = k
      BY <1>1, <1>4 DEF Once
    <2> QED BY <1>4, <2>1, <2>2
  <1>5. l \in Live(m) => CursorIn(m.head[l], w)
    BY <1>1, Headers DEF Chains, Chain
  <1> QED BY <1>3, <1>4, <1>5 DEF CursorIn

\* Between m and m2 nothing has happened to list h.
Keeps(m, c, m2, c2, h) ==
    /\ c2[h] = c[h] /\ (h \in Live(m2) <=> h \in Live(m)) /\ m2.head[h].next = m.head[h].next
    /\ \A k \in 1..Len(c[h]) : /\ ItemAt(m2, c[h][k]) = ItemAt(m, c[h][k])
                               /\ m2.node[c[h][k]].size = m.node[c[h][k]].size

\* Its items and its cursor are the same, then.
LEMMA KeptIs ==
    ASSUME NEW m, NEW c, Sound(m, c), NEW m2, NEW c2, Sound(m2, c2), NEW h \in Lists,
           Keeps(m, c, m2, c2, h)
    PROVE  Items(m2, h) = Items(m, h) /\ Cursor(m2, h) = Cursor(m, h)
  <1>1. /\ Items(m, h) = [k \in 1..Len(c[h]) |-> ItemAt(m, c[h][k])]
        /\ Items(m2, h) = [k \in 1..Len(c2[h]) |-> ItemAt(m2, c2[h][k])]
    BY ItemsIs DEF ItemsOf
  <1>2. Items(m2, h) = Items(m, h)
    BY <1>1 DEF Keeps
  <1>3. Cursor(m2, h) = Cursor(m, h)
    <2>1. CASE h \notin Live(m) \/ m.head[h].next = 0
      BY <2>1, CursorIs DEF Keeps
    <2>2. CASE h \in Live(m) /\ m.head[h].next # 0
      <3>1. PICK k \in 1..Len(c[h]) : c[h][k] = m.head[h].next /\ Cursor(m, h) = k
        BY <2>2, CursorIs
      <3>2. Cursor(m2, h) = k
        BY <2>2, <3>1, CursorIs DEF Keeps
      <3> QED BY <3>1, <3>2
    <2> QED BY <2>1, <2>2
  <1> QED BY <1>2, <1>3

\* A list that is made longer by r nodes.
LEMMA ExtendedIs ==
    ASSUME NEW m, NEW c, Sound(m, c), NEW m2, NEW c2, Sound(m2, c2),
           NEW l \in Live(m), l \in Live(m2), NEW r \in Nat, Len(c2[l]) = Len(c[l]) + r,
           \A k \in 1..Len(c[l]) : /\ c2[l][k] = c[l][k]
                                   /\ ItemAt(m2, c[l][k]) = ItemAt(m, c[l][k]),
           m2.head[l].next = IF c[l] = <<>> /\ r # 0 THEN c2[l][1] ELSE m.head[l].next
    PROVE  /\ Abstract!Extends(Items(m, l), Items(m2, l), Cursor(m, l), Cursor(m2, l))
           /\ Len(Items(m2, l)) = Len(Items(m, l)) + r
  <1> DEFINE s == Items(m, l)
             t == Items(m2, l)
             It == [ptr : Node \cup Static, val : Nat]
  <1>1. /\ l \in Lists /\ Len(c[l]) \in Nat /\ Len(s) = Len(c[l]) /\ s \in Seq(It)
        /\ \A k \in 1..Len(c[l]) : s[k] = ItemAt(m, c[l][k])
        /\ s = <<>> <=> c[l] = <<>>
    <2>1. l \in Lists
      BY DEF Live
    <2>2. ItemsOf(m, c, l)
      BY <2>1, ItemsIs
    <2> QED BY <2>1, <2>2 DEF ItemsOf
  <1>2. /\ Len(t) = Len(c2[l]) /\ t \in Seq(It) /\ DOMAIN t = 1..Len(c2[l])
        /\ \A k \in 1..Len(c2[l]) : t[k] = ItemAt(m2, c2[l][k])
        /\ t = <<>> <=> c2[l] = <<>>
        /\ \A j, k \in 1..Len(c2[l]) : t[j].ptr = t[k].ptr => j = k
    <2>1. ItemsOf(m2, c2, l)
      BY <1>1, ItemsIs
    <2> QED BY <2>1 DEF ItemsOf
  <1> HIDE DEF s, t, It
  <1>3. Len(t) = Len(s) + r /\ \A k \in 1..Len(s) : t[k] = s[k] /\ k \in 1..Len(t)
    BY <1>1, <1>2
  <1>4. Abstract!IsPrefix(s, t)
    <2>1. Len(s) <= Len(t)
      BY <1>1, <1>3
    <2>2. SubSeq(s, 1, Len(s)) = SubSeq(t, 1, Len(s))
      BY <1>1, <1>2, <1>3, <2>1
    <2> QED BY <2>1, <2>2 DEF Abstract!IsPrefix
  <1>5. Abstract!Distinct(t)
    BY <1>2 DEF Abstract!Distinct
  <1>6. (s = <<>> <=> Len(s) = 0) /\ (t = <<>> <=> Len(t) = 0)
    BY <1>1, <1>2, EmptySeq
  <1>7. Cursor(m2, l) = IF s = <<>> /\ t # <<>> THEN 1 ELSE Cursor(m, l)
    <2>1. CASE s = <<>> /\ r # 0
      <3>1. 1 \in 1..Len(c2[l]) /\ t # <<>> /\ m2.head[l].next = c2[l][1]
        BY <1>1, <1>2, <1>3, <1>6, <2>1
      <3> QED BY <1>1, <2>1, <3>1, CursorIs
    <2>2. CASE ~(s = <<>> /\ r # 0)
      <3>1. m2.head[l].next = m.head[l].next /\ (s = <<>> => t = <<>>)
        BY <1>1, <1>3, <1>6, <2>2
      <3>2. CASE m.head[l].next = 0
        BY <1>1, <3>1, <3>2, CursorIs
      <3>3. CASE m.head[l].next # 0
        <4>1. PICK k \in 1..Len(c[l]) : c[l][k] = m.head[l].next /\ Cursor(m, l) = k
          BY <1>1, <3>3, CursorIs
        <4>2. k \in 1..Len(c2[l]) /\ c2[l][k] = m2.head[l].next
          BY <1>1, <1>2, <1>3, <3>1, <4>1
        <4>3. Cursor(m2, l) = k
          BY <1>1, <4>2, CursorIs
        <4> QED BY <3>1, <4>1, <4>3
      <3> QED BY <3>2, <3>3
    <2> QED BY <2>1, <2>2
  <1> QED BY <1>3, <1>4, <1>5, <1>7 DEF Abstract!Extends, s, t

-----------------------------------------------------------------------------
(* The calls, as they are made. *)

\* m2 is what a call about list l has made of m.
Result(m, c, l, m2, c2) == Sound(m2, c2) /\ \A h \in Lists \ {l} : Keeps(m, c, m2, c2, h)

\* It is the call CursorList describes.
Calls(l) == Abstract!Call(l, Items(mem, l), Items(mem', l), Cursor(mem, l), Cursor(mem', l))

\* A list with the same header and nodes, none of which has changed, is kept.
LEMMA KeepsIs ==
    ASSUME NEW m, NEW c, Sound(m, c), NEW m2, NEW c2, NEW h \in Lists, c2[h] = c[h],
           h \in Live(m2) <=> h \in Live(m), m2.head[h].next = m.head[h].next,
           NEW S, \A k \in 1..Len(c[h]) : c[h][k] \notin S,
           \A x \in Node \ FreeNodes(m) : x \notin S => /\ ItemAt(m2, x) = ItemAt(m, x)
                                                        /\ m2.node[x].size = m.node[x].size
    PROVE  Keeps(m, c, m2, c2, h)
  <1>1. \A k \in 1..Len(c[h]) : c[h][k] \in Node \ FreeNodes(m)
    BY UsedHolds DEF Sound
  <1> QED BY <1>1 DEF Keeps

\* No node is in two places.
LEMMA NodesOnce ==
    ASSUME NEW m, NEW c, Sound(m, c)
    PROVE  \A l, h \in Lists : \A j \in 1..Len(c[l]), k \in 1..Len(c[h]) :
              c[l][j] = c[h][k] => l = h /\ j = k
  BY DEF Sound, Chains, Apart

\* list_create(): a list without items, whose cursor is nowhere.
LEMMA CreateIs ==
    ASSUME NEW c, Sound(mem, c), NEW l \in Lists, Create(l)
    PROVE  Result(mem, c, l, mem', c) /\ c[l] = <<>> /\ Calls(l)
  <1>1. l \notin Live(mem) /\ mem' = Created(mem, l) /\ got' = 0
    BY DEF Create, Does
  <1>2. /\ Sound(mem', c) /\ Live(mem') = Live(mem) \cup {l} /\ c[l] = <<>>
        /\ mem'.node = mem.node /\ mem'.block = mem.block /\ mem'.head[l].next = 0
        /\ \A h \in Lists : h # l => mem'.head[h] = mem.head[h]
    BY <1>1, CreatedIs
  <1>3. \A x : ItemAt(mem', x) = ItemAt(mem, x)
    BY <1>2 DEF ItemAt, Value
  <1>4. \A h \in Lists \ {l} : Keeps(mem, c, mem', c, h)
    BY <1>2, <1>3 DEF Keeps
  <1>5. Items(mem, l) = <<>> /\ Items(mem', l) = <<>>
    BY <1>2, ItemsIs DEF ItemsOf
  <1>6. Cursor(mem, l) = 0 /\ Cursor(mem', l) = 0
    BY <1>1, <1>2, CursorIs
  <1>7. Calls(l)
    BY <1>1, <1>2, <1>5, <1>6 DEF Calls, Abstract!Call
  <1> QED BY <1>2, <1>4, <1>7 DEF Result

\* list_destroy(): the nodes of the list and its copies go, and nothing else.
LEMMA DestroyIs ==
    ASSUME NEW c, Sound(mem, c), NEW l \in Lists, Destroy(l)
    PROVE  Result(mem, c, l, mem', [c EXCEPT ![l] = <<>>]) /\ Calls(l)
  <1> DEFINE c2 == [c EXCEPT ![l] = <<>>]
  <1>1. l \in Live(mem) /\ mem' = Destroyed(mem, l) /\ got' = 0
    BY DEF Destroy, Does
  <1>2. /\ Sound(mem', c2) /\ Live(mem') = Live(mem) \ {l}
        /\ \A x \in Node \ FreeNodes(mem) : ~In(x, c[l]) =>
              ItemAt(mem', x) = ItemAt(mem, x) /\ mem'.node[x].size = mem.node[x].size
        /\ \A h \in Lists : h # l => mem'.head[h] = mem.head[h]
    BY <1>1, DestroyedIs
  <1>3. c2[l] = <<>> /\ \A h \in Lists : h # l => c2[h] = c[h]
    BY DEF Sound, Chains
  <1> HIDE DEF c2
  <1>4. ASSUME NEW h \in Lists \ {l} PROVE Keeps(mem, c, mem', c2, h)
    <2> DEFINE S == {x \in Node : In(x, c[l])}
    <2>1. \A k \in 1..Len(c[h]) : c[h][k] \notin S
      BY NodesOnce DEF In
    <2>2. \A x \in Node \ FreeNodes(mem) : x \notin S =>
             ItemAt(mem', x) = ItemAt(mem, x) /\ mem'.node[x].size = mem.node[x].size
      BY <1>2
    <2> HIDE DEF S
    <2> QED BY <1>2, <1>3, <2>1, <2>2, KeepsIs
  <1>5. Items(mem', l) = <<>>
    BY <1>2, <1>3, ItemsIs DEF ItemsOf
  <1>6. Cursor(mem', l) = 0
    BY <1>2, CursorIs
  <1>7. Calls(l)
    BY <1>1, <1>2, <1>5, <1>6 DEF Calls, Abstract!Call
  <1> QED BY <1>2, <1>4, <1>7 DEF Result, c2

\* list_reset() and list_get_next() move the cursor.
LEMMA MovedIs ==
    ASSUME NEW c, Sound(mem, c), NEW l \in Live(mem), NEW x, x = 0 \/ In(x, c[l]),
           mem' = CursorAt(mem, l, x)
    PROVE  /\ Result(mem, c, l, mem', c) /\ Live(mem') = Live(mem)
           /\ mem'.head[l].next = x /\ mem'.node = mem.node
           /\ Items(mem', l) = Items(mem, l)
  <1>1. /\ Sound(mem', c) /\ Live(mem') = Live(mem)
        /\ mem'.node = mem.node /\ mem'.block = mem.block /\ mem'.head[l].next = x
        /\ \A h \in Lists : h # l => mem'.head[h] = mem.head[h]
    BY CursorMoved
  <1>2. \A n : ItemAt(mem', n) = ItemAt(mem, n)
    BY <1>1 DEF ItemAt, Value
  <1>3. \A h \in Lists \ {l} : Keeps(mem, c, mem', c, h)
    BY <1>1, <1>2 DEF Keeps
  <1>4. Items(mem', l) = Items(mem, l)
    <2>1. l \in Lists
      BY DEF Live
    <2>2. ItemsOf(mem, c, l) /\ ItemsOf(mem', c, l)
      BY <1>1, <2>1, ItemsIs
    <2> QED BY <1>2, <2>2 DEF ItemsOf
  <1> QED BY <1>1, <1>3, <1>4 DEF Result

\* list_reset(): the cursor is on the first item, if there is one.
LEMMA ResetIs ==
    ASSUME NEW c, Sound(mem, c), NEW l \in Lists, Reset(l)
    PROVE  /\ Result(mem, c, l, mem', c) /\ Calls(l) /\ mem'.node = mem.node
           /\ c[l] # <<>> => mem'.head[l].next = c[l][1]
  <1> DEFINE x == mem.head[l].first
  <1>1. l \in Live(mem) /\ mem' = [mem EXCEPT !.head[l].next = x] /\ got' = 0
    BY DEF Reset, Does
  <1>2. Chain(mem, l, c[l]) /\ c[l] \in Seq(Node) /\ Len(c[l]) \in Nat
    BY <1>1, LenProperties, Headers DEF Sound, Chains
  <1>3. x = IF c[l] = <<>> THEN 0 ELSE c[l][1]
    BY <1>2 DEF Chain, Ends
  <1>4. c[l] # <<>> => 1 \in 1..Len(c[l])
    BY <1>2, EmptySeq
  <1>5. x = 0 \/ In(x, c[l])
    BY <1>3, <1>4 DEF In
  <1> HIDE DEF x
  <1>6. /\ Result(mem, c, l, mem', c) /\ Live(mem') = Live(mem)
        /\ mem'.head[l].next = x /\ mem'.node = mem.node
        /\ Items(mem', l) = Items(mem, l)
    <2>1. mem' = CursorAt(mem, l, x)
      BY <1>1 DEF CursorAt
    <2> QED BY <1>1, <1>5, <2>1, MovedIs
  <1>7. Items(mem, l) = <<>> <=> c[l] = <<>>
    BY ItemsIs DEF ItemsOf
  <1>8. Cursor(mem', l) = IF c[l] = <<>> THEN 0 ELSE 1
    <2>1. Sound(mem', c) /\ l \in Live(mem')
      BY <1>1, <1>6 DEF Result
    <2>2. CASE c[l] = <<>>
      BY <1>3, <1>6, <2>1, <2>2, CursorIs
    <2>3. CASE c[l] # <<>>
      BY <1>3, <1>4, <1>6, <2>1, <2>3, CursorIs
    <2> QED BY <2>2, <2>3
  <1>9. Calls(l)
    <2>1. Abstract!Resets(Items(mem, l), Items(mem', l), Cursor(mem', l))
      BY <1>6, <1>7, <1>8 DEF Abstract!Resets
    <2> QED BY <1>1, <1>6, <2>1 DEF Calls, Abstract!Call
  <1> QED BY <1>3, <1>6, <1>9

\* list_get_next(): the item the cursor was on, and the cursor on the next.
LEMMA GetNextIs ==
    ASSUME NEW c, Sound(mem, c), NEW l \in Lists, GetNext(l)
    PROVE  /\ Result(mem, c, l, mem', c) /\ Calls(l) /\ mem'.node = mem.node
           /\ \/ mem.head[l].next = 0 /\ got' = 0 /\ mem'.head[l].next = 0
              \/ \E k \in 1..Len(c[l]) :
                    /\ c[l][k] = mem.head[l].next /\ got' = mem.node[c[l][k]].item /\ got' # 0
                    /\ mem'.head[l].next = IF k = Len(c[l]) THEN 0 ELSE c[l][k + 1]
  <1> DEFINE w == c[l]
             at == mem.head[l].next
  <1>1. /\ l \in Live(mem)
        /\ IF at = 0 THEN got' = 0 /\ mem' = mem
           ELSE /\ got' = mem.node[at].item
                /\ mem' = [mem EXCEPT !.head[l].next = mem.node[at].next]
    BY DEF GetNext
  <1>2. /\ mem \in Heap /\ Chains(mem, c) /\ Owned(mem)
        /\ Chain(mem, l, w) /\ w \in Seq(Node) /\ Len(w) \in Nat
    BY <1>1, LenProperties, Headers DEF Sound, Chains
  <1>3. ItemsOf(mem, c, l)
    BY ItemsIs
  <1>4. Len(Items(mem, l)) = Len(w) /\ \A k \in 1..Len(w) : Items(mem, l)[k] = ItemAt(mem, w[k])
    BY <1>3 DEF ItemsOf
  <1>5. CASE at = 0
    <2>1. mem' = mem /\ got' = 0
      BY <1>1, <1>5
    <2>2. Result(mem, c, l, mem', c)
      BY <2>1 DEF Result, Keeps
    <2>3. Cursor(mem, l) = 0 /\ Cursor(mem', l) = 0
      BY <1>5, <2>1, CursorIs
    <2>4. Abstract!Moves(Items(mem, l), Items(mem', l), Cursor(mem, l), Cursor(mem', l))
      BY <2>1, <2>3 DEF Abstract!Moves
    <2>5. Calls(l)
      BY <1>1, <2>1, <2>3, <2>4 DEF Calls, Abstract!Call
    <2> QED BY <1>5, <2>1, <2>2, <2>5
  <1>6. CASE at # 0
    <2>1. PICK k \in 1..Len(w) : w[k] = at /\ Cursor(mem, l) = k
      BY <1>1, <1>6, CursorIs
    <2> DEFINE x == mem.node[at].next
    <2>2. x = IF k = Len(w) THEN 0 ELSE w[k + 1]
      BY <1>2, <2>1 DEF Chain, Leads
    <2>3. k # Len(w) => k + 1 \in 1..Len(w)
      BY <1>2
    <2>4. x = 0 \/ In(x, w)
      BY <2>2, <2>3 DEF In
    <2>5. mem' = [mem EXCEPT !.head[l].next = x] /\ got' = mem.node[w[k]].item /\ got' # 0
      BY <1>1, <1>2, <1>6, <2>1, UsedHolds
    <2> HIDE DEF x
    <2>6. /\ Result(mem, c, l, mem', c) /\ Live(mem') = Live(mem)
          /\ mem'.head[l].next = x /\ mem'.node = mem.node
          /\ Items(mem', l) = Items(mem, l)
      <3>1. mem' = CursorAt(mem, l, x)
        BY <2>5 DEF CursorAt
      <3> QED BY <1>1, <2>4, <3>1, MovedIs
    <2>7. Cursor(mem', l) = IF k = Len(w) THEN 0 ELSE k + 1
      <3>1. Sound(mem', c)
        BY <2>6 DEF Result
      <3>2. CASE k = Len(w)
        BY <2>2, <2>6, <3>1, <3>2, CursorIs
      <3>3. CASE k # Len(w)
        BY <1>1, <2>2, <2>3, <2>6, <3>1, <3>3, CursorIs
      <3> QED BY <3>2, <3>3
    <2>8. Abstract!Moves(Items(mem, l), Items(mem', l), Cursor(mem, l), Cursor(mem', l))
      BY <1>2, <1>4, <2>1, <2>6, <2>7 DEF Abstract!Moves
    <2>9. got' = Items(mem, l)[Cursor(mem, l)].ptr /\ Cursor(mem, l) # 0
      <3>1. Items(mem, l)[k] = ItemAt(mem, w[k]) /\ k # 0
        BY <1>2, <1>4
      <3>2. ItemAt(mem, w[k]).ptr = mem.node[w[k]].item
        BY DEF ItemAt
      <3> QED BY <2>1, <2>5, <3>1, <3>2
    <2>10. Calls(l)
      BY <1>1, <2>6, <2>8, <2>9 DEF Calls, Abstract!Call
    <2> QED BY <2>1, <2>2, <2>5, <2>6, <2>10
  <1> QED BY <1>5, <1>6

\* Node n at the end of list l is one item more.
AddsOne(m, c, l, n, m2, c2) ==
    /\ Result(m, c, l, m2, c2) /\ Live(m2) = Live(m)
    /\ Abstract!Adds(Items(m, l), Items(m2, l), Cursor(m, l), Cursor(m2, l))
    /\ \A k \in 1..Len(c[l]) : m2.node[c[l][k]].size = m.node[c[l][k]].size
    /\ Len(c2[l]) = Len(c[l]) + 1 /\ c2[l][Len(c[l]) + 1] = n
    /\ \A k \in 1..Len(c[l]) : c2[l][k] = c[l][k]

\* list_add() makes the list longer by one item.
LEMMA AddsIs ==
    ASSUME NEW m, NEW c, Sound(m, c), NEW l \in Live(m), NEW n, NEW m2, Adds(m, c, l, n, m2),
           NEW c2, c2 = [c EXCEPT ![l] = Append(c[l], n)]
    PROVE  AddsOne(m, c, l, n, m2, c2)
  <1>1. /\ Sound(m2, c2) /\ n \in FreeNodes(m) /\ Live(m2) = Live(m)
        /\ \A x \in Node \ FreeNodes(m) : /\ ItemAt(m2, x) = ItemAt(m, x)
                                          /\ m2.node[x].size = m.node[x].size
        /\ \A h \in Lists : h # l => m2.head[h].next = m.head[h].next
        /\ m2.head[l].next = IF c[l] = <<>> THEN n ELSE m.head[l].next
    BY DEF Adds
  <1>2. /\ c2[l] = Append(c[l], n) /\ \A h \in Lists : h # l => c2[h] = c[h]
        /\ c[l] \in Seq(Node) /\ n \in Node /\ l \in Lists
    BY <1>1 DEF Sound, Chains, FreeNodes, Live
  <1>3. /\ Len(c2[l]) = Len(c[l]) + 1 /\ Len(c[l]) \in Nat /\ c2[l][Len(c[l]) + 1] = n
        /\ \A k \in 1..Len(c[l]) : c2[l][k] = c[l][k]
    BY <1>2, Appended
  <1>4. \A h \in Lists : \A k \in 1..Len(c[h]) : c[h][k] \in Node \ FreeNodes(m)
    BY UsedHolds DEF Sound
  <1>5. \A h \in Lists \ {l} : Keeps(m, c, m2, c2, h)
    BY <1>1, <1>2, <1>4 DEF Keeps
  <1>6. m2.head[l].next = IF c[l] = <<>> /\ 1 # 0 THEN c2[l][1] ELSE m.head[l].next
    <2>1. c[l] = <<>> => Len(c[l]) = 0
      OBVIOUS
    <2> QED BY <1>1, <1>3, <2>1
  <1>7. \A k \in 1..Len(c[l]) : c2[l][k] = c[l][k] /\ ItemAt(m2, c[l][k]) = ItemAt(m, c[l][k])
    BY <1>1, <1>2, <1>3, <1>4
  <1>8. /\ Abstract!Extends(Items(m, l), Items(m2, l), Cursor(m, l), Cursor(m2, l))
        /\ Len(Items(m2, l)) = Len(Items(m, l)) + 1
    <2> DEFINE r == 1
    <2>1. /\ l \in Live(m2) /\ r \in Nat /\ Len(c2[l]) = Len(c[l]) + r
          /\ m2.head[l].next = IF c[l] = <<>> /\ r # 0 THEN c2[l][1] ELSE m.head[l].next
      BY <1>1, <1>3, <1>6
    <2> HIDE DEF r
    <2>2. /\ Abstract!Extends(Items(m, l), Items(m2, l), Cursor(m, l), Cursor(m2, l))
          /\ Len(Items(m2, l)) = Len(Items(m, l)) + r
      <3>1. Sound(m, c) /\ Sound(m2, c2) /\ l \in Live(m)
        BY <1>1
      <3> QED BY ONLY <1>7, <2>1, <3>1, ExtendedIs
    <2> QED BY <2>2 DEF r
  <1> QED BY <1>1, <1>2, <1>3, <1>4, <1>5, <1>8 DEF Result, AddsOne, Abstract!Adds

\* list_add() with size 0, of an item the list does not have.
LEMMA AddStaticIs ==
    ASSUME NEW c, Sound(mem, c), NEW l \in Lists, NEW s \in Static, AddStatic(l, s),
           \A k \in 1..Len(c[l]) : mem.node[c[l][k]].item # s
    PROVE  \E c2 : Result(mem, c, l, mem', c2) /\ Calls(l)
  <1>1. l \in Live(mem) /\ Room(1) /\ mem' = Linked(mem, l, s, 0) /\ got' = 0
    BY DEF AddStatic, Does
  <1>2. FreeNodes(mem) # {}
    <2>1. Room2(mem, 0 + 1)
      BY <1>1 DEF Room, Room2
    <2> QED BY <2>1, SomeFree
  <1>3. PICK n : Adds(mem, c, l, n, mem')
    BY <1>1, <1>2, StaticAdded
  <1> DEFINE c2 == [c EXCEPT ![l] = Append(c[l], n)]
  <1>4. /\ Result(mem, c, l, mem', c2) /\ Live(mem') = Live(mem)
        /\ Abstract!Adds(Items(mem, l), Items(mem', l), Cursor(mem, l), Cursor(mem', l))
    <2>1. AddsOne(mem, c, l, n, mem', c2)
      BY <1>1, <1>3, AddsIs
    <2> QED BY <2>1 DEF AddsOne
  <1>5. Calls(l)
    BY <1>1, <1>4 DEF Calls, Abstract!Call
  <1> QED BY <1>4, <1>5

\* list_add() of a copy.
LEMMA AddCopyIs ==
    ASSUME NEW c, Sound(mem, c), NEW l \in Lists, NEW v \in Val, AddCopy(l, v)
    PROVE  \E c2 : /\ Result(mem, c, l, mem', c2) /\ Calls(l)
                   /\ OnlyCopies(mem, c[l]) => OnlyCopies(mem', c2[l])
  <1>1. l \in Live(mem) /\ Room(1) /\ mem' = WithCopy(mem, l, v) /\ got' = 0
    BY DEF AddCopy, Does
  <1>2. FreeNodes(mem) # {} /\ FreeBlocks(mem) # {}
    <2>1. Room2(mem, 0 + 1)
      BY <1>1 DEF Room, Room2
    <2> QED BY <2>1, SomeFree
  <1>3. PICK n : Adds(mem, c, l, n, mem') /\ mem'.node[n].size = 1
    BY <1>1, <1>2, CopyAdded
  <1> DEFINE c2 == [c EXCEPT ![l] = Append(c[l], n)]
  <1>4. /\ Result(mem, c, l, mem', c2) /\ Live(mem') = Live(mem)
        /\ Abstract!Adds(Items(mem, l), Items(mem', l), Cursor(mem, l), Cursor(mem', l))
        /\ \A k \in 1..Len(c[l]) : mem'.node[c[l][k]].size = mem.node[c[l][k]].size
        /\ Len(c2[l]) = Len(c[l]) + 1 /\ c2[l][Len(c[l]) + 1] = n
        /\ \A k \in 1..Len(c[l]) : c2[l][k] = c[l][k]
    <2>1. AddsOne(mem, c, l, n, mem', c2)
      BY <1>1, <1>3, AddsIs
    <2> HIDE DEF c2
    <2> QED BY <2>1 DEF AddsOne
  <1> HIDE DEF c2
  <1>5. Calls(l)
    BY <1>1, <1>4 DEF Calls, Abstract!Call
  <1>6. OnlyCopies(mem, c[l]) => OnlyCopies(mem', c2[l])
    <2>1. Len(c[l]) \in Nat
      BY LenProperties DEF Sound, Chains
    <2>2. \A k \in 1..Len(c2[l]) : k \in 1..Len(c[l]) \/ k = Len(c[l]) + 1
      BY <1>4, <2>1
    <2> QED BY <1>3, <1>4, <2>2 DEF OnlyCopies
  <1> QED BY <1>4, <1>5, <1>6

\* list_add_list() makes it longer by the items of the other list.
LEMMA CopiesIs ==
    ASSUME NEW m, NEW c, Sound(m, c), NEW l \in Live(m), NEW f \in Live(m), f # l,
           NEW m2, NEW c2, Copied(m, c, l, c[f], Len(c[f]), m2, c2)
    PROVE  /\ Result(m, c, l, m2, c2) /\ Live(m2) = Live(m)
           /\ Abstract!Copies(Items(m, l), Items(m2, l), Cursor(m, l), Cursor(m2, l), Items(m, f))
           /\ OnlyCopies(m, c[l]) => OnlyCopies(m2, c2[l])
  <1> DEFINE r == Len(c[f])
             i == Len(c[l])
             s == Items(m, l)
             t == Items(m2, l)
             u == Items(m, f)
             It == [ptr : Node \cup Static, val : Nat]
  <1>1. /\ Sound(m2, c2) /\ Live(m2) = Live(m)
        /\ \A h \in Lists : h # l => c2[h] = c[h] /\ m2.head[h].next = m.head[h].next
        /\ Len(c2[l]) = i + r
        /\ \A j \in 1..i : c2[l][j] = c[l][j]
        /\ \A j \in 1..r : /\ ItemAt(m2, c2[l][i + j]).val = ItemAt(m, c[f][j]).val
                           /\ m2.node[c2[l][i + j]].size = 1
        /\ \A x \in Node \ FreeNodes(m) : /\ x \notin FreeNodes(m2)
                                          /\ ItemAt(m2, x) = ItemAt(m, x)
                                          /\ m2.node[x].size = m.node[x].size
        /\ m2.head[l].next = IF c[l] = <<>> /\ r # 0 THEN c2[l][1] ELSE m.head[l].next
    BY DEF Copied
  <1>2. l \in Lists /\ f \in Lists /\ i \in Nat /\ r \in Nat
    BY LenProperties DEF Live, Sound, Chains
  <1>3. \A h \in Lists : \A k \in 1..Len(c[h]) : c[h][k] \in Node \ FreeNodes(m)
    BY UsedHolds DEF Sound
  <1>4. \A h \in Lists \ {l} : Keeps(m, c, m2, c2, h)
    BY <1>1, <1>3 DEF Keeps
  <1>5. Abstract!Extends(s, t, Cursor(m, l), Cursor(m2, l))
    <2>1. \A k \in 1..i : c2[l][k] = c[l][k] /\ ItemAt(m2, c[l][k]) = ItemAt(m, c[l][k])
      BY <1>1, <1>2, <1>3
    <2>2. l \in Live(m2)
      BY <1>1
    <2> QED BY <1>1, <1>2, <2>1, <2>2, ExtendedIs
  <1>6. ItemsOf(m, c, l) /\ ItemsOf(m2, c2, l) /\ ItemsOf(m, c, f)
    BY <1>1, <1>2, ItemsIs
  <1>7. /\ Len(s) = i
        /\ Len(t) = i + r /\ DOMAIN t = 1..(i + r) /\ t \in Seq(It)
        /\ \A k \in 1..(i + r) : t[k] = ItemAt(m2, c2[l][k])
        /\ DOMAIN u = 1..r /\ \A k \in 1..r : u[k] = ItemAt(m, c[f][k])
    BY <1>1, <1>6 DEF ItemsOf
  <1> HIDE DEF s, t, u, i, r, It
  <1>8. Abstract!Vals(Abstract!Grown(s, t)) = Abstract!Vals(u)
    <2> DEFINE g == SubSeq(t, i + 1, i + r)
    <2>1. /\ Len(g) = r /\ DOMAIN g = 1..r /\ \A k \in 1..r : g[k] = t[i + k]
      <3>1. /\ g \in Seq(It)
            /\ Len(g) = IF i + 1 <= i + r THEN (i + r) - (i + 1) + 1 ELSE 0
            /\ \A k \in 1..((i + r) - (i + 1) + 1) : g[k] = t[(i + 1) + k - 1]
        <4>1. i + 1 \in 1..(Len(t) + 1) /\ i + r \in (i + 1) - 1 .. Len(t)
          BY <1>2, <1>7
        <4> QED BY <1>7, <4>1, SubSeqProperties
      <3>2. /\ (i + r) - (i + 1) + 1 = r /\ (~(i + 1 <= i + r) => r = 0)
            /\ \A k \in 1..r : (i + 1) + k - 1 = i + k
        BY <1>2
      <3> HIDE DEF g
      <3>3. Len(g) = r /\ \A k \in 1..r : g[k] = t[i + k]
        BY <3>1, <3>2
      <3> QED BY <3>1, <3>3, LenProperties
    <2>2. Abstract!Grown(s, t) = g
      BY <1>7 DEF Abstract!Grown
    <2> HIDE DEF g
    <2>3. \A k \in 1..r : g[k].val = u[k].val
      <3> TAKE k \in 1..r
      <3>1. i + k \in 1..(i + r)
        BY <1>2
      <3>2. g[k] = ItemAt(m2, c2[l][i + k]) /\ u[k] = ItemAt(m, c[f][k])
        BY <1>7, <2>1, <3>1
      <3> QED BY <1>1, <3>2
    <2> QED BY <1>7, <2>1, <2>2, <2>3 DEF Abstract!Vals
  <1>9. OnlyCopies(m, c[l]) => OnlyCopies(m2, c2[l])
    <2> SUFFICES ASSUME OnlyCopies(m, c[l]), NEW k \in 1..(i + r) PROVE m2.node[c2[l][k]].size = 1
      BY <1>1 DEF OnlyCopies
    <2>1. CASE k \in 1..i
      <3>1. c[l][k] \in Node \ FreeNodes(m)
        BY <1>2, <1>3, <2>1 DEF i
      <3> QED BY <1>1, <2>1, <3>1 DEF OnlyCopies, i
    <2>2. CASE k \notin 1..i
      <3>1. k - i \in 1..r /\ i + (k - i) = k
        BY <1>2, <2>2
      <3> QED BY <1>1, <3>1
    <2> QED BY <2>1, <2>2
  <1> QED BY <1>1, <1>4, <1>5, <1>8, <1>9 DEF Result, Abstract!Copies, s, t, u

\* list_add_list(): copies of the other list's items at the end.
LEMMA AddListIs ==
    ASSUME NEW c, Sound(mem, c), NEW l \in Lists, NEW f \in Lists, AddList(l, f),
           OnlyCopies(mem, c[f])
    PROVE  \E c2 : /\ Result(mem, c, l, mem', c2) /\ Calls(l)
                   /\ OnlyCopies(mem, c[l]) => OnlyCopies(mem', c2[l])
  <1>1. /\ l \in Live(mem) /\ f \in Live(mem) /\ f # l /\ Room(Len(Walk(mem, f)))
        /\ mem' = AllCopied(mem, l, f) /\ got' = 0 /\ Idle
    BY DEF AddList, Does
  <1>2. Room2(mem, Len(c[f])) /\ \A k \in 1..Len(c[f]) : mem.node[c[f][k]].size = 1
    BY <1>1, WalkIs DEF Sound, Room, Room2, OnlyCopies
  <1>3. PICK c2 : Copied(mem, c, l, c[f], Len(c[f]), mem', c2)
    BY <1>1, <1>2, AllCopiedIs
  <1>4. /\ Result(mem, c, l, mem', c2) /\ Live(mem') = Live(mem)
        /\ Abstract!Copies(Items(mem, l), Items(mem', l), Cursor(mem, l), Cursor(mem', l), Items(mem, f))
        /\ OnlyCopies(mem, c[l]) => OnlyCopies(mem', c2[l])
    BY <1>1, <1>3, CopiesIs
  <1>5. Calls(l)
    <2>1. [h \in Lists |-> IF sort.l = h THEN before ELSE Items(mem, h)][f] = Items(mem, f)
      BY <1>1, ListsAssumption DEF Idle, NoSort
    <2>2. f \in Live(mem) \ {l} /\ Live(mem') = Live(mem) \cup {l}
      BY <1>1, <1>4
    <2> QED BY <1>1, <1>4, <2>1, <2>2 DEF Calls, Abstract!Call
  <1> QED BY <1>4, <1>5

\* list_dup() makes a new list that has them alone.
LEMMA DupIs ==
    ASSUME NEW c, Sound(mem, c), NEW l \in Lists, NEW f \in Lists, Dup(l, f),
           OnlyCopies(mem, c[f])
    PROVE  \E c2 : /\ Result(mem, c, l, mem', c2) /\ Calls(l)
                   /\ OnlyCopies(mem, c[l]) => OnlyCopies(mem', c2[l])
  <1> DEFINE m1 == Created(mem, l)
  <1>1. /\ l \notin Live(mem) /\ f \in Live(mem) /\ Room(Len(Walk(mem, f)))
        /\ mem' = AllCopied(m1, l, f) /\ got' = 0 /\ Idle
    BY DEF Dup, Does
  <1>2. /\ Sound(m1, c) /\ Live(m1) = Live(mem) \cup {l} /\ c[l] = <<>>
        /\ m1.node = mem.node /\ m1.block = mem.block /\ m1.head[l].next = 0
        /\ \A h \in Lists : h # l => m1.head[h] = mem.head[h]
    BY <1>1, CreatedIs
  <1> HIDE DEF m1
  <1>3. /\ l \in Live(m1) /\ f \in Live(m1) /\ f # l
        /\ Room2(m1, Len(c[f])) /\ \A k \in 1..Len(c[f]) : m1.node[c[f][k]].size = 1
    BY <1>1, <1>2, WalkIs DEF Sound, Room, Room2, OnlyCopies, FreeNodes, FreeBlocks
  <1>4. PICK c2 : Copied(m1, c, l, c[f], Len(c[f]), mem', c2)
    BY <1>1, <1>2, <1>3, AllCopiedIs
  <1>5. /\ Result(m1, c, l, mem', c2) /\ Live(mem') = Live(m1)
        /\ Abstract!Copies(Items(m1, l), Items(mem', l), Cursor(m1, l), Cursor(mem', l), Items(m1, f))
        /\ OnlyCopies(m1, c[l]) => OnlyCopies(mem', c2[l])
    BY <1>2, <1>3, <1>4, CopiesIs
  <1>6. \A n : ItemAt(m1, n) = ItemAt(mem, n)
    BY <1>2 DEF ItemAt, Value
  <1>7. \A h \in Lists \ {l} : Keeps(mem, c, m1, c, h)
    BY <1>2, <1>6 DEF Keeps
  <1>8. Result(mem, c, l, mem', c2)
    BY <1>2, <1>5, <1>7 DEF Result, Keeps
  <1>9. Items(m1, l) = Items(mem, l) /\ Items(m1, f) = Items(mem, f)
    <2>1. ItemsOf(mem, c, l) /\ ItemsOf(m1, c, l) /\ ItemsOf(mem, c, f) /\ ItemsOf(m1, c, f)
      BY <1>2, ItemsIs
    <2> QED BY <1>6, <2>1 DEF ItemsOf
  <1>10. Cursor(m1, l) = 0 /\ Cursor(mem, l) = 0
    BY <1>1, <1>2, CursorIs
  <1>11. Calls(l)
    <2>1. [h \in Lists |-> IF sort.l = h THEN before ELSE Items(mem, h)][f] = Items(mem, f)
      BY <1>1, ListsAssumption DEF Idle, NoSort
    <2>2. f \in Live(mem) \ {l} /\ Live(mem') = Live(mem) \cup {l}
      BY <1>1, <1>2, <1>5
    <2>3. Abstract!Copies(Items(mem, l), Items(mem', l), Cursor(mem, l), Cursor(mem', l), Items(mem, f))
      BY <1>5, <1>9, <1>10
    <2> QED BY <1>1, <2>1, <2>2, <2>3 DEF Calls, Abstract!Call
  <1>12. OnlyCopies(mem, c[l]) => OnlyCopies(mem', c2[l])
    BY <1>2, <1>5 DEF OnlyCopies
  <1> QED BY <1>8, <1>11, <1>12

\* list_delete() of one of its items makes it shorter by that item.
LEMMA DeleteIs ==
    ASSUME NEW c, Sound(mem, c), NEW l \in Lists, NEW item \in Node, Delete(l, item)
    PROVE  \E c2 : /\ Result(mem, c, l, mem', c2) /\ Calls(l)
                   /\ OnlyCopies(mem, c[l]) => OnlyCopies(mem', c2[l])
  <1> DEFINE w == c[l]
             z == Len(w)
  <1>1. /\ mem \in Heap /\ Chains(mem, c) /\ Owned(mem) /\ Walk(mem, l) = w
        /\ w \in Seq(Node) /\ Once(w) /\ z \in Nat /\ DOMAIN w = 1..z
    BY WalkIs, LenProperties DEF Sound, Chains, Apart, Once
  <1>2. PICK p \in 1..z : mem.node[w[p]].item = item /\ Does(Unlinked(mem, l, w[p]))
    <2>1. PICK n \in ToSet(w) : mem.node[n].item = item /\ Does(Unlinked(mem, l, n))
      BY <1>1 DEF Delete
    <2> HIDE DEF w
    <2>2. PICK p \in 1..z : w[p] = n
      BY <1>1 DEF ToSet
    <2> QED BY <2>1, <2>2
  <1> DEFINE n  == w[p]
             c2 == [c EXCEPT ![l] = RemoveAt(w, p)]
             v  == c2[l]
  <1>3. n \in Node /\ mem.node[n].size = 1 /\ n \notin FreeNodes(mem)
    <2>1. n \in Node /\ mem.node[n] # Free /\ n \notin FreeNodes(mem)
      BY <1>1, UsedHolds
    <2>2. item \notin Static
      BY HeapAssumption DEF Node
    <2> QED BY <1>1, <1>2, <2>1, <2>2 DEF Owned
  <1>4. l \in Live(mem)
    BY <1>1, EmptySeq, Headers DEF Chains
  <1>5. mem' = Unlinked(mem, l, n) /\ got' = 0
    BY <1>2 DEF Does
  <1>6. /\ Sound(mem', c2) /\ Live(mem') = Live(mem)
        /\ \A x \in Node \ FreeNodes(mem) : x # n => /\ ItemAt(mem', x) = ItemAt(mem, x)
                                                     /\ mem'.node[x].size = mem.node[x].size
        /\ \A h \in Lists : h # l => mem'.head[h] = mem.head[h]
        /\ mem'.head[l].next = IF mem.head[l].next # n THEN mem.head[l].next
                               ELSE IF p = z THEN 0 ELSE w[p + 1]
    BY <1>3, <1>4, <1>5, UnlinkedIs
  <1>7. v = RemoveAt(w, p) /\ \A h \in Lists : h # l => c2[h] = c[h]
    BY <1>1 DEF Chains
  <1> HIDE DEF c2, v, n
  <1>8. /\ Len(v) = z - 1 /\ z # 0
        /\ \A k \in 1..(z - 1) : v[k] = w[Up(k, p)] /\ Up(k, p) \in 1..z /\ Up(k, p) # p
    <2>1. z \in Nat \ {0} /\ Len(v) = z - 1
      BY <1>1, <1>7, Removed
    <2>2. \A k \in 1..Len(v) : Up(k, p) \in 1..Len(w) /\ v[k] = w[Up(k, p)] /\ Up(k, p) # p
      BY <1>1, <1>7, RemovedIn
    <2> HIDE DEF w, z
    <2> QED BY <2>1, <2>2 DEF z
  <1>9. \A h \in Lists : \A k \in 1..Len(c[h]) : /\ c[h][k] \in Node \ FreeNodes(mem)
                                                 /\ c[h][k] = n <=> h = l /\ k = p
    <2>1. \A h \in Lists : \A k \in 1..Len(c[h]) : c[h][k] \in Node \ FreeNodes(mem)
      BY <1>1, UsedHolds
    <2> QED BY <2>1, NodesOnce DEF n
  <1>10. \A h \in Lists \ {l} : Keeps(mem, c, mem', c2, h)
    BY <1>6, <1>7, <1>9 DEF Keeps
  <1>11. \A k \in 1..(z - 1) : /\ ItemAt(mem', v[k]) = ItemAt(mem, w[Up(k, p)])
                               /\ mem'.node[v[k]].size = mem.node[w[Up(k, p)]].size
    BY <1>6, <1>8, <1>9
  <1> DEFINE s == Items(mem, l)
             t == Items(mem', l)
             It == [ptr : Node \cup Static, val : Nat]
  <1>12. /\ Len(s) = z /\ s \in Seq(It) /\ DOMAIN s = 1..z
         /\ \A k \in 1..z : s[k] = ItemAt(mem, w[k])
         /\ Len(t) = z - 1 /\ t \in Seq(It)
         /\ \A k \in 1..(z - 1) : t[k] = ItemAt(mem', v[k])
    <2>1. ItemsOf(mem, c, l) /\ ItemsOf(mem', c2, l)
      BY <1>6, ItemsIs
    <2>2. c2[l] = v
      BY DEF v
    <2> QED BY <1>8, <2>1, <2>2 DEF ItemsOf
  <1> HIDE DEF s, t, It, z
  <1>13. t = Abstract!RemoveAt(s, p)
    <2>1. /\ RemoveAt(s, p) \in Seq(It) /\ Len(RemoveAt(s, p)) = z - 1
          /\ \A k \in 1..(z - 1) : RemoveAt(s, p)[k] = s[Up(k, p)]
      <3>1. s \in Seq(It) /\ p \in 1..Len(s)
        BY <1>12
      <3>2. /\ RemoveAt(s, p) \in Seq(It) /\ Len(RemoveAt(s, p)) = Len(s) - 1
            /\ \A k \in 1..(Len(s) - 1) : RemoveAt(s, p)[k] = s[Up(k, p)]
        BY ONLY <3>1, Removed
      <3> QED BY <1>12, <3>2
    <2>2. Abstract!RemoveAt(s, p) = RemoveAt(s, p)
      BY DEF RemoveAt, Abstract!RemoveAt
    <2>3. \A k \in 1..(z - 1) : t[k] = RemoveAt(s, p)[k]
      BY <1>8, <1>11, <1>12, <2>1
    <2> QED BY <1>12, <2>1, <2>2, <2>3, SeqEqual
  <1>14. Cursor(mem', l) = IF Cursor(mem, l) > p THEN Cursor(mem, l) - 1
                           ELSE IF Cursor(mem, l) = p /\ p = Len(s) THEN 0 ELSE Cursor(mem, l)
    <2> DEFINE x == mem.head[l].next
               y == mem'.head[l].next
    <2>1. y = IF x # n THEN x ELSE IF p = z THEN 0 ELSE w[p + 1]
      BY <1>6
    <2>2. \A k \in 1..(z - 1) : v[k] = y => Cursor(mem', l) = k
      <3>1. c2[l] = v /\ l \in Live(mem')
        BY <1>4, <1>6 DEF v
      <3> QED BY <1>6, <1>8, <3>1, CursorIs
    <2>3. y = 0 => Cursor(mem', l) = 0
      BY <1>6, CursorIs
    <2>4. p \in 1..z /\ z \in Nat /\ n = w[p]
      BY <1>1 DEF n
    <2>5. CASE x = 0
      <3>1. y = 0 /\ Cursor(mem, l) = 0
        BY <1>3, <2>1, <2>5, CursorIs, HeapAssumption DEF Node
      <3> QED BY <2>3, <2>4, <3>1
    <2>6. CASE x # 0
      <3>1. PICK k \in 1..z : w[k] = x /\ Cursor(mem, l) = k
        BY <1>4, <2>6, CursorIs DEF z
      <3>2. CASE k < p
        <4>1. k \in 1..(z - 1) /\ Up(k, p) = k /\ x # n
          BY <1>9, <2>4, <3>1, <3>2 DEF Up, z
        <4> QED BY <1>8, <2>1, <2>2, <2>4, <3>1, <3>2, <4>1
      <3>3. CASE k = p /\ p = z
        BY <1>12, <2>1, <2>3, <2>4, <3>1, <3>3
      <3>4. CASE k = p /\ p # z
        <4>1. k \in 1..(z - 1) /\ Up(k, p) = p + 1
          BY <2>4, <3>4 DEF Up
        <4> QED BY <1>8, <1>12, <2>1, <2>2, <2>4, <3>1, <3>4, <4>1
      <3>5. CASE k > p
        <4>1. k - 1 \in 1..(z - 1) /\ Up(k - 1, p) = k /\ x # n /\ k # p
          BY <1>9, <2>4, <3>1, <3>5 DEF Up, z
        <4> QED BY <1>8, <2>1, <2>2, <2>4, <3>1, <3>5, <4>1
      <3>6. k < p \/ k = p \/ k > p
        BY <2>4
      <3> QED BY <3>2, <3>3, <3>4, <3>5, <3>6
    <2> QED BY <2>5, <2>6
  <1>15. Abstract!Deletes(s, t, Cursor(mem, l), Cursor(mem', l))
    BY <1>12, <1>13, <1>14 DEF Abstract!Deletes
  <1>16. Calls(l)
    BY <1>4, <1>5, <1>6, <1>15 DEF Calls, Abstract!Call, s, t
  <1>17. OnlyCopies(mem, w) => OnlyCopies(mem', c2[l])
    <2>1. c2[l] = v
      BY DEF v
    <2> SUFFICES ASSUME OnlyCopies(mem, w), NEW k \in 1..(z - 1)
                 PROVE  mem'.node[v[k]].size = 1
      BY <1>8, <2>1 DEF OnlyCopies
    <2>2. Up(k, p) \in 1..Len(w)
      BY <1>8 DEF z
    <2>3. mem.node[w[Up(k, p)]].size = 1
      BY <2>2 DEF OnlyCopies
    <2> QED BY <1>11, <2>3
  <1> QED BY <1>6, <1>10, <1>16, <1>17 DEF Result

\* What others do with lists that hold only copies, the sort aside.
LEMMA UseIs ==
    ASSUME NEW c, Sound(mem, c), NEW l \in Lists \ {Modules}, NEW f \in Lists \ {Modules},
           \A h \in Lists \ {Modules} : OnlyCopies(mem, c[h]),
           UseList(l, f), \A order \in {0, 1} : ~SortCall(l, order)
    PROVE  \E c2 : Result(mem, c, l, mem', c2) /\ Calls(l) /\ OnlyCopies(mem', c2[l])
  <1>1. CASE Create(l)
    <2>1. Result(mem, c, l, mem', c) /\ c[l] = <<>> /\ Calls(l)
      BY <1>1, CreateIs
    <2>2. OnlyCopies(mem', c[l])
      BY <2>1 DEF OnlyCopies
    <2> QED BY <2>1, <2>2
  <1>2. CASE GetNext(l)
    <2>1. Result(mem, c, l, mem', c) /\ Calls(l) /\ mem'.node = mem.node
      BY <1>2, GetNextIs
    <2> QED BY <2>1 DEF OnlyCopies
  <1>3. CASE Reset(l)
    <2>1. Result(mem, c, l, mem', c) /\ Calls(l) /\ mem'.node = mem.node
      BY <1>3, ResetIs
    <2> QED BY <2>1 DEF OnlyCopies
  <1>4. CASE Destroy(l)
    <2>1. Result(mem, c, l, mem', [c EXCEPT ![l] = <<>>]) /\ Calls(l)
      BY <1>4, DestroyIs
    <2>2. OnlyCopies(mem', [c EXCEPT ![l] = <<>>][l])
      <3>1. [c EXCEPT ![l] = <<>>][l] = <<>>
        BY DEF Sound, Chains
      <3> QED BY <3>1 DEF OnlyCopies
    <2> QED BY <2>1, <2>2
  <1>5. CASE \E v \in Val : AddCopy(l, v)
    BY <1>5, AddCopyIs
  <1>6. CASE AddList(l, f)
    BY <1>6, AddListIs
  <1>7. CASE Dup(l, f)
    BY <1>7, DupIs
  <1>8. CASE \E item \in Node : Delete(l, item)
    BY <1>8, DeleteIs
  <1> QED BY <1>1, <1>2, <1>3, <1>4, <1>5, <1>6, <1>7, <1>8 DEF UseList

-----------------------------------------------------------------------------
(* The invariant holds. *)

\* A call about one list, made while none is being sorted.
LEMMA InvKept ==
    ASSUME Inv, NEW l \in Lists, NEW c2, Result(mem, Walks(mem), l, mem', c2),
           l # Modules => OnlyCopies(mem', c2[l]), Idle, sort' = sort,
           Loads(mem, Walks(mem)[Modules])'
    PROVE  Inv'
  <1> DEFINE c == Walks(mem)
  <1>1. Sound(mem, c) /\ \A h \in Lists \ {Modules} : OnlyCopies(mem, c[h])
    BY DEF Inv
  <1> HIDE DEF c
  <1>2. Sound(mem', c2) /\ \A h \in Lists \ {l} : Keeps(mem, c, mem', c2, h)
    BY DEF Result, c
  <1>3. Walks(mem') = c2
    BY <1>2, WalksIs
  <1>4. \A h \in Lists \ {Modules} : OnlyCopies(mem', c2[h])
    <2> TAKE h \in Lists \ {Modules}
    <2>1. CASE h = l
      BY <2>1
    <2>2. CASE h # l
      BY <1>1, <1>2, <2>2 DEF Keeps, OnlyCopies
    <2> QED BY <2>1, <2>2
  <1>5. InSort(mem, Walks(mem))'
    BY DEF InSort, Idle
  <1> QED BY <1>2, <1>3, <1>4, <1>5 DEF Inv

\* What mybmm_load_module() knows stays true while others use their lists.
LEMMA LoadsKept ==
    ASSUME Inv, NEW c2, Walks(mem') = c2, Keeps(mem, Walks(mem), mem', c2, Modules),
           UNCHANGED <<pc, name, type>>
    PROVE  Loads(mem, Walks(mem)[Modules])'
  <1> DEFINE c == Walks(mem)
             w == c[Modules]
  <1>1. Loads(mem, w)
    BY DEF Inv
  <1>2. c2[Modules] = w /\ mem'.head[Modules].next = mem.head[Modules].next
    BY DEF Keeps
  <1>3. \A k \in 1..Len(w) : mem'.node[w[k]].item = mem.node[w[k]].item
    BY DEF Keeps, ItemAt
  <1> HIDE DEF c, w
  <1>4. Walks(mem')[Modules] = w
    BY <1>2
  <1> QED BY <1>1, <1>2, <1>3, <1>4 DEF Loads

\* Static items are not 0, and so is no node.
LEMMA NotNull ==
    ASSUME NEW m, NEW c, Sound(m, c), NEW l \in Lists, NEW k \in 1..Len(c[l])
    PROVE  c[l][k] # 0 /\ c[l][k] \in Node /\ m.node[c[l][k]].item # 0
  <1>1. c[l][k] \in Node /\ m.node[c[l][k]].item # 0
    BY UsedHolds DEF Sound
  <1> QED BY <1>1, HeapAssumption DEF Node

\* What is true of a sort stays true when nothing happens to it.
LEMMA SortKept ==
    ASSUME InSort(mem, Walks(mem)), mem' = mem, UNCHANGED <<sort, before>>
    PROVE  InSort(mem, Walks(mem))'
  <1> DEFINE c == Walks(mem)
  <1>1. Walks(mem') = c /\ c' = c
    OBVIOUS
  <1> HIDE DEF c
  <1>2. CASE sort = NoSort
    BY <1>2 DEF InSort
  <1>3. CASE sort # NoSort
    <2>1. /\ sort \in [l : Live(mem) \ {Modules}, at : Pointer, comp : {1, -1}]
          /\ before \in Seq([ptr : Node \cup Static, val : Nat])
          /\ \E p \in 1..(Len(c[sort.l]) + 1) : SortedTo(mem, c[sort.l], p)
          /\ SameItems(mem, c[sort.l])
      BY <1>3 DEF InSort, c
    <2>2. PICK k \in 1..(Len(c[sort.l]) + 1) : SortedTo(mem, c[sort.l], k)
      BY <2>1
    <2>3. (\E p \in 1..(Len(c[sort.l]) + 1) : SortedTo(mem, c[sort.l], p))'
      BY <1>1, <2>2 DEF SortedTo, Above
    <2> QED BY <1>1, <2>1, <2>3 DEF InSort, SameItems
  <1> QED BY <1>2, <1>3

\* Every step of main() and mybmm_load_module() while modules are loaded.
LEMMA LoadingKeeps ==
    ASSUME Inv, Loading
    PROVE  Inv'
  <1> DEFINE c == Walks(mem)
             w == c[Modules]
  <1>1. Sound(mem, c) /\ Loads(mem, w) /\ InSort(mem, c)
    BY DEF Inv
  <1>2. Modules \in Lists /\ Type[jbd] = "cellmon"
    BY ModulesAssumption
  <1>3. CASE CreateModules
    <2>1. Create(Modules) /\ pc' = "call" /\ UNCHANGED <<name, type>>
      BY <1>3 DEF CreateModules
    <2>2. Idle /\ sort' = sort
      BY <2>1 DEF Create, Does
    <2>3. Result(mem, c, Modules, mem', c) /\ w = <<>>
      BY <1>1, <1>2, <2>1, CreateIs
    <2>4. Walks(mem') = c
      BY <2>3, WalksIs DEF Result
    <2>5. Loads(mem, Walks(mem)[Modules])'
      BY <1>1, <2>1, <2>3, <2>4 DEF Loads
    <2> QED BY <1>2, <2>2, <2>3, <2>5, InvKept
  <1>4. CASE LoadCall
    <2>1. Reset(Modules) /\ pc' = "walk" /\ UNCHANGED <<name, type>>
      BY <1>4 DEF LoadCall
    <2>2. Idle /\ sort' = sort
      BY <2>1 DEF Reset, Does
    <2>3. /\ Result(mem, c, Modules, mem', c)
          /\ w # <<>> => mem'.head[Modules].next = w[1]
      BY <1>1, <1>2, <2>1, ResetIs
    <2>4. Walks(mem') = c /\ Len(w) \in Nat
      BY <1>1, <1>2, <2>3, WalksIs, LenProperties DEF Result, Sound, Chains
    <2>5. \A k \in 1..Len(w) : \E j \in 1..k : w[j] = mem'.head[Modules].next
      <3> TAKE k \in 1..Len(w)
      <3> HIDE DEF w
      <3>1. w # <<>> /\ 1 \in 1..k
        BY <2>4, EmptySeq
      <3> QED BY <2>3, <3>1
    <2>6. Loads(mem, Walks(mem)[Modules])'
      BY <1>1, <2>1, <2>4, <2>5 DEF Loads
    <2> QED BY <1>2, <2>2, <2>3, <2>6, InvKept
  <1>5. CASE Walking
    <2>1. /\ pc = "walk" /\ GetNext(Modules)
          /\ CASE got' = 0    -> pc' = "init" /\ UNCHANGED <<name, type>>
               [] got' # 0 /\ Found(got')  -> Loaded
               [] got' # 0 /\ ~Found(got') -> UNCHANGED <<pc, name, type>>
      BY <1>5 DEF Walking
    <2>2. Idle /\ sort' = sort
      BY <2>1 DEF GetNext
    <2>3. /\ Result(mem, c, Modules, mem', c) /\ mem'.node = mem.node
          /\ \/ mem.head[Modules].next = 0 /\ got' = 0 /\ mem'.head[Modules].next = 0
             \/ \E k \in 1..Len(w) :
                   /\ w[k] = mem.head[Modules].next /\ got' = mem.node[w[k]].item /\ got' # 0
                   /\ mem'.head[Modules].next = IF k = Len(w) THEN 0 ELSE w[k + 1]
      BY <1>1, <1>2, <2>1, GetNextIs
    <2>4. Walks(mem') = c /\ Len(w) \in Nat /\ Once(w)
      BY <1>1, <1>2, <2>3, WalksIs, LenProperties DEF Result, Sound, Chains, Apart, Once
    <2>5. \A k \in 1..Len(w) : w[k] # 0 /\ mem.node[w[k]].item # 0
      BY <1>1, <1>2, NotNull
    <2>6. \A k \in 1..Len(w) : mem.node[w[k]].item = name =>
             \E j \in 1..k : w[j] = mem.head[Modules].next
      BY <1>1, <2>1 DEF Loads
    <2>7. CASE got' = 0
      <3>1. mem.head[Modules].next = 0 /\ pc' = "init" /\ UNCHANGED <<name, type>>
        BY <2>1, <2>3, <2>7
      <3>2. \A k \in 1..Len(w) : mem.node[w[k]].item # name
        BY <2>4, <2>5, <2>6, <3>1
      <3>3. Loads(mem, Walks(mem)[Modules])'
        BY <1>1, <2>3, <2>4, <3>1, <3>2 DEF Loads
      <3> QED BY <1>2, <2>2, <2>3, <3>3, InvKept
    <2>8. CASE got' # 0
      <3>1. PICK p \in 1..Len(w) :
               /\ w[p] = mem.head[Modules].next /\ got' = mem.node[w[p]].item
               /\ mem'.head[Modules].next = IF p = Len(w) THEN 0 ELSE w[p + 1]
        BY <2>3, <2>8
      <3>2. w # <<>>
        BY <2>4, <3>1
      <3>3. type = "cellmon" /\ name = jbd
        BY <1>1, <3>2 DEF Loads
      <3>4. CASE Found(got')
        <4>1. Loaded
          BY <2>1, <2>8, <3>4
        <4>2. pc' = "done" /\ UNCHANGED <<name, type>>
          BY <3>3, <4>1 DEF Loaded
        <4>3. Loads(mem, Walks(mem)[Modules])'
          BY <1>1, <2>4, <4>2 DEF Loads
        <4> QED BY <1>2, <2>2, <2>3, <4>3, InvKept
      <3>5. CASE ~Found(got')
        <4>1. UNCHANGED <<pc, name, type>>
          BY <2>1, <2>8, <3>5
        <4>2. mem.node[w[p]].item # name
          BY <1>2, <3>1, <3>3, <3>5 DEF Found
        <4>3. \A k \in 1..Len(w) : mem'.node[w[k]].item = name =>
                 \E j \in 1..k : w[j] = mem'.head[Modules].next
          <5> TAKE k \in 1..Len(w)
          <5> HAVE mem'.node[w[k]].item = name
          <5>1. PICK j \in 1..k : w[j] = mem.head[Modules].next
            BY <2>3, <2>6
          <5>2. j = p /\ k # p
            <6>1. j \in 1..Len(w)
              BY <2>4
            <6> QED BY <2>3, <2>4, <3>1, <4>2, <5>1, <6>1 DEF Once
          <5>3. p + 1 \in 1..k /\ p # Len(w)
            BY <2>4, <5>2
          <5> QED BY <3>1, <5>3
        <4>4. Loads(mem, Walks(mem)[Modules])'
          BY <1>1, <2>4, <3>3, <4>1, <4>3, <2>1 DEF Loads
        <4> QED BY <1>2, <2>2, <2>3, <4>4, InvKept
      <3> QED BY <3>4, <3>5
    <2> QED BY <2>7, <2>8
  <1>6. CASE InitModule \/ LoadFails
    <2>1. mem' = mem /\ got' = got /\ sort' = sort /\ before' = before
      BY <1>6 DEF InitModule, LoadFails, lvars
    <2>2. Loads(mem, Walks(mem)[Modules])'
      BY <1>1, <1>6, <2>1 DEF Loads, InitModule, LoadFails
    <2>3. InSort(mem, Walks(mem))'
      BY <1>1, <2>1, SortKept
    <2> QED BY <2>1, <2>2, <2>3 DEF Inv
  <1>7. CASE AddModule
    <2>1. pc = "add" /\ AddStatic(Modules, name) /\ Loaded
      BY <1>7 DEF AddModule
    <2>2. Idle /\ sort' = sort
      BY <2>1 DEF AddStatic, Does
    <2>3. name \in Static /\ \A k \in 1..Len(w) : mem.node[w[k]].item # name
      BY <1>1, <2>1 DEF Loads
    <2>4. PICK c2 : Result(mem, c, Modules, mem', c2)
      BY <1>1, <1>2, <2>1, <2>3, AddStaticIs
    <2>5. Loads(mem, Walks(mem)[Modules])'
      BY <1>1, <2>1 DEF Loads, Loaded
    <2> QED BY <1>2, <2>2, <2>4, <2>5, InvKept
  <1> QED BY <1>3, <1>4, <1>5, <1>6, <1>7 DEF Loading

-----------------------------------------------------------------------------
(* list_sort(). *)

\* ip1 is at place p of list l.
SortingAt(c, l, p) ==
    /\ Sound(mem, c) /\ l \in Live(mem) \ {Modules} /\ l \in Lists /\ sort.l = l
    /\ Len(c[l]) \in Nat /\ p \in 1..Len(c[l]) /\ sort.at = c[l][p] /\ SortedTo(mem, c[l], p)
    /\ SameItems(mem, c[l])
    /\ DOMAIN Rest = 1..(Len(c[l]) - p)
    /\ \A k \in 1..(Len(c[l]) - p) : /\ Rest[k] = c[l][p + k]
                                     /\ Misplaced(k) <=> Above(mem, c[l], p, p + k)
    /\ sort = [l |-> l, at |-> sort.at, comp |-> sort.comp] /\ sort.comp \in {1, -1}
    /\ \A h \in Lists \ {Modules} : OnlyCopies(mem, c[h])

\* While it goes on, it is at a place of its list.
LEMMA SortingIs ==
    ASSUME Inv, sort.at # 0
    PROVE  \E p : SortingAt(Walks(mem), sort.l, p)
  <1> DEFINE c == Walks(mem)
             l == sort.l
             w == c[l]
  <1>1. /\ Sound(mem, c) /\ \A h \in Lists \ {Modules} : OnlyCopies(mem, c[h])
        /\ InSort(mem, c)
    BY DEF Inv
  <1> HIDE DEF c
  <1>2. /\ sort \in [l : Live(mem) \ {Modules}, at : Pointer, comp : {1, -1}]
        /\ \E p \in 1..(Len(w) + 1) : SortedTo(mem, w, p)
        /\ SameItems(mem, w)
    BY <1>1 DEF InSort, NoSort
  <1>3. l \in Live(mem) \ {Modules} /\ l \in Lists
    BY <1>2 DEF Live
  <1>4. mem \in Heap /\ Chains(mem, c) /\ w \in Seq(Node) /\ Len(w) \in Nat
    BY <1>1, <1>3, LenProperties DEF Sound, Chains
  <1>5. PICK p \in 1..(Len(w) + 1) : SortedTo(mem, w, p)
    BY <1>2
  <1>6. p \in 1..Len(w) /\ sort.at = w[p]
    BY <1>4, <1>5 DEF SortedTo
  <1>7. /\ Rest \in Seq(Node) /\ Len(Rest) = Len(w) - p
        /\ \A k \in 1..(Len(w) - p) : Rest[k] = w[p + k]
    <2> DEFINE r == Follow(mem, mem.node[c[l][p]].next)
    <2>1. l \in Live(mem) /\ p \in 1..Len(c[l])
      BY <1>3, <1>6
    <2>2. Behind(r, c[l], p)
      BY <1>4, <2>1, RestIs
    <2> QED BY <1>6, <2>2 DEF Rest, Behind
  <1>8. DOMAIN Rest = 1..(Len(w) - p)
    BY <1>7, LenProperties
  <1>9. \A k \in 1..(Len(w) - p) : Misplaced(k) <=> Above(mem, w, p, p + k)
    <2> TAKE k \in 1..(Len(w) - p)
    <2>1. Here = ItemAt(mem, w[p]).val /\ There(k) = ItemAt(mem, w[p + k]).val
      BY <1>6, <1>7 DEF Here, There, ItemAt
    <2> QED BY <2>1 DEF Misplaced, Above
  <1>10. sort = [l |-> l, at |-> sort.at, comp |-> sort.comp] /\ sort.comp \in {1, -1}
    BY <1>2
  <1>11. SortingAt(c, l, p)
    BY <1>1, <1>2, <1>3, <1>4, <1>5, <1>6, <1>7, <1>8, <1>9, <1>10 DEF SortingAt
  <1> QED BY <1>11 DEF c

\* The swap of two items: the other lists are kept, the items up to ip1 are
\* still in order, and all of them are still there.
LEMMA SwapIs ==
    ASSUME Inv, SortSwap
    PROVE  /\ Result(mem, Walks(mem), sort.l, mem', Walks(mem)) /\ mem'.head = mem.head
           /\ \A h \in Lists \ {Modules} : OnlyCopies(mem', Walks(mem)[h])
           /\ InSort(mem, Walks(mem))'
           /\ sort # NoSort /\ sort' = sort
  <1> DEFINE c == Walks(mem)
             l == sort.l
             w == c[l]
  <1>1. sort.at # 0 /\ UNCHANGED <<got, sort, before>>
    BY DEF SortSwap
  <1>2. PICK p : SortingAt(c, l, p)
    BY <1>1, SortingIs
  <1> HIDE DEF c
  <1>3. PICK k \in Later : mem' = Swapped(mem, sort.at, Rest[k])
    BY DEF SortSwap
  <1>4. /\ Sound(mem, c) /\ l \in Live(mem) \ {Modules} /\ l \in Lists
        /\ Len(w) \in Nat /\ p \in 1..Len(w) /\ sort.at = w[p]
        /\ SortedTo(mem, w, p) /\ SameItems(mem, w) /\ k \in 1..(Len(w) - p) /\ Rest[k] = w[p + k]
        /\ \A h \in Lists \ {Modules} : OnlyCopies(mem, c[h])
    BY <1>2, <1>3 DEF SortingAt, Later
  <1> DEFINE q == p + k
             To(j) == IF j = p THEN q ELSE IF j = q THEN p ELSE j
  <1>5. q \in 1..Len(w) /\ q > p
    BY <1>4
  <1> HIDE DEF w, q
  <1>6. /\ Sound(mem', c) /\ mem'.head = mem.head /\ mem'.block = mem.block
        /\ \A x \in Node : /\ ItemAt(mem', x) = ItemAt(mem, IF x = w[p] THEN w[q] ELSE IF x = w[q] THEN w[p] ELSE x)
                           /\ mem'.node[x].size = mem.node[x].size
                           /\ mem'.node[x].next = mem.node[x].next
    <2>1. mem.node[w[p]].size = 1 /\ mem.node[w[q]].size = 1 /\ p # q
      BY <1>4, <1>5 DEF OnlyCopies, w
    <2>2. mem' = Swapped(mem, w[p], w[q])
      BY <1>3, <1>4 DEF q
    <2> DEFINE a == w[p]
               b == w[q]
    <2>3. /\ Sound(mem, c) /\ l \in Live(mem) /\ p # q /\ a = c[l][p] /\ b = c[l][q]
          /\ p \in 1..Len(c[l]) /\ q \in 1..Len(c[l])
      BY <1>4, <1>5, <2>1 DEF w
    <2>4. mem.node[a].size = 1 /\ mem.node[b].size = 1 /\ mem' = Swapped(mem, a, b)
      BY <2>1, <2>2
    <2> HIDE DEF a, b
    <2>5. /\ Sound(mem', c) /\ mem'.head = mem.head /\ mem'.block = mem.block
          /\ \A x \in Node : /\ ItemAt(mem', x) = ItemAt(mem, IF x = a THEN b ELSE IF x = b THEN a ELSE x)
                             /\ mem'.node[x].size = mem.node[x].size
                             /\ mem'.node[x].next = mem.node[x].next
      BY ONLY <2>3, <2>4, SwappedIs
    <2> QED BY <2>5 DEF a, b
  <1>7. \A h \in Lists : \A j \in 1..Len(c[h]) : c[h][j] \in Node
    BY <1>4, NotNull
  <1>8. Walks(mem') = c /\ c' = c
    BY <1>6, WalksIs DEF c
  <1>9. \A h \in Lists \ {Modules} : OnlyCopies(mem', c[h])
    BY <1>4, <1>6, <1>7 DEF OnlyCopies
  <1>10. \A h \in Lists \ {l} : Keeps(mem, c, mem', c, h)
    <2> TAKE h \in Lists \ {l}
    <2>1. \A j \in 1..Len(c[h]) : c[h][j] # w[p] /\ c[h][j] # w[q]
      BY <1>4, <1>5, NodesOnce DEF w
    <2>2. \A j \in 1..Len(c[h]) : /\ ItemAt(mem', c[h][j]) = ItemAt(mem, c[h][j])
                                  /\ mem'.node[c[h][j]].size = mem.node[c[h][j]].size
      BY <1>6, <1>7, <2>1
    <2>3. h \in Live(mem') <=> h \in Live(mem)
      BY <1>6 DEF Live
    <2> QED BY <1>6, <2>2, <2>3 DEF Keeps
  <1>11. \A j \in 1..Len(w) : To(j) \in 1..Len(w) /\ To(To(j)) = j
                                 /\ ItemAt(mem', w[j]) = ItemAt(mem, w[To(j)])
    <2> TAKE j \in 1..Len(w)
    <2>1. To(j) \in 1..Len(w) /\ To(To(j)) = j
      BY <1>4, <1>5
    <2>2. (w[j] = w[p] => j = p) /\ (w[j] = w[q] => j = q)
      BY <1>4, <1>5, NodesOnce DEF w
    <2>3. w[j] \in Node
      BY <1>4, <1>7 DEF w
    <2> QED BY <1>6, <2>1, <2>2, <2>3
  <1>12. \A j \in 1..(p - 1) : To(j) = j
    BY <1>4, <1>5
  <1>13. \A j \in 1..(p - 1), i \in 1..Len(w) : j < i => j < To(i)
    BY <1>4, <1>5
  <1>14. \A j \in 1..(p - 1) : j \in 1..Len(w)
    BY <1>4
  <1> HIDE DEF To
  <1>15. SortedTo(mem', w, p)
    <2>1. \A j \in 1..(p - 1), i \in 1..Len(w) : Above(mem', w, j, i) <=> Above(mem, w, j, To(i))
      BY <1>11, <1>12, <1>14 DEF Above
    <2> QED BY <1>4, <1>11, <1>13, <2>1 DEF SortedTo
  <1>16. SameItems(mem', w)
    <2> SUFFICES ASSUME NEW j \in 1..Len(w)
                 PROVE  /\ \E i \in 1..Len(w) : before[i] = ItemAt(mem', w[j])
                        /\ \E i \in 1..Len(w) : before[j] = ItemAt(mem', w[i])
      BY <1>4 DEF SameItems
    <2>1. \E i \in 1..Len(w) : before[i] = ItemAt(mem, w[To(j)])
      BY <1>4, <1>11 DEF SameItems
    <2>2. PICK i \in 1..Len(w) : before[j] = ItemAt(mem, w[i])
      BY <1>4 DEF SameItems
    <2>3. ItemAt(mem', w[To(i)]) = ItemAt(mem, w[i]) /\ To(i) \in 1..Len(w)
      BY <1>11
    <2> QED BY <1>11, <2>1, <2>2, <2>3
  <1>17. sort # NoSort
    BY <1>1 DEF NoSort
  <1>18. InSort(mem, Walks(mem))'
    <2>1. /\ sort \in [l : Live(mem) \ {Modules}, at : Pointer, comp : {1, -1}]
          /\ before \in Seq([ptr : Node \cup Static, val : Nat])
      BY <1>17 DEF Inv, InSort
    <2>2. Live(mem') = Live(mem)
      BY <1>6 DEF Live
    <2>3. SortedTo(mem, c[sort.l], p)' /\ SameItems(mem, c[sort.l])'
      BY <1>1, <1>8, <1>15, <1>16 DEF w, SortedTo, Above, SameItems
    <2>4. p \in 1..(Len(c[sort.l]) + 1)
      BY <1>4 DEF w
    <2>5. (\E i \in 1..(Len(c[sort.l]) + 1) : SortedTo(mem, c[sort.l], i))'
      BY <1>1, <1>8, <2>3, <2>4
    <2> QED BY <1>1, <1>8, <2>1, <2>2, <2>3, <2>5 DEF InSort
  <1> QED BY <1>1, <1>6, <1>9, <1>10, <1>17, <1>18 DEF Result, c

\* The next node: no item behind this one belongs before it.
LEMMA SortOnKeeps ==
    ASSUME Inv, SortOn
    PROVE  InSort(mem, Walks(mem))' /\ sort.l = sort'.l /\ sort # NoSort /\ sort' # NoSort
  <1> DEFINE c == Walks(mem)
             l == sort.l
             w == c[l]
  <1>1. sort.at # 0 /\ Later = {} /\ sort' = [sort EXCEPT !.at = mem.node[@].next]
        /\ mem' = mem /\ before' = before
    BY DEF SortOn
  <1>2. PICK p : SortingAt(c, l, p)
    BY <1>1, SortingIs
  <1>3. sort # NoSort
    BY <1>1 DEF NoSort
  <1>4. /\ sort \in [l : Live(mem) \ {Modules}, at : Pointer, comp : {1, -1}]
        /\ before \in Seq([ptr : Node \cup Static, val : Nat])
    BY <1>3 DEF Inv, InSort
  <1>5. Walks(mem') = c /\ c' = c
    BY <1>1
  <1> HIDE DEF c
  <1>6. /\ Sound(mem, c) /\ l \in Live(mem) \ {Modules} /\ l \in Lists
        /\ Len(w) \in Nat /\ p \in 1..Len(w) /\ sort.at = w[p]
        /\ SortedTo(mem, w, p) /\ SameItems(mem, w)
        /\ \A k \in 1..(Len(w) - p) : ~Above(mem, w, p, p + k)
    BY <1>1, <1>2 DEF SortingAt, Later
  <1>7. Chain(mem, l, w) /\ mem \in Heap /\ w[p] \in Node
    BY <1>6, NotNull, Headers DEF Sound, Chains
  <1>8. mem.node[w[p]].next = IF p = Len(w) THEN 0 ELSE w[p + 1]
    BY <1>6, <1>7 DEF Chain, Leads
  <1>9. mem.node[w[p]].next \in Pointer
    BY <1>7 DEF Heap
  <1>10. /\ sort' \in [l : Live(mem) \ {Modules}, at : Pointer, comp : {1, -1}]
         /\ sort'.l = l /\ sort'.comp = sort.comp /\ sort'.at = mem.node[w[p]].next
    BY <1>1, <1>4, <1>6, <1>9
  <1> HIDE DEF w, l
  <1>11. \A j \in 1..((p + 1) - 1), k \in 1..Len(w) : j < k => ~Above(mem, w, j, k)
    <2> TAKE j \in 1..((p + 1) - 1), k \in 1..Len(w)
    <2> HAVE j < k
    <2>1. CASE j = p
      <3>1. k - p \in 1..(Len(w) - p) /\ p + (k - p) = k
        BY <1>6, <2>1
      <3> QED BY <1>6, <2>1, <3>1
    <2>2. CASE j # p
      <3>1. j \in 1..(p - 1)
        BY <1>6, <2>2
      <3> QED BY <1>6, <3>1 DEF SortedTo
    <2> QED BY <2>1, <2>2
  <1>12. sort'.at = IF p + 1 = Len(w) + 1 THEN 0 ELSE w[p + 1]
    BY <1>6, <1>8, <1>10
  <1>13. c'[sort'.l] = w
    BY <1>5, <1>10 DEF w
  <1>14. (\E i \in 1..(Len(c[sort.l]) + 1) : SortedTo(mem, c[sort.l], i))'
    <2>1. p + 1 \in 1..(Len(w) + 1)
      BY <1>6
    <2>2. \A j \in 1..((p + 1) - 1), k \in 1..Len(w) : j < k =>
             Compare(ItemAt(mem', w[j]).val, ItemAt(mem', w[k]).val) # sort'.comp
      BY <1>1, <1>10, <1>11 DEF Above
    <2> QED BY <1>12, <1>13, <2>1, <2>2 DEF SortedTo, Above
  <1>15. SameItems(mem, c[sort.l])'
    <2>1. /\ Len(before) = Len(w)
          /\ \A k \in 1..Len(w) : /\ \E j \in 1..Len(w) : before[j] = ItemAt(mem, w[k])
                                  /\ \E j \in 1..Len(w) : before[k] = ItemAt(mem, w[j])
      BY <1>6 DEF SameItems
    <2>2. mem' = mem /\ before' = before
      BY <1>1
    <2>3. /\ Len(before') = Len(w)
          /\ \A k \in 1..Len(w) : /\ \E j \in 1..Len(w) : before'[j] = ItemAt(mem', w[k])
                                  /\ \E j \in 1..Len(w) : before'[k] = ItemAt(mem', w[j])
      BY <2>1, <2>2
    <2> QED BY <1>13, <2>3 DEF SameItems
  <1>16. InSort(mem, Walks(mem))'
    BY <1>1, <1>4, <1>5, <1>10, <1>14, <1>15 DEF InSort
  <1>17. sort' # NoSort
    <2>1. sort'.l \in Lists
      BY <1>6, <1>10
    <2> QED BY <2>1, ListsAssumption DEF NoSort
  <1> QED BY <1>3, <1>10, <1>16, <1>17 DEF l

\* The call: no item has been looked at.
LEMMA SortCallKeeps ==
    ASSUME Inv, NEW l \in Lists \ {Modules}, NEW order \in {0, 1}, SortCall(l, order)
    PROVE  InSort(mem, Walks(mem))'
  <1> DEFINE c == Walks(mem)
             w == c[l]
  <1>1. /\ l \in Live(mem) /\ before' = Items(mem, l) /\ mem' = mem
        /\ sort' = [l |-> l, at |-> mem.head[l].first, comp |-> IF order = 0 THEN 1 ELSE -1]
    BY DEF SortCall
  <1>2. Sound(mem, c)
    BY DEF Inv
  <1>3. Walks(mem') = c /\ c' = c
    BY <1>1
  <1> HIDE DEF c
  <1>4. Chain(mem, l, w) /\ mem \in Heap /\ w \in Seq(Node) /\ Len(w) \in Nat
    BY <1>1, <1>2, LenProperties, Headers DEF Sound, Chains
  <1>5. ItemsOf(mem, c, l)
    BY <1>2, ItemsIs
  <1>6. mem.head[l].first = (IF w = <<>> THEN 0 ELSE w[1])
    BY <1>4 DEF Chain, Ends
  <1>7. w # <<>> => w[1] \in Node
    BY <1>4, EmptySeq, ElementOfSeq
  <1>8. /\ sort' \in [l : Live(mem) \ {Modules}, at : Pointer, comp : {1, -1}]
        /\ sort'.l = l /\ sort'.at = IF w = <<>> THEN 0 ELSE w[1]
    BY <1>1, <1>6, <1>7 DEF Pointer
  <1>9. c'[sort'.l] = w
    BY <1>3, <1>8
  <1> HIDE DEF w
  <1>10. (\E p \in 1..(Len(c[sort.l]) + 1) : SortedTo(mem, c[sort.l], p))'
    <2>1. 1 \in 1..(Len(w) + 1) /\ (w = <<>> <=> 1 = Len(w) + 1)
      BY <1>4, EmptySeq
    <2>2. sort'.at = IF 1 = Len(w) + 1 THEN 0 ELSE w[1]
      BY <1>8, <2>1
    <2> QED BY <1>9, <2>1, <2>2 DEF SortedTo
  <1>11. SameItems(mem, c[sort.l])'
    <2>1. /\ Len(before') = Len(w)
          /\ \A k \in 1..Len(w) : before'[k] = ItemAt(mem', w[k])
      BY <1>1, <1>5 DEF ItemsOf, w
    <2> QED BY <1>9, <2>1 DEF SameItems
  <1>12. before' \in Seq([ptr : Node \cup Static, val : Nat])
    BY <1>1, <1>5 DEF ItemsOf
  <1> QED BY <1>1, <1>3, <1>8, <1>10, <1>11, <1>12 DEF InSort

\* A step of list_sort().
LEMMA SortingKeeps ==
    ASSUME Inv, Sorting, UNCHANGED <<pc, name, type>>
    PROVE  Inv'
  <1> DEFINE c == Walks(mem)
  <1>1. /\ Sound(mem, c) /\ \A h \in Lists \ {Modules} : OnlyCopies(mem, c[h])
        /\ Loads(mem, c[Modules])
    BY DEF Inv
  <1>2. CASE SortSwap
    <2>1. /\ Result(mem, c, sort.l, mem', c) /\ InSort(mem, Walks(mem))' /\ sort # NoSort
          /\ \A h \in Lists \ {Modules} : OnlyCopies(mem', c[h])
      BY <1>2, SwapIs
    <2>2. Walks(mem') = c
      BY <2>1, WalksIs DEF Result
    <2>3. Modules # sort.l
      BY <2>1 DEF Inv, InSort
    <2>4. Keeps(mem, c, mem', c, Modules)
      BY <2>1, <2>3, ModulesAssumption DEF Result
    <2>5. Loads(mem, Walks(mem)[Modules])'
      BY <2>2, <2>4, LoadsKept
    <2> HIDE DEF c
    <2> QED BY <2>1, <2>2, <2>5 DEF Inv, Result
  <1>3. CASE SortOn \/ SortDone
    <2>1. mem' = mem
      BY <1>3 DEF SortOn, SortDone
    <2>2. Loads(mem, Walks(mem)[Modules])'
      BY <1>1, <2>1 DEF Loads
    <2>3. InSort(mem, Walks(mem))'
      <3>1. CASE SortOn
        BY <3>1, SortOnKeeps
      <3>2. CASE SortDone
        BY <3>2 DEF SortDone, InSort
      <3> QED BY <1>3, <3>1, <3>2
    <2> QED BY <1>1, <2>1, <2>2, <2>3 DEF Inv
  <1> QED BY <1>2, <1>3 DEF Sorting

\* A call on another list than conf->modules.
LEMMA OthersKeep ==
    ASSUME Inv, Others
    PROVE  Inv'
  <1> DEFINE c == Walks(mem)
  <1>1. /\ Sound(mem, c) /\ \A h \in Lists \ {Modules} : OnlyCopies(mem, c[h])
        /\ Loads(mem, c[Modules]) /\ Modules \in Lists
    BY ModulesAssumption DEF Inv
  <1>2. PICK l \in Lists \ {Modules}, f \in Lists \ {Modules} : UseList(l, f)
    BY DEF Others
  <1>3. UNCHANGED <<pc, name, type>>
    BY DEF Others
  <1>4. CASE \E order \in {0, 1} : SortCall(l, order)
    <2>1. mem' = mem
      BY <1>4 DEF SortCall
    <2>2. InSort(mem, Walks(mem))'
      BY <1>4, SortCallKeeps
    <2>3. Loads(mem, Walks(mem)[Modules])'
      BY <1>1, <1>3, <2>1 DEF Loads
    <2> QED BY <1>1, <2>1, <2>2, <2>3 DEF Inv
  <1>5. CASE \A order \in {0, 1} : ~SortCall(l, order)
    <2>1. PICK c2 : Result(mem, c, l, mem', c2) /\ OnlyCopies(mem', c2[l])
      BY <1>1, <1>2, <1>5, UseIs
    <2>2. Idle /\ sort' = sort
      BY <1>2, <1>5 DEF UseList, Create, GetNext, Reset, Destroy, AddCopy, AddList, Dup,
                        Delete, Does
    <2>3. Walks(mem') = c2
      BY <2>1, WalksIs DEF Result
    <2>4. Keeps(mem, c, mem', c2, Modules)
      BY <1>1, <2>1 DEF Result
    <2>5. Loads(mem, Walks(mem)[Modules])'
      BY <1>3, <2>3, <2>4, LoadsKept
    <2> QED BY <2>1, <2>2, <2>5, InvKept
  <1> QED BY <1>4, <1>5

\* No list is there, and all nodes are free.
LEMMA InitInv == RInit => Inv
  <1> SUFFICES ASSUME RInit PROVE Inv
    OBVIOUS
  <1> DEFINE c == [l \in Lists |-> <<>>]
  <1>1. /\ mem = [node  |-> [n \in Node |-> Free], block |-> [b \in Node |-> 0],
                  head  |-> [l \in Lists |-> Gone]]
        /\ sort = NoSort /\ pc = "create" /\ type = "transport"
    BY DEF RInit, Init
  <1>2. mem \in Heap
    BY <1>1 DEF Heap, Free, Pointer
  <1>3. /\ c \in [Lists -> Seq(Node)] /\ \A l \in Lists : c[l] = <<>> /\ Len(c[l]) = 0
    BY LenProperties
  <1>4. \A n \in Node, l \in Lists : ~In(n, c[l])
    BY <1>3 DEF In
  <1>5. Chains(mem, c)
    BY <1>1, <1>3, <1>4 DEF Chains, Apart
  <1>6. Owned(mem)
    BY <1>1 DEF Owned, Free
  <1>7. Sound(mem, c)
    BY <1>2, <1>3, <1>5, <1>6 DEF Sound, OnceEach
  <1>8. Walks(mem) = c
    BY <1>7, WalksIs
  <1> HIDE DEF c
  <1> QED BY <1>1, <1>3, <1>7, <1>8, ModulesAssumption DEF Inv, OnlyCopies, Loads, InSort

\* Every step keeps it.
LEMMA NextInv ==
    ASSUME Inv, [Next]_rvars
    PROVE  Inv'
  <1>1. CASE Loading
    BY <1>1, LoadingKeeps
  <1>2. CASE Others
    BY <1>2, OthersKeep
  <1>3. CASE Sorting /\ UNCHANGED <<pc, name, type>>
    BY <1>3, SortingKeeps
  <1>4. CASE UNCHANGED rvars
    <2>1. mem' = mem /\ UNCHANGED <<sort, before, pc, name, type>>
      BY <1>4 DEF rvars, lvars
    <2>2. InSort(mem, Walks(mem))'
      BY <2>1, SortKept DEF Inv
    <2>3. Loads(mem, Walks(mem)[Modules])'
      BY <2>1 DEF Inv, Loads
    <2> QED BY <2>1, <2>2, <2>3 DEF Inv
  <1> QED BY <1>1, <1>2, <1>3, <1>4 DEF Next

\* The chains of all lists, the owners of all items, a sort under way and a
\* module being loaded stay as Inv says, whatever is called in whichever order.
THEOREM RegistryInvariant == Spec => []Inv
  <1>1. RInit => Inv
    BY InitInv
  <1>2. Inv /\ [Next]_rvars => Inv'
    BY NextInv
  <1> QED BY <1>1, <1>2, PTL DEF Spec

-----------------------------------------------------------------------------
(* What follows from it: WellFormed. *)

\* list_checkitem() asserts nothing that is not so of a node in a list.
LEMMA CheckedIs ==
    ASSUME NEW c, Sound(mem, c), NEW l \in Live(mem), NEW k \in 1..Len(c[l])
    PROVE  Checked(c[l][k])
  <1> DEFINE w == c[l]
             n == w[k]
             ip == mem.node[n]
  <1>1. /\ l \in Lists /\ mem \in Heap /\ Chain(mem, l, w) /\ Once(w)
        /\ w \in Seq(Node) /\ Len(w) \in Nat
    BY LenProperties, Headers DEF Live, Sound, Chains, Apart, Once
  <1>2. \A j \in 1..Len(w) : w[j] \in Node /\ w[j] # 0
    BY <1>1, NotNull
  <1>3. ip # Free
    BY <1>1, UsedHolds DEF Sound
  <1> HIDE DEF w
  <1>4. /\ ip.next = IF k = Len(w) THEN 0 ELSE w[k + 1]
        /\ ip.prev = IF k = 1 THEN 0 ELSE w[k - 1]
    BY <1>1 DEF w, Chain, Leads, Backs
  <1>5. ip.next # n /\ (ip.next # 0 => mem.node[ip.next].prev = n /\ mem.node[ip.next].next # n)
    <2>1. CASE k = Len(w)
      BY <1>2, <1>4, <2>1 DEF w
    <2>2. CASE k # Len(w)
      <3> DEFINE j == k + 1
      <3>1. j \in 1..Len(w) /\ j # 1 /\ j - 1 = k /\ j # k
        BY <1>1, <2>2 DEF w
      <3>2. ip.next = w[j]
        BY <1>4, <2>2
      <3> HIDE DEF j
      <3>3. w[j] # n
        BY <1>1, <3>1 DEF Once, w
      <3>4. mem.node[w[j]].prev = n
        BY <1>1, <3>1 DEF Chain, Backs
      <3>5. mem.node[w[j]].next # n
        <4>1. mem.node[w[j]].next = IF j = Len(w) THEN 0 ELSE w[j + 1]
          BY <1>1, <3>1 DEF Chain, Leads
        <4>2. j # Len(w) => j + 1 \in 1..Len(w) /\ j + 1 # k
          BY <1>1, <3>1
        <4>3. k \in 1..Len(w) /\ w[k] # 0
          BY <1>2 DEF w
        <4> QED BY <1>1, <4>1, <4>2, <4>3 DEF Once
      <3> QED BY <3>2, <3>3, <3>4, <3>5
    <2> QED BY <2>1, <2>2
  <1>6. ip.prev # n /\ (ip.prev # 0 => mem.node[ip.prev].prev # n /\ mem.node[ip.prev].next = n)
    <2>1. CASE k = 1
      BY <1>2, <1>4, <2>1 DEF w
    <2>2. CASE k # 1
      <3> DEFINE j == k - 1
      <3>1. j \in 1..Len(w) /\ j # Len(w) /\ j + 1 = k /\ j # k
        BY <1>1, <2>2 DEF w
      <3>2. ip.prev = w[j]
        BY <1>4, <2>2
      <3> HIDE DEF j
      <3>3. w[j] # n
        BY <1>1, <3>1 DEF Once, w
      <3>4. mem.node[w[j]].next = n
        BY <1>1, <3>1 DEF Chain, Leads
      <3>5. mem.node[w[j]].prev # n
        <4>1. mem.node[w[j]].prev = IF j = 1 THEN 0 ELSE w[j - 1]
          BY <1>1, <3>1 DEF Chain, Backs
        <4>2. j # 1 => j - 1 \in 1..Len(w) /\ j - 1 # k
          BY <1>1, <3>1
        <4>3. k \in 1..Len(w) /\ w[k] # 0
          BY <1>2 DEF w
        <4> QED BY <1>1, <4>1, <4>2, <4>3 DEF Once
      <3> QED BY <3>2, <3>3, <3>4, <3>5
    <2> QED BY <2>1, <2>2
  <1> QED BY <1>3, <1>5, <1>6 DEF Checked, w

\* The invariant says all that WellFormed does.
LEMMA InvWellFormed == Inv => WellFormed
  <1> SUFFICES ASSUME Inv PROVE WellFormed
    OBVIOUS
  <1> DEFINE c == Walks(mem)
  <1>1. Sound(mem, c)
    BY DEF Inv
  <1> HIDE DEF c
  <1>2. mem \in Heap /\ Chains(mem, c) /\ Owned(mem)
    BY <1>1 DEF Sound
  <1>3. \A l \in Lists : Walk(mem, l) = c[l] /\ c[l] \in Seq(Node) /\ DOMAIN c[l] = 1..Len(c[l])
    BY <1>2, WalkIs, LenProperties DEF Chains
  <1>4. \A l \in Lists : ToSet(c[l]) = {c[l][k] : k \in 1..Len(c[l])}
    BY <1>3 DEF ToSet
  <1>5. ASSUME NEW l \in Live(mem)
        PROVE  LET w == Walk(mem, l)  h == mem.head[l]
               IN /\ \A k \in DOMAIN w : Checked(w[k])
                  /\ h.first = (IF w = <<>> THEN 0 ELSE w[1])
                  /\ h.last  = (IF w = <<>> THEN 0 ELSE w[Len(w)])
                  /\ h.next \in {0} \cup ToSet(w)
                  /\ \A j, k \in DOMAIN w : Holds(w[j]) = Holds(w[k]) => j = k
                  /\ \A m \in Live(mem) \ {l} : ToSet(w) \cap ToSet(Walk(mem, m)) = {}
    <2> DEFINE w == c[l]
               h == mem.head[l]
    <2>1. l \in Lists /\ Walk(mem, l) = w /\ DOMAIN w = 1..Len(w)
      BY <1>3 DEF Live
    <2>2. Chain(mem, l, w)
      BY <1>2, <2>1, Headers DEF Chains
    <2>3. \A k \in 1..Len(w) : Checked(w[k])
      BY <1>1, CheckedIs
    <2>4. h.first = (IF w = <<>> THEN 0 ELSE w[1]) /\ h.last = (IF w = <<>> THEN 0 ELSE w[Len(w)])
      BY <2>2 DEF Chain, Ends
    <2>5. h.next \in {0} \cup ToSet(w)
      BY <1>4, <2>1, <2>2 DEF Chain, CursorIn
    <2>6. \A j, k \in 1..Len(w) : Holds(w[j]) = Holds(w[k]) => j = k
      BY <1>1, <2>1 DEF Sound, OnceEach, Holds
    <2>7. ASSUME NEW m \in Live(mem) \ {l} PROVE ToSet(w) \cap ToSet(Walk(mem, m)) = {}
      <3>1. m \in Lists /\ m # l /\ Walk(mem, m) = c[m]
        BY <1>3 DEF Live
      <3>2. \A j \in 1..Len(c[l]), k \in 1..Len(c[m]) : c[l][j] # c[m][k]
        BY <1>1, <2>1, <3>1, NodesOnce
      <3>3. ToSet(c[l]) = {c[l][j] : j \in 1..Len(c[l])} /\ ToSet(c[m]) = {c[m][k] : k \in 1..Len(c[m])}
        BY <1>4, <2>1, <3>1
      <3> HIDE DEF w
      <3>4. ToSet(c[l]) \cap ToSet(c[m]) = {}
        BY <3>2, <3>3
      <3> QED BY <3>1, <3>4 DEF w
    <2> HIDE DEF w
    <2> QED BY <2>1, <2>3, <2>4, <2>5, <2>6, <2>7
  <1>6. Node \ FreeNodes(mem) = UNION {ToSet(Walk(mem, l)) : l \in Live(mem)}
    <2>1. ASSUME NEW n \in Node \ FreeNodes(mem) PROVE \E l \in Live(mem) : n \in ToSet(Walk(mem, l))
      <3>1. PICK l \in Lists : In(n, c[l])
        BY <1>2 DEF Chains, FreeNodes
      <3>2. c[l] # <<>>
        BY <1>3, <3>1, EmptySeq DEF In
      <3>3. l \in Live(mem)
        BY <1>2, <3>2 DEF Chains, Live
      <3>4. n \in ToSet(c[l])
        BY <1>4, <3>1 DEF In
      <3> QED BY <1>3, <3>3, <3>4
    <2>2. ASSUME NEW l \in Live(mem), NEW n \in ToSet(Walk(mem, l)) PROVE n \in Node \ FreeNodes(mem)
      <3>1. l \in Lists /\ n \in ToSet(c[l])
        BY <1>3 DEF Live
      <3>2. PICK k \in 1..Len(c[l]) : n = c[l][k]
        BY <1>4, <3>1
      <3> QED BY <1>2, <3>1, <3>2, UsedHolds
    <2> QED BY <2>1, <2>2
  <1>7. LET used == {n \in Node \ FreeNodes(mem) : mem.node[n].size > 0}
        IN /\ {Holds(n) : n \in used} = {b \in Node : mem.block[b] # 0}
           /\ \A n, m \in used : Holds(n) = Holds(m) => n = m
    <2> DEFINE used == {n \in Node \ FreeNodes(mem) : mem.node[n].size > 0}
    <2>1. \A n \in Node : n \in used <=> mem.node[n].size = 1
      <3> TAKE n \in Node
      <3>1. mem.node[n].size \in {0, 1}
        BY <1>2 DEF Heap
      <3>2. mem.node[n] = Free => mem.node[n].size = 0
        BY DEF Free
      <3> QED BY <3>1, <3>2 DEF FreeNodes
    <2>2. used \subseteq Node
      OBVIOUS
    <2> HIDE DEF used
    <2>3. ASSUME NEW n \in used PROVE Holds(n) \in Node /\ mem.block[Holds(n)] # 0
      <3>1. n \in Node /\ mem.node[n].size = 1 /\ mem.node[n] # Free
        BY <2>1, <2>2, <2>3 DEF Free
      <3> QED BY <1>2, <3>1 DEF Owned, Holds
    <2>4. ASSUME NEW b \in Node, mem.block[b] # 0 PROVE \E n \in used : Holds(n) = b
      BY <1>2, <2>1, <2>4 DEF Owned, Holds
    <2>5. \A n, m \in used : Holds(n) = Holds(m) => n = m
      BY <1>2, <2>1, <2>2 DEF Owned, Holds
    <2>6. {Holds(n) : n \in used} = {b \in Node : mem.block[b] # 0}
      BY <2>3, <2>4
    <2> QED BY <2>5, <2>6 DEF used
  <1> QED BY <1>5, <1>6, <1>7 DEF WellFormed

\* What list_checkitem() asserts holds at every node, and what it does not look
\* at: no call leaves a pointer to a node or block that is freed, loses one, or
\* puts a node into two lists.
THEOREM ListsAreWellFormed == Spec => []WellFormed
  <1>1. Inv => WellFormed
    BY InvWellFormed
  <1> QED BY RegistryInvariant, <1>1, PTL

-----------------------------------------------------------------------------
(* List implements CursorList. *)

\* What the users of list.c see of the lists.
Seen(m, l) == IF sort.l = l THEN before ELSE Items(m, l)

\* A call about one list, made while none is being sorted, is one of CursorList.
LEMMA CallMaps ==
    ASSUME Inv, NEW l \in Lists, NEW c2, Result(mem, Walks(mem), l, mem', c2), Calls(l),
           Idle, sort' = sort
    PROVE  Abstract!Next
  <1> DEFINE c == Walks(mem)
             seq == [h \in Lists |-> Seen(mem, h)]
             pos == [h \in Lists |-> Cursor(mem, h)]
  <1>1. Sound(mem, c) /\ Sound(mem', c2) /\ \A h \in Lists \ {l} : Keeps(mem, c, mem', c2, h)
    BY DEF Inv, Result
  <1>2. \A h \in Lists : sort.l # h /\ sort'.l # h
    BY ListsAssumption DEF Idle, NoSort
  <1> HIDE DEF c
  <1>3. \A h \in Lists : /\ seq[h] = Items(mem, h) /\ seq'[h] = Items(mem', h)
                         /\ pos[h] = Cursor(mem, h) /\ pos'[h] = Cursor(mem', h)
    BY <1>2 DEF Seen
  <1>4. \A h \in Lists \ {l} : seq'[h] = seq[h] /\ pos'[h] = pos[h]
    <2> TAKE h \in Lists \ {l}
    <2>1. Items(mem', h) = Items(mem, h) /\ Cursor(mem', h) = Cursor(mem, h)
      BY <1>1, KeptIs
    <2> QED BY <1>3, <2>1
  <1>5. Abstract!Call(l, seq[l], seq'[l], pos[l], pos'[l])
    BY <1>3 DEF Calls
  <1>6. /\ seq = [h \in Lists |-> IF sort.l = h THEN before ELSE Items(mem, h)]
        /\ seq' = [h \in Lists |-> IF sort.l = h THEN before ELSE Items(mem, h)]'
    BY DEF Seen
  <1> HIDE DEF seq
  <1>7. \E s \in {seq[l]}, t \in {seq'[l]}, p \in {pos[l]}, q \in {pos'[l]} :
           Abstract!Call(l, s, t, p, q)
    BY <1>5
  <1> QED BY <1>4, <1>6, <1>7 DEF Abstract!Next

\* Lists that look as they did have had no call of CursorList.
LEMMA SameMaps ==
    ASSUME Live(mem') = Live(mem), got' = got,
           \A h \in Lists : Seen(mem, h)' = Seen(mem, h) /\ Cursor(mem', h) = Cursor(mem, h)
    PROVE  UNCHANGED Abstract!cvars
  <1> DEFINE seq == [h \in Lists |-> Seen(mem, h)]
             pos == [h \in Lists |-> Cursor(mem, h)]
  <1>1. seq' = seq /\ pos' = pos
    OBVIOUS
  <1> QED BY <1>1 DEF Abstract!cvars, Seen

\* One list_sort() has sorted the items it was called with, at the end.
LEMMA SortDoneMaps ==
    ASSUME Inv, SortDone
    PROVE  Abstract!Next
  <1> DEFINE c == Walks(mem)
             l == sort.l
             w == c[l]
             It == [ptr : Node \cup Static, val : Nat]
  <1>1. /\ sort # NoSort /\ sort.at = 0 /\ sort' = NoSort /\ got' = 0 /\ mem' = mem
    BY DEF SortDone, Idle
  <1>2. Sound(mem, c) /\ InSort(mem, c)
    BY DEF Inv
  <1> HIDE DEF c
  <1>3. /\ sort \in [l : Live(mem) \ {Modules}, at : Pointer, comp : {1, -1}]
        /\ before \in Seq(It)
        /\ \E p \in 1..(Len(w) + 1) : SortedTo(mem, w, p)
        /\ SameItems(mem, w)
    BY <1>1, <1>2 DEF InSort
  <1>4. l \in Live(mem) /\ l \in Lists /\ sort.comp \in {1, -1}
    BY <1>3 DEF Live
  <1>5. Len(w) \in Nat /\ \A k \in 1..Len(w) : w[k] # 0
    BY <1>2, <1>4, NotNull, LenProperties DEF Sound, Chains
  <1>6. \A j, k \in 1..Len(w) : j < k => ~Above(mem, w, j, k)
    <2>1. PICK p \in 1..(Len(w) + 1) : SortedTo(mem, w, p)
      BY <1>3
    <2>2. p = Len(w) + 1
      <3>1. CASE p # Len(w) + 1
        <4>1. p \in 1..Len(w) /\ sort.at = w[p]
          BY <1>5, <2>1, <3>1 DEF SortedTo
        <4> QED BY <1>1, <1>5, <4>1
      <3> QED BY <3>1
    <2>3. p - 1 = Len(w)
      BY <1>5, <2>2
    <2> QED BY <2>1, <2>3 DEF SortedTo
  <1> DEFINE t == Items(mem, l)
  <1>7. /\ t \in Seq(It) /\ Len(t) = Len(w) /\ DOMAIN t = 1..Len(w)
        /\ \A k \in 1..Len(w) : t[k] = ItemAt(mem, w[k]) /\ t[k] \in It
    <2>1. ItemsOf(mem, c, l)
      BY <1>2, <1>4, ItemsIs
    <2> QED BY <2>1, ElementOfSeq DEF ItemsOf
  <1>8. Len(before) = Len(w) /\ DOMAIN before = 1..Len(w)
    <2>1. Len(before) = Len(w)
      BY <1>3 DEF SameItems
    <2> QED BY <1>3, <2>1, LenProperties
  <1> HIDE DEF t
  <1>9. Abstract!ToSet(t) = Abstract!ToSet(before)
    <2>1. Abstract!ToSet(t) = {t[k] : k \in 1..Len(w)}
      BY <1>7 DEF Abstract!ToSet
    <2>2. Abstract!ToSet(before) = {before[k] : k \in 1..Len(w)}
      BY <1>8 DEF Abstract!ToSet
    <2>3. \A k \in 1..Len(w) : /\ \E j \in 1..Len(w) : before[j] = t[k]
                               /\ \E j \in 1..Len(w) : before[k] = t[j]
      <3>1. \A k \in 1..Len(w) : /\ \E j \in 1..Len(w) : before[j] = ItemAt(mem, w[k])
                                 /\ \E j \in 1..Len(w) : before[k] = ItemAt(mem, w[j])
        BY <1>3 DEF SameItems
      <3>2. \A k \in 1..Len(w) : t[k] = ItemAt(mem, w[k])
        BY <1>7
      <3> HIDE DEF w
      <3> QED BY <3>1, <3>2
    <2> HIDE DEF w
    <2>4. ASSUME NEW k \in 1..Len(w)
          PROVE  t[k] \in Abstract!ToSet(before) /\ before[k] \in Abstract!ToSet(t)
      <3>1. PICK i \in 1..Len(w) : before[i] = t[k]
        BY <2>3
      <3>2. PICK j \in 1..Len(w) : before[k] = t[j]
        BY <2>3
      <3> QED BY <2>1, <2>2, <3>1, <3>2
    <2> QED BY <2>1, <2>2, <2>4
  <1>10. Abstract!Ordered(Abstract!Vals(t))
    <2> DEFINE v == Abstract!Vals(t)
    <2>1. DOMAIN v = 1..Len(w) /\ \A k \in 1..Len(w) : v[k] = t[k].val /\ v[k] \in Nat
      BY <1>7 DEF Abstract!Vals
    <2>2. \A j, k \in 1..Len(w) : j < k => Compare(v[j], v[k]) # sort.comp
      BY <1>6, <1>7, <2>1 DEF Above
    <2> HIDE DEF v
    <2>3. CASE sort.comp = 1
      <3>1. \A j, k \in 1..Len(w) : j < k => v[j] <= v[k]
        BY <2>1, <2>2, <2>3 DEF Compare
      <3> QED BY <2>1, <3>1 DEF Abstract!Ordered, v
    <2>4. CASE sort.comp = -1
      <3>1. \A j, k \in 1..Len(w) : j < k => v[j] >= v[k]
        BY <2>1, <2>2, <2>4 DEF Compare
      <3> QED BY <2>1, <3>1 DEF Abstract!Ordered, v
    <2> QED BY <1>4, <2>3, <2>4
  <1>11. Abstract!Sorts(before, t, Cursor(mem, l), Cursor(mem', l))
    BY <1>1, <1>7, <1>8, <1>9, <1>10 DEF Abstract!Sorts
  <1>12. Abstract!Call(l, before, t, Cursor(mem, l), Cursor(mem', l))
    BY <1>1, <1>4, <1>11 DEF Abstract!Call
  <1> DEFINE seq == [h \in Lists |-> Seen(mem, h)]
             pos == [h \in Lists |-> Cursor(mem, h)]
  <1>13. \A h \in Lists : sort'.l # h
    BY <1>1, ListsAssumption DEF NoSort
  <1>14. seq[l] = before /\ seq'[l] = t /\ pos[l] = Cursor(mem, l) /\ pos'[l] = Cursor(mem', l)
    BY <1>1, <1>4, <1>13 DEF Seen, t
  <1>15. \A h \in Lists \ {l} : seq'[h] = seq[h] /\ pos'[h] = pos[h]
    BY <1>1, <1>13 DEF Seen
  <1>16. /\ seq = [h \in Lists |-> IF sort.l = h THEN before ELSE Items(mem, h)]
         /\ seq' = [h \in Lists |-> IF sort.l = h THEN before ELSE Items(mem, h)]'
    BY DEF Seen
  <1> HIDE DEF seq, l
  <1>17. \E s \in {seq[l]}, u \in {seq'[l]}, p \in {pos[l]}, q \in {pos'[l]} :
           Abstract!Call(l, s, u, p, q)
    BY <1>4, <1>12, <1>14
  <1> QED BY <1>4, <1>15, <1>16, <1>17 DEF Abstract!Next

\* The call of list_sort(), and the rounds of its loop, are not seen.
LEMMA SortingMaps ==
    ASSUME Inv, SortSwap \/ SortOn \/ \E l \in Lists, order \in {0, 1} : SortCall(l, order)
    PROVE  UNCHANGED Abstract!cvars
  <1> DEFINE c == Walks(mem)
  <1>1. Sound(mem, c)
    BY DEF Inv
  <1>2. CASE SortSwap
    <2>1. Result(mem, c, sort.l, mem', c) /\ mem'.head = mem.head /\ sort' = sort
      BY <1>2, SwapIs
    <2>2. got' = got /\ before' = before
      BY <1>2 DEF SortSwap
    <2> HIDE DEF c
    <2>3. Live(mem') = Live(mem)
      BY <2>1 DEF Live
    <2>4. \A h \in Lists : Cursor(mem', h) = Cursor(mem, h)
      <3>1. \A h \in Lists : Walk(mem', h) = c[h] /\ Walk(mem, h) = c[h]
        BY <1>1, <2>1, WalkIs DEF Result, Sound
      <3> TAKE h \in Lists
      <3>2. Walk(mem', h) = Walk(mem, h)
        BY <3>1
      <3> QED BY <2>1, <2>3, <3>2 DEF Cursor
    <2>5. \A h \in Lists : Seen(mem, h)' = Seen(mem, h)
      <3> TAKE h \in Lists
      <3>1. CASE h = sort.l
        BY <2>1, <2>2, <3>1 DEF Seen
      <3>2. CASE h # sort.l
        <4>1. Items(mem', h) = Items(mem, h)
          BY <1>1, <2>1, <3>2, KeptIs DEF Result
        <4> QED BY <2>1, <3>2, <4>1 DEF Seen
      <3> QED BY <3>1, <3>2
    <2> QED BY <2>2, <2>3, <2>4, <2>5, SameMaps
  <1>3. CASE SortOn
    <2>1. mem' = mem /\ got' = got /\ before' = before
      BY <1>3 DEF SortOn
    <2>2. sort.l = sort'.l
      BY <1>3, SortOnKeeps
    <2>3. \A h \in Lists : Seen(mem, h)' = Seen(mem, h)
      BY <2>1, <2>2 DEF Seen
    <2> QED BY <2>1, <2>3, SameMaps
  <1>4. CASE \E l \in Lists, order \in {0, 1} : SortCall(l, order)
    <2>1. PICK l \in Lists, order \in {0, 1} : SortCall(l, order)
      BY <1>4
    <2>2. mem' = mem /\ got' = got /\ before' = Items(mem, l) /\ sort'.l = l /\ sort = NoSort
      BY <2>1 DEF SortCall, Idle
    <2>3. \A h \in Lists : sort.l # h
      BY <2>2, ListsAssumption DEF NoSort
    <2>4. \A h \in Lists : Seen(mem, h)' = Seen(mem, h)
      BY <2>2, <2>3 DEF Seen
    <2> QED BY <2>2, <2>4, SameMaps
  <1> QED BY <1>2, <1>3, <1>4

\* What mybmm_load_module() does are calls, or nothing that concerns the lists.
LEMMA LoadingMaps ==
    ASSUME Inv, Loading
    PROVE  Abstract!Next \/ UNCHANGED Abstract!cvars
  <1> DEFINE c == Walks(mem)
  <1>1. Sound(mem, c) /\ Loads(mem, c[Modules]) /\ Modules \in Lists
    BY ModulesAssumption DEF Inv
  <1>2. CASE CreateModules
    <2>1. Create(Modules) /\ Idle /\ sort' = sort
      BY <1>2 DEF CreateModules, Create, Does
    <2>2. Result(mem, c, Modules, mem', c) /\ Calls(Modules)
      BY <1>1, <2>1, CreateIs
    <2> QED BY <1>1, <2>1, <2>2, CallMaps
  <1>3. CASE LoadCall
    <2>1. Reset(Modules) /\ Idle /\ sort' = sort
      BY <1>3 DEF LoadCall, Reset, Does
    <2>2. Result(mem, c, Modules, mem', c) /\ Calls(Modules)
      BY <1>1, <2>1, ResetIs
    <2> QED BY <1>1, <2>1, <2>2, CallMaps
  <1>4. CASE Walking
    <2>1. GetNext(Modules) /\ Idle /\ sort' = sort
      BY <1>4 DEF Walking, GetNext
    <2>2. Result(mem, c, Modules, mem', c) /\ Calls(Modules)
      BY <1>1, <2>1, GetNextIs
    <2> QED BY <1>1, <2>1, <2>2, CallMaps
  <1>5. CASE AddModule
    <2>1. AddStatic(Modules, name) /\ pc = "add" /\ Idle /\ sort' = sort
      BY <1>5 DEF AddModule, AddStatic, Does
    <2>2. name \in Static /\ \A k \in 1..Len(c[Modules]) : mem.node[c[Modules][k]].item # name
      BY <1>1, <2>1 DEF Loads
    <2>3. PICK c2 : Result(mem, c, Modules, mem', c2) /\ Calls(Modules)
      BY <1>1, <2>1, <2>2, AddStaticIs
    <2> QED BY <1>1, <2>1, <2>3, CallMaps
  <1>6. CASE InitModule \/ LoadFails
    <2>1. mem' = mem /\ got' = got /\ sort' = sort /\ before' = before
      BY <1>6 DEF InitModule, LoadFails, lvars
    <2>2. \A h \in Lists : Seen(mem, h)' = Seen(mem, h)
      BY <2>1 DEF Seen
    <2> QED BY <2>1, <2>2, SameMaps
  <1> QED BY <1>2, <1>3, <1>4, <1>5, <1>6 DEF Loading

\* What others do with their lists is one call, or the start of a sort.
LEMMA OthersMap ==
    ASSUME Inv, Others
    PROVE  Abstract!Next \/ UNCHANGED Abstract!cvars
  <1>1. PICK l \in Lists \ {Modules}, f \in Lists \ {Modules} : UseList(l, f)
    BY DEF Others
  <1>2. CASE \E order \in {0, 1} : SortCall(l, order)
    BY <1>2, SortingMaps
  <1>3. CASE \A order \in {0, 1} : ~SortCall(l, order)
    <2> DEFINE c == Walks(mem)
    <2>1. Sound(mem, c) /\ \A h \in Lists \ {Modules} : OnlyCopies(mem, c[h])
      BY DEF Inv
    <2>2. PICK c2 : Result(mem, c, l, mem', c2) /\ Calls(l)
      BY <1>1, <1>3, <2>1, UseIs
    <2>3. Idle /\ sort' = sort
      BY <1>1, <1>3 DEF UseList, Create, GetNext, Reset, Destroy, AddCopy, AddList, Dup,
                        Delete, Does
    <2> QED BY <2>2, <2>3, CallMaps
  <1> QED BY <1>2, <1>3

\* Each step of List is a call of CursorList, or none.
LEMMA NextMaps ==
    ASSUME Inv, [Next]_rvars
    PROVE  [Abstract!Next]_(Abstract!cvars)
  <1>1. CASE Loading
    BY <1>1, LoadingMaps
  <1>2. CASE Others
    BY <1>2, OthersMap
  <1>3. CASE Sorting
    BY <1>3, SortDoneMaps, SortingMaps DEF Sorting
  <1>4. CASE UNCHANGED rvars
    <2>1. mem' = mem /\ got' = got /\ sort' = sort /\ before' = before
      BY <1>4 DEF rvars, lvars
    <2>2. \A h \in Lists : Seen(mem, h)' = Seen(mem, h)
      BY <2>1 DEF Seen
    <2> QED BY <2>1, <2>2, SameMaps
  <1> QED BY <1>1, <1>2, <1>3, <1>4 DEF Next

\* There are no lists in either.
LEMMA InitMaps == RInit => Abstract!Init
  <1> SUFFICES ASSUME RInit PROVE Abstract!Init
    OBVIOUS
  <1> DEFINE c == Walks(mem)
  <1>1. /\ \A l \in Lists : mem.head[l] = Gone
        /\ got = 0 /\ sort = NoSort
    BY DEF RInit, Init
  <1>2. Live(mem) = {}
    BY <1>1 DEF Live
  <1>3. \A l \in Lists : Walk(mem, l) = <<>>
    BY <1>2 DEF Walk
  <1>4. \A l \in Lists : Items(mem, l) = <<>> /\ Cursor(mem, l) = 0 /\ sort.l # l
    BY <1>1, <1>2, <1>3, ListsAssumption DEF Items, Cursor, NoSort
  <1> QED BY <1>1, <1>2, <1>4 DEF Abstract!Init

\* The lists are what their users rely on: each call changes the one list it is
\* about as CursorList says, and the cursor is where it says, list_sort() included.
THEOREM ListsAreCursorLists == Spec => ImplementsCursor
  <1>1. RInit => Abstract!Init
    BY InitMaps
  <1>2. Inv /\ [Next]_rvars => [Abstract!Next]_(Abstract!cvars)
    BY NextMaps
  <1> QED BY RegistryInvariant, <1>1, <1>2, PTL DEF Spec, ImplementsCursor, Abstract!Spec
=============================================================================
