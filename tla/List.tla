--------------------------------- MODULE List ---------------------------------
(***************************************************************************)
(* list.c: doubly linked lists with a cursor.  A node holds a pointer to   *)
(* an item: a block of the heap with a copy of what was added (size > 0),  *)
(* or what the caller passed (size 0).  list_sort() swaps the items and    *)
(* leaves the nodes, and with them the cursor, where they are.             *)
(*                                                                         *)
(* No caller adds a list to itself, and none deletes an item of its own.   *)
(* malloc() does not fail.                                                 *)
(***************************************************************************)
EXTENDS Integers, FiniteSets, SequencesExt

CONSTANTS Lists,   \* list variables of the callers
          N,       \* nodes and blocks the heap has (bound)
          Val,     \* what items are compared by
          Static   \* items that are not copied; compared by their own number

ASSUME HeapAssumption == /\ N \in Nat /\ Val \subseteq Nat \ {0}
                         /\ Static \subseteq Nat /\ Static \cap 0..N = {}
ASSUME ListsAssumption == "none" \notin Lists   \* no list is being sorted

VARIABLES mem,     \* [node, block, head]: list items, their copies, list headers
          got,     \* what list_get_next has returned, 0 after any other call
          sort,    \* list_sort(): [l, at (ip1), comp]
          before   \* ghost: the items when it was called

lvars == <<mem, got, sort, before>>

Node == 1..N
Free == [item |-> 0, size |-> 0, prev |-> 0, next |-> 0]
Gone == [first |-> -1, last |-> -1, next |-> -1]
NoSort == [l |-> "none", at |-> 0, comp |-> 0]

Init == /\ mem = [node  |-> [n \in Node |-> Free],
                  block |-> [b \in Node |-> 0],
                  head  |-> [l \in Lists |-> Gone]]
        /\ got = 0 /\ sort = NoSort /\ before = <<>>

-----------------------------------------------------------------------------
Live(m) == {l \in Lists : m.head[l] # Gone}

\* The nodes from n on: a sequence, since at stays 0 once it is.
Follow(m, n) == LET at[k \in Node] == IF k = 1 THEN n
                                      ELSE LET p == at[k - 1]
                                           IN IF p = 0 THEN 0 ELSE m.node[p].next
                IN [k \in {j \in Node : at[j] # 0} |-> at[k]]

Walk(m, l) == IF l \in Live(m) THEN Follow(m, m.head[l].first) ELSE <<>>

Value(m, item) == IF item \in Node THEN m.block[item] ELSE item

Items(m, l) == LET w == Walk(m, l)
               IN [k \in DOMAIN w |-> [ptr |-> m.node[w[k]].item,
                                       val |-> Value(m, m.node[w[k]].item)]]

FreeNodes(m)  == {n \in Node : m.node[n] = Free}
FreeBlocks(m) == {b \in Node : m.block[b] = 0}
malloc(S)     == CHOOSE x \in S : TRUE

\* list_create()
Created(m, l) == [m EXCEPT !.head[l] = [first |-> 0, last |-> 0, next |-> 0]]

\* list_add(), given what _newitem() has put into the node.
Linked(m, l, item, size) ==
    LET n == malloc(FreeNodes(m))
        h == m.head[l]
    IN IF h.first = 0
       THEN [m EXCEPT !.node[n] = [item |-> item, size |-> size, prev |-> 0, next |-> 0],
                      !.head[l] = [first |-> n, last |-> n, next |-> n]]
       ELSE [m EXCEPT !.node = [@ EXCEPT ![n] = [item |-> item, size |-> size,
                                                 prev |-> h.last, next |-> 0],
                                         ![h.last].next = n],
                      !.head[l].last = n]

\* _newitem() copies what has a size.
WithCopy(m, l, v) == LET b == malloc(FreeBlocks(m))
                     IN Linked([m EXCEPT !.block[b] = v], l, b, 1)

CopyOf(m, l, n) == IF m.node[n].size = 0 THEN Linked(m, l, m.node[n].item, 0)
                   ELSE WithCopy(m, l, m.block[m.node[n].item])

\* The loop of list_add_list() and list_dup(), with k nodes copied.
AllCopied(m, l, from) == LET w == Walk(m, from)
                             copied[k \in 0..Len(w)] ==
                                IF k = 0 THEN m ELSE CopyOf(copied[k - 1], l, w[k])
                         IN copied[Len(w)]

\* n is taken out of the chain and freed.
Without(m, n) == [k \in Node |-> IF k = n THEN Free
                                 ELSE [m.node[k] EXCEPT
                                         !.next = IF k = m.node[n].prev THEN m.node[n].next ELSE @,
                                         !.prev = IF k = m.node[n].next THEN m.node[n].prev ELSE @]]

\* Mutant of Unlinked: the cursor is left on the node.
Unlinked_KeepsCursor(m, l, n) ==
    LET h == m.head[l]
    IN [node  |-> Without(m, n),
        block |-> [m.block EXCEPT ![m.node[n].item] = 0],
        head  |-> [m.head EXCEPT ![l] =
                     [first |-> IF h.first = n THEN m.node[n].next ELSE h.first,
                      last  |-> IF h.last = n THEN m.node[n].prev ELSE h.last,
                      next  |-> h.next]]]

\* list_delete(), once it has found the node.
Unlinked(m, l, n) ==
    LET h == m.head[l]
    IN [node  |-> Without(m, n),
        block |-> [m.block EXCEPT ![m.node[n].item] = 0],
        head  |-> [m.head EXCEPT ![l] =
                     [first |-> IF h.first = n THEN m.node[n].next ELSE h.first,
                      last  |-> IF h.last = n THEN m.node[n].prev ELSE h.last,
                      next  |-> IF h.next = n THEN m.node[n].next ELSE h.next]]]

\* list_destroy() frees the nodes, and the items that are copies.
Destroyed(m, l) ==
    LET gone == ToSet(Walk(m, l))
        held == {m.node[n].item : n \in {x \in gone : m.node[x].size > 0}}
    IN [node  |-> [n \in Node |-> IF n \in gone THEN Free ELSE m.node[n]],
        block |-> [b \in Node |-> IF b \in held THEN 0 ELSE m.block[b]],
        head  |-> [m.head EXCEPT ![l] = Gone]]

\* list_sort() swaps the items of two nodes.
Swapped(m, a, b) == [m EXCEPT !.node = [@ EXCEPT ![a].item = m.node[b].item,
                                                 ![a].size = m.node[b].size,
                                                 ![b].item = m.node[a].item,
                                                 ![b].size = m.node[a].size]]

-----------------------------------------------------------------------------
Idle == sort = NoSort

Does(m) == mem' = m /\ got' = 0 /\ UNCHANGED <<sort, before>>

Create(l) == Idle /\ l \notin Live(mem) /\ Does(Created(mem, l))

\* malloc() does not fail.
Room(k) == Cardinality(FreeNodes(mem)) >= k /\ Cardinality(FreeBlocks(mem)) >= k

AddCopy(l, v)   == Idle /\ l \in Live(mem) /\ Room(1) /\ Does(WithCopy(mem, l, v))
AddStatic(l, s) == Idle /\ l \in Live(mem) /\ Room(1) /\ Does(Linked(mem, l, s, 0))

AddList(l, from) == /\ Idle /\ {l, from} \subseteq Live(mem) /\ l # from
                    /\ Room(Len(Walk(mem, from)))
                    /\ Does(AllCopied(mem, l, from))

Dup(l, from) == /\ Idle /\ l \notin Live(mem) /\ from \in Live(mem)
                /\ Room(Len(Walk(mem, from)))
                /\ Does(AllCopied(Created(mem, l), l, from))

\* An item that is not in the list is not found, and nothing changes.
Delete(l, item) == /\ Idle
                   /\ \E n \in ToSet(Walk(mem, l)) :
                         /\ mem.node[n].item = item
                         /\ Does(Unlinked(mem, l, n))

\* list_get_next() returns the cursor's item and moves it on.
GetNext(l) == /\ Idle /\ l \in Live(mem)
              /\ LET at == mem.head[l].next
                 IN IF at = 0 THEN got' = 0 /\ mem' = mem
                    ELSE /\ got' = mem.node[at].item
                         /\ mem' = [mem EXCEPT !.head[l].next = mem.node[at].next]
              /\ UNCHANGED <<sort, before>>

Reset(l) == /\ Idle /\ l \in Live(mem)
            /\ Does([mem EXCEPT !.head[l].next = mem.head[l].first])

Destroy(l) == Idle /\ l \in Live(mem) /\ Does(Destroyed(mem, l))

-----------------------------------------------------------------------------
(* list_sort(): one step per round of its outer loop. *)

Compare(a, b) == IF a < b THEN -1 ELSE IF a > b THEN 1 ELSE 0

SortCall(l, order) == /\ Idle /\ l \in Live(mem)
                      /\ sort' = [l |-> l, at |-> mem.head[l].first,
                                  comp |-> IF order = 0 THEN 1 ELSE -1]
                      /\ before' = Items(mem, l)
                      /\ UNCHANGED <<mem, got>>

\* The nodes list_sort() goes on to, and those whose items belong before this one.
Rest == Follow(mem, mem.node[sort.at].next)

Here     == Value(mem, mem.node[sort.at].item)
There(k) == Value(mem, mem.node[Rest[k]].item)

Misplaced(k) == Compare(Here, There(k)) = sort.comp

\* Mutants of Later: only the neighbour is compared; equal items count as well.
Later_Neighbour == {k \in DOMAIN Rest : k = 1 /\ Misplaced(k)}

Later_Equal == {k \in DOMAIN Rest : Compare(Here, There(k)) # -sort.comp}

Later == {k \in DOMAIN Rest : Misplaced(k)}

\* The first of them changes places with this one.
SortSwap == /\ sort.at # 0
            /\ \E k \in Later :
                  /\ \A j \in Later : k <= j
                  /\ mem' = Swapped(mem, sort.at, Rest[k])
            /\ UNCHANGED <<got, sort, before>>

SortOn == /\ sort.at # 0 /\ Later = {}
          /\ sort' = [sort EXCEPT !.at = mem.node[@].next]
          /\ UNCHANGED <<mem, got, before>>

SortDone == /\ ~Idle /\ sort.at = 0
            /\ sort' = NoSort /\ before' = <<>>
            /\ got' = 0 /\ UNCHANGED mem

Sorting == SortSwap \/ SortOn \/ SortDone

\* What callers do with a list they have to themselves.
UseList(l, from) == \/ Create(l) \/ GetNext(l) \/ Reset(l) \/ Destroy(l)
                    \/ \E v \in Val : AddCopy(l, v)
                    \/ AddList(l, from) \/ Dup(l, from)
                    \/ \E item \in Node : Delete(l, item)
                    \/ \E order \in {0, 1} : SortCall(l, order)

-----------------------------------------------------------------------------
\* The assertions of list_checkitem().
Checked(n) == LET ip == mem.node[n]
              IN /\ ip # Free /\ ip.prev # n /\ ip.next # n
                 /\ ip.prev # 0 => mem.node[ip.prev].prev # n /\ mem.node[ip.prev].next = n
                 /\ ip.next # 0 => mem.node[ip.next].prev = n /\ mem.node[ip.next].next # n

Holds(n) == mem.node[n].item

\* What list_checkitem() asserts, at every node of every list, and what it does
\* not look at: first, last and the cursor are nodes of their own list, no node
\* is in two lists or in none, no list has an item twice, each copy belongs to
\* one node, and none is lost or freed while it is used.
WellFormed ==
    /\ \A l \in Live(mem) :
          LET w == Walk(mem, l)  h == mem.head[l]
          IN /\ \A k \in DOMAIN w : Checked(w[k])
             /\ h.first = (IF w = <<>> THEN 0 ELSE w[1])
             /\ h.last  = (IF w = <<>> THEN 0 ELSE w[Len(w)])
             /\ h.next \in {0} \cup ToSet(w)
             /\ \A j, k \in DOMAIN w : Holds(w[j]) = Holds(w[k]) => j = k
             /\ \A m \in Live(mem) \ {l} : ToSet(w) \cap ToSet(Walk(mem, m)) = {}
    /\ Node \ FreeNodes(mem) = UNION {ToSet(Walk(mem, l)) : l \in Live(mem)}
    /\ LET used == {n \in Node \ FreeNodes(mem) : mem.node[n].size > 0}
       IN /\ {Holds(n) : n \in used} = {b \in Node : mem.block[b] # 0}
          /\ \A n, m \in used : Holds(n) = Holds(m) => n = m

\* list_sort() ends: a swap brings an item forward that belongs there.
SortReturns == ~Idle ~> Idle

\* The lists are those of CursorList; a sort happens when list_sort() returns.
Cursor(m, l) == LET w == Walk(m, l)
                IN IF l \notin Live(m) \/ m.head[l].next = 0 THEN 0
                   ELSE CHOOSE k \in DOMAIN w : w[k] = m.head[l].next

Abstract == INSTANCE CursorList WITH
               live <- Live(mem),
               seq  <- [l \in Lists |-> IF sort.l = l THEN before ELSE Items(mem, l)],
               pos  <- [l \in Lists |-> Cursor(mem, l)]

ImplementsCursor == Abstract!Spec
=============================================================================
