----------------------------- MODULE CursorList -----------------------------
(***************************************************************************)
(* What the users of list.c rely on: lists of items, each with a cursor    *)
(* that stands on the item to be handed out next, or behind the last one.  *)
(* An item is a pointer and what it points at.                             *)
(***************************************************************************)
EXTENDS Naturals, Sequences, SequencesExt

CONSTANT Lists

VARIABLES live,  \* the lists there are
          seq,   \* the items of each: [ptr, val]
          pos,   \* the cursor: an index, 0 when all have been handed out
          got    \* what list_get_next has returned, 0 after any other call

cvars == <<live, seq, pos, got>>

Init == /\ live = {} /\ got = 0
        /\ seq = [l \in Lists |-> <<>>] /\ pos = [l \in Lists |-> 0]

Vals(s) == [k \in DOMAIN s |-> s[k].val]
Distinct(s) == \A j, k \in DOMAIN s : s[j].ptr = s[k].ptr => j = k
Grown(s, t) == SubSeq(t, Len(s) + 1, Len(t))

(* How a call changes one list: s are its items, p its cursor; t and q after. *)

\* A cursor behind the last item stays there, unless the list was empty.
Extends(s, t, p, q) == /\ IsPrefix(s, t) /\ Distinct(t)
                       /\ q = IF s = <<>> /\ t # <<>> THEN 1 ELSE p

Adds(s, t, p, q) == Len(t) = Len(s) + 1 /\ Extends(s, t, p, q)

\* The items of another list are copied to the end.
Copies(s, t, p, q, from) == Vals(Grown(s, t)) = Vals(from) /\ Extends(s, t, p, q)

\* The cursor stays on its item, and goes on from one that is deleted.
Deletes(s, t, p, q) ==
    \E k \in DOMAIN s :
       /\ t = RemoveAt(s, k)
       /\ q = IF p > k THEN p - 1 ELSE IF p = k /\ k = Len(s) THEN 0 ELSE p

Moves(s, t, p, q) == /\ t = s
                     /\ q = IF p \in {0, Len(s)} THEN 0 ELSE p + 1

Resets(s, t, q) == t = s /\ q = IF s = <<>> THEN 0 ELSE 1

Ordered(v) == \/ \A j, k \in DOMAIN v : j < k => v[j] <= v[k]
              \/ \A j, k \in DOMAIN v : j < k => v[j] >= v[k]

\* The same items in order; the cursor keeps its place.
Sorts(s, t, p, q) == /\ Len(t) = Len(s) /\ ToSet(t) = ToSet(s)
                     /\ Ordered(Vals(t))
                     /\ q = p

Call(l, s, t, p, q) ==
    \/ got' = 0 /\ l \notin live /\ live' = live \cup {l} /\ t = s /\ q = p
    \/ got' = 0 /\ l \in live /\ live' = live \ {l} /\ t = <<>> /\ q = 0
    \/ /\ got' = 0
       /\ \E m \in live \ {l} : live' = live \cup {l} /\ Copies(s, t, p, q, seq[m])
    \/ /\ got' = 0 /\ l \in live /\ live' = live
       /\ Adds(s, t, p, q) \/ Deletes(s, t, p, q) \/ Resets(s, t, q) \/ Sorts(s, t, p, q)
    \/ /\ got' = IF p = 0 THEN 0 ELSE s[p].ptr
       /\ l \in live /\ live' = live
       /\ Moves(s, t, p, q)

\* A call is about one list, and nothing happens to the others.  (Bound with \E,
\* s, t, p and q are worked out once.)
Next == \E l \in Lists :
           /\ \E s \in {seq[l]}, t \in {seq'[l]}, p \in {pos[l]}, q \in {pos'[l]} :
                 Call(l, s, t, p, q)
           /\ \A m \in Lists \ {l} : seq'[m] = seq[m] /\ pos'[m] = pos[m]

Spec == Init /\ [][Next]_cvars
=============================================================================
