---------------------------- MODULE PersistentLists ----------------------------
(***************************************************************************)
(* Lists of links that remember every assignment (rlist_persistent.h).  An *)
(* operation assigns links one after another, each read from what the      *)
(* assignments before it left, and rolling back undoes them from the end.  *)
(*                                                                         *)
(* The precondition of an operation is its own: an item that is added is   *)
(* in no list, one that is moved or deleted is in one, and a savepoint is  *)
(* forgotten once an earlier one has been rolled back to.                  *)
(***************************************************************************)
EXTENDS SequencesExt

CONSTANTS
  Heads, Items, Broken,
  MaxHistory,   \* bound on the assignments that are remembered
  MaxSavepoints \* bound on the savepoints

ASSUME ListsAssumption ==
  /\ IsFiniteSet(Items) /\ Heads \cap Items = {}
  /\ Broken \notin SeqOf(Items, Cardinality(Items))

VARIABLES
  links,     \* next and prev of every head and item
  history,   \* rlist_persistent_history: the assignments, the latest last
  svps,      \* the savepoints: how long the history was
  lists,     \* what the links read as, per head
  saved      \* what they would read as after rolling back to each savepoint

persistentVars == <<links, history, svps, lists, saved>>

ListNodes == Heads \cup Items

\* m: links and history in the course of an operation.
Memory == [links |-> links, history |-> history]

rlist_assign_op(field, node, prev_val, next_val) ==
  [field |-> field, node |-> node, prev_val |-> prev_val, next_val |-> next_val]

\* Mutant: the value that is about to be assigned is remembered.
rlist_assign_late(m, field, node, value) ==
  [links |-> [m.links EXCEPT ![field][node] = value],
   history |-> Append(m.history, rlist_assign_op(field, node, value, value))]

rlist_assign(m, field, node, value) ==
  [links |-> [m.links EXCEPT ![field][node] = value],
   history |-> Append(m.history, rlist_assign_op(field, node, m.links[field][node], value))]

NextOf(m, n) == m.links["next"][n]
PrevOf(m, n) == m.links["prev"][n]
Empty(m, head) == NextOf(m, head) = head
-----------------------------------------------------------------------------
create(m, node) ==
  rlist_assign(rlist_assign(m, "next", node, node), "prev", node, node)

add(m, head, item) ==
  LET a == rlist_assign(m, "prev", item, head)
      b == rlist_assign(a, "next", item, NextOf(a, head))
      c == rlist_assign(b, "next", PrevOf(b, item), item)
  IN  rlist_assign(c, "prev", NextOf(c, item), item)

add_tail(m, head, item) ==
  LET a == rlist_assign(m, "next", item, head)
      b == rlist_assign(a, "prev", item, PrevOf(a, head))
      c == rlist_assign(b, "next", PrevOf(b, item), item)
  IN  rlist_assign(c, "prev", NextOf(c, item), item)

Unlinked(m, item) ==
  LET a == rlist_assign(m, "next", PrevOf(m, item), NextOf(m, item))
  IN  rlist_assign(a, "prev", NextOf(a, item), PrevOf(a, item))

del(m, item) == create(Unlinked(m, item), item)

shift(m, head) ==
  LET first == NextOf(m, head)
      a == rlist_assign(m, "next", head, NextOf(m, first))
      b == rlist_assign(a, "prev", NextOf(a, first), head)
      c == rlist_assign(b, "next", first, first)
  IN  rlist_assign(c, "prev", first, first)

shift_tail(m, head) == del(m, PrevOf(m, head))

move(m, to, item) == add(del(m, item), to, item)

move_tail(m, to, item) ==
  LET b == Unlinked(m, item)
      c == rlist_assign(b, "next", item, to)
      d == rlist_assign(c, "prev", item, PrevOf(c, to))
      e == rlist_assign(d, "next", PrevOf(d, item), item)
  IN  rlist_assign(e, "prev", NextOf(e, item), item)

swap_links(m, rhs, lhs) ==
  LET give(k, to, p, n) == rlist_assign(rlist_assign(k, "prev", to, p), "next", to, n)
      a == IF Empty(m, lhs) THEN give(m, rhs, rhs, rhs)
           ELSE give(m, rhs, PrevOf(m, lhs), NextOf(m, lhs))
  IN  IF Empty(m, rhs) THEN give(a, lhs, lhs, lhs) ELSE give(a, lhs, PrevOf(m, rhs), NextOf(m, rhs))

splice(m, head1, head2) ==
  LET a == rlist_assign(m, "prev", NextOf(m, head1), PrevOf(m, head2))
      b == rlist_assign(a, "next", PrevOf(a, head2), NextOf(a, head1))
      c == rlist_assign(b, "next", head1, NextOf(b, head2))
      d == rlist_assign(c, "prev", NextOf(c, head2), head1)
  IN  IF Empty(m, head2) THEN m ELSE create(d, head2)

splice_tail(m, head1, head2) ==
  LET a == rlist_assign(m, "next", PrevOf(m, head1), NextOf(m, head2))
      b == rlist_assign(a, "prev", NextOf(a, head2), PrevOf(a, head1))
      c == rlist_assign(b, "prev", head1, PrevOf(b, head2))
      d == rlist_assign(c, "next", PrevOf(c, head2), head1)
  IN  IF Empty(m, head2) THEN m ELSE create(d, head2)

cut_before(m, head1, head2, item) ==
  LET a == rlist_assign(m, "next", head1, NextOf(m, head2))
      b == rlist_assign(a, "prev", NextOf(a, head1), head1)
      c == rlist_assign(b, "prev", head1, PrevOf(b, item))
      d == rlist_assign(c, "next", PrevOf(c, head1), head1)
      e == rlist_assign(d, "next", head2, item)
  IN  IF NextOf(m, head1) = item THEN create(m, head1) ELSE rlist_assign(e, "prev", item, head2)
-----------------------------------------------------------------------------
(***************************************************************************)
(* rlist_persistent_rollback_to_svp, for a savepoint at which the history  *)
(* had length at; it asserts that no link was assigned behind its back.    *)
(***************************************************************************)
Undone(l, ops, at) ==
  LET u[k \in at .. Len(ops)] ==
        IF k = Len(ops) THEN [links |-> l, ok |-> TRUE]
        ELSE LET op == ops[k + 1]
                 v == u[k + 1]
             IN  [links |-> [v.links EXCEPT ![op.field][op.node] = op.prev_val],
                  ok |-> v.ok /\ v.links[op.field][op.node] = op.next_val]
  IN  u[at]

\* The items of a list, if the links of its nodes are each other's inverse.
ListOf(l, h) ==
  LET at[n \in 0 .. Cardinality(Items) + 1] == IF n = 0 THEN h ELSE l["next"][at[n - 1]]
      back == {n \in DOMAIN at \ {0} : at[n] = h}
      size == CHOOSE n \in back : \A k \in back : n <= k
  IN  IF back # {} /\ \A n \in 1 .. size : l["prev"][at[n]] = at[n - 1]
      THEN [n \in 1 .. size - 1 |-> at[n]] ELSE Broken

ListsOf(l) == [h \in Heads |-> ListOf(l, h)]

SavedOf(l, ops, marks) ==
  [i \in DOMAIN marks |-> LET u == Undone(l, ops, marks[i])
                          IN  IF u.ok THEN ListsOf(u.links) ELSE Broken]

Whole == {h \in Heads : lists[h] # Broken}
Listed == UNION {ToSet(lists[h]) : h \in Whole}

\* The links of a node that is in no list, and of the lists of ls.
Linked(ls) ==
  LET chain(h) == <<h>> \o ls[h] \o <<h>>
      step(n, d) == LET h == CHOOSE g \in Heads : n \in ToSet(<<g>> \o ls[g])
                        i == CHOOSE j \in DOMAIN chain(h) :
                               chain(h)[j] = n /\ j + d \in DOMAIN chain(h)
                    IN  chain(h)[i + d]
      in == Heads \cup UNION {ToSet(ls[h]) : h \in Heads}
  IN  [field \in {"next", "prev"} |-> [n \in ListNodes |->
         IF n \notin in THEN n ELSE step(n, IF field = "next" THEN 1 ELSE -1)]]
-----------------------------------------------------------------------------
PersistentInit ==
  /\ \E ls \in [Heads -> {s \in SeqOf(Items, Cardinality(Items)) : IsInjective(s)}] :
       /\ \A h, g \in Heads : h # g => ToSet(ls[h]) \cap ToSet(ls[g]) = {}
       /\ links = Linked(ls)
  /\ history = <<>> /\ svps = <<>>
  /\ lists = ListsOf(links) /\ saved = <<>>

Do(m) ==
  /\ Len(m.history) <= MaxHistory
  /\ links' = m.links /\ history' = m.history
  /\ UNCHANGED svps

Create(h) == Do(create(Memory, h))

AddEntry(h, x) ==
  /\ h \in Whole /\ x \notin Listed
  /\ Do(add(Memory, h, x)) \/ Do(add_tail(Memory, h, x))

DelEntry(x) == x \in Listed /\ Do(del(Memory, x))

ShiftEntry(h) ==
  /\ h \in Whole /\ ~Empty(Memory, h)
  /\ Do(shift(Memory, h)) \/ Do(shift_tail(Memory, h))

MoveEntry(h, x) ==
  /\ h \in Whole /\ x \in Listed
  /\ Do(move(Memory, h, x)) \/ Do(move_tail(Memory, h, x))

SpliceLists(h, g) ==
  /\ {h, g} \subseteq Whole /\ h # g
  /\ Do(splice(Memory, h, g)) \/ Do(splice_tail(Memory, h, g))

CutBefore(h, g) ==
  /\ g \in Whole /\ h # g
  /\ \E x \in {g} \cup ToSet(lists[g]) : Do(cut_before(Memory, h, g, x))

SwapHeads(h, g) ==
  /\ {h, g} \subseteq Whole /\ h # g
  /\ Do(swap_links(Memory, h, g))

CreateSvp ==
  /\ Len(svps) < MaxSavepoints
  /\ svps' = Append(svps, Len(history))
  /\ UNCHANGED <<links, history>>

RollbackToSvp ==
  \E i \in DOMAIN svps :
    /\ links' = Undone(links, history, svps[i]).links
    /\ history' = SubSeq(history, 1, svps[i])
    /\ svps' = SubSeq(svps, 1, i)

PersistentNext ==
  /\ \/ \E h \in Heads : Create(h) \/ ShiftEntry(h) \/ \E x \in Items : AddEntry(h, x) \/ MoveEntry(h, x)
     \/ \E x \in Items : DelEntry(x)
     \/ \E h, g \in Heads : SpliceLists(h, g) \/ CutBefore(h, g) \/ SwapHeads(h, g)
     \/ CreateSvp \/ RollbackToSvp
  /\ lists' = ListsOf(links') /\ saved' = SavedOf(links', history', svps')
-----------------------------------------------------------------------------
(***************************************************************************)
(* The links implement sequences that can be rolled back: every operation  *)
(* leaves lists that read the same in both directions, and a savepoint     *)
(* keeps standing for the lists of its moment whatever is done after it    *)
(* (rlist_persistent_svp, rlist_persistent.h).                             *)
(***************************************************************************)
Abstract == INSTANCE SavedLists WITH lists <- lists, saved <- saved

RollsBack == Abstract!ListsSpec
=============================================================================
