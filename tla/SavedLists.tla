------------------------------ MODULE SavedLists ------------------------------
(***************************************************************************)
(* What persistent lists promise (small_extra/rlist_persistent.h): they    *)
(* are sequences, and rolling back to a savepoint restores the lists of    *)
(* that moment.  A list is Broken while its head and its items disagree.   *)
(***************************************************************************)
EXTENDS SequencesExt

CONSTANTS
  Heads,   \* list heads
  Items,   \* list entries
  Broken   \* not a sequence

VARIABLES
  lists,   \* per head its entries
  saved    \* what lists was at each savepoint, the oldest first

listVars == <<lists, saved>>

Sound(ls) == {h \in Heads : ls[h] # Broken}
Listed(ls) == UNION {ToSet(ls[h]) : h \in Sound(ls)}

\* Where the entries are, and the lists without that of one place.
Places(ls) == UNION {{h} \X DOMAIN ls[h] : h \in Sound(ls)}
Without(ls, at) == [ls EXCEPT ![at[1]] = RemoveAt(@, at[2])]

ListsInit ==
  /\ lists \in [Heads -> {s \in SeqOf(Items, Cardinality(Items)) : IsInjective(s)}]
  /\ \A h, g \in Heads : h # g => ToSet(lists[h]) \cap ToSet(lists[g]) = {}
  /\ saved = <<>>

(***************************************************************************)
(* What an operation may turn the lists ls into.                           *)
(***************************************************************************)
Created(ls) == {[ls EXCEPT ![h] = <<>>] : h \in Heads}

\* x becomes the first of h, or the last.
Put(ls, h, x) == {[ls EXCEPT ![h] = <<x>> \o @], [ls EXCEPT ![h] = Append(@, x)]}

Added(ls) == UNION {Put(ls, h, x) : h \in Sound(ls), x \in Items \ Listed(ls)}

Deleted(ls) == {Without(ls, at) : at \in Places(ls)}

Moved(ls) ==
  UNION {Put(Without(ls, at), h, ls[at[1]][at[2]]) : h \in Sound(ls), at \in Places(ls)}

Pairs(ls) == {hg \in Sound(ls) \X Sound(ls) : hg[1] # hg[2]}

\* The items of g come before those of h, or behind them.
Join(ls, h, g) ==
  {[ls EXCEPT ![h] = ls[g] \o @, ![g] = <<>>], [ls EXCEPT ![h] = @ \o ls[g], ![g] = <<>>]}

Spliced(ls) == UNION {Join(ls, hg[1], hg[2]) : hg \in Pairs(ls)}

\* The first n items of g become h, whose items are in no list from then on.
CutAt(ls, h, g, n) ==
  [ls EXCEPT ![h] = SubSeq(ls[g], 1, n), ![g] = SubSeq(ls[g], n + 1, Len(ls[g]))]

Cuts(ls, g) == {CutAt(ls, h, g, n) : h \in Heads \ {g}, n \in 0 .. Len(ls[g])}

Halved(ls) == UNION {Cuts(ls, g) : g \in Sound(ls)}

\* A head that is given the links of another is not one to which they lead back.
Swap(ls, h, g) ==
  [ls EXCEPT ![h] = IF ls[g] = <<>> THEN <<>> ELSE Broken,
             ![g] = IF ls[h] = <<>> THEN <<>> ELSE Broken]

Swapped(ls) == {Swap(ls, hg[1], hg[2]) : hg \in Pairs(ls)}

Operate ==
  /\ lists' \in UNION {Created(lists), Added(lists), Deleted(lists), Moved(lists),
                       Spliced(lists), Halved(lists), Swapped(lists)}
  /\ UNCHANGED saved

Save == saved' = Append(saved, lists) /\ UNCHANGED lists

\* The savepoints made since are gone.
Rollback ==
  \E i \in DOMAIN saved :
    /\ lists' = saved[i]
    /\ saved' = SubSeq(saved, 1, i)

ListsNext == Operate \/ Save \/ Rollback

ListsSpec == ListsInit /\ [][ListsNext]_listVars
=============================================================================
