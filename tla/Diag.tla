--------------------------------- MODULE Diag ---------------------------------
(***************************************************************************)
(* Errors and the diagnostics areas that hold them (lib/core/diag.h and    *)
(* diag.c): an error is counted by the areas that show it, by its effect   *)
(* and by whoever called error_ref; an error whose last reference goes     *)
(* takes its chain of causes with it, as far as nobody else counts them.   *)
(*                                                                         *)
(* A heap h is a record of functions over Errors.  An error with no        *)
(* reference is free memory: between two calls every live error has one.   *)
(***************************************************************************)
EXTENDS Integers, FiniteSetsExt

CONSTANTS
  Errors,   \* addresses of errors
  NoError,  \* NULL
  Areas     \* diagnostics areas

ASSUME DiagAssumption ==
  /\ IsFiniteSet(Errors) /\ NoError \notin Errors
  /\ IsFiniteSet(Areas)

VARIABLES
  heap,     \* refs, cause and effect of each error
  last,     \* diag.last of each area
  reffed    \* errors that some code holds by error_ref

diagVars == <<heap, last, reffed>>

DiagInit ==
  /\ heap = [refs |-> [e \in Errors |-> 0],
             cause |-> [e \in Errors |-> NoError],
             effect |-> [e \in Errors |-> NoError]]
  /\ last = [d \in Areas |-> NoError]
  /\ reffed = {}

Live(h) == {e \in Errors : h.refs[e] > 0}
-----------------------------------------------------------------------------
\* The errors met by following cause from e, e first, in Cardinality(Errors) steps.
Chain(h, e) ==
  LET c[n \in 0 .. Cardinality(Errors)] ==
        IF n = 0 THEN e
        ELSE IF c[n - 1] = NoError THEN NoError ELSE h.cause[c[n - 1]]
  IN  c

Causes(h, e) == LET c == Chain(h, e) IN {c[n] : n \in DOMAIN c \ {0}} \ {NoError}

\* What error_unref(e) destroys: e and its causes up to one that is counted elsewhere.
Destroyed(h, e) ==
  LET c == Chain(h, e)
      falls(n) == \A m \in 0 .. n : c[m] # NoError /\ h.refs[c[m]] = 1
  IN  {c[n] : n \in {m \in DOMAIN c : falls(m)}}

error_ref(h, e) == [h EXCEPT !.refs[e] = @ + 1]

\* Mutant: the loop stops after the first error, whose cause stays counted.
UnrefOne(h, e) ==
  [h EXCEPT !.refs[e] = @ - 1,
            !.cause[e] = IF h.refs[e] = 1 THEN NoError ELSE @]

error_unref(h, e) ==
  LET dead == Destroyed(h, e)
      orphans == {h.cause[x] : x \in dead} \ {NoError}
      kept == ({e} \cup orphans) \ dead
  IN  [refs |-> [x \in Errors |->
                   CASE x \in dead -> 0
                     [] x \in kept -> h.refs[x] - 1
                     [] OTHER -> h.refs[x]],
       cause |-> [x \in Errors |-> IF x \in dead THEN NoError ELSE h.cause[x]],
       effect |-> [x \in Errors |->
                     IF x \in dead \cup orphans THEN NoError ELSE h.effect[x]]]

error_unlink_effect(h, e) ==
  IF h.effect[e] = NoError THEN h
  ELSE [error_unref(h, e) EXCEPT !.cause[h.effect[e]] = NoError,
                                 !.effect[e] = NoError]

(***************************************************************************)
(* error_set_prev.  The cycle check is skipped when neither error has an   *)
(* effect: then prev is the top of its chain and e of its own.             *)
(***************************************************************************)
\* Mutant: the causes of prev are not searched for e.
MakesCycleUnsearched(h, e, prev) == e = prev

MakesCycle(h, e, prev) ==
  /\ prev # NoError
  /\ \/ e = prev
     \/ /\ h.effect[prev] # NoError \/ h.effect[e] # NoError
        /\ e \in Causes(h, prev)

Linked(h, e, prev) ==
  IF prev = NoError THEN h
  ELSE [error_ref(error_unlink_effect(h, prev), prev) EXCEPT !.effect[prev] = e]

error_set_prev(h, e, prev) ==
  LET new == Linked(h, e, prev)
      old == new.cause[e]
      cut == IF old = NoError THEN new
             ELSE error_unref([new EXCEPT !.effect[old] = NoError], old)
  IN  [cut EXCEPT !.cause[e] = prev]
-----------------------------------------------------------------------------
diag_clear(h, d) == IF last[d] = NoError THEN h ELSE error_unref(h, last[d])

diag_set_error(h, d, e) ==
  error_unlink_effect(IF last[d] = NoError THEN error_ref(h, e)
                      ELSE error_unref(error_ref(h, e), last[d]), e)

\* The areas of ds are destroyed, one after another.
diag_destroy(h, ds) ==
  FoldSet(LAMBDA d, g : diag_clear(g, d), h, ds)

(***************************************************************************)
(* The operations on area d.  diag_set and diag_add build a new error; the *)
(* asserts of diag_add_error say what the caller has to know.              *)
(***************************************************************************)
DiagSet(d) ==
  \E e \in Errors \ Live(heap) :
    /\ heap' = diag_set_error(heap, d, e)
    /\ last' = [last EXCEPT ![d] = e]
    /\ UNCHANGED reffed

DiagSetError(d) ==
  \E e \in reffed :
    /\ heap' = diag_set_error(heap, d, e)
    /\ last' = [last EXCEPT ![d] = e]
    /\ UNCHANGED reffed

DiagAdd(d) ==
  /\ last[d] # NoError /\ heap.effect[last[d]] = NoError
  /\ \E e \in Errors \ Live(heap) :
       /\ heap' = [error_ref(heap, e) EXCEPT !.cause[e] = last[d],
                                             !.effect[last[d]] = e]
       /\ last' = [last EXCEPT ![d] = e]
  /\ UNCHANGED reffed

\* Mutant: from keeps pointing to the error it has handed over.
DiagMoveShared(from, to) ==
  /\ from # to
  /\ heap' = diag_clear(heap, to)
  /\ last' = [last EXCEPT ![to] = last[from]]
  /\ UNCHANGED reffed

DiagMove(from, to) ==
  /\ from # to
  /\ heap' = diag_clear(heap, to)
  /\ last' = [last EXCEPT ![from] = NoError, ![to] = last[from]]
  /\ UNCHANGED reffed

DiagClear(d) ==
  /\ heap' = diag_clear(heap, d)
  /\ last' = [last EXCEPT ![d] = NoError]
  /\ UNCHANGED reffed

ErrorRef(d) ==
  /\ last[d] \notin reffed \cup {NoError}
  /\ heap' = error_ref(heap, last[d])
  /\ reffed' = reffed \cup {last[d]}
  /\ UNCHANGED last

ErrorUnref ==
  \E e \in reffed :
    /\ heap' = error_unref(heap, e)
    /\ reffed' = reffed \ {e}
    /\ UNCHANGED last

\* Both errors are the caller's: error_unlink_effect must not free prev.
ErrorSetPrev ==
  \E e \in reffed, prev \in reffed \cup {NoError} :
    /\ ~MakesCycle(heap, e, prev)
    /\ heap' = error_set_prev(heap, e, prev)
    /\ UNCHANGED <<last, reffed>>

DiagNext(d) ==
  \/ DiagSet(d) \/ DiagSetError(d) \/ DiagAdd(d) \/ DiagClear(d)
  \/ \E from \in Areas : DiagMove(from, d)
  \/ ErrorRef(d) \/ ErrorUnref \/ ErrorSetPrev
-----------------------------------------------------------------------------
DiagTypeOK ==
  /\ heap \in [refs : [Errors -> Nat],
               cause : [Errors -> Errors \cup {NoError}],
               effect : [Errors -> Errors \cup {NoError}]]
  /\ last \in [Areas -> Errors \cup {NoError}]
  /\ reffed \in SUBSET Errors

(***************************************************************************)
(* An error is counted once by every area that shows it, once by its live  *)
(* effect and once by whoever holds it: none is freed while something      *)
(* still points to it, and none is left behind that nothing points to      *)
(* (error_ref, error_unref, diag.c).                                       *)
(***************************************************************************)
CountedBy(e) ==
    Cardinality({d \in Areas : last[d] = e})
  + (IF heap.effect[e] \in Live(heap) THEN 1 ELSE 0)
  + (IF e \in reffed THEN 1 ELSE 0)

RefsExact == \A e \in Errors : heap.refs[e] = CountedBy(e)

(***************************************************************************)
(* cause and effect are inverse links between live errors and no error is  *)
(* its own remote cause, although error_set_prev searches for a cycle only *)
(* when one of the two has an effect (diag.c).                             *)
(***************************************************************************)
ChainsSound ==
  \A e \in Errors :
    /\ heap.cause[e] # NoError => heap.effect[heap.cause[e]] = e
    /\ heap.effect[e] # NoError => heap.cause[heap.effect[e]] = e
    /\ e \notin Causes(heap, e)
    /\ e \notin Live(heap) => heap.cause[e] = NoError /\ heap.effect[e] = NoError
=============================================================================
