----------------------------- MODULE Modification -----------------------------
(***************************************************************************)
(* The five modifications of a solution's routes (modification.c) and the  *)
(* array operations of route.c they are made of.                           *)
(*                                                                         *)
(* rts is the sequence of a solution's routes.  A node <<x, i>> is index i *)
(* of route x: index 0 and index Len(rts[x]) + 1 are the depots.           *)
(***************************************************************************)
EXTENDS Integers, Sequences

\* route_insert_customer and route_remove_customer.
InsertBefore(r, i, c) == SubSeq(r, 1, i - 1) \o <<c>> \o SubSeq(r, i, Len(r))

\* Mutant: the copy starts one customer too late.
RemoveIndexOffByOne(r, i) == SubSeq(r, 1, i) \o SubSeq(r, i + 2, Len(r))

RemoveIndex(r, i) == SubSeq(r, 1, i - 1) \o SubSeq(r, i + 1, Len(r))

\* r up to and with index i, followed by q from index j + 1 on.
Splice(r, i, q, j) == SubSeq(r, 1, i) \o SubSeq(q, j + 1, Len(q))

CustomerNodes(rts) == UNION {{x} \X (1 .. Len(rts[x])) : x \in DOMAIN rts}
InsertNodes(rts) == UNION {{x} \X (1 .. Len(rts[x]) + 1) : x \in DOMAIN rts}
Nodes(rts) == UNION {{x} \X (0 .. Len(rts[x]) + 1) : x \in DOMAIN rts}

IsHead(v) == v[2] = 0
IsTail(rts, v) == v[2] = Len(rts[v[1]]) + 1
IsDepot(rts, v) == IsHead(v) \/ IsTail(rts, v)
-----------------------------------------------------------------------------
(***************************************************************************)
(* modification_applicable.  INSERT puts an ejected customer before v, so  *)
(* v is any node but a head; EJECT takes out a customer.                   *)
(***************************************************************************)
Moves == {"TWO_OPT", "OUT_RELOCATE", "EXCHANGE"}

modification_applicable(rts, type, v, w) ==
  CASE type = "TWO_OPT" -> v[1] # w[1] /\ ~IsTail(rts, v) /\ ~IsTail(rts, w)
    [] type = "OUT_RELOCATE" -> w # <<v[1], v[2] - 1>> /\ ~IsDepot(rts, w) /\ ~IsHead(v)
    [] type = "EXCHANGE" -> ~IsDepot(rts, v) /\ ~IsDepot(rts, w)
    [] type = "INSERT" -> ~IsHead(v)
    [] type = "EJECT" -> ~IsDepot(rts, v)

(***************************************************************************)
(* modification_apply, one operator per type.                              *)
(***************************************************************************)
Insert(rts, v, c) == [rts EXCEPT ![v[1]] = InsertBefore(@, v[2], c)]

Eject(rts, v) == [rts EXCEPT ![v[1]] = RemoveIndex(@, v[2])]

\* Swaps the parts of the two routes after v and after w.
TwoOpt(rts, v, w) ==
  [rts EXCEPT ![v[1]] = Splice(rts[v[1]], v[2], rts[w[1]], w[2]),
              ![w[1]] = Splice(rts[w[1]], w[2], rts[v[1]], v[2])]

\* Moves customer w in front of node v; removing w shifts a later v of its route.
OutRelocate(rts, v, w) ==
  LET to == IF v[1] = w[1] /\ w[2] < v[2] THEN <<v[1], v[2] - 1>> ELSE v
  IN  IF v = w THEN rts ELSE Insert(Eject(rts, w), to, rts[w[1]][w[2]])

Exchange(rts, v, w) ==
  [rts EXCEPT ![v[1]][v[2]] = rts[w[1]][w[2]], ![w[1]][w[2]] = rts[v[1]][v[2]]]

modification_apply(rts, type, v, w) ==
  CASE type = "TWO_OPT" -> TwoOpt(rts, v, w)
    [] type = "OUT_RELOCATE" -> OutRelocate(rts, v, w)
    [] type = "EXCHANGE" -> Exchange(rts, v, w)
=============================================================================
