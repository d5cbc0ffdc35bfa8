----------------------------- MODULE MCRouteCaches -----------------------------
(***************************************************************************)
(* Instances of RouteCaches for TLC: customers on a line around the depot, *)
(* with windows that make vehicles wait, be late and be both in one route. *)
(***************************************************************************)
EXTENDS RouteCaches

\* The depot at place 0 and customer c at x[c].
OnLine(x, horizon, service, vc, windows, load) ==
  LET n == Len(x)
      with0(f, d) == [c \in 0 .. n |-> IF c = 0 THEN d ELSE f[c]]
      at == with0(x, 0)
      window == with0(windows, <<0, horizon>>)
  IN  [n |-> n, vc |-> vc,
       dist |-> [c \in 0 .. n |-> [d \in 0 .. n |-> MAX(at[c] - at[d], at[d] - at[c])]],
       e |-> [c \in 0 .. n |-> window[c][1]], l |-> [c \in 0 .. n |-> window[c][2]],
       s |-> with0(service, 0), demand |-> with0(load, 0)]

Three ==
  {OnLine(<<2, -1, 1>>, 6, <<1, 0, 1>>, 3, w, <<1, 2, 2>>) :
     w \in {u \in [1 .. 3 -> {<<1, 2>>, <<3, 5>>}] : u[1] # u[2]}}

Four ==
  {OnLine(<<-2, 0, -2, 1>>, 7, <<1, 0, 0, 0>>, 3, <<<<0, 2>>, <<3, 3>>, <<2, 5>>, <<3, 6>>>>,
          <<1, 2, 1, 2>>)}

ThreeAndFour == Three \cup Four
=============================================================================
