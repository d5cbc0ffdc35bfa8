--------------------------- MODULE MCEjectionSearch ---------------------------
(***************************************************************************)
(* Instances of EjectionSearch for TLC: routes of three and four customers *)
(* on a line with tight and wide windows, sums of p and vehicle            *)
(* capacities.                                                             *)
(***************************************************************************)
EXTENDS EjectionSearch, FiniteSets

\* The depot at place 0 and customer c at x[c], with a unit of demand each.
OnLine(x, horizon, service, vc, windows) ==
  LET n == Len(x)
      with0(f, d) == [c \in 0 .. n |-> IF c = 0 THEN d ELSE f[c]]
      at == with0(x, 0)
      window == with0(windows, <<0, horizon>>)
  IN  [n |-> n, vc |-> vc,
       dist |-> [c \in 0 .. n |-> [d \in 0 .. n |-> MAX(at[c] - at[d], at[d] - at[c])]],
       e |-> [c \in 0 .. n |-> window[c][1]], l |-> [c \in 0 .. n |-> window[c][2]],
       s |-> with0(service, 0), demand |-> [c \in 0 .. n |-> IF c = 0 THEN 0 ELSE 1]]

Search(problem, ps, k, best) ==
  [p |-> problem, r |-> [i \in 1 .. problem.n |-> i], ps |-> ps, k_max |-> k, p_best |-> best]

Windows == {<<0, 2>>, <<1, 3>>, <<2, 2>>, <<4, 7>>}

ThreeCustomers ==
  {Search(OnLine(<<2, 1, 2>>, 8, <<1, 1, 1>>, vc, w), ps, k, 9) :
     vc \in {1, 3}, w \in [1 .. 3 -> Windows], ps \in {<<1, 1, 1>>, <<1, 3, 1>>}, k \in {0, 2}}

FourCustomers ==
  {Search(OnLine(<<2, 1, 2, 0>>, 7, <<1, 1, 1, 1>>, vc, w), ps, k, 9) :
     vc \in {2, 4}, w \in [1 .. 4 -> {<<1, 3>>, <<2, 2>>, <<4, 7>>}], ps \in {<<2, 1, 1, 3>>},
     k \in {2, 3}}

\* A route as insert_eject makes it: the rest is feasible without customer 2.
Inserted ==
  {Search(OnLine(<<-2, 0, -2, 1>>, 9, <<1, 0, 0, 0>>, 4, <<<<0, 2>>, <<3, 3>>, <<3, 5>>, <<3, 6>>>>),
          <<1, 3, 3, 1>>, 2, best) : best \in {3, 9}}

Routes == ThreeCustomers \cup FourCustomers \cup Inserted
=============================================================================
