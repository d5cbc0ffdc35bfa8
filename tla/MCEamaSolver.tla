----------------------------- MODULE MCEamaSolver -----------------------------
(***************************************************************************)
(* Instances of EamaSolver for TLC: customers on a line, so that distances *)
(* are integers, symmetric and obey the triangle inequality as the         *)
(* Euclidean ones of problem.c do.                                         *)
(***************************************************************************)
EXTENDS EamaSolver

\* Nodes 0, 1, .. at the places x[1], x[2], .. with windows [e, l].
Line(vc, x, e, l, service, demand) ==
  LET node(f) == [c \in 0 .. Len(x) - 1 |-> f[c + 1]]
      gap(a, b) == MAX(a - b, b - a)
  IN  [n |-> Len(x) - 1, vc |-> vc,
       dist |-> [c \in 0 .. Len(x) - 1 |-> [d \in 0 .. Len(x) - 1 |-> gap(x[c + 1], x[d + 1])]],
       e |-> node(e), l |-> node(l), s |-> node(service), demand |-> node(demand)]

\* Three customers at one end and one nearer to the depot, in overlapping windows.
Cluster == Line(4, <<0, -3, -1, -3, -3>>, <<0, 5, 4, 3, 4>>, <<8, 5, 5, 6, 5>>,
                <<0, 0, 1, 0, 1>>, <<0, 2, 1, 1, 2>>)

\* Customers on both sides of the depot.
TwoSides == Line(5, <<0, -3, 0, 3, 1>>, <<0, 5, 4, 2, 4>>, <<8, 8, 5, 4, 7>>,
                 <<0, 0, 1, 0, 1>>, <<0, 2, 1, 2, 1>>)

\* Three customers that need a vehicle each, though two could carry their demand.
Bulky == Line(8, <<0, -3, 3, 2, 1>>, <<0, 0, 2, 0, 0>>, <<20, 15, 6, 9, 4>>,
              <<0, 0, 1, 0, 1>>, <<0, 5, 5, 5, 1>>)

\* Three customers at the depot who all start at time 0 and take one unit.
Tight == Line(3, <<0, 0, 0, 0>>, <<0, 0, 0, 0>>, <<9, 0, 0, 0>>, <<0, 1, 1, 1>>,
              <<0, 1, 1, 1>>)

\* An instance without demand.
Unloaded == Line(1, <<0, 1, 2>>, <<0, 0, 0>>, <<9, 1, 2>>, <<0, 0, 0>>, <<0, 0, 0>>)

\* solution_default: a route for every customer.
Default == {[c \in Customer |-> <<c>>]}
DefaultAndDecoded == Default \cup {<<<<4, 1>>, <<2>>, <<3>>>>}

AllNear == [c \in 0 .. Problem.n |-> Customer]

\* The two customers nearest to each node, itself included.
NearestTwo ==
  [c \in 0 .. Problem.n |->
     CHOOSE D \in {{d, f} : d, f \in Customer} :
       /\ Cardinality(D) = 2
       /\ \A d \in D, f \in Customer \ D : dist(Problem, c, d) <= dist(Problem, c, f)]
=============================================================================
