-------------------------- MODULE MCNeighbourhoodScan --------------------------
(***************************************************************************)
(* Instances of NeighbourhoodScan for TLC.                                 *)
(***************************************************************************)
EXTENDS NeighbourhoodScan

\* Four customers on a line, the depot first; the windows make an order matter.
Line ==
  LET at == <<0, -2, 1, -1, 2>>
      node(f) == [c \in 0 .. 4 |-> f[c + 1]]
  IN  [n |-> 4, vc |-> 4,
       dist |-> [c \in 0 .. 4 |-> [d \in 0 .. 4 |->
                   MAX(at[c + 1] - at[d + 1], at[d + 1] - at[c + 1])]],
       e |-> node(<<0, 2, 0, 1, 3>>), l |-> node(<<9, 3, 2, 4, 5>>),
       s |-> node(<<0, 1, 0, 1, 0>>), demand |-> node(<<0, 2, 1, 1, 2>>)]

\* Late, overloaded, with an empty route, with a customer in no route, one route
\* that is overloaded whatever the moves, which cannot leave it, and a route late
\* by the tolerance, where a move that changes nothing ends the scan.
Infeasible == {<<<<4, 1, 3>>, <<2>>>>, <<<<1, 4, 2>>, <<3>>>>, <<<<3, 4, 1>>, <<>>>>,
               <<<<4, 3>>, <<1>>, <<2>>>>, <<<<2, 1, 4>>>>,
               <<<<2, 1>>, <<4, 3>>>>}

\* The three customers nearest to each node, itself included.
NearestThree ==
  [c \in 0 .. Problem.n |->
     CHOOSE D \in SUBSET (1 .. Problem.n) :
       /\ Cardinality(D) = 3
       /\ \A d \in D, f \in (1 .. Problem.n) \ D : dist(Problem, c, d) <= dist(Problem, c, f)]
=============================================================================
