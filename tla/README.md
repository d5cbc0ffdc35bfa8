# Verification of the route minimisation heuristic

The program minimises the number of vehicles of a vehicle routing problem with
time windows (Nagata & Bräysy's powerful route minimisation heuristic). This
directory holds TLA+ models of it, the TLC runs that check them on small
instances, and TLAPS proofs. Paths below are relative to the repository
(`src/` is the program, `src/lib/` its runtime, `test/` the tests).

## 1. The system

| Component | State | Operations | Code |
|---|---|---|---|
| Route minimiser | `eama_solver`: options, `p[c]`, `beta`; the locals of each phase | `eama_solver_solve`, `delete_route`, `insert_feasible`, `squeeze`, `insert_eject`, `perturb` | `eama_solver.c/.h` |
| Solution | routes, ejection pool, customer `w` in hand | duplicate, move, delete, eliminate a route, find an insertion, enumerate the moves of a neighbourhood, penalties, checks | `solution.cc/.h` |
| Modifications | none; they change routes, objects and caches | `modification_applicable`, `_delta`, `_apply` of INSERT, EJECT, TWO_OPT, OUT_RELOCATE, EXCHANGE | `modification.c/.h` |
| Routes | array of customer objects between two depots | insert, remove, refresh of `route`/`idx`, update of penalties, feasibility | `route.c/.h` |
| Penalties | cached per object: `a`, `tw_pf`, `z`, `tw_sf`, `demand_pf`, `demand_sf` | initial computation, update forward and backward, constant-time deltas | `tw_penalty.c`, `c_penalty.c`, `penalty_inline.h` |
| Ejection search | three arrays, sums, and scratch times in the objects | `feasible_ejections_f`: a fiber that yields the improving ejections in lexicographic order | `ejection.c/.h` |
| Problem | distances, neighbour lists, capacity, customers | loading, lower bound | `problem.c/.h`, `customer.c` |
| Fibers | the fibers of a thread's cord: alive, dead (a cache), garbage; flags, caller and region of each | new, call, yield, cancel, end and recycle, delete all | `lib/core/fiber.c`, `cord_on_demand.cc` |
| Persistent lists | intrusive lists with a history | insert, remove, savepoint, rollback | `rlist_persistent.h` of `lib/small_extra` |
| Random numbers | generator state | numbers in a range by rejection, `random_subset`, `random_shuffle` | `lib/core/random.c`, `random_utils.c` |
| Bits and 96-bit integers | none of their own | bits of memory, rotation, byte swap, index and iterator; sums of 64-bit integers | `lib/bit/bit.h`, `bit.c`, `int96.h` |
| Diagnostics | per fiber the last error; errors are counted and chained to their causes | set, add, move, clear, link | `lib/core/diag.c/.h` |
| Command line, files | options | parse, decode, print | `main.c`, `cli.c`, `problem_decode.cc`, `solution_encode.cc` |
| Distance penalty | cached distances | as the other penalties; compiled for a test only | `distance.c` |

**How they interact.** The program is one thread. `eama_solver_solve` calls
`delete_route`, which duplicates the solution, deletes a route (its customers go
to the ejection pool), and puts each customer back with `insert_feasible`, else
`squeeze`, else `insert_eject` followed by `perturb`. `squeeze` and the
insertion searches resume a *generator fiber* for the moves around a node;
`insert_eject` resumes the *ejection fiber*, which writes its result through
pointers (`*p_best`, the array `e`) that the caller reads between two
resumptions. Everything goes down to `modification_apply`, which moves objects
between arrays and refreshes what they cache; `modification_delta` answers from
the caches alone. Roll-backs are by copy: `solution_dup` before, `solution_move`
or a sequence of inverse modifications after.

**What is hard.** There are no threads, messages or persistent state. The
difficulty is in:
* *ownership over long runs*: a customer object is always in one route, in the
  pool or in hand, through any sequence of insertions, ejections, moves and
  three nested kinds of roll-back;
* *caches*: each modification recomputes only part of them, forward from one
  place and backward from another, and constant-time formulas rely on all;
* *exploration with in-place state*: the ejection search keeps four arrays, four
  sums and times of the objects consistent while it jumps between subsets, and
  the caller may cancel it at any yield;
* *numerics*: tolerances that are compared with differences here and totals
  there; a weight that is adapted and clamped;
* *termination*: the descent of `squeeze`, the end of the search, the deadline;
* *giving up half-way*: a deadline or a failed phase in the middle of deleting a
  route must return the last complete solution.

What makes each component correct:
* minimiser: the solution returned is complete and feasible and never has more
  routes than one held before; it returns; each copy lives exactly as long as it
  may be needed; a phase starts and ends feasible;
* solution: no customer lost or doubled; moves it proposes are applicable;
* modifications: each does to the routes what its name says; its inverse
  restores them; deltas equal the change of the penalties;
* routes and penalties: places and caches equal a computation anew;
* ejection search: sums and times exact, reports feasible and improving, order
  lexicographic, ends, with the best of what it has to consider;
* the generator of moves: what it shares with `squeeze` between two resumptions
  (the move, the routes, its copy of a route) is what each believes it to be;
* the memory of solutions: every object belongs to one live solution;
* fibers: a yield answers the latest call, a recycled fiber starts fresh, a fiber
  is told of its cancellation and nobody else is, none deletes its own stack;
* diagnostics: an error lives exactly as long as it is referred to, and chains of
  causes have no cycle;
* persistent lists: a roll-back restores the lists and the following savepoints
  stay valid; random numbers: no value outside of the range, no more rejections
  than half on average, fair samples; bits and integers: what the number or set is
  that they stand for.

`PROJECT.json` lists the hazards line by line with the properties that cover
them.

## 2. The modules

```
Penalty ──────────────┐
                      ├── Ejection ──┬── EjectionSearch ── MCEjectionSearch
Modification ─────────┤              │        └ implements BestEjection
   │                  │              │
   │                  │              └── EamaSolver ── MCEamaSolver
   │                  │                      └ implements RouteMinimizer
   │                  └── RouteCaches ── MCRouteCaches
   └── RouteProofs ──┬── EamaSolverProofs          (and EamaSolver)
       (of Ejection) ├── EjectionSearchProofs      (and EjectionSearch)
                     ├── NeighbourhoodScanProofs   (and NeighbourhoodScan)
                     └── RouteCachesProofs         (and RouteCaches)

Ejection ── Neighbourhood ──┬── EamaSolver
                            └── NeighbourhoodScan ── MCNeighbourhoodScan
Diag ── Fibers ──┬── MCFibers
                 └── FibersProofs
SolutionObjects, Bits, Int96, Random, PersistentLists ── Library ── MCLibrary
                                          └ implements SavedLists
RouteProofs (of these, its general lemmas) ──┬── LibraryProofs   (and SolutionObjects, Bits, Int96)
                                             └── ListsProofs     (and PersistentLists)
```

* **Penalty** - the values a customer caches (arrival, latest start, lateness of
  prefix and suffix, demand of both), penalties and feasibility of a route, and
  when the bound on an exchange within a route is exact. Recursive functions on
  a route, computed anew.
* **Modification** - the routes as sequences of customers; `modification_applicable`
  and the effect of each type of `modification_apply`. A node is `<<route, index>>`.
* **Ejection** - what an ejection is, when it is feasible, which ones the search is
  bound to consider.
* **RouteMinimizer** - abstract: what the solver promises its caller.
* **EamaSolver** - the minimiser, one action per handler or loop round.
* **BestEjection** - abstract: what `insert_eject` assumes of the search.
* **EjectionSearch** - the search label by label; `Goto` is the do-while loop's
  body, `Start`, `Extend`, `IncrementLast`, `Backtrack`, `Exhausted` its gotos.
* **RouteCaches** - objects with cached data, one action per modification, the
  refreshes and updates in the code's order; the constant-time delta formulas.
* **Neighbourhood** - the set of moves the generator yields for a route.
* **NeighbourhoodScan** - the generator and the loop of `squeeze`, one action per
  step between two places where the other may look at what they share.
* **SolutionObjects** - solutions as objects in memory.
* **Diag**, **Fibers** - errors and the areas that show them; the fibers of a cord,
  each with an area.
* **SavedLists** - abstract: sequences with savepoints. **PersistentLists** - the links
  and the history of assignments that implement them.
* **Bits**, **Int96**, **Random** - the rest of the libraries, with short words.
* **Library** - composes the modules that share nothing: the initial state says which
  one a behaviour exercises.
* **RouteProofs**, **EamaSolverProofs**, **EjectionSearchProofs**,
  **NeighbourhoodScanProofs**, **RouteCachesProofs**,
  **FibersProofs**, **LibraryProofs**, **ListsProofs** - lemmas and theorems, see section 4.

How the pieces fit: RouteCaches shows that the object-level code implements
`Modification` (`AppliesModification`) and `Penalty` (`CachesExact`,
`DeltasExact`), so EamaSolver works on sequences and computes penalties anew;
EjectionSearch shows that the search implements `BestEjection`, whose steps are
EamaSolver's `EjectionFound` and `EjectionsExhausted`; NeighbourhoodScan shows that
the generator yields `Neighbourhood` (`YieldsNeighbourhood`) and that `squeeze`
applies a move, or gives up, only as EamaSolver's `SqueezeMove` and `SqueezeFail`
say (`AppliesOptimalMove`); SolutionObjects shows that the copies which EamaSolver
holds as values can be objects (`ObjectsExact`); Fibers shows that resuming a fiber
is the procedure call with interruptions that EjectionSearch and NeighbourhoodScan
take it for (`CallersLeadToSched`, `HandlesCurrent`).

### EamaSolver and the code

| State | Code |
|---|---|
| `pc` | the function, and the loop in it |
| `s` | the `solution` the phases share |
| `incumbent`, `s_dup` | the copies of `delete_route`, and of `squeeze` or `insert_eject` |
| `p`, `beta` | the fields of `eama_solver` |
| `infeasibles`, `in_infeasibles_idx` | `squeeze`'s array and `route.in_infeasibles_idx` |
| `search` | `insert_eject`'s position, `p_best`, `opt_v`, `opt_ejection` |
| `round` | `perturb`'s `i` |
| `expired` | `clock() >= deadline` |

| Actions | Code |
|---|---|
| `DeleteRoute`, `StopAtLowerBound`, `RouteDeleted`, `DeadlinePassed`, `PopCustomer`, `ClockExpires` | `eama_solver_solve`, `delete_route` |
| `InsertFeasible`, `NoFeasibleInsertion` | `insert_feasible` and `solution_find_feasible_insertion` |
| `Squeeze`, `SqueezeMove`, `SqueezeDone`, `SqueezeFail` | `squeeze`, its search for the best move and its array; `SqueezeFail` includes the update of `beta` and of `p[w]` |
| `InsertEject`, `TryInsertion`, `EjectionFound`, `EjectionsExhausted`, `InsertBest`, `EjectNext`, `EjectionDone`, `InsertEjectFail` | `insert_eject` |
| `PerturbMove`, `PerturbSkip`, `PerturbDone` | `perturb` |

Random draws (route to delete, feasible insertion, infeasible route, best move
among equals, pairs of `perturb`) are `\E`. The order of the moves inside one
scan is shuffled in the code; the scan's early end is the first disjunct of
`OptimalMove`. In `squeeze` the scan may stop early and keep a move that is not
the least: the model allows any such move.

### NeighbourhoodScan and the code

`pc` is "choose", "compare", "apply" or "failed" while `squeeze` runs, else the
place of the fiber. `m` is the move they share, `opt` the best so far, `copy` is
`out_relocate_current`, `id_to_customer` the table that finds the copied customer of
an id, `objects` the copies that are allocated, `region` the fiber's memory. Copies
are numbered, so that an entry of the table left from an earlier copy is told from
a fresh one. `permutation` is any order of the route's nodes, `vs` the tails and then
the near customers by their distance, those at the same distance in any order. A call and a yield are single steps here; what can go wrong
inside them is Fibers's subject.

### SolutionObjects and the code

`customers[a]` is the id of the customer or depot at address a, `routes[r]` the
addresses in the route at r, `solutions` the solver's solution and below it the
copies of the phases that are active. Copying allocates an object for every
customer and two depots for every route, `solution_move` exchanges all that two
solutions point to, `solution_delete` frees by following the pointers. An address is
handed out again as soon as it is free, lowest first, so a pointer left behind would
lead to another object. The k-th allocation of an operation returns the k-th free address
(`malloc`, `Nth`), for nothing is freed while a solution is built. Phases may insert, eject and move in any way and any number
of times: the property does not rest on what they decide.

### Fibers, Diag and the code

`fiber`, `alive`, `dead`, `garbage` are the fields of `struct cord`; `caller`, `flags`
and `func` (whether `f` is set) those of `struct fiber`. `calls` is the true stack of
calls, `asked` whom someone cancelled in its present life, `stale` a handle whose
fiber has since begun another: they record what the code cannot see and the
properties compare with. The functions that run in fibers are arbitrary within
the discipline that `eama_solver.c` and the tests keep: call only a fiber you made,
ask `fiber_is_dead` right after a call returns, and do not return before your fibers
are dead. `heap` holds the references, causes and effects of errors, `last` the
error each area shows, `reffed` who called `error_ref`.

### PersistentLists, Bits, Int96, Random and the code

`links` are the next and prev pointers, `history` the assignments with their old
values, `svps` the savepoints; every operation is written as the assignments of the
code in their order. `lists` and `saved` are what the links read as, now and after
each rollback: the refinement mapping into SavedLists. `swap_links` leaves heads
whose items do not lead back to them (`Broken`); a savepoint later than one that was
rolled back to is forgotten, as the header demands. In Bits, bytes and words are
sets of bit numbers; `Rewrite` loads a word, changes it and stores it, so that loads,
stores, rotations and byte swaps are checked against the bits they should leave.
In Random, `RealDraw` gives any word, for what the device may deliver.

## 3. Runs

| Run | Instance | What it shows |
|---|---|---|
| `cluster` | 4 customers, 3 of them at one place; 2 initial solutions; `k_max` 2 | `Ownership`, `FeasibleBetweenPhases`, `TriesRollBack`, `InsertEjectSucceeds`, `SqueezeEnds`, `MinimizesRoutes` |
| `sides` | 4 customers on both sides of the depot, 2 near ones each; `k_max` 1 | `TypeOK`, `Copies`, `InfeasiblesExact`, `MovesApplicable`, `SqueezeDescends` |
| `give_up` | 4 customers, 3 of which need a vehicle each; `k_max` 0 | `MinimizesRoutes` when `insert_eject` fails |
| `tolerance` | 3 customers, `EPS5` of 2 units | finding 1 |
| `unloaded` | 2 customers, no demand | finding 2 |
| `ejection` | 3 and 4 customers, late, overloaded or both; two contents of the scratch fields | `TypeOK`, `StacksPartition`, `SumsExact`, `TestExact`, `YieldsFeasible`, `Lexicographic`, `FindsBestConsidered` |
| `ejection_complete` | a route as `insert_eject` builds it | finding 3 |
| `caches` | 2 routes, 3 or 4 customers, one out of them at most | `TypeOK`, `PlacesExact`, `CachesExact`, `DeltasExact`, `ExchangeBounded`, `AppliesModification` |
| `neighbourhood_scan` | 4 customers on a line, the 3 nearest of each, 6 infeasible starts, 3 moves | `CopySound`, `YieldsNeighbourhood`, `AppliesOptimalMove` |
| `fibers` | 3 fibers, 2 stacks, 3 errors | `TypeOK`, `CallersLeadToSched`, `ListsExact`, `HandlesCurrent`, `RefsExact`, `ChainsSound`, `NeverDeletesItself` |
| `exit_in_fiber` | the same, and `exit()` anywhere | finding 4 |
| `library` | 2 lists of 3 items; 5 bytes of 2 bits; half words of 8 values; words of 3 bits; 3 customers | `RollsBack`, `IteratorExact`, `SumsExact96`, `DrawsFair`, `ObjectsExact` |

`MinimizesRoutes` is the refinement of `RouteMinimizer` with liveness (it
returns); `FindsBestConsidered` that of `BestEjection` (it ends); `RollsBack` that of
`SavedLists`. They map the state by `INSTANCE ... WITH` at the end of their modules.

**Bounds.** Customers stand on a line, so distances are integers, symmetric and
satisfy the triangle inequality, as the Euclidean ones do. Times are integers: one
unit is the resolution of the data, `EPS5` = 1 makes "below the tolerance"
mean "zero", and the run `tolerance` takes a larger one on purpose.
* Four customers in up to four routes let every phase run, with two ejections at
  once, two infeasible routes, moves within a route and between two, an ejection
  of a customer other than `w` and a return to `delete_route` with a pool of
  several. With three no route becomes infeasible beside the first.
* `MaxP` caps `p[c]`, which the code increments without bound (`int64_t`): beyond
  the cap only the comparison of sums matters, and sums still differ. `Infinity`
  is more than any sum, for `INT64_MAX`.
* `MaxBeta` caps `beta`. The code multiplies by 0.99 or divides by it and clamps
  to [EPS5, 100]; the model steps by 1 between 1 and `MaxBeta`, in units where alpha is the
  start value. `sides` reaches the upper clamp, `give_up`,
  where demand is the obstacle, the lower one.
* `i_rand` is 1 or 2 rounds of a perturbation, 1000 in the code; each round is
  independent of the others.
* In `caches` two routes of up to four customers contain every relative position
  of the nodes of a modification; `MaxEjected` = 1 since INSERT and EJECT are the
  only operations on a customer outside, one at a time.
* In `ejection` four customers and `k_max` up to 3 make backtracking through
  several kept customers happen. `Stale` is what an earlier search may have left
  in the scratch times of the objects.

* In `neighbourhood_scan` the starts are late or overloaded routes, one beside an
  empty route, one that leaves a customer out, a single route that no move makes
  feasible, so that `squeeze` gives up, and one whose penalty is the tolerance, where a
  move that changes nothing ends the scan (see the remarks in section 5); the fiber meets pairs within a
  route and between routes, a copy that is used, replaced and unused, and an end by
  cancellation or by exhaustion. Three moves are as long a descent as these starts have.
* In `fibers`, three fibers give a caller with a callee that is a caller, and one
  beside them; two stacks for three fibers let memory run out; three errors make a
  chain whose middle is shared. Fibers are interchangeable, and so are errors
  (`SYMMETRY`).
* In `library`, `MaxHistory` = 10 assignments hold two or three operations under two
  nested savepoints. Widths are parameters of the code's algorithms: a byte of 2 bits,
  an iterator word of 2 bytes and 5 bytes leave a rest before and after whole words;
  half words of `Half` = 8 values and three additions reach every carry and both ends of
  both ranges; generator words of `W` = 3 bits contain every range, every mask and every
  seed (the shift amounts and constants are scaled with them, so nothing is said of
  the statistical quality of the 64-bit generator); samples of up to 4 show every draw.
* Three customers in SolutionObjects allow three routes, so that two remain for the
  moves between them after one was deleted; `MaxSolutions` = 3 is the depth of the
  nesting in the code. A failed `delete_route` ends the solver, as in the code.

**Deadlock** is checked except in `neighbourhood_scan`, where `squeeze` has returned
or the bound on the moves is reached, and in `library`, where the bounds end the lists.

**Fairness.** The program is one thread that never waits, so EamaSolver assumes
that the thread goes on while it has not returned, and that the processor time
advances (`WF_vars(ClockExpires)`); the first is written as `[]<>(pc = "done")
\/ []<><<expired' = expired>>_vars`, which is weak fairness of `Step` spelled out
(cheaper for TLC). There always is a deadline (`--t_max`, by default a
hundred years: the promise to return is a formal one then). `SqueezeEnds` does not use the clock, since `squeeze` does not look at
it. EjectionSearch assumes that the caller resumes the fiber until it is dead;
`insert_eject` does, in a loop. No fairness is assumed of a random choice.
The runs of the last three rows check safety only and assume none.

## 4. Proofs

Proved by TLAPS for every instance, initial solution and option that satisfies
the named assumptions. Of the minimiser these are `InstanceAssumption` (the instance
has the fields and types that `problem_decode` gives it; distances need not be
symmetric or satisfy the triangle inequality), `ProblemAssumption` (at least two
customers), `InitialAssumption` (initial solutions are complete and feasible),
`NearAssumption` and `OptionsAssumption`; of the search `InstancesAssumption` (its
arguments: an instance, a route of its customers that is not empty, costs `p[c]` that
are not negative)
and `StaleAssumption` (the scratch fields hold numbers); of the scan `ScanAssumption`
(`squeeze` starts from routes that hold no customer twice; the weights are positive); of the routes
`ProblemsAssumption` (instances) and `RoutesAssumption` (how many routes); of the lists
`ListsAssumption` (finitely many items, none of them a head). A theorem that needs more says
so in its own `ASSUME`:

* **RouteProofs**, first half - what the array operations do element by element
  (`InsertBeforeElements`, `RemoveIndexElements`, `SpliceElements`), that EJECT
  where an INSERT was made restores the routes (`EjectAfterInsert`), and that each
  applicable move leaves as many routes of customers as there were (`MoveRoutes`).
  Then the same operations as changes of *sets*: `Holds(rts, A)` says that the routes
  hold the customers `A`, each at one place. An insertion adds one, an ejection takes
  one, OUT_RELOCATE, EXCHANGE and TWO_OPT change nothing (`MoveHolds`).
  Second half: the values along a route are functions defined by recursion on
  an index. That such a function exists (`Recursion`, `RecursionDown`), and what it
  computes, follow by induction on the index (`UpTo`, `DownTo`), stated with a *set* of
  indexes, since the library's induction theorems take an operator and no
  installed prover can instantiate it; `LeastElement` is what it rests on. Then:
  the recursions step by step (`ArrivalsSteps`, `LatestStartsSteps`, `PrefixDemandSteps`,
  ...), what the route penalties being zero means (`ExactFeasibility`), what
  ejecting does to a route (`RestRemoves`, `RestAppend`), and the sums over an
  ejection (`PSumAdds`).
* **EamaSolverProofs**, first half - theorems `TypeCorrect`, `CopiesLive` and `RollBack`, from
  `Invariant`: the inductive invariant `IInv == TypeOK /\ Copies /\ InHandOK /\
  SearchOK`. None of the parts is inductive alone: taking `w` out after a try
  gives the copy back only because the solution is the copy with `w` inserted at
  the position tried (`SearchOK`), an insertion is typed only because a customer is
  in hand in exactly these phases (`InHandOK`), and `squeeze` restores a copy only
  because it is alive then (`Copies`).
  Theorem `Owned`: `Ownership` is an invariant. `HeldOnce` is first restated with
  `Holds` (`HeldOnceSets`): the routes hold what is neither in the pool nor in hand.
  Then each operation moves one customer between routes, pool and hand (`PoolToHand`,
  `HandToRoute`, `RouteToPool`, `EliminateHeldOnce`, `MoveHeldOnce`). The inductive
  invariant is `IInv /\ OwnInv`: `OwnInv` adds to `Ownership` that the pool is empty
  outside `delete_route`, without which the copy that is returned at the deadline
  would not be complete; `IInv` is needed for the roll-backs and for which customer
  is in hand.
* **FibersProofs** - theorems `YieldsAnswerCalls`, `HandlesStayCurrent`,
  `ListsStayExact` and, for programs that call `exit()` in the scheduler only,
  `RunningFibersSurvive`, from `FibersAssumption` and `DiagAssumption`: for any
  finite number of fibers, stacks and errors. The inductive invariant is `IInv ==
  CordTypeOK /\ StackOK /\ HandlesOK /\ ListsOK /\ SlabsOK`: every fiber on the
  stack of calls was called by the one below, which made it, and occurs there once
  (`StackOK`); a handle is of one fiber only, and can be of a dead one only
  while its holder runs and has not asked yet (`HandlesOK`). Each part needs the
  others: a fiber that is called is not on the stack already since otherwise two
  fibers would have a handle on it (`CalleeIsOffStack`), and a recycled fiber is
  in no handle since whoever runs has asked `fiber_is_dead` of all of its fibers, and
  those of the waiting fibers have a function (`PolledHandles`, `StartLifeOK`).
  `YieldPops` and `DeathOK` are what a yield and a return do to the stack.
  `ErrorsStayCounted`, `ChainsStaySound` and `FiberTypes` combine `IInv` with
  `DiagInv`: a fiber works on its own area while it runs, and what a return
  or the end of the cord destroys are areas (`NextDiagInv`).

  `DiagInv`, in the first half of the module, is about the errors, for any finite number of
  them and of areas. It says that the heap
  is `Sound` for what is `Held`: a count `held` of the references from areas and callers of
  `error_ref`, to which the heap adds one for the effect. `RefsExact` and `ChainsSound`
  follow but are not inductive as they stand. "No error is among its own causes" is
  replaced by `Acyclic`: no set of errors is closed under `cause`. It
  implies that a chain of causes comes back to no error (`ChainDistinct`), hence ends within
  as many steps as there are errors (`ChainEnds`), so that what `error_unref` destroys is
  exactly the errors that fall (`DestroyedFalling`) and everything else loses the references
  it lost (`UnrefSound`). And it is what `error_set_prev` has to keep: `UnreachedSearched`
  when it searches, `UnreachedTop` when it does not, since an error without effect is in
  nobody's chain. `error_set_prev` writes the effect of the new cause before it drops the old
  cause, so that in between the links are *not* inverse; `ReplaceCause` shows that the chain
  freed then is the one that would be freed with the old link cut first (`SameDestroyed`).
  Between the parts of an operation the invariant is kept by changing `held`: who cuts a link
  holds its reference (`CutSound`), who makes one gives it away (`LinkSound`). `diag_destroy`
  folds over a set of areas: `ClearsExists` and `DestroyOK` go by the number of areas.

* **EamaSolverProofs**, second half - what the penalties promise. `SqueezeLowers` and
  `MovesStayApplicable` need no more than `IInv`. For a tolerance of one unit
  (`EPS5 = 1`), `Feasibility` says that `FInv` is invariant: which solution is
  feasible in which phase (`WorkingFeasible`, `CopiesFeasible`), that no position was
  feasible when `squeeze` or `insert_eject` start (`NoRoomLeft`), what `squeeze` has listed
  (`InfeasiblesListed`), and what the best ejection found so far would do
  (`BestOK`, `EjectOK`). `PhasesFeasible`, `InfeasiblesStayExact`, `EjectionExists`
  and `Minimizes` follow: the last is the safety part of `MinimizesRoutes`, step by
  step. `FInv` needs `IInv` for the copies that are restored and `OwnInv` for
  the completeness of what is returned. `FeasibleBetweenPhases` alone is
  not inductive: after a roll-back the solution is feasible because the copy
  was, and after `eject` because the search said so several steps earlier.
  The hypothesis `EPS5 = 1` makes "below the tolerance" mean "zero". With a larger one
  `PhasesFeasible` is false, as finding 1 shows; the runs that check these properties
  have it too.
* **EjectionSearchProofs** - theorems `SearchTypes`, `SearchPartitions`, `SearchSums`,
  `SearchYields`, `SearchOrder` and, if every window opens before it ends,
  `SearchTests`: for every route, limit, cost and content of the scratch fields. The
  inductive invariant `SearchInv` says, while the search goes on, that for some
  `f` the nodes up to `f` are decided (`Cursor(f)`): `ne` and `e` share them
  out in increasing order and `s` holds the others, the times cached at those kept
  are the arrivals of the rest of the route, and the sums are those of `e`. `SumsExact`
  alone is not inductive, since after backtracking the times are read at nodes
  that were kept long before. `YieldsFeasible` needs no hypothesis on the windows:
  that the test accepts *only* feasible improvements holds without; that it accepts
  *all* of them does not: a node whose window ends before it opens fails the test,
  although it is not late when it is reached before the end.
  Then the refinement: `SearchImplementsBest` says that a search that ends does what
  `BestEjection` promises, if moreover no demand is negative. The invariant `BestInv`
  adds to `SearchInv` that every ejection before `e` in lexicographic order, and `e`
  itself once it was tested, is `Handled`: it is not one to report, or another one
  with fewer customers, no larger sum and feasible as well does `Instead`. By taking a
  smallest one, none is left when all are handled (`AllHandled`). What an increment
  skips is too expensive or too long (`LongerCosts`); what a backtrack skips is in the
  branch of `e` or behind it (`Beyond`, `PrecedesBacktracked`) and is handled by
  `BranchHandled`: under b) each ejection there keeps a customer that is late
  (`LatePruned`), and under c) the ejection without its first customers is the one
  instead (`PrefixPruned`: behind the kept customer the vehicle is on its original
  time, so those were ejected for nothing; `CapacityKept`, which needs the demands;
  `LateCovered`: it still takes out every late customer, so it is `Considered`).
  Both hypotheses are about the data: `problem_decode` does not test for them, the
  instance in `GehringHomberger1000/` satisfies them.
* **NeighbourhoodScanProofs** - theorems `CopyStaysSound`, `ScanYields` and `ScanApplies`,
  for every instance, routes, sets of near customers and order of the nodes. The inductive
  invariant is `IInv == RoutesOK /\ PlaceOK /\ CopyOK /\ MoveOK /\ YieldOK /\ BestOK`.
  `YieldsNeighbourhood` alone is not inductive: `YieldOK` says of every move of the
  neighbourhood that it was yielded or is `Pending`, that is, still before the generator
  in the nodes, in what the current one has to meet or in the types of the current pair,
  and not both (`SamePending`, `OnePending`); `PlaceOK` says that these lists hold
  what the neighbourhood consists of and nothing twice (`NeighbourhoodIs`,
  `CandidateOrder`, `TriedTypes`). `MoveOK` needs `CopyOK`: that taking a customer out of the copy
  and putting it back elsewhere adds the lateness which the move adds to the route, and that a move
  within a route changes no load, is `ChangeWithin` (`PreparedExact`). `BestOK` says that
  `opt` is the best of the moves seen, and what a cancelled scan has found; with
  `YieldOK` it gives `AppliesOptimalMove`.
* **RouteCachesProofs** - the objects and what they cache, for every instance and number
  of routes: theorems
  `PlacesStayExact` and `CachesStayExact`, from `AlwaysExact`: `Inv ==
  problem \in Problems /\ AllExact(routes, data)` is invariant. Its parts are the
  shape of the routes (depots of their own at both ends, no object twice, in one
  route or between two), that every object knows its place and no object thinks that
  it has one it does not have (`Knows`), and that the values along each route obey the
  recursions of `Penalty` (`Exact`). `CachesExact` alone is not inductive: an update
  reads `idx` and `route` of the object it starts at and the neighbours found there. Within
  a modification the values are right in part only: `Cached(r, d, f, b)` says that the
  prefixes are right up to `f` and the suffixes from `b` on. A refresh after an insertion,
  removal, exchange or TWO_OPT keeps what lies before and behind the change
  (`HeadLocal`, `TailLocal`), an update forward from at most `f` and one backward from at
  least `b` extend it to the whole route (`UpdateExact`), and no update touches the
  objects of another route. That is why the code may update from the place of the change.
  `CacheTypes`: the type, if time windows and demands are natural numbers. An index is
  bounded because a route holds no customer twice (`RouteLength`); a time clipped into a
  natural window is natural, whatever the distances (`ComputedNatural`). `TypeInv` adds to
  `Inv` what it says nothing about: that a customer in no route has the index -1 and
  the values of its last route, since every update writes along a route
  only (`Idle`, `UpdateElsewhere`).
  What those values are good for. `StepsApply`: on the ids of the
  objects every step is the modification of `Modification` at the nodes of its objects,
  by comparing the new routes index by index. `DeltasStayExact` and
  `ExchangesStayBounded`, under the hypothesis `OpenWindows`: no time window closes
  before it opens. By `LatenessMeets` the lateness of a route is the same counted
  at any of its nodes: lateness of the prefix, of the suffix, and what the arrival
  exceeds the latest start by. The new routes share prefix and suffix with the old ones, so
  the constant-time formula counts their lateness at the place of the change. For an
  exchange within a route: lateness only grows along a route (`LatenessGrows`), and stretches
  of the same nodes reached at the same time are late by the same (`StretchLateness`), so
  each partial sum the bound stops at is a lower bound, and it is the whole sum when the
  arrival behind the second customer is the old one or the two are neighbours.
  With a window that closes before it opens, arrivals and latest starts are clipped to
  different ends of it, and the two counts differ: both properties are false then, as TLC
  shows when a window of the instances of `caches` is turned around. `problem_decode`
  does not test for this; the instance in `GehringHomberger1000/` has no such window.
* **LibraryProofs** - `SumsStayExact96`, for every number of values of a half word and
  every number of additions below half of it. A number `Stands` for an integer when they
  agree modulo `Half` * `Full`; that is kept by additions and inversions, and since so
  few summands stay within half of the modulus on either side (`Int96Inv` bounds the sum by
  their number), what the number stands for is determined.
  `ObjectsStayExact`, for every number of customers, of routes and of objects, from
  `ObjectsInv == ObjectsTypes /\ ObjectsHeld /\ Emptied`. `ObjectsHeld` says the property
  solution by solution, so that it can be kept when one changes: each is `Sound` (its lists,
  depots only at the ends of routes, are apart from each other, and `id_to_customer` knows
  exactly what is in them), no two share an object or a route, and whatever is allocated
  is held by one. A copy `Joins` the others, where the invariant has to show that `malloc` finds
  room: a solution holds its customers and two depots for each of at most as many routes, so
  the memory for three solutions holds a third one beside two (`HeapFree`); this is where
  `MaxSolutions` must be at least 3, the depth of the phases. What lies in the slots behind
  the routes is of no account (`AlikeSound`),
  which is why `solution_move` may leave the one that elimination put there.
  `Emptied` is needed since elimination overwrites the pool: nothing may be
  in it, or in `w`, when no phase is active.
  `IteratorStaysExact`, for bytes, words and memories of every size. `BitsInv` says that the
  memory is the set of its ones whatever was rotated, swapped and stored (`Ones`, by where
  division with remainder puts a position: `Place`, `Turned`, `Swapped`), and that every
  position with the wanted value in the bytes that were read is found or still in the word,
  behind everything found (`FoundExact`); that the words not read yet are whole
  (`BytesExact`) is why the last one ends with the memory. What `bit_index` shifts and
  counts is followed round by round (`Indexed`).
* **ListsProofs** - `ListsRollBack`, the refinement `PersistentSpec => RollsBack`, for any
  heads and any finite number of items. A list of sequence `q` is a `Ring`: the links lead from
  the head over the items of `q` and back, in both directions. `WholeRing` and `RingList`
  say that this is what following the links finds (`ListOf`, a recursive function whose
  value is followed step by step), and that a ring is short enough for it. For each
  operation there are three layers: what the chain of assignments, each reading what the
  one before left, does to the links as a whole (`AddLinks`, `CutLinks`, ...); that the links
  then form the ring of the promised sequence (`WovenRing`, `SkippedRing`), and that lists it
  does not touch read as before (`OthersKept`), broken ones too; the abstract operation
  (`AddDone`, `MoveDone`, ...). The invariant `PersistentInv` has a `Past`: the links before
  each remembered assignment. Undoing one restores the links before it (`AssignUndone`), so
  `Undone` meets no failed assertion and gives the past links (`PastUndone`), whose lists
  are what was `saved`; an operation only extends the past (`Recalls`), a rollback cuts
  it off (`PastCut`). Savepoints are in the order of the history (`Marks`), so that none
  of those kept points behind what was cut off.

The inductive invariants, `Ownership` and the conjunct added to it were checked by TLC
before they were proved, as invariants of the runs `cluster`, `sides` and `give_up`
(`IInv`, `OwnInv`, `FInv`), `fibers` (`IInv` and `Sound` of what is `Held`), `ejection` (`SearchInv`
and that what the search has passed is `Handled`),
`caches` (`Inv` and `Idle`), `neighbourhood_scan` (`IInv`) and `library` (`ObjectsInv`).
`PersistentInv` was not: it claims that a past exists, which TLC would have to guess; of it the
run checks what it is for, `RollsBack`.

Only model-checked:
* liveness (`SqueezeEnds`, and the ends promised by `MinimizesRoutes` and
  `FindsBestConsidered`), since the prover has no rules for fairness; in
  `SearchImplementsBest` the end is a hypothesis;
* of the libraries `DrawsFair`, since Random uses `Bitwise`, which the prover's back-ends
  do not know.

## 5. Findings

1. `insert_feasible` compares a *change* with `EPS5` and `route_feasible` a
   *total*: insertions each within the tolerance add up, and
   `assert(solution_feasible(s))` (`eama_solver.c:50`) fails (run `tolerance`).
2. Without demand the lower bound is 0 and the last route is deleted: there is
   no position to insert at (run `unloaded`).
3. Condition c) by which the search prunes (`ejection.c:155`) hides some
   feasible ejections that would improve, against the header's description and the
   unit test (run `ejection_complete`). What is never hidden is
   `Ejection!Considered`, and it includes `w` alone, which is why
   `InsertEjectSucceeds` holds nevertheless.

4. `exit()` may be called while a fiber runs: `alloc_failure` behind the generator's
   allocations and `panic` call it. It destroys the thread's cord, which deletes every
   fiber, the running one and its stack included, against `assert(f != cord->fiber)`
   (`fiber.c:544`, run `exit_in_fiber`).

Remarks that are not disagreements with any stated intent, and are modelled as
they are: `perturb` draws from 1 .. n - 1, so the last customer is never moved by
it (and with one customer the range is empty, hence `ProblemAssumption`);
`p_best` is shared by all positions of `insert_eject`; the scan of `squeeze` stops
at the first move that takes away the route's penalty up to `EPS5`, which every move
that changes nothing does when the penalty is hardly more than `EPS5`: `squeeze` then fails
although another move might improve (`eama_solver.c:120` and `:128`).
`AppliesOptimalMove` says so, by the condition on the penalty in its second half; without it
the proof failed, and TLC finds the case from the start `<<<<2, 1>>, <<4, 3>>>>`.

## 6. Not modelled

* **Text in and out**: the command line, `problem_decode`, `solution_encode`, the
  parsing in `solution_decode` (its checks are `InitialAssumption`), logging. There is
  no state in them beyond what they return.
* **Floating point**: integers instead. The effect of tolerances is in the run
  `tolerance`; rounding in sums of distances is not modelled.
* **Contents of memory**: what is in a fiber's stack and region, the addresses of
  guard pages, alignment. Fibers has which stacks are held, given back or lost.
  SolutionObjects leaves out the tries of `insert_eject` that are taken back before
  anything is freed (`TriesRollBack` in EamaSolver is about them).
* **Errors' contents**: messages, locations, and the C++ classes in `exception.cc`, which
  only add a type to an error that Diag treats alike.
* **Random device**: opening it and falling back to `rand()`; `RealDraw` allows any
  word from it.
* **Code that nothing calls**: `distance.c` (disabled in `route_init_penalty`),
  `rlist_extra.h`, floating point loads in `bit.h`, `route_find_optimal_insertion` (tests
  only).
* **Vendored headers without control flow of the solver**: `rlist.h`, `say`,
  `reflection`, `memory`, `tt_static`, `trivia`, the `small` allocators, coro.
