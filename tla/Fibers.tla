-------------------------------- MODULE Fibers --------------------------------
(***************************************************************************)
(* The fibers of one cord (lib/core/fiber.c): control passes from caller   *)
(* to callee and back, a fiber whose function has returned waits in a      *)
(* cache for its next function or, with a custom stack, for its deletion.  *)
(* Every fiber has a diagnostics area, so that Areas is Fibers and Sched.  *)
(*                                                                         *)
(* The functions that run in fibers are arbitrary, up to what every user   *)
(* of fibers in this program does: it calls only fibers it has made, asks  *)
(* fiber_is_dead as soon as a call comes back (while (!fiber_is_dead(f))   *)
(* in eama_solver.c), and does not return before they are dead.            *)
(***************************************************************************)
EXTENDS Diag, SequencesExt

CONSTANTS
  Fibers,     \* addresses of struct fiber
  Sched,      \* &cord->sched
  NoFiber,    \* NULL
  Slabs,      \* how many stacks the slab cache can hand out
  ExitAnywhere \* whether the program may call exit() outside of the scheduler

ASSUME FibersAssumption ==
  /\ Sched \notin Fibers /\ NoFiber \notin Fibers \cup {Sched}
  /\ Areas = Fibers \cup {Sched}
  /\ Slabs \in Nat /\ ExitAnywhere \in BOOLEAN

VARIABLES
  fiber,    \* cord->fiber: the fiber that runs; NULL when there is no cord
  alive,    \* cord->alive
  dead,     \* cord->dead, first entry first
  garbage,  \* cord->garbage
  caller,   \* fiber.caller
  flags,    \* fiber.flags, as the set of the flags that are set
  func,     \* fibers with f # NULL
  leaked,   \* how many stacks are lost, their guard page being left protected
  handles,  \* fibers each fiber has got from fiber_new and still uses
  stale,    \* handles whose fiber has begun another life or is free memory
  asked,    \* fibers cancelled in their present life
  calls     \* fibers that wait for a call of theirs to come back, the latest last

fiberVars == <<caller, flags, func>>
cordVars == <<fiber, alive, dead, garbage, fiberVars, leaked, handles, stale, asked, calls>>
vars == <<cordVars, diagVars>>

FiberFlags == {"cancelled", "dead", "custom", "running"}
IsDead(f) == "dead" \in flags[f]
DeadFibers == {dead[i] : i \in DOMAIN dead}
Allocated == alive \cup DeadFibers
SlabsFree == Slabs - Cardinality(Allocated) - leaked
fiber_is_reusable(fl) == "custom" \notin fl

\* fiber_attr_setstacksize: the flags of attributes with this stack size.
AttrFlags(size) == IF size = "default" THEN {} ELSE {"custom"}

\* cord_create, on the first use of cord() in a thread (cord_on_demand.cc).
CordInit ==
  /\ fiber = Sched
  /\ alive = {} /\ dead = <<>> /\ garbage = NoFiber
  /\ caller = [x \in Areas |-> NoFiber]
  /\ flags = [x \in Areas |-> IF x = Sched THEN {"running"} ELSE {}]
  /\ func = {} /\ leaked = 0
  /\ handles = [x \in Areas |-> {}] /\ stale = {} /\ asked = {} /\ calls = <<>>

Init == CordInit /\ DiagInit

\* Nothing is done between a call's return and fiber_is_dead.
Polled == fiber # NoFiber /\ \A f \in handles[fiber] : ~IsDead(f)
-----------------------------------------------------------------------------
\* fiber_attr_new without memory, or fiber_attr_setstacksize of too small a stack.
AttrFailed == Polled /\ DiagSet(fiber) /\ UNCHANGED cordVars

(***************************************************************************)
(* fiber_new_ex.  A cached fiber, the one that died last, starts another   *)
(* life; otherwise memory, stack and guard page may each fail.             *)
(***************************************************************************)
\* Mutant: the flags of the previous life stay, apart from its death.
StartLifeKeepingFlags(f, attr) ==
  /\ flags' = [flags EXCEPT ![f] = (@ \ {"dead"}) \cup attr]
  /\ func' = func \cup {f}
  /\ asked' = asked \ {f}
  /\ stale' = stale \cup {h \in {f} : \E x \in Areas : h \in handles[x]}
  /\ handles' = [handles EXCEPT ![fiber] = @ \cup {f}]
  /\ UNCHANGED <<fiber, garbage, leaked, calls>>

StartLife(f, attr) ==
  /\ flags' = [flags EXCEPT ![f] = attr]
  /\ func' = func \cup {f}
  /\ asked' = asked \ {f}
  /\ stale' = stale \cup {h \in {f} : \E x \in Areas : h \in handles[x]}
  /\ handles' = [handles EXCEPT ![fiber] = @ \cup {f}]
  /\ UNCHANGED <<fiber, garbage, leaked, calls>>

NewRecycled(attr) ==
  /\ Polled /\ fiber_is_reusable(attr) /\ dead # <<>>
  /\ StartLife(Head(dead), attr)
  /\ dead' = Tail(dead) /\ alive' = alive \cup {Head(dead)}
  /\ UNCHANGED <<caller, diagVars>>

NewAllocated(attr) ==
  /\ Polled /\ ~(fiber_is_reusable(attr) /\ dead # <<>>)
  /\ SlabsFree > 0
  /\ \E f \in Fibers \ Allocated :
       /\ StartLife(f, attr)
       /\ alive' = alive \cup {f}
       /\ caller' = [caller EXCEPT ![f] = NoFiber]
       /\ UNCHANGED <<dead, diagVars>>

\* No memory, no stack, or no guard page; in the last case the stack may be lost.
NewFailed(attr) ==
  /\ Polled /\ ~(fiber_is_reusable(attr) /\ dead # <<>>)
  /\ DiagSet(fiber)
  /\ leaked' \in {leaked} \cup {l \in {leaked + 1} : SlabsFree > 0}
  /\ UNCHANGED <<fiber, alive, dead, garbage, caller, flags, func, handles, stale, asked,
                 calls>>
-----------------------------------------------------------------------------
\* fiber_start and fiber_call; what they assert is part of CallersLeadToSched.
FiberCall(f) ==
  /\ Polled /\ f \in handles[fiber]
  /\ caller' = [caller EXCEPT ![f] = fiber]
  /\ flags' = [flags EXCEPT ![fiber] = @ \ {"running"}, ![f] = @ \cup {"running"}]
  /\ fiber' = f /\ calls' = Append(calls, fiber)
  /\ UNCHANGED <<alive, dead, garbage, func, leaked, handles, stale, asked, diagVars>>

\* fiber_is_dead says yes: the caller is done with the fiber.
FiberIsDead(f) ==
  /\ fiber # NoFiber /\ f \in handles[fiber] /\ IsDead(f)
  /\ handles' = [handles EXCEPT ![fiber] = @ \ {f}]
  /\ UNCHANGED <<fiber, alive, dead, garbage, caller, flags, func, leaked, stale, asked,
                 calls, diagVars>>

FiberCancel(f) ==
  /\ Polled /\ f \in handles[fiber]
  /\ flags' = [flags EXCEPT ![f] = @ \cup {"cancelled"}]
  /\ asked' = asked \cup {f}
  /\ UNCHANGED <<fiber, alive, dead, garbage, caller, func, leaked, handles, stale,
                 calls, diagVars>>

\* Mutant: control goes back to the scheduler, not to the caller.
YieldToSched(fl) ==
  /\ caller' = [caller EXCEPT ![fiber] = Sched]
  /\ flags' = [flags EXCEPT ![fiber] = fl \ {"running"}, ![Sched] = @ \cup {"running"}]
  /\ fiber' = Sched /\ calls' = Front(calls)

\* fiber_yield_impl, for a fiber whose flags are fl by now.
Yield(fl) ==
  /\ caller' = [caller EXCEPT ![fiber] = Sched]
  /\ flags' = [flags EXCEPT ![fiber] = fl \ {"running"}, ![caller[fiber]] = @ \cup {"running"}]
  /\ fiber' = caller[fiber] /\ calls' = Front(calls)

FiberYield ==
  /\ Polled /\ fiber # Sched
  /\ Yield(flags[fiber])
  /\ UNCHANGED <<alive, dead, garbage, func, leaked, handles, stale, asked, diagVars>>
-----------------------------------------------------------------------------
(***************************************************************************)
(* fiber_destroy for each of fs, whose errors and stacks go; each stack    *)
(* whose guard page cannot be unprotected is leaked.                       *)
(***************************************************************************)
Lost(fs) == leaked' \in leaked .. leaked + Cardinality(fs)

\* cord_collect_garbage, as the set of the fibers it deletes.
Collected == {garbage} \ {NoFiber}

(***************************************************************************)
(* fiber_loop after the function has returned: its errors are cleared, the *)
(* fiber is dead and yields, for the last time if it has a custom stack.   *)
(***************************************************************************)
\* Mutant: a leftover error goes into the fiber's next life.
RecycleKeepingErrors ==
  /\ fiber_is_reusable(flags[fiber])
  /\ dead' = <<fiber>> \o dead /\ alive' = alive \ {fiber}
  /\ func' = func \ {fiber}
  /\ UNCHANGED <<garbage, leaked, stale, heap, last>>

Recycle ==
  /\ fiber_is_reusable(flags[fiber])
  /\ dead' = <<fiber>> \o dead /\ alive' = alive \ {fiber}
  /\ heap' = diag_clear(heap, fiber)
  /\ last' = [last EXCEPT ![fiber] = NoError]
  /\ func' = func \ {fiber}
  /\ UNCHANGED <<garbage, leaked, stale>>

\* Mutant: a fiber with a custom stack is deleted at once.
AddGarbageNow ==
  /\ ~fiber_is_reusable(flags[fiber])
  /\ alive' = alive \ {fiber}
  /\ heap' = diag_clear(heap, fiber)
  /\ last' = [last EXCEPT ![fiber] = NoError]
  /\ func' = func \ {fiber}
  /\ Lost({fiber})
  /\ UNCHANGED <<dead, garbage, stale>>

\* cord_add_garbage: the previous garbage is deleted, the running fiber cannot be.
AddGarbage ==
  /\ ~fiber_is_reusable(flags[fiber])
  /\ alive' = alive \ Collected
  /\ garbage' = fiber
  /\ heap' = diag_destroy(heap, Collected \cup {fiber})
  /\ last' = [d \in Areas |-> IF d \in Collected \cup {fiber} THEN NoError ELSE last[d]]
  /\ func' = func \ {fiber}
  /\ Lost(Collected)
  /\ stale' = stale \cup {f \in Collected : \E x \in Areas : f \in handles[x]}
  /\ UNCHANGED dead

FiberReturn ==
  /\ fiber \notin {NoFiber, Sched} /\ handles[fiber] = {}
  /\ Recycle \/ AddGarbage
  /\ Yield(flags[fiber] \cup {"dead"})
  /\ UNCHANGED <<handles, asked, reffed>>
-----------------------------------------------------------------------------
\* fiber_delete_all: the garbage, which is in alive, goes before the lists.
FiberDeleteAll ==
  /\ alive' = {} /\ dead' = <<>> /\ garbage' = NoFiber
  /\ caller' = [x \in Areas |-> NoFiber] /\ flags' = [x \in Areas |-> {}]
  /\ func' = {} /\ Lost(Allocated)

\* cord_destroy, which the destructor of the thread's cord calls at exit.
CordDestroy ==
  /\ fiber # NoFiber /\ (fiber = Sched \/ ExitAnywhere)
  /\ FiberDeleteAll
  /\ fiber' = NoFiber
  /\ heap' = diag_destroy(heap, Areas)
  /\ last' = [d \in Areas |-> NoError]
  /\ handles' = [x \in Areas |-> {}] /\ stale' = {} /\ asked' = {} /\ calls' = <<>>
  /\ UNCHANGED reffed

CordCreate ==
  /\ fiber = NoFiber
  /\ fiber' = Sched
  /\ flags' = [flags EXCEPT ![Sched] = {"running"}]
  /\ leaked' = 0
  /\ UNCHANGED <<alive, dead, garbage, caller, func, handles, stale, asked, calls,
                 diagVars>>

\* What the running function does with errors.
UseDiag == Polled /\ DiagNext(fiber) /\ UNCHANGED cordVars

Next ==
  \/ AttrFailed
  \/ \E size \in {"default", "other"} :
       LET attr == AttrFlags(size)
       IN  NewRecycled(attr) \/ NewAllocated(attr) \/ NewFailed(attr)
  \/ \E f \in Fibers : FiberCall(f) \/ FiberIsDead(f) \/ FiberCancel(f)
  \/ FiberYield \/ FiberReturn
  \/ CordDestroy \/ CordCreate
  \/ UseDiag

Spec == Init /\ [][Next]_vars
-----------------------------------------------------------------------------
TypeOK ==
  /\ DiagTypeOK
  /\ fiber \in Areas \cup {NoFiber}
  /\ alive \in SUBSET Fibers /\ dead \in Seq(Fibers)
  /\ garbage \in Fibers \cup {NoFiber}
  /\ caller \in [Areas -> Areas \cup {NoFiber}]
  /\ flags \in [Areas -> SUBSET FiberFlags]
  /\ func \in SUBSET Fibers /\ leaked \in 0 .. Slabs
  /\ handles \in [Areas -> SUBSET Fibers]
  /\ stale \in SUBSET Fibers /\ asked \in SUBSET Fibers /\ calls \in Seq(Areas)

\* The fibers that wait for a call of theirs to come back, with the running one on top.
Stack == Append(calls, fiber)
OnStack == {Stack[i] : i \in DOMAIN Stack}

(***************************************************************************)
(* Following caller from the running fiber leads through exactly the       *)
(* fibers that wait for a call of theirs to come back, the latest first    *)
(* and the scheduler last; no other fiber runs and none of them is dead,   *)
(* so that a yield resumes the call it answers.  A fiber that may be       *)
(* called is not one of them and has a function to run (the asserts of     *)
(* fiber_call_impl and fiber_yield_impl).                                  *)
(***************************************************************************)
CallersLeadToSched ==
  fiber # NoFiber =>
    /\ Stack[1] = Sched
    /\ \A i \in 1 .. Len(calls) :
         caller[Stack[i + 1]] = Stack[i] /\ Stack[i + 1] \in func /\ ~IsDead(Stack[i + 1])
    /\ {x \in Areas : "running" \in flags[x]} = {fiber}
    /\ Polled => handles[fiber] \subseteq func \ OnStack

(***************************************************************************)
(* Every fiber that was allocated is in one of the lists, which do not     *)
(* overlap; the cache holds dead fibers only, with no function and no      *)
(* error left, and the only dead fiber that is still in alive is the       *)
(* garbage, so that fiber_delete_all meets each fiber once.                *)
(***************************************************************************)
ListsExact ==
  /\ \A i, j \in DOMAIN dead : dead[i] = dead[j] => i = j
  /\ alive \cap DeadFibers = {}
  /\ {f \in Allocated : IsDead(f)} = DeadFibers \cup Collected
  /\ Collected \subseteq alive
  /\ func = {f \in Allocated : ~IsDead(f)}
  /\ \A f \in Fibers \ func : last[f] = NoError
  /\ SlabsFree >= 0

(***************************************************************************)
(* A fiber that is asked whether it is dead is still in the life it was    *)
(* made for, although dead fibers are reused; and it sees itself cancelled *)
(* exactly if it was cancelled in this life.                               *)
(***************************************************************************)
HandlesCurrent ==
  /\ stale = {}
  /\ \A f \in func : "cancelled" \in flags[f] <=> f \in asked

(***************************************************************************)
(* assert(f != cord->fiber) in fiber_destroy: the fiber that runs, or one  *)
(* that waits for a call to come back, is never deleted.                   *)
(***************************************************************************)
NeverDeletesItself ==
  [][OnStack \cap Allocated \subseteq Allocated']_vars
=============================================================================
