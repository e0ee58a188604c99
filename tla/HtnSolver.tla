----------------------------- MODULE HtnSolver -----------------------------
(***************************************************************************)
(* htn-solver: the search for an HTN plan over an explicit queue of        *)
(* partial solutions, depth first or breadth first, limited by the number  *)
(* of decompositions, and pruned by comparison with the solutions in the   *)
(* queue and with those already extended.                                  *)
(***************************************************************************)
EXTENDS HtnSolution, SequencesExt

CONSTANTS CommandLines,  \* the command lines considered
          Horizon        \* bound: steps of work the properties look ahead

\* breadth_first, loop_detection, early_stop, random_order, max_decomps (-1 for
\* unlimited), keep_level
Options == [b : BOOLEAN, l : BOOLEAN, e : BOOLEAN, r : BOOLEAN,
            maxDecomps : Int, keepLevel : 0..100]

ASSUME CommandLineAssumption == CommandLines \subseteq Options /\ Horizon \in Nat

VARIABLES pc,
          opts,
          queue,    \* l_vQueue
          dead,     \* l_vDead, as a set
          current,  \* l_pCurrentSol, if any
          work,     \* the operator or the methods to apply, the one at work first
          untried,  \* its instances that are left
          answer    \* the solution printed, if any

vars == <<pc, opts, queue, dead, current, work, untried, answer>>

----------------------------------------------------------------------------
\* What GetInstantiations returns, in any order: at least one instance for each
\* binding of the relevant variables, and just one if there are none.
Listings(all, rel) ==
  {list \in SUBSET all : /\ \A s \in all : \E r \in list : SameOn(s, r, rel)
                         /\ rel = {} => Cardinality(list) <= 1}

\* The first operator of that name.
OperatorWork(task) ==
  LET o == SelectInSeq(Operators, LAMBDA op : op.name = task.name)
  IN  {IF o = 0 THEN <<>> ELSE <<[oper |-> TRUE, index |-> o]>>}

FreeRelVars(m) == RelevantVariables(m) \ Elems(m.params)

\* FindDecomps: the methods that have instances, or with early_stop the first.
Decomposable(task, state) ==
  LET all == {m \in 1..Len(Methods) : MethodInstances(Methods[m], task, state) # {}}
  IN  IF opts.e THEN {m \in all : \A k \in all : m <= k} ELSE all

\* ReorderDecomps: the methods with most preconditions first, or any order.
Ordered(order) ==
  opts.r \/ \A i, j \in 1..Len(order) :
    i < j => LET size(k) == Cardinality(Methods[order[k]].precs)
             IN  size(i) > size(j) \/ (size(i) = size(j) /\ order[i] < order[j])

MethodWork(task, state) ==
  {[k \in 1..Len(order) |-> [oper |-> FALSE, index |-> order[k]]] :
     order \in {s \in SetToSeqs(Decomposable(task, state)) : Ordered(s)}}

\* The instances of the operator or method at work.
InstanceLists(item) ==
  LET task == TopTask(current)
  IN  IF item.oper THEN Listings(OperatorInstances(Operators[item.index], task, current.state), {})
      ELSE Listings(MethodInstances(Methods[item.index], task, current.state),
                    FreeRelVars(Methods[item.index]))

\* HtnProblem::Equivalent, of solutions of the same problem.
Equivalent(s, t) == s.tasks = t.tasks /\ s.state = t.state

\* Slip: the decompositions used so far are not compared.
IsDuplicateWhateverUsed(sol) ==
  opts.l /\ \E s \in Elems(queue) \cup dead : Equivalent(s, sol)

\* The loop detection: nothing new can come of a solution if an equivalent one
\* got as far with no more decompositions.
IsDuplicate(sol) ==
  opts.l /\ \E s \in Elems(queue) \cup dead : Equivalent(s, sol) /\ s.numDecomps <= sol.numDecomps

Init ==
  /\ pc = "start" /\ opts \in CommandLines
  /\ queue = <<>> /\ dead = {} /\ current = FromProblem /\ work = <<>> /\ untried = {} /\ answer = <<>>

\* A problem without tasks is reported solved, and searched all the same.
Start ==
  /\ pc = "start"
  /\ pc' = "search" /\ queue' = <<FromProblem>>
  /\ answer' = IF IsComplete(FromProblem) THEN <<FromProblem>> ELSE answer
  /\ UNCHANGED <<opts, dead, current, work, untried>>

\* Slip: the queue is always read from the back.
TakeLast ==
  /\ pc = "search" /\ queue # <<>>
  /\ pc' = "seek" /\ current' = Last(queue) /\ queue' = Front(queue)
  /\ UNCHANGED <<opts, dead, work, untried, answer>>

Take ==
  /\ pc = "search" /\ queue # <<>>
  /\ pc' = "seek"
  /\ IF opts.b THEN current' = Head(queue) /\ queue' = Tail(queue)
               ELSE current' = Last(queue) /\ queue' = Front(queue)
  /\ UNCHANGED <<opts, dead, work, untried, answer>>

\* GetCTopTask throws if no task is left.
Seek ==
  /\ pc = "seek"
  /\ IF IsComplete(current) THEN pc' = "exception" /\ work' = work
     ELSE /\ pc' = "list"
          /\ work' \in IF TopTask(current).name \in Primitive
                       THEN OperatorWork(TopTask(current))
                       ELSE MethodWork(TopTask(current), current.state)
  /\ UNCHANGED <<opts, queue, dead, current, untried, answer>>

List ==
  /\ pc = "list" /\ work # <<>>
  /\ pc' = "extend" /\ untried' \in InstanceLists(work[1])
  /\ UNCHANGED <<opts, queue, dead, current, work, answer>>

\* What becomes of a new partial solution.
Judge(sol) ==
  IF IsComplete(sol) THEN pc' = "found" /\ answer' = <<sol>> /\ queue' = queue
  ELSE /\ queue' = IF (opts.maxDecomps >= 0 /\ sol.numDecomps >= opts.maxDecomps) \/ IsDuplicate(sol)
                   THEN queue ELSE Append(queue, sol)
       /\ UNCHANGED <<pc, answer>>

Applied(item, sub) ==
  IF item.oper THEN ApplyOperator(current, item.index, sub) ELSE ApplyMethod(current, item.index, sub)

Extend ==
  /\ pc = "extend"
  /\ \E sub \in untried : Judge(Applied(work[1], sub)) /\ untried' = untried \ {sub}
  /\ UNCHANGED <<opts, dead, current, work>>

\* Slip: the loop over the methods does not go on if nothing new came of one.
EndInstancesAgain ==
  /\ pc = "extend" /\ untried = {}
  /\ pc' = "list" /\ work' = IF queue = <<>> THEN work ELSE Tail(work)
  /\ UNCHANGED <<opts, queue, dead, current, untried, answer>>

EndInstances ==
  /\ pc = "extend" /\ untried = {}
  /\ pc' = "list" /\ work' = Tail(work)
  /\ UNCHANGED <<opts, queue, dead, current, untried, answer>>

\* Kept for the loop detection, if there is little enough in it.
IsKept(sol) ==
  opts.l /\ (opts.maxDecomps < 0 \/ 100 * sol.numDecomps <= opts.keepLevel * opts.maxDecomps)

EndExtension ==
  /\ pc = "list" /\ work = <<>>
  /\ pc' = "search" /\ dead' = IF IsKept(current) THEN dead \cup {current} ELSE dead
  /\ UNCHANGED <<opts, queue, current, work, untried, answer>>

GiveUp ==
  /\ pc = "search" /\ queue = <<>>
  /\ pc' = "no plans"
  /\ UNCHANGED <<opts, queue, dead, current, work, untried, answer>>

Next == Start \/ Take \/ Seek \/ List \/ Extend \/ EndInstances \/ EndExtension \/ GiveUp

Ends == {"found", "no plans", "exception"}

\* Weak fairness of Next, which is enabled until the program ends.
Fairness == []<>(pc \in Ends) \/ []<><<Next>>_vars

Spec == Init /\ [][Next]_vars /\ Fairness

----------------------------------------------------------------------------
(* Correctness                                                             *)

Explorable(s, max) == ~IsComplete(s) /\ (max < 0 \/ s.numDecomps < max)

\* Solutions that agree in state, agenda and number of decompositions are taken
\* together.
Brief(s) ==
  [state |-> s.state, tasks |-> s.tasks, parents |-> [k \in 1..Len(s.tasks) |-> 0],
   tree |-> <<>>, plan |-> <<>>, numDecomps |-> s.numDecomps]

\* What n steps of work lead to, when every solution before is within the limit.
Reached(max) ==
  LET reached[n \in Nat] ==
        IF n = 0 THEN {FromProblem}
        ELSE UNION {{Brief(t) : t \in Successors(s)} : s \in {x \in reached[n - 1] : Explorable(x, max)}}
  IN  reached

\* The numbers of steps of work that plans take.
StepsOfPlans ==
  [max \in {o.maxDecomps : o \in CommandLines} |->
     LET reached == Reached(max)
     IN  {n \in 0..Horizon : \E s \in reached[n] : IsComplete(s)}]

\* Without early_stop, and where the legal steps can be listed, the search gives
\* up only if there is no plan, although it drops duplicates, which came to the
\* same place with other work done.
NoPlanMissed == pc = "no plans" /\ ~opts.e /\ Listable => StepsOfPlans[opts.maxDecomps] = {}

\* There breadth-first search finds a plan with the fewest steps of work.
FewestSteps ==
  pc = "found" /\ opts.b /\ ~opts.e /\ Listable =>
    \A n \in StepsOfPlans[opts.maxDecomps] : n >= Len(answer[1].tree)

\* The search ends: with a limit, and without one by its loop detection.  Only
\* a problem without tasks ends it with an exception.
SearchEnds == <>(pc \in {"found", "no plans"} \/ (pc = "exception" /\ InitTasks = <<>>))
============================================================================
