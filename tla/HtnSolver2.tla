----------------------------- MODULE HtnSolver2 -----------------------------
(***************************************************************************)
(* htn-solver2: the depth-first search for an HTN plan and the upkeep of   *)
(* the methods' Q-values in the domain file.  The recursion of             *)
(* FindPlanOper and FindPlanMethod is a stack of activation records; one   *)
(* action is one step of a function: the call, the choice of the next      *)
(* method, the attempt of the next instance, the return.  One run of the   *)
(* program may follow another, with the domain file the last one left.     *)
(***************************************************************************)
EXTENDS HtnSolution, FiniteSetsExt

CONSTANTS CommandLines,     \* the command lines considered
          DeclaresQValues,  \* whether the domain file requires :q-values
          InitQ,            \* its Q-values: [count, total, prior] of each method
          MaxRuns           \* bound: how many times the program is run

(* A method's Q-value is the mean of the costs seen, total / count, kept    *)
(* exactly; one never updated has the value of the file, or 999999.         *)
MethodIndex == 1..Len(Methods)
QEntry      == [count : Nat, total : Nat, prior : Nat]
Unrated     == [count |-> 0, total |-> 0, prior |-> 999999]

\* use_qvalues, update_qvalues, random_selection and max_depth
Options == [q : BOOLEAN, u : BOOLEAN, r : BOOLEAN, maxDepth : Nat]

ASSUME SolverAssumption ==
  /\ CommandLines \subseteq Options /\ DeclaresQValues \in BOOLEAN /\ MaxRuns \in Nat
  /\ InitQ \in [MethodIndex -> QEntry]

VARIABLES phase,    \* where main is
          opts,     \* the command line of this run
          library,  \* HtnDomain::m_vMethods: the order of the methods
          qvalue,   \* their Q-values
          stack,    \* the activation records of FindPlanOper and FindPlanMethod
          answer,   \* the solution printed, if any
          returned, \* the nodes DoThisQValue has returned for
          cost,     \* its l_dCost for each node: what the children returned
          file,     \* the domain file: the order and Q-values it holds
          runs      \* how many runs have begun

vars == <<phase, opts, library, qvalue, stack, answer, returned, cost, file, runs>>
learning == <<qvalue, returned, cost>>

Phases  == {"load", "search", "found", "learn", "failed", "save", "done", "exception"}

\* l_vMethodIndices, the loop counter in it, the instances of the current
\* operator or method in the order the loop visits them, and how many were tried.
Frame == [sol : SolutionType, depth : Nat, entered : BOOLEAN,
          order : Seq(MethodIndex), i : Nat, insts : Seq(SubstitutionType), tried : Nat]

\* The permutations of 1..n.
Orders(n) == {p \in [1..n -> 1..n] : \A k \in 1..n : \E i \in 1..n : p[i] = k}

\* Slip: the loop that starts at a random instance does not wrap around.
ListingsToTheEnd(insts, rel) ==
  {l \in UNION {[1..k -> insts] : k \in 0..Cardinality(insts)} :
     /\ \A i, j \in DOMAIN l : SameOn(l[i], l[j], rel) => i = j
     /\ insts # {} => l # <<>>}

\* What a loop over instances visits.  GetInstantiations stops at the first one
\* once the relevant variables are bound, and RemoveIrrelevantBindings drops
\* the duplicates that are left: one is kept for each binding of those, and
\* which one, and in what order, depends on the order of the atoms in the state
\* and on the random instance FindPlanMethod's loop starts from.
Listings(insts, rel) ==
  {l \in UNION {[1..k -> insts] : k \in 0..Cardinality(insts)} :
     /\ \A i, j \in DOMAIN l : SameOn(l[i], l[j], rel) => i = j
     /\ \A s \in insts : \E i \in DOMAIN l : SameOn(l[i], s, rel)}

----------------------------------------------------------------------------
QLess(a, b) ==
  LET num(e) == IF e.count = 0 THEN e.prior ELSE e.total
      den(e) == IF e.count = 0 THEN 1 ELSE e.count
  IN  num(a) * den(b) < num(b) * den(a)

\* Slip: the comparison is turned around.
SortedByHighest(q, old, new) ==
  \E p \in Orders(Len(old)) :
    /\ new = [i \in 1..Len(old) |-> old[p[i]]]
    /\ \A i, j \in 1..Len(old) : i < j =>
         QLess(q[new[j]], q[new[i]]) \/ (~QLess(q[new[i]], q[new[j]]) /\ p[i] < p[j])

\* HtnDomain::SortMethods is a stable sort.
SortedBy(q, old, new) ==
  \E p \in Orders(Len(old)) :
    /\ new = [i \in 1..Len(old) |-> old[p[i]]]
    /\ \A i, j \in 1..Len(old) : i < j =>
         \/ QLess(q[new[i]], q[new[j]])
         \/ ~QLess(q[new[j]], q[new[i]]) /\ p[i] < p[j]

\* Slip: the count goes down.
UpdateQValueDown(e, c) == [e EXCEPT !.count = @ - 1, !.total = @ + c]

\* HtnMethod::UpdateQValue, the running mean of the costs.
UpdateQValue(e, c) == [e EXCEPT !.count = @ + 1, !.total = @ + c]

\* The first operator of that name, in a set that is empty if there is none.
FirstNamed(name) ==
  {o \in 1..Len(Operators) :
     /\ Operators[o].name = name
     /\ \A p \in 1..Len(Operators) : Operators[p].name = name => o <= p}

\* DoThisQValue charges a node to the first method with the node's id, again in
\* a set that is empty if there is none.
FirstWithId(id) ==
  {library[i] : i \in {k \in 1..Len(library) :
     /\ Methods[library[k]].id = id
     /\ \A j \in 1..Len(library) : Methods[library[j]].id = id => k <= j}}

----------------------------------------------------------------------------
Init ==
  /\ phase = "load" /\ opts \in CommandLines
  /\ file = [order |-> [i \in MethodIndex |-> i],
             q |-> IF DeclaresQValues THEN InitQ ELSE [m \in MethodIndex |-> Unrated]]
  /\ library = file.order /\ qvalue = file.q
  /\ stack = <<>> /\ answer = <<>> /\ returned = {} /\ cost = <<>> /\ runs = 1

\* The record FindPlan and the two functions it calls are entered with.
Call(sol, depth) ==
  [sol |-> sol, depth |-> depth, entered |-> FALSE,
   order |-> <<>>, i |-> 0, insts |-> <<>>, tried |-> 0]

\* main up to its call of FindPlan, and FindPlan itself.
Start ==
  /\ phase = "load"
  /\ IF opts.q THEN SortedBy(qvalue, library, library') ELSE library' = library
  /\ IF IsComplete(FromProblem)
       THEN phase' = "save" /\ answer' = <<FromProblem>> /\ stack' = stack
       ELSE phase' = "search" /\ answer' = answer /\ stack' = <<Call(FromProblem, 1)>>
  /\ UNCHANGED <<opts, learning, file, runs>>

Top == stack[Len(stack)]
WithTop(frame) == [stack EXCEPT ![Len(stack)] = frame]
Primitively(sol) == TopTask(sol).name \in Primitive

\* Slip: the failure of a call is taken for the failure of the search.
ReturnToMain ==
  /\ stack' = Popped(stack) /\ phase' = "failed"
  /\ UNCHANGED <<opts, library, learning, answer, file, runs>>

\* The caller goes on with its own loop; FindPlan's caller has its answer.
Return ==
  /\ stack' = Popped(stack)
  /\ phase' = IF Len(stack) = 1 THEN "failed" ELSE phase
  /\ UNCHANGED <<opts, library, learning, answer, file, runs>>

Searching == phase = "search" /\ stack # <<>>

DepthLimit == Searching /\ ~Top.entered /\ Top.depth > opts.maxDepth /\ Return

Enter(order, insts) ==
  /\ stack' = WithTop([Top EXCEPT !.entered = TRUE, !.order = order, !.insts = insts])
  /\ UNCHANGED <<phase, opts, library, learning, answer, file, runs>>

OperatorListings(task, state) ==
  IF FirstNamed(task.name) = {} THEN {<<>>}
  ELSE UNION {Listings(OperatorInstances(Operators[o], task, state), Elems(Operators[o].params)) :
                o \in FirstNamed(task.name)}

\* FindPlanOper: the instances of the first operator of the task's name.
EnterOperator ==
  /\ Searching /\ ~Top.entered /\ Top.depth <= opts.maxDepth
  /\ Primitively(Top.sol)
  /\ \E l \in OperatorListings(TopTask(Top.sol), Top.sol.state) : Enter(<<>>, l)

\* FindPlanMethod: the order in which the methods will be tried.
EnterMethod ==
  /\ Searching /\ ~Top.entered /\ Top.depth <= opts.maxDepth
  /\ ~Primitively(Top.sol)
  /\ \E p \in Orders(Len(library)) :
       /\ ~opts.r => \A i \in 1..Len(library) : p[i] = i
       /\ Enter([i \in 1..Len(library) |-> library[p[i]]], <<>>)

\* The loop over the methods moves on once the instances are exhausted.
NextMethod ==
  /\ Searching /\ Top.entered /\ Top.tried = Len(Top.insts) /\ Top.i < Len(Top.order)
  /\ LET m == Methods[Top.order[Top.i + 1]] IN
       \E l \in Listings(MethodInstances(m, TopTask(Top.sol), Top.sol.state), RelevantVariables(m)) :
         stack' = WithTop([Top EXCEPT !.i = @ + 1, !.insts = l, !.tried = 0])
  /\ UNCHANGED <<phase, opts, library, learning, answer, file, runs>>

\* Slip: the depth is passed on as it is.
PursueAtSameDepth(new) ==
  LET tried == WithTop([Top EXCEPT !.tried = @ + 1])
  IN  IF IsComplete(new)
        THEN phase' = "found" /\ answer' = <<new>> /\ stack' = tried
        ELSE /\ stack' = Append(tried, Call(new, Top.depth))
             /\ UNCHANGED <<phase, answer>>

\* Slip: the loop over the instances does not advance.
PursueAgain(new) ==
  IF IsComplete(new)
    THEN phase' = "found" /\ answer' = <<new>> /\ stack' = stack
    ELSE stack' = Append(stack, Call(new, Top.depth + 1)) /\ UNCHANGED <<phase, answer>>

\* The new partial solution is the answer if it is complete; otherwise the
\* search goes on from it.
Pursue(new) ==
  LET tried == WithTop([Top EXCEPT !.tried = @ + 1])
  IN  IF IsComplete(new)
        THEN phase' = "found" /\ answer' = <<new>> /\ stack' = tried
        ELSE /\ stack' = Append(tried, Call(new, Top.depth + 1))
             /\ UNCHANGED <<phase, answer>>

Throw == phase' = "exception" /\ UNCHANGED <<stack, answer>>

TryOperator ==
  /\ Searching /\ Top.entered /\ Top.tried < Len(Top.insts)
  /\ Primitively(Top.sol)
  /\ \E o \in FirstNamed(TopTask(Top.sol).name) :
       LET sub == Top.insts[Top.tried + 1]
       IN  IF OperatorRefused(Top.sol, o, sub) THEN Throw
           ELSE Pursue(ApplyOperator(Top.sol, o, sub))
  /\ UNCHANGED <<opts, library, learning, file, runs>>

TryMethod ==
  /\ Searching /\ Top.entered /\ Top.tried < Len(Top.insts)
  /\ ~Primitively(Top.sol)
  /\ LET m   == Top.order[Top.i]
         sub == Top.insts[Top.tried + 1]
     IN  IF MethodRefused(Top.sol, m, sub) THEN Throw
         ELSE Pursue(ApplyMethod(Top.sol, m, sub))
  /\ UNCHANGED <<opts, library, learning, file, runs>>

\* "Backtracking from depth ...": nothing is left to try.
Backtrack ==
  /\ Searching /\ Top.entered /\ Top.tried = Len(Top.insts) /\ Top.i = Len(Top.order)
  /\ Return

Plan == answer[1].tree

\* UpdateQValues, once the plan has been printed.
BeginLearning ==
  /\ phase = "found"
  /\ phase' = IF opts.u THEN "learn" ELSE "save"
  /\ cost' = [n \in 1..Len(Plan) |-> 0] /\ returned' = {}
  /\ UNCHANGED <<opts, library, qvalue, stack, answer, file, runs>>

\* Nodes are numbered from parent to child and from left to right, so the next
\* call of DoThisQValue to return is for the first node whose children's calls
\* all have.
Returns(n) ==
  /\ n \notin returned
  /\ \A k \in 1..Len(Plan) : Plan[k].parent = n => k \in returned

NextReturn(n) == Returns(n) /\ \A k \in 1..Len(Plan) : Returns(k) => n <= k

\* Slip: a node's cost is not added to its parent's when it is a decomposition.
ChargeActionsOnly(n, c) ==
  /\ cost' = IF Plan[n].parent = 0 \/ ~Plan[n].oper THEN cost
             ELSE [cost EXCEPT ![Plan[n].parent] = @ + c]
  /\ returned' = returned \cup {n}
  /\ qvalue' = [m \in MethodIndex |->
                  IF ~Plan[n].oper /\ m \in FirstWithId(Plan[n].id)
                    THEN UpdateQValue(qvalue[m], c) ELSE qvalue[m]]
  /\ phase' = phase

\* DoThisQValue's call for node n returns c to its caller, which adds it up.
Charge(n, c) ==
  /\ cost' = IF Plan[n].parent = 0 THEN cost ELSE [cost EXCEPT ![Plan[n].parent] = @ + c]
  /\ returned' = returned \cup {n}
  /\ qvalue' = [m \in MethodIndex |->
                  IF ~Plan[n].oper /\ m \in FirstWithId(Plan[n].id)
                    THEN UpdateQValue(qvalue[m], c) ELSE qvalue[m]]
  /\ phase' = phase

\* The calls under way when n's returns: for n and the nodes above it.
OpenCalls(n) == (1..n) \ returned

\* A call for a method's node without an id raises an exception at once, before
\* those for its children; one whose operator or method is not found raises it
\* in the end.  main stops there, before it writes the domain file.
LearnNode ==
  /\ phase = "learn"
  /\ \E n \in 1..Len(Plan) :
       /\ NextReturn(n)
       /\ IF \/ \E k \in OpenCalls(n) : ~Plan[k].oper /\ Plan[k].id = ""
             \/ IF Plan[n].oper THEN FirstNamed(Plan[n].task.name) = {}
                                ELSE FirstWithId(Plan[n].id) = {}
            THEN phase' = "exception" /\ UNCHANGED learning
            ELSE IF Plan[n].oper
              THEN \E o \in FirstNamed(Plan[n].task.name) : Charge(n, Operators[o].cost)
              ELSE Charge(n, cost[n])
  /\ UNCHANGED <<opts, library, stack, answer, file, runs>>

EndLearning ==
  /\ phase = "learn" /\ returned = 1..Len(Plan) /\ phase' = "save"
  /\ UNCHANGED <<opts, library, learning, stack, answer, file, runs>>

\* main prints "No legal plans."
ReportFailure ==
  /\ phase = "failed" /\ phase' = "save"
  /\ UNCHANGED <<opts, library, learning, stack, answer, file, runs>>

\* Slip: Q-values are written only by a run that also used them.
WriteDomainIfUsed ==
  /\ phase = "save" /\ phase' = "done"
  /\ file' = IF ~opts.u THEN file
             ELSE [order |-> library,
                   q |-> IF opts.q THEN qvalue ELSE [m \in MethodIndex |-> Unrated]]
  /\ UNCHANGED <<opts, library, learning, stack, answer, runs>>

\* The domain file is rewritten in the order of m_vMethods; HtnMethod::ToPddl
\* writes the Q-values only of a domain that requires :q-values.
WriteDomain ==
  /\ phase = "save" /\ phase' = "done"
  /\ file' = IF ~opts.u THEN file
             ELSE [order |-> library,
                   q |-> IF DeclaresQValues THEN qvalue ELSE [m \in MethodIndex |-> Unrated]]
  /\ UNCHANGED <<opts, library, learning, stack, answer, runs>>

\* Another run of the program, on the domain file as it is now.
RunAgain ==
  /\ phase \in {"done", "exception"} /\ runs < MaxRuns
  /\ runs' = runs + 1 /\ phase' = "load" /\ opts' \in CommandLines
  /\ library' = file.order /\ qvalue' = file.q
  /\ stack' = <<>> /\ answer' = <<>> /\ returned' = {} /\ cost' = <<>> /\ UNCHANGED file

Step == \/ Start \/ DepthLimit \/ EnterOperator \/ EnterMethod \/ NextMethod
        \/ TryOperator \/ TryMethod \/ Backtrack
        \/ BeginLearning \/ LearnNode \/ EndLearning \/ ReportFailure \/ WriteDomain

Next == Step \/ RunAgain

\* A run is one sequential process: it keeps taking steps until main returns.
Spec == Init /\ [][Next]_vars /\ WF_vars(Step)

----------------------------------------------------------------------------
(* Correctness                                                             *)

TypeOK ==
  /\ phase \in Phases /\ opts \in CommandLines
  /\ library \in Seq(MethodIndex) /\ qvalue \in [MethodIndex -> QEntry]
  /\ stack \in Seq(Frame) /\ answer \in Seq(SolutionType)
  /\ returned \in SUBSET Nat /\ cost \in Seq(Nat)
  /\ file \in [order : Seq(MethodIndex), q : [MethodIndex -> QEntry]]
  /\ runs \in Nat

\* The partial solutions the program holds.
Solutions == {stack[k].sol : k \in 1..Len(stack)} \cup Elems(answer)

\* The copy constructor never meets a task without its parent, AddChild never
\* attaches to an operator, and the counters agree with the forest.
SolutionsWellFormed == \A sol \in Solutions : WellFormed(sol)

\* The depth that is compared with --max_depth counts the operators and methods
\* applied so far, so no solution is ever built from more of them.
WorkWithinDepth ==
  /\ \A k \in 1..Len(stack) :
       /\ stack[k].depth = k /\ Len(stack[k].sol.tree) = k - 1
       /\ k - 1 <= opts.maxDepth
  /\ \A sol \in Elems(answer) : Len(sol.tree) <= opts.maxDepth

\* ApplyMethod pushes the subtasks back to front and ApplyOperator pops them:
\* across any backtracking, each decomposition is worked off in its order.
DecompositionsInOrder == \A sol \in Solutions : SubtasksAsDeclared(sol)

\* HtnSolution::Print re-executes the plan from m_pInitState; State::NextState
\* never throws there, and it arrives where the search did.
PlansReplay == \A sol \in Solutions : Replays(sol)

\* --use_qvalues: "use the applicable method with lowest Q-value".  While the
\* instances of one are tried, every applicable method with a lower value has
\* been tried and has failed.  (random_selection overrides the order.)
LowestQValueFirst ==
  phase = "search" /\ opts.q /\ ~opts.r =>
    \A k \in 1..Len(stack) : LET f == stack[k] IN
      f.insts # <<>> /\ ~Primitively(f.sol) =>
        \A m \in MethodIndex :
          /\ QLess(qvalue[m], qvalue[f.order[f.i]])
          /\ MethodInstances(Methods[m], TopTask(f.sol), f.sol.state) # {}
          => \E j \in 1..(f.i - 1) : f.order[j] = m

\* The nodes above each node of the forest.
Above(tree) ==
  LET above[k \in 1..Len(tree)] ==
        IF tree[k].parent = 0 THEN {} ELSE {tree[k].parent} \cup above[tree[k].parent]
  IN  above

\* f[1] + ... + f[n], and the sums before it.
Sums(f, n) ==
  LET sum[i \in 0..n] == IF i = 0 THEN 0 ELSE sum[i - 1] + f[i]
  IN  sum

Total(f, n) == Sums(f, n)[n]

\* What carrying out a node costs by itself.
CostOf(node) ==
  IF node.oper THEN Operators[CHOOSE o \in FirstNamed(node.task.name) : TRUE].cost ELSE 0

\* The cost of the actions below node n.
CostBelow(tree, n) ==
  Total([k \in 1..Len(tree) |-> IF n \in Above(tree)[k] THEN CostOf(tree[k]) ELSE 0], Len(tree))

\* The decompositions that method m made.
Uses(tree, m) == {n \in 1..Len(tree) : ~tree[n].oper /\ tree[n].id = Methods[m].id}

\* The observations of method m's cost that the nodes ns are.
CostOfUses(tree, m, ns) ==
  Total([n \in 1..Len(tree) |-> IF n \in Uses(tree, m) \cap ns THEN CostBelow(tree, n) ELSE 0], Len(tree))

\* DoThisQValue finds the method of a node by its id.
IdsTellMethods ==
  \A m1, m2 \in MethodIndex : Methods[m1].id = Methods[m2].id /\ Methods[m1].id # "" => m1 = m2

\* What each method has learned from the nodes ns of the plan is exactly one
\* observation per decomposition it made there, each the cost of the actions
\* below it, on top of what the domain file said.
Learned(tree, ns) ==
  \A m \in MethodIndex :
    /\ qvalue[m].count = file.q[m].count + Cardinality(Uses(tree, m) \cap ns)
    /\ qvalue[m].total = file.q[m].total + CostOfUses(tree, m, ns)

\* --update_qvalues: when the domain file is about to be written, the methods
\* have learned from all of the plan and from nothing else.
QValuesAccountForPlan ==
  phase = "save" /\ opts.u /\ IdsTellMethods =>
    IF answer = <<>> THEN qvalue = file.q ELSE Learned(Plan, 1..Len(Plan))

\* Over any series of runs the domain file keeps every method once, and the
\* observations of an earlier run are never lost.
LibraryKept ==
  /\ Len(file.order) = Len(Methods) /\ Elems(file.order) = MethodIndex
  /\ DeclaresQValues => \A m \in MethodIndex : file.q[m].count >= InitQ[m].count

HasIds(tree) == \A n \in 1..Len(tree) : tree[n].oper \/ tree[n].id # ""

\* The solver stops with an exception only over a method without an id after a
\* plan is printed; the instances it tries are never refused as inapplicable.
OnlyMissingIdsThrow ==
  phase = "exception" => opts.u /\ answer # <<>> /\ ~HasIds(Plan)

\* The partial solutions within n steps of work of the problem.
Within ==
  LET within[n \in Nat] ==
        IF n = 0 THEN {FromProblem}
        ELSE LET before == within[n - 1]
             IN  before \cup UNION {Successors(s) : s \in {x \in before : ~IsComplete(x)}}
  IN  within

\* "No legal plans." is never said while one exists within --max_depth steps,
\* whatever the order of methods, instances and random choices.
NoPlanMissed ==
  phase = "failed" /\ Listable => \A sol \in Within[opts.maxDepth] : ~IsComplete(sol)

\* The depth of a decomposition tree.
TreeDepth(sol) ==
  LET level[n \in 1..Len(sol.tree)] ==
        IF sol.tree[n].parent = 0 THEN 1 ELSE 1 + level[sol.tree[n].parent]
  IN  Max({0} \cup {level[n] : n \in 1..Len(sol.tree)})

\* What the help of --max_depth says (htn-solver2.cpp:70): "Only pursue
\* decomposition trees below this depth."  The search gives up only if no
\* solution has a decomposition tree below it.
MaxDepthIsTreeDepth ==
  phase = "failed" =>
    \A sol \in Within[2 * opts.maxDepth] : IsComplete(sol) => TreeDepth(sol) >= opts.maxDepth

\* Every run comes to an end: the depth bounds the recursion, and each loop
\* over methods and instances makes progress.
RunsEnd == phase = "load" ~> phase \in {"done", "exception"}

\* The solver implements the planner's promise: the path is the solutions of
\* the activation records, with the answer at its end.
Trail(s) == [k \in 1..Len(s) |-> s[k].sol]

Path == IF phase = "load" THEN <<FromProblem>> ELSE Trail(stack) \o answer

Verdict == IF answer # <<>> THEN "plan"
           ELSE IF phase \in {"save", "done"} THEN "none" ELSE "open"

Planning ==
  INSTANCE HtnPlanning WITH Problem <- FromProblem, Complete <- IsComplete,
                            path <- Path, verdict <- Verdict

KeepsPromise == Planning!Spec
=============================================================================
