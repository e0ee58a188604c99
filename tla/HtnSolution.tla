---------------------------- MODULE HtnSolution ----------------------------
(***************************************************************************)
(* Partial solutions (class HtnSolution): the current state, the agenda of *)
(* outstanding tasks with the tree node each one came from, the            *)
(* decomposition forest and the plan.  The agenda keeps the source's       *)
(* layout, next task at the back.  The forest is the sequence of its nodes *)
(* in the order they were created; a node names its parent by position,    *)
(* and 0 is the NULL parent of a top-level task.                           *)
(***************************************************************************)
EXTENDS HtnDomain

CONSTANTS InitState,  \* the atoms of the problem
          InitTasks   \* its task list, first task first

ASSUME ProblemAssumption ==
  InitState \in SUBSET Atom /\ InitTasks \in Seq(Task)

SubstitutionType == UNION {[vars -> Object] : vars \in SUBSET Variable}
\* An operator's node has no method's id.
NodeIds    == {""} \cup {Methods[m].id : m \in 1..Len(Methods)}
NodeType   == [task : Task, id : NodeIds, oper : BOOLEAN, parent : Nat]
ActionType == [oper : 1..Len(Operators), sub : SubstitutionType]

SolutionType ==
  [state : SUBSET Atom, tasks : Seq(Task), parents : Seq(Nat),
   tree : Seq(NodeType), plan : Seq(ActionType), numDecomps : Nat]

Backwards(s) == [i \in 1..Len(s) |-> s[Len(s) + 1 - i]]

FromProblem ==
  [state |-> InitState, tasks |-> Backwards(InitTasks),
   parents |-> [i \in 1..Len(InitTasks) |-> 0],
   tree |-> <<>>, plan |-> <<>>, numDecomps |-> 0]

IsComplete(sol) == sol.tasks = <<>>

TopTask(sol) == sol.tasks[Len(sol.tasks)]

Popped(s) == SubSeq(s, 1, Len(s) - 1)

HeadAfter(a, sub) == TaskAfter([name |-> a.name, args |-> a.params], sub)

\* The checks at the top of ApplyOperator and ApplyMethod that throw
\* E_OPER_NOT_APPLICABLE and E_METHOD_NOT_APPLICABLE.  The former compares
\* only the names of the operator and the task.
OperatorRefused(sol, o, sub) ==
  \/ Operators[o].name # TopTask(sol).name
  \/ ~IsConsistent(Operators[o].precs, sub, sol.state)

MethodRefused(sol, m, sub) ==
  \/ HeadAfter(Methods[m], sub) # TopTask(sol)
  \/ ~IsConsistent(Methods[m].precs, sub, sol.state)

\* Slip: the action goes to the front of the plan.
ApplyOperatorInFront(sol, o, sub) ==
  [state      |-> NextState(Operators[o], sub, sol.state),
   tasks      |-> Popped(sol.tasks),
   parents    |-> Popped(sol.parents),
   tree       |-> Append(sol.tree, [task |-> TopTask(sol), id |-> "", oper |-> TRUE,
                                    parent |-> sol.parents[Len(sol.parents)]]),
   plan       |-> <<[oper |-> o, sub |-> sub]>> \o sol.plan,
   numDecomps |-> sol.numDecomps]

ApplyOperator(sol, o, sub) ==
  [state      |-> NextState(Operators[o], sub, sol.state),
   tasks      |-> Popped(sol.tasks),
   parents    |-> Popped(sol.parents),
   tree       |-> Append(sol.tree, [task |-> TopTask(sol), id |-> "", oper |-> TRUE,
                                    parent |-> sol.parents[Len(sol.parents)]]),
   plan       |-> Append(sol.plan, [oper |-> o, sub |-> sub]),
   numDecomps |-> sol.numDecomps]

\* Slip: the first subtask is pushed first.
PushedTasksInOrder(m, sub) ==
  [i \in 1..Len(Methods[m].subtasks) |-> TaskAfter(Methods[m].subtasks[i], sub)]

\* The subtasks of an instance of method m, in the order of the agenda.
PushedTasks(m, sub) ==
  Backwards([i \in 1..Len(Methods[m].subtasks) |-> TaskAfter(Methods[m].subtasks[i], sub)])

\* Slip: the parent of the subtasks is the node before the new one.
ApplyMethodUnderLast(sol, m, sub) ==
  [state      |-> sol.state,
   tasks      |-> Popped(sol.tasks) \o PushedTasks(m, sub),
   parents    |-> Popped(sol.parents)
                    \o [i \in 1..Len(Methods[m].subtasks) |-> Len(sol.tree)],
   tree       |-> Append(sol.tree, [task |-> TopTask(sol), id |-> Methods[m].id, oper |-> FALSE,
                                    parent |-> sol.parents[Len(sol.parents)]]),
   plan       |-> sol.plan,
   numDecomps |-> sol.numDecomps + 1]

ApplyMethod(sol, m, sub) ==
  [state      |-> sol.state,
   tasks      |-> Popped(sol.tasks) \o PushedTasks(m, sub),
   parents    |-> Popped(sol.parents)
                    \o [i \in 1..Len(Methods[m].subtasks) |-> Len(sol.tree) + 1],
   tree       |-> Append(sol.tree, [task |-> TopTask(sol), id |-> Methods[m].id, oper |-> FALSE,
                                    parent |-> sol.parents[Len(sol.parents)]]),
   plan       |-> sol.plan,
   numDecomps |-> sol.numDecomps + 1]

----------------------------------------------------------------------------
(* Derivations: what it means for a partial solution to be legal           *)

LegalStep(a, sub, sol) ==
  /\ ~IsComplete(sol)
  /\ HeadAfter(a, sub) = TopTask(sol)
  /\ IsConsistent(a.precs, sub, sol.state)

\* One more step of work on s: its next task is carried out by an operator or
\* replaced by the subtasks of a method.
ByOperator(s, o) ==
  {ApplyOperator(s, o, sub) : sub \in {g \in Grounding(Operators[o]) : LegalStep(Operators[o], g, s)}}

ByMethod(s, m) ==
  {ApplyMethod(s, m, sub) : sub \in {g \in Grounding(Methods[m]) : LegalStep(Methods[m], g, s)}}

Successors(s) ==
  (UNION {ByOperator(s, o) : o \in 1..Len(Operators)})
    \cup (UNION {ByMethod(s, m) : m \in 1..Len(Methods)})

(***************************************************************************)
(* The domains all of whose legal steps a search can list: no two operators *)
(* have one name, the effects of an operator are of its parameters (its    *)
(* instances are listed up to the rest), and any other variable of a       *)
(* precondition is in an equality, or in an atom that must hold and so     *)
(* binds it to a constant of the state.                                    *)
(***************************************************************************)
BoundSafely(a) ==
  BoundVariables(a) \subseteq
    Elems(a.params) \cup BoundByEquality(a) \cup VariablesOf({l \in a.precs : l.pos /\ l.pred # "="})

Listable ==
  /\ \A o, p \in 1..Len(Operators) : Operators[o].name = Operators[p].name => o = p
  /\ \A o \in 1..Len(Operators) :
       BoundSafely(Operators[o]) /\ VariablesOf(Operators[o].effects) \subseteq Elems(Operators[o].params)
  /\ \A m \in 1..Len(Methods) : BoundSafely(Methods[m])

(***************************************************************************)
(* The shape of the agenda and the forest.  FindEquiv finds the parent of  *)
(* every outstanding task when a solution is copied (it throws otherwise), *)
(* no task is ever attached to an operator's node, the tasks of a later    *)
(* decomposition come off the agenda before those of an earlier one, and   *)
(* every node stands for one action or one decomposition.                  *)
(***************************************************************************)
WellFormed(sol) ==
  /\ Len(sol.parents) = Len(sol.tasks)
  /\ \A i \in 1..Len(sol.parents) :
       /\ sol.parents[i] <= Len(sol.tree)
       /\ sol.parents[i] # 0 => ~sol.tree[sol.parents[i]].oper
  /\ \A i, j \in 1..Len(sol.parents) : i <= j => sol.parents[i] <= sol.parents[j]
  /\ \A n \in 1..Len(sol.tree) :
       /\ sol.tree[n].parent < n
       /\ sol.tree[n].parent # 0 => ~sol.tree[sol.tree[n].parent].oper
  /\ Len(sol.tree) = Len(sol.plan) + sol.numDecomps

\* The work node n was given: what has been done of it, and what is outstanding.
Children(sol, n) == {k \in 1..Len(sol.tree) : sol.tree[k].parent = n}
Pending(sol, n)  == {i \in 1..Len(sol.tasks) : sol.parents[i] = n}

\* Node n was given these tasks and works them off in this order: its children
\* are the first of them, from left to right, and the others are on the agenda,
\* the next one nearest to its back.
GivenInOrder(sol, n, given) ==
  /\ Cardinality(Children(sol, n)) + Cardinality(Pending(sol, n)) = Len(given)
  /\ \A k \in Children(sol, n) :
       sol.tree[k].task = given[Cardinality({c \in Children(sol, n) : c <= k})]
  /\ \A i \in Pending(sol, n) :
       sol.tasks[i] = given[Len(given) + 1 - Cardinality({j \in Pending(sol, n) : j <= i})]

\* Every task's subtasks are those of one instance of a method with the node's
\* id, in the method's order, none skipped and none done before another.
SubtasksAsDeclared(sol) ==
  /\ GivenInOrder(sol, 0, InitTasks)
  /\ \A n \in 1..Len(sol.tree) : ~sol.tree[n].oper =>
       \E m \in 1..Len(Methods) : \E sub \in Grounding(Methods[m]) :
         /\ Methods[m].id = sol.tree[n].id
         /\ HeadAfter(Methods[m], sub) = sol.tree[n].task
         /\ GivenInOrder(sol, n, [k \in 1..Len(Methods[m].subtasks) |->
                                    TaskAfter(Methods[m].subtasks[k], sub)])

\* The states a sequence of actions leads through from the initial one.
StatesAlong(plan) ==
  LET state[k \in 0..Len(plan)] ==
        IF k = 0 THEN InitState
        ELSE NextState(Operators[plan[k].oper], plan[k].sub, state[k - 1])
  IN  state

\* Executing the plan from the initial state, each action in a state where its
\* preconditions hold, ends in the solution's state.
Replays(sol) ==
  LET state == StatesAlong(sol.plan)
  IN  /\ \A k \in 1..Len(sol.plan) :
           IsConsistent(Operators[sol.plan[k].oper].precs, sol.plan[k].sub, state[k - 1])
      /\ state[Len(sol.plan)] = sol.state
============================================================================
