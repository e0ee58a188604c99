------------------------------- MODULE Strips -------------------------------
(***************************************************************************)
(* vanilla_ice, the breadth-first STRIPS planner, and verifier_strips,     *)
(* which is given the plan the planner printed.  The two share             *)
(* StripsSolution and agree only if printing a plan loses nothing that     *)
(* reading it needs.                                                       *)
(***************************************************************************)
EXTENDS HtnDomain, SequencesExt

CONSTANTS Problems,  \* a set of [opers, init, goals]: StripsDomain and StripsProblem
          Horizon    \* a number of steps that reaches every reachable state

ASSUME ProblemsAssumption ==
  \A p \in Problems :
    /\ p.opers \in Seq(OperatorType) /\ p.init \subseteq Atom /\ p.goals \subseteq Literal
    /\ \A i \in 1..Len(p.opers) :
         /\ DistinctParams(p.opers[i])
         /\ VariablesOf(p.opers[i].effects) \subseteq BoundVariables(p.opers[i])

ASSUME HorizonAssumption == Horizon \in Nat

VARIABLES problem,
          verbose,   \* the log level is at least 1
          pc,
          queue,     \* l_vQueue
          current,   \* l_pCurrentSol
          oper,      \* i, the operator whose instances are tried
          untried,   \* l_pSubs
          depth,     \* l_iCurDepth
          file,      \* the plan as it was printed: names and arguments
          sol,       \* verifier_strips: the plan as it was read
          executed   \* verifier_strips: the states that follow its actions

planner  == <<queue, current, oper, untried, depth>>
verifier == <<sol, executed>>
vars     == <<problem, verbose, pc, planner, file, verifier>>

----------------------------------------------------------------------------
(* StripsSolution: a sequence of actions [oper, sub] with follow states    *)

LastState(plan) == IF plan = <<>> THEN problem.init ELSE Last(plan).state

ApplyStripsOperator(plan, i, sub) ==
  Append(plan, [oper |-> i, sub |-> sub, state |-> NextState(problem.opers[i], sub, LastState(plan))])

ContainsState(plan, state) == state = problem.init \/ \E k \in 1..Len(plan) : plan[k].state = state

\* A formula that is not ground is not consistent, and NextState refuses it.
Applicable(o, sub, state) == BoundVariables(o) \subseteq DOMAIN sub /\ IsConsistent(o.precs, sub, state)

Achieved(state) == IsConsistent(problem.goals, <<>>, state)

\* GetInstantiations from the empty substitution.
Instances(o, state) ==
  {sub \in Grounding(o) :
     /\ \A v \in BoundVariables(o) \ BoundByEquality(o) : sub[v] \in ConstantsOf(state)
     /\ IsConsistent(o.precs, sub, state)}

\* It finds at least one for each choice of the parameters.
Listings(o, state) ==
  LET all == Instances(o, state)
  IN  {list \in SUBSET all : \A s \in all : \E r \in list : SameOn(s, r, Elems(o.params))}

\* Slip: every action is printed with the last substitution.
PrintedWithLast(plan) ==
  [k \in 1..Len(plan) |-> LET o == problem.opers[plan[k].oper]
                          IN  [name |-> o.name, args |-> AfterSubstitution(o.params, Last(plan).sub)]]

\* Only the name and the parameters of an action are printed.
Printed(plan) ==
  [k \in 1..Len(plan) |-> LET o == problem.opers[plan[k].oper]
                          IN  [name |-> o.name, args |-> AfterSubstitution(o.params, plan[k].sub)]]

----------------------------------------------------------------------------
(* vanilla_ice                                                             *)

Init ==
  /\ problem \in Problems /\ verbose \in BOOLEAN
  /\ pc = "start" /\ queue = <<>> /\ current = <<>> /\ oper = 0 /\ untried = {} /\ depth = 0
  /\ file = <<>> /\ sol = <<>> /\ executed = <<>>

Start ==
  /\ pc = "start"
  /\ IF Achieved(problem.init) THEN pc' = "read" /\ queue' = queue
     ELSE pc' = "search" /\ queue' = << <<>> >>
  /\ UNCHANGED <<problem, verbose, current, oper, untried, depth, file, verifier>>

\* Slip: the newest plan is extended first.
TakeNewest ==
  /\ pc = "search" /\ queue # <<>>
  /\ LET plan == Last(queue)
         deeper == verbose /\ Len(plan) > depth
     IN  /\ pc' = IF deeper /\ Len(plan) # depth + 1 THEN "aborted" ELSE "extend"
         /\ depth' = IF deeper THEN depth + 1 ELSE depth
         /\ current' = plan
  /\ queue' = Front(queue) /\ oper' = 0
  /\ UNCHANGED <<problem, verbose, untried, file, verifier>>

\* The assertion on the depth is there only when depths are reported.
TakeNext ==
  /\ pc = "search" /\ queue # <<>>
  /\ LET plan == Head(queue)
         deeper == verbose /\ Len(plan) > depth
     IN  /\ pc' = IF deeper /\ Len(plan) # depth + 1 THEN "aborted" ELSE "extend"
         /\ depth' = IF deeper THEN depth + 1 ELSE depth
         /\ current' = plan
  /\ queue' = Tail(queue) /\ oper' = 0
  /\ UNCHANGED <<problem, verbose, untried, file, verifier>>

NextOperator ==
  /\ pc = "extend" /\ untried = {} /\ oper < Len(problem.opers)
  /\ oper' = oper + 1
  /\ untried' \in Listings(problem.opers[oper + 1], LastState(current))
  /\ UNCHANGED <<problem, verbose, pc, queue, current, depth, file, verifier>>

\* What becomes of a plan that was just extended.
Judge(plan, repeats) ==
  IF Achieved(LastState(plan)) THEN pc' = "read" /\ file' = Printed(plan) /\ queue' = queue
  ELSE /\ queue' = IF repeats THEN queue ELSE Append(queue, plan)
       /\ UNCHANGED <<pc, file>>

\* Slip: a substitution that leads back to an earlier state is not erased.
TryAgain ==
  /\ pc = "extend"
  /\ \E s \in untried :
       LET new     == ApplyStripsOperator(current, oper, s)
           repeats == ContainsState(current, Last(new).state)
       IN  /\ untried' = IF repeats THEN untried ELSE untried \ {s}
           /\ Judge(new, repeats)
  /\ UNCHANGED <<problem, verbose, current, oper, depth, verifier>>

Try ==
  /\ pc = "extend"
  /\ \E s \in untried :
       LET new == ApplyStripsOperator(current, oper, s)
       IN  /\ untried' = untried \ {s}
           /\ Judge(new, ContainsState(current, Last(new).state))
  /\ UNCHANGED <<problem, verbose, current, oper, depth, verifier>>

EndExtension ==
  /\ pc = "extend" /\ untried = {} /\ oper = Len(problem.opers)
  /\ pc' = "search"
  /\ UNCHANGED <<problem, verbose, planner, file, verifier>>

GiveUp ==
  /\ pc = "search" /\ queue = <<>>
  /\ pc' = "no plans"
  /\ UNCHANGED <<problem, verbose, planner, file, verifier>>

----------------------------------------------------------------------------
(* verifier_strips                                                         *)

OperNamed(name) == SelectInSeq(problem.opers, LAMBDA o : o.name = name)

\* A line of the plan binds the parameters and nothing else.
ReadAction ==
  /\ pc = "read" /\ Len(sol) < Len(file)
  /\ LET line == file[Len(sol) + 1]
         i    == OperNamed(line.name)
         o    == problem.opers[i]
         sub  == [v \in Elems(o.params) |-> line.args[CHOOSE k \in 1..Len(o.params) : o.params[k] = v]]
     IN  IF Applicable(o, sub, LastState(sol))
         THEN sol' = ApplyStripsOperator(sol, i, sub) /\ pc' = pc
         ELSE sol' = sol /\ pc' = "invalid action"
  /\ UNCHANGED <<problem, verbose, planner, file, executed>>

ExecuteAction ==
  /\ pc = "read" /\ Len(sol) = Len(file) /\ Len(executed) < Len(sol)
  /\ LET action == sol[Len(executed) + 1]
         o      == problem.opers[action.oper]
         state  == IF executed = <<>> THEN problem.init ELSE Last(executed)
     IN  IF Applicable(o, action.sub, state)
         THEN executed' = Append(executed, NextState(o, action.sub, state)) /\ pc' = pc
         ELSE executed' = executed /\ pc' = "invalid action"
  /\ UNCHANGED <<problem, verbose, planner, file, sol>>

CheckGoals ==
  /\ pc = "read" /\ Len(executed) = Len(file)
  /\ pc' = IF Achieved(IF executed = <<>> THEN problem.init ELSE Last(executed))
           THEN "success" ELSE "goals not achieved"
  /\ UNCHANGED <<problem, verbose, planner, file, verifier>>

Next ==
  \/ Start \/ TakeNext \/ NextOperator \/ Try \/ EndExtension \/ GiveUp
  \/ ReadAction \/ ExecuteAction \/ CheckGoals

Spec == Init /\ [][Next]_vars /\ WF_vars(Next)

----------------------------------------------------------------------------
(* Correctness                                                             *)

\* The states one action leads to.
After(s) == UNION {{NextState(o, sub, s) : sub \in Instances(o, s)} : o \in Elems(problem.opers)}

\* The states that plans of at most n actions reach, whatever their variables.
Within ==
  LET reach[n \in Nat] ==
        IF n = 0 THEN {problem.init}
        ELSE LET before == reach[n - 1] IN before \cup UNION {After(s) : s \in before}
  IN  reach

\* The instance that is tried is as good as any other with its parameters.
EffectsOfParameters == \A o \in Elems(problem.opers) : VariablesOf(o.effects) \subseteq Elems(o.params)

\* An action is known by its name and parameters.
PlansAreReadable ==
  /\ \A o \in Elems(problem.opers) : VariablesOf(o.precs \cup o.effects) \subseteq Elems(o.params)
  /\ \A i, j \in 1..Len(problem.opers) : problem.opers[i].name = problem.opers[j].name => i = j

\* Every plan that vanilla_ice prints, and its claim that the empty plan is
\* correct, is confirmed by verifier_strips.
PlansConfirmed == PlansAreReadable => pc \notin {"invalid action", "goals not achieved"}

\* The plan printed has the fewest actions, although branches that come back to
\* a state of theirs are cut, and no plan is reported missing that exists.
ShortestPlan ==
  EffectsOfParameters =>
    /\ pc = "no plans" => \A s \in Within[Horizon] : ~Achieved(s)
    /\ file # <<>> => \A s \in Within[Len(file) - 1] : ~Achieved(s)

\* The search ends, for no plan goes through a state twice, and the assertion
\* on the depth of the queue does not stop it.
SearchEnds == <>(pc \in {"no plans", "success", "invalid action", "goals not achieved"})
=============================================================================
