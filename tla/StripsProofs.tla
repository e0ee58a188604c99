---------------------------- MODULE StripsProofs ----------------------------
(***************************************************************************)
(* Safety of vanilla_ice and verifier_strips for every set of problems:    *)
(* what the planner prints is confirmed, it is as short as a plan can be,  *)
(* and the assertion on the depth of the queue never fails.                *)
(***************************************************************************)
EXTENDS Strips, HtnDomainProofs, SequenceTheorems, TLAPS

----------------------------------------------------------------------------
(* Plans                                                                   *)

\* The actions of problem p, with the states that follow them.
StepType(p) ==
  [oper : 1..Len(p.opers), sub : UNION {Grounding(p.opers[i]) : i \in 1..Len(p.opers)}, state : SUBSET AnyAtom]

\* The state a plan is in after its first k actions.
StateAfter(p, plan, k) == IF k = 0 THEN p.init ELSE plan[k].state

\* Every action is applicable where it is, and leads to its follow state.
LegalPlans(p) ==
  {plan \in Seq(StepType(p)) :
     \A k \in 1..Len(plan) :
       /\ plan[k].sub \in Instances(p.opers[plan[k].oper], StateAfter(p, plan, k - 1))
       /\ plan[k].state = NextState(p.opers[plan[k].oper], plan[k].sub, StateAfter(p, plan, k - 1))}

LEMMA ProblemFacts ==
  ASSUME NEW p \in Problems
  PROVE  /\ p.opers \in Seq(OperatorType) /\ Len(p.opers) \in Nat /\ p.init \in SUBSET AnyAtom
         /\ \A i \in 1..Len(p.opers) :
              /\ p.opers[i] \in OperatorType /\ \A l \in p.opers[i].effects : l \in Literal
              /\ p.opers[i].params \in Seq(Variable) /\ BoundVariables(p.opers[i]) \in SUBSET Variable
              /\ p.opers[i] \in Elems(p.opers)
<1>1. p.opers \in Seq(OperatorType) /\ p.init \subseteq Atom
  BY ProblemsAssumption
<1>2. Atom \subseteq AnyAtom
  <2>1. Seq(Object) \subseteq Seq(Term)
    BY DEF Term
  <2> QED  BY <2>1 DEF Atom, AnyAtom
<1>3. ASSUME NEW i \in 1..Len(p.opers)
      PROVE  /\ p.opers[i] \in OperatorType /\ \A l \in p.opers[i].effects : l \in Literal
             /\ p.opers[i].params \in Seq(Variable) /\ BoundVariables(p.opers[i]) \in SUBSET Variable
             /\ p.opers[i] \in Elems(p.opers)
  <2>1. p.opers[i] \in OperatorType /\ p.opers[i] \in Elems(p.opers)
    BY <1>1, ElemsType
  <2>2. p.opers[i].params \in Seq(Variable) /\ \A l \in p.opers[i].effects : l \in Literal
    BY <2>1 DEF OperatorType
  <2>3. Elems(p.opers[i].params) \in SUBSET Variable
    BY <2>2, ElemsType
  <2>4. BoundVariables(p.opers[i]) \in SUBSET Variable
    BY <2>3, VariablesOfFormula DEF BoundVariables
  <2> QED  BY <2>1, <2>2, <2>4
<1> QED  BY <1>1, <1>2, <1>3

LEMMA StateAfterType ==
  ASSUME NEW p \in Problems, NEW plan \in LegalPlans(p), NEW k \in 0..Len(plan)
  PROVE  StateAfter(p, plan, k) \in SUBSET AnyAtom
<1>1. plan \in Seq(StepType(p)) /\ Len(plan) \in Nat
  BY DEF LegalPlans
<1>2. CASE k = 0
  BY <1>2, ProblemFacts DEF StateAfter
<1>3. CASE k # 0
  <2>1. plan[k] \in StepType(p)
    BY <1>1, <1>3
  <2> QED  BY <1>3, <2>1 DEF StepType, StateAfter
<1> QED  BY <1>2, <1>3

Extended(p, plan, i, sub) ==
  LET next == NextState(p.opers[i], sub, StateAfter(p, plan, Len(plan)))
  IN  Append(plan, [oper |-> i, sub |-> sub, state |-> next])

\* An applicable action makes a plan longer by one.
LEMMA LongerPlan ==
  ASSUME NEW p \in Problems, NEW plan \in LegalPlans(p), NEW i \in 1..Len(p.opers),
         NEW sub \in Instances(p.opers[i], StateAfter(p, plan, Len(plan))),
         NEW new, new = Extended(p, plan, i, sub)
  PROVE  /\ new \in LegalPlans(p) /\ Len(new) = Len(plan) + 1 /\ Len(plan) \in Nat
         /\ StateAfter(p, new, Len(new)) = NextState(p.opers[i], sub, StateAfter(p, plan, Len(plan)))
<1> DEFINE next == NextState(p.opers[i], sub, StateAfter(p, plan, Len(plan)))
<1> DEFINE step == [oper |-> i, sub |-> sub, state |-> next]
<1>1. plan \in Seq(StepType(p)) /\ Len(plan) \in Nat
  BY DEF LegalPlans
<1>2. sub \in Grounding(p.opers[i])
  BY DEF Instances
<1>3. next \in SUBSET AnyAtom
  <2>1. StateAfter(p, plan, Len(plan)) \in SUBSET AnyAtom
    BY <1>1, StateAfterType
  <2>2. sub \in [BoundVariables(p.opers[i]) -> Object]
    BY <1>2 DEF Grounding
  <2> QED  BY <2>1, <2>2, ProblemFacts, NextStateOfAtoms
<1>4. step \in StepType(p)
  BY <1>2, <1>3 DEF StepType
<1>5. step.oper = i /\ step.sub = sub /\ step.state = next
  OBVIOUS
<1>10. new = Append(plan, step)
  BY DEF Extended
<1> HIDE DEF step, next
<1>6. /\ new \in Seq(StepType(p)) /\ Len(new) = Len(plan) + 1 /\ new[Len(plan) + 1] = step
      /\ \A k \in 1..Len(plan) : new[k] = plan[k]
  BY <1>1, <1>4, <1>10, AppendProperties
<1>7. \A k \in 0..Len(plan) : StateAfter(p, new, k) = StateAfter(p, plan, k)
  BY <1>1, <1>6 DEF StateAfter
<1>8. ASSUME NEW k \in 1..Len(new)
      PROVE  /\ new[k].sub \in Instances(p.opers[new[k].oper], StateAfter(p, new, k - 1))
             /\ new[k].state = NextState(p.opers[new[k].oper], new[k].sub, StateAfter(p, new, k - 1))
  <2>1. k - 1 \in 0..Len(plan) /\ StateAfter(p, new, k - 1) = StateAfter(p, plan, k - 1)
    BY <1>1, <1>6, <1>7
  <2>2. CASE k = Len(plan) + 1
    <3>1. new[k] = step /\ k - 1 = Len(plan)
      BY <1>1, <1>6, <2>2
    <3> QED  BY <1>5, <2>1, <3>1 DEF next
  <2>3. CASE k # Len(plan) + 1
    <3>1. k \in 1..Len(plan) /\ new[k] = plan[k]
      BY <1>1, <1>6, <2>3
    <3> QED  BY <2>1, <3>1 DEF LegalPlans
  <2> QED  BY <2>2, <2>3
<1>9. StateAfter(p, new, Len(new)) = next
  BY <1>1, <1>5, <1>6 DEF StateAfter
<1> QED  BY <1>1, <1>6, <1>8, <1>9 DEF LegalPlans, next

LEMMA LastStateIs ==
  ASSUME NEW plan \in LegalPlans(problem)
  PROVE  LastState(plan) = StateAfter(problem, plan, Len(plan)) /\ Len(plan) \in Nat
<1>1. plan \in Seq(StepType(problem))
  BY DEF LegalPlans
<1> QED  BY <1>1 DEF LastState, StateAfter, Last

LEMMA NoActions ==
  ASSUME NEW p
  PROVE  <<>> \in LegalPlans(p) /\ Len(<<>>) = 0
<1> QED  BY DEF LegalPlans

----------------------------------------------------------------------------
(* The inductive invariant                                                 *)

Planning == {"start", "search", "extend", "no plans"}
Reading  == {"read", "success", "invalid action", "goals not achieved"}

\* While vanilla_ice plans: its queue holds legal plans in the order of their
\* lengths, which differ by one at most, none of which achieves the goals.
QueueOK ==
  /\ queue \in Seq(LegalPlans(problem)) /\ current \in LegalPlans(problem)
  /\ \A i \in 1..Len(queue) :
       /\ Len(current) <= Len(queue[i]) /\ Len(queue[i]) <= Len(current) + 1
       /\ ~Achieved(LastState(queue[i]))
  /\ \A i, j \in 1..Len(queue) : i <= j => Len(queue[i]) <= Len(queue[j])
  /\ verbose => depth = Len(current)

\* What is tried are instances of an operator of the problem.
UntriedOK ==
  IF pc = "extend"
    THEN /\ oper \in 0..Len(problem.opers)
         /\ IF oper = 0 THEN untried = {}
            ELSE untried \subseteq Instances(problem.opers[oper], LastState(current))
    ELSE untried = {}

\* verifier_strips has read the beginning of the plan that was printed, and
\* executed the beginning of that.
Follows(plan) ==
  /\ sol \in Seq(StepType(problem)) /\ Len(sol) <= Len(plan)
  /\ \A k \in 1..Len(sol) : sol[k] = plan[k]
  /\ executed \in Seq(SUBSET AnyAtom) /\ Len(executed) <= Len(sol)
  /\ \A k \in 1..Len(executed) : executed[k] = plan[k].state
  /\ pc \in {"read", "success"}

IInv ==
  /\ problem \in Problems /\ pc \in Planning \cup Reading
  /\ pc \in Planning => QueueOK /\ UntriedOK /\ file = <<>> /\ sol = <<>> /\ executed = <<>>
  /\ pc = "start" => queue = <<>> /\ current = <<>>
  /\ pc \in Reading =>
       \E plan \in LegalPlans(problem) :
         /\ Achieved(LastState(plan)) /\ file = Printed(plan)
         /\ PlansAreReadable => Follows(plan)

LEMMA Started ==
  ASSUME Init
  PROVE  IInv
<1>1. /\ problem \in Problems /\ pc = "start" /\ queue = <<>> /\ current = <<>> /\ untried = {} /\ depth = 0
      /\ file = <<>> /\ sol = <<>> /\ executed = <<>>
  BY DEF Init
<1>2. QueueOK
  <2>1. Len(queue) = 0 /\ Len(current) = 0 /\ queue \in Seq(LegalPlans(problem)) /\ current \in LegalPlans(problem)
    BY <1>1, NoActions
  <2> QED  BY <1>1, <2>1 DEF QueueOK
<1> QED  BY <1>1, <1>2 DEF IInv, Planning, Reading, UntriedOK

LEMMA StartKeeps ==
  ASSUME IInv, Start
  PROVE  IInv'
<1>1. /\ problem \in Problems /\ pc = "start" /\ QueueOK /\ untried = {} /\ file = <<>> /\ sol = <<>> /\ executed = <<>>
      /\ queue = <<>> /\ current = <<>>
  BY DEF IInv, Start, Planning, UntriedOK
<1>2. /\ problem' = problem /\ verbose' = verbose /\ current' = current /\ oper' = oper /\ untried' = untried
      /\ depth' = depth /\ file' = file /\ sol' = sol /\ executed' = executed
  BY DEF Start, verifier
<1>3. CASE Achieved(problem.init)
  <2>1. pc' = "read"
    BY <1>3 DEF Start
  <2>2. Printed(<<>>) = <<>> /\ LastState(<<>>) = problem.init
    BY DEF Printed, LastState
  <2>3. /\ <<>> \in LegalPlans(problem') /\ (Achieved(LastState(<<>>)))' /\ file' = Printed(<<>>)'
    BY <1>1, <1>2, <1>3, <2>2, NoActions DEF Achieved, LastState, Printed
  <2>4. Follows(<<>>)'
    BY <1>1, <1>2, <2>1, NoActions DEF Follows
  <2> QED  BY <1>1, <1>2, <2>1, <2>3, <2>4 DEF IInv, Planning, Reading
<1>4. CASE ~Achieved(problem.init)
  <2>1. pc' = "search" /\ queue' = << <<>> >>
    BY <1>4 DEF Start
  <2>2. Len(queue') = 1 /\ queue'[1] = <<>> /\ queue' \in Seq(LegalPlans(problem'))
    BY <2>1, NoActions
  <2>3. LastState(<<>>) = problem.init /\ Len(<<>>) = 0
    BY DEF LastState
  <2>4. (~Achieved(LastState(<<>>)))'
    BY <1>2, <1>4, <2>3 DEF Achieved, LastState
  <2>5. QueueOK'
    BY <1>1, <1>2, <2>2, <2>3, <2>4, NoActions DEF QueueOK
  <2> QED  BY <1>1, <1>2, <2>1, <2>5 DEF IInv, Planning, Reading, UntriedOK
<1> QED  BY <1>3, <1>4

\* The queue is in the order of the lengths, so the head is at most one longer
\* than the plan before it, and the assertion on the depth holds.
LEMMA TakeNextKeeps ==
  ASSUME IInv, TakeNext
  PROVE  IInv'
<1> DEFINE plan == Head(queue)
<1>1. /\ problem \in Problems /\ pc = "search" /\ QueueOK /\ untried = {}
      /\ file = <<>> /\ sol = <<>> /\ executed = <<>> /\ queue # <<>>
  BY DEF IInv, TakeNext, Planning, UntriedOK
<1>2. /\ problem' = problem /\ verbose' = verbose /\ untried' = untried /\ file' = file /\ sol' = sol
      /\ executed' = executed /\ queue' = Tail(queue) /\ oper' = 0 /\ current' = plan
  BY DEF TakeNext, verifier
<1>3. queue \in Seq(LegalPlans(problem)) /\ current \in LegalPlans(problem)
  BY <1>1 DEF QueueOK
<1>4. /\ Len(queue) \in Nat /\ Len(queue) > 0 /\ plan = queue[1] /\ plan \in LegalPlans(problem)
      /\ queue' \in Seq(LegalPlans(problem)) /\ Len(queue') = Len(queue) - 1
      /\ \A i \in 1..Len(queue') : queue'[i] = queue[i + 1] /\ i + 1 \in 1..Len(queue)
  BY <1>1, <1>2, <1>3, HeadTailProperties
<1>5. Len(plan) \in Nat /\ Len(current) \in Nat /\ \A i \in 1..Len(queue) : Len(queue[i]) \in Nat
  BY <1>3, <1>4, LastStateIs
<1> HIDE DEF plan
<1>6. Len(current) <= Len(plan) /\ Len(plan) <= Len(current) + 1
  BY <1>1, <1>4 DEF QueueOK
<1>7. pc' = "extend" /\ (verbose => depth' = Len(plan))
  <2>1. CASE verbose
    <3>1. depth = Len(current)
      BY <1>1, <2>1 DEF QueueOK
    <3>2. CASE Len(plan) > depth
      BY <1>5, <1>6, <2>1, <3>1, <3>2 DEF TakeNext, plan
    <3>3. CASE ~(Len(plan) > depth)
      BY <1>5, <1>6, <2>1, <3>1, <3>3 DEF TakeNext, plan
    <3> QED  BY <3>2, <3>3
  <2>2. CASE ~verbose
    BY <2>2 DEF TakeNext
  <2> QED  BY <2>1, <2>2
<1>8. ASSUME NEW i \in 1..Len(queue')
      PROVE  /\ Len(plan) <= Len(queue'[i]) /\ Len(queue'[i]) <= Len(plan) + 1
             /\ (~Achieved(LastState(queue[i])))'
  <2>1. queue'[i] = queue[i + 1] /\ i + 1 \in 1..Len(queue) /\ 1 \in 1..Len(queue) /\ 1 <= i + 1
    BY <1>4
  <2>2. Len(plan) <= Len(queue[i + 1]) /\ Len(queue[i + 1]) <= Len(current) + 1 /\ ~Achieved(LastState(queue[i + 1]))
    BY <1>1, <1>4, <2>1 DEF QueueOK
  <2>3. (~Achieved(LastState(queue[i])))'
    BY <1>2, <2>1, <2>2 DEF Achieved, LastState
  <2> QED  BY <1>5, <1>6, <2>1, <2>2, <2>3
<1>9. ASSUME NEW i \in 1..Len(queue'), NEW j \in 1..Len(queue'), i <= j
      PROVE  Len(queue'[i]) <= Len(queue'[j])
  <2>1. /\ queue'[i] = queue[i + 1] /\ i + 1 \in 1..Len(queue) /\ queue'[j] = queue[j + 1] /\ j + 1 \in 1..Len(queue)
        /\ i + 1 <= j + 1
    BY <1>4, <1>9
  <2> QED  BY <1>1, <2>1 DEF QueueOK
<1>10. QueueOK'
  BY <1>2, <1>4, <1>7, <1>8, <1>9 DEF QueueOK
<1>11. UntriedOK'
  <2>1. 0 \in 0..Len(problem.opers)
    BY <1>1, ProblemFacts
  <2> QED  BY <1>1, <1>2, <1>7, <2>1 DEF UntriedOK
<1> QED  BY <1>1, <1>2, <1>7, <1>10, <1>11 DEF IInv, Planning, Reading

LEMMA NextOperatorKeeps ==
  ASSUME IInv, NextOperator
  PROVE  IInv'
<1>1. /\ problem \in Problems /\ pc = "extend" /\ QueueOK /\ oper \in 0..Len(problem.opers)
      /\ file = <<>> /\ sol = <<>> /\ executed = <<>> /\ oper < Len(problem.opers)
  BY DEF IInv, NextOperator, Planning, UntriedOK
<1>2. /\ problem' = problem /\ verbose' = verbose /\ pc' = pc /\ queue' = queue /\ current' = current
      /\ depth' = depth /\ file' = file /\ sol' = sol /\ executed' = executed
      /\ oper' = oper + 1 /\ untried' \in Listings(problem.opers[oper + 1], LastState(current))
  BY DEF NextOperator, verifier
<1>3. QueueOK'
  BY <1>1, <1>2 DEF QueueOK, Achieved, LastState
<1>4. oper' \in 0..Len(problem.opers) /\ oper' # 0
  BY <1>1, <1>2, ProblemFacts
<1>5. untried' \subseteq Instances(problem.opers[oper'], LastState(current))
  BY <1>2 DEF Listings
<1>6. UntriedOK'
  BY <1>1, <1>2, <1>4, <1>5 DEF UntriedOK, LastState
<1> QED  BY <1>1, <1>2, <1>3, <1>6 DEF IInv, Planning, Reading

LEMMA TryKeeps ==
  ASSUME IInv, Try
  PROVE  IInv'
<1>1. /\ problem \in Problems /\ pc = "extend" /\ QueueOK /\ UntriedOK
      /\ file = <<>> /\ sol = <<>> /\ executed = <<>>
  BY DEF IInv, Try, Planning
<1>2. /\ problem' = problem /\ verbose' = verbose /\ current' = current /\ oper' = oper
      /\ depth' = depth /\ sol' = sol /\ executed' = executed
  BY DEF Try, verifier
<1>3. PICK s \in untried :
        /\ untried' = untried \ {s}
        /\ Judge(ApplyStripsOperator(current, oper, s), ContainsState(current, Last(ApplyStripsOperator(current, oper, s)).state))
  BY DEF Try
<1> DEFINE new == ApplyStripsOperator(current, oper, s)
<1>4. /\ oper \in 1..Len(problem.opers) /\ s \in Instances(problem.opers[oper], LastState(current))
      /\ untried \subseteq Instances(problem.opers[oper], LastState(current))
  BY <1>1, <1>3, ProblemFacts DEF UntriedOK
<1>5. queue \in Seq(LegalPlans(problem)) /\ current \in LegalPlans(problem)
  BY <1>1 DEF QueueOK
<1>6. new \in LegalPlans(problem) /\ Len(new) = Len(current) + 1 /\ Len(current) \in Nat
  <2>1. LastState(current) = StateAfter(problem, current, Len(current))
    BY <1>5, LastStateIs
  <2>2. new = Extended(problem, current, oper, s)
    BY <2>1 DEF ApplyStripsOperator, Extended
  <2>3. s \in Instances(problem.opers[oper], StateAfter(problem, current, Len(current)))
    BY <1>4, <2>1
  <2> HIDE DEF new
  <2> QED  BY <1>1, <1>4, <1>5, <2>2, <2>3, LongerPlan
<1> HIDE DEF new
<1>7. \/ Achieved(LastState(new)) /\ pc' = "read" /\ file' = Printed(new)
      \/ ~Achieved(LastState(new)) /\ pc' = pc /\ file' = file /\ queue' \in {queue, Append(queue, new)}
  BY <1>3 DEF Judge, new
<1>8. CASE Achieved(LastState(new)) /\ pc' = "read" /\ file' = Printed(new)
  <2>1. (Achieved(LastState(new)))' /\ file' = Printed(new)'
    BY <1>2, <1>8 DEF Achieved, LastState, Printed, new, ApplyStripsOperator
  <2>2. Follows(new)'
    <3>1. <<>> \in Seq(StepType(problem)) /\ <<>> \in Seq(SUBSET AnyAtom) /\ Len(<<>>) = 0
      OBVIOUS
    <3>2. new' = new
      BY <1>2 DEF new, ApplyStripsOperator, LastState
    <3> QED  BY <1>1, <1>2, <1>6, <1>8, <3>1, <3>2 DEF Follows
  <2>3. new' = new
    BY <1>2 DEF new, ApplyStripsOperator, LastState
  <2> QED  BY <1>1, <1>2, <1>6, <1>8, <2>1, <2>2, <2>3 DEF IInv, Planning, Reading
<1>9. CASE ~Achieved(LastState(new)) /\ pc' = pc /\ file' = file /\ queue' \in {queue, Append(queue, new)}
  <2>1. QueueOK'
    <3>1. CASE queue' = queue
      BY <1>1, <1>2, <3>1 DEF QueueOK, Achieved, LastState
    <3>2. CASE queue' = Append(queue, new)
      <4>1. /\ queue' \in Seq(LegalPlans(problem)) /\ Len(queue') = Len(queue) + 1 /\ queue'[Len(queue) + 1] = new
            /\ \A i \in 1..Len(queue) : queue'[i] = queue[i]
            /\ Len(queue) \in Nat
        BY <1>5, <1>6, <3>2, AppendProperties
      <4>2. \A i \in 1..Len(queue) : Len(queue[i]) \in Nat
        BY <1>5, LastStateIs
      <4>3. ASSUME NEW i \in 1..Len(queue')
            PROVE  /\ Len(current) <= Len(queue'[i]) /\ Len(queue'[i]) <= Len(current) + 1
                   /\ ~Achieved(LastState(queue'[i]))
        <5>1. CASE i = Len(queue) + 1
          BY <1>6, <1>9, <4>1, <5>1
        <5>2. CASE i # Len(queue) + 1
          <6>1. i \in 1..Len(queue) /\ queue'[i] = queue[i]
            BY <4>1, <5>2
          <6> QED  BY <1>1, <6>1 DEF QueueOK
        <5> QED  BY <5>1, <5>2
      <4>4. ASSUME NEW i \in 1..Len(queue'), NEW j \in 1..Len(queue'), i <= j
            PROVE  Len(queue'[i]) <= Len(queue'[j])
        <5>1. CASE j = Len(queue) + 1
          BY <1>6, <4>1, <4>3, <5>1
        <5>2. CASE j # Len(queue) + 1
          <6>1. i \in 1..Len(queue) /\ j \in 1..Len(queue) /\ queue'[i] = queue[i] /\ queue'[j] = queue[j]
            BY <4>1, <4>4, <5>2
          <6> QED  BY <1>1, <4>4, <6>1 DEF QueueOK
        <5> QED  BY <5>1, <5>2
      <4>5. \A i \in 1..Len(queue') : (~Achieved(LastState(queue[i])))'
        BY <1>2, <4>3 DEF Achieved, LastState
      <4>6. verbose' => depth' = Len(current')
        BY <1>1, <1>2 DEF QueueOK
      <4> QED  BY <1>2, <1>5, <4>1, <4>3, <4>4, <4>5, <4>6 DEF QueueOK
    <3> QED  BY <1>9, <3>1, <3>2
  <2>2. UntriedOK'
    BY <1>1, <1>2, <1>3, <1>4, <1>9 DEF UntriedOK, LastState
  <2> QED  BY <1>1, <1>2, <1>9, <2>1, <2>2 DEF IInv, Planning, Reading
<1> QED  BY <1>7, <1>8, <1>9

LEMMA EndExtensionKeeps ==
  ASSUME IInv, EndExtension
  PROVE  IInv'
<1>1. /\ problem \in Problems /\ pc = "extend" /\ QueueOK /\ untried = {} /\ pc' = "search"
      /\ file = <<>> /\ sol = <<>> /\ executed = <<>>
  BY DEF IInv, EndExtension, Planning
<1>2. /\ problem' = problem /\ verbose' = verbose /\ queue' = queue /\ current' = current /\ oper' = oper
      /\ untried' = untried /\ depth' = depth /\ file' = file /\ sol' = sol /\ executed' = executed
  BY DEF EndExtension, planner, verifier
<1>3. QueueOK'
  BY <1>1, <1>2 DEF QueueOK, Achieved, LastState
<1> QED  BY <1>1, <1>2, <1>3 DEF IInv, Planning, Reading, UntriedOK

LEMMA GiveUpKeeps ==
  ASSUME IInv, GiveUp
  PROVE  IInv'
<1>1. /\ problem \in Problems /\ pc = "search" /\ QueueOK /\ untried = {} /\ pc' = "no plans"
      /\ file = <<>> /\ sol = <<>> /\ executed = <<>>
  BY DEF IInv, GiveUp, Planning, UntriedOK
<1>2. /\ problem' = problem /\ verbose' = verbose /\ queue' = queue /\ current' = current /\ oper' = oper
      /\ untried' = untried /\ depth' = depth /\ file' = file /\ sol' = sol /\ executed' = executed
  BY DEF GiveUp, planner, verifier
<1>3. QueueOK'
  BY <1>1, <1>2 DEF QueueOK, Achieved, LastState
<1> QED  BY <1>1, <1>2, <1>3 DEF IInv, Planning, Reading, UntriedOK

----------------------------------------------------------------------------
(* What is printed can be read                                             *)

\* The name finds the operator.
LEMMA NamedByOne ==
  ASSUME NEW i \in 1..Len(problem.opers), PlansAreReadable, Len(problem.opers) \in Nat
  PROVE  OperNamed(problem.opers[i].name) = i
<1> DEFINE Same == {k \in 1..Len(problem.opers) : problem.opers[k].name = problem.opers[i].name}
<1>1. Same = {i}
  BY DEF PlansAreReadable
<1>2. OperNamed(problem.opers[i].name) = IF Same # {} THEN Min(Same) ELSE 0
  BY Zenon DEF OperNamed, SelectInSeq
<1> HIDE DEF Same
<1>3. Min(Same) = i
  BY <1>1 DEF Min
<1> QED  BY <1>1, <1>2, <1>3

BindingOf(o, line) == [v \in Elems(o.params) |-> line.args[CHOOSE k \in 1..Len(o.params) : o.params[k] = v]]

\* The arguments give the substitution back.
LEMMA ReadBack ==
  ASSUME problem \in Problems, PlansAreReadable, NEW plan \in LegalPlans(problem), NEW k \in 1..Len(plan),
         NEW o, o = problem.opers[plan[k].oper]
  PROVE  /\ OperNamed(Printed(plan)[k].name) = plan[k].oper /\ BoundVariables(o) \subseteq DOMAIN plan[k].sub
         /\ BindingOf(o, Printed(plan)[k]) = plan[k].sub
<1> DEFINE line == Printed(plan)[k]
<1>1. plan[k] \in StepType(problem) /\ plan[k].sub \in Instances(o, StateAfter(problem, plan, k - 1))
  BY DEF LegalPlans
<1>2. plan[k].oper \in 1..Len(problem.opers) /\ plan[k].sub \in [BoundVariables(o) -> Object]
  BY <1>1 DEF StepType, Instances, Grounding
<1>3. o \in OperatorType /\ o.params \in Seq(Variable) /\ o \in Elems(problem.opers) /\ Len(problem.opers) \in Nat
  BY <1>2, ProblemFacts
<1>4. BoundVariables(o) = Elems(o.params)
  <2>1. VariablesOf(o.precs \cup o.effects) \subseteq Elems(o.params)
    BY <1>3 DEF PlansAreReadable
  <2>2. VariablesOf(o.precs) \subseteq VariablesOf(o.precs \cup o.effects)
    BY DEF VariablesOf
  <2> QED  BY <2>1, <2>2 DEF BoundVariables
<1>5. line.name = o.name /\ line.args = AfterSubstitution(o.params, plan[k].sub)
  BY DEF Printed
<1>6. OperNamed(line.name) = plan[k].oper
  BY <1>2, <1>3, <1>5, NamedByOne
<1> HIDE DEF line
<1> DEFINE arg(v) == line.args[CHOOSE j \in 1..Len(o.params) : o.params[j] = v]
<1>7. ASSUME NEW v \in Elems(o.params)
      PROVE  arg(v) = plan[k].sub[v]
  <2> DEFINE j == CHOOSE j \in 1..Len(o.params) : o.params[j] = v
  <2>1. j \in 1..Len(o.params) /\ o.params[j] = v
    BY DEF Elems
  <2> HIDE DEF j
  <2>2. line.args[j] = Substituted(v, plan[k].sub)
    BY <1>5, <2>1 DEF AfterSubstitution
  <2>3. v \in DOMAIN plan[k].sub
    BY <1>2, <1>4
  <2>4. arg(v) = line.args[j]
    BY DEF j
  <2> QED  BY <2>2, <2>3, <2>4 DEF Substituted
<1> HIDE DEF arg
<1>8. [v \in Elems(o.params) |-> arg(v)] = plan[k].sub
  BY <1>2, <1>4, <1>7
<1>9. BindingOf(o, line) = plan[k].sub
  BY Zenon, <1>8 DEF arg, BindingOf
<1> QED  BY <1>2, <1>6, <1>9 DEF line

LEMMA ReadActionKeeps ==
  ASSUME IInv, ReadAction
  PROVE  IInv'
<1>1. problem \in Problems /\ pc = "read" /\ Len(sol) < Len(file)
  BY DEF IInv, ReadAction
<1>2. PICK plan \in LegalPlans(problem) :
        Achieved(LastState(plan)) /\ file = Printed(plan) /\ (PlansAreReadable => Follows(plan))
  BY <1>1 DEF IInv, Reading
<1>3. /\ problem' = problem /\ file' = file /\ executed' = executed /\ pc' \in {"read", "invalid action"}
  BY <1>1 DEF ReadAction, planner
<1>4. ASSUME PlansAreReadable
      PROVE  Follows(plan)'
  <2> DEFINE k    == Len(sol) + 1
             step == plan[k]
             o    == problem.opers[step.oper]
             line == file[k]
             sub  == BindingOf(o, line)
  <2>1. Follows(plan)
    BY <1>2, <1>4
  <2>2. sol \in Seq(StepType(problem)) /\ Len(sol) \in Nat /\ Len(file) = Len(plan) /\ Len(plan) \in Nat
    BY <1>2, <2>1, LastStateIs DEF Follows, Printed
  <2>3. k \in 1..Len(plan) /\ k - 1 = Len(sol)
    BY <1>1, <2>2
  <2>4. OperNamed(line.name) = step.oper /\ sub = step.sub /\ BoundVariables(o) \subseteq DOMAIN step.sub
    <3>1. problem \in Problems /\ plan \in LegalPlans(problem) /\ k \in 1..Len(plan) /\ line = Printed(plan)[k]
      BY <1>1, <1>2, <2>3
    <3> HIDE DEF k, line
    <3> QED  BY Zenon, <1>4, <3>1, ReadBack
  <2>5. LastState(sol) = StateAfter(problem, plan, k - 1)
    <3>1. CASE Len(sol) = 0
      <4>1. sol = <<>>
        BY <2>2, <3>1, EmptySeq
      <4> QED  BY <2>3, <3>1, <4>1 DEF LastState, StateAfter
    <3>2. CASE Len(sol) # 0
      <4>1. sol # <<>> /\ Len(sol) \in 1..Len(sol) /\ sol[Len(sol)] = plan[Len(sol)]
        BY <2>1, <2>2, <3>2 DEF Follows
      <4> QED  BY <2>3, <3>2, <4>1 DEF LastState, StateAfter, Last
    <3> QED  BY <3>1, <3>2
  <2>6. /\ step \in StepType(problem) /\ step.sub \in Instances(o, StateAfter(problem, plan, k - 1))
        /\ step.state = NextState(o, step.sub, StateAfter(problem, plan, k - 1))
    BY <2>3 DEF LegalPlans
  <2>7. Applicable(o, step.sub, LastState(sol))
    BY <2>4, <2>5, <2>6 DEF Applicable, Instances
  <2>8. step = [oper |-> step.oper, sub |-> step.sub, state |-> step.state]
    BY <2>6 DEF StepType
  <2> HIDE DEF k, sub, step, o, line
  <2>9. sol' = ApplyStripsOperator(sol, step.oper, step.sub) /\ pc' = pc
    <3> DEFINE i    == OperNamed(line.name)
               read == BindingOf(problem.opers[i], line)
    <3>1. IF Applicable(problem.opers[i], read, LastState(sol))
          THEN sol' = ApplyStripsOperator(sol, i, read) /\ pc' = pc
          ELSE sol' = sol /\ pc' = "invalid action"
      BY Zenon DEF ReadAction, BindingOf, k, line
    <3>2. i = step.oper
      BY <2>4
    <3> HIDE DEF i
    <3>3. read = sub
      BY <3>2 DEF sub, o
    <3> HIDE DEF read
    <3> QED  BY <2>4, <2>7, <3>1, <3>2, <3>3 DEF o
  <2>10. sol' = Append(sol, step)
    BY <2>5, <2>6, <2>8, <2>9 DEF ApplyStripsOperator, o
  <2>11. /\ sol' \in Seq(StepType(problem)) /\ Len(sol') = k /\ sol'[k] = plan[k]
         /\ \A j \in 1..Len(sol) : sol'[j] = sol[j]
    BY <2>2, <2>6, <2>10, AppendProperties DEF k, step
  <2>12. \A j \in 1..Len(sol') : sol'[j] = plan[j]
    BY <2>1, <2>2, <2>11 DEF Follows, k
  <2> QED  BY <1>1, <1>3, <2>1, <2>2, <2>3, <2>9, <2>11, <2>12 DEF Follows
<1>5. (Achieved(LastState(plan)))' /\ file' = Printed(plan)' /\ (PlansAreReadable' => PlansAreReadable)
  BY <1>2, <1>3 DEF Achieved, LastState, Printed, PlansAreReadable
<1> QED  BY <1>1, <1>2, <1>3, <1>4, <1>5 DEF IInv, Planning, Reading

LEMMA ExecuteActionKeeps ==
  ASSUME IInv, ExecuteAction
  PROVE  IInv'
<1>1. problem \in Problems /\ pc = "read" /\ Len(sol) = Len(file) /\ Len(executed) < Len(sol)
  BY DEF IInv, ExecuteAction
<1>2. PICK plan \in LegalPlans(problem) :
        Achieved(LastState(plan)) /\ file = Printed(plan) /\ (PlansAreReadable => Follows(plan))
  BY <1>1 DEF IInv, Reading
<1>3. /\ problem' = problem /\ file' = file /\ sol' = sol /\ pc' \in {"read", "invalid action"}
  BY <1>1 DEF ExecuteAction, planner
<1>4. ASSUME PlansAreReadable
      PROVE  Follows(plan)'
  <2> DEFINE k    == Len(executed) + 1
             step == plan[k]
             o    == problem.opers[step.oper]
             state == IF executed = <<>> THEN problem.init ELSE Last(executed)
  <2>1. Follows(plan)
    BY <1>2, <1>4
  <2>2. /\ executed \in Seq(SUBSET AnyAtom) /\ Len(executed) \in Nat /\ Len(plan) \in Nat /\ Len(sol) \in Nat
        /\ Len(sol) <= Len(plan)
    BY <1>2, <2>1, LastStateIs DEF Follows
  <2>3. k \in 1..Len(plan) /\ k - 1 = Len(executed) /\ k \in 1..Len(sol)
    BY <1>1, <2>2
  <2>4. sol[k] = step
    BY <2>1, <2>3 DEF Follows
  <2>5. state = StateAfter(problem, plan, k - 1)
    <3>1. CASE Len(executed) = 0
      <4>1. executed = <<>>
        BY <2>2, <3>1, EmptySeq
      <4> QED  BY <2>3, <3>1, <4>1 DEF StateAfter
    <3>2. CASE Len(executed) # 0
      <4>1. executed # <<>> /\ Len(executed) \in 1..Len(executed) /\ executed[Len(executed)] = plan[Len(executed)].state
        BY <2>1, <2>2, <3>2 DEF Follows
      <4> QED  BY <2>3, <3>2, <4>1 DEF StateAfter, Last
    <3> QED  BY <3>1, <3>2
  <2>6. /\ step \in StepType(problem) /\ step.sub \in Instances(o, StateAfter(problem, plan, k - 1))
        /\ step.state = NextState(o, step.sub, StateAfter(problem, plan, k - 1))
    BY <2>3 DEF LegalPlans
  <2>7. Applicable(o, step.sub, state)
    <3>1. BoundVariables(o) \subseteq DOMAIN step.sub
      BY <2>6 DEF Instances, Grounding
    <3> QED  BY <2>5, <2>6, <3>1 DEF Applicable, Instances
  <2> HIDE DEF k, step, o, state
  <2>8. executed' = Append(executed, step.state) /\ pc' = pc
    BY <2>4, <2>5, <2>6, <2>7 DEF ExecuteAction, k, o, state
  <2>9. step.state \in SUBSET AnyAtom
    BY <2>6 DEF StepType
  <2>10. /\ executed' \in Seq(SUBSET AnyAtom) /\ Len(executed') = k /\ executed'[k] = plan[k].state
         /\ \A j \in 1..Len(executed) : executed'[j] = executed[j]
    BY <2>2, <2>8, <2>9, AppendProperties DEF k, step
  <2>11. \A j \in 1..Len(executed') : executed'[j] = plan[j].state
    BY <2>1, <2>2, <2>10 DEF Follows, k
  <2> QED  BY <1>1, <1>3, <2>1, <2>2, <2>3, <2>8, <2>10, <2>11 DEF Follows
<1>5. (Achieved(LastState(plan)))' /\ file' = Printed(plan)' /\ (PlansAreReadable' => PlansAreReadable)
  BY <1>2, <1>3 DEF Achieved, LastState, Printed, PlansAreReadable
<1> QED  BY <1>1, <1>2, <1>3, <1>4, <1>5 DEF IInv, Planning, Reading

LEMMA CheckGoalsKeeps ==
  ASSUME IInv, CheckGoals
  PROVE  IInv'
<1>1. problem \in Problems /\ pc = "read" /\ Len(executed) = Len(file)
  BY DEF IInv, CheckGoals
<1>2. PICK plan \in LegalPlans(problem) :
        Achieved(LastState(plan)) /\ file = Printed(plan) /\ (PlansAreReadable => Follows(plan))
  BY <1>1 DEF IInv, Reading
<1>3. /\ problem' = problem /\ file' = file /\ sol' = sol /\ executed' = executed
      /\ pc' \in {"success", "goals not achieved"}
  BY <1>1 DEF CheckGoals, verifier
<1>4. ASSUME PlansAreReadable
      PROVE  Follows(plan)'
  <2>1. Follows(plan)
    BY <1>2, <1>4
  <2>2. executed \in Seq(SUBSET AnyAtom) /\ Len(executed) = Len(plan) /\ Len(plan) \in Nat
    BY <1>1, <1>2, <2>1, LastStateIs DEF Follows, Printed
  <2>3. (IF executed = <<>> THEN problem.init ELSE Last(executed)) = LastState(plan)
    <3>1. CASE executed = <<>>
      <4>1. Len(plan) = 0
        BY <2>2, <3>1
      <4> QED  BY <3>1, <4>1, LastStateIs DEF StateAfter
    <3>2. CASE executed # <<>>
      <4>1. Len(executed) # 0
        BY <2>2, <3>2, EmptySeq
      <4>2. Len(executed) \in 1..Len(executed) /\ executed[Len(executed)] = plan[Len(executed)].state
        BY <2>1, <2>2, <4>1 DEF Follows
      <4> QED  BY <2>2, <3>2, <4>1, <4>2, LastStateIs DEF StateAfter, Last
    <3> QED  BY <3>1, <3>2
  <2>4. pc' = "success"
    BY <1>2, <2>3 DEF CheckGoals
  <2> QED  BY <1>3, <2>1, <2>4 DEF Follows
<1>5. (Achieved(LastState(plan)))' /\ file' = Printed(plan)' /\ (PlansAreReadable' => PlansAreReadable)
  BY <1>2, <1>3 DEF Achieved, LastState, Printed, PlansAreReadable
<1> QED  BY <1>1, <1>2, <1>3, <1>4, <1>5 DEF IInv, Planning, Reading

LEMMA IdleKeeps ==
  ASSUME IInv, UNCHANGED vars
  PROVE  IInv'
<1>1. /\ problem' = problem /\ verbose' = verbose /\ pc' = pc /\ queue' = queue /\ current' = current
      /\ oper' = oper /\ untried' = untried /\ depth' = depth /\ file' = file /\ sol' = sol /\ executed' = executed
  BY DEF vars, planner, verifier
<1>2. QueueOK' <=> QueueOK
  BY <1>1 DEF QueueOK, Achieved, LastState
<1>3. UntriedOK' <=> UntriedOK
  BY <1>1 DEF UntriedOK, LastState
<1>4. PlansAreReadable' <=> PlansAreReadable
  BY <1>1 DEF PlansAreReadable
<1>5. ASSUME NEW plan
      PROVE  /\ Achieved(LastState(plan))' <=> Achieved(LastState(plan))
             /\ Printed(plan)' = Printed(plan) /\ (Follows(plan)' <=> Follows(plan))
  BY <1>1 DEF Achieved, LastState, Printed, Follows
<1> QED  BY <1>1, <1>2, <1>3, <1>4, <1>5 DEF IInv

LEMMA StepKeeps ==
  ASSUME IInv, [Next]_vars
  PROVE  IInv'
<1> QED  BY StartKeeps, TakeNextKeeps, NextOperatorKeeps, TryKeeps, EndExtensionKeeps, GiveUpKeeps, ReadActionKeeps,
            ExecuteActionKeeps, CheckGoalsKeeps, IdleKeeps DEF Next

\* The invariant of vanilla_ice and verifier_strips.
LEMMA Invariant == Spec => []IInv
<1>1. Init => IInv
  BY Started
<1>2. IInv /\ [Next]_vars => IInv'
  BY StepKeeps
<1> QED  BY <1>1, <1>2, PTL DEF Spec

\* verifier_strips confirms what vanilla_ice prints.
THEOREM PlansAreConfirmed == Spec => []PlansConfirmed
<1>1. IInv => PlansConfirmed
  BY DEF IInv, PlansConfirmed, Follows, Planning, Reading
<1> QED  BY <1>1, Invariant, PTL

\* The assertion on the depth in the main loop of vanilla_ice never fails.
THEOREM DepthGrowsByOne == Spec => [](pc # "aborted")
<1>1. IInv => pc # "aborted"
  BY DEF IInv, Planning, Reading
<1> QED  BY <1>1, Invariant, PTL

----------------------------------------------------------------------------
(* Ways to the goals                                                       *)

States == SUBSET AnyAtom

PlanSuccessors(p, s) == UNION {{NextState(o, sub, s) : sub \in Instances(o, s)} : o \in Elems(p.opers)}

\* The ways of n actions from a state to the goals of problem p.
Ways(p, s, n) ==
  {w \in [0..n -> States] :
     /\ w[0] = s /\ IsConsistent(p.goals, <<>>, w[n])
     /\ \A k \in 1..n : w[k] \in PlanSuccessors(p, w[k - 1])}

Near(p, s, n) == Ways(p, s, n) # {}

LEMMA PlanSuccessorFacts ==
  ASSUME NEW p \in Problems, NEW s \in States, NEW t \in PlanSuccessors(p, s)
  PROVE  /\ t \in States
         /\ \E i \in 1..Len(p.opers) : \E sub \in Instances(p.opers[i], s) : t = NextState(p.opers[i], sub, s)
<1>1. PICK i \in 1..Len(p.opers) : t \in {NextState(p.opers[i], sub, s) : sub \in Instances(p.opers[i], s)}
  BY DEF PlanSuccessors, Elems
<1>2. PICK sub \in Instances(p.opers[i], s) : t = NextState(p.opers[i], sub, s)
  BY <1>1
<1>3. sub \in [BoundVariables(p.opers[i]) -> Object]
  BY DEF Instances, Grounding
<1>4. t \in States
  BY <1>2, <1>3, ProblemFacts, NextStateOfAtoms DEF States
<1> QED  BY <1>2, <1>4

LEMMA NoWay ==
  ASSUME NEW p, NEW s \in States
  PROVE  Near(p, s, 0) <=> IsConsistent(p.goals, <<>>, s)
<1>1. ASSUME IsConsistent(p.goals, <<>>, s)
      PROVE  Near(p, s, 0)
  <2>1. [k \in 0..0 |-> s] \in Ways(p, s, 0)
    BY <1>1 DEF Ways
  <2> QED  BY <2>1 DEF Near
<1>2. ASSUME Near(p, s, 0)
      PROVE  IsConsistent(p.goals, <<>>, s)
  BY <1>2 DEF Near, Ways
<1> QED  BY <1>1, <1>2

LEMMA WayOn ==
  ASSUME NEW p, NEW s, NEW n \in Nat, Near(p, s, n + 1)
  PROVE  \E t \in PlanSuccessors(p, s) : Near(p, t, n)
<1>1. PICK w \in Ways(p, s, n + 1) : TRUE
  BY DEF Near
<1> DEFINE v == [k \in 0..n |-> w[k + 1]]
<1>2. /\ w \in [0..(n + 1) -> States] /\ w[0] = s /\ IsConsistent(p.goals, <<>>, w[n + 1])
      /\ \A k \in 1..(n + 1) : w[k] \in PlanSuccessors(p, w[k - 1])
  BY DEF Ways
<1>3. v \in [0..n -> States] /\ v[0] = w[1] /\ v[n] = w[n + 1] /\ \A k \in 0..n : v[k] = w[k + 1]
  BY <1>2
<1> HIDE DEF v
<1>4. ASSUME NEW k \in 1..n
      PROVE  v[k] \in PlanSuccessors(p, v[k - 1])
  <2>1. v[k] = w[k + 1] /\ v[k - 1] = w[k] /\ k + 1 \in 1..(n + 1) /\ (k + 1) - 1 = k
    BY <1>3
  <2>2. w[k + 1] \in PlanSuccessors(p, w[(k + 1) - 1])
    BY <1>2, <2>1
  <2> QED  BY <2>1, <2>2
<1>5. v \in Ways(p, w[1], n)
  BY <1>2, <1>3, <1>4 DEF Ways
<1>6. w[1] \in PlanSuccessors(p, s)
  <2>1. 1 \in 1..(n + 1) /\ 1 - 1 = 0
    OBVIOUS
  <2> QED  BY <1>2, <2>1
<1> QED  BY <1>5, <1>6 DEF Near

LEMMA WayBack ==
  ASSUME NEW p, NEW s \in States, NEW t \in PlanSuccessors(p, s), NEW n \in Nat, Near(p, t, n)
  PROVE  Near(p, s, n + 1)
<1>1. PICK w \in Ways(p, t, n) : TRUE
  BY DEF Near
<1> DEFINE v == [k \in 0..(n + 1) |-> IF k = 0 THEN s ELSE w[k - 1]]
<1>2. /\ w \in [0..n -> States] /\ w[0] = t /\ IsConsistent(p.goals, <<>>, w[n])
      /\ \A k \in 1..n : w[k] \in PlanSuccessors(p, w[k - 1])
  BY DEF Ways
<1>3. v \in [0..(n + 1) -> States] /\ v[0] = s /\ \A k \in 1..(n + 1) : v[k] = w[k - 1]
  BY <1>2
<1> HIDE DEF v
<1>4. ASSUME NEW k \in 1..(n + 1)
      PROVE  v[k] \in PlanSuccessors(p, v[k - 1])
  <2>1. CASE k = 1
    BY <1>2, <1>3, <2>1
  <2>2. CASE k # 1
    <3>1. k - 1 \in 1..n /\ v[k] = w[k - 1] /\ v[k - 1] = w[(k - 1) - 1]
      BY <1>3, <2>2
    <3>2. w[k - 1] \in PlanSuccessors(p, w[(k - 1) - 1])
      BY <1>2, <3>1
    <3> QED  BY <3>1, <3>2
  <2> QED  BY <2>1, <2>2
<1>5. v[n + 1] = w[n]
  BY <1>3
<1>6. v \in Ways(p, s, n + 1)
  BY <1>2, <1>3, <1>4, <1>5 DEF Ways
<1> QED  BY <1>6 DEF Near

\* A way from any state of a plan is one from the initial state.
LEMMA PlanIsWay ==
  ASSUME NEW p \in Problems, NEW plan \in LegalPlans(p), NEW k \in 0..Len(plan), NEW n \in Nat,
         Near(p, StateAfter(p, plan, k), n)
  PROVE  Near(p, p.init, n + k)
<1> DEFINE S == {j \in Nat : j <= Len(plan) =>
                   \A m \in Nat : Near(p, StateAfter(p, plan, j), m) => Near(p, p.init, m + j)}
<1>1. plan \in Seq(StepType(p)) /\ Len(plan) \in Nat
  BY DEF LegalPlans
<1>2. 0 \in S
  BY DEF StateAfter
<1>3. ASSUME NEW j \in Nat, j \in S
      PROVE  j + 1 \in S
  <2> SUFFICES ASSUME j + 1 <= Len(plan), NEW m \in Nat, Near(p, StateAfter(p, plan, j + 1), m)
               PROVE  Near(p, p.init, m + (j + 1))
    OBVIOUS
  <2> DEFINE here == StateAfter(p, plan, j)
             next == StateAfter(p, plan, j + 1)
  <2>1. j + 1 \in 1..Len(plan) /\ (j + 1) - 1 = j /\ j \in 0..Len(plan)
    BY <1>1
  <2>2. here \in States /\ next = plan[j + 1].state
    BY <2>1, StateAfterType DEF States, StateAfter
  <2>3. /\ plan[j + 1].sub \in Instances(p.opers[plan[j + 1].oper], here)
        /\ plan[j + 1].state = NextState(p.opers[plan[j + 1].oper], plan[j + 1].sub, here)
    BY <2>1 DEF LegalPlans
  <2>4. plan[j + 1].oper \in 1..Len(p.opers)
    <3>1. plan[j + 1] \in StepType(p)
      BY <1>1, <2>1
    <3> QED  BY <3>1 DEF StepType
  <2> HIDE DEF here, next
  <2>5. next \in PlanSuccessors(p, here)
    <3>1. p.opers[plan[j + 1].oper] \in Elems(p.opers)
      BY <2>4 DEF Elems
    <3> QED  BY <2>2, <2>3, <3>1 DEF PlanSuccessors
  <2>6. Near(p, here, m + 1)
    BY <2>2, <2>5, WayBack DEF next
  <2>7. Near(p, p.init, (m + 1) + j)
    BY <1>1, <1>3, <2>1, <2>6 DEF here
  <2>8. (m + 1) + j = m + (j + 1)
    OBVIOUS
  <2> QED  BY <2>7, <2>8
<1> HIDE DEF S
<1>4. k \in S
  BY <1>1, <1>2, <1>3, Induction
<1> QED  BY <1>1, <1>4 DEF S

\* What Within is, for it is defined by recursion.
LEMMA WithinFacts ==
  ASSUME problem \in Problems
  PROVE  /\ Within[0] = {problem.init}
         /\ \A n \in Nat :
              /\ \A s \in Within[n] : s \in States
              /\ Within[n + 1] = Within[n] \cup UNION {PlanSuccessors(problem, s) : s \in Within[n]}
<1> DEFINE T == SUBSET States
           start == {problem.init}
           more(S) == S \cup UNION {After(s) : s \in S}
           step == [q \in Nat \X T |-> more(q[2])]
           Body(f) == [n \in Nat |-> IF n = 0 THEN start ELSE more(f[n - 1])]
<1>1. start \in T
  BY ProblemFacts DEF States
<1>2. ASSUME NEW S \in T
      PROVE  more(S) \in T /\ more(S) = S \cup UNION {PlanSuccessors(problem, s) : s \in S}
  <2>1. \A s : After(s) = PlanSuccessors(problem, s)
    BY DEF After, PlanSuccessors
  <2>2. more(S) = S \cup UNION {PlanSuccessors(problem, s) : s \in S}
    BY <2>1
  <2> QED  BY <2>2, PlanSuccessorFacts
<1> HIDE DEF start, more
<1>3. step \in [Nat \X T -> T]
  <2> HIDE DEF T
  <2> QED  BY <1>2
<1>4. PICK f \in [Nat -> T] : f[0] = start /\ \A k \in Nat : f[k + 1] = step[<<k + 1, f[k]>>]
  <2> HIDE DEF T, step
  <2>1. EndlessIterations(T, start, step) # {}
    BY <1>1, <1>3, EndlessRecursion
  <2> QED  BY <2>1 DEF EndlessIterations
<1>5. ASSUME NEW k \in Nat
      PROVE  f[k + 1] = more(f[k])
  <2> HIDE DEF T
  <2>1. f[k + 1] = step[<<k + 1, f[k]>>] /\ f[k] \in T /\ k + 1 \in Nat
    <3> HIDE DEF step
    <3> QED  BY <1>4
  <2> QED  BY <2>1
<1>6. f = Body(f)
  <2> HIDE DEF T, step
  <2>1. \A n \in Nat : f[n] = IF n = 0 THEN start ELSE more(f[n - 1])
    <3> TAKE n \in Nat
    <3>1. CASE n = 0
      BY <1>4, <3>1
    <3>2. CASE n # 0
      <4>1. n - 1 \in Nat /\ n - 1 + 1 = n
        BY <3>2
      <4>2. f[n - 1 + 1] = more(f[n - 1])
        BY <1>5, <4>1
      <4> QED  BY <3>2, <4>1, <4>2
    <3> QED  BY <3>1, <3>2
  <2> QED  BY <1>4, <2>1
<1>7. Within = Body(Within)
  <2>1. Within = CHOOSE g : g = Body(g)
    BY Zenon DEF Within, start, more
  <2>2. \E g : g = Body(g)
    BY <1>6, Zenon
  <2> QED  BY <2>1, <2>2, Zenon
<1> DEFINE g == Within
<1> HIDE DEF g, T, step
<1>8. g[0] = start /\ \A n \in Nat : g[n + 1] = more(g[n])
  <2>1. g = Body(g)
    BY <1>7 DEF g
  <2>2. g[0] = start
    BY <2>1
  <2>3. ASSUME NEW n \in Nat
        PROVE  g[n + 1] = more(g[n])
    <3>1. n + 1 \in Nat /\ n + 1 # 0 /\ n + 1 - 1 = n
      OBVIOUS
    <3>2. g[n + 1] = Body(g)[n + 1]
      BY <2>1
    <3>3. Body(g)[n + 1] = more(g[n + 1 - 1])
      BY <3>1
    <3> QED  BY <3>1, <3>2, <3>3
  <2> QED  BY <2>2, <2>3
<1>9. \A n \in Nat : g[n] \in T
  <2> DEFINE S == {n \in Nat : g[n] \in T}
  <2>1. 0 \in S
    BY <1>1, <1>8
  <2>2. \A n \in Nat : n \in S => n + 1 \in S
    BY <1>2, <1>8
  <2> HIDE DEF S
  <2>3. Nat \subseteq S
    BY <2>1, <2>2, Induction
  <2> QED  BY <2>3 DEF S
<1>10. \A n \in Nat : g[n + 1] = g[n] \cup UNION {PlanSuccessors(problem, s) : s \in g[n]}
  BY <1>2, <1>8, <1>9
<1>11. \A n \in Nat : \A s \in g[n] : s \in States
  BY <1>9 DEF T
<1> QED  BY <1>8, <1>10, <1>11 DEF g, start

\* A state that n actions reach is on a way from the initial state.
LEMMA WithinIsNear ==
  ASSUME problem \in Problems, NEW n \in Nat, NEW s \in Within[n], Achieved(s)
  PROVE  \E k \in 0..n : Near(problem, problem.init, k)
<1> DEFINE S == {m \in Nat : \A x \in Within[m] : \A j \in Nat :
                   Near(problem, x, j) => \E k \in 0..m : Near(problem, problem.init, k + j)}
<1>1. 0 \in S
  <2> SUFFICES ASSUME NEW x \in Within[0], NEW j \in Nat, Near(problem, x, j)
               PROVE  \E k \in 0..0 : Near(problem, problem.init, k + j)
    OBVIOUS
  <2>1. x = problem.init /\ 0 + j = j
    BY WithinFacts
  <2> QED  BY <2>1
<1>2. ASSUME NEW m \in Nat, m \in S
      PROVE  m + 1 \in S
  <2> SUFFICES ASSUME NEW x \in Within[m + 1], NEW j \in Nat, Near(problem, x, j)
               PROVE  \E k \in 0..(m + 1) : Near(problem, problem.init, k + j)
    OBVIOUS
  <2>1. CASE x \in Within[m]
    <3>1. PICK k \in 0..m : Near(problem, problem.init, k + j)
      BY <1>2, <2>1
    <3> QED  BY <3>1
  <2>2. CASE x \notin Within[m]
    <3>1. PICK b \in Within[m] : x \in PlanSuccessors(problem, b)
      BY <2>2, WithinFacts
    <3>2. Near(problem, b, j + 1)
      BY <3>1, WithinFacts, WayBack
    <3>3. PICK k \in 0..m : Near(problem, problem.init, k + (j + 1))
      BY <1>2, <3>2
    <3>4. k + 1 \in 0..(m + 1) /\ k + (j + 1) = (k + 1) + j
      OBVIOUS
    <3>5. Near(problem, problem.init, (k + 1) + j)
      BY <3>3, <3>4
    <3> QED  BY <3>4, <3>5
  <2> QED  BY <2>1, <2>2
<1> HIDE DEF S
<1>3. n \in S
  BY <1>1, <1>2, Induction
<1>4. Near(problem, s, 0)
  BY WithinFacts, NoWay DEF Achieved
<1>5. \E k \in 0..n : Near(problem, problem.init, k + 0)
  BY <1>3, <1>4 DEF S
<1> QED  BY <1>5

----------------------------------------------------------------------------
(* No shorter plan is passed over                                          *)

FromStart(n) == Near(problem, problem.init, n)

\* The fewest actions a plan can have.
Fewest(n) == FromStart(n) /\ \A m \in Nat : FromStart(m) => n <= m

\* A plan that can be continued to one of n actions.
Leads(plan, n) == Len(plan) <= n /\ Near(problem, LastState(plan), n - Len(plan))

\* A state that an action not yet tried leads to.
StillTried(t) ==
  \/ \E s \in untried : t = NextState(problem.opers[oper], s, LastState(current))
  \/ \E i \in (oper + 1)..Len(problem.opers) : \E s \in Instances(problem.opers[i], LastState(current)) :
       t = NextState(problem.opers[i], s, LastState(current))

\* A plan of n actions is still to be found.
Open(n) ==
  \/ \E i \in 1..Len(queue) : Leads(queue[i], n)
  \/ /\ pc = "extend" /\ Len(current) + 1 <= n
     /\ \E t : StillTried(t) /\ Near(problem, t, n - (Len(current) + 1))

\* The search has not passed over the shortest plans.
NonePassed ==
  EffectsOfParameters =>
    /\ pc \in {"search", "extend"} => \A n \in Nat : Fewest(n) => Open(n)
    /\ pc = "no plans" => \A n \in Nat : ~FromStart(n)
    /\ pc \in Reading => \A n \in Nat : n < Len(file) => ~FromStart(n)

\* There is a least number of actions when there is any.
LEMMA FewestExists ==
  ASSUME NEW n \in Nat, FromStart(n)
  PROVE  \E m \in Nat : Fewest(m) /\ m <= n
<1> DEFINE S == {m \in Nat : FromStart(m)}
<1>1. S # {} /\ S \subseteq Nat
  OBVIOUS
<1>2. PICK m \in S : \A k \in S : m <= k
  BY <1>1, Least
<1> QED  BY <1>2 DEF Fewest

\* What the invariant says of the plan that is extended and of those queued.
LEMMA QueuedPlans ==
  ASSUME IInv, pc \in {"search", "extend"}
  PROVE  /\ problem \in Problems /\ QueueOK /\ UntriedOK /\ Len(problem.opers) \in Nat
         /\ queue \in Seq(LegalPlans(problem)) /\ Len(queue) \in Nat
         /\ \A plan \in LegalPlans(problem) : Len(plan) \in Nat /\ LastState(plan) \in States
         /\ current \in LegalPlans(problem)
<1>1. problem \in Problems /\ QueueOK /\ UntriedOK
  BY DEF IInv, Planning
<1>2. ASSUME NEW plan \in LegalPlans(problem)
      PROVE  Len(plan) \in Nat /\ LastState(plan) \in States
  <2>1. Len(plan) \in Nat /\ LastState(plan) = StateAfter(problem, plan, Len(plan))
    BY LastStateIs
  <2> QED  BY <1>1, <2>1, StateAfterType DEF States
<1> QED  BY <1>1, <1>2, ProblemFacts DEF QueueOK

\* A queued plan does not achieve the goals, so there is more to do.
LEMMA QueuedLeadsOn ==
  ASSUME IInv, pc \in {"search", "extend"}, NEW i \in 1..Len(queue), NEW n \in Nat, Leads(queue[i], n)
  PROVE  /\ Len(queue[i]) + 1 <= n
         /\ \E t \in PlanSuccessors(problem, LastState(queue[i])) : Near(problem, t, n - (Len(queue[i]) + 1))
<1> DEFINE plan == queue[i]
<1>1. /\ problem \in Problems /\ Len(plan) \in Nat /\ LastState(plan) \in States
      /\ ~Achieved(LastState(plan))
  BY QueuedPlans DEF QueueOK
<1>2. Len(plan) <= n /\ Near(problem, LastState(plan), n - Len(plan))
  BY DEF Leads
<1>3. n # Len(plan)
  <2>1. ~Near(problem, LastState(plan), 0)
    BY <1>1, NoWay DEF Achieved
  <2> QED  BY <1>1, <1>2, <2>1
<1> DEFINE m == n - (Len(plan) + 1)
<1>4. m \in Nat /\ m + 1 = n - Len(plan) /\ Len(plan) + 1 <= n
  BY <1>1, <1>2, <1>3
<1> HIDE DEF m, plan
<1>5. \E t \in PlanSuccessors(problem, LastState(plan)) : Near(problem, t, m)
  BY <1>2, <1>4, WayOn
<1> QED  BY <1>4, <1>5 DEF m, plan

LEMMA ProblemStays ==
  ASSUME problem' = problem
  PROVE  /\ \A n : FromStart(n)' <=> FromStart(n)
         /\ \A n : Fewest(n)' <=> Fewest(n)
         /\ EffectsOfParameters' <=> EffectsOfParameters
         /\ \A plan : LastState(plan)' = LastState(plan)
         /\ \A plan, n : Leads(plan, n)' <=> Leads(plan, n)
<1>1. \A n : FromStart(n)' <=> FromStart(n)
  BY DEF FromStart
<1>2. \A plan : LastState(plan)' = LastState(plan)
  BY DEF LastState
<1> QED  BY <1>1, <1>2 DEF Fewest, EffectsOfParameters, Leads

LEMMA StartPassesNone ==
  ASSUME IInv, Start
  PROVE  NonePassed'
<1>1. /\ problem \in Problems /\ file = <<>> /\ problem' = problem /\ file' = file
  BY DEF IInv, Start, Planning
<1>2. CASE Achieved(problem.init)
  <2>1. pc' = "read" /\ Len(file') = 0
    BY <1>1, <1>2 DEF Start
  <2> QED  BY <2>1 DEF NonePassed
<1>3. CASE ~Achieved(problem.init)
  <2>1. pc' = "search" /\ queue' = << <<>> >>
    BY <1>3 DEF Start
  <2>2. Len(queue') = 1 /\ queue'[1] = <<>> /\ Len(<<>>) = 0 /\ LastState(<<>>) = problem.init
    BY <2>1 DEF LastState
  <2>3. ASSUME NEW n \in Nat, Fewest(n)
        PROVE  Open(n)'
    <3>1. Leads(<<>>, n)
      BY <2>2, <2>3 DEF Leads, Fewest, FromStart
    <3>2. Leads(<<>>, n)'
      BY <1>1, <3>1, ProblemStays
    <3> QED  BY <2>2, <3>2 DEF Open
  <2> QED  BY <1>1, <2>1, <2>3, ProblemStays DEF NonePassed, Reading
<1> QED  BY <1>2, <1>3

LEMMA TakeNextPassesNone ==
  ASSUME IInv, NonePassed, TakeNext
  PROVE  NonePassed'
<1> DEFINE plan == queue[1]
<1>1. /\ pc = "search" /\ queue # <<>> /\ problem' = problem /\ untried' = untried /\ file' = file
      /\ queue' = Tail(queue) /\ oper' = 0 /\ current' = Head(queue)
  BY DEF TakeNext
<1>2. /\ problem \in Problems /\ queue \in Seq(LegalPlans(problem)) /\ Len(queue) \in Nat
  BY <1>1, QueuedPlans
<1>3. /\ Len(queue) > 0 /\ current' = plan /\ Len(queue') = Len(queue) - 1
      /\ \A i \in 1..Len(queue') : queue'[i] = queue[i + 1]
  BY <1>1, <1>2, HeadTailProperties
<1>4. pc' = "extend"
  <2>1. IInv' /\ pc' \in {"aborted", "extend"}
    BY TakeNextKeeps DEF TakeNext
  <2> QED  BY <2>1 DEF IInv, Planning, Reading
<1>5. ASSUME EffectsOfParameters, NEW n \in Nat, Fewest(n)
      PROVE  Open(n)'
  <2>1. PICK i \in 1..Len(queue) : Leads(queue[i], n)
    BY <1>1, <1>5 DEF NonePassed, Open
  <2>2. CASE i # 1
    <3>1. i - 1 \in 1..Len(queue') /\ queue'[i - 1] = queue[i]
      BY <1>2, <1>3, <2>2
    <3>2. PICK q : q = queue[i]
      OBVIOUS
    <3>3. Leads(q, n)'
      BY <1>1, <2>1, <3>2, ProblemStays
    <3> QED  BY <3>1, <3>2, <3>3 DEF Open
  <2>3. CASE i = 1
    <3>1. PICK t \in PlanSuccessors(problem, LastState(plan)) : Near(problem, t, n - (Len(plan) + 1))
      BY <1>1, <2>1, <2>3, QueuedLeadsOn
    <3>2. Len(plan) + 1 <= n /\ plan \in LegalPlans(problem) /\ LastState(plan) \in States
      BY <1>1, <1>2, <1>3, <2>1, <2>3, QueuedLeadsOn, QueuedPlans
    <3>3. PICK j \in 1..Len(problem.opers) : \E s \in Instances(problem.opers[j], LastState(plan)) :
            t = NextState(problem.opers[j], s, LastState(plan))
      BY <1>2, <3>2, PlanSuccessorFacts
    <3>4. j \in (oper' + 1)..Len(problem.opers) /\ LastState(current)' = LastState(plan)
      BY <1>1, <1>3 DEF LastState
    <3>5. StillTried(t)'
      BY <1>1, <3>3, <3>4 DEF StillTried
    <3> QED  BY <1>1, <1>3, <1>4, <3>1, <3>2, <3>5 DEF Open
  <2> QED  BY <2>2, <2>3
<1> QED  BY <1>1, <1>4, <1>5, ProblemStays DEF NonePassed, Reading

\* Among the substitutions listed, one has the effects of any instance.
LEMMA ListedHasEffect ==
  ASSUME problem \in Problems, EffectsOfParameters, NEW i \in 1..Len(problem.opers), NEW state,
         NEW list \in Listings(problem.opers[i], state), NEW s \in Instances(problem.opers[i], state)
  PROVE  \E r \in list : NextState(problem.opers[i], r, state) = NextState(problem.opers[i], s, state)
<1> DEFINE o == problem.opers[i]
<1>1. PICK r \in list : SameOn(s, r, Elems(o.params))
  BY DEF Listings
<1>2. r \in [BoundVariables(o) -> Object] /\ s \in [BoundVariables(o) -> Object]
  BY DEF Listings, Instances, Grounding
<1>3. VariablesOf(o.effects) \subseteq Elems(o.params) /\ BoundVariables(o) \in SUBSET Variable
      /\ \A l \in o.effects : l \in Literal
  BY ProblemFacts DEF EffectsOfParameters
<1> HIDE DEF o
<1>4. NextState(o, s, state) = NextState(o, r, state)
  BY <1>1, <1>2, <1>3, SameEffects
<1> QED  BY <1>4 DEF o

LEMMA NextOperatorPassesNone ==
  ASSUME IInv, NonePassed, NextOperator
  PROVE  NonePassed'
<1>1. /\ pc = "extend" /\ untried = {} /\ oper < Len(problem.opers) /\ problem' = problem /\ pc' = pc
      /\ queue' = queue /\ current' = current /\ file' = file /\ oper' = oper + 1
      /\ untried' \in Listings(problem.opers[oper + 1], LastState(current))
  BY DEF NextOperator
<1>2. problem \in Problems /\ oper \in 0..Len(problem.opers) /\ Len(problem.opers) \in Nat
  BY <1>1, QueuedPlans DEF UntriedOK
<1>3. LastState(current)' = LastState(current)
  BY <1>1 DEF LastState
<1>4. ASSUME EffectsOfParameters, NEW t, StillTried(t)
      PROVE  StillTried(t)'
  <2>1. PICK i \in (oper + 1)..Len(problem.opers) : \E s \in Instances(problem.opers[i], LastState(current)) :
          t = NextState(problem.opers[i], s, LastState(current))
    BY <1>1, <1>4 DEF StillTried
  <2>2. PICK s \in Instances(problem.opers[i], LastState(current)) : t = NextState(problem.opers[i], s, LastState(current))
    BY <2>1
  <2>3. CASE i = oper + 1
    <3>1. i \in 1..Len(problem.opers)
      BY <1>2
    <3>2. \E r \in untried' : NextState(problem.opers[i], r, LastState(current)) = t
      BY <1>1, <1>2, <1>4, <2>2, <2>3, <3>1, ListedHasEffect
    <3> QED  BY <1>1, <1>3, <2>3, <3>2 DEF StillTried
  <2>4. CASE i # oper + 1
    <3>1. i \in (oper' + 1)..Len(problem.opers)
      BY <1>1, <1>2, <2>4
    <3> QED  BY <1>1, <1>3, <2>2, <3>1 DEF StillTried
  <2> QED  BY <2>3, <2>4
<1>5. ASSUME EffectsOfParameters, NEW n \in Nat, Fewest(n)
      PROVE  Open(n)'
  <2>1. Open(n)
    BY <1>1, <1>5 DEF NonePassed
  <2>2. CASE \E i \in 1..Len(queue) : Leads(queue[i], n)
    <3>1. \E i \in 1..Len(queue) : Leads(queue[i], n)'
      BY <1>1, <2>2, ProblemStays DEF Leads
    <3> QED  BY <1>1, <3>1 DEF Open, Leads
  <2>3. CASE ~\E i \in 1..Len(queue) : Leads(queue[i], n)
    <3>1. PICK t : StillTried(t) /\ Near(problem, t, n - (Len(current) + 1)) /\ Len(current) + 1 <= n
      BY <2>1, <2>3 DEF Open
    <3>2. StillTried(t)'
      BY <1>4, <1>5, <3>1
    <3> QED  BY <1>1, <3>1, <3>2 DEF Open
  <2> QED  BY <2>2, <2>3
<1> QED  BY <1>1, <1>5, ProblemStays DEF NonePassed, Reading

LEMMA TryPassesNone ==
  ASSUME IInv, NonePassed, Try
  PROVE  NonePassed'
<1>1. /\ pc = "extend" /\ problem' = problem /\ current' = current /\ oper' = oper
  BY DEF Try
<1>2. /\ problem \in Problems /\ queue \in Seq(LegalPlans(problem)) /\ current \in LegalPlans(problem)
      /\ Len(queue) \in Nat /\ Len(current) \in Nat /\ QueueOK
  BY <1>1, QueuedPlans
<1>3. PICK s \in untried :
        /\ untried' = untried \ {s}
        /\ Judge(ApplyStripsOperator(current, oper, s), ContainsState(current, Last(ApplyStripsOperator(current, oper, s)).state))
  BY DEF Try
<1> DEFINE new == ApplyStripsOperator(current, oper, s)
           next == NextState(problem.opers[oper], s, LastState(current))
<1>4. new \in LegalPlans(problem) /\ Len(new) = Len(current) + 1 /\ LastState(new) = next /\ Last(new).state = next
  <2>1. oper \in 1..Len(problem.opers) /\ s \in Instances(problem.opers[oper], LastState(current))
    BY <1>1, <1>3, QueuedPlans DEF UntriedOK
  <2>2. LastState(current) = StateAfter(problem, current, Len(current))
    BY <1>2, LastStateIs
  <2>3. new = Extended(problem, current, oper, s)
    BY <2>2 DEF ApplyStripsOperator, Extended
  <2> HIDE DEF new
  <2>4. /\ new \in LegalPlans(problem) /\ Len(new) = Len(current) + 1 /\ Len(current) \in Nat
        /\ StateAfter(problem, new, Len(new)) = NextState(problem.opers[oper], s, StateAfter(problem, current, Len(current)))
    BY <1>2, <2>1, <2>2, <2>3, LongerPlan
  <2>5. LastState(new) = next
    BY <2>2, <2>4, LastStateIs
  <2>6. Len(new) # 0 /\ new # <<>>
    BY <2>4
  <2> QED  BY <2>4, <2>5, <2>6 DEF LastState
<1>5. Judge(new, ContainsState(current, next))
  BY <1>3, <1>4
<1> HIDE DEF new, next
\* When the goals are reached, no plan can be shorter.
<1>6. CASE Achieved(LastState(new)) /\ pc' = "read" /\ file' = Printed(new)
  <2>1. ASSUME EffectsOfParameters, NEW n \in Nat, n < Len(file'), FromStart(n)
        PROVE  FALSE
    <3>1. Len(file') = Len(current) + 1
      BY <1>4, <1>6 DEF Printed
    <3>2. PICK m \in Nat : Fewest(m) /\ m <= n
      BY <2>1, FewestExists
    <3>3. Open(m) /\ m < Len(current) + 1
      BY <1>1, <1>2, <2>1, <3>1, <3>2 DEF NonePassed
    <3>4. PICK i \in 1..Len(queue) : Leads(queue[i], m)
      BY <1>2, <3>3 DEF Open
    <3>5. Len(queue[i]) + 1 <= m /\ Len(current) <= Len(queue[i]) /\ Len(queue[i]) \in Nat
      BY <1>1, <1>2, <3>4, QueuedLeadsOn, QueuedPlans DEF QueueOK
    <3> QED  BY <1>2, <3>3, <3>5
  <2> QED  BY <1>1, <1>6, <2>1, ProblemStays DEF NonePassed, Reading
<1>7. CASE /\ ~Achieved(LastState(new)) /\ pc' = pc /\ file' = file
           /\ queue' = IF ContainsState(current, next) THEN queue ELSE Append(queue, new)
  <2>1. \A i \in 1..Len(queue) : i \in 1..Len(queue') /\ queue'[i] = queue[i]
    BY <1>2, <1>4, <1>7
  <2>2. ASSUME EffectsOfParameters, NEW n \in Nat, Fewest(n)
        PROVE  Open(n)'
    <3>1. Open(n)
      BY <1>1, <2>2 DEF NonePassed
    <3>2. ASSUME NEW i \in 1..Len(queue), Leads(queue[i], n)
          PROVE  Open(n)'
      <4>1. PICK q : q = queue[i]
        OBVIOUS
      <4>2. Leads(q, n)'
        BY <1>1, <3>2, <4>1, ProblemStays
      <4> QED  BY <2>1, <4>1, <4>2 DEF Open
    <3>3. ASSUME NEW t, StillTried(t), Near(problem, t, n - (Len(current) + 1)), Len(current) + 1 <= n
          PROVE  Open(n)'
      <4>1. LastState(current)' = LastState(current)
        BY <1>1 DEF LastState
      <4>2. CASE t # next
        <5>1. StillTried(t)'
          BY <1>1, <1>3, <3>3, <4>1, <4>2 DEF StillTried, next
        <5> QED  BY <1>1, <1>7, <3>3, <5>1 DEF Open
      \* A state the plan has been in is no shorter a way to the goals.
      <4>3. CASE t = next /\ ContainsState(current, next)
        <5>1. PICK k \in 0..Len(current) : StateAfter(problem, current, k) = next
          <6>1. CASE next = problem.init
            <7>1. 0 \in 0..Len(current) /\ StateAfter(problem, current, 0) = next
              BY <1>2, <6>1 DEF StateAfter
            <7> QED  BY <7>1
          <6>2. CASE next # problem.init
            <7>1. PICK k \in 1..Len(current) : current[k].state = next
              BY <4>3, <6>2 DEF ContainsState
            <7>2. k \in 0..Len(current) /\ StateAfter(problem, current, k) = next
              BY <1>2, <7>1 DEF StateAfter
            <7> QED  BY <7>2
          <6> QED  BY <6>1, <6>2
        <5> DEFINE m == n - (Len(current) + 1)
        <5>2. m \in Nat /\ m + k \in Nat /\ m + k < n
          BY <1>2, <3>3
        <5> HIDE DEF m
        <5>3. FromStart(m + k)
          BY <1>2, <3>3, <4>3, <5>1, <5>2, PlanIsWay DEF FromStart, m
        <5> QED  BY <2>2, <5>2, <5>3 DEF Fewest
      <4>4. CASE t = next /\ ~ContainsState(current, next)
        <5>1. queue' = Append(queue, new)
          BY <1>7, <4>4
        <5>2. Len(queue) + 1 \in 1..Len(queue') /\ queue'[Len(queue) + 1] = new
          BY <1>2, <5>1
        <5>3. PICK q : q = new
          OBVIOUS
        <5>4. Leads(q, n)
          BY <1>4, <3>3, <4>4, <5>3 DEF Leads
        <5>5. Leads(q, n)'
          BY <1>1, <5>4, ProblemStays
        <5> QED  BY <5>2, <5>3, <5>5 DEF Open
      <4> QED  BY <4>2, <4>3, <4>4
    <3> QED  BY <3>1, <3>2, <3>3 DEF Open
  <2> QED  BY <1>1, <1>7, <2>2, ProblemStays DEF NonePassed, Reading
<1> QED  BY <1>5, <1>6, <1>7 DEF Judge

LEMMA EndExtensionPassesNone ==
  ASSUME IInv, NonePassed, EndExtension
  PROVE  NonePassed'
<1>1. /\ pc = "extend" /\ pc' = "search" /\ problem' = problem /\ queue' = queue
      /\ untried = {} /\ oper = Len(problem.opers)
  BY DEF EndExtension, planner
<1>2. Len(problem.opers) \in Nat
  BY <1>1, QueuedPlans
<1>3. ASSUME EffectsOfParameters, NEW n \in Nat, Fewest(n)
      PROVE  Open(n)'
  <2>1. \A t : ~StillTried(t)
    BY <1>1, <1>2 DEF StillTried
  <2>2. PICK i \in 1..Len(queue) : Leads(queue[i], n)
    BY <1>1, <1>3, <2>1 DEF NonePassed, Open
  <2>3. PICK q : q = queue[i]
    OBVIOUS
  <2>4. Leads(q, n)'
    BY <1>1, <2>2, <2>3, ProblemStays
  <2> QED  BY <1>1, <2>3, <2>4 DEF Open
<1> QED  BY <1>1, <1>3, ProblemStays DEF NonePassed, Reading

LEMMA GiveUpPassesNone ==
  ASSUME IInv, NonePassed, GiveUp
  PROVE  NonePassed'
<1>1. pc = "search" /\ pc' = "no plans" /\ problem' = problem /\ queue = <<>>
  BY DEF GiveUp
<1>2. ASSUME EffectsOfParameters, NEW n \in Nat, FromStart(n)
      PROVE  FALSE
  <2>1. PICK m \in Nat : Fewest(m)
    BY <1>2, FewestExists
  <2>2. Open(m)
    BY <1>1, <1>2, <2>1 DEF NonePassed
  <2>3. PICK i \in 1..Len(queue) : TRUE
    BY <1>1, <2>2 DEF Open
  <2>4. Len(queue) = 0
    BY <1>1
  <2> QED  BY <2>3, <2>4
<1> QED  BY <1>1, <1>2, ProblemStays DEF NonePassed, Reading

\* verifier_strips leaves the plan as it was printed.
LEMMA VerifierPassesNone ==
  ASSUME IInv, NonePassed, ReadAction \/ ExecuteAction \/ CheckGoals
  PROVE  NonePassed'
<1>1. pc \in Reading /\ problem' = problem /\ file' = file
  BY DEF ReadAction, ExecuteAction, CheckGoals, Reading
<1>2. pc' \in Reading
  BY DEF ReadAction, ExecuteAction, CheckGoals, Reading
<1> QED  BY <1>1, <1>2, ProblemStays DEF NonePassed, Reading

LEMMA IdlePassesNone ==
  ASSUME NonePassed, UNCHANGED vars
  PROVE  NonePassed'
<1>1. /\ problem' = problem /\ pc' = pc /\ queue' = queue /\ current' = current
      /\ oper' = oper /\ untried' = untried /\ file' = file
  BY DEF vars, planner
<1>2. \A n : Open(n)' <=> Open(n)
  <2>1. \A t : StillTried(t)' <=> StillTried(t)
    BY <1>1 DEF StillTried, LastState
  <2>2. \A plan, n : Leads(plan, n)' <=> Leads(plan, n)
    BY <1>1, ProblemStays
  <2>3. ASSUME NEW n, NEW i
        PROVE  Leads(queue[i], n)' <=> Leads(queue[i], n)
    <3>1. PICK q : q = queue[i]
      OBVIOUS
    <3>2. q = queue'[i]
      BY <1>1, <3>1
    <3> QED  BY <2>2, <3>1, <3>2 DEF Leads
  <2> QED  BY <1>1, <2>1, <2>3 DEF Open
<1> QED  BY <1>1, <1>2, ProblemStays DEF NonePassed

LEMMA SearchInvariant == Spec => [](IInv /\ NonePassed)
<1>1. Init => NonePassed
  BY DEF Init, NonePassed, Reading
<1>2. IInv /\ NonePassed /\ [Next]_vars => NonePassed'
  BY StartPassesNone, TakeNextPassesNone, NextOperatorPassesNone, TryPassesNone, EndExtensionPassesNone,
     GiveUpPassesNone, VerifierPassesNone, IdlePassesNone DEF Next
<1> QED  BY <1>1, <1>2, Invariant, PTL DEF Spec

\* The plan that is printed is as short as a plan can be, and "no plans" is
\* said only when no plan within the horizon, whatever that is, exists.
THEOREM PlansAreShortest == Spec => []ShortestPlan
<1>1. IInv /\ NonePassed => ShortestPlan
  <2> SUFFICES ASSUME IInv, NonePassed, EffectsOfParameters
               PROVE  /\ pc = "no plans" => \A s \in Within[Horizon] : ~Achieved(s)
                      /\ file # <<>> => \A s \in Within[Len(file) - 1] : ~Achieved(s)
    BY DEF ShortestPlan
  <2>1. problem \in Problems
    BY DEF IInv
  <2>2. ASSUME pc = "no plans", NEW s \in Within[Horizon], Achieved(s)
        PROVE  FALSE
    <3>1. PICK k \in 0..Horizon : FromStart(k)
      BY <2>1, <2>2, HorizonAssumption, WithinIsNear DEF FromStart
    <3>2. k \in Nat
      BY HorizonAssumption
    <3> QED  BY Zenon, <2>2, <3>1, <3>2 DEF NonePassed
  <2>3. ASSUME file # <<>>, NEW s \in Within[Len(file) - 1], Achieved(s)
        PROVE  FALSE
    <3>1. pc \in Reading
      BY <2>3 DEF IInv
    <3>2. PICK plan \in LegalPlans(problem) : file = Printed(plan)
      BY <3>1 DEF IInv
    <3>3. Len(file) = Len(plan) /\ Len(plan) \in Nat /\ Len(plan) # 0
      <4>1. Len(plan) \in Nat /\ DOMAIN file = 1..Len(plan) /\ Len(file) = Len(plan)
        BY <3>2, LastStateIs DEF Printed
      <4>2. plan # <<>>
        <5>1. Printed(<<>>) = <<>>
          BY DEF Printed
        <5> QED  BY <2>3, <3>2, <5>1
      <4>3. plan \in Seq(StepType(problem))
        BY DEF LegalPlans
      <4> QED  BY <4>1, <4>2, <4>3, EmptySeq
    <3>4. Len(file) - 1 \in Nat
      BY <3>3
    <3>5. PICK k \in 0..(Len(file) - 1) : FromStart(k)
      BY <2>1, <2>3, <3>4, WithinIsNear DEF FromStart
    <3>6. k \in Nat /\ k < Len(file)
      BY <3>3
    <3> QED  BY Zenon, <3>1, <3>5, <3>6 DEF NonePassed
  <2> QED  BY <2>2, <2>3
<1> QED  BY <1>1, SearchInvariant, PTL
=============================================================================
