-------------------------- MODULE HtnSolver2Proofs --------------------------
(***************************************************************************)
(* Safety of htn-solver2 for every domain, problem, domain file, command   *)
(* line and number of runs.  The inductive invariant says what the records *)
(* on the stack are: a chain of legal steps from the problem, one deeper   *)
(* each, with instances that still are instances of the task at hand.      *)
(***************************************************************************)
EXTENDS HtnSolver2, HtnDomainProofs

----------------------------------------------------------------------------
(* The inductive invariant                                                 *)

\* sub is an instance of what frame f is trying for its task.
InstanceOK(f, sub) ==
  IF Primitively(f.sol)
    THEN \E o \in FirstNamed(TopTask(f.sol).name) :
           sub \in OperatorInstances(Operators[o], TopTask(f.sol), f.sol.state)
    ELSE /\ f.i \in 1..Len(f.order)
         /\ sub \in MethodInstances(Methods[f.order[f.i]], TopTask(f.sol), f.sol.state)

\* The k-th record of the stack, under options o with library l.
FrameOK(f, k, o, l) ==
  /\ f.depth = k /\ Len(f.sol.tree) = k - 1 /\ k - 1 <= o.maxDepth
  /\ WellFormed(f.sol) /\ ~IsComplete(f.sol)
  /\ IF f.entered
       THEN /\ k <= o.maxDepth
            /\ Primitively(f.sol) => f.order = <<>>
            /\ ~Primitively(f.sol) /\ ~o.r => f.order = l
       ELSE f.order = <<>> /\ f.insts = <<>> /\ f.i = 0
  /\ f.i <= Len(f.order) /\ f.tried <= Len(f.insts)
  /\ \A j \in 1..Len(f.insts) : InstanceOK(f, f.insts[j])

\* A stack of records, each one a step further than the one that called it.
Stacked(s, o, l) ==
  /\ s \in Seq(Frame)
  /\ \A k \in 1..Len(s) : FrameOK(s[k], k, o, l)
  /\ s # <<>> => s[1].sol = FromProblem
  /\ \A k \in 2..Len(s) : s[k].sol \in Successors(s[k - 1].sol)

\* The answer, given the stack it was found with.
Answered(a, s, o) ==
  /\ a \in Seq(SolutionType) /\ Len(a) <= 1
  /\ a # <<>> =>
       /\ IsComplete(a[1]) /\ WellFormed(a[1]) /\ Len(a[1].tree) <= o.maxDepth
       /\ s = <<>> => a[1] = FromProblem
       /\ s # <<>> => a[1] \in Successors(s[Len(s)].sol)

PhaseOK ==
  /\ phase \in {"load", "search", "failed"} => answer = <<>>
  /\ phase = "search" => stack # <<>>
  /\ phase \in {"load", "failed"} => stack = <<>>
  /\ phase \in {"found", "learn", "exception"} => answer # <<>>
  /\ phase \in {"save", "done"} /\ answer = <<>> => stack = <<>>
  /\ phase = "learn" => Len(cost) = Len(Plan)

\* A library that holds every method once.
Whole(l) == Len(l) = Len(Methods) /\ Elems(l) = MethodIndex

LibraryOK ==
  /\ Whole(library) /\ Whole(file.order)
  /\ DeclaresQValues => \A m \in MethodIndex :
       InitQ[m].count <= file.q[m].count /\ file.q[m].count <= qvalue[m].count

\* SortMethods has left no method before one with a lower Q-value.
Sorted(q, l) == \A i, j \in 1..Len(l) : i < j => ~QLess(q[l[j]], q[l[i]])

IInv ==
  /\ TypeOK /\ Stacked(stack, opts, library) /\ Answered(answer, stack, opts)
  /\ PhaseOK /\ LibraryOK
  /\ phase = "search" /\ opts.q => Sorted(qvalue, library)

----------------------------------------------------------------------------
(* Lemmas on stacks                                                        *)

LEMMA StackPopped ==
  ASSUME NEW s, NEW o, NEW l, Stacked(s, o, l), s # <<>>
  PROVE  Stacked(Popped(s), o, l) /\ Len(Popped(s)) = Len(s) - 1 /\ Len(s) \in Nat \ {0}
<1>1. s \in Seq(Frame)
  BY DEF Stacked
<1>2. /\ Popped(s) \in Seq(Frame) /\ Len(Popped(s)) = Len(s) - 1 /\ Len(s) \in Nat \ {0}
      /\ \A k \in 1..(Len(s) - 1) : Popped(s)[k] = s[k]
  BY <1>1, PoppedType
<1>3. ASSUME NEW k \in 1..Len(Popped(s))
      PROVE  FrameOK(Popped(s)[k], k, o, l)
  <2>1. k \in 1..Len(s) /\ Popped(s)[k] = s[k]
    BY <1>2
  <2> QED  BY <2>1 DEF Stacked
<1>4. ASSUME Popped(s) # <<>>
      PROVE  Popped(s)[1].sol = FromProblem
  <2>1. 1 \in 1..(Len(s) - 1)
    BY <1>2, <1>4
  <2> QED  BY <1>2, <2>1 DEF Stacked
<1>5. ASSUME NEW k \in 2..Len(Popped(s))
      PROVE  Popped(s)[k].sol \in Successors(Popped(s)[k - 1].sol)
  <2>1. k \in 2..Len(s) /\ Popped(s)[k] = s[k] /\ Popped(s)[k - 1] = s[k - 1]
    BY <1>2
  <2> QED  BY <2>1 DEF Stacked
<1> QED  BY <1>2, <1>3, <1>4, <1>5 DEF Stacked

LEMMA StackTop ==
  ASSUME NEW s, NEW o, NEW l, Stacked(s, o, l), s # <<>>,
         NEW f \in Frame, f.sol = s[Len(s)].sol, FrameOK(f, Len(s), o, l)
  PROVE  /\ Stacked([s EXCEPT ![Len(s)] = f], o, l)
         /\ Len([s EXCEPT ![Len(s)] = f]) = Len(s)
         /\ \A k \in 1..Len(s) : [s EXCEPT ![Len(s)] = f][k].sol = s[k].sol
<1> DEFINE t == [s EXCEPT ![Len(s)] = f]
<1>1. s \in Seq(Frame) /\ Len(s) \in Nat \ {0}
  BY StackPopped DEF Stacked
<1>2. /\ t \in Seq(Frame) /\ Len(t) = Len(s)
      /\ \A k \in 1..Len(s) : t[k] = IF k = Len(s) THEN f ELSE s[k]
  BY <1>1, ExceptSeq
<1> HIDE DEF t
<1>3. \A k \in 1..Len(s) : t[k].sol = s[k].sol
  BY <1>2
<1>4. ASSUME NEW k \in 1..Len(t)
      PROVE  FrameOK(t[k], k, o, l)
  <2>1. k \in 1..Len(s)
    BY <1>2
  <2>2. CASE k = Len(s)
    BY <1>2, <2>1, <2>2
  <2>3. CASE k # Len(s)
    <3>1. t[k] = s[k]
      BY <1>2, <2>1, <2>3
    <3> QED  BY <2>1, <3>1 DEF Stacked
  <2> QED  BY <2>2, <2>3
<1>5. t[1].sol = FromProblem
  BY <1>1, <1>3 DEF Stacked
<1>6. ASSUME NEW k \in 2..Len(t)
      PROVE  t[k].sol \in Successors(t[k - 1].sol)
  <2>1. k \in 2..Len(s) /\ k \in 1..Len(s) /\ k - 1 \in 1..Len(s)
    BY <1>1, <1>2
  <2> QED  BY <1>3, <2>1 DEF Stacked
<1>7. Stacked(t, o, l)
  BY <1>2, <1>4, <1>5, <1>6 DEF Stacked
<1> QED  BY <1>2, <1>3, <1>7 DEF t

LEMMA CallType ==
  ASSUME NEW sol \in SolutionType, NEW d \in Nat
  PROVE  Call(sol, d) \in Frame
<1>1. <<>> \in Seq(MethodIndex) /\ <<>> \in Seq(SubstitutionType) /\ FALSE \in BOOLEAN
  OBVIOUS
<1> QED  BY <1>1, Zenon DEF Call, Frame

LEMMA CallOK ==
  ASSUME NEW sol \in SolutionType, NEW k \in Nat, NEW o \in Options, NEW l,
         WellFormed(sol), ~IsComplete(sol), Len(sol.tree) = k - 1, k - 1 <= o.maxDepth
  PROVE  FrameOK(Call(sol, k), k, o, l)
<1>1. /\ Call(sol, k).sol = sol /\ Call(sol, k).depth = k /\ Call(sol, k).entered = FALSE
      /\ Call(sol, k).order = <<>> /\ Call(sol, k).insts = <<>>
      /\ Call(sol, k).i = 0 /\ Call(sol, k).tried = 0
  BY DEF Call
<1>2. 0 <= Len(<<>>) /\ 1..Len(<<>>) = {}
  OBVIOUS
<1> QED  BY <1>1, <1>2, Zenon DEF FrameOK

LEMMA StackPushed ==
  ASSUME NEW s, NEW o \in Options, NEW l, Stacked(s, o, l), s # <<>>,
         NEW sol \in Successors(s[Len(s)].sol), ~IsComplete(sol), Len(s) <= o.maxDepth
  PROVE  Stacked(Append(s, Call(sol, Len(s) + 1)), o, l)
<1> DEFINE f == Call(sol, Len(s) + 1)
           t == Append(s, f)
<1>1. s \in Seq(Frame) /\ Len(s) \in Nat \ {0}
  BY StackPopped DEF Stacked
<1>2. s[Len(s)].sol \in SolutionType
  <2>1. s[Len(s)] \in Frame
    BY <1>1
  <2> QED  BY <2>1 DEF Frame
<1>3. WellFormed(s[Len(s)].sol) /\ ~IsComplete(s[Len(s)].sol) /\ Len(s[Len(s)].sol.tree) = Len(s) - 1
  BY <1>1 DEF Stacked, FrameOK
<1>4. sol \in SolutionType /\ WellFormed(sol) /\ Len(sol.tree) = Len(s)
  BY <1>1, <1>2, <1>3, SuccessorFacts
<1>5. f \in Frame /\ f.sol = sol
  BY <1>1, <1>4, CallType DEF Call
<1>6. FrameOK(f, Len(s) + 1, o, l)
  BY <1>1, <1>4, CallOK
<1> HIDE DEF f
<1>7. /\ t \in Seq(Frame) /\ Len(t) = Len(s) + 1 /\ t[Len(s) + 1] = f
      /\ \A k \in 1..Len(s) : t[k] = s[k]
  BY <1>1, <1>5, AppendProperties
<1> HIDE DEF t
<1>8. ASSUME NEW k \in 1..Len(t)
      PROVE  FrameOK(t[k], k, o, l)
  <2>1. CASE k = Len(s) + 1
    BY <1>6, <1>7, <2>1
  <2>2. CASE k # Len(s) + 1
    <3>1. k \in 1..Len(s) /\ t[k] = s[k]
      BY <1>1, <1>7, <2>2
    <3> QED  BY <3>1 DEF Stacked
  <2> QED  BY <2>1, <2>2
<1>9. ASSUME NEW k \in 2..Len(t)
      PROVE  t[k].sol \in Successors(t[k - 1].sol)
  <2>1. CASE k = Len(s) + 1
    <3>1. t[k - 1] = s[Len(s)] /\ t[k] = f
      BY <1>1, <1>7, <2>1
    <3> QED  BY <1>5, <3>1
  <2>2. CASE k # Len(s) + 1
    <3>1. k \in 2..Len(s) /\ t[k] = s[k] /\ t[k - 1] = s[k - 1]
      BY <1>1, <1>7, <2>2
    <3> QED  BY <3>1 DEF Stacked
  <2> QED  BY <2>1, <2>2
<1>10. t[1].sol = FromProblem
  BY <1>1, <1>7 DEF Stacked
<1>11. Stacked(t, o, l)
  BY <1>7, <1>8, <1>9, <1>10 DEF Stacked
<1> QED  BY <1>11 DEF t, f

\* A stack of one record, the call for the whole problem.
LEMMA StackStarted ==
  ASSUME NEW o \in Options, NEW l, ~IsComplete(FromProblem)
  PROVE  Stacked(<<Call(FromProblem, 1)>>, o, l)
<1>1. Len(FromProblem.tree) = 0 /\ o.maxDepth \in Nat
  BY DEF FromProblem, Options
<1>2. Call(FromProblem, 1) \in Frame /\ FrameOK(Call(FromProblem, 1), 1, o, l)
  BY <1>1, FromProblemType, FromProblemWellFormed, CallType, CallOK
<1>3. Call(FromProblem, 1).sol = FromProblem
  BY DEF Call
<1> QED  BY <1>2, <1>3 DEF Stacked

----------------------------------------------------------------------------
(* Lemmas on what a record tries                                           *)

LEMMA ListingType ==
  ASSUME NEW a, BoundVariables(a) \in SUBSET Variable, IsFiniteSet(BoundVariables(a)),
         NEW S \in SUBSET Grounding(a), NEW rel,
         NEW l \in Listings(S, rel)
  PROVE  l \in Seq(SubstitutionType) /\ \A j \in 1..Len(l) : l[j] \in S
<1>1. IsFiniteSet(S)
  BY FinitelyMany, FS_Subset DEF Grounding
<1>2. PICK n \in Nat : n = Cardinality(S)
  BY <1>1, FS_CardinalityType
<1>3. PICK k \in 0..n : l \in [1..k -> S]
  BY <1>2 DEF Listings
<1>4. S \subseteq SubstitutionType
  BY GroundingIsSubstitution
<1>5. l \in Seq(S) /\ Len(l) = k
  BY <1>3
<1> QED  BY <1>3, <1>4, <1>5

LEMMA OperatorListing ==
  ASSUME NEW task, NEW state, NEW o \in 1..Len(Operators),
         NEW rel, NEW l \in Listings(OperatorInstances(Operators[o], task, state), rel)
  PROVE  l \in Seq(SubstitutionType) /\ \A j \in 1..Len(l) : l[j] \in OperatorInstances(Operators[o], task, state)
<1>1. OperatorInstances(Operators[o], task, state) \in SUBSET Grounding(Operators[o])
  BY DEF OperatorInstances, Satisfying
<1> QED  BY <1>1, OperatorFacts, ListingType

LEMMA MethodListing ==
  ASSUME NEW task, NEW state, NEW m \in 1..Len(Methods),
         NEW rel, NEW l \in Listings(MethodInstances(Methods[m], task, state), rel)
  PROVE  l \in Seq(SubstitutionType) /\ \A j \in 1..Len(l) : l[j] \in MethodInstances(Methods[m], task, state)
<1>1. MethodInstances(Methods[m], task, state) \in SUBSET Grounding(Methods[m])
  BY DEF MethodInstances, Satisfying
<1> QED  BY <1>1, MethodFacts, ListingType

\* The first operator of a name is the only element of its set.
LEMMA FirstOperator ==
  ASSUME NEW name, NEW o \in FirstNamed(name), NEW p \in FirstNamed(name)
  PROVE  o = p /\ o \in 1..Len(Operators) /\ Operators[o].name = name
<1>1. o \in 1..Len(Operators) /\ p \in 1..Len(Operators) /\ o <= p /\ p <= o /\ Operators[o].name = name
  BY DEF FirstNamed
<1> QED  BY <1>1

\* The records FindPlanOper and FindPlanMethod make of the top one.
LEMMA OperatorEntered ==
  ASSUME NEW f \in Frame, NEW k, NEW o, NEW l, FrameOK(f, k, o, l), ~f.entered, k <= o.maxDepth,
         Primitively(f.sol),
         NEW insts \in OperatorListings(TopTask(f.sol), f.sol.state)
  PROVE  LET g == [f EXCEPT !.entered = TRUE, !.order = <<>>, !.insts = insts]
         IN  g \in Frame /\ g.sol = f.sol /\ FrameOK(g, k, o, l)
<1> DEFINE g == [f EXCEPT !.entered = TRUE, !.order = <<>>, !.insts = insts]
           name == TopTask(f.sol).name
<1>1. /\ insts \in Seq(SubstitutionType)
      /\ \A j \in 1..Len(insts) :
           \E p \in FirstNamed(name) : insts[j] \in OperatorInstances(Operators[p], TopTask(f.sol), f.sol.state)
  <2>1. CASE FirstNamed(name) = {}
    <3>1. insts = <<>>
      BY <2>1 DEF OperatorListings
    <3> QED  BY <3>1
  <2>2. CASE FirstNamed(name) # {}
    <3>1. PICK p \in FirstNamed(name) :
            insts \in Listings(OperatorInstances(Operators[p], TopTask(f.sol), f.sol.state),
                              Elems(Operators[p].params))
      BY <2>2 DEF OperatorListings
    <3>2. p \in 1..Len(Operators)
      BY <3>1, FirstOperator
    <3>4. /\ insts \in Seq(SubstitutionType)
          /\ \A j \in 1..Len(insts) : insts[j] \in OperatorInstances(Operators[p], TopTask(f.sol), f.sol.state)
      BY <3>1, <3>2, OperatorListing
    <3> QED  BY <3>1, <3>4
  <2> QED  BY <2>1, <2>2
<1>2. /\ g.sol = f.sol /\ g.depth = f.depth /\ g.entered /\ g.order = <<>>
      /\ g.i = f.i /\ g.insts = insts /\ g.tried = f.tried
  BY DEF Frame
<1>3. <<>> \in Seq(MethodIndex) /\ TRUE \in BOOLEAN
  OBVIOUS
<1>4. g \in Frame
  BY <1>1, <1>3, Zenon DEF Frame
<1> HIDE DEF g
<1>5. /\ f.depth = k /\ Len(f.sol.tree) = k - 1 /\ k - 1 <= o.maxDepth
      /\ WellFormed(f.sol) /\ ~IsComplete(f.sol)
      /\ f.insts = <<>> /\ f.i = 0 /\ f.i <= Len(f.order) /\ f.tried <= Len(f.insts)
  BY Zenon DEF FrameOK
<1>6. g.i <= Len(g.order)
  BY <1>2, <1>5
<1>7. g.tried <= Len(g.insts)
  <2>1. f.tried \in Nat /\ Len(insts) \in Nat
    BY <1>1 DEF Frame
  <2>2. f.tried = 0
    BY <1>5, <2>1
  <2> QED  BY <1>2, <2>1, <2>2
<1>8. \A j \in 1..Len(g.insts) : InstanceOK(g, g.insts[j])
  BY <1>1, <1>2, Zenon DEF InstanceOK
<1>9. FrameOK(g, k, o, l)
  BY <1>2, <1>5, <1>6, <1>7, <1>8, Zenon DEF FrameOK
<1> QED  BY <1>2, <1>4, <1>9 DEF g

LEMMA MethodEntered ==
  ASSUME NEW f \in Frame, NEW k, NEW o \in Options, NEW l \in Seq(MethodIndex), FrameOK(f, k, o, l),
         ~f.entered, k <= o.maxDepth, ~Primitively(f.sol),
         NEW order \in Seq(MethodIndex), ~o.r => order = l
  PROVE  LET g == [f EXCEPT !.entered = TRUE, !.order = order, !.insts = <<>>]
         IN  g \in Frame /\ g.sol = f.sol /\ FrameOK(g, k, o, l)
<1> DEFINE g == [f EXCEPT !.entered = TRUE, !.order = order, !.insts = <<>>]
<1>2. /\ g.sol = f.sol /\ g.depth = f.depth /\ g.entered /\ g.order = order
      /\ g.i = f.i /\ g.insts = <<>> /\ g.tried = f.tried
  BY DEF Frame
<1>3. <<>> \in Seq(SubstitutionType) /\ TRUE \in BOOLEAN
  OBVIOUS
<1>4. g \in Frame
  BY <1>3, Zenon DEF Frame
<1> HIDE DEF g
<1>5. /\ f.depth = k /\ Len(f.sol.tree) = k - 1 /\ k - 1 <= o.maxDepth
      /\ WellFormed(f.sol) /\ ~IsComplete(f.sol)
      /\ f.insts = <<>> /\ f.i = 0 /\ f.i <= Len(f.order) /\ f.tried <= Len(f.insts)
  BY Zenon DEF FrameOK
<1>6. g.i <= Len(g.order)
  BY <1>2, <1>5
<1>7. g.tried <= Len(g.insts) /\ \A j \in 1..Len(g.insts) : InstanceOK(g, g.insts[j])
  BY <1>2, <1>5
<1>8. FrameOK(g, k, o, l)
  BY <1>2, <1>5, <1>6, <1>7, Zenon DEF FrameOK
<1> QED  BY <1>2, <1>4, <1>8 DEF g

\* The loop over the methods goes on to the next one.
LEMMA MethodChosen ==
  ASSUME NEW f \in Frame, NEW k, NEW o, NEW l, FrameOK(f, k, o, l), f.entered, f.i < Len(f.order),
         NEW rel,
         NEW insts \in Listings(MethodInstances(Methods[f.order[f.i + 1]], TopTask(f.sol), f.sol.state), rel)
  PROVE  LET g == [f EXCEPT !.i = @ + 1, !.insts = insts, !.tried = 0]
         IN  g \in Frame /\ g.sol = f.sol /\ FrameOK(g, k, o, l)
<1> DEFINE g == [f EXCEPT !.i = @ + 1, !.insts = insts, !.tried = 0]
<1>1. f.i \in Nat /\ f.order \in Seq(MethodIndex) /\ Len(f.order) \in Nat
  BY DEF Frame
<1>2. f.i + 1 \in 1..Len(f.order) /\ f.order[f.i + 1] \in 1..Len(Methods)
  BY <1>1 DEF MethodIndex
<1>3. /\ insts \in Seq(SubstitutionType)
      /\ \A j \in 1..Len(insts) :
           insts[j] \in MethodInstances(Methods[f.order[f.i + 1]], TopTask(f.sol), f.sol.state)
  BY <1>2, MethodListing
<1>4. /\ g.sol = f.sol /\ g.depth = f.depth /\ g.entered = f.entered /\ g.order = f.order
      /\ g.i = f.i + 1 /\ g.insts = insts /\ g.tried = 0
  BY DEF Frame
<1>5. f.i + 1 \in Nat /\ 0 \in Nat
  BY <1>1
<1>6. g \in Frame
  BY <1>3, <1>5, Zenon DEF Frame
<1> HIDE DEF g
<1>7. /\ f.depth = k /\ Len(f.sol.tree) = k - 1 /\ k - 1 <= o.maxDepth
      /\ WellFormed(f.sol) /\ ~IsComplete(f.sol) /\ k <= o.maxDepth
      /\ Primitively(f.sol) => f.order = <<>>
      /\ ~Primitively(f.sol) /\ ~o.r => f.order = l
  BY Zenon DEF FrameOK
<1>8. ~Primitively(f.sol)
  <2>1. f.order # <<>>
    BY <1>1
  <2> QED  BY <1>7, <2>1
<1>9. g.i <= Len(g.order) /\ g.i \in 1..Len(g.order) /\ g.tried <= Len(g.insts)
  BY <1>1, <1>2, <1>3, <1>4
<1>10. \A j \in 1..Len(g.insts) : InstanceOK(g, g.insts[j])
  BY <1>3, <1>4, <1>8, <1>9, Zenon DEF InstanceOK
<1>11. FrameOK(g, k, o, l)
  BY <1>4, <1>7, <1>9, <1>10, Zenon DEF FrameOK
<1> QED  BY <1>4, <1>6, <1>11 DEF g

\* The loop over the instances takes the next one.
LEMMA InstanceTaken ==
  ASSUME NEW f \in Frame, NEW k, NEW o, NEW l, FrameOK(f, k, o, l), f.tried < Len(f.insts)
  PROVE  LET g == [f EXCEPT !.tried = @ + 1]
         IN  g \in Frame /\ g.sol = f.sol /\ FrameOK(g, k, o, l)
<1> DEFINE g == [f EXCEPT !.tried = @ + 1]
<1>1. f.tried \in Nat /\ Len(f.insts) \in Nat
  BY DEF Frame
<1>2. /\ g.sol = f.sol /\ g.depth = f.depth /\ g.entered = f.entered /\ g.order = f.order
      /\ g.i = f.i /\ g.insts = f.insts /\ g.tried = f.tried + 1
  BY DEF Frame
<1>3. f.tried + 1 \in Nat
  BY <1>1
<1>4. g \in Frame
  BY <1>3, Zenon DEF Frame
<1> HIDE DEF g
<1>5. g.tried <= Len(g.insts)
  BY <1>1, <1>2
<1>6. \A j \in 1..Len(g.insts) : InstanceOK(g, g.insts[j])
  BY <1>2, Zenon DEF InstanceOK, FrameOK
<1>7. FrameOK(g, k, o, l)
  <2>1. /\ f.depth = k /\ Len(f.sol.tree) = k - 1 /\ k - 1 <= o.maxDepth
        /\ WellFormed(f.sol) /\ ~IsComplete(f.sol)
        /\ IF f.entered
             THEN /\ k <= o.maxDepth
                  /\ Primitively(f.sol) => f.order = <<>>
                  /\ ~Primitively(f.sol) /\ ~o.r => f.order = l
             ELSE f.order = <<>> /\ f.insts = <<>> /\ f.i = 0
        /\ f.i <= Len(f.order)
    BY Zenon DEF FrameOK
  <2> QED  BY <1>2, <1>5, <1>6, <2>1, Zenon DEF FrameOK
<1> QED  BY <1>2, <1>4, <1>7 DEF g

----------------------------------------------------------------------------
(* The four outcomes of a step of the search                               *)

Same(s, t) == Len(t) = Len(s) /\ \A k \in 1..Len(s) : t[k].sol = s[k].sol

\* The top record goes on with its own work.
Stays == Same(stack, stack') /\ Stacked(stack', opts, library) /\ UNCHANGED <<phase, answer>>

\* It returns to its caller.
Gives ==
  /\ stack' = Popped(stack) /\ answer' = answer
  /\ phase' = IF Len(stack) = 1 THEN "failed" ELSE phase

\* It calls for one more step of work.
Goes ==
  /\ \E new \in Successors(Top.sol), t \in Seq(Frame) :
       /\ ~IsComplete(new) /\ Same(stack, t) /\ Stacked(t, opts, library)
       /\ stack' = Append(t, Call(new, Len(t) + 1))
  /\ Len(stack) <= opts.maxDepth /\ UNCHANGED <<phase, answer>>

\* One more step of work completes the solution.
Finds ==
  /\ \E new \in Successors(Top.sol) : IsComplete(new) /\ answer' = <<new>>
  /\ Same(stack, stack') /\ Stacked(stack', opts, library)
  /\ Len(stack) <= opts.maxDepth /\ phase' = "found"

SearchStep ==
  DepthLimit \/ EnterOperator \/ EnterMethod \/ NextMethod \/ TryOperator \/ TryMethod \/ Backtrack

LEMMA TopFacts ==
  ASSUME IInv, Searching
  PROVE  /\ Top \in Frame /\ FrameOK(Top, Len(stack), opts, library) /\ Len(stack) \in Nat \ {0}
         /\ Top.sol \in SolutionType /\ WellFormed(Top.sol) /\ ~IsComplete(Top.sol)
         /\ opts \in Options /\ Stacked(stack, opts, library) /\ stack # <<>>
         /\ Top.depth = Len(stack) /\ library \in Seq(MethodIndex) /\ opts.maxDepth \in Nat
<1>1. Stacked(stack, opts, library) /\ stack # <<>> /\ stack \in Seq(Frame) /\ library \in Seq(MethodIndex)
  BY Zenon DEF IInv, Searching, TypeOK
<1>2. Len(stack) \in Nat \ {0}
  BY <1>1
<1>3. Top \in Frame /\ FrameOK(Top, Len(stack), opts, library)
  BY <1>1, <1>2 DEF Top, Stacked
<1>4. WellFormed(Top.sol) /\ ~IsComplete(Top.sol) /\ Top.depth = Len(stack)
  BY <1>3, Zenon DEF FrameOK
<1>5. opts \in Options
  BY SolverAssumption, Zenon DEF IInv, TypeOK
<1>6. opts.maxDepth \in Nat
  BY <1>5 DEF Options
<1>7. Top.sol \in SolutionType
  BY <1>3 DEF Frame
<1> QED  BY <1>1, <1>2, <1>3, <1>4, <1>5, <1>6, <1>7, Zenon

\* A record put in the place of the top one.
LEMMA TopReplaced ==
  ASSUME IInv, Searching, NEW f \in Frame, f.sol = Top.sol, FrameOK(f, Len(stack), opts, library)
  PROVE  Same(stack, WithTop(f)) /\ Stacked(WithTop(f), opts, library)
<1>1. Stacked(stack, opts, library) /\ stack # <<>>
  BY TopFacts, Zenon
<1>2. f.sol = stack[Len(stack)].sol
  BY DEF Top
<1>3. WithTop(f) = [stack EXCEPT ![Len(stack)] = f]
  BY DEF WithTop
<1>4. /\ Stacked([stack EXCEPT ![Len(stack)] = f], opts, library)
      /\ Len([stack EXCEPT ![Len(stack)] = f]) = Len(stack)
      /\ \A k \in 1..Len(stack) : [stack EXCEPT ![Len(stack)] = f][k].sol = stack[k].sol
  BY <1>1, <1>2, StackTop
<1> QED  BY <1>3, <1>4, Zenon DEF Same

\* Pursue, when the step it takes is a legal one.
LEMMA PursueOutcome ==
  ASSUME IInv, Searching, Top.entered, Top.tried < Len(Top.insts),
         NEW new \in Successors(Top.sol), Pursue(new)
  PROVE  Goes \/ Finds
<1> DEFINE f == [Top EXCEPT !.tried = @ + 1]
<1>1. f \in Frame /\ f.sol = Top.sol /\ FrameOK(f, Len(stack), opts, library)
  BY TopFacts, InstanceTaken
<1> HIDE DEF f
<1>2. Same(stack, WithTop(f)) /\ Stacked(WithTop(f), opts, library)
  BY <1>1, TopReplaced
<1>3. Len(stack) <= opts.maxDepth
  BY TopFacts, Zenon DEF FrameOK
<1>4. CASE IsComplete(new)
  <2>1. phase' = "found" /\ answer' = <<new>> /\ stack' = WithTop(f)
    BY <1>4 DEF Pursue, f
  <2> QED  BY <1>2, <1>3, <1>4, <2>1, Zenon DEF Finds
<1>5. CASE ~IsComplete(new)
  <2>1. stack' = Append(WithTop(f), Call(new, Top.depth + 1)) /\ UNCHANGED <<phase, answer>>
    BY <1>5 DEF Pursue, f
  <2>2. Len(WithTop(f)) = Top.depth /\ WithTop(f) \in Seq(Frame)
    BY <1>2, TopFacts, Zenon DEF Same, Stacked
  <2> QED  BY <1>2, <1>3, <1>5, <2>1, <2>2, Zenon DEF Goes
<1> QED  BY <1>4, <1>5

LEMMA SearchOutcomes ==
  ASSUME IInv, SearchStep
  PROVE  /\ Stays \/ Gives \/ Goes \/ Finds
         /\ Searching /\ UNCHANGED <<opts, library, learning, file, runs>>
<1>1. CASE DepthLimit
  BY <1>1, Zenon DEF DepthLimit, Return, Gives
<1>2. CASE EnterOperator
  <2>1. Searching /\ ~Top.entered /\ Top.depth <= opts.maxDepth /\ Primitively(Top.sol)
    BY <1>2, Zenon DEF EnterOperator
  <2>2. PICK l \in OperatorListings(TopTask(Top.sol), Top.sol.state) : Enter(<<>>, l)
    BY <1>2, Zenon DEF EnterOperator
  <2> DEFINE f == [Top EXCEPT !.entered = TRUE, !.order = <<>>, !.insts = l]
  <2>3. stack' = WithTop(f) /\ UNCHANGED <<phase, opts, library, learning, answer, file, runs>>
    BY <2>2 DEF Enter
  <2>4. f \in Frame /\ f.sol = Top.sol /\ FrameOK(f, Len(stack), opts, library)
    BY <2>1, <2>2, TopFacts, OperatorEntered
  <2> HIDE DEF f
  <2>5. Same(stack, WithTop(f)) /\ Stacked(WithTop(f), opts, library)
    BY <2>1, <2>4, TopReplaced
  <2> QED  BY <2>1, <2>3, <2>5, Zenon DEF Stays
<1>3. CASE EnterMethod
  <2>1. Searching /\ ~Top.entered /\ Top.depth <= opts.maxDepth /\ ~Primitively(Top.sol)
    BY <1>3, Zenon DEF EnterMethod
  <2>2. PICK p \in Orders(Len(library)) :
          /\ ~opts.r => \A i \in 1..Len(library) : p[i] = i
          /\ Enter([i \in 1..Len(library) |-> library[p[i]]], <<>>)
    BY <1>3, Zenon DEF EnterMethod
  <2> DEFINE order == [i \in 1..Len(library) |-> library[p[i]]]
             f     == [Top EXCEPT !.entered = TRUE, !.order = order, !.insts = <<>>]
  <2>3. stack' = WithTop(f) /\ UNCHANGED <<phase, opts, library, learning, answer, file, runs>>
    BY <2>2 DEF Enter
  <2>4. order \in Seq(MethodIndex) /\ (~opts.r => order = library)
    <3>1. library \in Seq(MethodIndex)
      BY <2>1, TopFacts
    <3>2. \A i \in 1..Len(library) : p[i] \in 1..Len(library)
      BY DEF Orders
    <3>3. \A i \in 1..Len(library) : library[p[i]] \in MethodIndex
      BY <3>1, <3>2
    <3> QED  BY <2>2, <3>1, <3>3
  <2> HIDE DEF order
  <2>5. f \in Frame /\ f.sol = Top.sol /\ FrameOK(f, Len(stack), opts, library)
    BY <2>1, <2>4, TopFacts, MethodEntered
  <2> HIDE DEF f
  <2>6. Same(stack, WithTop(f)) /\ Stacked(WithTop(f), opts, library)
    BY <2>1, <2>5, TopReplaced
  <2> QED  BY <2>1, <2>3, <2>6, Zenon DEF Stays
<1>4. CASE NextMethod
  <2>1. Searching /\ Top.entered /\ Top.i < Len(Top.order)
    BY <1>4, Zenon DEF NextMethod
  <2>2. PICK l \in Listings(MethodInstances(Methods[Top.order[Top.i + 1]], TopTask(Top.sol), Top.sol.state),
                           RelevantVariables(Methods[Top.order[Top.i + 1]])) :
          stack' = WithTop([Top EXCEPT !.i = @ + 1, !.insts = l, !.tried = 0])
    BY <1>4, Zenon DEF NextMethod
  <2>3. UNCHANGED <<phase, opts, library, learning, answer, file, runs>>
    BY <1>4, Zenon DEF NextMethod
  <2> DEFINE f == [Top EXCEPT !.i = @ + 1, !.insts = l, !.tried = 0]
  <2>4. f \in Frame /\ f.sol = Top.sol /\ FrameOK(f, Len(stack), opts, library)
    BY <2>1, TopFacts, MethodChosen
  <2>5. stack' = WithTop(f)
    BY <2>2
  <2> HIDE DEF f
  <2>6. Same(stack, WithTop(f)) /\ Stacked(WithTop(f), opts, library)
    BY <2>1, <2>4, TopReplaced
  <2> QED  BY <2>1, <2>3, <2>5, <2>6, Zenon DEF Stays
<1>5. CASE TryOperator
  <2>1. Searching /\ Top.entered /\ Top.tried < Len(Top.insts) /\ Primitively(Top.sol)
    BY <1>5, Zenon DEF TryOperator
  <2> DEFINE sub == Top.insts[Top.tried + 1]
  <2>2. PICK o \in FirstNamed(TopTask(Top.sol).name) :
          IF OperatorRefused(Top.sol, o, sub) THEN Throw ELSE Pursue(ApplyOperator(Top.sol, o, sub))
    BY <1>5, Zenon DEF TryOperator
  <2>3. UNCHANGED <<opts, library, learning, file, runs>>
    BY <1>5, Zenon DEF TryOperator
  <2>4. InstanceOK(Top, sub)
    <3>1. Top.tried + 1 \in 1..Len(Top.insts)
      BY <2>1, TopFacts DEF Frame
    <3> QED  BY <2>1, <3>1, TopFacts, Zenon DEF FrameOK
  <2> HIDE DEF sub
  <2>5. PICK p \in FirstNamed(TopTask(Top.sol).name) :
          sub \in OperatorInstances(Operators[p], TopTask(Top.sol), Top.sol.state)
    BY <2>1, <2>4, Zenon DEF InstanceOK
  <2>6. /\ o \in 1..Len(Operators) /\ Operators[o].name = TopTask(Top.sol).name
        /\ sub \in OperatorInstances(Operators[o], TopTask(Top.sol), Top.sol.state)
    BY <2>5, FirstOperator
  <2>7. ~OperatorRefused(Top.sol, o, sub) /\ ApplyOperator(Top.sol, o, sub) \in Successors(Top.sol)
    BY <2>1, <2>6, TopFacts, OperatorInstance
  <2>8. Goes \/ Finds
    BY <2>1, <2>2, <2>7, PursueOutcome, Zenon
  <2> QED  BY <2>1, <2>3, <2>8, Zenon
<1>6. CASE TryMethod
  <2>1. Searching /\ Top.entered /\ Top.tried < Len(Top.insts) /\ ~Primitively(Top.sol)
    BY <1>6, Zenon DEF TryMethod
  <2> DEFINE sub == Top.insts[Top.tried + 1]
             m   == Top.order[Top.i]
  <2>2. IF MethodRefused(Top.sol, m, sub) THEN Throw ELSE Pursue(ApplyMethod(Top.sol, m, sub))
    BY <1>6, Zenon DEF TryMethod
  <2>3. UNCHANGED <<opts, library, learning, file, runs>>
    BY <1>6, Zenon DEF TryMethod
  <2>4. InstanceOK(Top, sub)
    <3>1. Top.tried + 1 \in 1..Len(Top.insts)
      BY <2>1, TopFacts DEF Frame
    <3> QED  BY <2>1, <3>1, TopFacts, Zenon DEF FrameOK
  <2> HIDE DEF sub
  <2>5. Top.i \in 1..Len(Top.order) /\ sub \in MethodInstances(Methods[m], TopTask(Top.sol), Top.sol.state)
    BY <2>1, <2>4, Zenon DEF InstanceOK
  <2>6. m \in 1..Len(Methods)
    <3>1. Top.order \in Seq(MethodIndex)
      BY <2>1, TopFacts DEF Frame
    <3> QED  BY <2>5, <3>1 DEF MethodIndex
  <2> HIDE DEF m
  <2>7. ~MethodRefused(Top.sol, m, sub) /\ ApplyMethod(Top.sol, m, sub) \in Successors(Top.sol)
    BY <2>1, <2>5, <2>6, TopFacts, MethodInstance
  <2>8. Goes \/ Finds
    BY <2>1, <2>2, <2>7, PursueOutcome, Zenon
  <2> QED  BY <2>1, <2>3, <2>8, Zenon
<1>7. CASE Backtrack
  BY <1>7, Zenon DEF Backtrack, Return, Gives
<1> QED  BY <1>1, <1>2, <1>3, <1>4, <1>5, <1>6, <1>7, Zenon DEF SearchStep

----------------------------------------------------------------------------
(* The invariant is kept                                                   *)

LEMMA Started == Init => IInv
<1> SUFFICES ASSUME Init
             PROVE  IInv
  OBVIOUS
<1> DEFINE order == [i \in MethodIndex |-> i]
<1>1. Len(Methods) \in Nat /\ MethodIndex = 1..Len(Methods)
  BY DomainAssumption DEF MethodIndex
<1>2. order \in Seq(MethodIndex) /\ Len(order) = Len(Methods) /\ \A i \in MethodIndex : order[i] = i
  BY <1>1
<1>3. Elems(order) = MethodIndex
  BY <1>1, <1>2 DEF Elems
<1> HIDE DEF order
<1>4. \A m \in MethodIndex : Unrated \in QEntry
  BY DEF Unrated, QEntry
<1>5. /\ file.order = order /\ library = order /\ qvalue = file.q
      /\ file.q \in [MethodIndex -> QEntry] /\ (DeclaresQValues => file.q = InitQ)
      /\ file \in [order : Seq(MethodIndex), q : [MethodIndex -> QEntry]]
  <2>1. InitQ \in [MethodIndex -> QEntry]
    BY SolverAssumption
  <2> QED  BY <1>2, <1>4, <2>1 DEF Init, order
<1>6. /\ phase = "load" /\ opts \in CommandLines /\ stack = <<>> /\ answer = <<>>
      /\ returned = {} /\ cost = <<>> /\ runs = 1
  BY Zenon DEF Init
<1>7. TypeOK
  <2>1. stack \in Seq(Frame) /\ answer \in Seq(SolutionType) /\ cost \in Seq(Nat) /\ runs \in Nat
    BY <1>6
  <2>2. phase \in Phases /\ returned \in SUBSET Nat
    BY <1>6 DEF Phases
  <2> QED  BY <1>2, <1>5, <1>6, <2>1, <2>2, Zenon DEF TypeOK
<1>8. Stacked(stack, opts, library) /\ Answered(answer, stack, opts)
  BY <1>6 DEF Stacked, Answered
<1>9. PhaseOK
  BY <1>6 DEF PhaseOK
<1>10. LibraryOK
  <2>1. \A m \in MethodIndex : DeclaresQValues =>
          InitQ[m].count <= file.q[m].count /\ file.q[m].count <= qvalue[m].count
    <3> TAKE m \in MethodIndex
    <3> HAVE DeclaresQValues
    <3>1. InitQ[m] \in QEntry
      BY SolverAssumption
    <3>2. InitQ[m].count \in Nat /\ file.q[m] = InitQ[m] /\ qvalue[m] = InitQ[m]
      BY <1>5, <3>1 DEF QEntry
    <3> QED  BY <3>2
  <2> QED  BY <1>2, <1>3, <1>5, <2>1, Zenon DEF LibraryOK, Whole
<1> QED  BY <1>6, <1>7, <1>8, <1>9, <1>10 DEF IInv

LEMMA SearchKeeps ==
  ASSUME IInv, SearchStep
  PROVE  IInv'
<1>1. /\ Searching /\ opts' = opts /\ library' = library /\ qvalue' = qvalue /\ returned' = returned
      /\ cost' = cost /\ file' = file /\ runs' = runs
  BY SearchOutcomes, Zenon DEF learning
<1>2. phase = "search" /\ stack # <<>> /\ answer = <<>>
  BY <1>1, Zenon DEF Searching, IInv, PhaseOK
<1>3. stack \in Seq(Frame) /\ Stacked(stack, opts, library)
  BY Zenon DEF IInv, Stacked
<1>4. /\ Stacked(stack', opts, library) /\ Answered(answer', stack', opts)
      /\ phase' \in {"search", "failed", "found"}
      /\ phase' = "found" => answer' # <<>>
      /\ phase' = "search" => answer' = <<>> /\ stack' # <<>>
      /\ phase' = "failed" => answer' = <<>> /\ stack' = <<>>
  <2>1. CASE Stays
    <3>1. stack' # <<>> /\ Stacked(stack', opts, library) /\ phase' = "search" /\ answer' = <<>>
      BY <1>2, <1>3, <2>1 DEF Stays, Same, Stacked
    <3> QED  BY <3>1 DEF Answered
  <2>2. CASE Gives
    <3>1. /\ Stacked(stack', opts, library) /\ Len(stack') = Len(stack) - 1 /\ Len(stack) \in Nat \ {0}
          /\ answer' = <<>>
      BY <1>2, <1>3, <2>2, StackPopped DEF Gives
    <3>2. stack' \in Seq(Frame)
      BY <3>1 DEF Stacked
    <3>3. CASE Len(stack) = 1
      BY <2>2, <3>1, <3>2, <3>3 DEF Gives, Answered
    <3>4. CASE Len(stack) # 1
      BY <1>2, <2>2, <3>1, <3>2, <3>4 DEF Gives, Answered
    <3> QED  BY <3>3, <3>4
  <2>3. CASE Goes
    <3>1. PICK new \in Successors(Top.sol), t \in Seq(Frame) :
            /\ ~IsComplete(new) /\ Same(stack, t) /\ Stacked(t, opts, library)
            /\ stack' = Append(t, Call(new, Len(t) + 1))
      BY <2>3, Zenon DEF Goes
    <3>2. Len(stack) <= opts.maxDepth /\ phase' = "search" /\ answer' = <<>> /\ opts \in Options
      BY <1>1, <1>2, <2>3, TopFacts, Zenon DEF Goes
    <3>3. Len(t) = Len(stack) /\ t # <<>> /\ t[Len(t)].sol = Top.sol
      <4>1. Len(t) = Len(stack) /\ Len(stack) \in 1..Len(stack)
        BY <1>2, <1>3, <3>1 DEF Same
      <4>2. t[Len(stack)].sol = stack[Len(stack)].sol
        BY <3>1, <4>1, Zenon DEF Same
      <4> QED  BY <4>1, <4>2 DEF Top
    <3>4. Stacked(stack', opts, library)
      BY <3>1, <3>2, <3>3, StackPushed
    <3>5. stack' # <<>>
      BY <3>1
    <3> QED  BY <3>2, <3>4, <3>5 DEF Answered
  <2>4. CASE Finds
    <3>1. PICK new \in Successors(Top.sol) : IsComplete(new) /\ answer' = <<new>>
      BY <2>4, Zenon DEF Finds
    <3>2. Same(stack, stack') /\ Stacked(stack', opts, library) /\ Len(stack) <= opts.maxDepth /\ phase' = "found"
      BY <2>4, Zenon DEF Finds
    <3>3. /\ new \in SolutionType /\ WellFormed(new) /\ Len(new.tree) <= opts.maxDepth
      <4>1. Len(Top.sol.tree) = Len(stack) - 1
        BY <1>1, TopFacts, Zenon DEF FrameOK
      <4>2. new \in SolutionType /\ WellFormed(new) /\ Len(new.tree) = Len(Top.sol.tree) + 1
        BY <1>1, <3>1, TopFacts, SuccessorFacts
      <4> QED  BY <1>1, <3>2, <4>1, <4>2, TopFacts
    <3>4. stack' # <<>> /\ stack'[Len(stack')].sol = Top.sol
      <4>1. Len(stack') = Len(stack) /\ Len(stack) \in 1..Len(stack)
        BY <1>2, <1>3, <3>2 DEF Same
      <4>2. stack'[Len(stack)].sol = stack[Len(stack)].sol
        BY <3>2, <4>1, Zenon DEF Same
      <4> QED  BY <1>2, <1>3, <4>1, <4>2 DEF Top
    <3>5. Answered(answer', stack', opts)
      <4>1. answer' \in Seq(SolutionType) /\ Len(answer') <= 1 /\ answer' # <<>> /\ answer'[1] = new
        BY <3>1, <3>3
      <4> QED  BY <3>1, <3>3, <3>4, <4>1, Zenon DEF Answered
    <3> QED  BY <3>1, <3>2, <3>5
  <2> QED  BY <2>1, <2>2, <2>3, <2>4, SearchOutcomes, Zenon
<1>5. TypeOK'
  <2>1. stack' \in Seq(Frame) /\ answer' \in Seq(SolutionType)
    BY <1>4, Zenon DEF Stacked, Answered
  <2>2. phase' \in Phases
    BY <1>4 DEF Phases
  <2>3. /\ opts' \in CommandLines /\ library' \in Seq(MethodIndex) /\ qvalue' \in [MethodIndex -> QEntry]
        /\ returned' \in SUBSET Nat /\ cost' \in Seq(Nat)
        /\ file' \in [order : Seq(MethodIndex), q : [MethodIndex -> QEntry]] /\ runs' \in Nat
    BY <1>1, Zenon DEF IInv, TypeOK
  <2> QED  BY <2>1, <2>2, <2>3, Zenon DEF TypeOK
<1>6. PhaseOK'
  BY <1>4 DEF PhaseOK
<1>7. LibraryOK'
  BY <1>1, Zenon DEF IInv, LibraryOK
<1>8. phase' = "search" /\ opts'.q => Sorted(qvalue', library')
  BY <1>1, <1>2, Zenon DEF IInv
<1> QED  BY <1>1, <1>4, <1>5, <1>6, <1>7, <1>8, Zenon DEF IInv

LEMMA QLessAsymmetric ==
  ASSUME NEW a \in QEntry, NEW b \in QEntry, QLess(a, b)
  PROVE  ~QLess(b, a)
<1> DEFINE num(e) == IF e.count = 0 THEN e.prior ELSE e.total
           den(e) == IF e.count = 0 THEN 1 ELSE e.count
<1>1. num(a) \in Nat /\ num(b) \in Nat /\ den(a) \in Nat /\ den(b) \in Nat
  BY DEF QEntry
<1> HIDE DEF num, den
<1>2. PICK x \in Nat : x = num(a) * den(b)
  BY <1>1
<1>3. PICK y \in Nat : y = num(b) * den(a)
  BY <1>1
<1>4. QLess(a, b) <=> x < y
  BY <1>2, <1>3 DEF QLess, num, den
<1>5. QLess(b, a) <=> y < x
  BY <1>2, <1>3 DEF QLess, num, den
<1> QED  BY <1>4, <1>5

LEMMA SortedByFacts ==
  ASSUME NEW q \in [MethodIndex -> QEntry], NEW old \in Seq(MethodIndex), Whole(old), NEW new,
         SortedBy(q, old, new)
  PROVE  new \in Seq(MethodIndex) /\ Whole(new) /\ Sorted(q, new)
<1> DEFINE n == Len(old)
<1>1. n \in Nat /\ \A i \in 1..n : old[i] \in MethodIndex
  OBVIOUS
<1>2. PICK p \in Orders(n) :
        /\ new = [i \in 1..n |-> old[p[i]]]
        /\ \A i, j \in 1..n : i < j =>
             \/ QLess(q[new[i]], q[new[j]])
             \/ ~QLess(q[new[j]], q[new[i]]) /\ p[i] < p[j]
  BY Zenon DEF SortedBy
<1>3. p \in [1..n -> 1..n] /\ \A k \in 1..n : \E i \in 1..n : p[i] = k
  BY DEF Orders
<1> HIDE DEF n
<1>4. new \in Seq(MethodIndex) /\ Len(new) = n /\ \A i \in 1..n : new[i] = old[p[i]]
  <2>1. \A i \in 1..n : old[p[i]] \in MethodIndex
    BY <1>1, <1>3
  <2>2. new = [i \in 1..n |-> old[p[i]]]
    BY <1>2, Zenon
  <2> QED  BY <1>1, <2>1, <2>2
<1>5. Elems(new) = Elems(old)
  <2>1. ASSUME NEW x \in Elems(old)
        PROVE  x \in Elems(new)
    <3>1. PICK k \in 1..n : x = old[k]
      BY DEF Elems, n
    <3>2. PICK i \in 1..n : p[i] = k
      BY <1>3
    <3> QED  BY <1>4, <3>1, <3>2 DEF Elems
  <2>2. ASSUME NEW x \in Elems(new)
        PROVE  x \in Elems(old)
    <3>1. PICK i \in 1..n : x = old[p[i]]
      BY <1>4 DEF Elems
    <3> QED  BY <1>3, <3>1 DEF Elems, n
  <2> QED  BY <2>1, <2>2
<1>6. ASSUME NEW i \in 1..n, NEW j \in 1..n, i < j
      PROVE  ~QLess(q[new[j]], q[new[i]])
  <2>1. q[new[i]] \in QEntry /\ q[new[j]] \in QEntry
    BY <1>4
  <2>2. QLess(q[new[i]], q[new[j]]) \/ ~QLess(q[new[j]], q[new[i]])
    BY <1>2, <1>6, Zenon
  <2> QED  BY <2>1, <2>2, QLessAsymmetric, Zenon
<1> QED  BY <1>4, <1>5, <1>6 DEF Whole, Sorted, n

LEMMA StartKeeps ==
  ASSUME IInv, Start
  PROVE  IInv'
<1>1. /\ phase = "load" /\ answer = <<>> /\ stack = <<>>
      /\ opts' = opts /\ qvalue' = qvalue /\ returned' = returned /\ cost' = cost
      /\ file' = file /\ runs' = runs
  BY Zenon DEF Start, IInv, PhaseOK, learning
<1>2. /\ opts \in CommandLines /\ library \in Seq(MethodIndex) /\ qvalue \in [MethodIndex -> QEntry]
      /\ returned \in SUBSET Nat /\ cost \in Seq(Nat)
      /\ file \in [order : Seq(MethodIndex), q : [MethodIndex -> QEntry]] /\ runs \in Nat
  BY Zenon DEF IInv, TypeOK
<1>3. opts \in Options /\ opts.maxDepth \in Nat
  BY <1>2, SolverAssumption DEF Options
<1>4. LibraryOK
  BY Zenon DEF IInv
<1>5. library' \in Seq(MethodIndex) /\ Whole(library') /\ (opts.q => Sorted(qvalue, library'))
  <2>1. Whole(library)
    BY <1>4, Zenon DEF LibraryOK
  <2>2. CASE opts.q
    BY <1>2, <2>1, <2>2, SortedByFacts DEF Start
  <2>3. CASE ~opts.q
    BY <1>2, <2>1, <2>3 DEF Start
  <2> QED  BY <2>2, <2>3
<1>6. /\ Stacked(stack', opts, library') /\ Answered(answer', stack', opts)
      /\ \/ phase' = "save" /\ answer' # <<>>
         \/ phase' = "search" /\ answer' = <<>> /\ stack' # <<>>
  <2>1. CASE IsComplete(FromProblem)
    <3>1. phase' = "save" /\ answer' = <<FromProblem>> /\ stack' = <<>>
      BY <1>1, <2>1, Zenon DEF Start
    <3>2. Len(FromProblem.tree) <= opts.maxDepth
      BY <1>3 DEF FromProblem
    <3>3. Stacked(stack', opts, library')
      BY <3>1 DEF Stacked
    <3>4. answer' \in Seq(SolutionType) /\ Len(answer') <= 1 /\ answer' # <<>> /\ answer'[1] = FromProblem
      BY <3>1, FromProblemType
    <3>5. Answered(answer', stack', opts)
      BY <2>1, <3>1, <3>2, <3>4, FromProblemWellFormed, Zenon DEF Answered
    <3> QED  BY <3>1, <3>3, <3>4, <3>5
  <2>2. CASE ~IsComplete(FromProblem)
    <3>1. phase' = "search" /\ answer' = <<>> /\ stack' = <<Call(FromProblem, 1)>>
      BY <1>1, <2>2, Zenon DEF Start
    <3>2. Stacked(stack', opts, library') /\ stack' # <<>>
      BY <1>3, <2>2, <3>1, StackStarted
    <3>3. Answered(answer', stack', opts)
      BY <3>1 DEF Answered
    <3> QED  BY <3>1, <3>2, <3>3
  <2> QED  BY <2>1, <2>2
<1>7. TypeOK'
  <2>1. stack' \in Seq(Frame) /\ answer' \in Seq(SolutionType)
    BY <1>6, Zenon DEF Stacked, Answered
  <2>2. phase' \in Phases
    BY <1>6 DEF Phases
  <2> QED  BY <1>1, <1>2, <1>5, <2>1, <2>2, Zenon DEF TypeOK
<1>8. PhaseOK'
  BY <1>6 DEF PhaseOK
<1>9. LibraryOK'
  BY <1>1, <1>4, <1>5, Zenon DEF LibraryOK
<1> QED  BY <1>1, <1>5, <1>6, <1>7, <1>8, <1>9, Zenon DEF IInv

\* DoThisQValue's step changes one cost and one Q-value, within their types.
LEMMA ChargeFacts ==
  ASSUME IInv, phase = "learn", NEW n \in 1..Len(Plan), NEW c \in Nat, Charge(n, c)
  PROVE  /\ cost' \in Seq(Nat) /\ Len(cost') = Len(cost) /\ returned' \in SUBSET Nat
         /\ qvalue' \in [MethodIndex -> QEntry]
         /\ \A m \in MethodIndex : qvalue[m].count <= qvalue'[m].count
<1>1. /\ answer \in Seq(SolutionType) /\ answer # <<>> /\ WellFormed(answer[1])
      /\ Len(cost) = Len(Plan) /\ cost \in Seq(Nat) /\ returned \in SUBSET Nat
      /\ qvalue \in [MethodIndex -> QEntry]
  BY Zenon DEF IInv, TypeOK, PhaseOK, Answered
<1>2. Plan \in Seq(NodeType)
  BY <1>1, SolutionFields DEF Plan
<1>3. Plan[n] \in NodeType /\ Plan[n].parent < n
  <2>1. Plan[n] \in NodeType
    BY <1>2
  <2>2. \A k \in 1..Len(answer[1].tree) : answer[1].tree[k].parent < k
    BY <1>1, Zenon DEF WellFormed
  <2> QED  BY <2>1, <2>2, Zenon DEF Plan
<1>4. Plan[n].parent \in Nat
  BY <1>3 DEF NodeType
<1>5. cost' \in Seq(Nat) /\ Len(cost') = Len(cost)
  <2>1. CASE Plan[n].parent = 0
    BY <1>1, <2>1 DEF Charge
  <2>2. CASE Plan[n].parent # 0
    <3> DEFINE q == Plan[n].parent
    <3>1. Len(Plan) \in Nat /\ Len(cost) = Len(Plan) /\ n \in 1..Len(Plan)
      BY <1>1, <1>2
    <3>2. q \in Nat /\ q # 0 /\ q < n
      BY <1>3, <1>4, <2>2
    <3> HIDE DEF q
    <3>3. q \in 1..Len(cost)
      BY <3>1, <3>2
    <3>4. PICK p \in 1..Len(cost) : p = Plan[n].parent
      BY <3>3, Zenon DEF q
    <3>5. cost' = [cost EXCEPT ![p] = @ + c]
      BY <2>2, <3>4 DEF Charge
    <3>6. cost \in Seq(Nat) /\ cost[p] + c \in Nat
      BY <1>1
    <3>7. cost' = [cost EXCEPT ![p] = cost[p] + c]
      BY <3>5
    <3> QED  BY <3>6, <3>7
  <2> QED  BY <2>1, <2>2
<1>6. returned' \in SUBSET Nat
  BY <1>1, <1>2 DEF Charge
<1>7. \A e \in QEntry : UpdateQValue(e, c) \in QEntry /\ UpdateQValue(e, c).count = e.count + 1
  <2> TAKE e \in QEntry
  <2>1. e.count + 1 \in Nat /\ e.total + c \in Nat
    BY DEF QEntry
  <2>2. UpdateQValue(e, c) = [e EXCEPT !.count = e.count + 1, !.total = e.total + c]
    BY DEF UpdateQValue
  <2>3. UpdateQValue(e, c) \in QEntry
    BY <2>1, <2>2 DEF QEntry
  <2>4. UpdateQValue(e, c).count = e.count + 1
    BY <2>2 DEF QEntry
  <2> QED  BY <2>3, <2>4
<1>8. ASSUME NEW m \in MethodIndex
      PROVE  qvalue'[m] \in QEntry /\ qvalue[m].count <= qvalue'[m].count
  <2>1. qvalue[m] \in QEntry /\ qvalue[m].count \in Nat
    BY <1>1 DEF QEntry
  <2>2. qvalue'[m] \in {UpdateQValue(qvalue[m], c), qvalue[m]}
    BY DEF Charge
  <2> QED  BY <1>7, <2>1, <2>2
<1>9. qvalue' \in [MethodIndex -> QEntry]
  <2>1. qvalue' = [m \in MethodIndex |-> qvalue'[m]]
    BY DEF Charge
  <2> QED  BY <1>8, <2>1
<1> QED  BY <1>5, <1>6, <1>8, <1>9

\* What comes after the search leaves the solutions alone.
AfterSearch == BeginLearning \/ LearnNode \/ EndLearning \/ ReportFailure \/ WriteDomain

LEMMA AfterSearchKeeps ==
  ASSUME IInv, AfterSearch
  PROVE  IInv'
<1>1. /\ TypeOK /\ Stacked(stack, opts, library) /\ Answered(answer, stack, opts) /\ PhaseOK /\ LibraryOK
      /\ opts' = opts /\ library' = library /\ stack' = stack /\ answer' = answer /\ runs' = runs
  BY Zenon DEF IInv, AfterSearch, BeginLearning, LearnNode, EndLearning, ReportFailure, WriteDomain
<1>2. /\ opts \in CommandLines /\ library \in Seq(MethodIndex) /\ qvalue \in [MethodIndex -> QEntry]
      /\ stack \in Seq(Frame) /\ answer \in Seq(SolutionType)
      /\ returned \in SUBSET Nat /\ cost \in Seq(Nat)
      /\ file \in [order : Seq(MethodIndex), q : [MethodIndex -> QEntry]] /\ runs \in Nat
  BY <1>1, Zenon DEF TypeOK
<1>3. /\ \/ phase' \in {"save", "done"} /\ (answer' = <<>> => stack' = <<>>)
         \/ phase' = "exception" /\ answer' # <<>>
         \/ phase' = "learn" /\ answer' # <<>> /\ Len(cost') = Len(Plan)
      /\ returned' \in SUBSET Nat /\ cost' \in Seq(Nat) /\ qvalue' \in [MethodIndex -> QEntry]
      /\ file' \in [order : Seq(MethodIndex), q : [MethodIndex -> QEntry]]
      /\ LibraryOK'
  <2>1. CASE BeginLearning
    <3>1. Len(Plan) \in Nat /\ answer # <<>>
      <4>1. answer # <<>>
        BY <1>1, <2>1 DEF PhaseOK, BeginLearning
      <4>2. answer[1] \in SolutionType
        BY <1>2, <4>1
      <4> QED  BY <4>1, <4>2, SolutionFields DEF Plan
    <3>2. /\ cost' = [n \in 1..Len(Plan) |-> 0] /\ returned' = {} /\ qvalue' = qvalue /\ file' = file
          /\ phase' \in {"learn", "save"}
      BY <2>1 DEF BeginLearning
    <3>3. cost' \in Seq(Nat) /\ Len(cost') = Len(Plan)
      BY <3>1, <3>2
    <3>4. LibraryOK'
      BY <1>1, <3>2, Zenon DEF LibraryOK
    <3> QED  BY <1>1, <1>2, <3>1, <3>2, <3>3, <3>4
  <2>2. CASE LearnNode
    <3>1. phase = "learn" /\ answer # <<>> /\ Len(cost) = Len(Plan) /\ file' = file
      BY <1>1, <2>2 DEF PhaseOK, LearnNode
    <3>2. PICK n \in 1..Len(Plan) :
            \/ phase' = "exception" /\ UNCHANGED learning
            \/ Plan[n].oper /\ \E o \in FirstNamed(Plan[n].task.name) : Charge(n, Operators[o].cost)
            \/ ~Plan[n].oper /\ Charge(n, cost[n])
      BY <2>2, Zenon DEF LearnNode
    <3>3. CASE phase' = "exception" /\ UNCHANGED learning
      <4>1. LibraryOK'
        BY <1>1, <3>1, <3>3, Zenon DEF LibraryOK, learning
      <4> QED  BY <1>1, <1>2, <3>1, <3>3, <4>1, Zenon DEF learning
    <3>4. CASE \E c \in Nat : Charge(n, c)
      <4>1. PICK c \in Nat : Charge(n, c)
        BY <3>4
      <4>2. /\ cost' \in Seq(Nat) /\ Len(cost') = Len(cost) /\ returned' \in SUBSET Nat
            /\ qvalue' \in [MethodIndex -> QEntry]
            /\ \A m \in MethodIndex : qvalue[m].count <= qvalue'[m].count
        BY <3>1, <4>1, ChargeFacts
      <4>3. phase' = "learn"
        BY <3>1, <4>1 DEF Charge
      <4>4. LibraryOK'
        <5>1. ASSUME DeclaresQValues, NEW m \in MethodIndex
              PROVE  InitQ[m].count <= file.q[m].count /\ file.q[m].count <= qvalue'[m].count
          <6>1. InitQ[m].count <= file.q[m].count /\ file.q[m].count <= qvalue[m].count
            BY <1>1, <5>1, Zenon DEF LibraryOK
          <6>2. file.q[m].count \in Nat /\ qvalue[m].count \in Nat /\ qvalue'[m].count \in Nat
            BY <1>2, <4>2 DEF QEntry
          <6> QED  BY <4>2, <6>1, <6>2
        <5> QED  BY <1>1, <3>1, <5>1, Zenon DEF LibraryOK
      <4> QED  BY <1>1, <1>2, <3>1, <4>2, <4>3, <4>4
    <3>5. CASE Plan[n].oper /\ \E o \in FirstNamed(Plan[n].task.name) : Charge(n, Operators[o].cost)
      <4>1. PICK o \in FirstNamed(Plan[n].task.name) : Charge(n, Operators[o].cost)
        BY <3>5
      <4>2. Operators[o] \in OperatorType
        BY FirstOperator, OperatorFacts
      <4>3. Operators[o].cost \in Nat
        BY <4>2 DEF OperatorType
      <4> QED  BY <3>4, <4>1, <4>3
    <3>6. CASE ~Plan[n].oper /\ Charge(n, cost[n])
      <4>1. cost[n] \in Nat
        BY <1>2, <3>1
      <4> QED  BY <3>4, <3>6, <4>1
    <3> QED  BY <3>2, <3>3, <3>5, <3>6
  <2>3. CASE EndLearning \/ ReportFailure
    <3>1. phase' = "save" /\ qvalue' = qvalue /\ returned' = returned /\ cost' = cost /\ file' = file
      BY <2>3 DEF EndLearning, ReportFailure, learning
    <3>2. answer = <<>> => stack = <<>>
      BY <1>1, <2>3 DEF PhaseOK, EndLearning, ReportFailure
    <3>3. LibraryOK'
      BY <1>1, <3>1, Zenon DEF LibraryOK
    <3> QED  BY <1>1, <1>2, <3>1, <3>2, <3>3
  <2>4. CASE WriteDomain
    <3>1. phase' = "done" /\ qvalue' = qvalue /\ returned' = returned /\ cost' = cost
      BY <2>4 DEF WriteDomain, learning
    <3>2. answer = <<>> => stack = <<>>
      BY <1>1, <2>4 DEF PhaseOK, WriteDomain
    <3>3. \/ file' = file
          \/ /\ file'.order = library
             /\ file'.q = (IF DeclaresQValues THEN qvalue ELSE [m \in MethodIndex |-> Unrated])
             /\ file' = [order |-> file'.order, q |-> file'.q]
      BY <2>4 DEF WriteDomain
    <3>4. \A m \in MethodIndex : Unrated \in QEntry
      BY DEF Unrated, QEntry
    <3>5. file' \in [order : Seq(MethodIndex), q : [MethodIndex -> QEntry]]
      BY <1>2, <3>3, <3>4
    <3>6. LibraryOK'
      <4>1. Whole(file'.order)
        BY <1>1, <3>3, Zenon DEF LibraryOK
      <4>2. ASSUME DeclaresQValues, NEW m \in MethodIndex
            PROVE  InitQ[m].count <= file'.q[m].count /\ file'.q[m].count <= qvalue[m].count
        <5>1. InitQ[m].count <= file.q[m].count /\ file.q[m].count <= qvalue[m].count
          BY <1>1, <4>2, Zenon DEF LibraryOK
        <5>2. InitQ[m] \in QEntry /\ file.q[m] \in QEntry /\ qvalue[m] \in QEntry
          BY <1>2, SolverAssumption
        <5>3. InitQ[m].count \in Nat /\ file.q[m].count \in Nat /\ qvalue[m].count \in Nat
          BY <5>2 DEF QEntry
        <5> QED  BY <3>3, <4>2, <5>1, <5>3
      <4> QED  BY <1>1, <3>1, <4>1, <4>2, Zenon DEF LibraryOK
    <3> QED  BY <1>1, <1>2, <3>1, <3>2, <3>5, <3>6
  <2> QED  BY <2>1, <2>2, <2>3, <2>4, Zenon DEF AfterSearch
<1>4. TypeOK'
  <2>1. phase' \in Phases
    BY <1>3 DEF Phases
  <2> QED  BY <1>1, <1>2, <1>3, <2>1, Zenon DEF TypeOK
<1>5. PhaseOK'
  <2>1. Plan' = Plan
    BY <1>1 DEF Plan
  <2> QED  BY <1>3, <2>1 DEF PhaseOK
<1>6. phase' # "search"
  BY <1>3
<1> QED  BY <1>1, <1>3, <1>4, <1>5, <1>6, Zenon DEF IInv

LEMMA RunAgainKeeps ==
  ASSUME IInv, RunAgain
  PROVE  IInv'
<1>1. /\ phase' = "load" /\ opts' \in CommandLines /\ library' = file.order /\ qvalue' = file.q
      /\ stack' = <<>> /\ answer' = <<>> /\ returned' = {} /\ cost' = <<>> /\ file' = file
      /\ runs' = runs + 1
  BY Zenon DEF RunAgain
<1>2. /\ file \in [order : Seq(MethodIndex), q : [MethodIndex -> QEntry]] /\ runs \in Nat /\ LibraryOK
  BY Zenon DEF IInv, TypeOK
<1>3. library' \in Seq(MethodIndex) /\ qvalue' \in [MethodIndex -> QEntry] /\ runs' \in Nat
  BY <1>1, <1>2
<1>4. TypeOK'
  <2>1. stack' \in Seq(Frame) /\ answer' \in Seq(SolutionType) /\ cost' \in Seq(Nat) /\ returned' \in SUBSET Nat
    BY <1>1
  <2>2. phase' \in Phases
    BY <1>1 DEF Phases
  <2> QED  BY <1>1, <1>2, <1>3, <2>1, <2>2, Zenon DEF TypeOK
<1>5. Stacked(stack', opts', library') /\ Answered(answer', stack', opts')
  BY <1>1 DEF Stacked, Answered
<1>6. PhaseOK'
  BY <1>1 DEF PhaseOK
<1>7. LibraryOK'
  <2>1. ASSUME DeclaresQValues, NEW m \in MethodIndex
        PROVE  InitQ[m].count <= file.q[m].count /\ file.q[m].count <= file.q[m].count
    <3>1. InitQ[m].count <= file.q[m].count
      BY <1>2, <2>1, Zenon DEF LibraryOK
    <3>2. file.q[m].count \in Nat
      BY <1>2 DEF QEntry
    <3> QED  BY <3>1, <3>2
  <2>2. Whole(file.order)
    BY <1>2, Zenon DEF LibraryOK
  <2> QED  BY <1>1, <2>1, <2>2, Zenon DEF LibraryOK
<1>8. phase' # "search"
  BY <1>1
<1> QED  BY <1>4, <1>5, <1>6, <1>7, <1>8, Zenon DEF IInv

LEMMA Invariance == Spec => []IInv
<1>1. IInv /\ [Next]_vars => IInv'
  <2> SUFFICES ASSUME IInv, [Next]_vars
               PROVE  IInv'
    OBVIOUS
  <2>1. CASE Next
    BY <2>1, StartKeeps, SearchKeeps, AfterSearchKeeps, RunAgainKeeps, Zenon
       DEF Next, Step, SearchStep, AfterSearch
  <2>2. CASE UNCHANGED vars
    <3>1. /\ phase' = phase /\ opts' = opts /\ library' = library /\ qvalue' = qvalue
          /\ stack' = stack /\ answer' = answer /\ returned' = returned /\ cost' = cost
          /\ file' = file /\ runs' = runs
      BY <2>2, Zenon DEF vars
    <3>2. Plan' = Plan
      BY <3>1 DEF Plan
    <3> QED  BY <3>1, <3>2, Zenon DEF IInv, TypeOK, PhaseOK, LibraryOK
  <2> QED  BY <2>1, <2>2
<1> QED  BY <1>1, Started, PTL DEF Spec

----------------------------------------------------------------------------
(* What the invariant says                                                 *)

\* The variables of htn-solver2 keep their types: in particular every task on
\* an agenda is ground and every Q-value is a sum of costs.
THEOREM Typing == Spec => []TypeOK
<1>1. IInv => TypeOK
  BY Zenon DEF IInv
<1> QED  BY <1>1, Invariance, PTL

\* The forest and the agenda keep the shape FindEquiv, AddChild and DoThisQValue
\* rely on: no outstanding task has lost its parent.
THEOREM ForestsKeepTheirShape == Spec => []SolutionsWellFormed
<1>1. IInv => SolutionsWellFormed
  <2> SUFFICES ASSUME IInv, NEW sol \in Solutions
               PROVE  WellFormed(sol)
    BY Zenon DEF SolutionsWellFormed
  <2>1. CASE sol \in Elems(answer)
    <3>1. PICK i \in 1..Len(answer) : sol = answer[i]
      BY <2>1 DEF Elems
    <3>2. answer \in Seq(SolutionType) /\ Len(answer) <= 1
      BY Zenon DEF IInv, Answered
    <3>3. sol = answer[1] /\ answer # <<>>
      BY <3>1, <3>2
    <3> QED  BY <3>3, Zenon DEF IInv, Answered
  <2>2. CASE \E k \in 1..Len(stack) : sol = stack[k].sol
    BY <2>2, Zenon DEF IInv, Stacked, FrameOK
  <2> QED  BY <2>1, <2>2 DEF Solutions
<1> QED  BY <1>1, Invariance, PTL

\* The recursion never goes deeper, and no solution has more steps, than
\* --max_depth allows.
THEOREM DepthIsBounded == Spec => []WorkWithinDepth
<1>1. IInv => WorkWithinDepth
  <2> SUFFICES ASSUME IInv
               PROVE  WorkWithinDepth
    OBVIOUS
  <2>1. ASSUME NEW k \in 1..Len(stack)
        PROVE  stack[k].depth = k /\ Len(stack[k].sol.tree) = k - 1 /\ k - 1 <= opts.maxDepth
    BY Zenon DEF IInv, Stacked, FrameOK
  <2>2. ASSUME NEW sol \in Elems(answer)
        PROVE  Len(sol.tree) <= opts.maxDepth
    <3>1. PICK i \in 1..Len(answer) : sol = answer[i]
      BY DEF Elems
    <3>2. answer \in Seq(SolutionType) /\ Len(answer) <= 1
      BY Zenon DEF IInv, Answered
    <3>3. sol = answer[1] /\ answer # <<>>
      BY <3>1, <3>2
    <3> QED  BY <3>3, Zenon DEF IInv, Answered
  <2> QED  BY <2>1, <2>2, Zenon DEF WorkWithinDepth
<1> QED  BY <1>1, Invariance, PTL

\* No series of runs loses a method or an observation of the domain file.
THEOREM DomainFileIsKept == Spec => []LibraryKept
<1>1. IInv => LibraryKept
  <2> SUFFICES ASSUME IInv
               PROVE  LibraryKept
    OBVIOUS
  <2>1. Whole(file.order)
    BY Zenon DEF IInv, LibraryOK
  <2>2. ASSUME DeclaresQValues, NEW m \in MethodIndex
        PROVE  file.q[m].count >= InitQ[m].count
    <3>1. InitQ[m].count <= file.q[m].count
      BY <2>2, Zenon DEF IInv, LibraryOK
    <3>2. file \in [order : Seq(MethodIndex), q : [MethodIndex -> QEntry]]
      BY Zenon DEF IInv, TypeOK
    <3>3. file.q[m] \in QEntry /\ InitQ[m] \in QEntry
      BY <3>2, SolverAssumption
    <3> QED  BY <3>1, <3>3 DEF QEntry
  <2> QED  BY <2>1, <2>2, Zenon DEF LibraryKept, Whole
<1> QED  BY <1>1, Invariance, PTL

\* With --use_qvalues no method is tried before an applicable one with a lower
\* Q-value.
THEOREM BetterMethodsComeFirst == Spec => []LowestQValueFirst
<1>1. IInv => LowestQValueFirst
  <2> SUFFICES ASSUME IInv, phase = "search", opts.q, ~opts.r, NEW k \in 1..Len(stack),
                      stack[k].insts # <<>>, ~Primitively(stack[k].sol), NEW m \in MethodIndex,
                      QLess(qvalue[m], qvalue[stack[k].order[stack[k].i]])
               PROVE  \E j \in 1..(stack[k].i - 1) : stack[k].order[j] = m
    BY Zenon DEF LowestQValueFirst
  <2> DEFINE f == stack[k]
  <2>1. /\ stack \in Seq(Frame) /\ FrameOK(f, k, opts, library) /\ Sorted(qvalue, library)
        /\ library \in Seq(MethodIndex) /\ Elems(library) = MethodIndex
        /\ qvalue \in [MethodIndex -> QEntry]
    BY Zenon DEF IInv, Stacked, LibraryOK, Whole, TypeOK
  <2>2. f \in Frame
    BY <2>1
  <2> HIDE DEF f
  <2>3. f.insts \in Seq(SubstitutionType) /\ f.i \in Nat
    BY <2>2 DEF Frame
  <2>4. f.insts # <<>> /\ ~Primitively(f.sol)
    BY DEF f
  <2>5. InstanceOK(f, f.insts[1])
    <3>1. 1 \in 1..Len(f.insts)
      BY <2>3, <2>4
    <3> QED  BY <2>1, <3>1, Zenon DEF FrameOK
  <2>6. f.i \in 1..Len(f.order) /\ f.order = library
    BY <2>1, <2>4, <2>5, Zenon DEF InstanceOK, FrameOK
  <2>7. PICK j \in 1..Len(library) : library[j] = m
    BY <2>1 DEF Elems
  <2>8. f.i \in 1..Len(library) /\ QLess(qvalue[library[j]], qvalue[library[f.i]])
    BY <2>6, <2>7 DEF f
  <2>9. ~(f.i < j)
    BY <2>1, <2>8, Zenon DEF Sorted
  <2>10. f.i # j
    <3>1. qvalue[m] \in QEntry
      BY <2>1
    <3> QED  BY <2>7, <2>8, <3>1, QLessAsymmetric
  <2>11. j \in 1..(f.i - 1) /\ f.order[j] = m
    BY <2>6, <2>7, <2>8, <2>9, <2>10
  <2> QED  BY <2>11 DEF f
<1> QED  BY <1>1, Invariance, PTL

----------------------------------------------------------------------------
(* The solver stops over missing ids only                                  *)

\* A name that some operator has is the name of a first one.
LEMMA SomeFirstNamed ==
  ASSUME NEW o \in 1..Len(Operators)
  PROVE  FirstNamed(Operators[o].name) # {}
<1> DEFINE S == {p \in 1..Len(Operators) : Operators[p].name = Operators[o].name}
<1>1. Len(Operators) \in Nat
  BY DomainAssumption
<1>2. S \in SUBSET Nat /\ o \in S
  BY <1>1
<1>3. PICK p \in S : \A q \in S : p <= q
  <2> HIDE DEF S
  <2> QED  BY <1>2, Least
<1>4. p \in FirstNamed(Operators[o].name)
  BY <1>3 DEF FirstNamed
<1> QED  BY <1>4

\* So is the id of a method, as the library holds every method.
LEMMA SomeFirstWithId ==
  ASSUME NEW m \in MethodIndex, library \in Seq(MethodIndex), Whole(library)
  PROVE  FirstWithId(Methods[m].id) # {}
<1> DEFINE S == {k \in 1..Len(library) : Methods[library[k]].id = Methods[m].id}
<1>1. PICK k \in 1..Len(library) : library[k] = m
  BY DEF Whole, Elems
<1>2. S \in SUBSET Nat /\ k \in S
  BY <1>1
<1>3. PICK i \in S : \A j \in S : i <= j
  <2> HIDE DEF S
  <2> QED  BY <1>2, Least
<1>4. library[i] \in FirstWithId(Methods[m].id)
  BY <1>3 DEF FirstWithId
<1> QED  BY <1>4

\* Every action in the forest of sol is one of an operator of the domain.
Backed(sol) ==
  \A n \in 1..Len(sol.tree) :
    sol.tree[n].oper => \E o \in 1..Len(Operators) : Operators[o].name = sol.tree[n].task.name

LEMMA SuccessorBacked ==
  ASSUME NEW sol \in SolutionType, WellFormed(sol), ~IsComplete(sol), Backed(sol),
         NEW new \in Successors(sol)
  PROVE  Backed(new)
<1>1. ASSUME NEW node \in NodeType, new.tree = Append(sol.tree, node),
             node.oper => \E o \in 1..Len(Operators) : Operators[o].name = node.task.name
      PROVE  Backed(new)
  <2>1. /\ sol.tree \in Seq(NodeType) /\ Len(new.tree) = Len(sol.tree) + 1 /\ Len(sol.tree) \in Nat
        /\ new.tree[Len(sol.tree) + 1] = node
        /\ \A n \in 1..Len(sol.tree) : new.tree[n] = sol.tree[n]
    BY <1>1, SolutionFields, AppendProperties
  <2>2. ASSUME NEW n \in 1..Len(new.tree), new.tree[n].oper
        PROVE  \E o \in 1..Len(Operators) : Operators[o].name = new.tree[n].task.name
    <3>1. CASE n = Len(sol.tree) + 1
      BY <1>1, <2>1, <2>2, <3>1
    <3>2. CASE n # Len(sol.tree) + 1
      <4>1. n \in 1..Len(sol.tree)
        BY <2>1, <3>2
      <4> QED  BY <2>1, <2>2, <4>1, Zenon DEF Backed
    <3> QED  BY <3>1, <3>2
  <2> QED  BY <2>2, Zenon DEF Backed
<1>2. CASE \E o \in 1..Len(Operators) : new \in ByOperator(sol, o)
  <2>1. PICK o \in 1..Len(Operators) : new \in ByOperator(sol, o)
    BY <1>2
  <2>2. PICK sub : new = ApplyOperator(sol, o, sub) /\ LegalStep(Operators[o], sub, sol)
    BY <2>1 DEF ByOperator
  <2> DEFINE node == [task |-> TopTask(sol), id |-> "", oper |-> TRUE,
                      parent |-> sol.parents[Len(sol.parents)]]
  <2>3. node \in NodeType /\ new.tree = Append(sol.tree, node)
    BY <2>2, ApplyOperatorNode DEF ApplyOperator
  <2>4. Operators[o].name = node.task.name
    <3>1. TopTask(sol) = [name |-> Operators[o].name,
                          args |-> AfterSubstitution(Operators[o].params, sub)]
      BY <2>2 DEF LegalStep, HeadAfter, TaskAfter
    <3> QED  BY <3>1
  <2> HIDE DEF node
  <2> QED  BY <1>1, <2>3, <2>4
<1>3. CASE \E m \in 1..Len(Methods) : new \in ByMethod(sol, m)
  <2>1. PICK m \in 1..Len(Methods) : new \in ByMethod(sol, m)
    BY <1>3
  <2>2. PICK sub : new = ApplyMethod(sol, m, sub)
    BY <2>1 DEF ByMethod
  <2> DEFINE node == [task |-> TopTask(sol), id |-> Methods[m].id, oper |-> FALSE,
                      parent |-> sol.parents[Len(sol.parents)]]
  <2>3. node \in NodeType /\ new.tree = Append(sol.tree, node) /\ ~node.oper
    BY <2>2, ApplyMethodNode DEF ApplyMethod
  <2> HIDE DEF node
  <2> QED  BY <1>1, <2>3
<1> QED  BY <1>2, <1>3 DEF Successors

\* With this, OnlyMissingIdsThrow is inductive.
Accounted ==
  /\ \A k \in 1..Len(stack) : Backed(stack[k].sol)
  /\ answer # <<>> => Backed(answer[1])
  /\ phase = "learn" => opts.u
  /\ OnlyMissingIdsThrow

LEMMA SearchAccounts ==
  ASSUME IInv, Accounted, SearchStep
  PROVE  Accounted'
<1>1. /\ Stays \/ Gives \/ Goes \/ Finds
      /\ phase = "search" /\ stack # <<>> /\ answer = <<>>
  BY SearchOutcomes, Zenon DEF Searching, IInv, PhaseOK
<1>2. stack \in Seq(Frame) /\ \A k \in 1..Len(stack) : Backed(stack[k].sol)
  BY Zenon DEF IInv, TypeOK, Accounted
<1>3. Len(stack) \in Nat \ {0}
  BY <1>1, <1>2
<1>4. ASSUME NEW new \in Successors(Top.sol)
      PROVE  Backed(new)
  <2>1. Backed(Top.sol)
    BY <1>2, <1>3 DEF Top
  <2>2. Top.sol \in SolutionType /\ WellFormed(Top.sol) /\ ~IsComplete(Top.sol)
    BY TopFacts, SearchOutcomes, Zenon
  <2> QED  BY <2>1, <2>2, SuccessorBacked
<1>5. /\ \A k \in 1..Len(stack') : Backed(stack'[k].sol)
      /\ answer' # <<>> => Backed(answer'[1])
      /\ phase' \in {"search", "failed", "found"}
  <2>1. ASSUME NEW t, Same(stack, t)
        PROVE  \A k \in 1..Len(t) : Backed(t[k].sol)
    BY <1>2, <2>1, Zenon DEF Same
  <2>2. CASE Stays
    BY <1>1, <2>1, <2>2 DEF Stays
  <2>3. CASE Gives
    <3>1. /\ stack' = Popped(stack) /\ answer' = answer /\ Len(stack') = Len(stack) - 1
          /\ \A k \in 1..(Len(stack) - 1) : stack'[k] = stack[k]
      BY <1>1, <1>2, <2>3, PoppedType DEF Gives
    <3>2. \A k \in 1..Len(stack') : Backed(stack'[k].sol)
      BY <1>2, <1>3, <3>1
    <3>3. phase' \in {"search", "failed"}
      BY <1>1, <2>3 DEF Gives
    <3> QED  BY <1>1, <3>1, <3>2, <3>3
  <2>4. CASE Goes
    <3>1. PICK new \in Successors(Top.sol), t \in Seq(Frame) :
            Same(stack, t) /\ stack' = Append(t, Call(new, Len(t) + 1))
      BY <2>4, Zenon DEF Goes
    <3> DEFINE f == Call(new, Len(t) + 1)
    <3>2. f \in Frame /\ f.sol = new
      <4>1. new \in SolutionType
        BY <3>1, TopFacts, SearchOutcomes, SuccessorFacts
      <4> QED  BY <4>1, CallType DEF Call
    <3> HIDE DEF f
    <3>3. /\ Len(stack') = Len(t) + 1 /\ stack'[Len(t) + 1] = f /\ Len(t) \in Nat
          /\ \A k \in 1..Len(t) : stack'[k] = t[k]
      BY <3>1, <3>2, AppendProperties DEF f
    <3>4. ASSUME NEW k \in 1..Len(stack')
          PROVE  Backed(stack'[k].sol)
      <4>1. CASE k = Len(t) + 1
        BY <1>4, <3>1, <3>2, <3>3, <4>1
      <4>2. CASE k # Len(t) + 1
        <5>1. k \in 1..Len(t) /\ stack'[k] = t[k]
          BY <3>3, <4>2
        <5> QED  BY <2>1, <3>1, <5>1, Zenon
      <4> QED  BY <4>1, <4>2
    <3>5. answer' = <<>> /\ phase' = "search"
      BY <1>1, <2>4 DEF Goes
    <3> QED  BY <3>4, <3>5
  <2>5. CASE Finds
    <3>1. PICK new \in Successors(Top.sol) : answer' = <<new>>
      BY <2>5, Zenon DEF Finds
    <3>2. Backed(answer'[1])
      BY <1>4, <3>1
    <3>3. Same(stack, stack') /\ phase' = "found"
      BY <2>5, Zenon DEF Finds
    <3> QED  BY <2>1, <3>2, <3>3
  <2> QED  BY <1>1, <2>2, <2>3, <2>4, <2>5, Zenon
<1>6. phase' # "learn" /\ phase' # "exception"
  BY <1>5
<1> QED  BY <1>5, <1>6, Zenon DEF Accounted, OnlyMissingIdsThrow

LEMMA LearningAccounts ==
  ASSUME IInv, Accounted, AfterSearch
  PROVE  Accounted'
<1>1. opts' = opts /\ stack' = stack /\ answer' = answer
  BY Zenon DEF AfterSearch, BeginLearning, LearnNode, EndLearning, ReportFailure, WriteDomain
<1>2. Plan' = Plan
  BY <1>1 DEF Plan
<1>3. /\ phase' = "learn" => opts.u
      /\ phase' = "exception" => opts.u /\ answer # <<>> /\ ~HasIds(Plan)
  <2>1. CASE BeginLearning \/ EndLearning \/ ReportFailure \/ WriteDomain
    BY <2>1 DEF BeginLearning, EndLearning, ReportFailure, WriteDomain
  <2>2. CASE LearnNode
    <3>1. phase = "learn" /\ opts.u /\ answer # <<>>
      BY <2>2, Zenon DEF LearnNode, Accounted, IInv, PhaseOK
    <3>2. PICK n \in 1..Len(Plan) :
            (\/ \E k \in OpenCalls(n) : ~Plan[k].oper /\ Plan[k].id = ""
             \/ IF Plan[n].oper THEN FirstNamed(Plan[n].task.name) = {}
                                ELSE FirstWithId(Plan[n].id) = {})
            \/ phase' = phase
      BY <2>2, Zenon DEF LearnNode, Charge
    <3>3. CASE phase' = phase
      BY <3>1, <3>3
    <3>4. answer[1] \in SolutionType /\ Backed(answer[1]) /\ Plan \in Seq(NodeType)
      <4>1. answer \in Seq(SolutionType)
        BY Zenon DEF IInv, TypeOK
      <4>2. answer[1] \in SolutionType
        BY <3>1, <4>1
      <4> QED  BY <3>1, <4>2, SolutionFields DEF Plan, Accounted
    <3>5. CASE \E k \in OpenCalls(n) : ~Plan[k].oper /\ Plan[k].id = ""
      <4>1. PICK k \in OpenCalls(n) : ~Plan[k].oper /\ Plan[k].id = ""
        BY <3>5
      <4>2. k \in 1..Len(Plan)
        BY <3>4 DEF OpenCalls
      <4> QED  BY <3>1, <4>1, <4>2 DEF HasIds
    <3>6. CASE Plan[n].oper /\ FirstNamed(Plan[n].task.name) = {}
      <4>1. PICK o \in 1..Len(Operators) : Operators[o].name = Plan[n].task.name
        BY <3>4, <3>6, Zenon DEF Backed, Plan
      <4> QED  BY <3>6, <4>1, SomeFirstNamed
    <3>7. CASE ~Plan[n].oper /\ FirstWithId(Plan[n].id) = {}
      <4>1. Plan[n].id \in NodeIds
        <5>1. Plan[n] \in NodeType
          BY <3>4
        <5> QED  BY <5>1 DEF NodeType
      <4>2. library \in Seq(MethodIndex) /\ Whole(library)
        BY Zenon DEF IInv, TypeOK, LibraryOK
      <4>3. Plan[n].id = ""
        BY <3>7, <4>1, <4>2, SomeFirstWithId DEF NodeIds, MethodIndex
      <4> QED  BY <3>1, <3>7, <4>3 DEF HasIds
    <3> QED  BY <3>2, <3>3, <3>5, <3>6, <3>7
  <2> QED  BY <2>1, <2>2, Zenon DEF AfterSearch
<1> QED  BY <1>1, <1>2, <1>3, Zenon DEF Accounted, OnlyMissingIdsThrow

LEMMA StartAccounts ==
  ASSUME IInv, Accounted, Start
  PROVE  Accounted'
<1>1. Backed(FromProblem)
  BY DEF Backed, FromProblem
<1>2. stack = <<>> /\ answer = <<>>
  BY Zenon DEF IInv, PhaseOK, Start
<1>3. \/ phase' = "save" /\ answer' = <<FromProblem>> /\ stack' = <<>>
      \/ phase' = "search" /\ answer' = <<>> /\ stack' = <<Call(FromProblem, 1)>>
  BY <1>2, Zenon DEF Start
<1>4. Call(FromProblem, 1).sol = FromProblem
  BY DEF Call
<1> QED  BY <1>1, <1>3, <1>4 DEF Accounted, OnlyMissingIdsThrow

LEMMA AccountInvariance == Spec => []Accounted
<1>1. Init => Accounted
  BY DEF Init, Accounted, OnlyMissingIdsThrow
<1>2. IInv /\ Accounted /\ [Next]_vars => Accounted'
  <2> SUFFICES ASSUME IInv, Accounted, [Next]_vars
               PROVE  Accounted'
    OBVIOUS
  <2>1. CASE RunAgain
    <3>1. phase' = "load" /\ stack' = <<>> /\ answer' = <<>>
      BY <2>1 DEF RunAgain
    <3> QED  BY <3>1 DEF Accounted, OnlyMissingIdsThrow
  <2>2. CASE Step
    BY <2>2, StartAccounts, SearchAccounts, LearningAccounts, Zenon DEF Step, SearchStep, AfterSearch
  <2>3. CASE UNCHANGED vars
    <3>1. phase' = phase /\ opts' = opts /\ stack' = stack /\ answer' = answer
      BY <2>3, Zenon DEF vars
    <3>2. Plan' = Plan
      BY <3>1 DEF Plan
    <3> QED  BY <3>1, <3>2, Zenon DEF Accounted, OnlyMissingIdsThrow
  <2> QED  BY <2>1, <2>2, <2>3, Zenon DEF Next
<1> QED  BY <1>1, <1>2, Invariance, PTL DEF Spec

\* No run stops with an exception before it has printed a plan; afterwards it
\* does only if it updates Q-values and the plan uses a method without an id.
THEOREM ExceptionsAreMissingIds == Spec => []OnlyMissingIdsThrow
<1>1. Accounted => OnlyMissingIdsThrow
  BY Zenon DEF Accounted
<1> QED  BY <1>1, AccountInvariance, PTL

----------------------------------------------------------------------------
(* Whatever every legal derivation has                                     *)

\* What the problem has, and every legal step keeps, the partial solutions of
\* the program have: the records of the stack are the steps of a derivation.
LEMMA DerivedSolutions ==
  ASSUME IInv, NEW S, FromProblem \in S,
         \A sol \in SolutionType : WellFormed(sol) /\ ~IsComplete(sol) /\ sol \in S => Successors(sol) \subseteq S
  PROVE  Solutions \subseteq S
<1> DEFINE K == {k \in Nat : k + 1 <= Len(stack) => stack[k + 1].sol \in S}
<1>1. Stacked(stack, opts, library) /\ Answered(answer, stack, opts) /\ stack \in Seq(Frame) /\ Len(stack) \in Nat
  BY DEF IInv, Stacked
<1>2. \A k \in 1..Len(stack) :
        stack[k].sol \in SolutionType /\ WellFormed(stack[k].sol) /\ ~IsComplete(stack[k].sol)
  <2>1. \A k \in 1..Len(stack) : stack[k] \in Frame
    BY <1>1
  <2> QED  BY <1>1, <2>1 DEF Stacked, FrameOK, Frame
<1>3. 0 \in K
  <2>1. 1 <= Len(stack) => stack # <<>>
    BY <1>1
  <2> QED  BY <1>1, <2>1 DEF Stacked
<1>4. ASSUME NEW k \in Nat, k \in K
      PROVE  k + 1 \in K
  <2> SUFFICES ASSUME k + 1 + 1 <= Len(stack)
               PROVE  stack[k + 1 + 1].sol \in S
    OBVIOUS
  <2>1. k + 1 \in 1..Len(stack) /\ k + 1 + 1 \in 2..Len(stack) /\ k + 1 + 1 - 1 = k + 1
    BY <1>1
  <2>2. stack[k + 1].sol \in S
    BY <1>4, <2>1
  <2>3. stack[k + 1 + 1].sol \in Successors(stack[k + 1].sol)
    BY <1>1, <2>1 DEF Stacked
  <2> QED  BY <1>2, <2>1, <2>2, <2>3
<1>5. Nat \subseteq K
  <2> HIDE DEF K
  <2> QED  BY <1>3, <1>4, Induction
<1>6. ASSUME NEW k \in 1..Len(stack)
      PROVE  stack[k].sol \in S
  <2>1. k - 1 \in K /\ k - 1 + 1 = k
    BY <1>1, <1>5
  <2> QED  BY <1>1, <2>1
<1>7. ASSUME NEW sol \in Elems(answer)
      PROVE  sol \in S
  <2>1. sol = answer[1] /\ answer # <<>>
    BY <1>1 DEF Answered, Elems
  <2>2. CASE stack = <<>>
    BY <1>1, <2>1, <2>2 DEF Answered
  <2>3. CASE stack # <<>>
    <3>1. Len(stack) \in 1..Len(stack)
      BY <1>1, <2>3
    <3>2. sol \in Successors(stack[Len(stack)].sol)
      BY <1>1, <2>1, <2>3 DEF Answered
    <3> QED  BY <1>2, <1>6, <3>1, <3>2
  <2> QED  BY <2>2, <2>3
<1> QED  BY <1>6, <1>7 DEF Solutions

\* Every plan the solver holds can be carried out from the initial state, every
\* action in a state where its preconditions hold, and ends in the state the
\* search was in: State::NextState never throws when the plan is printed.
THEOREM PlansCanBeReplayed == Spec => []PlansReplay
<1>1. IInv => PlansReplay
  <2> SUFFICES ASSUME IInv
               PROVE  PlansReplay
    OBVIOUS
  <2> DEFINE S == {sol \in SolutionType : Replays(sol)}
  <2>1. FromProblem \in S
    BY FromProblemType, FromProblemReplays
  <2>2. \A sol \in SolutionType :
          WellFormed(sol) /\ ~IsComplete(sol) /\ sol \in S => Successors(sol) \subseteq S
    BY SuccessorFacts, SuccessorReplays
  <2>3. Solutions \subseteq S
    <3> HIDE DEF S
    <3> QED  BY <2>1, <2>2, DerivedSolutions
  <2> QED  BY <2>3 DEF PlansReplay
<1> QED  BY <1>1, Invariance, PTL

\* Across any backtracking, each decomposition is worked off in the order its
\* method declares, with nothing left out and nothing in between.
THEOREM SubtasksKeepTheirOrder == Spec => []DecompositionsInOrder
<1>1. IInv => DecompositionsInOrder
  <2> SUFFICES ASSUME IInv
               PROVE  DecompositionsInOrder
    OBVIOUS
  <2> DEFINE S == {sol \in SolutionType : SubtasksAsDeclared(sol)}
  <2>1. FromProblem \in S
    BY FromProblemType, FromProblemInOrder
  <2>2. \A sol \in SolutionType :
          WellFormed(sol) /\ ~IsComplete(sol) /\ sol \in S => Successors(sol) \subseteq S
    BY SuccessorFacts, SuccessorInOrder
  <2>3. Solutions \subseteq S
    <3> HIDE DEF S
    <3> QED  BY <2>1, <2>2, DerivedSolutions
  <2> QED  BY <2>3 DEF DecompositionsInOrder
<1> QED  BY <1>1, Invariance, PTL

----------------------------------------------------------------------------
(* The solver implements the planner                                       *)

LEMMA TrailFacts ==
  ASSUME NEW s \in Seq(Frame)
  PROVE  /\ Trail(s) \in Seq(SolutionType) /\ Len(Trail(s)) = Len(s) /\ Len(s) \in Nat
         /\ \A k \in 1..Len(s) : Trail(s)[k] = s[k].sol
<1>1. Len(s) \in Nat /\ \A k \in 1..Len(s) : s[k] \in Frame
  OBVIOUS
<1>2. \A k \in 1..Len(s) : s[k].sol \in SolutionType
  BY <1>1 DEF Frame
<1> QED  BY <1>1, <1>2 DEF Trail

LEMMA SameTrail ==
  ASSUME NEW s \in Seq(Frame), NEW t \in Seq(Frame), Same(s, t)
  PROVE  Trail(t) = Trail(s)
<1> QED  BY DEF Trail, Same

LEMMA PoppedTrail ==
  ASSUME NEW s \in Seq(Frame), s # <<>>
  PROVE  Trail(Popped(s)) = Popped(Trail(s)) /\ Trail(s) # <<>>
<1>1. /\ Popped(s) \in Seq(Frame) /\ Len(Popped(s)) = Len(s) - 1 /\ Len(s) \in Nat \ {0}
      /\ \A k \in 1..(Len(s) - 1) : Popped(s)[k] = s[k]
  BY PoppedType
<1>2. /\ Trail(s) \in Seq(SolutionType) /\ Len(Trail(s)) = Len(s)
      /\ \A k \in 1..Len(s) : Trail(s)[k] = s[k].sol
  BY TrailFacts
<1>3. Trail(s) # <<>>
  BY <1>1, <1>2
<1>4. /\ Popped(Trail(s)) \in Seq(SolutionType) /\ Len(Popped(Trail(s))) = Len(s) - 1
      /\ \A k \in 1..(Len(s) - 1) : Popped(Trail(s))[k] = Trail(s)[k]
  BY <1>2, <1>3, PoppedType
<1>5. /\ Trail(Popped(s)) \in Seq(SolutionType) /\ Len(Trail(Popped(s))) = Len(s) - 1
      /\ \A k \in 1..(Len(s) - 1) : Trail(Popped(s))[k] = Popped(s)[k].sol
  BY <1>1, TrailFacts
<1>6. ASSUME NEW k \in 1..(Len(s) - 1)
      PROVE  Trail(Popped(s))[k] = Popped(Trail(s))[k]
  <2>1. k \in 1..Len(s)
    BY <1>1
  <2>2. Trail(Popped(s))[k] = Popped(s)[k].sol /\ Popped(s)[k] = s[k]
    BY <1>1, <1>5
  <2>3. Popped(Trail(s))[k] = Trail(s)[k] /\ Trail(s)[k] = s[k].sol
    BY <1>2, <1>4, <2>1
  <2> QED  BY <2>2, <2>3
<1>7. Trail(Popped(s)) = Popped(Trail(s))
  BY <1>1, <1>4, <1>5, <1>6, SeqEqual
<1> QED  BY <1>3, <1>7

LEMMA PoppedAppend ==
  ASSUME NEW S, NEW s \in Seq(S), NEW x \in S
  PROVE  /\ Popped(Append(s, x)) = s /\ Len(Append(s, x)) = Len(s) + 1
         /\ Append(s, x)[Len(Append(s, x))] = x /\ Append(s, x) = s \o <<x>>
<1>1. /\ Append(s, x) \in Seq(S) /\ Len(Append(s, x)) = Len(s) + 1 /\ Len(s) \in Nat
      /\ \A k \in 1..Len(s) : Append(s, x)[k] = s[k]
      /\ Append(s, x)[Len(s) + 1] = x
  BY AppendProperties
<1>2. Append(s, x) # <<>>
  BY <1>1
<1>3. /\ Popped(Append(s, x)) \in Seq(S) /\ Len(Popped(Append(s, x))) = Len(s)
      /\ \A k \in 1..Len(s) : Popped(Append(s, x))[k] = s[k]
  <2> DEFINE t == Append(s, x)
  <2>1. t \in Seq(S) /\ t # <<>> /\ Len(t) - 1 = Len(s)
    BY <1>1, <1>2
  <2>2. \A k \in 1..Len(s) : t[k] = s[k]
    BY <1>1
  <2> HIDE DEF t
  <2>3. /\ Popped(t) \in Seq(S) /\ Len(Popped(t)) = Len(s)
        /\ \A k \in 1..Len(s) : Popped(t)[k] = t[k]
    BY <2>1, PoppedType
  <2>4. \A k \in 1..Len(s) : Popped(t)[k] = s[k]
    BY <2>2, <2>3
  <2> QED  BY <2>3, <2>4 DEF t
<1>4. Popped(Append(s, x)) = s
  BY <1>3, SeqEqual
<1>5. Append(s, x) = s \o <<x>>
  BY AppendIsConcat
<1> QED  BY <1>1, <1>4, <1>5

\* A legal step from the end of the trail extends the path.
LEMMA Extended ==
  ASSUME NEW s \in Seq(SolutionType), s # <<>>, NEW new \in SolutionType, NEW t, t = Append(s, new),
         ~IsComplete(s[Len(s)]), new \in Successors(s[Len(s)])
  PROVE  /\ Len(t) = Len(s) + 1 /\ Popped(t) = s /\ t[Len(t)] \in Successors(s[Len(s)])
         /\ t[Len(t)] = new
<1> QED  BY PoppedAppend

\* What the solver shows of a search step is a step of the planner.
LEMMA SearchPlans ==
  ASSUME IInv, IInv', SearchStep
  PROVE  Planning!Next \/ (Path' = Path /\ Verdict' = Verdict)
<1>1. Searching /\ phase = "search" /\ answer = <<>> /\ stack # <<>> /\ stack \in Seq(Frame)
  BY SearchOutcomes, Zenon DEF Searching, IInv, PhaseOK, TypeOK
<1>2. stack' \in Seq(Frame) /\ answer' \in Seq(SolutionType)
  BY Zenon DEF IInv, TypeOK
<1>3. /\ Trail(stack) \in Seq(SolutionType) /\ Len(Trail(stack)) = Len(stack)
      /\ Trail(stack) # <<>> /\ Trail(stack)[Len(Trail(stack))] = Top.sol
      /\ Trail(Popped(stack)) = Popped(Trail(stack))
  BY <1>1, TrailFacts, PoppedTrail DEF Top
<1>4. Path = Trail(stack) /\ Verdict = "open"
  BY <1>1, <1>3 DEF Path, Verdict
<1>5. Trail(stack') \in Seq(SolutionType)
  BY <1>2, TrailFacts
<1>6. ~IsComplete(Top.sol)
  BY <1>1, TopFacts
<1>7. CASE Stays
  <2>1. Trail(stack') = Trail(stack) /\ phase' = "search" /\ answer' = <<>>
    BY <1>1, <1>2, <1>7, SameTrail DEF Stays
  <2>2. Path' = Trail(stack') /\ Verdict' = "open"
    BY <1>5, <2>1 DEF Path, Verdict
  <2> QED  BY <1>4, <2>1, <2>2
<1>8. CASE Gives
  <2>1. stack' = Popped(stack) /\ answer' = <<>> /\ phase' \in {"search", "failed"}
    BY <1>1, <1>8 DEF Gives
  <2>2. Path' = Popped(Path) /\ Verdict' = "open"
    <3>1. Path' = Trail(stack')
      <4>1. Trail(stack') \o <<>> = Trail(stack')
        BY <1>5, ConcatEmptySeq
      <4> QED  BY <2>1, <4>1 DEF Path
    <3>2. Verdict' = "open"
      BY <2>1 DEF Verdict
    <3> QED  BY <1>3, <1>4, <2>1, <3>1, <3>2
  <2>3. Planning!Retract
    BY <1>3, <1>4, <2>2 DEF Planning!Retract, Planning!WithoutEnd, Popped
  <2> QED  BY <2>3 DEF Planning!Next
<1>9. CASE Goes
  <2>1. PICK new \in Successors(Top.sol), t \in Seq(Frame) :
          /\ ~IsComplete(new) /\ Same(stack, t) /\ stack' = Append(t, Call(new, Len(t) + 1))
    BY <1>9, Zenon DEF Goes
  <2>2. phase' = "search" /\ answer' = <<>>
    BY <1>1, <1>9 DEF Goes
  <2>3. new \in SolutionType
    BY <1>1, <1>6, TopFacts, SuccessorFacts
  <2>4. Trail(stack') = Append(Trail(stack), new)
    <3> DEFINE f == Call(new, Len(t) + 1)
    <3>1. f \in Frame /\ f.sol = new
      BY <2>3, CallType DEF Call
    <3> HIDE DEF f
    <3>2. /\ Len(stack') = Len(t) + 1 /\ stack'[Len(t) + 1] = f /\ Len(t) \in Nat
          /\ \A k \in 1..Len(t) : stack'[k] = t[k]
      BY <2>1, <3>1, AppendProperties DEF f
    <3>3. /\ Trail(t) = Trail(stack) /\ Len(Trail(t)) = Len(t) /\ Trail(t) \in Seq(SolutionType)
          /\ \A k \in 1..Len(t) : Trail(t)[k] = t[k].sol
      BY <1>1, <2>1, SameTrail, TrailFacts
    <3>4. /\ Len(Trail(stack')) = Len(t) + 1
          /\ \A k \in 1..(Len(t) + 1) : Trail(stack')[k] = stack'[k].sol
      BY <1>2, <3>2, TrailFacts
    <3>5. /\ Append(Trail(t), new) \in Seq(SolutionType) /\ Len(Append(Trail(t), new)) = Len(t) + 1
          /\ Append(Trail(t), new)[Len(t) + 1] = new
          /\ \A k \in 1..Len(t) : Append(Trail(t), new)[k] = Trail(t)[k]
      BY <2>3, <3>3, AppendProperties
    <3>6. ASSUME NEW k \in 1..(Len(t) + 1)
          PROVE  Trail(stack')[k] = Append(Trail(t), new)[k]
      <4>1. CASE k = Len(t) + 1
        BY <3>1, <3>2, <3>4, <3>5, <4>1
      <4>2. CASE k # Len(t) + 1
        <5>1. k \in 1..Len(t)
          BY <3>2, <4>2
        <5> QED  BY <3>2, <3>3, <3>4, <3>5, <5>1
      <4> QED  BY <4>1, <4>2
    <3> QED  BY <1>5, <3>3, <3>4, <3>5, <3>6, SeqEqual
  <2>5. Path' = Append(Path, new) /\ Verdict' = "open"
    BY <1>4, <1>5, <2>2, <2>4 DEF Path, Verdict
  <2>6. /\ Len(Path') = Len(Path) + 1 /\ Popped(Path') = Path
        /\ Path'[Len(Path')] \in Successors(Path[Len(Path)]) /\ Path'[Len(Path')] = new
    BY <1>3, <1>4, <1>6, <2>3, <2>5, Extended
  <2>7. Planning!Extend
    BY <1>3, <1>4, <1>6, <2>1, <2>5, <2>6, Zenon DEF Planning!Extend, Planning!End, Planning!WithoutEnd, Popped
  <2> QED  BY <2>7 DEF Planning!Next
<1>10. CASE Finds
  <2>1. PICK new \in Successors(Top.sol) : IsComplete(new) /\ answer' = <<new>>
    BY <1>10, Zenon DEF Finds
  <2>2. Trail(stack') = Trail(stack) /\ phase' = "found"
    BY <1>1, <1>2, <1>10, SameTrail DEF Finds
  <2>3. new \in SolutionType
    BY <1>1, <1>6, TopFacts, SuccessorFacts
  <2>4. Path' = Append(Path, new) /\ Verdict' = "plan"
    <3>1. Append(Trail(stack), new) = Trail(stack) \o <<new>>
      BY <1>3, <2>3, PoppedAppend
    <3> QED  BY <1>4, <2>1, <2>2, <3>1 DEF Path, Verdict
  <2>5. /\ Len(Path') = Len(Path) + 1 /\ Popped(Path') = Path
        /\ Path'[Len(Path')] \in Successors(Path[Len(Path)]) /\ Path'[Len(Path')] = new
    BY <1>3, <1>4, <1>6, <2>3, <2>4, Extended
  <2>6. Planning!Extend
    BY <1>3, <1>4, <1>6, <2>1, <2>4, <2>5, Zenon DEF Planning!Extend, Planning!End, Planning!WithoutEnd, Popped
  <2> QED  BY <2>6 DEF Planning!Next
<1> QED  BY <1>7, <1>8, <1>9, <1>10, SearchOutcomes, Zenon

\* The other steps, too.
LEMMA StartPlans ==
  ASSUME IInv, Start
  PROVE  Planning!Next \/ (Path' = Path /\ Verdict' = Verdict)
<1>1. phase = "load" /\ answer = <<>> /\ stack = <<>>
  BY Zenon DEF Start, IInv, PhaseOK
<1>2. Path = <<FromProblem>> /\ Verdict = "open"
  BY <1>1 DEF Path, Verdict
<1>3. CASE IsComplete(FromProblem)
  <2>1. phase' = "save" /\ answer' = <<FromProblem>> /\ stack' = <<>>
    BY <1>1, <1>3, Zenon DEF Start
  <2>2. Path' = <<FromProblem>> /\ Verdict' = "plan"
    BY <2>1 DEF Path, Verdict, Trail
  <2>3. Planning!NothingToDo
    BY <1>2, <1>3, <2>2, Zenon DEF Planning!NothingToDo
  <2> QED  BY <2>3 DEF Planning!Next
<1>4. CASE ~IsComplete(FromProblem)
  <2>1. phase' = "search" /\ answer' = <<>> /\ stack' = <<Call(FromProblem, 1)>>
    BY <1>1, <1>4, Zenon DEF Start
  <2>2. Call(FromProblem, 1).sol = FromProblem
    BY DEF Call
  <2>3. Path' = <<FromProblem>> /\ Verdict' = "open"
    BY <2>1, <2>2 DEF Path, Verdict, Trail
  <2> QED  BY <1>2, <2>3
<1> QED  BY <1>3, <1>4

LEMMA AfterSearchPlans ==
  ASSUME IInv, AfterSearch
  PROVE  Planning!Next \/ (Path' = Path /\ Verdict' = Verdict)
<1>1. /\ stack' = stack /\ answer' = answer /\ PhaseOK /\ phase # "load" /\ phase' # "load"
  <2>1. stack' = stack /\ answer' = answer /\ PhaseOK
    BY Zenon DEF IInv, AfterSearch, BeginLearning, LearnNode, EndLearning, ReportFailure, WriteDomain
  <2>2. phase # "load" /\ phase' # "load"
    BY DEF AfterSearch, BeginLearning, LearnNode, EndLearning, ReportFailure, WriteDomain, Charge
  <2> QED  BY <2>1, <2>2
<1>2. Path' = Path
  BY <1>1 DEF Path
<1>3. CASE ReportFailure
  <2>1. answer = <<>> /\ stack = <<>> /\ phase = "failed" /\ phase' = "save"
    BY <1>1, <1>3 DEF ReportFailure, PhaseOK
  <2>2. Path = <<>> /\ Verdict = "open" /\ Verdict' = "none"
    BY <1>1, <2>1 DEF Path, Verdict, Trail
  <2>3. Planning!GiveUp
    BY <1>2, <2>2, Zenon DEF Planning!GiveUp
  <2> QED  BY <2>3 DEF Planning!Next
<1>4. CASE WriteDomain
  <2>1. phase = "save" /\ phase' = "done"
    BY <1>4 DEF WriteDomain
  <2>2. Verdict' = Verdict
    BY <1>1, <2>1 DEF Verdict
  <2> QED  BY <1>2, <2>2
<1>5. CASE BeginLearning \/ LearnNode \/ EndLearning
  <2>1. answer # <<>>
    BY <1>1, <1>5 DEF BeginLearning, LearnNode, EndLearning, PhaseOK
  <2>2. Verdict' = Verdict
    BY <1>1, <2>1 DEF Verdict
  <2> QED  BY <1>2, <2>2
<1> QED  BY <1>3, <1>4, <1>5, Zenon DEF AfterSearch

LEMMA RunAgainPlans ==
  ASSUME IInv, RunAgain
  PROVE  Planning!PlanAgain
<1>1. phase \in {"done", "exception"} /\ phase' = "load" /\ answer' = <<>> /\ PhaseOK
  BY Zenon DEF RunAgain, IInv
<1>2. Path' = <<FromProblem>> /\ Verdict' = "open"
  BY <1>1 DEF Path, Verdict
<1>3. Verdict # "open"
  BY <1>1 DEF Verdict, PhaseOK
<1> QED  BY <1>2, <1>3, Zenon DEF Planning!PlanAgain

\* A plan the solver prints ends a legal derivation from the problem, and it
\* says there is none only after it gave up every step it took: the solver
\* implements HtnPlanning.
THEOREM SolverKeepsPromise == Spec => KeepsPromise
<1>1. Init => Planning!Init
  <2> SUFFICES ASSUME Init
               PROVE  Path = <<FromProblem>> /\ Verdict = "open"
    BY DEF Planning!Init
  <2> QED  BY DEF Init, Path, Verdict
<1>2. IInv /\ IInv' /\ [Next]_vars => [Planning!Next]_<<Path, Verdict>>
  <2> SUFFICES ASSUME IInv, IInv', [Next]_vars
               PROVE  Planning!Next \/ (Path' = Path /\ Verdict' = Verdict)
    OBVIOUS
  <2>1. CASE SearchStep
    BY <2>1, SearchPlans
  <2>2. CASE Start
    BY <2>2, StartPlans
  <2>3. CASE AfterSearch
    BY <2>3, AfterSearchPlans
  <2>4. CASE RunAgain
    BY <2>4, RunAgainPlans DEF Planning!Next
  <2>5. CASE UNCHANGED vars
    BY <2>5 DEF vars, Path, Verdict
  <2> QED  BY <2>1, <2>2, <2>3, <2>4, <2>5, Zenon DEF Next, Step, SearchStep, AfterSearch
<1> QED  BY <1>1, <1>2, Invariance, PTL DEF Spec, KeepsPromise, Planning!Spec

----------------------------------------------------------------------------
(* No plan is missed                                                       *)

LEMMA WithinFacts ==
  /\ Within[0] = {FromProblem}
  /\ \A n \in Nat :
       /\ \A s \in Within[n] : s \in SolutionType /\ WellFormed(s)
       /\ Within[n + 1] = Within[n] \cup UNION {Successors(s) : s \in {x \in Within[n] : ~IsComplete(x)}}
<1> DEFINE T == SUBSET {s \in SolutionType : WellFormed(s)}
           start == {FromProblem}
           more(S) == S \cup UNION {Successors(s) : s \in {x \in S : ~IsComplete(x)}}
           step == [p \in Nat \X T |-> more(p[2])]
           Body(f) == [n \in Nat |-> IF n = 0 THEN start ELSE more(f[n - 1])]
<1>1. start \in T
  BY FromProblemType, FromProblemWellFormed
<1>2. ASSUME NEW S \in T
      PROVE  more(S) \in T
  <2> SUFFICES ASSUME NEW new \in more(S)
               PROVE  new \in SolutionType /\ WellFormed(new)
    OBVIOUS
  <2>1. CASE new \in S
    BY <2>1
  <2>2. CASE new \notin S
    <3>1. PICK s \in S : ~IsComplete(s) /\ new \in Successors(s)
      BY <2>2
    <3>2. s \in SolutionType /\ WellFormed(s)
      OBVIOUS
    <3> QED  BY <3>1, <3>2, SuccessorFacts
  <2> QED  BY <2>1, <2>2
<1> HIDE DEF start, more
<1>3. step \in [Nat \X T -> T]
  <2> HIDE DEF T
  <2> QED  BY <1>2
<1>4. PICK f \in [Nat -> T] : f[0] = start /\ \A k \in Nat : f[k + 1] = step[<<k + 1, f[k]>>]
  <2> HIDE DEF T, step
  <2>1. EndlessIterations(T, start, step) # {}
    BY <1>1, <1>3, EndlessRecursion
  <2> QED  BY <2>1 DEF EndlessIterations
<1>5. ASSUME NEW k \in Nat
      PROVE  f[k + 1] = more(f[k])
  <2> HIDE DEF T
  <2>1. f[k + 1] = step[<<k + 1, f[k]>>] /\ f[k] \in T /\ k + 1 \in Nat
    <3> HIDE DEF step
    <3> QED  BY <1>4
  <2> QED  BY <2>1
<1>6. f = Body(f)
  <2> HIDE DEF T, step
  <2>1. \A n \in Nat : f[n] = IF n = 0 THEN start ELSE more(f[n - 1])
    <3> TAKE n \in Nat
    <3>1. CASE n = 0
      BY <1>4, <3>1
    <3>2. CASE n # 0
      <4>1. n - 1 \in Nat /\ n - 1 + 1 = n
        BY <3>2
      <4>2. f[n - 1 + 1] = more(f[n - 1])
        BY <1>5, <4>1
      <4> QED  BY <3>2, <4>1, <4>2
    <3> QED  BY <3>1, <3>2
  <2> QED  BY <1>4, <2>1
<1>7. Within = Body(Within)
  <2>1. Within = CHOOSE g : g = Body(g)
    BY Zenon DEF Within, start, more
  <2>2. \E g : g = Body(g)
    BY <1>6, Zenon
  <2> QED  BY <2>1, <2>2, Zenon
<1> DEFINE g == Within
<1> HIDE DEF g, T, step
<1>8. g[0] = start /\ \A n \in Nat : g[n + 1] = more(g[n])
  <2>1. g = Body(g)
    BY <1>7 DEF g
  <2>2. g[0] = start
    BY <2>1
  <2>3. ASSUME NEW n \in Nat
        PROVE  g[n + 1] = more(g[n])
    <3>1. n + 1 \in Nat /\ n + 1 # 0 /\ n + 1 - 1 = n
      OBVIOUS
    <3>2. g[n + 1] = Body(g)[n + 1]
      BY <2>1
    <3>3. Body(g)[n + 1] = more(g[n + 1 - 1])
      BY <3>1
    <3> QED  BY <3>1, <3>2, <3>3
  <2> QED  BY <2>2, <2>3
<1>9. \A n \in Nat : g[n] \in T
  <2> DEFINE S == {n \in Nat : g[n] \in T}
  <2>1. 0 \in S
    BY <1>1, <1>8
  <2>2. \A n \in Nat : n \in S => n + 1 \in S
    BY <1>2, <1>8
  <2> HIDE DEF S
  <2>3. Nat \subseteq S
    BY <2>1, <2>2, Induction
  <2> QED  BY <2>3 DEF S
<1>10. \A n \in Nat : \A s \in g[n] : s \in SolutionType /\ WellFormed(s)
  BY <1>9 DEF T
<1> QED  BY <1>8, <1>10 DEF g, start, more

\* A complete solution within n steps of the problem is one that n steps from
\* it lead to.
LEMMA WithinIsSolvable ==
  ASSUME NEW n \in Nat, NEW sol \in Within[n], IsComplete(sol)
  PROVE  FromProblem \in Solvable[n]
<1> DEFINE S == {m \in Nat : \A k \in Nat : \A x \in Within[m] : x \in Solvable[k] => FromProblem \in Solvable[k + m]}
<1>1. 0 \in S
  BY WithinFacts
<1>2. ASSUME NEW m \in Nat, m \in S
      PROVE  m + 1 \in S
  <2> SUFFICES ASSUME NEW k \in Nat, NEW x \in Within[m + 1], x \in Solvable[k]
               PROVE  FromProblem \in Solvable[k + (m + 1)]
    OBVIOUS
  <2>1. /\ \A s \in Within[m] : s \in SolutionType
        /\ Within[m + 1] = Within[m] \cup UNION {Successors(s) : s \in {y \in Within[m] : ~IsComplete(y)}}
    BY WithinFacts
  <2>2. k + 1 \in Nat /\ (k + 1) + m = k + (m + 1) /\ Solvable[k] \subseteq Solvable[k + 1]
    BY SolvableFacts
  <2>3. CASE x \in Within[m]
    <3>1. FromProblem \in Solvable[(k + 1) + m]
      BY <1>2, <2>2, <2>3
    <3> QED  BY <2>2, <3>1
  <2>4. CASE x \notin Within[m]
    <3>1. PICK s \in Within[m] : ~IsComplete(s) /\ x \in Successors(s)
      BY <2>1, <2>4
    <3>2. s \in Solvable[k + 1]
      BY <2>1, <3>1, SolvableFacts
    <3>3. FromProblem \in Solvable[(k + 1) + m]
      BY <1>2, <2>2, <3>2
    <3> QED  BY <2>2, <3>3
  <2> QED  BY <2>3, <2>4
<1> HIDE DEF S
<1>3. Nat \subseteq S
  BY <1>1, <1>2, Induction
<1>4. \A k \in Nat : \A x \in Within[n] : x \in Solvable[k] => FromProblem \in Solvable[k + n]
  <2>1. n \in S
    BY <1>3
  <2> QED  BY <2>1 DEF S
<1>5. sol \in Solvable[0]
  BY WithinFacts, SolvableFacts
<1>6. FromProblem \in Solvable[0 + n]
  BY <1>4, <1>5
<1> QED  BY <1>6

----------------------------------------------------------------------------
(* What the search has still to try                                        *)

\* The steps record f has not tried yet.
ToTry(f) ==
  IF ~f.entered THEN Successors(f.sol)
  ELSE IF Primitively(f.sol)
    THEN {ApplyOperator(f.sol, o, f.insts[j]) :
            o \in FirstNamed(TopTask(f.sol).name), j \in (f.tried + 1)..Len(f.insts)}
    ELSE {ApplyMethod(f.sol, f.order[f.i], f.insts[j]) : j \in (f.tried + 1)..Len(f.insts)}
           \cup UNION {ByMethod(f.sol, f.order[i]) : i \in (f.i + 1)..Len(f.order)}

\* The step the k-th record is trying.
Trying(s, k) == IF k < Len(s) THEN {s[k + 1].sol} ELSE {}

\* A solution as good as new is among those.
Stands(new, sols) == \E other \in sols : Alike(new, other)

\* Every step that can lead to a plan within the depth is still to be tried, or
\* is being tried.
Exhaustive(s, o) ==
  \A k \in 1..Len(s) : k <= o.maxDepth =>
    \A new \in Successors(s[k].sol) :
      new \in Solvable[o.maxDepth - k] => Stands(new, ToTry(s[k]) \cup Trying(s, k))

\* While the solver searches nothing that could lead to a plan has been given
\* up, and when it has failed there was nothing.
Searched ==
  Listable =>
    /\ phase = "search" => Exhaustive(stack, opts)
    /\ phase = "failed" => FromProblem \notin Solvable[opts.maxDepth]

LEMMA StandsFor ==
  ASSUME NEW new, NEW S, NEW T, Stands(new, S), \A x \in S : Stands(x, T)
  PROVE  Stands(new, T)
<1>1. PICK x \in S : Alike(new, x)
  BY DEF Stands
<1>2. PICK y \in T : Alike(x, y)
  BY <1>1 DEF Stands
<1> QED  BY <1>1, <1>2 DEF Stands, Alike

LEMMA StandsForItself ==
  ASSUME NEW S, NEW x \in S
  PROVE  Stands(x, S)
<1> QED  BY DEF Stands, Alike

\* The top record is replaced by one that still tries what that one would.
LEMMA TopExhaustive ==
  ASSUME NEW s \in Seq(Frame), s # <<>>, NEW o, Exhaustive(s, o),
         NEW f \in Frame, f.sol = s[Len(s)].sol,
         \A x \in ToTry(s[Len(s)]) : Stands(x, ToTry(f))
  PROVE  Exhaustive([s EXCEPT ![Len(s)] = f], o)
<1> DEFINE t == [s EXCEPT ![Len(s)] = f]
<1>1. Len(s) \in Nat \ {0}
  OBVIOUS
<1>2. /\ t \in Seq(Frame) /\ Len(t) = Len(s)
      /\ \A k \in 1..Len(s) : t[k] = IF k = Len(s) THEN f ELSE s[k]
  BY <1>1, ExceptSeq
<1> HIDE DEF t
<1>3. ASSUME NEW k \in 1..Len(t), k <= o.maxDepth, NEW new \in Successors(t[k].sol), new \in Solvable[o.maxDepth - k]
      PROVE  Stands(new, ToTry(t[k]) \cup Trying(t, k))
  <2>1. k \in 1..Len(s) /\ t[k].sol = s[k].sol
    BY <1>2
  <2>2. Stands(new, ToTry(s[k]) \cup Trying(s, k))
    BY <1>3, <2>1 DEF Exhaustive
  <2>3. CASE k = Len(s)
    <3>1. Trying(s, k) = {} /\ Trying(t, k) = {} /\ t[k] = f
      BY <1>1, <1>2, <2>3 DEF Trying
    <3>2. Stands(new, ToTry(f))
      BY <2>2, <2>3, <3>1, StandsFor
    <3> QED  BY <3>1, <3>2
  <2>4. CASE k # Len(s)
    <3>1. k < Len(s) /\ k + 1 \in 1..Len(s) /\ k < Len(t)
      BY <1>1, <1>2, <2>4
    <3>2. t[k] = s[k] /\ t[k + 1].sol = s[k + 1].sol
      BY <1>2, <2>1, <2>4, <3>1
    <3> QED  BY <2>2, <3>1, <3>2 DEF Trying
  <2> QED  BY <2>3, <2>4
<1> QED  BY <1>3 DEF t, Exhaustive

\* The top record is replaced by one that calls for a step it would have tried.
LEMMA CallExhaustive ==
  ASSUME NEW s \in Seq(Frame), s # <<>>, NEW o, Exhaustive(s, o),
         NEW f \in Frame, f.sol = s[Len(s)].sol,
         NEW new \in SolutionType, \A x \in ToTry(s[Len(s)]) : Stands(x, ToTry(f) \cup {new})
  PROVE  Exhaustive(Append([s EXCEPT ![Len(s)] = f], Call(new, Len(s) + 1)), o)
<1> DEFINE c == Call(new, Len(s) + 1)
           r == [s EXCEPT ![Len(s)] = f]
           t == Append(r, c)
<1>1. Len(s) \in Nat \ {0} /\ Len(s) + 1 \in Nat
  OBVIOUS
<1>2. /\ r \in Seq(Frame) /\ Len(r) = Len(s)
      /\ \A k \in 1..Len(s) : r[k] = IF k = Len(s) THEN f ELSE s[k]
  BY <1>1, ExceptSeq
<1>3. c \in Frame /\ c.sol = new /\ ToTry(c) = Successors(new)
  <2>1. c \in Frame
    BY <1>1, CallType
  <2> QED  BY <2>1 DEF Call, ToTry
<1> HIDE DEF c, r
<1>4. /\ t \in Seq(Frame) /\ Len(t) = Len(s) + 1 /\ t[Len(s) + 1] = c
      /\ \A k \in 1..Len(s) : t[k] = IF k = Len(s) THEN f ELSE s[k]
  BY <1>2, <1>3, AppendProperties
<1> HIDE DEF t
<1>5. ASSUME NEW k \in 1..Len(t), k <= o.maxDepth, NEW x \in Successors(t[k].sol), x \in Solvable[o.maxDepth - k]
      PROVE  Stands(x, ToTry(t[k]) \cup Trying(t, k))
  <2>1. CASE k = Len(s) + 1
    <3>1. x \in ToTry(t[k])
      BY <1>3, <1>4, <1>5, <2>1
    <3> QED  BY <3>1, StandsForItself
  <2>2. CASE k = Len(s)
    <3>1. /\ t[k] = f /\ Trying(t, k) = {new} /\ Trying(s, k) = {} /\ k \in 1..Len(s)
      BY <1>1, <1>3, <1>4, <2>2 DEF Trying
    <3>2. Stands(x, ToTry(s[k]) \cup Trying(s, k))
      BY <1>5, <2>2, <3>1 DEF Exhaustive
    <3>3. \A y \in ToTry(s[k]) : Stands(y, ToTry(f) \cup {new})
      BY <2>2
    <3>4. Stands(x, ToTry(s[k]))
      <4>1. ToTry(s[k]) \cup Trying(s, k) = ToTry(s[k])
        BY <3>1
      <4> QED  BY <3>2, <4>1
    <3>5. Stands(x, ToTry(f) \cup {new})
      BY <3>3, <3>4, StandsFor
    <3> QED  BY <3>1, <3>5
  <2>3. CASE k # Len(s) /\ k # Len(s) + 1
    <3>1. k \in 1..Len(s) /\ k < Len(s) /\ k + 1 \in 1..Len(s) /\ k < Len(t)
      BY <1>1, <1>4, <2>3
    <3>2. t[k] = s[k] /\ t[k + 1].sol = s[k + 1].sol
      BY <1>4, <2>3, <3>1
    <3>3. Stands(x, ToTry(s[k]) \cup Trying(s, k))
      BY <1>5, <3>1, <3>2 DEF Exhaustive
    <3> QED  BY <3>1, <3>2, <3>3 DEF Trying
  <2> QED  BY <1>1, <1>4, <2>1, <2>2, <2>3
<1> QED  BY <1>5 DEF c, r, t, Exhaustive

\* The top record returns once nothing can come of its solution any more.
LEMMA ReturnExhaustive ==
  ASSUME NEW s, NEW o \in Options, NEW l, Stacked(s, o, l), s # <<>>, Exhaustive(s, o),
         s[Len(s)].sol \notin Solvable[o.maxDepth - (Len(s) - 1)]
  PROVE  Exhaustive(Popped(s), o)
<1> DEFINE t == Popped(s)
<1>1. s \in Seq(Frame) /\ Len(s) \in Nat \ {0}
  BY StackPopped DEF Stacked
<1>2. Len(t) = Len(s) - 1 /\ \A k \in 1..(Len(s) - 1) : t[k] = s[k]
  BY <1>1, PoppedType
<1> HIDE DEF t
<1>3. ASSUME NEW k \in 1..Len(t), k <= o.maxDepth, NEW x \in Successors(t[k].sol), x \in Solvable[o.maxDepth - k]
      PROVE  Stands(x, ToTry(t[k]) \cup Trying(t, k))
  <2>1. k \in 1..Len(s) /\ k < Len(s) /\ k + 1 \in 1..Len(s) /\ t[k] = s[k]
    BY <1>1, <1>2
  <2>2. Stands(x, ToTry(s[k]) \cup {s[k + 1].sol})
    BY <1>3, <2>1 DEF Exhaustive, Trying
  <2>3. CASE k + 1 = Len(s)
    <3>1. /\ s[k] \in Frame /\ s[k + 1] \in Frame
          /\ WellFormed(s[k].sol) /\ ~IsComplete(s[k].sol) /\ WellFormed(s[k + 1].sol)
      BY <1>1, <2>1 DEF Stacked, FrameOK
    <3>2. s[k].sol \in SolutionType /\ s[k + 1].sol \in SolutionType
      BY <3>1 DEF Frame
    <3>3. x \in SolutionType /\ WellFormed(x)
      BY <1>3, <2>1, <3>1, <3>2, SuccessorFacts
    <3>4. o.maxDepth - k \in Nat /\ o.maxDepth - (Len(s) - 1) = o.maxDepth - k
      BY <1>3, <2>3 DEF Options
    <3>5. ~Alike(x, s[k + 1].sol)
      BY <1>3, <2>3, <3>1, <3>2, <3>3, <3>4, AlikeSolvable
    <3>6. Stands(x, ToTry(s[k]))
      BY <2>2, <3>5 DEF Stands
    <3> QED  BY <2>1, <3>6 DEF Stands
  <2>4. CASE k + 1 # Len(s)
    <3>1. k < Len(t) /\ t[k + 1] = s[k + 1]
      BY <1>1, <1>2, <2>1, <2>4
    <3> QED  BY <2>1, <2>2, <3>1 DEF Trying
  <2> QED  BY <2>3, <2>4
<1> QED  BY <1>3 DEF t, Exhaustive

LEMMA ExhaustiveTop ==
  ASSUME IInv, Searching, Exhaustive(stack, opts), NEW new \in Successors(Top.sol), Len(stack) <= opts.maxDepth,
         new \in Solvable[opts.maxDepth - Len(stack)]
  PROVE  Stands(new, ToTry(Top))
<1>1. Len(stack) \in 1..Len(stack)
  BY TopFacts
<1>2. Stands(new, ToTry(Top) \cup Trying(stack, Len(stack)))
  BY <1>1 DEF Exhaustive, Top
<1>3. Trying(stack, Len(stack)) = {}
  BY <1>1 DEF Trying
<1> QED  BY <1>2, <1>3

LEMMA OperatorEnteredToTry ==
  ASSUME Listable, NEW f \in Frame, FrameOK(f, f.depth, opts, library), ~f.entered, Primitively(f.sol),
         NEW insts \in OperatorListings(TopTask(f.sol), f.sol.state),
         NEW g \in Frame, g = [f EXCEPT !.entered = TRUE, !.order = <<>>, !.insts = insts],
         NEW x \in ToTry(f)
  PROVE  Stands(x, ToTry(g))
<1>1. /\ g.sol = f.sol /\ g.entered /\ g.insts = insts /\ g.tried = f.tried /\ f.insts = <<>>
      /\ f.tried <= Len(f.insts) /\ f.tried \in Nat
  BY Zenon DEF Frame, FrameOK
<1>2. f.sol \in SolutionType /\ WellFormed(f.sol) /\ ~IsComplete(f.sol)
  BY DEF Frame, FrameOK
<1>3. x \in Successors(f.sol) /\ TopTask(f.sol).name \in Primitive
  BY DEF ToTry, Primitively
<1>4. PICK o \in 1..Len(Operators) : Operators[o].name = TopTask(f.sol).name /\ x \in ByOperator(f.sol, o)
  BY <1>2, <1>3, StepOfItsKind
<1>5. PICK p \in FirstNamed(TopTask(f.sol).name) :
        insts \in Listings(OperatorInstances(Operators[p], TopTask(f.sol), f.sol.state), Elems(Operators[p].params))
  <2>1. FirstNamed(TopTask(f.sol).name) # {}
    BY <1>4, SomeFirstNamed
  <2> QED  BY <2>1 DEF OperatorListings
<1>6. o = p
  <2>1. p \in 1..Len(Operators) /\ Operators[p].name = TopTask(f.sol).name
    BY <1>5, FirstOperator
  <2> QED  BY <1>4, <2>1 DEF Listable
<1>7. PICK sub \in OperatorInstances(Operators[o], TopTask(f.sol), f.sol.state) :
        \A other \in Grounding(Operators[o]) :
          SameOn(other, sub, Elems(Operators[o].params)) => Alike(x, ApplyOperator(f.sol, o, other))
  BY <1>2, <1>4, OperatorCovered
<1>8. PICK j \in DOMAIN insts : SameOn(insts[j], sub, Elems(Operators[o].params))
  BY <1>5, <1>6, <1>7 DEF Listings
<1>9. /\ insts \in Seq(SubstitutionType)
      /\ \A i \in 1..Len(insts) : insts[i] \in OperatorInstances(Operators[o], TopTask(f.sol), f.sol.state)
  BY <1>4, <1>5, <1>6, OperatorListing
<1>10. j \in 1..Len(insts) /\ insts[j] \in Grounding(Operators[o])
  <2>1. j \in 1..Len(insts)
    BY <1>8, <1>9
  <2> QED  BY <1>2, <1>4, <1>9, <2>1, OperatorInstance
<1>11. Alike(x, ApplyOperator(f.sol, o, insts[j]))
  BY <1>7, <1>8, <1>10
<1>12. j \in (g.tried + 1)..Len(g.insts)
  <2>1. Len(f.insts) = 0
    BY <1>1
  <2> QED  BY <1>1, <1>9, <1>10, <2>1
<1>13. ApplyOperator(f.sol, o, insts[j]) \in ToTry(g)
  <2>1. Primitively(g.sol)
    BY <1>1
  <2> QED  BY <1>1, <1>5, <1>6, <1>12, <2>1 DEF ToTry
<1> QED  BY <1>11, <1>13 DEF Stands

LEMMA MethodEnteredToTry ==
  ASSUME NEW f \in Frame, FrameOK(f, f.depth, opts, library), ~f.entered, ~Primitively(f.sol),
         NEW order \in Seq(MethodIndex), Elems(order) = MethodIndex,
         NEW g \in Frame, g = [f EXCEPT !.entered = TRUE, !.order = order, !.insts = <<>>],
         NEW x \in ToTry(f)
  PROVE  Stands(x, ToTry(g))
<1>1. g.sol = f.sol /\ g.entered /\ g.order = order /\ g.i = f.i /\ f.i = 0
  BY Zenon DEF Frame, FrameOK
<1>2. f.sol \in SolutionType
  BY DEF Frame
<1>3. x \in Successors(f.sol) /\ TopTask(f.sol).name \notin Primitive
  BY DEF ToTry, Primitively
<1>4. PICK m \in 1..Len(Methods) : x \in ByMethod(f.sol, m)
  BY <1>2, <1>3, StepOfItsKind
<1>5. PICK i \in 1..Len(order) : order[i] = m
  BY <1>4 DEF Elems, MethodIndex
<1>6. i \in (g.i + 1)..Len(g.order) /\ x \in ByMethod(g.sol, g.order[i])
  BY <1>1, <1>4, <1>5
<1>7. x \in ToTry(g)
  <2>1. ~Primitively(g.sol)
    BY <1>1
  <2>2. x \in UNION {ByMethod(g.sol, g.order[k]) : k \in (g.i + 1)..Len(g.order)}
    BY <1>6
  <2> QED  BY <1>1, <2>1, <2>2 DEF ToTry
<1> QED  BY <1>7, StandsForItself

LEMMA MethodChosenToTry ==
  ASSUME Listable, NEW f \in Frame, FrameOK(f, f.depth, opts, library), f.entered, f.tried = Len(f.insts),
         f.i < Len(f.order), NEW m, m = f.order[f.i + 1],
         NEW insts \in Listings(MethodInstances(Methods[m], TopTask(f.sol), f.sol.state), RelevantVariables(Methods[m])),
         NEW g \in Frame, g = [f EXCEPT !.i = @ + 1, !.insts = insts, !.tried = 0],
         NEW x \in ToTry(f)
  PROVE  Stands(x, ToTry(g))
<1>1. /\ g.sol = f.sol /\ g.entered = f.entered /\ g.order = f.order /\ g.i = f.i + 1
      /\ g.insts = insts /\ g.tried = 0
  BY DEF Frame
<1>2. f.sol \in SolutionType /\ WellFormed(f.sol) /\ ~IsComplete(f.sol) /\ f.i \in Nat /\ f.order \in Seq(MethodIndex)
      /\ Len(f.order) \in Nat /\ f.tried \in Nat
  BY DEF Frame, FrameOK
<1>3. ~Primitively(f.sol)
  <2>1. Primitively(f.sol) => f.order = <<>>
    BY DEF FrameOK
  <2> QED  BY <1>2, <2>1
<1>4. m \in 1..Len(Methods)
  <2>1. f.i + 1 \in 1..Len(f.order)
    BY <1>2
  <2> QED  BY <1>2, <2>1 DEF MethodIndex
<1>5. PICK k \in (f.i + 1)..Len(f.order) : x \in ByMethod(f.sol, f.order[k])
  <2>1. (f.tried + 1)..Len(f.insts) = {}
    BY <1>2
  <2>2. x \in UNION {ByMethod(f.sol, f.order[k]) : k \in (f.i + 1)..Len(f.order)}
    BY <1>3, <2>1 DEF ToTry
  <2> QED  BY <2>2
<1>6. ~Primitively(g.sol)
  BY <1>1, <1>3
<1>7. CASE k = f.i + 1
  <2>1. x \in ByMethod(f.sol, m)
    BY <1>5, <1>7
  <2>2. PICK sub \in MethodInstances(Methods[m], TopTask(f.sol), f.sol.state) :
          \A other \in Grounding(Methods[m]) :
            SameOn(other, sub, RelevantVariables(Methods[m])) => Alike(x, ApplyMethod(f.sol, m, other))
    BY <1>2, <1>4, <2>1, MethodCovered
  <2>3. PICK j \in DOMAIN insts : SameOn(insts[j], sub, RelevantVariables(Methods[m]))
    BY <2>2 DEF Listings
  <2>4. /\ insts \in Seq(SubstitutionType)
        /\ \A i \in 1..Len(insts) : insts[i] \in MethodInstances(Methods[m], TopTask(f.sol), f.sol.state)
    BY <1>4, MethodListing
  <2>5. j \in 1..Len(insts) /\ insts[j] \in Grounding(Methods[m])
    <3>1. j \in 1..Len(insts)
      BY <2>3, <2>4
    <3> QED  BY <1>2, <1>4, <2>4, <3>1, MethodInstance
  <2>6. Alike(x, ApplyMethod(f.sol, m, insts[j]))
    BY <2>2, <2>3, <2>5
  <2>7. ApplyMethod(g.sol, g.order[g.i], g.insts[j]) \in ToTry(g)
    <3>1. j \in (g.tried + 1)..Len(g.insts)
      BY <1>1, <2>5
    <3> QED  BY <1>1, <1>6, <3>1 DEF ToTry
  <2>8. ApplyMethod(g.sol, g.order[g.i], g.insts[j]) = ApplyMethod(f.sol, m, insts[j])
    BY <1>1
  <2> QED  BY <2>6, <2>7, <2>8 DEF Stands
<1>8. CASE k # f.i + 1
  <2>1. k \in (g.i + 1)..Len(g.order) /\ x \in ByMethod(g.sol, g.order[k])
    BY <1>1, <1>2, <1>5, <1>8
  <2>2. x \in UNION {ByMethod(g.sol, g.order[i]) : i \in (g.i + 1)..Len(g.order)}
    BY <2>1
  <2>3. x \in ToTry(g)
    BY <1>1, <1>6, <2>2 DEF ToTry
  <2> QED  BY <2>3, StandsForItself
<1> QED  BY <1>7, <1>8

\* The step an attempt makes, and what it leaves to try.
LEMMA OperatorTaken ==
  ASSUME NEW f \in Frame, f.entered, Primitively(f.sol), f.tried < Len(f.insts),
         NEW o \in FirstNamed(TopTask(f.sol).name),
         NEW g \in Frame, g = [f EXCEPT !.tried = @ + 1], NEW x \in ToTry(f)
  PROVE  Stands(x, ToTry(g) \cup {ApplyOperator(f.sol, o, f.insts[f.tried + 1])})
<1>1. g.sol = f.sol /\ g.entered /\ g.insts = f.insts /\ g.tried = f.tried + 1 /\ f.tried \in Nat
      /\ f.insts \in Seq(SubstitutionType)
  BY DEF Frame
<1>2. PICK p \in FirstNamed(TopTask(f.sol).name) : \E j \in (f.tried + 1)..Len(f.insts) : x = ApplyOperator(f.sol, p, f.insts[j])
  BY DEF ToTry
<1>3. PICK j \in (f.tried + 1)..Len(f.insts) : x = ApplyOperator(f.sol, p, f.insts[j])
  BY <1>2
<1>4. p = o
  BY FirstOperator
<1>5. CASE j = f.tried + 1
  BY <1>3, <1>4, <1>5, StandsForItself
<1>6. CASE j # f.tried + 1
  <2>1. j \in (g.tried + 1)..Len(g.insts)
    BY <1>1, <1>3, <1>6
  <2>2. Primitively(g.sol) /\ x = ApplyOperator(g.sol, p, g.insts[j]) /\ p \in FirstNamed(TopTask(g.sol).name)
    BY <1>1, <1>3
  <2>3. x \in ToTry(g)
    BY <1>1, <2>1, <2>2 DEF ToTry
  <2> QED  BY <2>3, StandsForItself
<1> QED  BY <1>5, <1>6

LEMMA MethodTaken ==
  ASSUME NEW f \in Frame, f.entered, ~Primitively(f.sol), f.tried < Len(f.insts),
         NEW g \in Frame, g = [f EXCEPT !.tried = @ + 1], NEW x \in ToTry(f)
  PROVE  Stands(x, ToTry(g) \cup {ApplyMethod(f.sol, f.order[f.i], f.insts[f.tried + 1])})
<1>1. /\ g.sol = f.sol /\ g.entered /\ g.insts = f.insts /\ g.tried = f.tried + 1 /\ g.order = f.order
      /\ g.i = f.i /\ f.tried \in Nat /\ f.insts \in Seq(SubstitutionType)
  BY DEF Frame
<1>2. ~Primitively(g.sol)
  BY <1>1
<1>3. CASE x \in UNION {ByMethod(f.sol, f.order[i]) : i \in (f.i + 1)..Len(f.order)}
  <2>1. x \in ToTry(g)
    BY <1>1, <1>2, <1>3 DEF ToTry
  <2> QED  BY <2>1, StandsForItself
<1>4. CASE \E j \in (f.tried + 1)..Len(f.insts) : x = ApplyMethod(f.sol, f.order[f.i], f.insts[j])
  <2>1. PICK j \in (f.tried + 1)..Len(f.insts) : x = ApplyMethod(f.sol, f.order[f.i], f.insts[j])
    BY <1>4
  <2>2. CASE j = f.tried + 1
    BY <2>1, <2>2, StandsForItself
  <2>3. CASE j # f.tried + 1
    <3>1. j \in (g.tried + 1)..Len(g.insts)
      BY <1>1, <2>1, <2>3
    <3>2. x = ApplyMethod(g.sol, g.order[g.i], g.insts[j])
      BY <1>1, <2>1
    <3>3. x \in ToTry(g)
      BY <1>1, <1>2, <3>1, <3>2 DEF ToTry
    <3> QED  BY <3>3, StandsForItself
  <2> QED  BY <2>2, <2>3
<1> QED  BY <1>3, <1>4 DEF ToTry

\* Nothing that could lead to a plan is left when the top record returns.
LEMMA NothingLeft ==
  ASSUME IInv, Exhaustive(stack, opts), DepthLimit \/ Backtrack
  PROVE  Top.sol \notin Solvable[opts.maxDepth - (Len(stack) - 1)]
<1>1. Searching
  BY DEF DepthLimit, Backtrack
<1>2. /\ Top \in Frame /\ FrameOK(Top, Len(stack), opts, library) /\ Len(stack) \in Nat \ {0}
      /\ Top.sol \in SolutionType /\ WellFormed(Top.sol) /\ ~IsComplete(Top.sol)
      /\ Top.depth = Len(stack) /\ opts.maxDepth \in Nat
  BY <1>1, TopFacts
<1>3. CASE DepthLimit
  <2>1. Top.depth > opts.maxDepth
    BY <1>3 DEF DepthLimit
  <2>2. Len(stack) - 1 <= opts.maxDepth
    BY <1>2 DEF FrameOK
  <2>3. opts.maxDepth - (Len(stack) - 1) = 0
    BY <1>2, <2>1, <2>2
  <2> QED  BY <1>2, <2>3, SolvableFacts
<1>4. CASE Backtrack
  <2>1. Top.entered /\ Top.tried = Len(Top.insts) /\ Top.i = Len(Top.order)
    BY <1>4 DEF Backtrack
  <2>2. Len(stack) <= opts.maxDepth
    BY <1>2, <2>1 DEF FrameOK
  <2>3. ToTry(Top) = {}
    <3>1. Top.tried \in Nat /\ Top.i \in Nat
      BY <1>2 DEF Frame
    <3>2. (Top.tried + 1)..Len(Top.insts) = {} /\ (Top.i + 1)..Len(Top.order) = {}
      BY <2>1, <3>1
    <3> QED  BY <2>1, <3>2 DEF ToTry
  <2>4. \A new \in Successors(Top.sol) : new \notin Solvable[opts.maxDepth - Len(stack)]
    BY <1>1, <2>2, <2>3, ExhaustiveTop DEF Stands
  <2> DEFINE n == opts.maxDepth - Len(stack)
  <2>5. n \in Nat /\ opts.maxDepth - (Len(stack) - 1) = n + 1
    BY <1>2, <2>2
  <2>6. Top.sol \notin Solvable[n + 1]
    <3> HIDE DEF n
    <3>1. \A new \in Successors(Top.sol) : new \notin Solvable[n]
      BY <2>4 DEF n
    <3> QED  BY <1>2, <2>5, <3>1, SolvableStep
  <2> QED  BY <2>5, <2>6
<1> QED  BY <1>3, <1>4

LEMMA ReturnSearches ==
  ASSUME IInv, Listable, Exhaustive(stack, opts), DepthLimit \/ Backtrack
  PROVE  Searched'
<1>1. Searching /\ Return /\ phase = "search" /\ stack # <<>>
  BY DEF DepthLimit, Backtrack, Searching
<1>2. /\ Stacked(stack, opts, library) /\ Len(stack) \in Nat \ {0} /\ opts \in Options /\ opts.maxDepth \in Nat
  BY <1>1, TopFacts
<1>3. Top.sol \notin Solvable[opts.maxDepth - (Len(stack) - 1)]
  BY NothingLeft
<1>4. Exhaustive(Popped(stack), opts)
  BY <1>1, <1>2, <1>3, ReturnExhaustive DEF Top
<1>5. stack' = Popped(stack) /\ opts' = opts /\ phase' = IF Len(stack) = 1 THEN "failed" ELSE phase
  BY <1>1, Zenon DEF Return
<1>6. CASE Len(stack) = 1
  <2>1. Top.sol = FromProblem
    BY <1>1, <1>2, <1>6 DEF Top, Stacked
  <2>2. opts.maxDepth - (Len(stack) - 1) = opts.maxDepth
    BY <1>2, <1>6
  <2> QED  BY <1>3, <1>5, <1>6, <2>1, <2>2 DEF Searched
<1>7. CASE Len(stack) # 1
  BY <1>1, <1>4, <1>5, <1>7 DEF Searched
<1> QED  BY <1>6, <1>7

\* The top record has been replaced.
LEMMA TopSearches ==
  ASSUME IInv, Searching, Exhaustive(stack, opts), NEW f \in Frame, f.sol = Top.sol,
         \A x \in ToTry(Top) : Stands(x, ToTry(f)),
         stack' = WithTop(f), phase' = phase, opts' = opts
  PROVE  Searched'
<1>1. stack \in Seq(Frame) /\ stack # <<>> /\ phase = "search"
  BY TopFacts DEF Stacked, Searching
<1>2. Exhaustive(WithTop(f), opts)
  BY <1>1, TopExhaustive DEF Top, WithTop
<1> QED  BY <1>1, <1>2 DEF Searched

LEMMA EnterOperatorSearches ==
  ASSUME IInv, Listable, Exhaustive(stack, opts), EnterOperator
  PROVE  Searched'
<1>1. Searching /\ ~Top.entered /\ Top.depth <= opts.maxDepth /\ Primitively(Top.sol)
  BY DEF EnterOperator
<1>2. PICK insts \in OperatorListings(TopTask(Top.sol), Top.sol.state) : Enter(<<>>, insts)
  BY DEF EnterOperator
<1>3. Top \in Frame /\ FrameOK(Top, Len(stack), opts, library) /\ Top.depth = Len(stack)
  BY <1>1, TopFacts
<1> DEFINE g == [Top EXCEPT !.entered = TRUE, !.order = <<>>, !.insts = insts]
<1>4. g \in Frame /\ g.sol = Top.sol
  BY <1>1, <1>3, OperatorEntered
<1>5. \A x \in ToTry(Top) : Stands(x, ToTry(g))
  BY <1>1, <1>3, <1>4, OperatorEnteredToTry
<1>6. stack' = WithTop(g) /\ phase' = phase /\ opts' = opts
  BY <1>2, Zenon DEF Enter
<1> HIDE DEF g
<1> QED  BY <1>1, <1>4, <1>5, <1>6, TopSearches

LEMMA EnterMethodSearches ==
  ASSUME IInv, Exhaustive(stack, opts), EnterMethod
  PROVE  Searched'
<1>1. Searching /\ ~Top.entered /\ Top.depth <= opts.maxDepth /\ ~Primitively(Top.sol)
  BY DEF EnterMethod
<1>2. PICK p \in Orders(Len(library)) :
        /\ ~opts.r => \A i \in 1..Len(library) : p[i] = i
        /\ Enter([i \in 1..Len(library) |-> library[p[i]]], <<>>)
  BY DEF EnterMethod
<1>3. /\ Top \in Frame /\ FrameOK(Top, Len(stack), opts, library) /\ Top.depth = Len(stack)
      /\ library \in Seq(MethodIndex) /\ opts \in Options
  BY <1>1, TopFacts
<1> DEFINE order == [i \in 1..Len(library) |-> library[p[i]]]
           g == [Top EXCEPT !.entered = TRUE, !.order = order, !.insts = <<>>]
<1>4. /\ Len(library) \in Nat /\ \A i \in 1..Len(library) : library[i] \in MethodIndex
      /\ p \in [1..Len(library) -> 1..Len(library)] /\ Elems(library) = MethodIndex
      /\ \A k \in 1..Len(library) : \E i \in 1..Len(library) : p[i] = k
  BY <1>2, <1>3 DEF Orders, IInv, LibraryOK, Whole
<1>5. order \in Seq(MethodIndex) /\ Len(order) = Len(library) /\ (~opts.r => order = library)
  <2>1. order \in [1..Len(library) -> MethodIndex]
    BY <1>4
  <2>2. order \in Seq(MethodIndex) /\ Len(order) = Len(library)
    <3> HIDE DEF order
    <3> QED  BY <1>4, <2>1
  <2>3. ASSUME ~opts.r
        PROVE  order = library
    <3>1. \A i \in 1..Len(library) : order[i] = library[i]
      BY <1>2, <2>3
    <3> QED  BY <1>3, <2>2, <3>1, SeqEqual
  <2> QED  BY <2>2, <2>3
<1>6. Elems(order) = MethodIndex
  <2>1. ASSUME NEW m \in MethodIndex
        PROVE  m \in Elems(order)
    <3>1. PICK k \in 1..Len(library) : library[k] = m
      BY <1>4 DEF Elems
    <3>2. PICK i \in 1..Len(library) : p[i] = k
      BY <1>4
    <3>3. i \in 1..Len(order) /\ order[i] = m
      BY <1>5, <3>1, <3>2
    <3> QED  BY <3>3 DEF Elems
  <2> QED  BY <1>5, <2>1, ElemsType
<1> HIDE DEF order
<1>7. g \in Frame /\ g.sol = Top.sol
  <2>1. Len(stack) <= opts.maxDepth /\ order \in Seq(MethodIndex) /\ (~opts.r => order = library)
    BY <1>1, <1>3, <1>5
  <2>2. g \in Frame /\ g.sol = Top.sol /\ FrameOK(g, Len(stack), opts, library)
    BY <1>1, <2>1, TopFacts, MethodEntered
  <2> QED  BY <2>2
<1>8. \A x \in ToTry(Top) : Stands(x, ToTry(g))
  BY <1>1, <1>3, <1>5, <1>6, <1>7, MethodEnteredToTry
<1>9. stack' = WithTop(g) /\ phase' = phase /\ opts' = opts
  BY <1>2, Zenon DEF Enter, order
<1> HIDE DEF g
<1> QED  BY <1>1, <1>7, <1>8, <1>9, TopSearches

LEMMA NextMethodSearches ==
  ASSUME IInv, Listable, Exhaustive(stack, opts), NextMethod
  PROVE  Searched'
<1>1. Searching /\ Top.entered /\ Top.tried = Len(Top.insts) /\ Top.i < Len(Top.order)
  BY DEF NextMethod
<1> DEFINE m == Top.order[Top.i + 1]
<1>2. PICK l \in Listings(MethodInstances(Methods[m], TopTask(Top.sol), Top.sol.state), RelevantVariables(Methods[m])) :
        stack' = WithTop([Top EXCEPT !.i = @ + 1, !.insts = l, !.tried = 0])
  BY DEF NextMethod
<1>3. Top \in Frame /\ FrameOK(Top, Len(stack), opts, library) /\ Top.depth = Len(stack)
  BY <1>1, TopFacts
<1> DEFINE g == [Top EXCEPT !.i = @ + 1, !.insts = l, !.tried = 0]
<1>4. g \in Frame /\ g.sol = Top.sol
  BY <1>1, <1>2, <1>3, MethodChosen
<1>5. \A x \in ToTry(Top) : Stands(x, ToTry(g))
  BY <1>1, <1>2, <1>3, <1>4, MethodChosenToTry
<1>6. phase' = phase /\ opts' = opts
  BY Zenon DEF NextMethod
<1> HIDE DEF g
<1> QED  BY <1>1, <1>2, <1>4, <1>5, <1>6, TopSearches DEF g

\* The attempt of a step leaves a record that still tries the others.
LEMMA PursueSearches ==
  ASSUME IInv, Searching, Exhaustive(stack, opts), Top.tried < Len(Top.insts), NEW new \in Successors(Top.sol),
         NEW f \in Frame, f = [Top EXCEPT !.tried = @ + 1], f.sol = Top.sol,
         \A x \in ToTry(Top) : Stands(x, ToTry(f) \cup {new}),
         Pursue(new), opts' = opts
  PROVE  Searched'
<1>1. CASE IsComplete(new)
  <2>1. phase' = "found"
    BY <1>1 DEF Pursue
  <2> QED  BY <2>1 DEF Searched
<1>2. CASE ~IsComplete(new)
  <2>1. /\ stack \in Seq(Frame) /\ stack # <<>> /\ phase = "search" /\ Top.depth = Len(stack)
        /\ Top.sol \in SolutionType /\ WellFormed(Top.sol) /\ ~IsComplete(Top.sol)
    BY TopFacts DEF Stacked, Searching
  <2>2. new \in SolutionType
    BY <2>1, SuccessorFacts
  <2>3. stack' = Append(WithTop(f), Call(new, Len(stack) + 1)) /\ phase' = phase
    BY <1>2, <2>1 DEF Pursue
  <2>4. Exhaustive(stack', opts)
    BY <2>1, <2>2, <2>3, CallExhaustive DEF Top, WithTop
  <2> QED  BY <2>1, <2>3, <2>4 DEF Searched
<1> QED  BY <1>1, <1>2

LEMMA TryOperatorSearches ==
  ASSUME IInv, Exhaustive(stack, opts), TryOperator
  PROVE  Searched'
<1>1. Searching /\ Top.entered /\ Top.tried < Len(Top.insts) /\ Primitively(Top.sol) /\ opts' = opts
  BY DEF TryOperator
<1> DEFINE sub == Top.insts[Top.tried + 1]
<1>2. PICK o \in FirstNamed(TopTask(Top.sol).name) :
        IF OperatorRefused(Top.sol, o, sub) THEN Throw ELSE Pursue(ApplyOperator(Top.sol, o, sub))
  BY DEF TryOperator
<1>3. /\ Top \in Frame /\ FrameOK(Top, Len(stack), opts, library)
      /\ Top.sol \in SolutionType /\ WellFormed(Top.sol) /\ ~IsComplete(Top.sol)
  BY <1>1, TopFacts
<1> DEFINE f == [Top EXCEPT !.tried = @ + 1]
<1>4. f \in Frame /\ f.sol = Top.sol
  BY <1>1, <1>3, InstanceTaken
<1>5. \A x \in ToTry(Top) : Stands(x, ToTry(f) \cup {ApplyOperator(Top.sol, o, sub)})
  BY <1>1, <1>3, <1>4, OperatorTaken
<1>6. ~OperatorRefused(Top.sol, o, sub) /\ ApplyOperator(Top.sol, o, sub) \in Successors(Top.sol)
  <2>1. Top.tried + 1 \in 1..Len(Top.insts)
    BY <1>1, <1>3 DEF Frame
  <2>2. InstanceOK(Top, sub)
    BY <1>3, <2>1 DEF FrameOK
  <2>3. PICK p \in FirstNamed(TopTask(Top.sol).name) :
          sub \in OperatorInstances(Operators[p], TopTask(Top.sol), Top.sol.state)
    BY <1>1, <2>2, Zenon DEF InstanceOK
  <2>4. p = o /\ o \in 1..Len(Operators) /\ Operators[o].name = TopTask(Top.sol).name
    BY FirstOperator
  <2> QED  BY <1>3, <2>3, <2>4, OperatorInstance
<1>7. Pursue(ApplyOperator(Top.sol, o, sub))
  BY <1>2, <1>6
<1> HIDE DEF sub, f
<1> QED  BY <1>1, <1>4, <1>5, <1>6, <1>7, PursueSearches DEF f

LEMMA TryMethodSearches ==
  ASSUME IInv, Exhaustive(stack, opts), TryMethod
  PROVE  Searched'
<1>1. Searching /\ Top.entered /\ Top.tried < Len(Top.insts) /\ ~Primitively(Top.sol) /\ opts' = opts
  BY DEF TryMethod
<1> DEFINE m   == Top.order[Top.i]
           sub == Top.insts[Top.tried + 1]
           f   == [Top EXCEPT !.tried = @ + 1]
<1>2. IF MethodRefused(Top.sol, m, sub) THEN Throw ELSE Pursue(ApplyMethod(Top.sol, m, sub))
  BY DEF TryMethod
<1>3. /\ Top \in Frame /\ FrameOK(Top, Len(stack), opts, library)
      /\ Top.sol \in SolutionType /\ WellFormed(Top.sol) /\ ~IsComplete(Top.sol)
  BY <1>1, TopFacts
<1>4. f \in Frame /\ f.sol = Top.sol
  BY <1>1, <1>3, InstanceTaken
<1>5. \A x \in ToTry(Top) : Stands(x, ToTry(f) \cup {ApplyMethod(Top.sol, m, sub)})
  BY <1>1, <1>3, <1>4, MethodTaken
<1>6. ~MethodRefused(Top.sol, m, sub) /\ ApplyMethod(Top.sol, m, sub) \in Successors(Top.sol)
  <2>1. Top.tried + 1 \in 1..Len(Top.insts)
    BY <1>1, <1>3 DEF Frame
  <2>2. InstanceOK(Top, sub)
    BY <1>3, <2>1 DEF FrameOK
  <2>3. Top.i \in 1..Len(Top.order) /\ sub \in MethodInstances(Methods[m], TopTask(Top.sol), Top.sol.state)
    BY <1>1, <2>2, Zenon DEF InstanceOK
  <2>4. m \in 1..Len(Methods)
    BY <1>3, <2>3 DEF Frame, MethodIndex
  <2> QED  BY <1>3, <2>3, <2>4, MethodInstance
<1>7. Pursue(ApplyMethod(Top.sol, m, sub))
  BY <1>2, <1>6
<1> HIDE DEF sub, f, m
<1> QED  BY <1>1, <1>4, <1>5, <1>6, <1>7, PursueSearches DEF f

LEMMA SearchSearches ==
  ASSUME IInv, Searched, SearchStep
  PROVE  Searched'
<1> SUFFICES ASSUME Listable
             PROVE  Searched'
  BY DEF Searched
<1>1. phase = "search"
  BY SearchOutcomes DEF Searching
<1>2. Exhaustive(stack, opts)
  BY <1>1 DEF Searched
<1> QED  BY <1>2, ReturnSearches, EnterOperatorSearches, EnterMethodSearches, NextMethodSearches,
            TryOperatorSearches, TryMethodSearches DEF SearchStep

\* The search begins with every step still to try.
LEMMA StartSearches ==
  ASSUME IInv, Start
  PROVE  Searched'
<1>1. CASE IsComplete(FromProblem)
  <2>1. phase' = "save"
    BY <1>1 DEF Start
  <2> QED  BY <2>1 DEF Searched
<1>2. CASE ~IsComplete(FromProblem)
  <2> DEFINE c == Call(FromProblem, 1)
             s == <<c>>
  <2>1. phase' = "search" /\ stack' = s
    BY <1>2 DEF Start
  <2>2. c.sol = FromProblem /\ ToTry(c) = Successors(FromProblem)
    BY DEF Call, ToTry
  <2> HIDE DEF c
  <2>3. Len(s) = 1 /\ s[1] = c
    OBVIOUS
  <2> HIDE DEF s
  <2>4. ASSUME NEW o, NEW k \in 1..Len(s), NEW new \in Successors(s[k].sol)
        PROVE  Stands(new, ToTry(s[k]) \cup Trying(s, k))
    <3>1. s[k] = c
      BY <2>3
    <3>2. new \in ToTry(s[k]) \cup Trying(s, k)
      BY <2>2, <3>1
    <3> QED  BY <3>2, StandsForItself
  <2>5. Exhaustive(s, opts')
    BY <2>4 DEF Exhaustive
  <2> QED  BY <2>1, <2>5 DEF Searched
<1> QED  BY <1>1, <1>2

\* Whatever the order of methods and instances, whatever is chosen at random:
\* in a domain whose legal steps can be listed, "No legal plans." is said only
\* if no plan is within --max_depth steps.
THEOREM NoPlanIsMissed == Spec => []NoPlanMissed
<1>1. Init => Searched
  BY DEF Init, Searched
<1>2. IInv /\ Searched /\ [Next]_vars => Searched'
  <2> SUFFICES ASSUME IInv, Searched, [Next]_vars
               PROVE  Searched'
    OBVIOUS
  <2>1. CASE SearchStep
    BY <2>1, SearchSearches
  <2>2. CASE Start
    BY <2>2, StartSearches
  <2>3. CASE AfterSearch
    <3>1. phase' \notin {"search", "failed"}
      BY <2>3 DEF AfterSearch, BeginLearning, LearnNode, EndLearning, ReportFailure, WriteDomain, Charge
    <3> QED  BY <3>1 DEF Searched
  <2>4. CASE RunAgain
    <3>1. phase' = "load"
      BY <2>4 DEF RunAgain
    <3> QED  BY <3>1 DEF Searched
  <2>5. CASE UNCHANGED vars
    <3>1. phase' = phase /\ opts' = opts /\ stack' = stack
      BY <2>5 DEF vars
    <3> QED  BY <3>1 DEF Searched
  <2> QED  BY <2>1, <2>2, <2>3, <2>4, <2>5, Zenon DEF Next, Step, SearchStep, AfterSearch
<1>3. IInv /\ Searched => NoPlanMissed
  <2> SUFFICES ASSUME IInv, Searched, phase = "failed", Listable, NEW sol \in Within[opts.maxDepth], IsComplete(sol)
               PROVE  FALSE
    BY DEF NoPlanMissed
  <2>1. opts.maxDepth \in Nat
    BY SolverAssumption DEF IInv, TypeOK, Options
  <2>2. FromProblem \in Solvable[opts.maxDepth]
    BY <2>1, WithinIsSolvable
  <2> QED  BY <2>2 DEF Searched
<1> QED  BY <1>1, <1>2, <1>3, Invariance, PTL DEF Spec
----------------------------------------------------------------------------
(* Sums                                                                    *)

\* The sums are defined, and are what their equation says.
LEMMA SumsFacts ==
  ASSUME NEW n \in Nat, NEW f \in [1..n -> Nat]
  PROVE  /\ Sums(f, n) \in [0..n -> Nat] /\ Sums(f, n)[0] = 0
         /\ \A i \in 1..n : Sums(f, n)[i] = Sums(f, n)[i - 1] + f[i]
<1> DEFINE step == [p \in (1..n) \X Nat |-> p[2] + f[p[1]]]
           Body(g) == [i \in 0..n |-> IF i = 0 THEN 0 ELSE g[i - 1] + f[i]]
<1>1. step \in [(1..n) \X Nat -> Nat]
  OBVIOUS
<1>2. PICK g \in [0..n -> Nat] : g[0] = 0 /\ \A i \in 1..n : g[i] = step[<<i, g[i - 1]>>]
  <2> HIDE DEF step
  <2>1. Iterations(Nat, 0, n, step) # {}
    BY <1>1, Recursion
  <2> QED  BY <2>1 DEF Iterations
<1>3. ASSUME NEW i \in 1..n
      PROVE  g[i] = g[i - 1] + f[i]
  <2>1. i - 1 \in 0..n
    OBVIOUS
  <2>2. <<i, g[i - 1]>> \in (1..n) \X Nat
    BY <2>1
  <2> QED  BY <1>2, <2>2
<1>4. g = Body(g)
  BY <1>2, <1>3
<1>5. Sums(f, n) = Body(Sums(f, n))
  <2>1. Sums(f, n) = CHOOSE h : h = Body(h)
    BY Zenon DEF Sums
  <2>2. \E h : h = Body(h)
    BY <1>4, Zenon
  <2> QED  BY <2>1, <2>2, Zenon
<1> DEFINE s == Sums(f, n)
<1> HIDE DEF s, step
<1>6. s = Body(s)
  BY <1>5 DEF s
<1>7. s[0] = 0
  BY <1>6
<1>8. ASSUME NEW i \in 1..n
      PROVE  s[i] = s[i - 1] + f[i]
  <2>1. i # 0 /\ i \in 0..n
    OBVIOUS
  <2>2. s[i] = Body(s)[i]
    BY <1>6
  <2> QED  BY <2>1, <2>2
<1> DEFINE S == {i \in Nat : i <= n => s[i] \in Nat}
<1>9. 0 \in S
  BY <1>7
<1>10. ASSUME NEW i \in Nat, i \in S
       PROVE  i + 1 \in S
  <2> SUFFICES ASSUME i + 1 <= n PROVE s[i + 1] \in Nat
    OBVIOUS
  <2>1. i + 1 \in 1..n /\ i + 1 - 1 = i /\ s[i] \in Nat
    BY <1>10
  <2> QED  BY <1>8, <2>1
<1>11. Nat \subseteq S
  <2> HIDE DEF S
  <2> QED  BY <1>9, <1>10, Induction
<1>12. s \in [0..n -> Nat]
  <2>1. \A i \in 0..n : s[i] \in Nat
    BY <1>11
  <2> QED  BY <1>6, <2>1
<1> QED  BY <1>7, <1>8, <1>12 DEF s

LEMMA TotalType ==
  ASSUME NEW n \in Nat, NEW f \in [1..n -> Nat]
  PROVE  Total(f, n) \in Nat
<1> QED  BY SumsFacts DEF Total

\* The total of what is added up place by place is the sum of the totals.
LEMMA TotalOfSum ==
  ASSUME NEW n \in Nat, NEW f \in [1..n -> Nat], NEW g \in [1..n -> Nat], NEW h \in [1..n -> Nat],
         \A i \in 1..n : h[i] = f[i] + g[i]
  PROVE  Total(h, n) = Total(f, n) + Total(g, n)
<1> DEFINE sf == Sums(f, n)
           sg == Sums(g, n)
           sh == Sums(h, n)
           S  == {i \in Nat : i <= n => sh[i] = sf[i] + sg[i]}
<1>1. /\ sf \in [0..n -> Nat] /\ sf[0] = 0 /\ \A i \in 1..n : sf[i] = sf[i - 1] + f[i]
      /\ sg \in [0..n -> Nat] /\ sg[0] = 0 /\ \A i \in 1..n : sg[i] = sg[i - 1] + g[i]
      /\ sh \in [0..n -> Nat] /\ sh[0] = 0 /\ \A i \in 1..n : sh[i] = sh[i - 1] + h[i]
  BY SumsFacts
<1> HIDE DEF sf, sg, sh
<1>2. 0 \in S
  BY <1>1
<1>3. ASSUME NEW i \in Nat, i \in S
      PROVE  i + 1 \in S
  <2> SUFFICES ASSUME i + 1 <= n PROVE sh[i + 1] = sf[i + 1] + sg[i + 1]
    OBVIOUS
  <2>0. sh[i] = sf[i] + sg[i]
    BY <1>3
  <2>1. PICK j \in 1..n : j = i + 1 /\ j - 1 = i
    OBVIOUS
  <2>2. sf[j] = sf[j - 1] + f[j] /\ sg[j] = sg[j - 1] + g[j] /\ sh[j] = sh[j - 1] + h[j]
    BY <1>1
  <2>3. f[j] \in Nat /\ g[j] \in Nat /\ h[j] = f[j] + g[j]
    OBVIOUS
  <2>4. i \in 0..n
    BY <2>1
  <2>5. sf[i] \in Nat /\ sg[i] \in Nat
    BY <1>1, <2>4
  <2> QED  BY <2>0, <2>1, <2>2, <2>3, <2>5
<1> HIDE DEF S
<1>4. n \in S
  BY <1>2, <1>3, Induction
<1> QED  BY <1>4 DEF S, Total, sf, sg, sh

\* The total of what is not zero in one place at most.
LEMMA TotalOfOne ==
  ASSUME NEW n \in Nat, NEW f \in [1..n -> Nat], NEW j \in Nat,
         \A i \in 1..n : i # j => f[i] = 0
  PROVE  Total(f, n) = IF j \in 1..n THEN f[j] ELSE 0
<1> DEFINE s == Sums(f, n)
           S == {i \in Nat : i <= n => s[i] = IF j \in 1..i THEN f[j] ELSE 0}
<1>1. s \in [0..n -> Nat] /\ s[0] = 0 /\ \A i \in 1..n : s[i] = s[i - 1] + f[i]
  BY SumsFacts
<1> HIDE DEF s
<1>2. 0 \in S
  BY <1>1
<1>3. ASSUME NEW i \in Nat, i \in S
      PROVE  i + 1 \in S
  <2> SUFFICES ASSUME i + 1 <= n PROVE s[i + 1] = IF j \in 1..(i + 1) THEN f[j] ELSE 0
    OBVIOUS
  <2>1. i + 1 \in 1..n /\ i + 1 - 1 = i /\ s[i] = IF j \in 1..i THEN f[j] ELSE 0
    BY <1>3
  <2>2. s[i + 1] = s[i] + f[i + 1] /\ f[i + 1] \in Nat
    BY <1>1, <2>1
  <2>3. CASE i + 1 = j
    BY <2>1, <2>2, <2>3
  <2>4. CASE i + 1 # j
    <3>1. f[i + 1] = 0
      BY <2>1, <2>4
    <3>2. j \in 1..(i + 1) <=> j \in 1..i
      BY <2>4
    <3>3. j \in 1..i => f[j] \in Nat
      BY <2>1
    <3> QED  BY <2>1, <2>2, <3>1, <3>2, <3>3
  <2> QED  BY <2>3, <2>4
<1> HIDE DEF S
<1>4. n \in S
  BY <1>2, <1>3, Induction
<1> QED  BY <1>4 DEF S, Total, s

----------------------------------------------------------------------------
(* The nodes above a node                                                  *)

\* A sequence of nodes in which each one comes after its parent, which is a
\* decomposition.
Forest(tree) ==
  /\ tree \in Seq(NodeType)
  /\ \A k \in 1..Len(tree) :
       /\ tree[k].parent \in Nat /\ tree[k].parent < k
       /\ tree[k].parent # 0 => ~tree[tree[k].parent].oper

\* A node and those above it.
Line(tree, k) == {k} \cup Above(tree)[k]

LEMMA AboveFacts ==
  ASSUME NEW tree, Forest(tree)
  PROVE  \A k \in 1..Len(tree) :
           Above(tree)[k] = IF tree[k].parent = 0 THEN {} ELSE Line(tree, tree[k].parent)
<1> DEFINE N == Len(tree)
           Over(f, k) == IF tree[k].parent = 0 THEN {} ELSE {tree[k].parent} \cup f[tree[k].parent]
           Body(f) == [k \in 1..N |-> Over(f, k)]
           S == {n \in Nat : n <= N => \E f : f = [k \in 1..n |-> Over(f, k)]}
<1>1. N \in Nat /\ \A k \in 1..N : tree[k].parent \in Nat /\ tree[k].parent < k
  BY DEF Forest
<1>2. 0 \in S
  <2> DEFINE f == [k \in 1..0 |-> {}]
  <2>1. f = [k \in 1..0 |-> Over(f, k)]
    OBVIOUS
  <2> QED  BY <2>1
<1>3. ASSUME NEW n \in Nat, n \in S
      PROVE  n + 1 \in S
  <2> SUFFICES ASSUME n + 1 <= N PROVE \E g : g = [k \in 1..(n + 1) |-> Over(g, k)]
    OBVIOUS
  <2>1. PICK f : f = [k \in 1..n |-> Over(f, k)]
    BY <1>1, <1>3
  <2> DEFINE g == [k \in 1..(n + 1) |-> IF k = n + 1 THEN Over(f, k) ELSE f[k]]
  <2>2. \A k \in 1..n : g[k] = f[k]
    OBVIOUS
  <2>3. ASSUME NEW k \in 1..(n + 1)
        PROVE  g[k] = Over(g, k)
    <3>1. tree[k].parent \in Nat /\ tree[k].parent < k
      BY <1>1
    <3>2. tree[k].parent # 0 => g[tree[k].parent] = f[tree[k].parent]
      <4> HIDE DEF g
      <4> QED  BY <2>2, <3>1
    <3>3. Over(g, k) = Over(f, k)
      <4> HIDE DEF g
      <4> QED  BY <3>2
    <3>4. g[k] = Over(f, k)
      <4>1. CASE k = n + 1
        BY <4>1
      <4>2. CASE k # n + 1
        <5>1. k \in 1..n
          BY <4>2
        <5>2. f[k] = Over(f, k)
          BY <2>1, <5>1
        <5> QED  BY <2>2, <5>1, <5>2
      <4> QED  BY <4>1, <4>2
    <3> QED  BY <3>3, <3>4
  <2>4. g = [k \in 1..(n + 1) |-> g[k]]
    OBVIOUS
  <2>5. g = [k \in 1..(n + 1) |-> Over(g, k)]
    <3> HIDE DEF g
    <3> QED  BY <2>3, <2>4
  <2> QED  BY <2>5
<1>4. \E f : f = Body(f)
  <2>1. N \in S
    <3> HIDE DEF S
    <3> QED  BY <1>1, <1>2, <1>3, Induction
  <2> QED  BY <1>1, <2>1
<1>5. Above(tree) = Body(Above(tree))
  <2>1. Above(tree) = CHOOSE f : f = Body(f)
    BY Zenon DEF Above
  <2> QED  BY <1>4, <2>1, Zenon
<1> DEFINE a == Above(tree)
<1> HIDE DEF a
<1>6. a = Body(a)
  BY <1>5 DEF a
<1>7. \A k \in 1..N : a[k] = Over(a, k)
  BY <1>6
<1> QED  BY <1>7 DEF a, Line

\* What is above a node comes before it, and what is above that is above it.
LEMMA AboveOrder ==
  ASSUME NEW tree, Forest(tree)
  PROVE  \A k \in 1..Len(tree) :
           /\ Above(tree)[k] \subseteq 1..(k - 1)
           /\ \A c \in Above(tree)[k] : Above(tree)[c] \subseteq Above(tree)[k]
<1> DEFINE N == Len(tree)
           a == Above(tree)
           Good(k) == a[k] \subseteq 1..(k - 1) /\ \A c \in a[k] : a[c] \subseteq a[k]
           S == {n \in Nat : \A k \in 1..N : k <= n => Good(k)}
<1>1. N \in Nat /\ \A k \in 1..N : tree[k].parent \in Nat /\ tree[k].parent < k
  BY DEF Forest
<1>2. \A k \in 1..N : a[k] = IF tree[k].parent = 0 THEN {} ELSE {tree[k].parent} \cup a[tree[k].parent]
  BY AboveFacts DEF Line
<1> HIDE DEF a
<1>3. 0 \in S
  BY <1>1
<1>4. ASSUME NEW n \in Nat, n \in S
      PROVE  n + 1 \in S
  <2> SUFFICES ASSUME NEW k \in 1..N, k = n + 1 PROVE Good(k)
    BY <1>1, <1>4
  <2>1. CASE tree[k].parent = 0
    BY <1>2, <2>1
  <2>2. CASE tree[k].parent # 0
    <3> DEFINE p == tree[k].parent
    <3>0. a[k] = {p} \cup a[p]
      BY <1>2, <2>2
    <3>3. p \in Nat /\ p < k /\ p # 0
      BY <1>1, <2>2
    <3>1. p \in 1..N /\ p <= n /\ a[k] = {p} \cup a[p]
      <4> HIDE DEF p
      <4> QED  BY <1>1, <3>0, <3>3
    <3> HIDE DEF p
    <3>2. Good(p)
      BY <1>4, <3>1
    <3> QED  BY <1>1, <3>1, <3>2
  <2> QED  BY <2>1, <2>2
<1> HIDE DEF S
<1>5. N \in S
  BY <1>1, <1>3, <1>4, Induction
<1>6. \A k \in 1..N : Good(k)
  BY <1>1, <1>5 DEF S
<1> QED  BY <1>6 DEF a

\* A node is above another one exactly if a child of its is on the line to it.
LEMMA ChildOnLine ==
  ASSUME NEW tree, Forest(tree), NEW n \in 1..Len(tree), NEW k \in 1..Len(tree)
  PROVE  n \in Above(tree)[k] <=> \E c \in 1..Len(tree) : tree[c].parent = n /\ c \in Line(tree, k)
<1> DEFINE N == Len(tree)
           a == Above(tree)
           HasChild(i) == \E c \in 1..N : tree[c].parent = n /\ c \in {i} \cup a[i]
           S == {m \in Nat : \A i \in 1..N : i <= m /\ n \in a[i] => HasChild(i)}
<1>1. N \in Nat /\ \A i \in 1..N : tree[i].parent \in Nat /\ tree[i].parent < i
  BY DEF Forest
<1>2. \A i \in 1..N : a[i] = IF tree[i].parent = 0 THEN {} ELSE {tree[i].parent} \cup a[tree[i].parent]
  BY AboveFacts DEF Line
<1>3. \A i \in 1..N : \A c \in a[i] : a[c] \subseteq a[i]
  BY AboveOrder
<1> HIDE DEF a
<1>4. 0 \in S
  BY <1>1
<1>5. ASSUME NEW m \in Nat, m \in S
      PROVE  m + 1 \in S
  <2> SUFFICES ASSUME NEW i \in 1..N, i = m + 1, n \in a[i] PROVE HasChild(i)
    BY <1>1, <1>5
  <2> DEFINE p == tree[i].parent
  <2>0. p # 0 /\ a[i] = {p} \cup a[p]
    BY <1>2
  <2>4. p \in Nat /\ p < i
    BY <1>1
  <2>1. p \in 1..N /\ p <= m /\ a[i] = {p} \cup a[p]
    <3> HIDE DEF p
    <3> QED  BY <1>1, <2>0, <2>4
  <2>2. CASE n = p
    BY <2>2
  <2>3. CASE n \in a[p]
    <3> HIDE DEF p
    <3>1. HasChild(p)
      BY <1>5, <2>1, <2>3
    <3> QED  BY <2>1, <3>1
  <2> QED  BY <2>1, <2>2, <2>3
<1> HIDE DEF S
<1>6. N \in S
  BY <1>1, <1>4, <1>5, Induction
<1>7. n \in a[k] => HasChild(k)
  BY <1>1, <1>6 DEF S
<1>8. ASSUME NEW c \in 1..N, tree[c].parent = n, c \in {k} \cup a[k]
      PROVE  n \in a[k]
  <2>0. tree[c].parent # 0
    BY <1>1, <1>8
  <2>1. n \in a[c]
    BY <1>2, <1>8, <2>0
  <2> QED  BY <1>3, <1>8, <2>1
<1> QED  BY <1>7, <1>8 DEF a, Line

\* Only one child of a node is on the line to another one.
LEMMA OneChildOnLine ==
  ASSUME NEW tree, Forest(tree), NEW k \in 1..Len(tree), NEW c \in Line(tree, k), NEW d \in Line(tree, k),
         tree[c].parent = tree[d].parent, tree[c].parent # 0
  PROVE  c = d
<1> DEFINE N == Len(tree)
           a == Above(tree)
           n == tree[c].parent
           Only(i) == c \in {i} \cup a[i] /\ d \in {i} \cup a[i] => c = d
           S == {m \in Nat : \A i \in 1..N : i <= m => Only(i)}
<1>1. N \in Nat /\ \A i \in 1..N : tree[i].parent \in Nat /\ tree[i].parent < i
  BY DEF Forest
<1>2. \A i \in 1..N : a[i] = IF tree[i].parent = 0 THEN {} ELSE {tree[i].parent} \cup a[tree[i].parent]
  BY AboveFacts DEF Line
<1>3. \A i \in 1..N : a[i] \subseteq 1..(i - 1)
  BY AboveOrder
<1> HIDE DEF a
<1>4. 0 \in S
  BY <1>1
<1>5. c \in 1..N /\ d \in 1..N
  BY <1>1, <1>3 DEF Line, a
<1>6. n \in 1..N /\ n < c /\ n < d /\ tree[d].parent = n
  BY <1>1, <1>5
<1>7. \A e \in {n} \cup a[n] : e # c /\ e # d
  BY <1>3, <1>6
<1>8. ASSUME NEW m \in Nat, m \in S
      PROVE  m + 1 \in S
  <2> SUFFICES ASSUME NEW i \in 1..N, i = m + 1, c \in {i} \cup a[i], d \in {i} \cup a[i] PROVE c = d
    BY <1>1, <1>8
  <2>1. CASE c = i \/ d = i
    <3>1. tree[i].parent = n
      BY <1>6, <2>1
    <3>2. a[i] = {n} \cup a[n]
      BY <1>2, <1>6, <3>1
    <3>3. c \notin a[i] /\ d \notin a[i]
      BY <1>7, <3>2
    <3> QED  BY <3>3
  <2>2. CASE c # i /\ d # i
    <3> DEFINE p == tree[i].parent
    <3>1. c \in a[i] /\ d \in a[i]
      BY <2>2
    <3>0. p # 0 /\ a[i] = {p} \cup a[p]
      BY <1>2, <3>1
    <3>3. p \in Nat /\ p < i
      BY <1>1
    <3>2. p \in 1..N /\ p <= m /\ a[i] = {p} \cup a[p]
      <4> HIDE DEF p
      <4> QED  BY <1>1, <3>0, <3>3
    <3> HIDE DEF p
    <3> QED  BY <1>8, <3>1, <3>2
  <2> QED  BY <2>1, <2>2
<1> HIDE DEF S
<1>9. N \in S
  BY <1>1, <1>4, <1>8, Induction
<1>10. Only(k)
  BY <1>1, <1>9 DEF S
<1> QED  BY <1>10 DEF Line, a
----------------------------------------------------------------------------
(* What the calls of DoThisQValue add up                                   *)

\* What the nodes in R have charged to node n: the actions on and below those
\* of them that are children of n.
Charged(tree, R, n) ==
  [k \in 1..Len(tree) |->
     IF \E c \in R : tree[c].parent = n /\ c \in Line(tree, k) THEN CostOf(tree[k]) ELSE 0]

\* What node n charges.
Branch(tree, n) == [k \in 1..Len(tree) |-> IF n \in Line(tree, k) THEN CostOf(tree[k]) ELSE 0]

LEMMA CostType ==
  ASSUME NEW sol, Backed(sol), NEW k \in 1..Len(sol.tree)
  PROVE  CostOf(sol.tree[k]) \in Nat
<1>1. CASE sol.tree[k].oper
  <2>1. PICK o \in 1..Len(Operators) : Operators[o].name = sol.tree[k].task.name
    BY <1>1, Zenon DEF Backed
  <2> DEFINE F == FirstNamed(sol.tree[k].task.name)
  <2>2. F # {}
    BY <2>1, SomeFirstNamed
  <2>3. (CHOOSE p \in F : TRUE) \in F
    BY <2>2
  <2>4. \A p \in F : Operators[p] \in OperatorType
    BY FirstOperator, OperatorFacts
  <2> HIDE DEF F
  <2>5. Operators[CHOOSE p \in F : TRUE].cost \in Nat
    BY <2>3, <2>4 DEF OperatorType
  <2> QED  BY <1>1, <2>5 DEF CostOf, F
<1>2. CASE ~sol.tree[k].oper
  BY <1>2 DEF CostOf
<1> QED  BY <1>1, <1>2

\* A forest the costs of which are known.
Priced(tree) == Forest(tree) /\ \A k \in 1..Len(tree) : CostOf(tree[k]) \in Nat

LEMMA CostBelowType ==
  ASSUME NEW tree, Priced(tree), NEW n
  PROVE  CostBelow(tree, n) \in Nat
<1> DEFINE f == [k \in 1..Len(tree) |-> IF n \in Above(tree)[k] THEN CostOf(tree[k]) ELSE 0]
<1>1. f \in [1..Len(tree) -> Nat] /\ Len(tree) \in Nat
  BY DEF Priced, Forest
<1> HIDE DEF f
<1>2. Total(f, Len(tree)) \in Nat
  BY <1>1, TotalType
<1> QED  BY <1>2 DEF CostBelow, f

LEMMA ChargedType ==
  ASSUME NEW tree, Priced(tree), NEW R, NEW n
  PROVE  /\ Len(tree) \in Nat /\ Charged(tree, R, n) \in [1..Len(tree) -> Nat]
         /\ Branch(tree, n) \in [1..Len(tree) -> Nat]
<1>1. Len(tree) \in Nat /\ \A k \in 1..Len(tree) : CostOf(tree[k]) \in Nat
  BY DEF Priced, Forest
<1> QED  BY <1>1 DEF Charged, Branch

\* Another node charges its branch to its parent and to no other node.
LEMMA ChargedAnother ==
  ASSUME NEW tree, Priced(tree), NEW R \in SUBSET (1..Len(tree)), NEW n \in (1..Len(tree)) \ R,
         NEW q \in 1..Len(tree)
  PROVE  Total(Charged(tree, R \cup {n}, q), Len(tree)) =
           Total(Charged(tree, R, q), Len(tree))
             + (IF q = tree[n].parent THEN Total(Branch(tree, n), Len(tree)) ELSE 0)
<1> DEFINE N == Len(tree)
           f == Charged(tree, R, q)
           g == Branch(tree, n)
           h == Charged(tree, R \cup {n}, q)
<1>1. N \in Nat /\ f \in [1..N -> Nat] /\ g \in [1..N -> Nat] /\ h \in [1..N -> Nat]
  BY ChargedType
<1>2. CASE q = tree[n].parent
  <2>1. ASSUME NEW k \in 1..N
        PROVE  h[k] = f[k] + g[k]
    <3>1. CostOf(tree[k]) \in Nat /\ q # 0
      BY <1>1 DEF Priced
    <3>2. CASE n \in Line(tree, k)
      <4>1. ~ \E c \in R : tree[c].parent = q /\ c \in Line(tree, k)
        <5> SUFFICES ASSUME NEW c \in R, tree[c].parent = q, c \in Line(tree, k) PROVE FALSE
          OBVIOUS
        <5>1. c = n
          BY <1>2, <3>1, <3>2, OneChildOnLine DEF Priced
        <5> QED  BY <5>1
      <4>2. f[k] = 0
        BY <4>1 DEF Charged
      <4>3. h[k] = CostOf(tree[k]) /\ g[k] = CostOf(tree[k])
        BY <1>2, <3>2 DEF Charged, Branch
      <4> HIDE DEF f, g, h
      <4> QED  BY <3>1, <4>2, <4>3
    <3>3. CASE n \notin Line(tree, k)
      <4>1. g[k] = 0
        BY <3>3 DEF Branch
      <4>2. h[k] = f[k]
        BY <3>3 DEF Charged
      <4> HIDE DEF f, g, h
      <4> QED  BY <1>1, <4>1, <4>2
    <3> QED  BY <3>2, <3>3
  <2> HIDE DEF f, g, h, N
  <2>2. Total(h, N) = Total(f, N) + Total(g, N)
    BY <1>1, <2>1, TotalOfSum
  <2> QED  BY <1>2, <2>2 DEF f, g, h, N
<1>3. CASE q # tree[n].parent
  <2>1. h = f
    BY <1>3 DEF Charged
  <2>2. Total(f, N) \in Nat
    <3> HIDE DEF f, N
    <3> QED  BY <1>1, TotalType
  <2> QED  BY <1>3, <2>1, <2>2
<1> QED  BY <1>2, <1>3

\* The children of a node have charged it all that is below it.
LEMMA AllCharged ==
  ASSUME NEW tree, Priced(tree), NEW R \in SUBSET (1..Len(tree)), NEW n \in 1..Len(tree),
         \A k \in 1..Len(tree) : tree[k].parent = n => k \in R
  PROVE  Total(Charged(tree, R, n), Len(tree)) = CostBelow(tree, n)
<1>1. ASSUME NEW k \in 1..Len(tree)
      PROVE  (\E c \in R : tree[c].parent = n /\ c \in Line(tree, k)) <=> n \in Above(tree)[k]
  <2>1. n \in Above(tree)[k] <=> \E c \in 1..Len(tree) : tree[c].parent = n /\ c \in Line(tree, k)
    BY ChildOnLine DEF Priced
  <2> QED  BY <2>1
<1>2. Charged(tree, R, n) = [k \in 1..Len(tree) |-> IF n \in Above(tree)[k] THEN CostOf(tree[k]) ELSE 0]
  BY <1>1 DEF Charged
<1> QED  BY <1>2 DEF CostBelow

\* A decomposition charges what is below it, an action its own cost.
LEMMA BranchCost ==
  ASSUME NEW tree, Priced(tree), NEW n \in 1..Len(tree)
  PROVE  Total(Branch(tree, n), Len(tree)) = IF tree[n].oper THEN CostOf(tree[n]) ELSE CostBelow(tree, n)
<1>1. Len(tree) \in Nat /\ Branch(tree, n) \in [1..Len(tree) -> Nat]
  BY ChargedType
<1>2. CASE tree[n].oper
  <2>1. ASSUME NEW k \in 1..Len(tree), k # n
        PROVE  Branch(tree, n)[k] = 0
    <3>1. ~ \E c \in 1..Len(tree) : tree[c].parent = n
      <4> SUFFICES ASSUME NEW c \in 1..Len(tree), tree[c].parent = n PROVE FALSE
        OBVIOUS
      <4>1. n # 0
        BY <1>1
      <4>2. tree[c].parent # 0 => ~tree[tree[c].parent].oper
        BY DEF Priced, Forest
      <4> QED  BY <1>2, <4>1, <4>2
    <3>2. n \notin Above(tree)[k]
      BY <3>1, ChildOnLine DEF Priced
    <3> QED  BY <2>1, <3>2 DEF Branch, Line
  <2>2. Branch(tree, n)[n] = CostOf(tree[n])
    BY DEF Branch, Line
  <2>3. Total(Branch(tree, n), Len(tree)) = Branch(tree, n)[n]
    BY <1>1, <2>1, TotalOfOne
  <2> QED  BY <1>2, <2>2, <2>3
<1>3. CASE ~tree[n].oper
  <2>1. CostOf(tree[n]) = 0
    BY <1>3 DEF CostOf
  <2>2. n \notin Above(tree)[n]
    BY <1>1, AboveOrder DEF Priced
  <2>3. ASSUME NEW k \in 1..Len(tree)
        PROVE  Branch(tree, n)[k] = IF n \in Above(tree)[k] THEN CostOf(tree[k]) ELSE 0
    <3>1. CASE k = n
      BY <2>1, <2>2, <3>1 DEF Branch
    <3>2. CASE k # n
      BY <3>2 DEF Branch, Line
    <3> QED  BY <3>1, <3>2
  <2>4. Branch(tree, n) = [k \in 1..Len(tree) |-> IF n \in Above(tree)[k] THEN CostOf(tree[k]) ELSE 0]
    BY <2>3 DEF Branch
  <2> QED  BY <1>3, <2>4 DEF CostBelow
<1> QED  BY <1>2, <1>3

\* What each use of method m observes, added up over R and over R with node n.
OneUseMore(tree, m, R, n) ==
  /\ Cardinality(Uses(tree, m) \cap R) \in Nat /\ CostOfUses(tree, m, R) \in Nat
  /\ n \in Uses(tree, m) =>
       /\ Cardinality(Uses(tree, m) \cap (R \cup {n})) = Cardinality(Uses(tree, m) \cap R) + 1
       /\ CostOfUses(tree, m, R \cup {n}) = CostOfUses(tree, m, R) + CostBelow(tree, n)
  /\ n \notin Uses(tree, m) =>
       /\ Cardinality(Uses(tree, m) \cap (R \cup {n})) = Cardinality(Uses(tree, m) \cap R)
       /\ CostOfUses(tree, m, R \cup {n}) = CostOfUses(tree, m, R)

\* One more node is one more observation for the method that made it.
LEMMA OneMoreUse ==
  ASSUME NEW tree, Priced(tree), NEW m, NEW R \in SUBSET (1..Len(tree)), NEW n \in (1..Len(tree)) \ R
  PROVE  OneUseMore(tree, m, R, n)
<1> DEFINE N == Len(tree)
           U == Uses(tree, m)
           f == [k \in 1..N |-> IF k \in U \cap R THEN CostBelow(tree, k) ELSE 0]
           g == [k \in 1..N |-> IF k = n /\ n \in U THEN CostBelow(tree, k) ELSE 0]
           h == [k \in 1..N |-> IF k \in U \cap (R \cup {n}) THEN CostBelow(tree, k) ELSE 0]
<1>1. N \in Nat /\ \A k \in 1..N : CostBelow(tree, k) \in Nat
  BY ChargedType, CostBelowType
<1>2. IsFiniteSet(U \cap R)
  <2>1. IsFiniteSet(1..N)
    BY <1>1, FS_Interval
  <2> QED  BY <2>1, FS_Subset
<1>3. Cardinality(U \cap R) \in Nat
  BY <1>2, FS_CardinalityType
<1>4. Cardinality(U \cap (R \cup {n})) = Cardinality(U \cap R) + (IF n \in U THEN 1 ELSE 0)
  <2>1. CASE n \in U
    <3>1. U \cap (R \cup {n}) = (U \cap R) \cup {n} /\ n \notin U \cap R
      BY <2>1
    <3> HIDE DEF U
    <3>2. Cardinality((U \cap R) \cup {n}) = Cardinality(U \cap R) + 1
      BY <1>2, <3>1, FS_AddElement
    <3> QED  BY <2>1, <3>1, <3>2
  <2>2. CASE n \notin U
    <3>1. U \cap (R \cup {n}) = U \cap R
      BY <2>2
    <3> DEFINE u == Cardinality(U \cap R)
               v == Cardinality(U \cap (R \cup {n}))
    <3> HIDE DEF U
    <3>2. v = u /\ u \in Nat
      BY <1>3, <3>1, Zenon
    <3> HIDE DEF u, v
    <3>3. v = u + 0
      BY <3>2
    <3> QED  BY <2>2, <3>3 DEF u, v
  <2> QED  BY <2>1, <2>2
<1> HIDE DEF U
<1>5. f \in [1..N -> Nat] /\ g \in [1..N -> Nat] /\ h \in [1..N -> Nat]
  BY <1>1
<1>6. \A k \in 1..N : h[k] = f[k] + g[k]
  <2> SUFFICES ASSUME NEW k \in 1..N PROVE h[k] = f[k] + g[k]
    OBVIOUS
  <2> DEFINE c == CostBelow(tree, k)
  <2>1. c \in Nat
    BY <1>1
  <2>2. /\ f[k] = IF k \in U \cap R THEN c ELSE 0
        /\ g[k] = IF k = n /\ n \in U THEN c ELSE 0
        /\ h[k] = IF k \in U \cap (R \cup {n}) THEN c ELSE 0
    OBVIOUS
  <2> HIDE DEF c, f, g, h
  <2> QED  BY <2>1, <2>2
<1>7. \A k \in 1..N : k # n => g[k] = 0
  OBVIOUS
<1>8. g[n] = IF n \in U THEN CostBelow(tree, n) ELSE 0
  OBVIOUS
<1>9. Total(h, N) = Total(f, N) + Total(g, N) /\ Total(f, N) \in Nat
  <2> HIDE DEF f, g, h, N
  <2> QED  BY <1>1, <1>5, <1>6, TotalOfSum, TotalType
<1>10. Total(g, N) = g[n]
  <2>1. n \in 1..N /\ n \in Nat
    BY <1>1
  <2> HIDE DEF f, g, h, N
  <2> QED  BY <1>1, <1>5, <1>7, <2>1, TotalOfOne
<1>11. CostOfUses(tree, m, R) = Total(f, N) /\ CostOfUses(tree, m, R \cup {n}) = Total(h, N)
  BY DEF CostOfUses, U
<1>12. CASE n \in U
  <2>1. Cardinality(U \cap (R \cup {n})) = Cardinality(U \cap R) + 1
    BY <1>4, <1>12
  <2>2. CostOfUses(tree, m, R \cup {n}) = CostOfUses(tree, m, R) + CostBelow(tree, n)
    <3>1. Total(h, N) = Total(f, N) + CostBelow(tree, n)
      BY <1>8, <1>9, <1>10, <1>12
    <3> HIDE DEF f, h, N
    <3> QED  BY <1>11, <3>1
  <2>3. Cardinality(U \cap R) \in Nat /\ CostOfUses(tree, m, R) \in Nat
    BY <1>3, <1>9, <1>11, Zenon
  <2> QED  BY <1>12, <2>1, <2>2, <2>3, Zenon DEF U, OneUseMore
<1>13. CASE n \notin U
  <2>1. Cardinality(U \cap (R \cup {n})) = Cardinality(U \cap R)
    <3> DEFINE u == Cardinality(U \cap R)
               v == Cardinality(U \cap (R \cup {n}))
    <3>1. u \in Nat /\ v = u + (IF n \in U THEN 1 ELSE 0)
      BY <1>3, <1>4
    <3> HIDE DEF u, v
    <3>2. v = u + 0
      BY <1>13, <3>1
    <3>3. v = u
      BY <3>1, <3>2
    <3> QED  BY <3>3 DEF u, v
  <2>2. Total(h, N) = Total(f, N)
    <3> DEFINE u == Total(f, N)
               v == Total(h, N)
    <3>1. u \in Nat /\ v = u + Total(g, N) /\ Total(g, N) = 0
      BY <1>8, <1>9, <1>10, <1>13
    <3> HIDE DEF u, v
    <3>2. v = u + 0
      BY <3>1
    <3>3. v = u
      BY <3>1, <3>2
    <3> QED  BY <3>3 DEF u, v
  <2>3. Cardinality(U \cap R) \in Nat /\ CostOfUses(tree, m, R) \in Nat
    BY <1>3, <1>9, <1>11, Zenon
  <2>4. CostOfUses(tree, m, R \cup {n}) = CostOfUses(tree, m, R)
    BY <1>11, <2>2, Zenon
  <2> QED  BY <1>13, <2>1, <2>3, <2>4, Zenon DEF U, OneUseMore
<1> QED  BY <1>12, <1>13

LEMMA NoUse ==
  ASSUME NEW tree, Priced(tree), NEW m
  PROVE  Cardinality(Uses(tree, m) \cap {}) = 0 /\ CostOfUses(tree, m, {}) = 0
<1> DEFINE f == [k \in 1..Len(tree) |-> 0]
<1>1. Len(tree) \in Nat /\ f \in [1..Len(tree) -> Nat] /\ \A k \in 1..Len(tree) : k # 0 => f[k] = 0
  BY ChargedType
<1>2. Total(f, Len(tree)) = 0
  <2>1. 0 \in Nat /\ 0 \notin 1..Len(tree)
    BY <1>1
  <2> HIDE DEF f
  <2> QED  BY <1>1, <2>1, TotalOfOne
<1>3. CostOfUses(tree, m, {}) = Total([k \in 1..Len(tree) |-> 0], Len(tree))
  BY DEF CostOfUses
<1>4. Uses(tree, m) \cap {} = {}
  OBVIOUS
<1> QED  BY <1>2, <1>3, <1>4, FS_EmptySet
----------------------------------------------------------------------------
(* What the methods learn                                                  *)

\* While DoThisQValue runs, each call under way has added up what the calls for
\* the children of its node have returned, and the methods have learned from
\* the nodes whose calls have returned.
Charging ==
  /\ returned \subseteq 1..Len(Plan)
  /\ \A n \in 1..Len(Plan) : cost[n] = Total(Charged(Plan, returned, n), Len(Plan))
  /\ Learned(Plan, returned)

\* With this, QValuesAccountForPlan is inductive.
LearningInv ==
  IdsTellMethods =>
    /\ phase \in {"load", "search", "found", "failed"} => qvalue = file.q
    /\ phase = "learn" => Charging
    /\ QValuesAccountForPlan

LEMMA PlanPriced ==
  ASSUME IInv, Accounted, answer # <<>>
  PROVE  Priced(Plan)
<1>1. answer[1] \in SolutionType /\ WellFormed(answer[1]) /\ Backed(answer[1])
  <2>1. answer \in Seq(SolutionType) /\ WellFormed(answer[1]) /\ Backed(answer[1])
    BY Zenon DEF IInv, TypeOK, Answered, Accounted
  <2> QED  BY <2>1
<1>2. Plan \in Seq(NodeType)
  BY <1>1, SolutionFields DEF Plan
<1>3. \A k \in 1..Len(Plan) : Plan[k].parent < k /\ (Plan[k].parent # 0 => ~Plan[Plan[k].parent].oper)
  BY <1>1, Zenon DEF WellFormed, Plan
<1>4. \A k \in 1..Len(Plan) : Plan[k].parent \in Nat
  <2>1. \A k \in 1..Len(Plan) : Plan[k] \in NodeType
    BY <1>2
  <2> QED  BY <2>1 DEF NodeType
<1>5. \A k \in 1..Len(Plan) : CostOf(Plan[k]) \in Nat
  BY <1>1, CostType DEF Plan
<1> QED  BY <1>2, <1>3, <1>4, <1>5 DEF Priced, Forest

\* Nothing has been learned from no nodes.
LEMMA NothingLearned ==
  ASSUME NEW tree, Priced(tree), qvalue \in [MethodIndex -> QEntry], qvalue = file.q
  PROVE  Learned(tree, {})
<1>1. ASSUME NEW m \in MethodIndex
      PROVE  /\ qvalue[m].count = file.q[m].count + Cardinality(Uses(tree, m) \cap {})
             /\ qvalue[m].total = file.q[m].total + CostOfUses(tree, m, {})
  <2>1. Cardinality(Uses(tree, m) \cap {}) = 0 /\ CostOfUses(tree, m, {}) = 0
    BY NoUse
  <2>2. qvalue[m] \in QEntry
    OBVIOUS
  <2>3. qvalue[m].count \in Nat /\ qvalue[m].total \in Nat
    BY <2>2 DEF QEntry
  <2> QED  BY <2>1, <2>3
<1> QED  BY <1>1 DEF Learned

\* Where ids tell methods apart, the method charged for a node is its own.
LEMMA OwnMethod ==
  ASSUME IdsTellMethods, library \in Seq(MethodIndex), NEW id, id # "", FirstWithId(id) # {},
         NEW m \in MethodIndex
  PROVE  m \in FirstWithId(id) <=> Methods[m].id = id
<1>1. \A x \in FirstWithId(id) : x \in MethodIndex /\ Methods[x].id = id
  <2> SUFFICES ASSUME NEW x \in FirstWithId(id) PROVE x \in MethodIndex /\ Methods[x].id = id
    OBVIOUS
  <2>1. PICK i \in 1..Len(library) : x = library[i] /\ Methods[library[i]].id = id
    BY DEF FirstWithId
  <2>2. library[i] \in MethodIndex
    BY ElementOfSeq
  <2> QED  BY <2>1, <2>2, Zenon
<1>2. PICK x \in FirstWithId(id) : TRUE
  OBVIOUS
<1>3. Methods[m].id = id => m = x
  BY <1>1, <1>2 DEF IdsTellMethods
<1> QED  BY <1>1, <1>2, <1>3

\* c is the cost node n has to pass on, and there is a method to learn from it.
Owed(n, c) ==
  /\ c = Total(Branch(Plan, n), Len(Plan))
  /\ ~Plan[n].oper => Plan[n].id # "" /\ FirstWithId(Plan[n].id) # {} /\ c = CostBelow(Plan, n)

\* The call for node n returns: what it charges is what it should.
LEMMA ChargeLearns ==
  ASSUME IInv, Accounted, phase = "learn", IdsTellMethods, Charging,
         NEW n \in 1..Len(Plan), Returns(n), NEW c \in Nat, Charge(n, c), Owed(n, c),
         answer' = answer, file' = file
  PROVE  Charging'
<1> DEFINE N == Len(Plan)
<1>1. /\ answer # <<>> /\ cost \in Seq(Nat) /\ Len(cost) = N /\ library \in Seq(MethodIndex)
      /\ qvalue \in [MethodIndex -> QEntry] /\ file.q \in [MethodIndex -> QEntry]
  <2>1. /\ answer # <<>> /\ cost \in Seq(Nat) /\ Len(cost) = N /\ library \in Seq(MethodIndex)
        /\ qvalue \in [MethodIndex -> QEntry] /\ file \in [order : Seq(MethodIndex), q : [MethodIndex -> QEntry]]
    BY Zenon DEF IInv, TypeOK, PhaseOK
  <2> QED  BY <2>1
<1>2. Priced(Plan) /\ N \in Nat
  BY <1>1, PlanPriced, ChargedType
<1>3. Plan' = Plan
  BY DEF Plan
<1>4. returned \subseteq 1..N /\ n \notin returned /\ returned' = returned \cup {n}
  BY DEF Charging, Returns, Charge
<1>5. ASSUME NEW q \in 1..N
      PROVE  cost'[q] = Total(Charged(Plan, returned', q), N)
  <2>1. cost'[q] = cost[q] + (IF q = Plan[n].parent THEN c ELSE 0)
    <3> DEFINE p == Plan[n].parent
    <3>0. cost' = IF p = 0 THEN cost ELSE [cost EXCEPT ![p] = @ + c]
      BY DEF Charge
    <3> HIDE DEF p, N
    <3>1. cost[q] \in Nat /\ q \in DOMAIN cost /\ q # 0
      <4>1. cost \in Seq(Nat) /\ q \in 1..Len(cost) /\ Len(cost) \in Nat
        BY <1>1, <1>2
      <4>2. cost[q] \in Nat
        BY <4>1, ElementOfSeq
      <4>3. DOMAIN cost = 1..Len(cost)
        BY <4>1
      <4> QED  BY <4>1, <4>2, <4>3
    <3>2. ASSUME p = 0
          PROVE  cost'[q] = cost[q] + (IF q = p THEN c ELSE 0)
      <4>1. cost'[q] = cost[q] /\ q # p
        BY <3>0, <3>1, <3>2
      <4>2. cost'[q] = cost[q] + 0
        BY <3>1, <4>1
      <4> QED  BY <4>1, <4>2
    <3>3. ASSUME p # 0
          PROVE  cost'[q] = cost[q] + (IF q = p THEN c ELSE 0)
      <4>1. cost' = [cost EXCEPT ![p] = cost[p] + c]
        BY <3>0, <3>3
      <4>2. cost'[q] = IF q = p THEN cost[q] + c ELSE cost[q]
        BY <3>1, <4>1
      <4>3. CASE q = p
        BY <4>2, <4>3
      <4>4. CASE q # p
        <5>1. cost'[q] = cost[q] + 0
          BY <3>1, <4>2, <4>4
        <5> QED  BY <4>4, <5>1
      <4> QED  BY <4>3, <4>4
    <3>4. cost'[q] = cost[q] + (IF q = p THEN c ELSE 0)
      BY <3>2, <3>3
    <3> QED  BY <3>4, Zenon DEF p
  <2>2. cost[q] = Total(Charged(Plan, returned, q), N)
    BY DEF Charging
  <2>3. Total(Charged(Plan, returned \cup {n}, q), N) =
          Total(Charged(Plan, returned, q), N) + (IF q = Plan[n].parent THEN Total(Branch(Plan, n), N) ELSE 0)
    BY <1>2, <1>4, ChargedAnother
  <2>4. Total(Branch(Plan, n), N) = c
    BY DEF Owed
  <2> QED  BY <1>4, <2>1, <2>2, <2>3, <2>4
<1>6. ASSUME NEW m \in MethodIndex
      PROVE  /\ qvalue'[m].count = file.q[m].count + Cardinality(Uses(Plan, m) \cap returned')
             /\ qvalue'[m].total = file.q[m].total + CostOfUses(Plan, m, returned')
  <2> DEFINE u  == Cardinality(Uses(Plan, m) \cap returned)
             v  == CostOfUses(Plan, m, returned)
             u1 == Cardinality(Uses(Plan, m) \cap returned')
             v1 == CostOfUses(Plan, m, returned')
  <2>1. /\ u \in Nat /\ v \in Nat
        /\ n \in Uses(Plan, m) => u1 = u + 1 /\ v1 = v + CostBelow(Plan, n)
        /\ n \notin Uses(Plan, m) => u1 = u /\ v1 = v
    <3>1. returned \subseteq 1..Len(Plan) /\ n \notin returned /\ returned' = returned \cup {n}
      BY <1>4
    <3>2. returned \in SUBSET (1..Len(Plan)) /\ n \in (1..Len(Plan)) \ returned
      BY <3>1
    <3>3. OneUseMore(Plan, m, returned, n)
      BY <1>2, <3>2, OneMoreUse
    <3> QED  BY <3>1, <3>3, Zenon DEF OneUseMore
  <2>2. qvalue[m].count = file.q[m].count + u /\ qvalue[m].total = file.q[m].total + v
    BY DEF Charging, Learned
  <2> HIDE DEF u, v, u1, v1
  <2>3. qvalue[m] \in QEntry /\ file.q[m] \in QEntry
    BY <1>1
  <2>4. /\ file.q[m].count \in Nat /\ file.q[m].total \in Nat
        /\ UpdateQValue(qvalue[m], c).count = qvalue[m].count + 1
        /\ UpdateQValue(qvalue[m], c).total = qvalue[m].total + c
    BY <2>3 DEF QEntry, UpdateQValue
  <2>5. qvalue'[m] = IF ~Plan[n].oper /\ m \in FirstWithId(Plan[n].id) THEN UpdateQValue(qvalue[m], c) ELSE qvalue[m]
    BY DEF Charge
  <2>6. n \in Uses(Plan, m) <=> ~Plan[n].oper /\ m \in FirstWithId(Plan[n].id)
    <3>1. CASE Plan[n].oper
      BY <3>1 DEF Uses
    <3>2. CASE ~Plan[n].oper
      <4>1. m \in FirstWithId(Plan[n].id) <=> Methods[m].id = Plan[n].id
        BY <1>1, <3>2, OwnMethod DEF Owed
      <4> QED  BY <3>2, <4>1 DEF Uses
    <3> QED  BY <3>1, <3>2
  <2>7. CASE n \in Uses(Plan, m)
    <3>1. qvalue'[m] = UpdateQValue(qvalue[m], c)
      BY <2>5, <2>6, <2>7
    <3>3. c = CostBelow(Plan, n)
      BY <2>6, <2>7 DEF Owed
    <3>4. u1 = u + 1 /\ v1 = v + c
      BY <2>1, <2>7, <3>3
    <3>5. qvalue'[m].count = file.q[m].count + u + 1 /\ qvalue'[m].total = file.q[m].total + v + c
      BY <2>2, <2>4, <3>1
    <3>2. qvalue'[m].count = file.q[m].count + u1 /\ qvalue'[m].total = file.q[m].total + v1
      <4> DEFINE fc == file.q[m].count
                 ft == file.q[m].total
      <4>1. fc \in Nat /\ ft \in Nat /\ qvalue'[m].count = fc + u + 1 /\ qvalue'[m].total = ft + v + c
        BY <2>4, <3>5
      <4> HIDE DEF fc, ft
      <4>2. qvalue'[m].count = fc + u1 /\ qvalue'[m].total = ft + v1
        BY <2>1, <3>4, <4>1
      <4> QED  BY <4>2 DEF fc, ft
    <3> QED  BY <3>2 DEF u1, v1
  <2>8. CASE n \notin Uses(Plan, m)
    <3>1. qvalue'[m] = qvalue[m]
      BY <2>5, <2>6, <2>8
    <3>4. u1 = u /\ v1 = v
      BY <2>1, <2>8
    <3>2. qvalue'[m].count = file.q[m].count + u1 /\ qvalue'[m].total = file.q[m].total + v1
      BY <2>2, <3>1, <3>4
    <3> QED  BY <3>2 DEF u1, v1
  <2> QED  BY <2>7, <2>8
<1>7. returned' \subseteq 1..N
  BY <1>4
<1>8. Learned(Plan, returned)'
  BY <1>3, <1>6, Zenon DEF Learned
<1> QED  BY <1>3, <1>5, <1>7, <1>8, Zenon DEF Charging

LEMMA LearnNodeLearns ==
  ASSUME IInv, Accounted, LearningInv, IdsTellMethods, LearnNode
  PROVE  phase' = "exception" \/ (phase' = "learn" /\ Charging')
<1>1. phase = "learn" /\ answer # <<>> /\ Charging /\ answer' = answer /\ file' = file
  BY Zenon DEF LearnNode, LearningInv, IInv, PhaseOK
<1>2. PICK n \in 1..Len(Plan) :
        /\ Returns(n)
        /\ \/ phase' = "exception"
           \/ /\ \A k \in OpenCalls(n) : Plan[k].oper \/ Plan[k].id # ""
              /\ \/ Plan[n].oper /\ \E o \in FirstNamed(Plan[n].task.name) : Charge(n, Operators[o].cost)
                 \/ ~Plan[n].oper /\ FirstWithId(Plan[n].id) # {} /\ Charge(n, cost[n])
  BY Zenon DEF LearnNode, NextReturn
<1>3. Priced(Plan) /\ Len(Plan) \in Nat
  BY <1>1, PlanPriced, ChargedType
<1>4. returned \subseteq 1..Len(Plan) /\ n \notin returned
      /\ \A k \in 1..Len(Plan) : Plan[k].parent = n => k \in returned
  BY <1>1, <1>2 DEF Charging, Returns
<1>5. CASE Plan[n].oper /\ \E o \in FirstNamed(Plan[n].task.name) : Charge(n, Operators[o].cost)
  <2>1. PICK o \in FirstNamed(Plan[n].task.name) : Charge(n, Operators[o].cost)
    BY <1>5
  <2>2. \A p \in FirstNamed(Plan[n].task.name) : p = o
    <3>1. \A p \in FirstNamed(Plan[n].task.name) :
            p \in 1..Len(Operators) /\ Operators[p].name = Plan[n].task.name /\ p <= o /\ o <= p
      BY DEF FirstNamed
    <3>2. Len(Operators) \in Nat
      BY DomainAssumption
    <3> QED  BY <3>1, <3>2
  <2>3. CostOf(Plan[n]) = Operators[o].cost
    <3>1. (CHOOSE p \in FirstNamed(Plan[n].task.name) : TRUE) = o
      BY <2>2
    <3> QED  BY <1>5, <3>1 DEF CostOf
  <2>4. CostOf(Plan[n]) \in Nat /\ Total(Branch(Plan, n), Len(Plan)) = CostOf(Plan[n])
    BY <1>3, <1>5, BranchCost DEF Priced
  <2>5. Owed(n, Operators[o].cost) /\ Operators[o].cost \in Nat
    BY <1>5, <2>3, <2>4 DEF Owed
  <2> QED  BY <1>1, <1>2, <2>1, <2>5, ChargeLearns DEF Charge
<1>6. CASE /\ ~Plan[n].oper /\ FirstWithId(Plan[n].id) # {} /\ Charge(n, cost[n])
           /\ \A k \in OpenCalls(n) : Plan[k].oper \/ Plan[k].id # ""
  <2>1. Plan[n].id # ""
    <3>1. n \in OpenCalls(n)
      BY <1>4 DEF OpenCalls
    <3> QED  BY <1>6, <3>1
  <2>2. cost[n] = CostBelow(Plan, n)
    <3>1. cost[n] = Total(Charged(Plan, returned, n), Len(Plan))
      BY <1>1 DEF Charging
    <3> QED  BY <1>3, <1>4, <3>1, AllCharged
  <2>3. Total(Branch(Plan, n), Len(Plan)) = CostBelow(Plan, n) /\ CostBelow(Plan, n) \in Nat
    BY <1>3, <1>6, BranchCost, CostBelowType
  <2>4. Owed(n, cost[n]) /\ cost[n] \in Nat
    BY <1>6, <2>1, <2>2, <2>3 DEF Owed
  <2> QED  BY <1>1, <1>2, <1>6, <2>4, ChargeLearns DEF Charge
<1> QED  BY <1>2, <1>5, <1>6

\* After any number of runs, whatever was printed: a domain file that is written
\* has, for each method, one more observation for each decomposition it made in
\* the plan, of the cost of the actions below it, and nothing else has changed.
THEOREM PlansArePaidFor == Spec => []QValuesAccountForPlan
<1>1. Init => LearningInv
  BY DEF Init, LearningInv, QValuesAccountForPlan
<1>2. IInv /\ Accounted /\ LearningInv /\ [Next]_vars => LearningInv'
  <2> SUFFICES ASSUME IInv, Accounted, LearningInv, [Next]_vars, IdsTellMethods
               PROVE  /\ phase' \in {"load", "search", "found", "failed"} => qvalue' = file'.q
                      /\ phase' = "learn" => Charging'
                      /\ QValuesAccountForPlan'
    BY DEF LearningInv, IdsTellMethods, MethodIndex
  <2>0. /\ qvalue \in [MethodIndex -> QEntry] /\ answer \in Seq(SolutionType)
        /\ phase \in {"load", "search", "found", "failed"} => qvalue = file.q
        /\ phase = "learn" => Charging
        /\ phase \in {"load", "search", "failed"} => answer = <<>>
        /\ phase \in {"found", "learn"} => answer # <<>>
    BY Zenon DEF IInv, TypeOK, PhaseOK, LearningInv
  <2>1. CASE RunAgain
    <3>1. phase' = "load" /\ qvalue' = file.q /\ file' = file
      BY <2>1 DEF RunAgain
    <3> QED  BY <3>1 DEF QValuesAccountForPlan
  <2>2. CASE Start
    <3>1. qvalue' = qvalue /\ file' = file /\ qvalue = file.q
      BY <2>0, <2>2 DEF Start, learning
    <3>2. CASE phase' = "search"
      BY <3>1, <3>2 DEF QValuesAccountForPlan
    <3>3. CASE phase' = "save" /\ answer' = <<FromProblem>>
      <4>1. Plan' = <<>>
        BY <3>3 DEF Plan, FromProblem
      <4>2. Priced(<<>>)
        BY DEF Priced, Forest
      <4>3. Learned(<<>>, {})
        BY <2>0, <3>1, <4>2, NothingLearned
      <4>4. 1..Len(Plan') = {}
        BY <4>1
      <4>5. Learned(Plan, 1..Len(Plan))'
        BY <3>1, <4>1, <4>3, <4>4 DEF Learned
      <4> QED  BY <3>3, <4>5 DEF QValuesAccountForPlan
    <3> QED  BY <2>2, <3>2, <3>3 DEF Start
  <2>3. CASE SearchStep
    <3>1. qvalue' = qvalue /\ file' = file /\ phase = "search" /\ qvalue = file.q
      BY <2>0, <2>3, Zenon DEF SearchStep, Searching, DepthLimit, EnterOperator, EnterMethod, NextMethod,
         TryOperator, TryMethod, Backtrack, Return, Enter, learning
    <3>2. phase' \notin {"learn", "save"}
      BY <2>3, SearchOutcomes, <3>1, Zenon DEF Stays, Gives, Goes, Finds
    <3> QED  BY <3>1, <3>2 DEF QValuesAccountForPlan
  <2>4. CASE BeginLearning
    <3>1. /\ qvalue' = qvalue /\ file' = file /\ answer' = answer /\ opts' = opts /\ phase = "found"
          /\ returned' = {} /\ cost' = [n \in 1..Len(Plan) |-> 0] /\ phase' = IF opts.u THEN "learn" ELSE "save"
      BY <2>4 DEF BeginLearning
    <3>2. qvalue = file.q /\ Priced(Plan) /\ Len(Plan) \in Nat /\ Plan' = Plan
      BY <2>0, <3>1, PlanPriced, ChargedType DEF Plan
    <3>3. Learned(Plan, {})
      BY <2>0, <3>2, NothingLearned
    <3>4. ASSUME NEW n \in 1..Len(Plan)
          PROVE  Total(Charged(Plan, {}, n), Len(Plan)) = 0
      <4>1. Charged(Plan, {}, n) \in [1..Len(Plan) -> Nat] /\ \A i \in 1..Len(Plan) : Charged(Plan, {}, n)[i] = 0
        BY <3>2, ChargedType DEF Charged
      <4>2. 0 \in Nat /\ 0 \notin 1..Len(Plan)
        BY <3>2
      <4> QED  BY <3>2, <4>1, <4>2, TotalOfOne
    <3>5. Charging'
      <4>1. Learned(Plan, returned)'
        BY <3>1, <3>2, <3>3 DEF Learned
      <4>2. \A n \in 1..Len(Plan) : cost'[n] = Total(Charged(Plan, returned', n), Len(Plan))
        BY <3>1, <3>4
      <4> QED  BY <3>1, <3>2, <4>1, <4>2 DEF Charging
    <3> QED  BY <3>1, <3>5 DEF QValuesAccountForPlan
  <2>5. CASE LearnNode
    <3>1. phase' = "exception" \/ (phase' = "learn" /\ Charging')
      BY <2>5, LearnNodeLearns
    <3> QED  BY <3>1 DEF QValuesAccountForPlan
  <2>6. CASE EndLearning
    <3>1. /\ qvalue' = qvalue /\ file' = file /\ answer' = answer /\ phase = "learn" /\ phase' = "save"
          /\ returned = 1..Len(Plan)
      BY <2>6 DEF EndLearning, learning
    <3>2. Plan' = Plan
      BY <3>1 DEF Plan
    <3>3. Learned(Plan, 1..Len(Plan)) /\ answer # <<>>
      BY <2>0, <3>1 DEF Charging
    <3>4. Learned(Plan, 1..Len(Plan))'
      BY <3>1, <3>2, <3>3 DEF Learned
    <3> QED  BY <3>1, <3>3, <3>4 DEF QValuesAccountForPlan
  <2>7. CASE ReportFailure
    <3>1. qvalue' = qvalue /\ file' = file /\ answer' = answer /\ phase = "failed" /\ phase' = "save"
      BY <2>7 DEF ReportFailure, learning
    <3> QED  BY <2>0, <3>1 DEF QValuesAccountForPlan
  <2>8. CASE WriteDomain
    <3>1. phase' = "done"
      BY <2>8 DEF WriteDomain
    <3> QED  BY <3>1 DEF QValuesAccountForPlan
  <2>9. CASE UNCHANGED vars
    <3>1. /\ phase' = phase /\ opts' = opts /\ qvalue' = qvalue /\ answer' = answer /\ returned' = returned
          /\ cost' = cost /\ file' = file
      BY <2>9, Zenon DEF vars
    <3>2. Plan' = Plan
      BY <3>1 DEF Plan
    <3> QED  BY <2>0, <3>1, <3>2, Zenon DEF LearningInv, Charging, Learned, QValuesAccountForPlan
  <2> QED  BY <2>1, <2>2, <2>3, <2>4, <2>5, <2>6, <2>7, <2>8, <2>9, Zenon DEF Next, Step, SearchStep
<1>3. LearningInv => QValuesAccountForPlan
  BY Zenon DEF LearningInv, QValuesAccountForPlan
<1> QED  BY <1>1, <1>2, <1>3, Invariance, AccountInvariance, PTL DEF Spec
============================================================================
