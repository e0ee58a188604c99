------------------------------ MODULE HtnMaker ------------------------------
(***************************************************************************)
(* htn-maker: learning methods from a plan.  The plan is annotated with    *)
(* instances of the methods learned so far, which later methods may call.  *)
(* LearnMethods and what it calls are one action per step of a loop; what  *)
(* happens to a new method is MethodLibrary, whose loops run in between.   *)
(* State i of the plan is the one after i steps.  The parameters of a task *)
(* are all its variables, and no schema mentions a constant.               *)
(***************************************************************************)
EXTENDS PartialHtnMethod

CONSTANTS Tasks,        \* the task list: [name, params, precs, effects]
          Traces,       \* the plans: their states and their steps [oper, sub]
          FlagChoices,  \* the command lines
          VerifierOf,   \* the name "x-verify" for each task x
          DesiredOf,    \* the outcome "-01" of each other outcome of an operator
          Libraries,    \* the methods the domain file may hold
          DeclaresIds,  \* whether the domain requires :method-ids
          MaxMethods    \* bound: how many methods are made

OperatorNamed(n) == Operators[CHOOSE i \in 1..Len(Operators) : Operators[i].name = n]

AnyBody == [name : TaskName \cup {""}, params : Seq(Variable), precs : SUBSET Literal, subtasks : Seq(TaskHead)]

\* Formulas of variables, and those that ProcessPreconditions takes: it throws
\* at a negation, unless it is one of an equation.
Lifted(form) ==
  form \in SUBSET Literal /\ IsFiniteSet(form) /\ \A l \in form : l.args \in Seq(Variable)

Regressible(form) == Lifted(form) /\ \A l \in form : l.pos \/ l.pred = "="

\* Subsumes takes every argument of a subtask for a variable.
LiftedHead == {h \in TaskHead : h.args \in Seq(Variable)}

\* A method for one of the tasks, which is annotated and regressed, or a checker.
Usable(b) ==
  /\ b \in AnyBody /\ b.name \in Compound /\ Len(b.params) = Arity[b.name] /\ b.subtasks \in Seq(LiftedHead)
  /\ Lifted(b.precs) /\ (b.name \notin CheckNames => Regressible(b.precs))

TaskDescr == [name : Compound, params : Seq(Variable), precs : SUBSET Literal, effects : SUBSET Literal]

ASSUME MakerAssumption ==
  /\ Tasks \in Seq(TaskDescr)
  /\ \A i \in 1..Len(Tasks) :
       /\ DistinctParams(Tasks[i]) /\ Len(Tasks[i].params) = Arity[Tasks[i].name]
       /\ Regressible(Tasks[i].precs) /\ Regressible(Tasks[i].effects)
       /\ VariablesOf(Tasks[i].precs \cup Tasks[i].effects) \subseteq Elems(Tasks[i].params)
       /\ Tasks[i].name \notin CheckNames /\ VerifierOf[Tasks[i].name] \in Compound /\ Arity[VerifierOf[Tasks[i].name]] = Arity[Tasks[i].name]
  /\ \A i \in 1..Len(Operators) :
       Regressible(Operators[i].precs) /\ Lifted(Operators[i].effects)
  /\ \A n \in DOMAIN CheckerOf : Arity[CheckerOf[n]] = Arity[n]
  \* The outcomes of an operator have the same parameters.
  /\ DOMAIN DesiredOf \subseteq DOMAIN CheckerOf
  /\ \A i \in 1..Len(Operators) : Operators[i].name \in DOMAIN DesiredOf =>
       LET n == DesiredOf[Operators[i].name]
       IN  /\ n \in {Operators[j].name : j \in 1..Len(Operators)} \cap DOMAIN CheckerOf
           /\ OperatorNamed(n).params = Operators[i].params
           /\ VariablesOf(OperatorNamed(n).effects) \subseteq BoundVariables(Operators[i])
  /\ \A t \in Traces :
       /\ t.steps \in Seq([oper : 1..Len(Operators), sub : UNION {Grounding(Operators[i]) : i \in 1..Len(Operators)}])
       /\ t.states \in Seq(SUBSET Atom) /\ Len(t.states) = Len(t.steps) + 1
       /\ \A i \in 1..Len(t.steps) :
            LET o == Operators[t.steps[i].oper]
            IN  /\ t.steps[i].sub \in Grounding(o) /\ IsConsistent(o.precs, t.steps[i].sub, t.states[i])
                /\ t.states[i + 1] = NextState(o, t.steps[i].sub, t.states[i])
  /\ \A l \in Libraries :
       /\ l \in Seq([body : AnyBody, id : Nat, count : Nat, total : Nat, learned : {FALSE}])
       /\ \A i \in 1..Len(l) : Usable(l[i].body)
  /\ MaxMethods \in Nat

\* A check is of an operator that has a desired outcome: LearnNdCheckers throws
\* at one in a plan that has none.
ASSUME CheckersAssumption ==
  \A n \in DOMAIN CheckerOf : \E i \in 1..Len(Operators) :
    Operators[i].name \in DOMAIN CheckerOf \ DOMAIN DesiredOf /\ CheckerOf[Operators[i].name] = CheckerOf[n]

\* Verifiers and checkers only look at the state.  No task is named like one.
Looks == {VerifierOf[Tasks[i].name] : i \in 1..Len(Tasks)} \cup CheckNames
ASSUME LooksAssumption == \A i \in 1..Len(Tasks) : Tasks[i].name \notin Looks

VARIABLES flags, lib, maxId, libPc, cand, m, inserted, offered,  \* those of MethodLibrary
          trace,   \* the StripsSolution that is annotated
          insts,   \* AnnotatedPlan: the instances of methods
          final,   \* l_iForState
          todo,    \* the partial methods of this final state: [task, ground]
          init,    \* p_iInitState
          k,       \* index of a loop: tasks, operators or partial methods
          part,    \* l_pCurPartial, or l_PartMethod for a checker
          helped,  \* l_bRecentHelped
          made,    \* how many variables were created
          pc

libVars   == <<lib, maxId, libPc, cand, m, inserted, offered>>
makerVars == <<trace, insts, final, todo, init, k, part, helped, made, pc>>
vars      == <<flags, libVars, makerVars>>

BodyName(b) == b.name

Lib == INSTANCE MethodLibrary WITH
         Body <- AnyBody, CheckBody <- {}, VerifyBody <- {}, NameOf <- BodyName,
         Subsumes <- SubsumesByDefinition, Costs <- Nat, MaxOffers <- MaxMethods, pc <- libPc

StateAt(i)    == trace.states[i + 1]
OperatorAt(i) == Operators[trace.steps[i].oper]
SubAt(i)      == trace.steps[i].sub

DescrAfter(t, sub) ==
  [t EXCEPT !.params = AfterSubstitution(@, sub), !.precs = FormulaAfter(@, sub), !.effects = FormulaAfter(@, sub)]

NoPart == NewPartial([name |-> "", params |-> <<>>, precs |-> {}, effects |-> {}], <<>>, <<>>, 0)

NoEntry == [body |-> [name |-> "", params |-> <<>>, precs |-> {}, subtasks |-> <<>>],
            id |-> 0, count |-> 0, total |-> 0, learned |-> FALSE]

Init ==
  /\ flags \in FlagChoices /\ trace \in Traces /\ lib \in Libraries
  /\ maxId \in Lib!IdsIn(lib) /\ \A n \in Lib!IdsIn(lib) : n <= maxId
  /\ libPc = "idle" /\ cand = NoEntry /\ m = 1 /\ inserted = FALSE /\ offered = 0
  /\ insts = <<>> /\ final = 0 /\ todo = <<>> /\ init = 0 /\ k = 1 /\ part = NoPart
  /\ helped = FALSE /\ made = 0 /\ pc = "verifiers"

At(label) == pc = label /\ libPc = "idle"

----------------------------------------------------------------------------
(* Methods made before learning                                            *)

VerifierBody(t) == [name |-> VerifierOf[t.name], params |-> t.params, precs |-> t.effects, subtasks |-> <<>>]

\* MakeSoundnessCheckMethods.
MakeVerifier ==
  /\ At("verifiers")
  /\ IF flags.soundness_check /\ k <= Len(Tasks)
     THEN /\ IF \E i \in 1..Len(lib) : lib[i].body.name = VerifierOf[Tasks[k].name]
             THEN UNCHANGED <<flags, libVars>>
             ELSE Lib!AddBeforeLearning(VerifierBody(Tasks[k]))
          /\ k' = k + 1 /\ pc' = pc
     ELSE k' = 1 /\ pc' = "trivial" /\ UNCHANGED <<flags, libVars>>
  /\ UNCHANGED <<trace, insts, final, todo, init, part, helped, made>>

\* Slip: like every other checker it calls itself last.
TrivialCheckerCallingItself(o) ==
  [name |-> CheckerOf[o.name], params |-> o.params, precs |-> o.effects,
   subtasks |-> <<[name |-> CheckerOf[o.name], args |-> o.params]>>]

TrivialChecker(o) == [name |-> CheckerOf[o.name], params |-> o.params, precs |-> o.effects, subtasks |-> <<>>]

\* MakeTrivialNdCheckers: the operators whose name ends in "-01".
MakeTrivialChecker ==
  /\ At("trivial")
  /\ IF flags.nd_checkers /\ k <= Len(Operators)
     THEN /\ IF Operators[k].name \in DOMAIN CheckerOf \ DOMAIN DesiredOf /\
                \A i \in 1..Len(lib) :
                  ~(SubsumesByDefinition(lib[i].body, TrivialChecker(Operators[k])) /\
                    SubsumesByDefinition(TrivialChecker(Operators[k]), lib[i].body))
             THEN Lib!AddBeforeLearning(TrivialChecker(Operators[k]))
             ELSE UNCHANGED <<flags, libVars>>
          /\ k' = k + 1 /\ pc' = pc
     ELSE k' = 1 /\ pc' = "partials" /\ UNCHANGED <<flags, libVars>>
  /\ UNCHANGED <<trace, insts, final, todo, init, part, helped, made>>

----------------------------------------------------------------------------
(* LearnMethods and LearnFromSubsequences                                  *)

\* GetPartials: the instances of a task whose effects have just become true.
JustAchieved(t, i) ==
  {ground \in [Elems(t.params) -> ConstantsOf(StateAt(i))] :
     IsConsistent(t.effects, ground, StateAt(i)) /\ ~IsConsistent(t.effects, ground, StateAt(i - 1))}

\* One sequence, then another one.
Joined(S, R) == {s \o r : s \in S, r \in R}

\* Those of one task in any order, those of the first task first.
Partials(i) ==
  LET of(j) == {[task |-> Tasks[j], ground |-> g] : g \in JustAchieved(Tasks[j], i)}
      inOrder[j \in 0..Len(Tasks)] ==
        IF j = 0 THEN {<<>>} ELSE Joined(inOrder[j - 1], SetToSeqs(of(j)))
  IN  inOrder[Len(Tasks)]

NextFinalState ==
  /\ At("partials") /\ final < Len(trace.steps)
  /\ final' = final + 1 /\ init' = final /\ k' = 1 /\ todo' \in Partials(final + 1) /\ pc' = "pick"
  /\ UNCHANGED <<flags, libVars, trace, insts, part, helped, made>>

End ==
  /\ At("partials") /\ final = Len(trace.steps) /\ pc' = "done"
  /\ UNCHANGED <<flags, libVars, trace, insts, final, todo, init, k, part, helped, made>>

\* The recursion goes through the latest initial state first.
NextInitialState ==
  /\ At("pick") /\ k > Len(todo)
  /\ IF init = 0 THEN pc' = "checkers" /\ UNCHANGED <<init, k>>
     ELSE init' = init - 1 /\ k' = 1 /\ pc' = pc
  /\ UNCHANGED <<flags, libVars, trace, insts, final, todo, part, helped, made>>

\* AnnotatedPlan::AddMethodInst, which renames every variable of the instance.
AddMethodInst(body, sub, before, task, effects, cost) ==
  LET change == NewVars(DOMAIN sub, made)
  IN  /\ insts' = Append(insts,
           [method |-> MethodAfter(body, change), before |-> before, after |-> final, cost |-> cost,
            sub |-> [v \in Range(change) |-> sub[CHOOSE x \in DOMAIN sub : change[x] = v]],
            task |-> DescrAfter(task, change), effects |-> FormulaAfter(effects, change)])
      /\ made' = made + Cardinality(DOMAIN sub)

\* The arguments of a ground task, and whether AddPair would throw since the
\* head of the method names one variable for two of them.
ArgsOf(t) == AfterSubstitution(t.task.params, t.ground)
TwoValues(b, args) == \E i, j \in 1..Len(args) : b.params[i] = b.params[j] /\ args[i] # args[j]

Applies(b, t, state) ==
  b.name = t.task.name /\ (TwoValues(b, ArgsOf(t)) \/ Satisfying(b, [args |-> ArgsOf(t)], state) # {})

SmallestOf(s) == CHOOSE x \in s : \A y \in s : x <= y
LargestOf(s)  == CHOOSE x \in s : \A y \in s : y <= x

Unrated == 999999
QValue(e) == IF e.count = 0 THEN Unrated ELSE e.total \div e.count

\* The states up to init from which TrySolving finds a method for t or throws.
SolvedFrom(t) == {j \in 0..init : \E i \in 1..Len(lib) : Applies(lib[i].body, t, StateAt(j))}

\* --hard_squelch: a task that some method can do already is annotated only.
Squelch ==
  /\ At("pick") /\ k <= Len(todo) /\ flags.hard_squelch /\ SolvedFrom(todo[k]) # {}
  /\ LET t == todo[k]  j == SmallestOf(SolvedFrom(t))
         e == lib[SmallestOf({i \in 1..Len(lib) : Applies(lib[i].body, t, StateAt(j))})]
         fromTask == [v \in Elems(t.task.params) |-> e.body.params[CHOOSE i \in 1..Len(t.task.params) : t.task.params[i] = v]]
     IN  IF TwoValues(e.body, ArgsOf(t))
         THEN pc' = "double variable" /\ UNCHANGED <<insts, made, k>>
         ELSE /\ \E sub \in Satisfying(e.body, [args |-> ArgsOf(t)], StateAt(j)) :
                   AddMethodInst(e.body, sub, j, DescrAfter(t.task, fromTask),
                                 FormulaAfter(t.task.effects, fromTask), QValue(e))
              /\ k' = k + 1 /\ pc' = pc
  /\ UNCHANGED <<flags, libVars, trace, final, todo, init, part, helped>>

----------------------------------------------------------------------------
(* LearnFromExactSequence                                                  *)

\* The instances that make this sequence unneeded under --drop_unneeded.
Unneeded(t) ==
  {i \in 1..Len(insts) : /\ insts[i].after <= final /\ insts[i].before >= init
                         /\ Applies(insts[i].method, t, StateAt(init))}

\* The sequence is annotated with a method that an instance in it came from.
Drop ==
  /\ At("pick") /\ k <= Len(todo) /\ ~(flags.hard_squelch /\ SolvedFrom(todo[k]) # {})
  /\ flags.drop_unneeded /\ Unneeded(todo[k]) # {}
  /\ LET t == todo[k]  i == insts[LargestOf(Unneeded(t))]
     IN  IF TwoValues(i.method, ArgsOf(t))
         THEN pc' = "double variable" /\ UNCHANGED <<insts, made, k>>
         ELSE /\ \E sub \in Satisfying(i.method, [args |-> ArgsOf(t)], StateAt(init)) :
                   AddMethodInst(i.method, sub, init, i.task, i.effects, i.cost)
              /\ k' = k + 1 /\ pc' = pc
  /\ UNCHANGED <<flags, libVars, trace, final, todo, init, part, helped>>

Begin ==
  /\ At("pick") /\ k <= Len(todo) /\ ~(flags.hard_squelch /\ SolvedFrom(todo[k]) # {})
  /\ ~(flags.drop_unneeded /\ Unneeded(todo[k]) # {})
  /\ LET t == todo[k]
     IN  /\ part' = [NewPartial(t.task, t.ground, NewVars(DOMAIN t.ground, made), final) EXCEPT !.init = init]
         /\ made' = made + Cardinality(DOMAIN t.ground)
  /\ helped' = FALSE /\ pc' = "regress"
  /\ UNCHANGED <<flags, libVars, trace, insts, final, todo, init, k>>

Useful(inst) ==
  LET effects == FormulaAfter(inst.task.effects, inst.sub)
  IN  IF flags.require_new
      THEN SuppliesNew(effects, FormulaAfter(inst.method.precs, inst.sub), part)
      ELSE Supplies(effects, part)

\* Slip: an annotation may start before the sequence does.
CandidatesAnywhere ==
  {i \in 1..Len(insts) : pc = "regress" /\ insts[i].after = part.current /\ Useful(insts[i])}

Candidates ==
  {i \in 1..Len(insts) : /\ pc = "regress" /\ insts[i].after = part.current /\ Useful(insts[i])
                         /\ insts[i].before >= init + (IF flags.force_ops_first THEN 1 ELSE 0)}

\* The longest one, then the one with the fewest subtasks, then the first.
BestMethod ==
  CHOOSE i \in Candidates : \A j \in Candidates \ {i} :
    LET rank(x) == <<insts[x].before, Len(insts[x].method.subtasks), x>>
        r == rank(i)  s == rank(j)
    IN  r[1] < s[1] \/ (r[1] = s[1] /\ (r[2] < s[2] \/ (r[2] = s[2] /\ r[3] < s[3])))

\* AddOperator and AddMethod, with their exceptions.
AddPiece(head, precs, effects, real, before, cost) ==
  /\ IF Conflicts(part, before, part.current)
     THEN pc' = "overlap" /\ UNCHANGED <<part, made>>
     ELSE IF flags.partial_generalization
     THEN \E known \in Representatives(part, real) :
            LET sub == NewVarsForConstants(real, known, made)
            IN  /\ part' = WithPiece(Strike(WithVars(part, real, sub), effects, sub),
                                     head, precs, effects, sub, before, cost)
                /\ made' = made + Cardinality(Range(real) \ DOMAIN known) /\ pc' = pc
     ELSE LET sub == NewVarsForAll(real, made)
              u   == Unify(WithVars(part, real, sub), effects, real, sub)
          IN  /\ made' = made + Cardinality(DOMAIN real)
              /\ IF u.threw THEN pc' = "substitution recurses" /\ part' = part
                 ELSE part' = WithPiece(u.p, head, precs, effects, u.sub, before, cost) /\ pc' = pc
  /\ helped' = TRUE

\* A method that was learned does for the steps it stands for.
AddMethod ==
  /\ At("regress") /\ part.current > init /\ Candidates # {}
  /\ LET i == insts[BestMethod]
     IN  AddPiece(HeadOf(i.method), i.method.precs,
                  IF flags.only_task_effects THEN i.task.effects ELSE i.effects, i.sub, i.before, i.cost)
  /\ UNCHANGED <<flags, libVars, trace, insts, final, todo, init, k>>

OperatorUseful == Supplies(FormulaAfter(OperatorAt(part.current).effects, SubAt(part.current)), part)

AddOperator ==
  /\ (At("regress") \/ At("check")) /\ part.current > init /\ Candidates = {} /\ OperatorUseful
  /\ LET o == OperatorAt(part.current)
     IN  AddPiece([name |-> o.name, args |-> o.params], o.precs, o.effects,
                  SubAt(part.current), part.current - 1, o.cost)
  /\ UNCHANGED <<flags, libVars, trace, insts, final, todo, init, k>>

\* The step is left out.  If it is the last one, so are all.
Advance ==
  /\ (At("regress") \/ At("check")) /\ part.current > init /\ Candidates = {} /\ ~OperatorUseful
  /\ part' = [part EXCEPT !.current = IF @ = part.final THEN init ELSE @ - 1] /\ helped' = FALSE
  /\ UNCHANGED <<flags, libVars, trace, insts, final, todo, init, k, made, pc>>

MakesMethod ==
  /\ helped /\ IsConsistent(LiftedPrecs(part), part.master, StateAt(init))
  /\ RemainingAddListSatisfied(part, StateAt(init))

GiveUp ==
  /\ At("regress") /\ part.current = init /\ ~MakesMethod /\ k' = k + 1 /\ pc' = "pick"
  /\ UNCHANGED <<flags, libVars, trace, insts, final, todo, init, part, helped, made>>

NewMethod ==
  LET verifier == IF flags.soundness_check THEN <<VerifierOf[part.task.name]>> ELSE <<>>
      b == CreateMethod(part, verifier, flags.partial_generalization)
  IN  IF flags.nd_checkers THEN WithNdCheckers(b) ELSE b

\* A method is of no use if its preconditions imply the effects of the task, and
\* unwanted if it is not linked.
Deleted(b) == Implies(b.precs, LiftedEffects(part)) \/ (flags.var_linkage /\ ~Linked(b))

Discard ==
  /\ At("regress") /\ part.current = init /\ MakesMethod
  /\ IF flags.var_linkage /\ LinkageThrows(NewMethod) THEN pc' = "not a predicate" /\ k' = k
     ELSE Deleted(NewMethod) /\ pc' = "pick" /\ k' = k + 1
  /\ UNCHANGED <<flags, libVars, trace, insts, final, todo, init, part, helped, made>>

RouteOfMethod ==
  IF flags.qvalues THEN "update" ELSE IF flags.no_subsumption THEN "idle" ELSE "find"

Create ==
  /\ At("regress") /\ part.current = init /\ MakesMethod
  /\ ~(flags.var_linkage /\ LinkageThrows(NewMethod)) /\ ~Deleted(NewMethod)
  /\ LET b == NewMethod
     IN  /\ AddMethodInst(b, part.master, part.init, DescrAfter(part.task, part.taskSub),
                          ActualEffects(part), IF flags.qvalues THEN part.cost ELSE Unrated)
         /\ IF b.subtasks = <<HeadOf(b)>> THEN Lib!DropSelfLoop
            ELSE Lib!Offer(Lib!NewEntry(b, IF flags.qvalues THEN 1 ELSE 0,
                                        IF flags.qvalues THEN part.cost ELSE 0, TRUE), RouteOfMethod)
  /\ pc' = "pick" /\ k' = k + 1
  /\ UNCHANGED <<trace, final, todo, init, part, helped>>

----------------------------------------------------------------------------
(* LearnNdCheckers and LearnOneNdChecker                                   *)

\* The later states in which the desired effects of step final hold.
DesiredLater(o) == {i \in (final + 1)..Len(trace.steps) : IsConsistent(o.effects, SubAt(final), StateAt(i))}

\* Whether the step was an outcome that was not desired and was put right later.
HasChecker ==
  /\ flags.nd_checkers /\ OperatorAt(final).name \in DOMAIN DesiredOf
  /\ DesiredLater(OperatorNamed(DesiredOf[OperatorAt(final).name])) # {}

\* Slip: the partial methods of this final state are gone through once more.
NoCheckerAgain ==
  /\ At("checkers") /\ ~HasChecker /\ pc' = "pick"
  /\ UNCHANGED <<flags, libVars, trace, insts, final, todo, init, k, part, helped, made>>

NoChecker ==
  /\ At("checkers") /\ ~HasChecker /\ pc' = "partials"
  /\ UNCHANGED <<flags, libVars, trace, insts, final, todo, init, k, part, helped, made>>

CheckTaskDescr(o) == [name |-> CheckerOf[o.name], params |-> o.params, precs |-> {}, effects |-> Adds(o.effects)]

\* From the first of those states back to the one after the step.
BeginChecker ==
  /\ At("checkers") /\ HasChecker
  /\ LET o == OperatorNamed(DesiredOf[OperatorAt(final).name])
     IN  /\ part' = [NewPartial(CheckTaskDescr(o), SubAt(final), NewVars(DOMAIN SubAt(final), made),
                                SmallestOf(DesiredLater(o))) EXCEPT !.init = final]
         /\ made' = made + Cardinality(DOMAIN SubAt(final))
  /\ init' = final /\ helped' = FALSE /\ pc' = "check"
  /\ UNCHANGED <<flags, libVars, trace, insts, final, todo, k>>

EndChecker ==
  /\ At("check") /\ part.current = init
  /\ LET b == CreateMethod(part, <<>>, flags.partial_generalization)
     IN  IF ~RemainingAddListSatisfied(part, StateAt(init))
         THEN pc' = "partials" /\ UNCHANGED <<flags, libVars>>
         ELSE IF NdCheckersUndefined(b) THEN pc' = "undefined" /\ UNCHANGED <<flags, libVars>>
         ELSE /\ Lib!Offer(Lib!NewEntry(WithNdCheckers(b), 0, 0, TRUE),
                           IF flags.no_subsumption THEN "idle" ELSE "find")
              /\ pc' = "partials"
  /\ UNCHANGED <<trace, insts, final, todo, init, k, part, helped, made>>

----------------------------------------------------------------------------
\* The loops of DoSubsumption and DoQValueUpdate.
LibraryStep == Lib!Step /\ UNCHANGED makerVars

Ends == {"done", "double variable", "overlap", "substitution recurses", "not a predicate", "undefined"}

Stop == pc \in Ends /\ UNCHANGED vars

Next ==
  \/ MakeVerifier \/ MakeTrivialChecker \/ NextFinalState \/ End \/ NextInitialState
  \/ Squelch \/ Drop \/ Begin \/ AddMethod \/ AddOperator \/ Advance \/ GiveUp \/ Discard \/ Create
  \/ NoChecker \/ BeginChecker \/ EndChecker \/ LibraryStep \/ Stop

\* The program runs until it ends.  This is WF_vars(Next) with pc \notin Ends
\* for ENABLED <<Next>>_vars, which is slow to evaluate here.
Fairness == []<>(pc \in Ends) \/ []<><<Next>>_vars

Spec == Init /\ [][Next]_vars /\ Fairness
----------------------------------------------------------------------------
(* Correctness                                                             *)

\* The partial method lies within the plan and its variables all stand for
\* constants; the indices of the loops of LearnFromExactSequence are in range.
TypeOK ==
  /\ flags \in FlagChoices /\ trace \in Traces /\ lib \in Seq(Lib!Entry) /\ cand \in Lib!Entry
  /\ libPc \in {"idle", "find", "replace", "update"} /\ offered \in 0..MaxMethods
  /\ pc \in Ends \cup {"verifiers", "trivial", "partials", "pick", "regress", "checkers", "check"}
  /\ final \in 0..Len(trace.steps) /\ init \in 0..final /\ made \in Nat /\ helped \in BOOLEAN
  /\ pc \in {"regress", "check"} =>
       /\ part.init = init /\ part.current \in init..part.final
       /\ \A l \in part.adds \cup part.precs : Elems(l.args) \subseteq DOMAIN part.master
  /\ \A i \in 1..Len(insts) : insts[i].before \in 0..(insts[i].after - 1) /\ insts[i].after <= final

\* The subtasks that change the state.
Parts(b) == SelectSeq(b.subtasks, LAMBDA h : h.name \notin Looks)
OperatorOnly(b) == \A i \in 1..Len(Parts(b)) : Parts(b)[i].name \in Primitive

\* A step that an annotation stands for, whether its method calls it or leaves it
\* out, makes l true.  GetActualEffects does not tell of those left out.
AddsWithin(before, after, l) ==
  \E x \in (before + 1)..after : l \in FormulaAfter(Adds(OperatorAt(x).effects), SubAt(x))

\* Two parameters of a task that are one constant are kept apart by CreateInequalities.
Distinct(sub) == flags.partial_generalization => IsInjective(sub)

\* The regression of LearnFromExactSequence and of LearnOneNdChecker is right:
\* what is outstanding is true in the state it has come to, whether operators
\* or whole methods were added and steps left out, unless a step that supplies
\* it is one of those an added method stands for.
OutstandingHold ==
  /\ pc \in {"regress", "check"} /\ part.current > part.init
  /\ Distinct(part.master) /\ \A i \in 1..Len(insts) : Distinct(insts[i].sub)
  => \A l \in GroundAfter(part.precs \cup part.adds, part) :
       \/ IsConsistent({l}, <<>>, StateAt(part.current))
       \/ \E i \in 1..Len(part.pieces) :
            /\ part.pieces[i].head.name \in Compound
            /\ AddsWithin(part.pieces[i].before, part.pieces[i].after, l)

\* The preconditions of an annotated method are true in the state where the
\* annotation starts, unless a step supplies them that an earlier annotation
\* stands for, which is one of its subtasks.  LearnFromExactSequence asks this
\* only of the task's preconditions and of the remaining effects.
AnnotationsHold ==
  \A i \in 1..Len(insts) :
    (\A j \in 1..i : Distinct(insts[j].sub))
    => \A l \in FormulaAfter(insts[i].method.precs, insts[i].sub) :
         \/ IsConsistent({l}, <<>>, StateAt(insts[i].before))
         \/ \E j \in 1..(i - 1) :
              /\ insts[i].before <= insts[j].before /\ insts[j].after <= insts[i].after
              /\ TaskAfter(HeadOf(insts[j].method), insts[j].sub)
                   \in {TaskAfter(h, insts[i].sub) : h \in Elems(insts[i].method.subtasks)}
              /\ AddsWithin(insts[j].before, insts[j].after, l)

\* What the operators b calls do from a state, one after another.
RunFrom(b, sub, state) ==
  FoldLeft(LAMBDA r, h :
             LET o == OperatorNamed(h.name)
                 s == [v \in Elems(o.params) |-> AfterSubstitution(h.args, sub)[CHOOSE i \in 1..Len(o.params) : o.params[i] = v]]
             IN  [able |-> r.able /\ IsConsistent(o.precs, s, r.state), state |-> NextState(o, s, r.state)],
           [able |-> TRUE, state |-> state], Parts(b))

Achieves(b, sub, state, effects) ==
  LET r == RunFrom(b, sub, state) IN r.able /\ IsConsistent(effects, sub, r.state)

TaskNamed(n) == Tasks[CHOOSE i \in 1..Len(Tasks) : Tasks[i].name = n]

\* With --partial_generalization a method of operators is sound wherever its
\* preconditions are true: constants that differed where it was learned are
\* kept apart by CreateInequalities.
GeneralizedMethodsSound ==
  pc = "done" /\ flags.partial_generalization =>
    \A i \in 1..Len(lib), n \in 0..Len(trace.steps) :
      LET b == lib[i].body
      IN  lib[i].learned /\ OperatorOnly(b) /\ b.name \notin CheckNames =>
            \A sub \in [MethodVariables(b) -> ConstantsOf(StateAt(n))] :
              IsConsistent(b.precs, sub, StateAt(n)) =>
                Achieves(b, sub, StateAt(n),
                         FormulaAfter(TaskNamed(b.name).effects,
                                      [v \in Elems(TaskNamed(b.name).params) |->
                                         b.params[CHOOSE j \in 1..Len(b.params) : TaskNamed(b.name).params[j] = v]]))

\* What the annotations refer to is still there when learning ends: for each
\* annotated method there is one in the library that subsumes it, whatever was
\* replaced and removed since.  (A method that only calls itself is dropped.)
AnnotationsCovered ==
  pc = "done" /\ ~flags.no_subsumption =>
    \A i \in 1..Len(insts) :
      insts[i].method.subtasks # <<HeadOf(insts[i].method)>> =>
        \E j \in 1..Len(lib) : SubsumesByDefinition(lib[j].body, insts[i].method)

\* Where the steps or the annotations that task h may stand for lead from a
\* state, with their costs.
Leads(h, known, from) ==
  {<<s, OperatorAt(s).cost>> : s \in {x \in (from + 1)..Len(trace.steps) :
       h = TaskAfter([name |-> OperatorAt(x).name, args |-> OperatorAt(x).params], SubAt(x))}}
  \cup {<<known[j].after, known[j].cost>> : j \in {x \in 1..Len(known) :
       known[x].before >= from /\ h = TaskAfter(HeadOf(known[x].method), known[x].sub)}}

\* The states that tasks st can lead to one after another, and at what cost.
Reached(st, sub, known, from) ==
  LET reached[n \in 0..Len(st)] ==
        IF n = 0 THEN {<<from, 0>>}
        ELSE IF st[n].name \in Looks THEN reached[n - 1]
        ELSE UNION {{<<to[1], s[2] + to[2]>> : to \in Leads(TaskAfter(st[n], sub), known, s[1])} : s \in reached[n - 1]}
  IN  reached[Len(st)]

\* Where the subtasks of annotation i lead, which are steps or earlier annotations.
EndsOf(i) == Reached(insts[i].method.subtasks, insts[i].sub, SubSeq(insts, 1, i - 1), insts[i].before)

\* Every annotation is of the method made from its own sequence: no flag has a
\* sequence annotated with a method that was there before.
Regressed == ~flags.drop_unneeded /\ ~flags.hard_squelch

\* The subtasks of an annotation are steps of the plan and earlier annotations,
\* in order and without overlap, from the first state of the sequence to the
\* last, with the constants of the plan, through all renaming and unification.
AnnotationsDecompose ==
  Regressed => \A i \in 1..Len(insts) : \E e \in EndsOf(i) : e[1] = insts[i].after

\* With --qvalues the cost of an annotation is that of the steps it stands for,
\* unless it repeats a method with the cost that has elsewhere.
CostsAddUp ==
  flags.qvalues /\ Regressed => \A i \in 1..Len(insts) : <<insts[i].after, insts[i].cost>> \in EndsOf(i)

\* With --nd_checkers a check task that some method calls can be done without
\* subtasks: learned checkers, which call themselves last, never displace the
\* one that ends the recursion.
CheckersCanEnd ==
  pc = "done" /\ flags.nd_checkers =>
    \A i \in 1..Len(lib) : \A h \in Elems(lib[i].body.subtasks) :
      h.name \in CheckNames => \E j \in 1..Len(lib) : lib[j].body.name = h.name /\ lib[j].body.subtasks = <<>>

\* Learning ends, although a partial method is begun again for every initial
\* state and DoSubsumption steps back.
LearningEnds == <>(pc \in Ends)
============================================================================
