# HTN-Maker in TLA+

HTN-Maker learns methods for hierarchical task network (HTN) planning from
plans that were made without them, and comes with solvers that use what was
learned. This directory models the parts of it whose correctness depends on
long sequences of steps (search with backtracking, the instantiation of
preconditions, learning by regression, upkeep of a method library, files that
go from program to program) in TLA+, checks them with TLC on small instances, and
proves the invariants that matter for every domain with TLAPS.

Line numbers refer to the sources next to this directory.

## The system

| part | state | operations | who it works with |
|---|---|---|---|
| `htn-solver2` (`htn-solver2.cpp`) | command line; the C++ stack of `FindPlanOper` / `FindPlanMethod`; the domain file | `main`, `FindPlan`, `FindPlanOper`, `FindPlanMethod`, `RemoveIrrelevantBindings`, `UpdateQValues`, `DoThisQValue` | copies and extends `HtnSolution`s, asks `State` for instances, updates and rewrites `HtnDomain` |
| `htn-solver` (`htn-solver.cpp`) | a queue and a dead list of partial solutions | `main`: the loop over the queue, `FindDecomps`, `ReorderDecomps` | `HtnSolution`, `State` |
| partial solutions (`HtnProblem`, `HtnSolution`) | current state, agenda with a parallel vector of parents, decomposition forest, plan, counters | `FromProblem`, copy, `ApplyOperator`, `ApplyMethod`, `IsComplete`, `Equivalent`, `Print` | the solvers, `State`, `HtnDomain` |
| instantiation (`State::GetInstantiations`) | the recursion over formulas and bindings | its overloads, one handler per kind of formula | every planner and the learner |
| subsumption (`HtnMethod::Subsumes`) | the recursion over two lists of preconditions | `NewCanSubsume` and its handlers | the library of the learner |
| domains and states (`Operator`, `HtnMethod`, `State`, `Substitution`, `Formula*`) | the atoms of a state; preconditions, effects, subtasks | consistency, `NextState`, `AfterSubstitution`, `Implies`, `AddNdCheckers` | everything above |
| learner (`htn-maker.cpp`, `AnnotatedPlan`, `PartialHtnMethod`) | plan with its states, recorded method instances, the partial method being regressed | `LearnMethods`, `GetPartials`, `LearnFromSubsequences`, `LearnFromExactSequence`, `TrySolving`; `AddOperator`, `AddMethod`, `CreateMethod` | reads the library's methods, writes into the library |
| verifiers and ND checkers (`MakeSoundnessCheckMethods`, `MakeTrivialNdCheckers`, `LearnNdCheckers`, `LearnOneNdChecker`) | as the learner | regression from a state that puts a failed outcome right | the library |
| method library (`HtnDomain::m_vMethods` in `htn-maker`) | the vector of methods, Q-values, ids, `g_iMaxMethodId` | `AddMethod`, `ReplaceMethod`, `RemoveMethod`, `UpdateMethodQValue` under `DoSubsumption`, `DoQValueUpdate` | the learner, which produces methods one at a time |
| STRIPS side (`StripsSolution`, `vanilla_ice`, `verifier_strips`) | a queue of plans; a plan with its states | breadth-first search, printing, reading and executing a plan | `State`, `Operator` |
| PDDL files (`FromPddl`, `ToPddl` of the domains and problems, `add-ids`) | the text that is left, flags, the table of terms | one reader per block, the printer | every program; the file is the next program's input |
| interning tables (`StringTable`, `TermTable`, `TypeTable`) | global tables | lookup, insertion | all formulas and terms |
| generators, converters, tests, TCLAP | none worth modelling | text to text | |

Every program is sequential and single-threaded. There are no messages and no
timeouts; the only state that outlives a process is in files. What is hard here:

* **backtracking over copied state.** The search copies a partial solution,
  changes the copy, and comes back. The copy has three structures that must
  stay in step (agenda, parents, forest), and nothing reports it if they do not.
* **recursion with early ends.** The instantiation search stops at its first
  success once no variable is left that matters, `htn-solver` drops what looks
  like work it has seen, loops start anywhere and wrap around.
* **regression under renaming.** The learner goes backwards through a plan with
  two lists of formulas, renames variables in everything it has built, skips
  steps, and calls what it learned a moment ago.
* **ordering.** Subtasks are reversed twice, instances are visited from a random
  start with wrap-around, methods are sorted or shuffled, Q-values are returned
  from the leaves of the forest to its roots.
* **a vector changed while it is walked.** `DoSubsumption` replaces and erases
  elements of the vector its loop runs over and steps the index back.
* **files carried from one run to the next.** What a run writes, its order and
  its values are the next run's input.
* **limits.** The depth limits, the seven characters of an id.

What makes each part correct: a reported plan is executable and does the tasks
in their order by legal decompositions; failure means there is no plan within
the limit; the options mean what they say; ratings account for the plans that
were found; what is learned holds where it was learned and stands for the steps
it replaces; the library neither keeps a redundant method nor loses what a
method could do; ids are unique; a file that is written can be read; everything
ends.

## The modules

```
HtnDomain <- HtnSolution <- HtnSolver2 <- MCHtnSolver2 (TLC)
                ^   ^           |    ^--- HtnSolver2Proofs (TLAPS)
                |   |           '--INSTANCE--> HtnPlanning (abstract)
                |   '------ HtnSolver <- MCHtnSolver, HtnSolverProofs
                '---------- HtnDomainProofs <- every module of proofs for a program
                                               or search that runs in a domain
HtnDomain <- Strips <- MCStrips, StripsProofs
HtnDomain <- HtnMethods <- Subsumption <- MCSubsumption, SubsumptionProofs
                 ^  '----- Instantiation <- MCInstantiation, InstantiationProofs
                 '-------- PartialHtnMethod <- HtnMaker <- MCHtnMaker, HtnMakerProofs
                                                  '--INSTANCE--> MethodLibrary
MethodLibrary <- MCMethodLibrary (TLC), MethodLibraryProofs (TLAPS)
PddlFiles <- MCPddlFiles
```

**HtnDomain** has no variables. A state is the set of its atoms; `State` also
keeps an order of them, which decides only the order in which instances are
found. `Satisfying(a, task, state)` is the set of substitutions
`State::GetInstantiations` searches: parameters bound to the task's arguments,
other variables to constants that occur in the state (or by an equality),
preconditions satisfied. `NextState` is `ApplyEffects`: deletions before
additions. Names are compared as the interned names they are, so up to case.

**Instantiation** is that search as the code does it: the frames of `stack` are
the handlers under way, each with the bindings of its first formula it has not
tried and the relevant variables handed down to it. `Enter` is a call (refute by
a ground formula, return the substitution, or choose the most specified formula),
`Extend` one turn of a handler's loop, `Return` its end. `std::sort` may leave
equally specified formulas in any order, so any may come first. Typing is here
(`TypeOf`): a variable takes constants of its own type only. An equation between
two open variables calls itself for ever (`"overflow"`), a negation that is not
of an equation throws (`"exception"`).

**HtnSolution** is the class of that name as a record. `tasks` keeps the
source's layout (next task at the back) and `parents` is the parallel vector;
the forest is the sequence of its nodes in the order of creation, each naming
its parent by position. A C++ copy is a value copy; that the copy constructor
can find each parent (`FindEquiv`) is part of the invariant `WellFormed`.
`OperatorRefused` and `MethodRefused` are the checks that throw. The module also
states what a legal derivation is (`LegalStep`, `Successors`), without the
search, and what a solution must be to stand for one (`GivenInOrder`,
`SubtasksAsDeclared`, `StatesAlong`).

**HtnSolver2** is the program. The recursion of `FindPlanOper` and
`FindPlanMethod` is `stack`, one record per activation with the partial
solution, the depth, the order of methods, the loop counter, the instances of the
current method and how many were tried. Actions, with their code:

| action | code |
|---|---|
| `Start` | `main` 114-120, `SortMethods`, `FindPlan` |
| `DepthLimit` | the early returns 219, 310 |
| `EnterOperator`, `TryOperator` | `FindPlanOper` |
| `EnterMethod`, `NextMethod`, `TryMethod`, `Backtrack` | `FindPlanMethod` |
| `BeginLearning`, `LearnNode`, `EndLearning` | `UpdateQValues`, `DoThisQValue`, one returning call at a time |
| `ReportFailure`, `WriteDomain` | the rest of `main` |
| `RunAgain` | another run on the file as it is |

`Listings` is the order in which instances are visited. The code keeps one
instance per binding of the variables that matter, in an order that depends on
the order of atoms and, for methods, on `rand()`; the model lets every
representative and every order happen. Printing happens at `found`, before
learning, as in the code. Once a plan is found the code only unwinds its
recursion (each loop tests `l_bSuccess`), which changes nothing; the model
keeps the stack as it was, so that `Path` below can speak of it.

A Q-value is the exact mean `total / count`, and `prior` is the value of an entry
with count 0. The code keeps a double and prints six digits.

**HtnPlanning** is the abstract planner: a path of partial solutions that grows
by a legal step of work, shrinks, and ends in a verdict. It has no depth, order
or library. `HtnSolver2!Planning` maps the solver to it: the path is the
solutions of the activation records, with the answer at its end.

**HtnSolver** is the older solver. `queue` is read from the front or the back
(`Take`); `Seek` finds the operator or the methods for the next task, in the
order of `ReorderDecomps` or any, `List` their instances, `Extend` applies one
and `Judge`s the result: found, discarded (limit, duplicate), or queued.
`EndExtension` puts the solution that was extended on the dead list if loop
detection may need it. A problem that is complete at the start is reported solved
and searched all the same, which ends in the exception of `GetCTopTask`.

**HtnMethods** has the functions on whole methods: equality and implication of
literals and conjunctions, renaming, `AddNdCheckers`, the linkage test with its
exception, and `SubsumesByDefinition`, what `Subsumes` is documented to decide.

**Subsumption** is `HtnMethod::Subsumes` as the search it is, a frame per call of
`NewCanSubsume`: `Try` matches its first formula with one of the other method's
preconditions and, if they match, recurses on what is left. The temporary names
that keep the variables of the two methods apart are tags.

**PartialHtnMethod** is the class of that name as a record: what of the task's
effects and of the collected preconditions is still to be supplied, the pieces
(operators and methods) added so far, the master substitution that says which
constant each variable stands for. `Supplies` is the test for usefulness; `Strike`
and `Unify` are `ProcessEffects` with and without `--partial_generalization`, the
latter renaming one variable of an effect at a time in all that was built
(`ReplaceTerm`) and following the chains of replacements in both lists
(`Updated`). `CreateMethod` makes the body, with its inequalities.

**HtnMaker** is the program: verifiers and trivial checkers first, then for each
final state the task instances that just came true (`Partials`) and for each
initial state, latest first, one sequence at a time. Actions, with their code:

| action | code |
|---|---|
| `MakeVerifier`, `MakeTrivialChecker` | the loops of `MakeSoundnessCheckMethods`, `MakeTrivialNdCheckers` |
| `NextFinalState`, `End`, `NextInitialState` | `LearnMethods`, `GetPartials`, `LearnFromSubsequences` |
| `Squelch` | `TrySolving` under `--hard_squelch` |
| `Drop` | the first part of `LearnFromExactSequence`, `--drop_unneeded` |
| `Begin`, `AddMethod`, `AddOperator`, `Advance` | its loop: the best annotation, else the operator, else a step left out |
| `GiveUp`, `Discard`, `Create` | its end, with `AddMethodInst` |
| `NoChecker`, `BeginChecker`, `EndChecker` | `LearnNdCheckers`, `LearnOneNdChecker` (whose loop is `AddOperator` and `Advance` too) |
| `LibraryStep` | `DoSubsumption`, `DoQValueUpdate`: the steps of `MethodLibrary` |

A run ends as `done` or in one of the exceptions: `double variable` (`AddPair`,
for a head that names a variable twice), `not a predicate` (the linkage test),
`undefined` (`AddNdCheckers` looks at the last subtask of a method without any),
`overlap` and `substitution recurses`, which the instance never reaches.

**MethodLibrary** is the vector of methods in `htn-maker`, one iteration of a
loop per action. What a method says is a value of `Body`, and the subsumption
relation between bodies is a constant operator that is only assumed reflexive.
`learned` marks methods made by the learner (a ghost: the code does not record
it, the properties do not apply to what the file brought along). On its own,
which methods are learned is left open: `LearnMethod`, `LearnNdChecker` and
`DropSelfLoop` are the three ways a new method reaches the library or not.
`HtnMaker` instantiates it with real bodies and `SubsumesByDefinition`, and calls
`Offer` with the method it made.

**Strips** is `vanilla_ice`, a queue of plans that is read from the front, and
then `verifier_strips` on the plan as it was printed: names and parameters, which
is all that `ReadAction` can bind.

**PddlFiles** is the life of the domain file. A text is a sequence of blocks; a
reader takes one block per action, with the code's flags and refusals, and
`PrintDomain` is `ToPddl`. `add-ids`, `htn-solver2 --update_qvalues` and
`htn-maker` read, and write what the next program reads. Each process has one
table of terms (`terms`) for all its texts, in which a name has one type. Some of
what the code does here is surprising and is modelled as it is: whether an
operator's parameters have types depends on there being types, a method's on
`:typing`; a name given twice with the same type throws, with different types it
does not; `StripsDomain` throws pointers nobody catches (`"terminated"`); a
method without a precondition, or with a constant in a subtask, crashes `ToPddl`.
What a program does to its domain in between is the business of the other modules.

Definitions whose comment begins with "Slip" are variants of the definition
that follows, each with a plausible mistake; no specification uses them. Put in
the place of the real one, each breaks the property `PROJECT.json` names for it.

## The runs

| run | instance | result |
|---|---|---|
| `htn_solver2` | errand domain, `fetch` then `travel`, 2 runs, all of `-q`/`-u`, max_depth 4 and 7 | 10,759 states, all properties hold |
| `htn_shuffled` | the same domain with one shop out of reach, a method without id and one that calls an operator that does not exist, one task, `--random_selection`, max_depth 4 and 5 | 1,153,123 states, `NoPlanMissed` and `OnlyMissingIdsThrow` hold |
| `max_depth` | as `htn_solver2`, one run | `MaxDepthIsTreeDepth` violated |
| `htn_solver` | a round trip with a circle, a detour and a method that calls an operator that does not exist; 44 command lines | 113,679 states, all properties hold |
| `method_library` | 8 methods, 3 libraries, 3 offers | 168,389 states, all properties hold |
| `unique_name` | ids up to 9,999,999, 2 offers | `IdIsUniqueName` violated |
| `subsumption` | all pairs of methods with up to 3 of 8 preconditions, and pairs with a subtask | 70,967 states, both properties hold |
| `instantiation` | every set of up to 3 of 10 formulas, 2 states, 3 bindings, 4 sets of relevant variables, 2 types | 19,543 states, all properties hold |
| `learner` | 3 tasks, 5 plans of 2 to 6 steps, 12 combinations of flags | 17,862 states, all properties hold |
| `strips` | 5 problems, with and without reports of the depth | 16,936 states, all properties hold |
| `files` | 168 domain files, 5 problems, 4 pairs of STRIPS files, 3 programs in a row | 95,712 states, `RewritesAreHarmless` holds |
| `untyped_constants` | one untyped domain with constants | `WritesThePddlOfTheDomain` violated |

**Bounds.** The errand domain has what the search can meet: a recursive method, a
method without subtasks, several methods for one task, several instances of a
method, a variable that is only in preconditions, dead ends (the mall has no road
back), a loop of roads, and Q-values that contradict the order of the file.
With max_depth 4 there is no plan within the limit and the search is exhausted;
with 7 there are plans after dead ends. `MaxRuns = 2` lets one run's file be the
next one's input, with other options. `htn_shuffled` has one task and a
smaller limit because all orders of the methods are tried in every call; of the
two instances of `fetch` only one leads to a plan.

`htn_solver` has limits of 2 and 3 decompositions and none; without a limit
only loop detection ends the search, and the command lines leave out the
combination with neither, which does not end. `Horizon = 10` is the number of
steps of work `NoPlanMissed` and `FewestSteps` look ahead: no solution within the
limits needs more, for three decompositions allow six steps, and without a limit
the plans found first are shorter. In `strips`, ten steps reach every state that
can be reached.

In `MethodLibrary`, eight bodies have a chain, an equivalent pair and an unrelated
part, the libraries have a redundant pair, subsumed methods on both sides of
others, and nothing; three offers are what it takes to replace one method, remove
another and be subsumed in turn. `Costs` has one value: only counts are compared.
`unique_name` starts at the last id of seven digits. `MaxMethods = 20` in
`learner` is more than any of the plans makes.

The plans of `learner` are the shortest in which the learner's cases meet: a walk
in which each method calls the one learned before it; two lamps, whose task has
two parameters that may be one constant; an outcome that was not desired and is
put right later; one whose precondition is the effect of what it undoes; a detour
that is learned as one method, which leaves out a step within it. The sets
of flags have every flag alone or where it matters together.
`Subsumption` and `Instantiation` need three formulas for a choice to be undone
two calls further down.

`files`: a file must be written and read again by a program with another table of
terms, and once more for a second rewrite; hence three programs.

**Deadlock** is not checked where programs stop (after `MaxRuns` runs, after
`MaxOffers` methods, at the end of a search). In `learner` it is: a run that is
over stutters by `Stop`, and any other state without a step would be a gap.

**Fairness.** A sequential process keeps executing until it returns:
`WF_vars(Step)` in `HtnSolver2` and `MethodLibrary`, `WF_vars(Next)` in
`Instantiation` and `Strips`. In `HtnMaker` and `HtnSolver` the same is written
as `[]<>(pc \in Ends) \/ []<><<Next>>_vars`, because `ENABLED Next` is costly to
evaluate there and is true exactly until the program ends. `RunAgain` and the
offers of a learner that is left open are not under fairness, nothing obliges a
user to run the program again. The liveness properties (`RunsEnd`, `LoopsEnd`,
`SearchEnds`, `LearningEnds`) need no more than that. `PddlFiles` has safety
properties only; every reader consumes its text.

**What the properties say.** `KeepsPromise` (refinement), `PlansReplay` and
`DecompositionsInOrder` together are soundness of `htn-solver2`: each step was
legal when made, the plan as a sequence of actions executes from the initial
state, and each decomposition is worked off in its declared order. `NoPlanMissed`
is completeness within the limit, against a set of derivations computed without
the search, in both solvers; for `htn-solver` this is what loop detection puts at
risk, which must compare decompositions used as well as the situation.
`LowestQValueFirst` and `QValuesAccountForPlan` are what the two options
promise. `LibraryKept` speaks of the file over several runs.

`FoundAreInstances` and `NoInstanceMissed` say that the instantiation search
agrees with its definition, up to variables that do not matter, whatever order
formulas and bindings are taken in; `YesIsRight` and `NoIsRight` the same of
subsumption. The latter has one exception, `OrientationMatters`: an equation is
matched only as it is written, although equality of formulas ignores the order.

In the learner, `OutstandingHold` is the invariant of regression: in the state the
partial method has come to, everything outstanding is true. `AnnotationsHold` is
what becomes of it when the program stops regressing and checks less than it
collected. Both have one exception, stated literal by literal: an annotation that is
called stands for all steps of its interval, but its effects are only those of the
steps it does (`GetActualEffects`), so what a step it left out supplies stays
outstanding, and may be false in front of the interval. In the last plan of the run a
method for repairing a lamp is learned that way: it asks for the lamp to be open where
it was learned, where it is not, and no method it calls opens it.
`AnnotationsDecompose` and `CostsAddUp` say that an annotation is a
true account of the steps it stands for, through all renaming: its subtasks, with the
constants of the plan, are steps and earlier annotations in order and without overlap,
from its first state to its last, and with `--qvalues` their costs add up to its own.
Both leave out `--hard_squelch` and `--drop_unneeded`, which annotate a sequence with a
method that was made elsewhere (`Regressed`);
`GeneralizedMethodsSound` that a method of operators with `CreateInequalities`
achieves its task in every state of the plan where its preconditions hold;
`AnnotationsCovered` that pruning never removes what an annotated method needs;
`CheckersCanEnd` that checking a non-deterministic outcome can come to an end.
With `--partial_generalization`, two parameters of a task that are one constant
are told apart by nothing but the order of the master substitution, and the first
two of these properties fail there; they exclude that case by name (`Distinct`).

In the library, `NoRedundantMethod` and `NoTwins` say what pruning achieves,
`NothingForgotten` that it costs nothing, `ObservationsCounted` that no rating is
lost.

`PlansConfirmed` says that printing loses nothing that verifying needs, for
operators all of whose variables are parameters; `ShortestPlan` that cutting off
repeated states loses no shorter plan; `SearchEnds` also that the assertion on the
depth never fails. `RewritesAreHarmless` says that whatever is written is read
back as the same domain by any later program, and that a problem that could be
read still can, as long as declarations have types exactly if `:typing` is
required and name no parameter twice (`Regular`).

**Disagreements found.** `--max_depth` says it limits the depth of decomposition
trees; it limits the number of steps. Method ids are documented as unique names;
ids from 10,000,000 on are cut to seven characters. `ToPddl` is documented to
return the PDDL of the domain; for an untyped domain with constants it returns a
text that the reader refuses.

## The proofs

All theorems are for arbitrary domains, problems, libraries and command lines,
under the assumptions the modules name:

* `DomainAssumption`: objects and variables are disjoint, objects are finitely many
  and so are preconditions and effects, names have one arity, a parameter is named
  once, variables of effects and subtasks are parameters or occur in the
  preconditions, effects have no equality. The parser does not check the last
  three; a file that breaks them makes the program throw or read past a map.
* `ProblemAssumption`, `SolverAssumption`, `ProblemsAssumption`: types of the
  inputs; costs are natural numbers (the parser accepts negative ones).
* `CommandLineAssumption`, `HorizonAssumption`: the number of steps the properties
  look ahead is a natural number, any one.
* `CallAssumption`: an instantiation is asked for variables as parameters,
  predicates and equations as preconditions, and a substitution to constants.
* `PairsAssumption`: two methods to compare have variables as terms and
  predicates, equalities and inequalities as preconditions; `CreateMethod` makes no
  other (it throws at a constant), and `Subsumes` casts every argument of a head or
  a subtask to a variable.
* `MakerAssumption`: what the learner is given. Tasks, operators and the file's methods
  are formulas of variables (`ProcessPreconditions` throws at a negation that is
  not of an equation, so those of tasks and operators have none); a task's formulas
  use its parameters only; verifiers and checkers have the arity of what they check; the
  outcomes of an operator have the same parameters, since `LearnOneNdChecker` gives the
  substitution of the one to the effects of the other; the plans are legal
  executions (`NextState` throws at an action that is not applicable); subtasks have
  variables as arguments (`Subsumes` casts each one to a variable).
* `CheckersAssumption`: an operator with several outcomes has the outcome `-01` in
  the domain, which `LearnNdCheckers` demands of those in a plan and
  `MakeTrivialNdCheckers` makes a checker for.
* `LooksAssumption`: no task of the learner has the name of a verifier or a checker
  (`x-verify`, the name of a check task), which only look at the state.
* `FreshNames`: the variables `CreateNewVars` makes from a counter are distinct and
  are variables. It is a hypothesis of the learner's theorems and not an assumption of
  the module: TLC's instances declare only the names a run comes to, and a
  counter has no bound.
* `LibraryAssumption`: `Subsumes` is reflexive; the file's ids are distinct.

| module | theorem | property |
|---|---|---|
| `HtnSolver2Proofs` | `Typing` | `TypeOK` |
| | `ForestsKeepTheirShape` | `SolutionsWellFormed` |
| | `DepthIsBounded` | `WorkWithinDepth` |
| | `DomainFileIsKept` | `LibraryKept` |
| | `BetterMethodsComeFirst` | `LowestQValueFirst` |
| | `SolverKeepsPromise` | `KeepsPromise` |
| | `ExceptionsAreMissingIds` | `OnlyMissingIdsThrow` |
| | `PlansCanBeReplayed` | `PlansReplay` |
| | `SubtasksKeepTheirOrder` | `DecompositionsInOrder` |
| | `NoPlanIsMissed` | `NoPlanMissed` |
| | `PlansArePaidFor` | `QValuesAccountForPlan` |
| `HtnSolverProofs` | `NoPlanIsMissed` | `NoPlanMissed` |
| | `PlansTakeFewestSteps` | `FewestSteps` |
| `StripsProofs` | `PlansAreConfirmed` | `PlansConfirmed` |
| | `PlansAreShortest` | `ShortestPlan` |
| | `DepthGrowsByOne` | (part of `SearchEnds`) |
| `InstantiationProofs` | `FoundAreRight` | `FoundAreInstances` |
| | `NoneIsMissed` | `NoInstanceMissed` |
| `SubsumptionProofs` | `YesIsNeverWrong` | `YesIsRight` |
| | `NoIsNeverWrong` | `NoIsRight` |
| `MethodLibraryProofs` | `Typing` | `TypeOK` |
| | `LibraryIsPruned` | `NoRedundantMethod` |
| | `LibraryHasNoTwins` | `NoTwins` |
| | `LibraryForgetsNothing` | `NothingForgotten` |
| | `IdsStayUnique` | `IdsUnique` |
| | `RatingsCountEveryObservation` | `ObservationsCounted` |
| `HtnMakerProofs` | `Typing` | `TypeOK` |
| | `OutstandingAreTrue` | `OutstandingHold` |
| | `AnnotationsAreTrue` | `AnnotationsHold` |
| | `AnnotationsStayCovered` | `AnnotationsCovered` |
| | `CheckersEnd` | `CheckersCanEnd` |
| | `AnnotationsAreDecomposed` | `AnnotationsDecompose` |
| | `CostsAreAdded` | `CostsAddUp` |

**HtnDomainProofs** has the lemmas the other modules share.
What is defined by recursion on a number (the states along a plan, what lies
within n steps) is a recursive function; `Induction`, `Recursion` and
`EndlessRecursion` give it its equation, from the well-foundedness of `Nat` and
stated of sets and functions rather than of operators. Of partial solutions it has what
`ApplyOperator` and `ApplyMethod` do to types, to the shape of the forest, to the
order of its tasks and to the states along the plan, and that the code's refusals
never fire on an instance.

**HtnSolver2.** The inductive invariant is `IInv`: types; `Stacked`, that each
record of the stack holds a successor of the one below and its instances satisfy
the preconditions in its state; `Answered`, the same of the answer; `PhaseOK`,
which of them are empty in which phase; `LibraryOK`, that library and file are
permutations of the methods; and, while searching under `--use_qvalues`, that the
library is sorted. None of the properties is inductive alone: that the
depth counts the steps needs the shape of the whole stack, and that a better
method was tried needs the library to be sorted from `Start` on. The lemma
`SearchOutcomes` reduces the search actions to four outcomes (a record stays, a
record is popped, one is pushed, an answer is found), and each property is
proved once per outcome.

`OnlyMissingIdsThrow` needs a second invariant on top of `IInv`, `Accounted`:
every action in the forest of every partial solution is one of an operator of the
domain, so that `DoThisQValue` finds it, and only a run with `--update_qvalues`
learns. A method's id is found because the library holds every method, so the
only exception left is the one for an id that is missing. `PlansReplay` and
`DecompositionsInOrder` hold of every solution on the stack, because both
`ApplyOperator` and `ApplyMethod` keep them; the latter needs the agenda as well:
the tasks a method has left are the last ones its subtasks declare, so the next
one taken is the next one declared.

`NoPlanMissed` is the end of the invariant `Searched`: while the solver searches,
every successor of a solution on the stack that can still lead to a plan within
the depth (`Solvable`) is alike to one that its record has not tried yet, or to
the one it is trying (`Exhaustive`). A record tries one instance per binding of the
variables that matter. That is enough because two instances that agree there lead
to the same situation (`SameEffects`), and it is enough only in a domain that is
`Listable`: the instantiation binds a variable that occurs in nothing but an
inequality to constants of the state, and an operator's instances are listed per
binding of its parameters, which loses some if an effect has another variable, or
if two operators share a name (the code takes the first). `NoPlanMissed` and
`FewestSteps` have `Listable` as their condition; the domains of all runs satisfy
it.

`QValuesAccountForPlan` is an equation between what the recursion of `DoThisQValue`
adds up on its way back and sums over the whole forest. `LearningInv` says where the
recursion stands (`Charging`): a call under way has added up the costs of the actions
below those of its children that have returned, and the methods have learned exactly
from the nodes that have returned. When the last child has returned, the call has the
cost of everything below its node, because in a forest every action below a node is
below exactly one of its children (`ChildOnLine`, `OneChildOnLine`). The sums are
recursive functions of a number; `TotalOfSum` and `TotalOfOne` follow from
well-founded induction on sets. The property is about domains in which ids tell
methods apart (`IdsTellMethods`), since the code finds the method to update by its
id; an empty id is an exception (`OnlyMissingIdsThrow`), and the run `unique_name`
shows how the learner comes to give one id twice.

**HtnSolver.** A set of partial solutions `Serves` a partial solution s if for
every n such that n steps of work complete s within the limit, one of the set is
completed by at most n, and breadth-first by a plan that is no longer in all;
it `ServesFurther` if fewer than n suffice. The invariant `IInv` has types and what
is at hand (`Idle`, `InHandOK`), `Level`, that breadth-first the queue is ordered by
steps and spans two numbers of them, `NoneLost`, that what is in hand serves for
the problem and serves further for all that has been extended, and `Verdict`. The
step that matters is a dropped duplicate: one alike with no more decompositions
(`NoWorse`) is still waiting, or was extended and has left something that needs
fewer steps, so that a series of duplicates cannot lead in a circle.
`NoPlanMissed` and `FewestSteps` follow, for any horizon.

**Strips.** `IInv` says that every plan in the queue is legal, that the queue is
sorted by length and spans two lengths (`QueueOK`, from which the assertion cannot
fail), that what is tried are instances of the operator (`UntriedOK`), and that the
verifier has read and executed the beginning of the plan that was printed
(`Follows`). For `ShortestPlan`, `NonePassed` says that a plan with the fewest
actions can still be made from one in the queue, or from an action not yet tried
(`Open`); a shortest plan comes to no state twice, so that the cut never removes
it.

**Instantiation.** Each handler on the stack knows what its formulas have become:
`Handed` says that under any extension of its substitution they hold exactly if the
preconditions do, and that any variable of an equation that is still open is in one
of them. `FrameOK` adds that what it tries may be part of an instance and that what
it has found are instances; `Stacked` that each substitution extends the one below.
From this `FoundAreRight` follows. For `NoneIsMissed`, `IInv` says that every instance
agrees with a result in what `Matters`, or is pending: it extends a part not yet
begun, or a handler's substitution together with a binding it has not tried, or
agrees there with what the handler has found. A binding can be missed in one place:
a negation binds its variables to constants of the state, but an equation may bind
one to a constant the state does not have. It is not, because equations are more
specified and so no equation is left when a negation is reached
(`BindingsComplete`). The early stop is sound because then all variables that
matter are bound, and all instances agree on them.

**Subsumption.** `OneCall` is the heart: a set of formulas has a solution that extends
a substitution exactly if applying it refutes none of them and what is left open has
a solution. So if the formulas of a call on the stack have a solution, the whole
problem has one (`GoodFrame`), and a yes is right. For the no, while the search runs and
there is a solution, some call has a precondition it has not come to that leads to
one (`Hopeful`). It needs the first formula of a call to be a predicate, which can
match only by being equal; that follows from the order of the sort if every open
equation is negated and shares its variables with open predicates (`Directed`), and
this in turn from `~OrientationMatters` and is kept by every call.
`AnswerIsSubsumption` translates a solution in temporary names to the substitution
that the definition asks for, and back. The invariant `IInv` was first checked by TLC
on the pairs of the run `subsumption` with up to two preconditions.

**MethodLibrary.** The invariant `LoopInv` says, for each place in
a loop, what the part of the vector already walked satisfies: nothing in front of
`m` covers the new method (`find`), the new method covers nothing in front of `m`
except itself where it was inserted (`replace`), no entry in front is equivalent
(`update`). `NoRedundantMethod` needs no transitivity of subsumption.
`ObservationsCounted` is a fact about steps: appending an entry and updating one change
the sum over the library (`Tally`) by one observation, by induction along the sequence.
`HtnMaker` uses the same module with a relation that is reflexive by definition.

**HtnMaker.** The invariant `IInv` is `TypeInv` (the library, the annotations, the
loops, the partial method), `GoalsHold`, `PiecesAnnotated` and `AnnotationsHold`.
What makes the regression hard to follow is that everything is renamed while it is
built. `Follows` says when one partial method is another one renamed: each variable
stands for the constant it stood for, so the ground formulas are the same; the
lemmas about `Unify`, `Strike` and `WithVars` show it once, and nothing after
them speaks of names. On ground literals a step is then one of two things: an
operator, whose effects supply some of the outstanding literals and whose
preconditions are true before it, or an annotation. For an operator, a literal that is
true behind it and that it does not supply is true in front of it (`GoalBack`).

An annotation stands for an interval of steps, but its effects are those of the steps
it does; a literal that only a left-out step of the interval makes true stays
outstanding. The invariant therefore has the alternative `Supplied`, and so that it
carries over to the method that is learned, and to the annotations of that method in
turn, `PiecesAnnotated` ties each added method to the annotation it came from: the
exception of an annotation is in terms of its calls, and those are annotations
too. This exception was found by the proof: before, both properties were stated
without it, and held in the run only because none of its plans had such a detour.
`GoalsHold` speaks of a partial method whose last step was useful: a useless last step
ends the regression by taking `current` to `init` (`Advance`), where nothing is
claimed; such a method is given up.

`OutstandingHold` and `AnnotationsHold` are about plans without a variable clash
(`Distinct`), because with `--partial_generalization` two parameters that are one
constant keep two variables.

`AnnotationsCovered` and `CheckersCanEnd` are about the library, at the end of a run
in which it was pruned any number of times. Both follow from one invariant,
`KeptInv`: an annotated method, and the checker that `MakeTrivialNdCheckers` made or
found for an operator, is subsumed by a method of the library or by the one that is just
being put there (`Kept`). While `DoSubsumption` removes methods the second alternative
is needed: the new method may not be in the vector yet, or (`InFront`) is in it, before
the place the loop has come to, so that it is still there when the loop ends.
The step of each loop needs that subsumption is transitive, and a new annotation
that a method subsumes itself renamed. `SubsumptionMeans` shows first what
`SubsumesByDefinition` says without temporary names: a substitution of the variables
of the one method turns its head and its subtasks into those of the other and its
preconditions into some of them; then transitivity is composition
(`SubsumptionTransitive`, `SubsumesRenamed`). Since the number of subtasks is
the same on both sides, what subsumes a checker without subtasks has none. `KeptInv`
was first checked by TLC on the run `learner`.

`AnnotationsDecompose` and `CostsAddUp` follow from `DecomposeInv`: besides what they say
of the annotations, the pieces of the partial method lead from one to the next up to its
final state (`InOrder`), each is a step or an annotation, and their costs add up to the
cost so far (`PiecesCost`). The properties are stated by a recursion that collects
wherever tasks can lead (`Reached`); the proof names one path through it
(`Route`), shows that a path is found by the recursion (`RouteIsFound`), and then only
speaks of paths. A path is kept by renaming, since each task on it stays the same with
the constants of the plan (`CallsKept`, `ReachesRenamed`), by the checkers that
`SubtasksWithCheckers` puts between the subtasks (`CheckersReach`) and by
later annotations. The order of subtasks is the reverse of the order in which the pieces
were added (`CreatedReaches`). That the path ends in the final state needs the
case of the useless last step again: there `Advance` takes `current` to `init` without
any piece, and `MakesMethod` asks for a piece that helped.

Only model-checked: the ends of loops, searches and learning, which are liveness;
`GeneralizedMethodsSound` of the learner and `RewritesAreHarmless`, on their instances.
The first needs what the effects of a whole sequence of operators do under every
substitution that keeps its constants apart; the second is about files that are written and
read by any series of programs.

## Not modelled

* how characters become words: comments, white space, parentheses, case; the SHOP
  syntax and the converters to and from it; task lists and plans as texts;
* printing of solutions and problems. `HtnProblem::ToPddl`, which only
  `shopp2pddlp` calls, counts an unsigned index down past zero and does not end;
* typing in the learner and the solvers; it is in `Instantiation` and `PddlFiles`;
* Q-values as doubles with six printed digits; costs below zero;
* a crash while the domain file is rewritten: it is truncated first, and nothing
  recovers from that;
* `htn-solver`'s clean-up after a plan is found, which frees instances from the
  current index on and relies on none having been freed before it;
* the generators of random problems, the unit tests, the vendored command-line
  library.

## Plan

1. `HtnDomain`, `HtnSolution`, `HtnSolver2` with `HtnPlanning`, `MethodLibrary`,
   with their proofs (done).
2. `Instantiation`, `Subsumption`, `PartialHtnMethod` and `HtnMaker`, `HtnSolver`,
   `Strips`, `PddlFiles` (done, model-checked).
3. Proved: the planners' properties (`HtnSolver2`, `HtnSolver`, `Strips`), with the
   lemmas they share, the instantiation search, the subsumption search, the ratings
   of methods, the learner's regression and annotations, what annotations consist of
   and cost, and that pruning keeps what the annotations and the checkers need (done).
4. Proofs next: `GeneralizedMethodsSound`, which needs the regression once more, under
   substitutions other than that of the plan.
