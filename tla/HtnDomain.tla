----------------------------- MODULE HtnDomain -----------------------------
(***************************************************************************)
(* The planning domain the solvers search: what State, Operator, HtnMethod *)
(* and Substitution compute for them.  A state is the set of its atoms     *)
(* (State::m_vAtoms up to order), a term is an object or a variable, and a *)
(* substitution is a function from variables to objects.  Names are the    *)
(* interned ones of StringTable, so equality here is equality up to case.  *)
(***************************************************************************)
EXTENDS Integers, Sequences, FiniteSets

CONSTANTS Object,     \* the constants of the problem (TermConstant)
          Variable,   \* the variables of operators and methods (TermVariable)
          Predicate,  \* the predicate symbols, "=" apart
          Primitive,  \* the task names that start with '!'
          Compound,   \* the other task names
          Arity,      \* the number of arguments of each task name
          Operators,  \* HtnDomain::m_vOperators, in file order
          Methods     \* the methods of the domain file, in file order

Term     == Object \cup Variable
TaskName == Primitive \cup Compound
WithArity(heads) == {h \in heads : Len(h.args) = Arity[h.name]}
Task     == WithArity([name : TaskName, args : Seq(Object)])
TaskHead == WithArity([name : TaskName, args : Seq(Term)])
Atom     == [pred : Predicate, args : Seq(Object)]
\* A FormulaPred or a FormulaEqu (pred "="), negated or not.
Literal  == [pos : BOOLEAN, pred : Predicate \cup {"="}, args : Seq(Term)]

OperatorType == [name : Primitive, params : Seq(Variable),
                 precs : SUBSET Literal, effects : SUBSET Literal, cost : Nat]
MethodType   == [name : Compound, id : STRING, params : Seq(Variable),
                 precs : SUBSET Literal, subtasks : Seq(TaskHead)]

Elems(s) == {s[i] : i \in 1..Len(s)}

\* The variables of a formula (FormulaConj::GetVariables).
VariablesOf(form) == (UNION {Elems(l.args) : l \in form}) \cap Variable

\* Every variable an instance of an operator or method must bind.
BoundVariables(a) == Elems(a.params) \cup VariablesOf(a.precs)

\* HtnMethod::GetRelVars: the variables of the head and of the subtasks.
RelevantVariables(m) ==
  Elems(m.params)
    \cup ((UNION {Elems(m.subtasks[i].args) : i \in 1..Len(m.subtasks)}) \cap Variable)

DistinctParams(a) ==
  \A i, j \in 1..Len(a.params) : a.params[i] = a.params[j] => i = j

\* The domain files the program is meant for: a task name has one arity, a
\* parameter is named once, a variable of an effect or of a subtask is a
\* parameter or is in the preconditions, and effects mention no equality
\* (ApplyEffects would throw).
ASSUME DomainAssumption ==
  /\ Object \cap Variable = {} /\ Primitive \cap Compound = {}
  /\ IsFiniteSet(Object)
  /\ "=" \notin Predicate
  /\ Operators \in Seq(OperatorType) /\ Methods \in Seq(MethodType)
  /\ \A i \in 1..Len(Operators) :
       /\ DistinctParams(Operators[i]) /\ Len(Operators[i].params) = Arity[Operators[i].name]
       /\ VariablesOf(Operators[i].effects) \subseteq BoundVariables(Operators[i])
       /\ \A l \in Operators[i].effects : l.pred # "="
       /\ IsFiniteSet(Operators[i].precs) /\ IsFiniteSet(Operators[i].effects)
  /\ \A i \in 1..Len(Methods) :
       /\ DistinctParams(Methods[i]) /\ Len(Methods[i].params) = Arity[Methods[i].name]
       /\ RelevantVariables(Methods[i]) \subseteq BoundVariables(Methods[i])
       /\ IsFiniteSet(Methods[i].precs)

----------------------------------------------------------------------------
(* Substitution and State                                                  *)

Substituted(t, sub) == IF t \in DOMAIN sub THEN sub[t] ELSE t

AfterSubstitution(args, sub) == [i \in 1..Len(args) |-> Substituted(args[i], sub)]

AtomAfter(l, sub) == [pred |-> l.pred, args |-> AfterSubstitution(l.args, sub)]

TaskAfter(h, sub) == [name |-> h.name, args |-> AfterSubstitution(h.args, sub)]

Holds(l, sub, state) ==
  LET a == AtomAfter(l, sub)
  IN  l.pos <=> IF l.pred = "=" THEN a.args[1] = a.args[2] ELSE a \in state

IsConsistent(precs, sub, state) == \A l \in precs : Holds(l, sub, state)

\* ApplyEffects: every deletion comes before every addition.
NextState(o, sub, state) ==
  (state \ {AtomAfter(l, sub) : l \in {e \in o.effects : ~e.pos}})
    \cup {AtomAfter(l, sub) : l \in {e \in o.effects : e.pos}}

\* State::GetConstants: only the constants that appear in some atom.
ConstantsOf(state) == UNION {Elems(a.args) : a \in state}

Grounding(a) == [BoundVariables(a) -> Object]

\* Slip: preconditions are not looked at.
SatisfyingUnchecked(a, task, state) ==
  {sub \in Grounding(a) : \A i \in 1..Len(a.params) : sub[a.params[i]] = task.args[i]}

\* An equality binds a variable to its other side, whatever that is.
BoundByEquality(a) == UNION {Elems(l.args) : l \in {e \in a.precs : e.pos /\ e.pred = "="}}

\* The substitutions that bind the parameters of a to the arguments of task,
\* any other variable to a constant of the state, and satisfy a's preconditions.
Satisfying(a, task, state) ==
  {sub \in Grounding(a) :
     /\ \A i \in 1..Len(a.params) : sub[a.params[i]] = task.args[i]
     /\ \A v \in BoundVariables(a) \ (Elems(a.params) \cup BoundByEquality(a)) :
          sub[v] \in ConstantsOf(state)
     /\ IsConsistent(a.precs, sub, state)}

OperatorInstances(o, task, state) == Satisfying(o, task, state)

MethodInstances(m, task, state) ==
  IF m.name = task.name THEN Satisfying(m, task, state) ELSE {}

SameOn(f, g, vars) == \A v \in vars : f[v] = g[v]
============================================================================
