-------------------------- MODULE HtnDomainProofs --------------------------
(***************************************************************************)
(* The lemmas that several components' proofs share.                       *)
(* First induction and recursion over the natural numbers, stated of sets  *)
(* and functions: a property is proved for every number by induction on    *)
(* the set of the numbers that have it, and a recursively defined function *)
(* is what its equation says once some function satisfies it.  Then what   *)
(* HtnDomain computes: instances ground arguments, effects and subtasks,   *)
(* and those that agree on the variables ground them alike.                *)
(* Then partial solutions: what ApplyOperator and ApplyMethod preserve,    *)
(* that every step keeps a decomposition in its order and a plan           *)
(* executable, and that the instances a search lists stand for all the     *)
(* legal steps.                                                            *)
(***************************************************************************)
EXTENDS HtnSolution, SequenceTheorems, WellFoundedInduction, FiniteSetTheorems, TLAPS

----------------------------------------------------------------------------
(* Induction and recursion                                                 *)

\* Every set of natural numbers that is not empty has a least element.
LEMMA Least ==
  ASSUME NEW S, S \subseteq Nat, S # {}
  PROVE  \E n \in S : \A m \in S : n <= m
<1>1. IsWellFoundedOn(OpToRel(<, Nat), Nat)
  BY NatLessThanWellFounded
<1>2. PICK x \in S : \A y \in S : ~ (<<y, x>> \in OpToRel(<, Nat))
  BY <1>1, WFMin
<1>3. \A y \in S : ~(y < x)
  BY <1>2 DEF OpToRel
<1> QED  BY <1>3

\* A set that holds 0, and with every number the next, holds them all.
LEMMA Induction ==
  ASSUME NEW S, 0 \in S, \A n \in Nat : n \in S => n + 1 \in S
  PROVE  Nat \subseteq S
<1> SUFFICES ASSUME Nat \ S # {} PROVE FALSE
  OBVIOUS
<1>1. PICK n \in Nat \ S : \A m \in Nat \ S : n <= m
  BY Least
<1>2. n # 0 /\ n - 1 \in Nat /\ n - 1 \in S
  BY <1>1
<1> QED  BY <1>2

\* The functions that start with init and whose values follow one another by step.
Iterations(T, init, n, step) ==
  {f \in [0..n -> T] : f[0] = init /\ \A k \in 1..n : f[k] = step[<<k, f[k - 1]>>]}

\* There is one: what is defined by recursion on 0..n is defined.
LEMMA Recursion ==
  ASSUME NEW T, NEW init \in T, NEW n \in Nat, NEW step \in [(1..n) \X T -> T]
  PROVE  Iterations(T, init, n, step) # {}
<1> SUFFICES \E f \in [0..n -> T] : f[0] = init /\ \A k \in 1..n : f[k] = step[<<k, f[k - 1]>>]
  BY DEF Iterations
<1> DEFINE Run(m, f) == f[0] = init /\ \A k \in 1..m : f[k] = step[<<k, f[k - 1]>>]
           S == {m \in Nat : m <= n => \E f \in [0..m -> T] : Run(m, f)}
<1>1. 0 \in S
  <2>1. [k \in 0..0 |-> init] \in [0..0 -> T] /\ Run(0, [k \in 0..0 |-> init])
    OBVIOUS
  <2> QED  BY <2>1
<1>2. ASSUME NEW m \in Nat, m \in S
      PROVE  m + 1 \in S
  <2> SUFFICES ASSUME m + 1 <= n PROVE \E g \in [0..(m + 1) -> T] : Run(m + 1, g)
    OBVIOUS
  <2>1. PICK f \in [0..m -> T] : Run(m, f)
    BY <1>2
  <2> DEFINE next == step[<<m + 1, f[m]>>]
             g == [k \in 0..(m + 1) |-> IF k = m + 1 THEN next ELSE f[k]]
  <2>2. next \in T /\ m \in 0..m
    OBVIOUS
  <2> HIDE DEF next
  <2>3. g \in [0..(m + 1) -> T]
    BY <2>2
  <2>4. g[0] = init
    BY <2>1
  <2>5. \A k \in 0..m : g[k] = f[k]
    OBVIOUS
  <2>6. g[m + 1] = next
    OBVIOUS
  <2> HIDE DEF g
  <2>7. ASSUME NEW k \in 1..(m + 1)
        PROVE  g[k] = step[<<k, g[k - 1]>>]
    <3>1. g[k - 1] = f[k - 1]
      BY <2>5
    <3>2. CASE k = m + 1
      BY <2>6, <3>1, <3>2 DEF next
    <3>3. CASE k # m + 1
      BY <2>1, <2>5, <3>1, <3>3
    <3> QED  BY <3>2, <3>3
  <2>8. Run(m + 1, g)
    BY <2>4, <2>7
  <2> QED  BY <2>3, <2>8
<1> HIDE DEF S
<1>3. Nat \subseteq S
  BY <1>1, <1>2, Induction
<1> QED  BY <1>3 DEF S

\* Two of them agree as far as the shorter one goes.
LEMMA RecursionUnique ==
  ASSUME NEW T, NEW init, NEW n \in Nat, NEW m \in 0..n, NEW step,
         NEW f \in Iterations(T, init, n, step), NEW g \in Iterations(T, init, m, step)
  PROVE  f[m] = g[m]
<1> DEFINE S == {k \in Nat : k <= m => f[k] = g[k]}
<1>1. /\ f[0] = init /\ \A k \in 1..n : f[k] = step[<<k, f[k - 1]>>]
      /\ g[0] = init /\ \A k \in 1..m : g[k] = step[<<k, g[k - 1]>>]
  BY DEF Iterations
<1>2. 0 \in S
  BY <1>1
<1>3. ASSUME NEW k \in Nat, k \in S
      PROVE  k + 1 \in S
  <2> SUFFICES ASSUME k + 1 <= m
               PROVE  f[k + 1] = g[k + 1]
    OBVIOUS
  <2>1. f[k] = g[k] /\ k + 1 \in 1..n /\ k + 1 \in 1..m /\ k + 1 - 1 = k
    BY <1>3
  <2>2. f[k + 1] = step[<<k + 1, f[k]>>]
    BY <1>1, <2>1
  <2>3. g[k + 1] = step[<<k + 1, g[k]>>]
    BY <1>1, <2>1
  <2> QED  BY <2>1, <2>2, <2>3
<1> HIDE DEF S
<1>4. Nat \subseteq S
  BY <1>2, <1>3, Induction
<1>5. m \in S
  BY <1>4
<1> QED  BY <1>5 DEF S

\* Recursion without an end.
EndlessIterations(T, init, step) ==
  {f \in [Nat -> T] : f[0] = init /\ \A k \in Nat : f[k + 1] = step[<<k + 1, f[k]>>]}

LEMMA EndlessRecursion ==
  ASSUME NEW T, NEW init \in T, NEW step \in [Nat \X T -> T]
  PROVE  EndlessIterations(T, init, step) # {}
<1> SUFFICES \E f \in [Nat -> T] : f[0] = init /\ \A k \in Nat : f[k + 1] = step[<<k + 1, f[k]>>]
  BY DEF EndlessIterations
<1> DEFINE part(n) == [p \in (1..n) \X T |-> step[p]]
           run(n)  == CHOOSE g : g \in Iterations(T, init, n, part(n))
           f       == [n \in Nat |-> run(n)[n]]
<1>1. ASSUME NEW n \in Nat
      PROVE  run(n) \in Iterations(T, init, n, part(n))
  <2>1. part(n) \in [(1..n) \X T -> T]
    OBVIOUS
  <2> HIDE DEF part
  <2>2. Iterations(T, init, n, part(n)) # {}
    BY <2>1, Recursion
  <2>3. \E g : g \in Iterations(T, init, n, part(n))
    BY <2>2
  <2> QED  BY <2>3, Zenon
<1> HIDE DEF run
<1>2. ASSUME NEW n \in Nat
      PROVE  /\ run(n) \in [0..n -> T] /\ run(n)[0] = init
             /\ \A k \in 1..n : run(n)[k] = step[<<k, run(n)[k - 1]>>]
  <2>1. /\ run(n) \in [0..n -> T] /\ run(n)[0] = init
        /\ \A k \in 1..n : run(n)[k] = part(n)[<<k, run(n)[k - 1]>>]
    <3> HIDE DEF part
    <3> QED  BY <1>1 DEF Iterations
  <2>2. ASSUME NEW k \in 1..n
        PROVE  run(n)[k] = step[<<k, run(n)[k - 1]>>]
    <3>1. k - 1 \in 0..n
      OBVIOUS
    <3>2. <<k, run(n)[k - 1]>> \in (1..n) \X T
      BY <2>1, <3>1
    <3> QED  BY <2>1, <3>2
  <2> QED  BY <2>1, <2>2
<1>3. f \in [Nat -> T]
  <2>1. ASSUME NEW n \in Nat
        PROVE  run(n)[n] \in T
    <3>1. n \in 0..n /\ run(n) \in [0..n -> T]
      BY <1>2
    <3> QED  BY <3>1
  <2> QED  BY <2>1
<1>4. f[0] = init
  BY <1>2
<1>5. ASSUME NEW k \in Nat
      PROVE  f[k + 1] = step[<<k + 1, f[k]>>]
  <2>1. k + 1 \in Nat /\ k + 1 \in 1..(k + 1) /\ k + 1 - 1 = k /\ k \in 0..(k + 1)
    OBVIOUS
  <2>2. f[k + 1] = step[<<k + 1, run(k + 1)[k]>>]
    BY <1>2, <2>1
  <2>3. run(k + 1)[k] = run(k)[k]
    <3> DEFINE g == [j \in 0..k |-> run(k + 1)[j]]
    <3>1. g \in Iterations(T, init, k, part(k))
      <4>1. \A j \in 0..k : j \in 0..(k + 1)
        BY <2>1
      <4>2. run(k + 1) \in [0..(k + 1) -> T] /\ run(k + 1)[0] = init
        BY <1>2, <2>1
      <4>3. g \in [0..k -> T] /\ g[0] = init
        BY <4>1, <4>2
      <4>4. ASSUME NEW j \in 1..k
            PROVE  g[j] = part(k)[<<j, g[j - 1]>>]
        <5>1. j \in 1..(k + 1) /\ j \in 0..k /\ j - 1 \in 0..k
          BY <2>1
        <5>2. run(k + 1)[j] = step[<<j, run(k + 1)[j - 1]>>]
          BY <1>2, <2>1, <5>1
        <5>3. g[j] = run(k + 1)[j] /\ g[j - 1] = run(k + 1)[j - 1] /\ g[j - 1] \in T
          BY <4>3, <5>1
        <5>4. <<j, g[j - 1]>> \in (1..k) \X T
          BY <5>3
        <5>5. part(k)[<<j, g[j - 1]>>] = step[<<j, g[j - 1]>>]
          <6> HIDE DEF g
          <6> QED  BY <5>4
        <5> HIDE DEF part, g
        <5> QED  BY <5>2, <5>3, <5>5
      <4> HIDE DEF g, part
      <4> QED  BY <4>3, <4>4 DEF Iterations
    <3>2. k \in 0..k
      OBVIOUS
    <3>3. g[k] = run(k)[k]
      <4> HIDE DEF g, part
      <4> QED  BY <1>1, <3>1, <3>2, RecursionUnique
    <3> QED  BY <3>2, <3>3
  <2> QED  BY <2>2, <2>3
<1> QED  BY <1>3, <1>4, <1>5

----------------------------------------------------------------------------
(* Grounding                                                               *)

LEMMA ElemsType ==
  ASSUME NEW S, NEW s \in Seq(S)
  PROVE  Elems(s) \in SUBSET S /\ \A i \in 1..Len(s) : s[i] \in S /\ s[i] \in Elems(s)
<1> QED  BY DEF Elems

\* What a function makes of a finite set is finite, and has no more elements.
LEMMA FiniteImage ==
  ASSUME NEW S, IsFiniteSet(S), NEW T, NEW f \in [S -> T], T = {f[x] : x \in S}
  PROVE  IsFiniteSet(T) /\ Cardinality(T) <= Cardinality(S)
<1>1. f \in Surjection(S, T)
  BY DEF Surjection
<1> QED  BY <1>1, FS_Surjection

LEMMA ElemsFinite ==
  ASSUME NEW S, NEW s \in Seq(S)
  PROVE  IsFiniteSet(Elems(s))
<1> DEFINE f == [i \in 1..Len(s) |-> s[i]]
<1>1. IsFiniteSet(1..Len(s))
  BY FS_Interval
<1>2. f \in [1..Len(s) -> Elems(s)] /\ Elems(s) = {f[i] : i \in 1..Len(s)}
  BY DEF Elems
<1> HIDE DEF f
<1> QED  BY <1>1, <1>2, FiniteImage

\* The substitutions of finitely many variables by finitely many objects.
LEMMA FinitelyMany ==
  ASSUME NEW V, IsFiniteSet(V)
  PROVE  IsFiniteSet([V -> Object])
<1> DEFINE graph == [f \in [V -> Object] |-> {<<v, f[v]>> : v \in V}]
           T     == SUBSET (V \X Object)
<1>1. IsFiniteSet(T)
  <2>1. IsFiniteSet(V) /\ IsFiniteSet(Object)
    BY DomainAssumption
  <2>2. IsFiniteSet(V \X Object)
    BY <2>1, FS_Product
  <2> QED  BY <2>2, FS_SUBSET
<1>2. graph \in [[V -> Object] -> T]
  OBVIOUS
<1>3. ASSUME NEW f \in [V -> Object], NEW g \in [V -> Object], graph[f] = graph[g]
      PROVE  f = g
  <2>1. ASSUME NEW v \in V
        PROVE  f[v] = g[v]
    <3>1. <<v, f[v]>> \in graph[g]
      BY <1>3
    <3>2. PICK w \in V : <<v, f[v]>> = <<w, g[w]>>
      BY <3>1
    <3> QED  BY <3>2
  <2> QED  BY <2>1
<1>4. graph \in Injection([V -> Object], T)
  <2> HIDE DEF T
  <2>1. IsInjective(graph)
    BY <1>3 DEF IsInjective
  <2> HIDE DEF graph
  <2> QED  BY <1>2, <2>1 DEF Injection
<1> HIDE DEF graph, T
<1> QED  BY <1>1, <1>4, FS_Injection

LEMMA VariablesFinite ==
  ASSUME NEW form \in SUBSET Literal, IsFiniteSet(form)
  PROVE  IsFiniteSet(VariablesOf(form))
<1> DEFINE of == {Elems(l.args) : l \in form}
           f  == [l \in form |-> Elems(l.args)]
<1>1. IsFiniteSet(of)
  <2>1. f \in [form -> of] /\ of = {f[l] : l \in form}
    OBVIOUS
  <2> HIDE DEF f, of
  <2> QED  BY <2>1, FiniteImage
<1>2. \A l \in form : IsFiniteSet(Elems(l.args))
  BY ElemsFinite DEF Literal
<1>3. IsFiniteSet(UNION of)
  BY <1>1, <1>2, FS_UNION
<1> QED  BY <1>3, FS_Subset DEF VariablesOf

\* A substitution for all the variables of a list of arguments grounds it.
LEMMA GroundArguments ==
  ASSUME NEW args \in Seq(Term), NEW vars \in SUBSET Variable, NEW sub \in [vars -> Object],
         Elems(args) \cap Variable \subseteq vars
  PROVE  AfterSubstitution(args, sub) \in Seq(Object) /\ Len(AfterSubstitution(args, sub)) = Len(args)
<1>1. ASSUME NEW i \in 1..Len(args)
      PROVE  Substituted(args[i], sub) \in Object
  <2>1. args[i] \in Object \cup Variable /\ args[i] \in Elems(args)
    BY ElemsType DEF Term
  <2>2. CASE args[i] \in vars
    BY <2>2 DEF Substituted
  <2>3. CASE args[i] \notin vars
    BY <2>1, <2>3 DEF Substituted
  <2> QED  BY <2>2, <2>3
<1>2. Len(args) \in Nat
  OBVIOUS
<1> QED  BY <1>1, <1>2 DEF AfterSubstitution

LEMMA VariablesOfFormula ==
  ASSUME NEW form
  PROVE  VariablesOf(form) \subseteq Variable
         /\ \A l \in form : Elems(l.args) \cap Variable \subseteq VariablesOf(form)
<1>1. ASSUME NEW l \in form, NEW v \in Elems(l.args), v \in Variable
      PROVE  v \in VariablesOf(form)
  BY <1>1 DEF VariablesOf
<1>2. VariablesOf(form) \subseteq Variable
  BY DEF VariablesOf
<1> QED  BY <1>1, <1>2

LEMMA OperatorFacts ==
  ASSUME NEW o \in 1..Len(Operators)
  PROVE  /\ Operators[o] \in OperatorType
         /\ Len(Operators[o].params) = Arity[Operators[o].name]
         /\ BoundVariables(Operators[o]) \in SUBSET Variable
         /\ IsFiniteSet(BoundVariables(Operators[o]))
         /\ VariablesOf(Operators[o].effects) \subseteq BoundVariables(Operators[o])
         /\ \A l \in Operators[o].effects : l \in Literal /\ l.pred # "="
<1>1. Operators[o] \in OperatorType
  BY DomainAssumption
<1>2. Operators[o].params \in Seq(Variable) /\ Operators[o].precs \in SUBSET Literal /\ \A l \in Operators[o].effects : l \in Literal
  BY <1>1 DEF OperatorType
<1>3. BoundVariables(Operators[o]) \in SUBSET Variable
  <2>1. Elems(Operators[o].params) \in SUBSET Variable
    BY <1>2, ElemsType
  <2> QED  BY <2>1, VariablesOfFormula DEF BoundVariables
<1>4. IsFiniteSet(BoundVariables(Operators[o]))
  <2>1. IsFiniteSet(Elems(Operators[o].params)) /\ IsFiniteSet(VariablesOf(Operators[o].precs))
    BY <1>2, ElemsFinite, VariablesFinite, DomainAssumption
  <2> QED  BY <2>1, FS_Union DEF BoundVariables
<1> QED  BY <1>1, <1>2, <1>3, <1>4, DomainAssumption

LEMMA MethodFacts ==
  ASSUME NEW m \in 1..Len(Methods)
  PROVE  /\ Methods[m] \in MethodType
         /\ Len(Methods[m].params) = Arity[Methods[m].name]
         /\ BoundVariables(Methods[m]) \in SUBSET Variable
         /\ IsFiniteSet(BoundVariables(Methods[m]))
         /\ RelevantVariables(Methods[m]) \subseteq BoundVariables(Methods[m])
         /\ Methods[m].subtasks \in Seq(TaskHead)
<1>1. Methods[m] \in MethodType
  BY DomainAssumption
<1>2. /\ Methods[m].params \in Seq(Variable) /\ Methods[m].subtasks \in Seq(TaskHead)
      /\ Methods[m].precs \in SUBSET Literal
  BY <1>1 DEF MethodType
<1>3. BoundVariables(Methods[m]) \in SUBSET Variable
  <2>1. Elems(Methods[m].params) \in SUBSET Variable
    BY <1>2, ElemsType
  <2> QED  BY <2>1, VariablesOfFormula DEF BoundVariables
<1>4. IsFiniteSet(BoundVariables(Methods[m]))
  <2>1. IsFiniteSet(Elems(Methods[m].params)) /\ IsFiniteSet(VariablesOf(Methods[m].precs))
    BY <1>2, ElemsFinite, VariablesFinite, DomainAssumption
  <2> QED  BY <2>1, FS_Union DEF BoundVariables
<1> QED  BY <1>1, <1>2, <1>3, <1>4, DomainAssumption

\* The effects of an instance of an operator are ground: the next state is one.
LEMMA NextStateType ==
  ASSUME NEW o \in 1..Len(Operators), NEW sub \in Grounding(Operators[o]), NEW state \in SUBSET Atom
  PROVE  NextState(Operators[o], sub, state) \in SUBSET Atom
<1>1. ASSUME NEW l \in Operators[o].effects
      PROVE  AtomAfter(l, sub) \in Atom
  <2>1. l \in Literal /\ l.pred # "="
    BY OperatorFacts
  <2>2. l.pred \in Predicate /\ l.args \in Seq(Term)
    BY <2>1 DEF Literal
  <2>3. Elems(l.args) \cap Variable \subseteq BoundVariables(Operators[o])
    BY OperatorFacts, VariablesOfFormula
  <2>4. AfterSubstitution(l.args, sub) \in Seq(Object)
    BY <2>2, <2>3, OperatorFacts, GroundArguments DEF Grounding
  <2> QED  BY <2>2, <2>4 DEF AtomAfter, Atom
<1> QED  BY <1>1 DEF NextState

\* The subtasks of an instance of a method are ground tasks.
LEMMA SubtaskType ==
  ASSUME NEW m \in 1..Len(Methods), NEW sub \in Grounding(Methods[m]),
         NEW i \in 1..Len(Methods[m].subtasks)
  PROVE  TaskAfter(Methods[m].subtasks[i], sub) \in Task
<1> DEFINE h == Methods[m].subtasks[i]
<1>1. h \in TaskHead
  BY MethodFacts
<1>2. h.name \in TaskName /\ h.args \in Seq(Term) /\ Len(h.args) = Arity[h.name]
  BY <1>1 DEF TaskHead, WithArity
<1>3. Elems(h.args) \cap Variable \subseteq BoundVariables(Methods[m])
  <2> SUFFICES ASSUME NEW v \in Elems(h.args), v \in Variable
               PROVE  v \in RelevantVariables(Methods[m])
    BY MethodFacts
  <2>1. v \in UNION {Elems(Methods[m].subtasks[k].args) : k \in 1..Len(Methods[m].subtasks)}
    OBVIOUS
  <2> QED  BY <2>1 DEF RelevantVariables
<1> HIDE DEF h
<1>4. AfterSubstitution(h.args, sub) \in Seq(Object) /\ Len(AfterSubstitution(h.args, sub)) = Len(h.args)
  BY <1>2, <1>3, MethodFacts, GroundArguments DEF Grounding
<1>5. TaskAfter(h, sub) \in Task
  BY <1>2, <1>4 DEF TaskAfter, Task, WithArity
<1> QED  BY <1>5 DEF h

\* Two substitutions that agree on the variables of some arguments ground them
\* alike.
LEMMA SameArguments ==
  ASSUME NEW args \in Seq(Term), NEW vars \in SUBSET Variable, NEW f \in [vars -> Object], NEW g \in [vars -> Object],
         NEW rel, Elems(args) \cap Variable \subseteq rel, SameOn(f, g, rel)
  PROVE  AfterSubstitution(args, f) = AfterSubstitution(args, g)
<1>1. ASSUME NEW i \in 1..Len(args)
      PROVE  Substituted(args[i], f) = Substituted(args[i], g)
  <2>1. args[i] \in Elems(args)
    BY ElemsType
  <2>2. CASE args[i] \in vars
    <3>1. args[i] \in rel
      BY <2>1, <2>2
    <3> QED  BY <2>2, <3>1 DEF Substituted, SameOn
  <2>3. CASE args[i] \notin vars
    BY <2>3 DEF Substituted
  <2> QED  BY <2>2, <2>3
<1> QED  BY <1>1 DEF AfterSubstitution

\* Instances of an operator that agree on the variables of its effects have the
\* same effects.
LEMMA SameEffects ==
  ASSUME NEW o, \A l \in o.effects : l \in Literal, NEW vars \in SUBSET Variable,
         NEW f \in [vars -> Object], NEW g \in [vars -> Object],
         NEW rel, VariablesOf(o.effects) \subseteq rel, SameOn(f, g, rel), NEW state
  PROVE  NextState(o, f, state) = NextState(o, g, state)
<1>1. ASSUME NEW l \in o.effects
      PROVE  AtomAfter(l, f) = AtomAfter(l, g)
  <2>1. l.args \in Seq(Term)
    BY DEF Literal
  <2>2. Elems(l.args) \cap Variable \subseteq rel
    BY VariablesOfFormula
  <2>3. AfterSubstitution(l.args, f) = AfterSubstitution(l.args, g)
    BY <2>1, <2>2, SameArguments
  <2> QED  BY <2>3 DEF AtomAfter
<1> QED  BY <1>1 DEF NextState

\* Whatever is executed, the atoms of a state are made of terms.
AnyAtom == [pred : Predicate \cup {"="}, args : Seq(Term)]

LEMMA NextStateOfAtoms ==
  ASSUME NEW o, \A l \in o.effects : l \in Literal, NEW vars \in SUBSET Variable, NEW sub \in [vars -> Object],
         NEW state \in SUBSET AnyAtom
  PROVE  NextState(o, sub, state) \in SUBSET AnyAtom
<1>1. ASSUME NEW l \in o.effects
      PROVE  AtomAfter(l, sub) \in AnyAtom
  <2>1. l.pred \in Predicate \cup {"="} /\ l.args \in Seq(Term)
    BY DEF Literal
  <2>2. ASSUME NEW i \in 1..Len(l.args)
        PROVE  Substituted(l.args[i], sub) \in Term
    <3>1. l.args[i] \in Term
      BY <2>1
    <3> QED  BY <3>1 DEF Substituted, Term
  <2>3. AfterSubstitution(l.args, sub) \in Seq(Term)
    BY <2>1, <2>2 DEF AfterSubstitution
  <2> QED  BY <2>1, <2>3 DEF AtomAfter, AnyAtom
<1> QED  BY <1>1 DEF NextState

----------------------------------------------------------------------------
(* Instances                                                               *)

\* An instance of an operator or a method has the task as its head.
LEMMA HeadOfInstance ==
  ASSUME NEW a, NEW task \in Task, NEW state, NEW sub \in Satisfying(a, task, state),
         a.params \in Seq(Variable), Len(a.params) = Arity[a.name], a.name = task.name,
         Elems(a.params) \subseteq BoundVariables(a)
  PROVE  HeadAfter(a, sub) = task
<1>1. task.args \in Seq(Object) /\ Len(task.args) = Len(a.params) /\ task = [name |-> task.name, args |-> task.args]
  BY DEF Task, WithArity
<1>2. sub \in [BoundVariables(a) -> Object] /\ \A i \in 1..Len(a.params) : sub[a.params[i]] = task.args[i]
  BY DEF Satisfying, Grounding
<1>3. \A i \in 1..Len(a.params) : Substituted(a.params[i], sub) = task.args[i]
  BY <1>2, ElemsType DEF Substituted
<1>4. AfterSubstitution(a.params, sub) = task.args
  BY <1>1, <1>3 DEF AfterSubstitution
<1> QED  BY <1>1, <1>4 DEF HeadAfter, TaskAfter

----------------------------------------------------------------------------
(* The operations of a partial solution                                    *)

LEMMA BackwardsType ==
  ASSUME NEW S, NEW s \in Seq(S)
  PROVE  /\ Backwards(s) \in Seq(S) /\ Len(Backwards(s)) = Len(s)
         /\ \A i \in 1..Len(s) : Backwards(s)[i] = s[Len(s) + 1 - i]
<1>1. Len(s) \in Nat /\ \A i \in 1..Len(s) : Len(s) + 1 - i \in 1..Len(s)
  OBVIOUS
<1>2. \A i \in 1..Len(s) : s[Len(s) + 1 - i] \in S
  BY <1>1
<1> QED  BY <1>1, <1>2 DEF Backwards

LEMMA PoppedType ==
  ASSUME NEW S, NEW s \in Seq(S), s # <<>>
  PROVE  /\ Popped(s) \in Seq(S) /\ Len(Popped(s)) = Len(s) - 1
         /\ \A i \in 1..(Len(s) - 1) : Popped(s)[i] = s[i]
         /\ Len(s) \in Nat \ {0} /\ s[Len(s)] \in S
<1>1. Len(s) \in Nat \ {0}
  OBVIOUS
<1>2. PICK n \in Nat : n = Len(s) - 1
  BY <1>1
<1>3. SubSeq(s, 1, n) \in Seq(S) /\ Len(SubSeq(s, 1, n)) = n /\ \A i \in 1..n : SubSeq(s, 1, n)[i] = s[i]
  <2>1. \A i \in 1..n : s[i] \in S
    BY <1>1, <1>2
  <2>2. /\ SubSeq(s, 1, n) \in Seq(S)
        /\ Len(SubSeq(s, 1, n)) = IF 1 <= n THEN n - 1 + 1 ELSE 0
        /\ \A i \in 1..(n - 1 + 1) : SubSeq(s, 1, n)[i] = s[1 + i - 1]
    BY <2>1, SubSeqProperties
  <2> QED  BY <2>2
<1>4. s[Len(s)] \in S
  BY <1>1
<1> QED  BY <1>1, <1>2, <1>3, <1>4 DEF Popped

LEMMA SolutionFields ==
  ASSUME NEW sol \in SolutionType
  PROVE  /\ sol.state \in SUBSET Atom /\ sol.tasks \in Seq(Task) /\ sol.parents \in Seq(Nat)
         /\ sol.tree \in Seq(NodeType) /\ sol.plan \in Seq(ActionType) /\ sol.numDecomps \in Nat
<1> QED  BY DEF SolutionType

LEMMA FromProblemType == FromProblem \in SolutionType
<1>1. Backwards(InitTasks) \in Seq(Task)
  BY ProblemAssumption, BackwardsType
<1>2. [i \in 1..Len(InitTasks) |-> 0] \in Seq(Nat)
  BY ProblemAssumption
<1> QED  BY <1>1, <1>2, ProblemAssumption DEF FromProblem, SolutionType

LEMMA FromProblemWellFormed == WellFormed(FromProblem)
<1>1. /\ Len(FromProblem.parents) = Len(InitTasks) /\ Len(FromProblem.tasks) = Len(InitTasks)
      /\ \A i \in 1..Len(InitTasks) : FromProblem.parents[i] = 0
  BY ProblemAssumption, BackwardsType DEF FromProblem
<1>2. Len(FromProblem.tree) = 0 /\ Len(FromProblem.plan) = 0 /\ FromProblem.numDecomps = 0
  BY DEF FromProblem
<1> QED  BY <1>1, <1>2 DEF WellFormed

LEMMA GroundingIsSubstitution ==
  ASSUME NEW a, BoundVariables(a) \in SUBSET Variable, NEW sub \in Grounding(a)
  PROVE  sub \in SubstitutionType
<1> QED  BY DEF Grounding, SubstitutionType

\* The next task of a partial solution and the node it came from.
LEMMA NextTask ==
  ASSUME NEW sol \in SolutionType, WellFormed(sol), ~IsComplete(sol)
  PROVE  /\ Len(sol.tasks) \in Nat \ {0} /\ Len(sol.parents) = Len(sol.tasks)
         /\ TopTask(sol) \in Task /\ sol.parents[Len(sol.parents)] \in Nat
         /\ Popped(sol.tasks) \in Seq(Task) /\ Len(Popped(sol.tasks)) = Len(sol.tasks) - 1
         /\ Popped(sol.parents) \in Seq(Nat) /\ Len(Popped(sol.parents)) = Len(sol.tasks) - 1
         /\ \A i \in 1..(Len(sol.tasks) - 1) : Popped(sol.parents)[i] = sol.parents[i]
<1>1. sol.tasks \in Seq(Task) /\ sol.tasks # <<>> /\ sol.parents \in Seq(Nat)
  BY SolutionFields DEF IsComplete
<1>2. Len(sol.parents) = Len(sol.tasks)
  BY DEF WellFormed
<1>3. Len(sol.tasks) \in Nat \ {0}
  BY <1>1, PoppedType
<1>4. sol.parents # <<>>
  BY <1>1, <1>2, <1>3
<1> QED  BY <1>1, <1>2, <1>3, <1>4, PoppedType DEF TopTask

\* The nodes the two operations add to the forest.
LEMMA ApplyOperatorNode ==
  ASSUME NEW sol \in SolutionType, WellFormed(sol), ~IsComplete(sol)
  PROVE  [task |-> TopTask(sol), id |-> "", oper |-> TRUE,
          parent |-> sol.parents[Len(sol.parents)]] \in NodeType
<1>1. TopTask(sol) \in Task /\ sol.parents[Len(sol.parents)] \in Nat
  BY NextTask
<1>2. "" \in NodeIds /\ TRUE \in BOOLEAN
  BY DEF NodeIds
<1> QED  BY <1>1, <1>2, Zenon DEF NodeType

LEMMA ApplyMethodNode ==
  ASSUME NEW sol \in SolutionType, WellFormed(sol), ~IsComplete(sol), NEW m \in 1..Len(Methods)
  PROVE  [task |-> TopTask(sol), id |-> Methods[m].id, oper |-> FALSE,
          parent |-> sol.parents[Len(sol.parents)]] \in NodeType
<1>1. TopTask(sol) \in Task /\ sol.parents[Len(sol.parents)] \in Nat
  BY NextTask
<1>2. Methods[m].id \in NodeIds /\ FALSE \in BOOLEAN
  BY DEF NodeIds
<1> QED  BY <1>1, <1>2, Zenon DEF NodeType

LEMMA ApplyOperatorType ==
  ASSUME NEW sol \in SolutionType, WellFormed(sol), ~IsComplete(sol),
         NEW o \in 1..Len(Operators), NEW sub \in Grounding(Operators[o])
  PROVE  ApplyOperator(sol, o, sub) \in SolutionType
<1>1. NextState(Operators[o], sub, sol.state) \in SUBSET Atom
  BY SolutionFields, NextStateType
<1>3. Append(sol.tree, [task |-> TopTask(sol), id |-> "", oper |-> TRUE,
                        parent |-> sol.parents[Len(sol.parents)]]) \in Seq(NodeType)
  BY ApplyOperatorNode, SolutionFields, AppendProperties
<1>4. [oper |-> o, sub |-> sub] \in ActionType
  BY OperatorFacts, GroundingIsSubstitution DEF ActionType
<1>5. Append(sol.plan, [oper |-> o, sub |-> sub]) \in Seq(ActionType)
  BY <1>4, SolutionFields, AppendProperties
<1>6. Popped(sol.tasks) \in Seq(Task) /\ Popped(sol.parents) \in Seq(Nat) /\ sol.numDecomps \in Nat
  BY NextTask, SolutionFields
<1> QED  BY <1>1, <1>3, <1>5, <1>6 DEF ApplyOperator, SolutionType

LEMMA PushedTasksType ==
  ASSUME NEW m \in 1..Len(Methods), NEW sub \in Grounding(Methods[m])
  PROVE  /\ PushedTasks(m, sub) \in Seq(Task)
         /\ Len(PushedTasks(m, sub)) = Len(Methods[m].subtasks) /\ Len(Methods[m].subtasks) \in Nat
<1> DEFINE n == Len(Methods[m].subtasks)
           inOrder == [i \in 1..n |-> TaskAfter(Methods[m].subtasks[i], sub)]
<1>1. n \in Nat
  BY MethodFacts
<1>2. \A i \in 1..n : TaskAfter(Methods[m].subtasks[i], sub) \in Task
  BY SubtaskType
<1> HIDE DEF n
<1>3. inOrder \in Seq(Task) /\ Len(inOrder) = n
  BY <1>1, <1>2
<1>4. Backwards(inOrder) \in Seq(Task) /\ Len(Backwards(inOrder)) = n
  BY <1>3, BackwardsType
<1> QED  BY <1>1, <1>4 DEF PushedTasks, n

LEMMA ApplyMethodType ==
  ASSUME NEW sol \in SolutionType, WellFormed(sol), ~IsComplete(sol),
         NEW m \in 1..Len(Methods), NEW sub \in Grounding(Methods[m])
  PROVE  ApplyMethod(sol, m, sub) \in SolutionType
<1>3. Append(sol.tree, [task |-> TopTask(sol), id |-> Methods[m].id, oper |-> FALSE,
                        parent |-> sol.parents[Len(sol.parents)]]) \in Seq(NodeType)
  BY ApplyMethodNode, SolutionFields, AppendProperties
<1>4. Popped(sol.tasks) \o PushedTasks(m, sub) \in Seq(Task)
  BY NextTask, PushedTasksType, ConcatProperties
<1>5. Popped(sol.parents) \o [i \in 1..Len(Methods[m].subtasks) |-> Len(sol.tree) + 1] \in Seq(Nat)
  <2>1. Len(sol.tree) + 1 \in Nat /\ Len(Methods[m].subtasks) \in Nat
    BY SolutionFields, PushedTasksType
  <2>2. [i \in 1..Len(Methods[m].subtasks) |-> Len(sol.tree) + 1] \in Seq(Nat)
    BY <2>1
  <2> QED  BY <2>2, NextTask, ConcatProperties
<1>6. sol.numDecomps + 1 \in Nat /\ sol.state \in SUBSET Atom /\ sol.plan \in Seq(ActionType)
  BY SolutionFields
<1> QED  BY <1>3, <1>4, <1>5, <1>6 DEF ApplyMethod, SolutionType

----------------------------------------------------------------------------
(* The shape of the agenda and the forest                                  *)

\* The forest tree is sol's with one more node.
Grown(sol, node, tree) ==
  /\ Len(tree) = Len(sol.tree) + 1 /\ tree[Len(tree)] = node /\ Len(sol.tree) \in Nat
  /\ \A i \in 1..Len(sol.parents) :
       /\ sol.parents[i] \in Nat /\ sol.parents[i] <= Len(sol.tree)
       /\ sol.parents[i] # 0 => ~tree[sol.parents[i]].oper
  /\ \A n \in 1..Len(tree) :
       /\ tree[n].parent < n
       /\ tree[n].parent # 0 => ~tree[tree[n].parent].oper

\* A node attached where the next task came from keeps the forest in order.
LEMMA NodeAdded ==
  ASSUME NEW sol \in SolutionType, WellFormed(sol), ~IsComplete(sol),
         NEW node \in NodeType, node.parent = sol.parents[Len(sol.parents)],
         NEW tree, tree = Append(sol.tree, node)
  PROVE  Grown(sol, node, tree)
<1>1. /\ Len(tree) = Len(sol.tree) + 1 /\ tree[Len(tree)] = node /\ Len(sol.tree) \in Nat
      /\ \A i \in 1..Len(sol.tree) : tree[i] = sol.tree[i] /\ sol.tree[i] \in NodeType
  BY SolutionFields, AppendProperties
<1>2. ASSUME NEW i \in 1..Len(sol.parents)
      PROVE  /\ sol.parents[i] \in Nat /\ sol.parents[i] <= Len(sol.tree)
             /\ sol.parents[i] # 0 => ~tree[sol.parents[i]].oper
  <2>1. sol.parents[i] \in Nat
    BY SolutionFields
  <2>2. sol.parents[i] <= Len(sol.tree) /\ (sol.parents[i] # 0 => ~sol.tree[sol.parents[i]].oper)
    BY DEF WellFormed
  <2>3. sol.parents[i] # 0 => tree[sol.parents[i]] = sol.tree[sol.parents[i]]
    BY <1>1, <2>1, <2>2
  <2> QED  BY <2>1, <2>2, <2>3, Zenon
<1>3. ASSUME NEW n \in 1..Len(tree)
      PROVE  /\ tree[n].parent < n
             /\ tree[n].parent # 0 => ~tree[tree[n].parent].oper
  <2>1. CASE n = Len(tree)
    <3>1. Len(sol.parents) \in 1..Len(sol.parents)
      BY NextTask
    <3>2. tree[n].parent = sol.parents[Len(sol.parents)]
      BY <1>1, <2>1
    <3>3. sol.parents[Len(sol.parents)] < n
      BY <1>1, <1>2, <2>1, <3>1
    <3> QED  BY <1>2, <3>1, <3>2, <3>3, Zenon
  <2>2. CASE n # Len(tree)
    <3>1. n \in 1..Len(sol.tree) /\ tree[n] = sol.tree[n]
      BY <1>1, <2>2
    <3>2. sol.tree[n].parent < n /\ (sol.tree[n].parent # 0 => ~sol.tree[sol.tree[n].parent].oper)
      BY <3>1, Zenon DEF WellFormed
    <3>3. sol.tree[n].parent \in Nat
      BY <1>1, <3>1 DEF NodeType
    <3>4. sol.tree[n].parent # 0 => tree[sol.tree[n].parent] = sol.tree[sol.tree[n].parent]
      BY <1>1, <3>1, <3>2, <3>3
    <3> QED  BY <3>1, <3>2, <3>4, Zenon
  <2> QED  BY <2>1, <2>2
<1> QED  BY <1>1, <1>2, <1>3, Zenon DEF Grown

LEMMA ApplyOperatorWellFormed ==
  ASSUME NEW sol \in SolutionType, WellFormed(sol), ~IsComplete(sol),
         NEW o \in 1..Len(Operators), NEW sub \in Grounding(Operators[o])
  PROVE  WellFormed(ApplyOperator(sol, o, sub))
<1> DEFINE node == [task |-> TopTask(sol), id |-> "", oper |-> TRUE,
                    parent |-> sol.parents[Len(sol.parents)]]
           new  == ApplyOperator(sol, o, sub)
<1>1. node \in NodeType
  BY ApplyOperatorNode
<1>2. /\ new.tree = Append(sol.tree, node) /\ new.tasks = Popped(sol.tasks)
      /\ new.parents = Popped(sol.parents) /\ new.numDecomps = sol.numDecomps
      /\ new.plan = Append(sol.plan, [oper |-> o, sub |-> sub])
  BY DEF ApplyOperator
<1>3. node.parent = sol.parents[Len(sol.parents)]
  OBVIOUS
<1> HIDE DEF node, new
<1>4. /\ Len(new.tree) = Len(sol.tree) + 1 /\ Len(sol.tree) \in Nat
      /\ \A i \in 1..Len(sol.parents) :
           /\ sol.parents[i] \in Nat /\ sol.parents[i] <= Len(sol.tree)
           /\ sol.parents[i] # 0 => ~new.tree[sol.parents[i]].oper
      /\ \A n \in 1..Len(new.tree) :
           /\ new.tree[n].parent < n
           /\ new.tree[n].parent # 0 => ~new.tree[new.tree[n].parent].oper
  <2>1. Grown(sol, node, new.tree)
    BY <1>1, <1>2, <1>3, NodeAdded
  <2> QED  BY <2>1, Zenon DEF Grown
<1>5. /\ Len(sol.parents) \in Nat \ {0} /\ Len(new.parents) = Len(sol.parents) - 1
      /\ Len(new.tasks) = Len(new.parents)
      /\ \A i \in 1..Len(new.parents) : i \in 1..Len(sol.parents) /\ new.parents[i] = sol.parents[i]
  <2>1. /\ Len(sol.tasks) \in Nat \ {0} /\ Len(sol.parents) = Len(sol.tasks)
        /\ Len(Popped(sol.tasks)) = Len(sol.tasks) - 1
        /\ Len(Popped(sol.parents)) = Len(sol.tasks) - 1
        /\ \A i \in 1..(Len(sol.tasks) - 1) : Popped(sol.parents)[i] = sol.parents[i]
    BY NextTask, Zenon
  <2>2. /\ Len(new.parents) = Len(sol.tasks) - 1 /\ Len(new.tasks) = Len(sol.tasks) - 1
        /\ \A i \in 1..(Len(sol.tasks) - 1) : new.parents[i] = sol.parents[i]
    BY <1>2, <2>1, Zenon
  <2> QED  BY <2>1, <2>2
<1>6. \A i \in 1..Len(new.parents) :
           /\ new.parents[i] <= Len(new.tree)
           /\ new.parents[i] # 0 => ~new.tree[new.parents[i]].oper
  <2> TAKE i \in 1..Len(new.parents)
  <2>1. new.parents[i] <= Len(new.tree)
    <3>1. /\ new.parents[i] \in Nat /\ new.parents[i] <= Len(sol.tree)
          /\ Len(new.tree) = Len(sol.tree) + 1 /\ Len(sol.tree) \in Nat
      BY <1>4, <1>5, Zenon
    <3> QED  BY <3>1
  <2>2. new.parents[i] # 0 => ~new.tree[new.parents[i]].oper
    BY <1>4, <1>5, Zenon
  <2> QED  BY <2>1, <2>2
<1>7. \A i, j \in 1..Len(new.parents) : i <= j => new.parents[i] <= new.parents[j]
  <2>1. \A i, j \in 1..Len(sol.parents) : i <= j => sol.parents[i] <= sol.parents[j]
    BY Zenon DEF WellFormed
  <2> QED  BY <1>5, <2>1
<1>8. Len(new.tree) = Len(new.plan) + new.numDecomps
  <2>1. Len(sol.tree) = Len(sol.plan) + sol.numDecomps
    BY Zenon DEF WellFormed
  <2>2. Len(new.plan) = Len(sol.plan) + 1 /\ Len(sol.plan) \in Nat /\ sol.numDecomps \in Nat
    BY <1>2, SolutionFields, AppendProperties
  <2> QED  BY <1>2, <1>4, <2>1, <2>2
<1>9. WellFormed(new)
  BY <1>4, <1>5, <1>6, <1>7, <1>8, Zenon DEF WellFormed
<1> QED  BY <1>9 DEF new

LEMMA ApplyMethodWellFormed ==
  ASSUME NEW sol \in SolutionType, WellFormed(sol), ~IsComplete(sol),
         NEW m \in 1..Len(Methods), NEW sub \in Grounding(Methods[m])
  PROVE  WellFormed(ApplyMethod(sol, m, sub))
<1> DEFINE node == [task |-> TopTask(sol), id |-> Methods[m].id, oper |-> FALSE,
                    parent |-> sol.parents[Len(sol.parents)]]
           here == [i \in 1..Len(Methods[m].subtasks) |-> Len(sol.tree) + 1]
           new  == ApplyMethod(sol, m, sub)
           k    == Len(sol.parents) - 1
<1>1. node \in NodeType
  BY ApplyMethodNode
<1>2. /\ new.tree = Append(sol.tree, node) /\ new.tasks = Popped(sol.tasks) \o PushedTasks(m, sub)
      /\ new.parents = Popped(sol.parents) \o here /\ new.numDecomps = sol.numDecomps + 1
      /\ new.plan = sol.plan
  BY DEF ApplyMethod
<1>3. node.parent = sol.parents[Len(sol.parents)] /\ ~node.oper
  OBVIOUS
<1>4. /\ Len(sol.tree) \in Nat /\ Len(Methods[m].subtasks) \in Nat
      /\ here \in Seq(Nat) /\ Len(here) = Len(Methods[m].subtasks)
      /\ \A i \in 1..Len(here) : here[i] = Len(sol.tree) + 1
  <2>1. Len(sol.tree) + 1 \in Nat /\ Len(sol.tree) \in Nat /\ Len(Methods[m].subtasks) \in Nat
    BY SolutionFields, PushedTasksType
  <2> QED  BY <2>1
<1> HIDE DEF node, here, new
<1>5. /\ Len(new.tree) = Len(sol.tree) + 1 /\ new.tree[Len(new.tree)] = node
      /\ \A i \in 1..Len(sol.parents) :
           /\ sol.parents[i] \in Nat /\ sol.parents[i] <= Len(sol.tree)
           /\ sol.parents[i] # 0 => ~new.tree[sol.parents[i]].oper
      /\ \A n \in 1..Len(new.tree) :
           /\ new.tree[n].parent < n
           /\ new.tree[n].parent # 0 => ~new.tree[new.tree[n].parent].oper
  <2>1. Grown(sol, node, new.tree)
    BY <1>1, <1>2, <1>3, NodeAdded
  <2> QED  BY <2>1, Zenon DEF Grown
<1>6. /\ k \in Nat /\ Len(sol.parents) = Len(sol.tasks) /\ Len(sol.parents) \in Nat
      /\ Popped(sol.parents) \in Seq(Nat) /\ Len(Popped(sol.parents)) = k
      /\ Popped(sol.tasks) \in Seq(Task) /\ Len(Popped(sol.tasks)) = k
      /\ \A i \in 1..k : i \in 1..Len(sol.parents) /\ Popped(sol.parents)[i] = sol.parents[i]
  BY NextTask
<1>7. /\ Len(new.parents) = k + Len(here) /\ Len(new.parents) \in Nat
      /\ \A i \in 1..k : new.parents[i] = sol.parents[i]
      /\ \A i \in 1..Len(new.parents) : i > k => new.parents[i] = Len(sol.tree) + 1
  <2> DEFINE rest == Popped(sol.parents)
  <2>1. rest \in Seq(Nat) /\ here \in Seq(Nat) /\ Len(rest) = k
    BY <1>4, <1>6
  <2>2. \A i \in 1..k : rest[i] = sol.parents[i]
    BY <1>6
  <2> HIDE DEF rest
  <2>3. /\ Len(rest \o here) = Len(rest) + Len(here)
        /\ \A i \in 1..(Len(rest) + Len(here)) :
             (rest \o here)[i] = IF i <= Len(rest) THEN rest[i] ELSE here[i - Len(rest)]
    BY <2>1, ConcatProperties
  <2>4. new.parents = rest \o here
    BY <1>2 DEF rest
  <2>5. /\ Len(new.parents) = k + Len(here)
        /\ \A i \in 1..(k + Len(here)) :
             new.parents[i] = IF i <= k THEN rest[i] ELSE here[i - k]
    BY <2>1, <2>3, <2>4
  <2>6. k \in Nat /\ Len(here) \in Nat
    BY <1>4, <1>6
  <2> HIDE DEF k
  <2>7. \A i \in 1..k : new.parents[i] = sol.parents[i]
    BY <2>2, <2>5, <2>6
  <2>8. ASSUME NEW i \in 1..Len(new.parents), i > k
        PROVE  new.parents[i] = Len(sol.tree) + 1
    <3>1. i - k \in 1..Len(here) /\ new.parents[i] = here[i - k]
      BY <2>5, <2>6, <2>8
    <3> QED  BY <1>4, <3>1
  <2> QED  BY <2>5, <2>6, <2>7, <2>8
<1>8. Len(new.tasks) = k + Len(here)
  <2>1. /\ Popped(sol.tasks) \in Seq(Task) /\ PushedTasks(m, sub) \in Seq(Task)
        /\ Len(Popped(sol.tasks)) = k /\ Len(PushedTasks(m, sub)) = Len(here)
    BY <1>4, <1>6, PushedTasksType
  <2>2. Len(Popped(sol.tasks) \o PushedTasks(m, sub)) = Len(Popped(sol.tasks)) + Len(PushedTasks(m, sub))
    BY <2>1, ConcatProperties
  <2> QED  BY <1>2, <2>1, <2>2
<1> HIDE DEF k
<1>9. \A i \in 1..Len(new.parents) :
           /\ new.parents[i] <= Len(new.tree)
           /\ new.parents[i] # 0 => ~new.tree[new.parents[i]].oper
  <2> TAKE i \in 1..Len(new.parents)
  <2>1. CASE i > k
    <3>1. new.parents[i] = Len(new.tree) /\ new.parents[i] <= Len(new.tree)
      BY <1>4, <1>5, <1>7, <2>1
    <3> QED  BY <1>3, <1>5, <3>1, Zenon
  <2>2. CASE ~(i > k)
    <3>1. i \in 1..k
      BY <1>6, <1>7, <2>2
    <3>2. new.parents[i] = sol.parents[i] /\ i \in 1..Len(sol.parents)
      BY <1>6, <1>7, <3>1
    <3>3. new.parents[i] <= Len(new.tree)
      BY <1>4, <1>5, <3>2
    <3> QED  BY <1>5, <3>2, <3>3, Zenon
  <2> QED  BY <2>1, <2>2
<1>10. \A i, j \in 1..Len(new.parents) : i <= j => new.parents[i] <= new.parents[j]
  <2>1. \A i, j \in 1..Len(sol.parents) : i <= j => sol.parents[i] <= sol.parents[j]
    BY Zenon DEF WellFormed
  <2> TAKE i, j \in 1..Len(new.parents)
  <2> HAVE i <= j
  <2>2. CASE j > k
    <3>1. new.parents[j] = Len(new.tree) /\ Len(new.tree) \in Nat
      BY <1>4, <1>5, <1>7, <2>2
    <3> QED  BY <1>9, <3>1
  <2>3. CASE ~(j > k)
    <3>1. i \in 1..k /\ j \in 1..k
      BY <1>6, <1>7, <2>3
    <3>2. /\ i \in 1..Len(sol.parents) /\ new.parents[i] = sol.parents[i]
          /\ j \in 1..Len(sol.parents) /\ new.parents[j] = sol.parents[j]
      BY <1>6, <1>7, <3>1
    <3> QED  BY <2>1, <3>2
  <2> QED  BY <2>2, <2>3
<1>11. Len(new.tree) = Len(new.plan) + new.numDecomps
  <2>1. Len(sol.tree) = Len(sol.plan) + sol.numDecomps
    BY Zenon DEF WellFormed
  <2>2. Len(sol.plan) \in Nat /\ sol.numDecomps \in Nat
    BY SolutionFields
  <2>3. new.plan = sol.plan /\ new.numDecomps = sol.numDecomps + 1
    BY <1>2
  <2>4. Len(new.tree) = Len(sol.tree) + 1
    BY <1>5
  <2> QED  BY <2>1, <2>2, <2>3, <2>4
<1>12. WellFormed(new)
  <2>1. Len(new.parents) = Len(new.tasks)
    BY <1>7, <1>8
  <2> QED  BY <1>5, <1>9, <1>10, <1>11, <2>1, Zenon DEF WellFormed
<1> QED  BY <1>12 DEF new

----------------------------------------------------------------------------
(* Instances are legal steps                                               *)

\* The search throws E_OPER_NOT_APPLICABLE for no instance it lists itself.
LEMMA OperatorInstance ==
  ASSUME NEW sol \in SolutionType, WellFormed(sol), ~IsComplete(sol), NEW o \in 1..Len(Operators),
         Operators[o].name = TopTask(sol).name,
         NEW sub \in OperatorInstances(Operators[o], TopTask(sol), sol.state)
  PROVE  /\ sub \in Grounding(Operators[o]) /\ ~OperatorRefused(sol, o, sub)
         /\ ApplyOperator(sol, o, sub) \in Successors(sol)
<1>1. sub \in Satisfying(Operators[o], TopTask(sol), sol.state)
  BY DEF OperatorInstances
<1>2. sub \in Grounding(Operators[o]) /\ IsConsistent(Operators[o].precs, sub, sol.state)
  BY <1>1 DEF Satisfying
<1>3. TopTask(sol) \in Task
  BY NextTask
<1>4. /\ Operators[o].params \in Seq(Variable) /\ Len(Operators[o].params) = Arity[Operators[o].name]
      /\ Elems(Operators[o].params) \subseteq BoundVariables(Operators[o])
  BY OperatorFacts DEF OperatorType, BoundVariables
<1>5. HeadAfter(Operators[o], sub) = TopTask(sol)
  BY <1>1, <1>3, <1>4, HeadOfInstance
<1>6. LegalStep(Operators[o], sub, sol)
  BY <1>2, <1>5 DEF LegalStep
<1>7. ApplyOperator(sol, o, sub) \in ByOperator(sol, o)
  BY <1>2, <1>6 DEF ByOperator
<1>8. ApplyOperator(sol, o, sub) \in UNION {ByOperator(sol, p) : p \in 1..Len(Operators)}
  BY <1>7
<1> QED  BY <1>2, <1>8 DEF OperatorRefused, Successors

\* Nor E_METHOD_NOT_APPLICABLE.
LEMMA MethodInstance ==
  ASSUME NEW sol \in SolutionType, WellFormed(sol), ~IsComplete(sol), NEW m \in 1..Len(Methods),
         NEW sub \in MethodInstances(Methods[m], TopTask(sol), sol.state)
  PROVE  /\ sub \in Grounding(Methods[m]) /\ ~MethodRefused(sol, m, sub)
         /\ ApplyMethod(sol, m, sub) \in Successors(sol)
<1>1. Methods[m].name = TopTask(sol).name /\ sub \in Satisfying(Methods[m], TopTask(sol), sol.state)
  BY DEF MethodInstances
<1>2. sub \in Grounding(Methods[m]) /\ IsConsistent(Methods[m].precs, sub, sol.state)
  BY <1>1 DEF Satisfying
<1>3. TopTask(sol) \in Task
  BY NextTask
<1>4. /\ Methods[m].params \in Seq(Variable) /\ Len(Methods[m].params) = Arity[Methods[m].name]
      /\ Elems(Methods[m].params) \subseteq BoundVariables(Methods[m])
  BY MethodFacts DEF MethodType, BoundVariables
<1>5. HeadAfter(Methods[m], sub) = TopTask(sol)
  BY <1>1, <1>3, <1>4, HeadOfInstance
<1>6. LegalStep(Methods[m], sub, sol)
  BY <1>2, <1>5 DEF LegalStep
<1>7. ApplyMethod(sol, m, sub) \in ByMethod(sol, m)
  BY <1>2, <1>6 DEF ByMethod
<1>8. ApplyMethod(sol, m, sub) \in UNION {ByMethod(sol, k) : k \in 1..Len(Methods)}
  BY <1>7
<1> QED  BY <1>2, <1>5, <1>8 DEF MethodRefused, Successors

\* Every legal step from a well-formed partial solution leads to another, with
\* one more node.
LEMMA SuccessorFacts ==
  ASSUME NEW sol \in SolutionType, WellFormed(sol), ~IsComplete(sol), NEW new \in Successors(sol)
  PROVE  new \in SolutionType /\ WellFormed(new) /\ Len(new.tree) = Len(sol.tree) + 1
<1>1. CASE \E o \in 1..Len(Operators) : new \in ByOperator(sol, o)
  <2>0. PICK o \in 1..Len(Operators) : new \in ByOperator(sol, o)
    BY <1>1
  <2>1. PICK sub \in Grounding(Operators[o]) : new = ApplyOperator(sol, o, sub)
    BY <2>0 DEF ByOperator
  <2>2. Len(new.tree) = Len(sol.tree) + 1
    <3> DEFINE node == [task |-> TopTask(sol), id |-> "", oper |-> TRUE,
                        parent |-> sol.parents[Len(sol.parents)]]
    <3>1. node \in NodeType /\ sol.tree \in Seq(NodeType)
      BY SolutionFields, ApplyOperatorNode
    <3>2. new.tree = Append(sol.tree, node)
      BY <2>1 DEF ApplyOperator
    <3> HIDE DEF node
    <3> QED  BY <3>1, <3>2, AppendProperties
  <2> QED  BY <2>1, <2>2, ApplyOperatorType, ApplyOperatorWellFormed
<1>2. CASE \E m \in 1..Len(Methods) : new \in ByMethod(sol, m)
  <2>0. PICK m \in 1..Len(Methods) : new \in ByMethod(sol, m)
    BY <1>2
  <2>1. PICK sub \in Grounding(Methods[m]) : new = ApplyMethod(sol, m, sub)
    BY <2>0 DEF ByMethod
  <2>2. Len(new.tree) = Len(sol.tree) + 1
    <3> DEFINE node == [task |-> TopTask(sol), id |-> Methods[m].id, oper |-> FALSE,
                        parent |-> sol.parents[Len(sol.parents)]]
    <3>1. node \in NodeType /\ sol.tree \in Seq(NodeType)
      BY SolutionFields, ApplyMethodNode
    <3>2. new.tree = Append(sol.tree, node)
      BY <2>1 DEF ApplyMethod
    <3> HIDE DEF node
    <3> QED  BY <3>1, <3>2, AppendProperties
  <2> QED  BY <2>1, <2>2, ApplyMethodType, ApplyMethodWellFormed
<1>3. \/ \E o \in 1..Len(Operators) : new \in ByOperator(sol, o)
      \/ \E m \in 1..Len(Methods) : new \in ByMethod(sol, m)
  BY DEF Successors
<1> QED  BY <1>1, <1>2, <1>3

----------------------------------------------------------------------------
(* Executing the plan                                                      *)

LEMMA NextStateOfAction ==
  ASSUME NEW o \in 1..Len(Operators), NEW sub \in SubstitutionType, NEW state \in SUBSET AnyAtom
  PROVE  NextState(Operators[o], sub, state) \in SUBSET AnyAtom
<1>1. PICK vars \in SUBSET Variable : sub \in [vars -> Object]
  BY DEF SubstitutionType
<1> QED  BY <1>1, OperatorFacts, NextStateOfAtoms

\* The recursion of StatesAlong, unfolded.
LEMMA StatesAlongFacts ==
  ASSUME NEW plan \in Seq(ActionType)
  PROVE  /\ StatesAlong(plan)[0] = InitState
         /\ \A k \in 1..Len(plan) :
              StatesAlong(plan)[k] =
                NextState(Operators[plan[k].oper], plan[k].sub, StatesAlong(plan)[k - 1])
<1> DEFINE n == Len(plan)
           T == SUBSET AnyAtom
           step == [p \in (1..n) \X T |->
                      NextState(Operators[plan[p[1]].oper], plan[p[1]].sub, p[2])]
           Body(f) == [k \in 0..n |-> IF k = 0 THEN InitState
                         ELSE NextState(Operators[plan[k].oper], plan[k].sub, f[k - 1])]
<1>1. n \in Nat /\ \A k \in 1..n : plan[k].oper \in 1..Len(Operators) /\ plan[k].sub \in SubstitutionType
  <2>1. n \in Nat /\ \A k \in 1..n : plan[k] \in ActionType
    OBVIOUS
  <2> QED  BY <2>1 DEF ActionType
<1>2. InitState \in T
  <2>1. Atom \subseteq AnyAtom
    BY DEF Atom, AnyAtom, Term
  <2> QED  BY <2>1, ProblemAssumption
<1>3. step \in [(1..n) \X T -> T]
  <2> SUFFICES ASSUME NEW k \in 1..n, NEW state \in T
               PROVE  NextState(Operators[plan[k].oper], plan[k].sub, state) \in T
    OBVIOUS
  <2> QED  BY <1>1, NextStateOfAction
<1> HIDE DEF n
<1>4. PICK f \in [0..n -> T] : f[0] = InitState /\ \A k \in 1..n : f[k] = step[<<k, f[k - 1]>>]
  <2> HIDE DEF T, step, Body
  <2>1. n \in Nat
    BY <1>1
  <2>2. Iterations(T, InitState, n, step) # {}
    BY <1>2, <1>3, <2>1, Recursion
  <2> QED  BY <2>2 DEF Iterations
<1>5. ASSUME NEW k \in 1..n
      PROVE  f[k] = NextState(Operators[plan[k].oper], plan[k].sub, f[k - 1])
  <2>1. f[k - 1] \in T /\ f[k] = step[<<k, f[k - 1]>>]
    <3> HIDE DEF T, step
    <3> QED  BY <1>1, <1>4
  <2> QED  BY <2>1
<1>6. f = Body(f)
  <2> HIDE DEF T
  <2> QED  BY <1>1, <1>4, <1>5
<1>7. StatesAlong(plan) = Body(StatesAlong(plan))
  <2>1. StatesAlong(plan) = CHOOSE g : g = Body(g)
    BY Zenon DEF StatesAlong, n
  <2>2. \E g : g = Body(g)
    BY <1>6, Zenon
  <2> QED  BY <2>1, <2>2, Zenon
<1> HIDE DEF T, step
<1> DEFINE states == StatesAlong(plan)
<1> HIDE DEF states
<1>8. states = Body(states)
  BY <1>7 DEF states
<1>9. states[0] = InitState
  BY <1>1, <1>8
<1>10. ASSUME NEW k \in 1..n
       PROVE  states[k] = NextState(Operators[plan[k].oper], plan[k].sub, states[k - 1])
  <2>1. k # 0 /\ k \in 0..n
    BY <1>1
  <2>2. states[k] = Body(states)[k]
    BY <1>8
  <2> QED BY <2>1, <2>2
<1> QED  BY <1>9, <1>10 DEF n, states

\* One more action leads one state further.
LEMMA StatesAlongLonger ==
  ASSUME NEW plan \in Seq(ActionType), NEW a \in ActionType
  PROVE  \A k \in 0..Len(plan) : StatesAlong(Append(plan, a))[k] = StatesAlong(plan)[k]
<1> DEFINE long == Append(plan, a)
           S == {k \in Nat : k <= Len(plan) => StatesAlong(long)[k] = StatesAlong(plan)[k]}
<1>1. /\ long \in Seq(ActionType) /\ Len(long) = Len(plan) + 1 /\ Len(plan) \in Nat
      /\ \A k \in 1..Len(plan) : long[k] = plan[k]
  BY AppendProperties
<1> HIDE DEF long
<1>2. 0 \in S
  BY <1>1, StatesAlongFacts
<1>3. ASSUME NEW k \in Nat, k \in S
      PROVE  k + 1 \in S
  <2> SUFFICES ASSUME k + 1 <= Len(plan)
               PROVE  StatesAlong(long)[k + 1] = StatesAlong(plan)[k + 1]
    OBVIOUS
  <2>1. StatesAlong(long)[k] = StatesAlong(plan)[k] /\ k + 1 \in 1..Len(plan) /\ k + 1 \in 1..Len(long)
        /\ (k + 1) - 1 = k
    BY <1>1, <1>3
  <2>2. /\ StatesAlong(long)[k + 1] = NextState(Operators[long[k + 1].oper], long[k + 1].sub, StatesAlong(long)[k])
        /\ StatesAlong(plan)[k + 1] = NextState(Operators[plan[k + 1].oper], plan[k + 1].sub, StatesAlong(plan)[k])
    BY <1>1, <2>1, StatesAlongFacts
  <2>3. long[k + 1] = plan[k + 1]
    BY <1>1, <2>1
  <2> QED  BY <2>1, <2>2, <2>3
<1> HIDE DEF S
<1>4. Nat \subseteq S
  BY <1>2, <1>3, Induction
<1> QED  BY <1>1, <1>4 DEF S, long

LEMMA FromProblemReplays == Replays(FromProblem)
<1>1. FromProblem.plan = <<>> /\ FromProblem.state = InitState /\ <<>> \in Seq(ActionType) /\ Len(<<>>) = 0
  BY DEF FromProblem
<1>2. StatesAlong(<<>>)[0] = InitState
  BY <1>1, StatesAlongFacts
<1> QED  BY <1>1, <1>2 DEF Replays

\* A legal step carries on a plan that replays.
LEMMA SuccessorReplays ==
  ASSUME NEW sol \in SolutionType, WellFormed(sol), ~IsComplete(sol), NEW new \in Successors(sol),
         Replays(sol)
  PROVE  Replays(new)
<1>0. /\ sol.plan \in Seq(ActionType) /\ Len(sol.plan) \in Nat
      /\ \A k \in 1..Len(sol.plan) : IsConsistent(Operators[sol.plan[k].oper].precs,
                                       sol.plan[k].sub, StatesAlong(sol.plan)[k - 1])
      /\ StatesAlong(sol.plan)[Len(sol.plan)] = sol.state
  BY SolutionFields, LenProperties DEF Replays
<1>1. CASE \E o \in 1..Len(Operators) : new \in ByOperator(sol, o)
  <2>0. PICK o \in 1..Len(Operators) : new \in ByOperator(sol, o)
    BY <1>1
  <2>1. PICK sub \in Grounding(Operators[o]) :
          new = ApplyOperator(sol, o, sub) /\ LegalStep(Operators[o], sub, sol)
    BY <2>0 DEF ByOperator
  <2> DEFINE a == [oper |-> o, sub |-> sub]
             n == Len(sol.plan)
  <2>2. a \in ActionType /\ a.oper = o /\ a.sub = sub
    BY OperatorFacts, GroundingIsSubstitution DEF ActionType
  <2>3. /\ new.plan = Append(sol.plan, a)
        /\ new.state = NextState(Operators[o], sub, sol.state)
        /\ IsConsistent(Operators[o].precs, sub, sol.state)
    BY <2>1 DEF ApplyOperator, LegalStep
  <2> HIDE DEF a
  <2>4. /\ new.plan \in Seq(ActionType) /\ Len(new.plan) = n + 1 /\ new.plan[n + 1] = a
        /\ \A k \in 1..n : new.plan[k] = sol.plan[k]
    BY <1>0, <2>2, <2>3, AppendProperties
  <2>5. \A k \in 0..n : StatesAlong(new.plan)[k] = StatesAlong(sol.plan)[k]
    BY <1>0, <2>2, <2>3, StatesAlongLonger
  <2>6. StatesAlong(new.plan)[n] = sol.state
    BY <1>0, <2>5
  <2>7. StatesAlong(new.plan)[n + 1] = new.state
    <3>1. n + 1 \in 1..Len(new.plan) /\ (n + 1) - 1 = n
      BY <1>0, <2>4
    <3>2. StatesAlong(new.plan)[n + 1] =
            NextState(Operators[new.plan[n + 1].oper], new.plan[n + 1].sub, StatesAlong(new.plan)[n])
      BY <2>4, <3>1, StatesAlongFacts
    <3> QED  BY <2>2, <2>3, <2>4, <2>6, <3>2
  <2>8. ASSUME NEW k \in 1..Len(new.plan)
        PROVE  IsConsistent(Operators[new.plan[k].oper].precs, new.plan[k].sub, StatesAlong(new.plan)[k - 1])
    <3>1. CASE k = n + 1
      <4>1. k - 1 = n /\ new.plan[k] = a
        BY <1>0, <2>4, <3>1
      <4> QED  BY <2>2, <2>3, <2>6, <4>1
    <3>2. CASE k # n + 1
      <4>1. k \in 1..n /\ k - 1 \in 0..n
        BY <1>0, <2>4, <3>2
      <4>2. new.plan[k] = sol.plan[k] /\ StatesAlong(new.plan)[k - 1] = StatesAlong(sol.plan)[k - 1]
        BY <2>4, <2>5, <4>1
      <4> QED  BY <1>0, <4>1, <4>2
    <3> QED  BY <3>1, <3>2
  <2> QED  BY <2>4, <2>7, <2>8 DEF Replays
<1>2. CASE \E m \in 1..Len(Methods) : new \in ByMethod(sol, m)
  <2>0. PICK m \in 1..Len(Methods) : new \in ByMethod(sol, m)
    BY <1>2
  <2>1. PICK sub \in Grounding(Methods[m]) : new = ApplyMethod(sol, m, sub)
    BY <2>0 DEF ByMethod
  <2>2. new.plan = sol.plan /\ new.state = sol.state
    BY <2>1 DEF ApplyMethod
  <2> QED  BY <2>2, Zenon DEF Replays
<1> QED  BY <1>1, <1>2 DEF Successors

----------------------------------------------------------------------------
(* The order of a decomposition                                            *)

\* new is sol after the work on its next task, which is node Len(new.tree) now
\* and has put what is above the other tasks on the agenda.
Advanced(sol, new) ==
  LET size == Len(sol.tasks) - 1  last == Len(sol.tree) + 1 IN
  /\ Len(new.tree) = last
  /\ \A k \in 1..Len(sol.tree) : new.tree[k] = sol.tree[k]
  /\ new.tree[last].task = TopTask(sol)
  /\ new.tree[last].parent = sol.parents[Len(sol.tasks)]
  /\ Len(new.tasks) \in Nat /\ size <= Len(new.tasks)
  /\ \A i \in 1..size : new.tasks[i] = sol.tasks[i] /\ new.parents[i] = sol.parents[i]
  /\ \A i \in (size + 1)..Len(new.tasks) : new.parents[i] = last

LEMMA CardinalityOfRange ==
  ASSUME NEW n \in Nat, NEW S \in SUBSET (1..n)
  PROVE  IsFiniteSet(S) /\ Cardinality(S) \in Nat
<1>1. IsFiniteSet(1..n)
  BY FS_Interval
<1> QED  BY <1>1, FS_Subset, FS_CardinalityType

\* What node n is working off stays in order when one step of work is done.
LEMMA OrderKept ==
  ASSUME NEW sol \in SolutionType, ~IsComplete(sol), Len(sol.parents) = Len(sol.tasks),
         NEW new, Advanced(sol, new), NEW n \in 0..Len(sol.tree),
         NEW given, Len(given) \in Nat, GivenInOrder(sol, n, given)
  PROVE  GivenInOrder(new, n, given)
<1> DEFINE top  == Len(sol.tasks)
           last == Len(sol.tree) + 1
           C == Children(sol, n)
           D == Children(new, n)
           P == Pending(sol, n)
           Q == Pending(new, n)
<1>1. /\ top \in Nat \ {0} /\ Len(sol.tree) \in Nat /\ last \in Nat
      /\ sol.tasks \in Seq(Task) /\ sol.tasks # <<>>
  BY SolutionFields DEF IsComplete
<1>2. /\ Len(new.tree) = last /\ \A k \in 1..Len(sol.tree) : new.tree[k] = sol.tree[k]
      /\ new.tree[last].task = sol.tasks[top] /\ new.tree[last].parent = sol.parents[top]
      /\ Len(new.tasks) \in Nat /\ top - 1 <= Len(new.tasks)
      /\ \A i \in 1..(top - 1) : new.tasks[i] = sol.tasks[i] /\ new.parents[i] = sol.parents[i]
      /\ \A i \in top..Len(new.tasks) : new.parents[i] = last
  <2>1. top - 1 + 1 = top
    BY <1>1
  <2> QED  BY <2>1, Zenon DEF Advanced, TopTask
<1>3. C \in SUBSET (1..Len(sol.tree)) /\ P \in SUBSET (1..top)
  BY DEF Children, Pending
<1>4. /\ IsFiniteSet(C) /\ Cardinality(C) \in Nat /\ IsFiniteSet(P) /\ Cardinality(P) \in Nat
  BY <1>1, <1>3, CardinalityOfRange
<1>5. /\ Cardinality(C) + Cardinality(P) = Len(given)
      /\ \A k \in C : sol.tree[k].task = given[Cardinality({c \in C : c <= k})]
      /\ \A i \in P : sol.tasks[i] = given[Len(given) + 1 - Cardinality({j \in P : j <= i})]
  BY DEF GivenInOrder
<1>6. D = IF top \in P THEN C \cup {last} ELSE C
  <2>1. \A k \in 1..last : k = last \/ k \in 1..Len(sol.tree)
    BY <1>1
  <2>2. last \in 1..last /\ top \in 1..top
    BY <1>1
  <2> QED  BY <1>1, <1>2, <2>1, <2>2 DEF Children, Pending
<1>7. Q = P \ {top}
  <2>1. ASSUME NEW i \in Q
        PROVE  i \in P \ {top}
    <3>1. i \in 1..Len(new.tasks) /\ new.parents[i] = n
      BY <2>1 DEF Pending
    <3>2. i \in 1..(top - 1)
      <4>1. n # last
        BY <1>1
      <4> HIDE DEF last, top
      <4> QED  BY <1>1, <1>2, <3>1, <4>1
    <3> QED  BY <1>1, <1>2, <3>1, <3>2 DEF Pending
  <2>2. ASSUME NEW i \in P \ {top}
        PROVE  i \in Q
    <3>1. i \in 1..top /\ sol.parents[i] = n /\ i # top
      BY <2>2 DEF Pending
    <3> QED  BY <1>1, <1>2, <3>1 DEF Pending
  <2> QED  BY <2>1, <2>2
<1>8. ASSUME NEW k \in C
      PROVE  {c \in D : c <= k} = {c \in C : c <= k} /\ new.tree[k] = sol.tree[k]
  BY <1>1, <1>2, <1>3, <1>6
<1> HIDE DEF C, D, P, Q, top
<1>9. ASSUME NEW i \in Q
      PROVE  /\ {j \in Q : j <= i} = {j \in P : j <= i} /\ new.tasks[i] = sol.tasks[i] /\ i \in P
  <2>1. i \in P /\ i \in 1..top /\ i # top
    BY <1>3, <1>7, <1>9
  <2>2. i \in 1..(top - 1)
    BY <1>1, <2>1
  <2>3. {j \in Q : j <= i} = {j \in P : j <= i}
    BY <1>1, <1>7, <2>2
  <2> QED  BY <1>2, <2>1, <2>2, <2>3
<1> HIDE DEF last
<1>10. CASE top \notin P
  <2>1. D = C /\ Q = P
    BY <1>6, <1>7, <1>10
  <2>2. GivenInOrder(new, n, given)
    BY <1>5, <1>8, <1>9, <2>1 DEF GivenInOrder, C, D, P, Q
  <2> QED  BY <2>2
<1>11. CASE top \in P
  <2>1. Cardinality(D) = Cardinality(C) + 1
    <3>1. last \notin C
      BY <1>1, <1>3 DEF last
    <3> QED  BY <1>4, <1>6, <1>11, <3>1, FS_AddElement
  <2>2. Cardinality(Q) = Cardinality(P) - 1
    BY <1>4, <1>7, <1>11, FS_RemoveElement
  <2>3. Cardinality(D) + Cardinality(Q) = Len(given)
    BY <1>4, <1>5, <2>1, <2>2
  <2>4. ASSUME NEW k \in D
        PROVE  new.tree[k].task = given[Cardinality({c \in D : c <= k})]
    <3>1. CASE k \in C
      BY <1>5, <1>8, <3>1
    <3>2. CASE k \notin C
      <4>1. k = last
        BY <1>6, <1>11, <2>4, <3>2
      <4>2. {c \in D : c <= k} = D
        <5>1. \A c \in D : c <= last
          BY <1>1, <1>3, <1>6 DEF last
        <5> QED  BY <4>1, <5>1
      <4>3. {j \in P : j <= top} = P
        <5>1. \A j \in P : j <= top
          BY <1>1, <1>3
        <5> QED  BY <5>1
      <4>4. sol.tasks[top] = given[Len(given) + 1 - Cardinality(P)]
        BY <1>5, <1>11, <4>3
      <4>5. Len(given) + 1 - Cardinality(P) = Cardinality(D)
        BY <1>4, <1>5, <2>1
      <4> QED  BY <1>2, <4>1, <4>2, <4>4, <4>5
    <3> QED  BY <3>1, <3>2
  <2>5. \A i \in Q : new.tasks[i] = given[Len(given) + 1 - Cardinality({j \in Q : j <= i})]
    BY <1>5, <1>9
  <2> QED  BY <2>3, <2>4, <2>5 DEF GivenInOrder, D, Q
<1> QED  BY <1>10, <1>11

\* A decomposition gives its node the subtasks of the method's instance.
LEMMA OrderStarted ==
  ASSUME NEW sol \in SolutionType, WellFormed(sol), ~IsComplete(sol),
         NEW new, Advanced(sol, new), NEW given \in Seq(Task),
         Len(new.tasks) = Len(sol.tasks) - 1 + Len(given),
         \A i \in 1..Len(given) : new.tasks[Len(sol.tasks) - 1 + i] = given[Len(given) + 1 - i]
  PROVE  GivenInOrder(new, Len(sol.tree) + 1, given)
<1> DEFINE size == Len(sol.tasks) - 1
           last == Len(sol.tree) + 1
           Q == Pending(new, last)
<1>1. /\ size \in Nat /\ last \in Nat /\ Len(given) \in Nat /\ Len(new.tasks) = size + Len(given)
      /\ Len(sol.tree) \in Nat /\ Len(sol.tasks) \in Nat
  BY NextTask, SolutionFields, LenProperties
<1>2. /\ Len(new.tree) = last /\ \A k \in 1..Len(sol.tree) : new.tree[k] = sol.tree[k]
      /\ new.tree[last].parent = sol.parents[Len(sol.tasks)]
      /\ \A i \in 1..size : new.parents[i] = sol.parents[i]
      /\ \A i \in (size + 1)..Len(new.tasks) : new.parents[i] = last
  BY <1>1 DEF Advanced
<1>3. /\ \A i \in 1..Len(sol.tasks) : sol.parents[i] # last
      /\ \A k \in 1..Len(sol.tree) : sol.tree[k].parent # last
  <2>1. /\ Len(sol.parents) = Len(sol.tasks)
        /\ \A i \in 1..Len(sol.parents) : sol.parents[i] <= Len(sol.tree) /\ sol.parents[i] \in Nat
        /\ \A k \in 1..Len(sol.tree) : sol.tree[k].parent < k /\ sol.tree[k].parent \in Nat
    <3>1. /\ Len(sol.parents) = Len(sol.tasks)
          /\ \A i \in 1..Len(sol.parents) : sol.parents[i] <= Len(sol.tree)
          /\ \A k \in 1..Len(sol.tree) : sol.tree[k].parent < k
      BY Zenon DEF WellFormed
    <3>2. \A i \in 1..Len(sol.parents) : sol.parents[i] \in Nat
      BY SolutionFields
    <3>3. \A k \in 1..Len(sol.tree) : sol.tree[k] \in NodeType
      BY SolutionFields
    <3> QED  BY <3>1, <3>2, <3>3 DEF NodeType
  <2>2. Len(sol.tree) \in Nat
    BY <1>1, SolutionFields
  <2> QED  BY <2>1, <2>2
<1>4. Children(new, last) = {}
  <2>1. \A k \in 1..last : k = last \/ k \in 1..Len(sol.tree)
    BY <1>1
  <2>2. Len(sol.tasks) \in 1..Len(sol.tasks)
    BY <1>1
  <2>3. \A k \in 1..last : new.tree[k].parent # last
    <3> HIDE DEF last
    <3> QED  BY <1>2, <1>3, <2>1, <2>2
  <2> QED  BY <1>2, <2>3 DEF Children
<1>5. Q = (size + 1)..(size + Len(given))
  <2>1. \A i \in 1..(size + Len(given)) : i \in 1..size \/ i \in (size + 1)..(size + Len(given))
    BY <1>1
  <2>2. \A i \in 1..size : i \in 1..Len(sol.tasks)
    BY <1>1
  <2>3. \A i \in (size + 1)..(size + Len(given)) : i \in 1..(size + Len(given))
    BY <1>1
  <2>4. \A i \in 1..(size + Len(given)) : new.parents[i] = last <=> i \in (size + 1)..(size + Len(given))
    <3> HIDE DEF last, size
    <3>1. \A i \in 1..size : ~(i \in (size + 1)..(size + Len(given)))
      BY <1>1
    <3> QED  BY <1>1, <1>2, <1>3, <2>1, <2>2, <3>1
  <2> QED  BY <1>1, <2>3, <2>4 DEF Pending
<1> HIDE DEF size, last, Q
<1>6. Cardinality(Q) = Len(given)
  <2>1. PICK a \in Int : a = size + 1
    BY <1>1
  <2>2. PICK b \in Int : b = size + Len(given)
    BY <1>1
  <2>3. Cardinality(a..b) = IF a > b THEN 0 ELSE b - a + 1
    BY FS_Interval
  <2> QED  BY <1>1, <1>5, <2>1, <2>2, <2>3
<1>7. ASSUME NEW i \in Q
      PROVE  new.tasks[i] = given[Len(given) + 1 - Cardinality({j \in Q : j <= i})]
  <2>1. i - size \in 1..Len(given) /\ i = size + (i - size) /\ i \in Int
    BY <1>1, <1>5
  <2>2. {j \in Q : j <= i} = (size + 1)..i
    BY <1>1, <1>5
  <2>3. Cardinality((size + 1)..i) = i - size
    BY <1>1, <2>1, FS_Interval
  <2> QED  BY <2>1, <2>2, <2>3 DEF size
<1>8. Cardinality({}) = 0
  BY FS_EmptySet
<1>9. GivenInOrder(new, last, given)
  BY <1>1, <1>4, <1>6, <1>7, <1>8 DEF GivenInOrder, Q
<1> QED  BY <1>9 DEF last

LEMMA OperatorAdvances ==
  ASSUME NEW sol \in SolutionType, WellFormed(sol), ~IsComplete(sol),
         NEW o \in 1..Len(Operators), NEW sub \in Grounding(Operators[o])
  PROVE  Advanced(sol, ApplyOperator(sol, o, sub))
<1> DEFINE new == ApplyOperator(sol, o, sub)
           node == [task |-> TopTask(sol), id |-> "", oper |-> TRUE,
                    parent |-> sol.parents[Len(sol.parents)]]
           size == Len(sol.tasks) - 1
<1>1. node \in NodeType /\ sol.tree \in Seq(NodeType)
  BY ApplyOperatorNode, SolutionFields
<1>2. /\ new.tree = Append(sol.tree, node) /\ new.tasks = Popped(sol.tasks)
      /\ new.parents = Popped(sol.parents)
  BY DEF ApplyOperator
<1>3. node.task = TopTask(sol) /\ node.parent = sol.parents[Len(sol.tasks)]
  BY NextTask
<1> HIDE DEF new, node
<1>4. /\ Len(new.tree) = Len(sol.tree) + 1 /\ new.tree[Len(sol.tree) + 1] = node
      /\ \A k \in 1..Len(sol.tree) : new.tree[k] = sol.tree[k]
  BY <1>1, <1>2, AppendProperties
<1>5. /\ size \in Nat /\ Len(new.tasks) = size
      /\ \A i \in 1..size : new.parents[i] = sol.parents[i]
  BY <1>2, NextTask
<1>6. \A i \in 1..size : new.tasks[i] = sol.tasks[i]
  BY <1>2, SolutionFields, PoppedType DEF IsComplete
<1>7. (size + 1)..size = {}
  BY <1>5
<1> HIDE DEF size
<1>8. Advanced(sol, new)
  BY <1>3, <1>4, <1>5, <1>6, <1>7 DEF Advanced, size
<1> QED  BY <1>8 DEF new

LEMMA MethodAdvances ==
  ASSUME NEW sol \in SolutionType, WellFormed(sol), ~IsComplete(sol),
         NEW m \in 1..Len(Methods), NEW sub \in Grounding(Methods[m])
  PROVE  /\ Advanced(sol, ApplyMethod(sol, m, sub))
         /\ Len(ApplyMethod(sol, m, sub).tasks) = Len(sol.tasks) - 1 + Len(Methods[m].subtasks)
         /\ \A i \in 1..Len(Methods[m].subtasks) :
              ApplyMethod(sol, m, sub).tasks[Len(sol.tasks) - 1 + i] =
                TaskAfter(Methods[m].subtasks[Len(Methods[m].subtasks) + 1 - i], sub)
<1> DEFINE new == ApplyMethod(sol, m, sub)
           node == [task |-> TopTask(sol), id |-> Methods[m].id, oper |-> FALSE,
                    parent |-> sol.parents[Len(sol.parents)]]
           size == Len(sol.tasks) - 1
           n == Len(Methods[m].subtasks)
           here == [i \in 1..n |-> Len(sol.tree) + 1]
           inOrder == [i \in 1..n |-> TaskAfter(Methods[m].subtasks[i], sub)]
<1>1. node \in NodeType /\ sol.tree \in Seq(NodeType)
  BY ApplyMethodNode, SolutionFields
<1>2. /\ new.tree = Append(sol.tree, node) /\ new.tasks = Popped(sol.tasks) \o PushedTasks(m, sub)
      /\ new.parents = Popped(sol.parents) \o here
  BY DEF ApplyMethod
<1>3. node.task = TopTask(sol) /\ node.parent = sol.parents[Len(sol.tasks)]
  BY NextTask
<1> HIDE DEF new, node
<1>4. /\ Len(new.tree) = Len(sol.tree) + 1 /\ new.tree[Len(sol.tree) + 1] = node
      /\ \A k \in 1..Len(sol.tree) : new.tree[k] = sol.tree[k]
  BY <1>1, <1>2, AppendProperties
<1>5. /\ size \in Nat /\ Len(sol.tree) + 1 \in Nat
      /\ Popped(sol.tasks) \in Seq(Task) /\ Len(Popped(sol.tasks)) = size
      /\ Popped(sol.parents) \in Seq(Nat) /\ Len(Popped(sol.parents)) = size
      /\ \A i \in 1..size : Popped(sol.parents)[i] = sol.parents[i]
      /\ \A i \in 1..size : Popped(sol.tasks)[i] = sol.tasks[i]
  <2>1. sol.tasks \in Seq(Task) /\ sol.tasks # <<>>
    BY SolutionFields DEF IsComplete
  <2>2. \A i \in 1..(Len(sol.tasks) - 1) : Popped(sol.tasks)[i] = sol.tasks[i]
    BY <2>1, PoppedType
  <2>3. Len(sol.tree) + 1 \in Nat
    BY <1>1, LenProperties
  <2>4. /\ size \in Nat
        /\ Popped(sol.tasks) \in Seq(Task) /\ Len(Popped(sol.tasks)) = size
        /\ Popped(sol.parents) \in Seq(Nat) /\ Len(Popped(sol.parents)) = size
        /\ \A i \in 1..size : Popped(sol.parents)[i] = sol.parents[i]
    BY NextTask
  <2> QED  BY <2>2, <2>3, <2>4, Zenon
<1>6. n \in Nat /\ PushedTasks(m, sub) \in Seq(Task) /\ Len(PushedTasks(m, sub)) = n
  BY PushedTasksType
<1>7. \A i \in 1..n : PushedTasks(m, sub)[i] = TaskAfter(Methods[m].subtasks[n + 1 - i], sub)
  <2>1. \A i \in 1..n : TaskAfter(Methods[m].subtasks[i], sub) \in Task
    BY SubtaskType
  <2>2. PushedTasks(m, sub) = Backwards(inOrder)
    BY DEF PushedTasks
  <2> HIDE DEF n
  <2>3. inOrder \in Seq(Task) /\ Len(inOrder) = n
    BY <1>6, <2>1
  <2>4. \A i \in 1..n : Backwards(inOrder)[i] = inOrder[n + 1 - i]
    <3> HIDE DEF inOrder
    <3> QED  BY <2>3, BackwardsType
  <2>5. \A i \in 1..n : n + 1 - i \in 1..n
    BY <1>6
  <2> QED  BY <2>2, <2>4, <2>5
<1> HIDE DEF n, size
<1>8. here \in Seq(Nat) /\ Len(here) = n /\ \A i \in 1..n : here[i] = Len(sol.tree) + 1
  BY <1>5, <1>6
<1> HIDE DEF here
<1>9. /\ Len(new.tasks) = size + n
      /\ \A i \in 1..size : new.tasks[i] = sol.tasks[i]
      /\ \A i \in 1..n : new.tasks[size + i] = TaskAfter(Methods[m].subtasks[n + 1 - i], sub)
  <2> DEFINE rest == Popped(sol.tasks)
             pushed == PushedTasks(m, sub)
  <2> HIDE DEF rest, pushed
  <2>1. rest \in Seq(Task) /\ pushed \in Seq(Task) /\ Len(rest) = size /\ Len(pushed) = n
        /\ new.tasks = rest \o pushed
    BY <1>2, <1>5, <1>6 DEF rest, pushed
  <2>2. /\ Len(rest \o pushed) = size + n
        /\ \A i \in 1..(size + n) : (rest \o pushed)[i] = IF i <= size THEN rest[i] ELSE pushed[i - size]
    BY <2>1, ConcatProperties
  <2>3. ASSUME NEW i \in 1..size
        PROVE  new.tasks[i] = sol.tasks[i]
    <3>1. i \in 1..(size + n) /\ i <= size
      BY <1>5, <1>6
    <3> QED  BY <1>5, <2>1, <2>2, <3>1 DEF rest
  <2>4. ASSUME NEW i \in 1..n
        PROVE  new.tasks[size + i] = pushed[i]
    <3>1. size + i \in 1..(size + n) /\ ~(size + i <= size) /\ (size + i) - size = i
      BY <1>5, <1>6
    <3> QED  BY <2>1, <2>2, <3>1
  <2> QED  BY <1>7, <2>1, <2>2, <2>3, <2>4 DEF pushed
<1>10. /\ \A i \in 1..size : new.parents[i] = sol.parents[i]
       /\ \A i \in (size + 1)..(size + n) : new.parents[i] = Len(sol.tree) + 1
  <2> DEFINE rest == Popped(sol.parents)
  <2> HIDE DEF rest
  <2>1. rest \in Seq(Nat) /\ here \in Seq(Nat) /\ Len(rest) = size /\ new.parents = rest \o here
    BY <1>2, <1>5, <1>8 DEF rest
  <2>2. \A i \in 1..(size + n) : (rest \o here)[i] = IF i <= size THEN rest[i] ELSE here[i - size]
    BY <1>8, <2>1, ConcatProperties
  <2>3. ASSUME NEW i \in 1..size
        PROVE  new.parents[i] = sol.parents[i]
    <3>1. i \in 1..(size + n) /\ i <= size
      BY <1>5, <1>6
    <3> QED  BY <1>5, <2>1, <2>2, <3>1 DEF rest
  <2>4. ASSUME NEW i \in (size + 1)..(size + n)
        PROVE  new.parents[i] = Len(sol.tree) + 1
    <3>1. i \in 1..(size + n) /\ ~(i <= size) /\ i - size \in 1..n
      BY <1>5, <1>6
    <3> QED  BY <1>8, <2>1, <2>2, <3>1
  <2> QED  BY <2>3, <2>4
<1>11. Advanced(sol, new)
  <2>1. Len(new.tasks) \in Nat /\ size <= Len(new.tasks)
    BY <1>5, <1>6, <1>9
  <2> QED  BY <1>3, <1>4, <1>9, <1>10, <2>1 DEF Advanced, size
<1> QED  BY <1>9, <1>11 DEF new, size, n

LEMMA FromProblemInOrder == SubtasksAsDeclared(FromProblem)
<1> DEFINE n == Len(InitTasks)
           P == Pending(FromProblem, 0)
<1>1. n \in Nat /\ InitTasks \in Seq(Task)
  BY ProblemAssumption
<1>2. /\ FromProblem.tree = <<>> /\ Len(FromProblem.tasks) = n
      /\ \A i \in 1..n : FromProblem.tasks[i] = InitTasks[n + 1 - i] /\ FromProblem.parents[i] = 0
  BY <1>1, BackwardsType DEF FromProblem
<1>3. Children(FromProblem, 0) = {} /\ 1..Len(FromProblem.tree) = {}
  BY <1>2 DEF Children
<1>4. P = 1..n
  BY <1>2 DEF Pending
<1> HIDE DEF n, P
<1>5. Cardinality({}) = 0 /\ Cardinality(P) = n
  BY <1>1, <1>4, FS_EmptySet, FS_Interval
<1>6. ASSUME NEW i \in P
      PROVE  FromProblem.tasks[i] = InitTasks[n + 1 - Cardinality({j \in P : j <= i})]
  <2>1. {j \in P : j <= i} = 1..i /\ i \in Nat \ {0}
    BY <1>1, <1>4
  <2>2. Cardinality(1..i) = i
    BY <2>1, FS_Interval
  <2> QED  BY <1>2, <1>4, <2>1, <2>2
<1>7. GivenInOrder(FromProblem, 0, InitTasks)
  <2>1. Cardinality(Children(FromProblem, 0)) + Cardinality(P) = n
    <3>1. Cardinality(Children(FromProblem, 0)) = 0 /\ Cardinality(P) = n
      BY <1>3, <1>5, Zenon
    <3> QED  BY <1>1, <3>1
  <2>2. \A k \in Children(FromProblem, 0) : FALSE
    BY <1>3
  <2> QED  BY <1>6, <2>1, <2>2, Zenon DEF GivenInOrder, P, n
<1> QED  BY <1>3, <1>7 DEF SubtasksAsDeclared

\* A legal step works off the next task of its decomposition.
LEMMA SuccessorInOrder ==
  ASSUME NEW sol \in SolutionType, WellFormed(sol), ~IsComplete(sol), NEW new \in Successors(sol),
         SubtasksAsDeclared(sol)
  PROVE  SubtasksAsDeclared(new)
<1> DEFINE last == Len(sol.tree) + 1
           Declared(s, n) ==
             \E m \in 1..Len(Methods) : \E sub \in Grounding(Methods[m]) :
               /\ Methods[m].id = s.tree[n].id
               /\ HeadAfter(Methods[m], sub) = s.tree[n].task
               /\ GivenInOrder(s, n, [k \in 1..Len(Methods[m].subtasks) |->
                                        TaskAfter(Methods[m].subtasks[k], sub)])
<1>1. /\ GivenInOrder(sol, 0, InitTasks)
      /\ \A n \in 1..Len(sol.tree) : ~sol.tree[n].oper => Declared(sol, n)
      /\ Len(sol.parents) = Len(sol.tasks) /\ Len(sol.tree) \in Nat
  BY SolutionFields, LenProperties, NextTask DEF SubtasksAsDeclared
<1>2. ASSUME Advanced(sol, new)
      PROVE  /\ GivenInOrder(new, 0, InitTasks) /\ Len(new.tree) = last
             /\ \A n \in 1..Len(sol.tree) : ~new.tree[n].oper => Declared(new, n)
  <2>1. GivenInOrder(new, 0, InitTasks)
    <3>1. Len(InitTasks) \in Nat /\ 0 \in 0..Len(sol.tree)
      BY <1>1, ProblemAssumption
    <3> QED  BY <1>1, <1>2, <3>1, OrderKept
  <2>2. Len(new.tree) = last /\ \A n \in 1..Len(sol.tree) : new.tree[n] = sol.tree[n]
    BY <1>2 DEF Advanced
  <2>3. ASSUME NEW n \in 1..Len(sol.tree), ~new.tree[n].oper
        PROVE  Declared(new, n)
    <3> DEFINE given(m, sub) == [k \in 1..Len(Methods[m].subtasks) |->
                                  TaskAfter(Methods[m].subtasks[k], sub)]
    <3>0. PICK m \in 1..Len(Methods) : \E sub \in Grounding(Methods[m]) :
            /\ Methods[m].id = sol.tree[n].id /\ HeadAfter(Methods[m], sub) = sol.tree[n].task
            /\ GivenInOrder(sol, n, given(m, sub))
      BY <1>1, <2>2, <2>3
    <3>1. PICK sub \in Grounding(Methods[m]) :
            /\ Methods[m].id = sol.tree[n].id /\ HeadAfter(Methods[m], sub) = sol.tree[n].task
            /\ GivenInOrder(sol, n, given(m, sub))
      BY <3>0
    <3>2. Len(given(m, sub)) \in Nat /\ n \in 0..Len(sol.tree)
      BY <1>1, PushedTasksType
    <3> HIDE DEF given
    <3>3. GivenInOrder(new, n, given(m, sub))
      BY <1>1, <1>2, <3>1, <3>2, OrderKept
    <3> QED  BY <2>2, <3>1, <3>3 DEF given
  <2> QED  BY <2>1, <2>2, <2>3
<1>3. CASE \E o \in 1..Len(Operators) : new \in ByOperator(sol, o)
  <2>0. PICK o \in 1..Len(Operators) : new \in ByOperator(sol, o)
    BY <1>3
  <2>1. PICK sub \in Grounding(Operators[o]) : new = ApplyOperator(sol, o, sub)
    BY <2>0 DEF ByOperator
  <2>2. Advanced(sol, new)
    BY <2>1, OperatorAdvances
  <2>3. new.tree[last].oper
    <3> DEFINE node == [task |-> TopTask(sol), id |-> "", oper |-> TRUE,
                        parent |-> sol.parents[Len(sol.parents)]]
    <3>1. node \in NodeType /\ sol.tree \in Seq(NodeType) /\ node.oper
      BY ApplyOperatorNode, SolutionFields
    <3>2. new.tree = Append(sol.tree, node)
      BY <2>1 DEF ApplyOperator
    <3> HIDE DEF node
    <3> QED  BY <3>1, <3>2, AppendProperties
  <2>4. \A n \in 1..last : n = last \/ n \in 1..Len(sol.tree)
    BY <1>1
  <2> HIDE DEF last, Declared
  <2>5. \A n \in 1..Len(new.tree) : ~new.tree[n].oper => Declared(new, n)
    BY <1>2, <2>2, <2>3, <2>4
  <2> QED  BY <1>2, <2>2, <2>5 DEF SubtasksAsDeclared, Declared
<1>4. CASE \E m \in 1..Len(Methods) : new \in ByMethod(sol, m)
  <2>0. PICK m \in 1..Len(Methods) : new \in ByMethod(sol, m)
    BY <1>4
  <2>1. PICK sub \in Grounding(Methods[m]) :
          new = ApplyMethod(sol, m, sub) /\ LegalStep(Methods[m], sub, sol)
    BY <2>0 DEF ByMethod
  <2> DEFINE given == [k \in 1..Len(Methods[m].subtasks) |-> TaskAfter(Methods[m].subtasks[k], sub)]
  <2>2. /\ Advanced(sol, new) /\ Len(new.tasks) = Len(sol.tasks) - 1 + Len(Methods[m].subtasks)
        /\ \A i \in 1..Len(Methods[m].subtasks) :
              new.tasks[Len(sol.tasks) - 1 + i] =
                TaskAfter(Methods[m].subtasks[Len(Methods[m].subtasks) + 1 - i], sub)
    BY <2>1, MethodAdvances
  <2>3. /\ given \in Seq(Task) /\ Len(given) = Len(Methods[m].subtasks) /\ Len(given) \in Nat
        /\ \A i \in 1..Len(given) :
              given[Len(given) + 1 - i] = TaskAfter(Methods[m].subtasks[Len(given) + 1 - i], sub)
    <3>1. \A i \in 1..Len(Methods[m].subtasks) : TaskAfter(Methods[m].subtasks[i], sub) \in Task
      BY SubtaskType
    <3>2. Len(Methods[m].subtasks) \in Nat
      BY PushedTasksType
    <3> QED  BY <3>1, <3>2
  <2> HIDE DEF given
  <2>4. GivenInOrder(new, last, given)
    <3>1. /\ Len(new.tasks) = Len(sol.tasks) - 1 + Len(given)
          /\ \A i \in 1..Len(given) : new.tasks[Len(sol.tasks) - 1 + i] = given[Len(given) + 1 - i]
      BY <2>2, <2>3
    <3> QED  BY <2>2, <2>3, <3>1, OrderStarted
  <2>5. new.tree[last].id = Methods[m].id /\ new.tree[last].task = TopTask(sol)
    <3> DEFINE node == [task |-> TopTask(sol), id |-> Methods[m].id, oper |-> FALSE,
                        parent |-> sol.parents[Len(sol.parents)]]
    <3>1. node \in NodeType /\ sol.tree \in Seq(NodeType) /\ node.id = Methods[m].id /\ node.task = TopTask(sol)
      BY ApplyMethodNode, SolutionFields
    <3>2. new.tree = Append(sol.tree, node)
      BY <2>1 DEF ApplyMethod
    <3> HIDE DEF node
    <3> QED  BY <3>1, <3>2, AppendProperties
  <2>6. HeadAfter(Methods[m], sub) = TopTask(sol)
    BY <2>1 DEF LegalStep
  <2>7. Declared(new, last)
    <3>1. /\ Methods[m].id = new.tree[last].id /\ HeadAfter(Methods[m], sub) = new.tree[last].task
          /\ GivenInOrder(new, last, given)
      BY <2>4, <2>5, <2>6
    <3> HIDE DEF last
    <3> QED  BY <3>1, Zenon DEF given
  <2>8. \A n \in 1..last : n = last \/ n \in 1..Len(sol.tree)
    BY <1>1
  <2> HIDE DEF last, Declared
  <2>9. \A n \in 1..Len(new.tree) : ~new.tree[n].oper => Declared(new, n)
    BY <1>2, <2>2, <2>7, <2>8
  <2> QED  BY <1>2, <2>2, <2>9 DEF SubtasksAsDeclared, Declared
<1> QED  BY <1>3, <1>4 DEF Successors

----------------------------------------------------------------------------
(* What can still be completed                                             *)

\* The partial solutions that n legal steps, or fewer, can complete.
Solvable ==
  LET solvable[n \in Nat] ==
        IF n = 0 THEN {sol \in SolutionType : IsComplete(sol)}
        ELSE solvable[n - 1] \cup
               {sol \in SolutionType : ~IsComplete(sol) /\ \E new \in Successors(sol) : new \in solvable[n - 1]}
  IN  solvable

LEMMA SolvableFacts ==
  /\ Solvable[0] = {sol \in SolutionType : IsComplete(sol)}
  /\ \A n \in Nat :
       /\ Solvable[n] \subseteq SolutionType
       /\ Solvable[n + 1] = Solvable[n] \cup
            {sol \in SolutionType : ~IsComplete(sol) /\ \E new \in Successors(sol) : new \in Solvable[n]}
<1> DEFINE T == SUBSET SolutionType
           start == {sol \in SolutionType : IsComplete(sol)}
           more(S) == S \cup {sol \in SolutionType : ~IsComplete(sol) /\ \E new \in Successors(sol) : new \in S}
           step == [p \in Nat \X T |-> more(p[2])]
           Body(f) == [n \in Nat |-> IF n = 0 THEN start ELSE more(f[n - 1])]
<1>1. start \in T
  OBVIOUS
<1>2. ASSUME NEW S \in T
      PROVE  more(S) \in T
  OBVIOUS
<1> HIDE DEF start, more
<1>3. step \in [Nat \X T -> T]
  <2> HIDE DEF T
  <2> QED  BY <1>2
<1>4. PICK f \in [Nat -> T] : f[0] = start /\ \A k \in Nat : f[k + 1] = step[<<k + 1, f[k]>>]
  <2> HIDE DEF T, step
  <2>1. EndlessIterations(T, start, step) # {}
    BY <1>1, <1>3, EndlessRecursion
  <2> QED  BY <2>1 DEF EndlessIterations
<1>5. ASSUME NEW k \in Nat
      PROVE  f[k + 1] = more(f[k])
  <2> HIDE DEF T
  <2>1. f[k + 1] = step[<<k + 1, f[k]>>] /\ f[k] \in T /\ k + 1 \in Nat
    <3> HIDE DEF step
    <3> QED  BY <1>4
  <2> QED  BY <2>1
<1>6. f = Body(f)
  <2> HIDE DEF T, step
  <2>1. \A n \in Nat : f[n] = IF n = 0 THEN start ELSE more(f[n - 1])
    <3> TAKE n \in Nat
    <3>1. CASE n = 0
      BY <1>4, <3>1
    <3>2. CASE n # 0
      <4>1. n - 1 \in Nat /\ n - 1 + 1 = n
        BY <3>2
      <4>2. f[n - 1 + 1] = more(f[n - 1])
        BY <1>5, <4>1
      <4> QED  BY <3>2, <4>1, <4>2
    <3> QED  BY <3>1, <3>2
  <2> QED  BY <1>4, <2>1
<1>7. Solvable = Body(Solvable)
  <2>1. Solvable = CHOOSE g : g = Body(g)
    BY Zenon DEF Solvable, start, more
  <2>2. \E g : g = Body(g)
    BY <1>6, Zenon
  <2> QED  BY <2>1, <2>2, Zenon
<1> DEFINE g == Solvable
<1> HIDE DEF g, T, step
<1>8. g[0] = start /\ \A n \in Nat : g[n + 1] = more(g[n])
  <2>1. g = Body(g)
    BY <1>7 DEF g
  <2>2. g[0] = start
    BY <2>1
  <2>3. ASSUME NEW n \in Nat
        PROVE  g[n + 1] = more(g[n])
    <3>1. n + 1 \in Nat /\ n + 1 # 0 /\ n + 1 - 1 = n
      OBVIOUS
    <3>2. g[n + 1] = Body(g)[n + 1]
      BY <2>1
    <3>3. Body(g)[n + 1] = more(g[n + 1 - 1])
      BY <3>1
    <3> QED  BY <3>1, <3>2, <3>3
  <2> QED  BY <2>2, <2>3
<1>9. \A n \in Nat : g[n] \in T
  <2> DEFINE S == {n \in Nat : g[n] \in T}
  <2>1. 0 \in S
    BY <1>1, <1>8
  <2>2. \A n \in Nat : n \in S => n + 1 \in S
    BY <1>2, <1>8
  <2> HIDE DEF S
  <2>3. Nat \subseteq S
    BY <2>1, <2>2, Induction
  <2> QED  BY <2>3 DEF S
<1>10. \A n \in Nat : g[n] \subseteq SolutionType
  BY <1>9 DEF T
<1> QED  BY <1>8, <1>10 DEF g, start, more

LEMMA SolvableFurther ==
  ASSUME NEW n \in Nat, NEW m \in Nat
  PROVE  Solvable[n] \subseteq Solvable[n + m]
<1> DEFINE S == {k \in Nat : Solvable[n] \subseteq Solvable[n + k]}
<1>1. 0 \in S
  OBVIOUS
<1>2. ASSUME NEW k \in Nat, k \in S
      PROVE  k + 1 \in S
  <2>1. n + k \in Nat /\ n + (k + 1) = (n + k) + 1
    OBVIOUS
  <2>2. Solvable[n + k] \subseteq Solvable[(n + k) + 1]
    BY <2>1, SolvableFacts
  <2> QED  BY <1>2, <2>1, <2>2
<1> HIDE DEF S
<1>3. Nat \subseteq S
  BY <1>1, <1>2, Induction
<1>4. m \in S
  BY <1>3
<1> QED  BY <1>4 DEF S

\* What n + 1 steps can complete, n can complete after the first.
LEMMA SolvableStep ==
  ASSUME NEW n \in Nat, NEW sol \in Solvable[n + 1], ~IsComplete(sol)
  PROVE  \E new \in Successors(sol) : new \in Solvable[n]
<1> DEFINE S == {k \in Nat : \A x \in Solvable[k + 1] :
                              ~IsComplete(x) => \E new \in Successors(x) : new \in Solvable[k]}
<1>1. 0 \in S
  <2>1. Solvable[0 + 1] = Solvable[0] \cup
          {x \in SolutionType : ~IsComplete(x) /\ \E new \in Successors(x) : new \in Solvable[0]}
    BY SolvableFacts
  <2>2. \A x \in Solvable[0] : IsComplete(x)
    BY SolvableFacts
  <2> QED  BY <2>1, <2>2
<1>2. ASSUME NEW k \in Nat, k \in S
      PROVE  k + 1 \in S
  <2> SUFFICES ASSUME NEW x \in Solvable[(k + 1) + 1], ~IsComplete(x)
               PROVE  \E new \in Successors(x) : new \in Solvable[k + 1]
    OBVIOUS
  <2>1. k + 1 \in Nat /\ Solvable[k] \subseteq Solvable[k + 1]
    BY SolvableFacts
  <2>2. CASE x \in Solvable[k + 1]
    BY <1>2, <2>1, <2>2
  <2>3. CASE x \notin Solvable[k + 1]
    BY <2>1, <2>3, SolvableFacts
  <2> QED  BY <2>2, <2>3
<1> HIDE DEF S
<1>3. Nat \subseteq S
  BY <1>1, <1>2, Induction
<1>4. n \in S
  BY <1>3
<1> QED  BY <1>4 DEF S

\* Two partial solutions with the same work left, in the same state.
Alike(s, t) == s.state = t.state /\ s.tasks = t.tasks

\* The steps from s to new and from t to other count alike.
CountAlike(s, new, t, other) ==
  \/ new.numDecomps = s.numDecomps /\ other.numDecomps = t.numDecomps
  \/ new.numDecomps = s.numDecomps + 1 /\ other.numDecomps = t.numDecomps + 1

LEMMA AlikeSuccessors ==
  ASSUME NEW s, NEW t, Alike(s, t), ~IsComplete(s), NEW new \in Successors(s)
  PROVE  ~IsComplete(t) /\ \E other \in Successors(t) : Alike(new, other) /\ CountAlike(s, new, t, other)
<1>1. ~IsComplete(t) /\ TopTask(t) = TopTask(s) /\ \A a, sub : LegalStep(a, sub, s) => LegalStep(a, sub, t)
  BY DEF Alike, IsComplete, TopTask, LegalStep
<1>2. CASE \E o \in 1..Len(Operators) : new \in ByOperator(s, o)
  <2>1. PICK o \in 1..Len(Operators) : new \in ByOperator(s, o)
    BY <1>2
  <2>2. PICK sub \in Grounding(Operators[o]) : new = ApplyOperator(s, o, sub) /\ LegalStep(Operators[o], sub, s)
    BY <2>1 DEF ByOperator
  <2>3. ApplyOperator(t, o, sub) \in ByOperator(t, o)
    BY <1>1, <2>2 DEF ByOperator
  <2>4. ApplyOperator(t, o, sub) \in Successors(t)
    BY <2>3 DEF Successors
  <2>5. Alike(new, ApplyOperator(t, o, sub)) /\ CountAlike(s, new, t, ApplyOperator(t, o, sub))
    BY <1>1, <2>2 DEF Alike, CountAlike, ApplyOperator
  <2> QED  BY <1>1, <2>4, <2>5
<1>3. CASE \E m \in 1..Len(Methods) : new \in ByMethod(s, m)
  <2>1. PICK m \in 1..Len(Methods) : new \in ByMethod(s, m)
    BY <1>3
  <2>2. PICK sub \in Grounding(Methods[m]) : new = ApplyMethod(s, m, sub) /\ LegalStep(Methods[m], sub, s)
    BY <2>1 DEF ByMethod
  <2>3. ApplyMethod(t, m, sub) \in ByMethod(t, m)
    BY <1>1, <2>2 DEF ByMethod
  <2>4. ApplyMethod(t, m, sub) \in Successors(t)
    BY <2>3 DEF Successors
  <2>5. Alike(new, ApplyMethod(t, m, sub)) /\ CountAlike(s, new, t, ApplyMethod(t, m, sub))
    BY <1>1, <2>2 DEF Alike, CountAlike, ApplyMethod
  <2> QED  BY <1>1, <2>4, <2>5
<1> QED  BY <1>2, <1>3 DEF Successors

\* What can be completed depends on the work left and on the state only.
LEMMA AlikeSolvable ==
  ASSUME NEW n \in Nat, NEW s \in SolutionType, NEW t \in SolutionType, Alike(s, t),
         WellFormed(s), WellFormed(t), s \in Solvable[n]
  PROVE  t \in Solvable[n]
<1> DEFINE S == {k \in Nat : \A x, y \in SolutionType :
                   Alike(x, y) /\ WellFormed(x) /\ WellFormed(y) /\ x \in Solvable[k] => y \in Solvable[k]}
<1>1. 0 \in S
  BY SolvableFacts DEF Alike, IsComplete
<1>2. ASSUME NEW k \in Nat, k \in S
      PROVE  k + 1 \in S
  <2> SUFFICES ASSUME NEW x \in SolutionType, NEW y \in SolutionType, Alike(x, y), WellFormed(x), WellFormed(y),
                      x \in Solvable[k + 1]
               PROVE  y \in Solvable[k + 1]
    OBVIOUS
  <2>1. CASE x \in Solvable[k]
    BY <1>2, <2>1, SolvableFacts
  <2>2. CASE x \notin Solvable[k]
    <3>1. PICK new \in Successors(x) : ~IsComplete(x) /\ new \in Solvable[k]
      BY <2>2, SolvableFacts
    <3>2. PICK other \in Successors(y) : Alike(new, other) /\ ~IsComplete(y)
      BY <3>1, AlikeSuccessors
    <3>3. /\ new \in SolutionType /\ WellFormed(new) /\ other \in SolutionType /\ WellFormed(other)
      BY <3>1, <3>2, SuccessorFacts
    <3>4. other \in Solvable[k]
      BY <1>2, <3>1, <3>2, <3>3
    <3> QED  BY <3>2, <3>4, SolvableFacts
  <2> QED  BY <2>1, <2>2
<1> HIDE DEF S
<1>3. Nat \subseteq S
  BY <1>1, <1>2, Induction
<1>4. n \in S
  BY <1>3
<1> QED  BY <1>4 DEF S

----------------------------------------------------------------------------
(* The instances a search lists are enough                                 *)

\* Instances of a method that agree on its relevant variables have the same subtasks.
LEMMA SameSubtasks ==
  ASSUME NEW m \in 1..Len(Methods), NEW f \in Grounding(Methods[m]), NEW g \in Grounding(Methods[m]),
         SameOn(f, g, RelevantVariables(Methods[m]))
  PROVE  PushedTasks(m, f) = PushedTasks(m, g)
<1>1. /\ f \in [BoundVariables(Methods[m]) -> Object] /\ g \in [BoundVariables(Methods[m]) -> Object]
      /\ BoundVariables(Methods[m]) \in SUBSET Variable /\ Methods[m].subtasks \in Seq(TaskHead)
  BY MethodFacts DEF Grounding
<1>2. ASSUME NEW i \in 1..Len(Methods[m].subtasks)
      PROVE  TaskAfter(Methods[m].subtasks[i], f) = TaskAfter(Methods[m].subtasks[i], g)
  <2>1. Methods[m].subtasks[i] \in TaskHead
    BY <1>1
  <2>2. Methods[m].subtasks[i].args \in Seq(Term)
    BY <2>1 DEF TaskHead, WithArity
  <2>3. Elems(Methods[m].subtasks[i].args) \cap Variable \subseteq RelevantVariables(Methods[m])
    <3> SUFFICES ASSUME NEW v \in Elems(Methods[m].subtasks[i].args), v \in Variable
                 PROVE  v \in RelevantVariables(Methods[m])
      OBVIOUS
    <3>1. v \in UNION {Elems(Methods[m].subtasks[k].args) : k \in 1..Len(Methods[m].subtasks)}
      OBVIOUS
    <3> QED  BY <3>1 DEF RelevantVariables
  <2>4. AfterSubstitution(Methods[m].subtasks[i].args, f) = AfterSubstitution(Methods[m].subtasks[i].args, g)
    BY <1>1, <2>2, <2>3, SameArguments
  <2> QED  BY <2>4 DEF TaskAfter
<1>3. [i \in 1..Len(Methods[m].subtasks) |-> TaskAfter(Methods[m].subtasks[i], f)]
        = [i \in 1..Len(Methods[m].subtasks) |-> TaskAfter(Methods[m].subtasks[i], g)]
  BY <1>2
<1> QED  BY <1>3, Zenon DEF PushedTasks

\* The search tries every applicable grounding: what the preconditions say binds
\* the variables that are not parameters to constants of the state.
LEMMA ApplicableIsListed ==
  ASSUME NEW a, BoundSafely(a), NEW sub \in Grounding(a), NEW task, NEW state, HeadAfter(a, sub) = task,
         a.precs \subseteq Literal, IsConsistent(a.precs, sub, state)
  PROVE  sub \in Satisfying(a, task, state)
<1>1. sub \in [BoundVariables(a) -> Object]
  BY DEF Grounding
<1>2. ASSUME NEW i \in 1..Len(a.params)
      PROVE  sub[a.params[i]] = task.args[i]
  <2>1. a.params[i] \in DOMAIN sub
    BY <1>1 DEF BoundVariables, Elems
  <2>2. task.args = AfterSubstitution(a.params, sub)
    BY DEF HeadAfter, TaskAfter
  <2> QED  BY <2>1, <2>2 DEF AfterSubstitution, Substituted
<1>3. ASSUME NEW v \in BoundVariables(a) \ (Elems(a.params) \cup BoundByEquality(a))
      PROVE  sub[v] \in ConstantsOf(state)
  <2>1. v \in VariablesOf({l \in a.precs : l.pos /\ l.pred # "="})
    BY DEF BoundSafely
  <2>2. PICK l \in a.precs : l.pos /\ l.pred # "=" /\ v \in Elems(l.args)
    BY <2>1 DEF VariablesOf
  <2>3. AtomAfter(l, sub) \in state
    <3>1. Holds(l, sub, state)
      BY DEF IsConsistent
    <3> QED  BY <2>2, <3>1, Zenon DEF Holds
  <2>4. PICK i \in 1..Len(l.args) : l.args[i] = v
    BY <2>2 DEF Elems
  <2>5. AfterSubstitution(l.args, sub) = [k \in 1..Len(l.args) |-> Substituted(l.args[k], sub)]
    BY DEF AfterSubstitution
  <2>6. Substituted(l.args[i], sub) = sub[v]
    BY <1>1, <2>4 DEF Substituted
  <2>7. AtomAfter(l, sub).args[i] = sub[v]
    BY <2>5, <2>6 DEF AtomAfter
  <2>8. Len(AtomAfter(l, sub).args) = Len(l.args)
    <3>1. Len(l.args) \in Nat
      BY DEF Literal
    <3> QED  BY <2>5, <3>1 DEF AtomAfter
  <2>9. sub[v] \in Elems(AtomAfter(l, sub).args)
    BY <2>4, <2>7, <2>8 DEF Elems
  <2> QED  BY <2>3, <2>9 DEF ConstantsOf
<1> QED  BY <1>2, <1>3 DEF Satisfying

\* A primitive task is carried out, another one is decomposed.
LEMMA StepOfItsKind ==
  ASSUME NEW sol \in SolutionType, NEW new \in Successors(sol)
  PROVE  IF TopTask(sol).name \in Primitive
           THEN \E o \in 1..Len(Operators) : Operators[o].name = TopTask(sol).name /\ new \in ByOperator(sol, o)
           ELSE \E m \in 1..Len(Methods) : new \in ByMethod(sol, m)
<1>1. CASE \E o \in 1..Len(Operators) : new \in ByOperator(sol, o)
  <2>1. PICK o \in 1..Len(Operators) : new \in ByOperator(sol, o)
    BY <1>1
  <2>2. PICK sub \in Grounding(Operators[o]) : LegalStep(Operators[o], sub, sol)
    BY <2>1 DEF ByOperator
  <2>3. Operators[o].name = TopTask(sol).name
    BY <2>2 DEF LegalStep, HeadAfter, TaskAfter
  <2>4. Operators[o].name \in Primitive
    BY OperatorFacts DEF OperatorType
  <2> QED  BY <2>1, <2>3, <2>4
<1>2. CASE \E m \in 1..Len(Methods) : new \in ByMethod(sol, m)
  <2>1. PICK m \in 1..Len(Methods) : new \in ByMethod(sol, m)
    BY <1>2
  <2>2. PICK sub \in Grounding(Methods[m]) : LegalStep(Methods[m], sub, sol)
    BY <2>1 DEF ByMethod
  <2>3. Methods[m].name = TopTask(sol).name
    BY <2>2 DEF LegalStep, HeadAfter, TaskAfter
  <2>4. Methods[m].name \in Compound
    BY MethodFacts DEF MethodType
  <2> QED  BY <2>1, <2>3, <2>4, DomainAssumption
<1> QED  BY <1>1, <1>2 DEF Successors

\* Every legal step by an operator is as good as those that agree with one of
\* its instances on the parameters.
LEMMA OperatorCovered ==
  ASSUME NEW sol \in SolutionType, Listable, NEW o \in 1..Len(Operators), NEW new \in ByOperator(sol, o)
  PROVE  \E sub \in OperatorInstances(Operators[o], TopTask(sol), sol.state) :
           \A other \in Grounding(Operators[o]) :
             SameOn(other, sub, Elems(Operators[o].params)) => Alike(new, ApplyOperator(sol, o, other))
<1>1. PICK sub \in Grounding(Operators[o]) : new = ApplyOperator(sol, o, sub) /\ LegalStep(Operators[o], sub, sol)
  BY DEF ByOperator
<1>2. HeadAfter(Operators[o], sub) = TopTask(sol) /\ IsConsistent(Operators[o].precs, sub, sol.state)
  BY <1>1 DEF LegalStep
<1>3. Operators[o].precs \subseteq Literal /\ BoundSafely(Operators[o])
  BY OperatorFacts DEF OperatorType, Listable
<1>4. sub \in OperatorInstances(Operators[o], TopTask(sol), sol.state)
  BY <1>2, <1>3, ApplicableIsListed DEF OperatorInstances
<1>5. ASSUME NEW other \in Grounding(Operators[o]), SameOn(other, sub, Elems(Operators[o].params))
      PROVE  Alike(new, ApplyOperator(sol, o, other))
  <2>1. /\ BoundVariables(Operators[o]) \in SUBSET Variable
        /\ \A l \in Operators[o].effects : l \in Literal
        /\ VariablesOf(Operators[o].effects) \subseteq Elems(Operators[o].params)
        /\ other \in [BoundVariables(Operators[o]) -> Object] /\ sub \in [BoundVariables(Operators[o]) -> Object]
    BY OperatorFacts DEF Listable, Grounding
  <2>2. NextState(Operators[o], other, sol.state) = NextState(Operators[o], sub, sol.state)
    BY <1>5, <2>1, SameEffects
  <2> QED  BY <1>1, <2>2 DEF Alike, ApplyOperator
<1> QED  BY <1>4, <1>5

\* And every one by a method.
LEMMA MethodCovered ==
  ASSUME NEW sol \in SolutionType, Listable, NEW m \in 1..Len(Methods), NEW new \in ByMethod(sol, m)
  PROVE  \E sub \in MethodInstances(Methods[m], TopTask(sol), sol.state) :
           \A other \in Grounding(Methods[m]) :
             SameOn(other, sub, RelevantVariables(Methods[m])) => Alike(new, ApplyMethod(sol, m, other))
<1>1. PICK sub \in Grounding(Methods[m]) : new = ApplyMethod(sol, m, sub) /\ LegalStep(Methods[m], sub, sol)
  BY DEF ByMethod
<1>2. HeadAfter(Methods[m], sub) = TopTask(sol) /\ IsConsistent(Methods[m].precs, sub, sol.state)
  BY <1>1 DEF LegalStep
<1>3. Methods[m].name = TopTask(sol).name
  BY <1>2 DEF HeadAfter, TaskAfter
<1>4. Methods[m].precs \subseteq Literal /\ BoundSafely(Methods[m])
  BY MethodFacts DEF MethodType, Listable
<1>5. sub \in MethodInstances(Methods[m], TopTask(sol), sol.state)
  BY <1>2, <1>3, <1>4, ApplicableIsListed DEF MethodInstances
<1>6. ASSUME NEW other \in Grounding(Methods[m]), SameOn(other, sub, RelevantVariables(Methods[m]))
      PROVE  Alike(new, ApplyMethod(sol, m, other))
  <2>1. PushedTasks(m, other) = PushedTasks(m, sub)
    BY <1>6, SameSubtasks
  <2> QED  BY <1>1, <2>1 DEF Alike, ApplyMethod
<1> QED  BY <1>5, <1>6
=============================================================================
