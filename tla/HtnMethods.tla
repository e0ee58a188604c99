----------------------------- MODULE HtnMethods -----------------------------
(***************************************************************************)
(* What htn-maker does with whole methods: renaming, subsumption, the link *)
(* of subtasks to the head, and the checkers of non-deterministic          *)
(* operators.  A body is an HtnMethod without its id and Q-values.         *)
(***************************************************************************)
EXTENDS HtnDomain, SequencesExt

CONSTANT CheckerOf  \* the check task of each operator that is an outcome "-xx"

\* The name of a non-deterministic operator "!x-01" gives "check-x".
ASSUME CheckerAssumption == CheckerOf \in [DOMAIN CheckerOf -> Compound] /\ DOMAIN CheckerOf \subseteq Primitive

\* FormulaEqu::Equal takes (= a b) and (= b a) for the same.
SameLiteral(k, l) ==
  \/ k = l
  \/ k.pred = "=" /\ l.pred = "=" /\ k.pos = l.pos /\ k.args = Reverse(l.args)

\* What one literal implies: only itself.
ImpliesLiteral(form, l) == \E k \in form : SameLiteral(k, l)

\* FormulaConj::Implies of two conjunctions.
Implies(form, other) == \A l \in other : ImpliesLiteral(form, l)

\* A copy of sub to which the pairs of f, of other variables, are added.
Joint(f, sub) == [v \in DOMAIN f \cup DOMAIN sub |-> IF v \in DOMAIN f THEN f[v] ELSE sub[v]]

LiteralAfter(l, sub) == [l EXCEPT !.args = AfterSubstitution(@, sub)]
FormulaAfter(form, sub) == {LiteralAfter(l, sub) : l \in form}

\* HtnMethod::AfterSubstitution.
MethodAfter(b, sub) ==
  [b EXCEPT !.params = AfterSubstitution(@, sub), !.precs = FormulaAfter(@, sub),
            !.subtasks = [i \in 1..Len(@) |-> TaskAfter(@[i], sub)]]

\* HtnMethod::GetVariables.
MethodVariables(b) == RelevantVariables(b) \cup VariablesOf(b.precs)

----------------------------------------------------------------------------
(* Subsumption                                                             *)

\* Two task heads, or two heads of methods, that a substitution may make equal.
SameShape(a, b) ==
  /\ a.name = b.name /\ Len(a.params) = Len(b.params) /\ Len(a.subtasks) = Len(b.subtasks)
  /\ \A i \in 1..Len(a.subtasks) : a.subtasks[i].name = b.subtasks[i].name

\* The pairs of terms that must match: those of the heads and of the subtasks.
MustMatch(a, b) ==
  {<<a.params[i], b.params[i]>> : i \in 1..Len(a.params)}
    \cup UNION {{<<a.subtasks[i].args[j], b.subtasks[i].args[j]>> :
                   j \in 1..Len(a.subtasks[i].args)} : i \in 1..Len(a.subtasks)}

IsFunctional(pairs) == \A p, q \in pairs : p[1] = q[1] => p[2] = q[2]

MatchOf(pairs) == [v \in {p[1] : p \in pairs} |-> (CHOOSE p \in pairs : p[1] = v)[2]]

\* What HtnMethod::Subsumes is documented to decide: some substitution of the
\* variables of a gives both the same head and subtasks, and makes the
\* preconditions of b imply those of a.
SubsumesByDefinition(a, b) ==
  /\ SameShape(a, b) /\ IsFunctional(MustMatch(a, b))
  /\ LET fixed == MatchOf(MustMatch(a, b))
         free  == MethodVariables(a) \ DOMAIN fixed
     IN  \E f \in [free -> MethodVariables(b)] :
           \A l \in a.precs : ImpliesLiteral(b.precs, LiteralAfter(l, Joint(f, fixed)))

----------------------------------------------------------------------------
(* Linkage and checkers                                                    *)

\* The terms SubtasksArePartiallyLinked comes to from one subtask, in at most
\* n rounds: a predicate of the preconditions leads from each argument to all.
ReachedFrom(b, task) ==
  LET precs == {l \in b.precs : l.pos /\ l.pred # "="}
      reached[n \in 0..Cardinality(precs)] ==
        IF n = 0 THEN Elems(task.args)
        ELSE LET old == reached[n - 1]
             IN  old \cup UNION {Elems(l.args) : l \in {k \in precs : Elems(k.args) \cap old # {}}}
  IN  reached[Cardinality(precs)]

Linked(b) == \A i \in 1..Len(b.subtasks) : ReachedFrom(b, b.subtasks[i]) \cap Elems(b.params) # {}

\* It throws at the first precondition that is not a predicate, which it comes
\* to with the first subtask whose first argument is no parameter of the head.
LinkageThrows(b) ==
  \E i \in 1..Len(b.subtasks) :
    /\ Len(b.subtasks[i].args) > 0 /\ b.subtasks[i].args[1] \notin Elems(b.params)
    /\ \A j \in 1..(i - 1) :
         Len(b.subtasks[j].args) > 0 /\ b.subtasks[j].args[1] \in Elems(b.params)
    /\ \E l \in b.precs : ~l.pos \/ l.pred = "="

CheckTask(task) == [name |-> CheckerOf[task.name], args |-> task.args]
CheckNames == {CheckerOf[o] : o \in DOMAIN CheckerOf}

\* Every outcome of a non-deterministic operator is followed by its checker.
SubtasksWithCheckers(b) ==
  LET st == b.subtasks
      checkers(i) ==
        IF st[i].name \in DOMAIN CheckerOf /\ ~(i < Len(st) /\ st[i + 1] = CheckTask(st[i]))
        THEN <<CheckTask(st[i])>> ELSE <<>>
      after[i \in 0..Len(st)] ==
        IF i = 0 THEN <<>> ELSE after[i - 1] \o <<st[i]>> \o checkers(i)
  IN  after[Len(st)]

HeadOf(b) == [name |-> b.name, args |-> b.params]

\* AddNdCheckers, for a method with subtasks: a checker calls itself last.  (It
\* looks at the last subtask also where there is none, which is undefined.)
WithNdCheckers(b) ==
  LET st == SubtasksWithCheckers(b)
  IN  [b EXCEPT !.subtasks = IF b.name \in CheckNames /\ Last(st) # HeadOf(b)
                             THEN Append(st, HeadOf(b)) ELSE st]

NdCheckersUndefined(b) == b.name \in CheckNames /\ b.subtasks = <<>>
============================================================================
