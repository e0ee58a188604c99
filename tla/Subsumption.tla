---------------------------- MODULE Subsumption ----------------------------
(***************************************************************************)
(* The search by which HtnMethod::Subsumes decides whether method mine     *)
(* subsumes method his: NewCanSubsume and its helpers, with the recursion  *)
(* as a stack.  A frame is one call that is trying its first formula       *)
(* against the preconditions of his, one of them per step.  The formulas   *)
(* are predicates, equalities and inequalities between variables; for      *)
(* another negation the code throws.                                       *)
(***************************************************************************)
EXTENDS HtnMethods

CONSTANT Pairs  \* the pairs <<mine, his>> of bodies to compare

\* Methods as htn-maker learns them: CreateMethod throws at a constant, and
\* Subsumes takes every argument of a head or a subtask for a variable.
LearnedLiteral ==
  {l \in [pos : BOOLEAN, pred : Predicate \cup {"="}, args : Seq(Variable)] :
     (l.pred = "=" => Len(l.args) = 2) /\ (~l.pos => l.pred = "=")}

LearnedType ==
  [name : Compound, params : Seq(Variable), precs : SUBSET LearnedLiteral,
   subtasks : Seq(WithArity([name : TaskName, args : Seq(Variable)]))]

ASSUME PairsAssumption == Pairs \subseteq LearnedType \X LearnedType

VARIABLES mine, his,  \* this and p_pOther
          stack,      \* the calls under way, the innermost one last
          verdict     \* "unknown" until the search returns

vars == <<mine, his, stack, verdict>>

\* MakeTempOldId and MakeTempNewId keep the variables of the two methods apart.
Old(v) == <<"?temp_old_", v>>
New(v) == <<"?temp_new_", v>>
IsOld(t) == t[1] = "?temp_old_"

OldVars(l) == {t \in Elems(l.args) : IsOld(t)}
AsOld(form) == {[l EXCEPT !.args = [i \in 1..Len(@) |-> Old(@[i])]] : l \in form}
AsNew(form) == {[l EXCEPT !.args = [i \in 1..Len(@) |-> New(@[i])]] : l \in form}

MyPrecs  == AsOld(mine.precs)
HisPrecs == AsNew(his.precs)

\* l_MasterSubs: what the heads and subtasks make of my variables.
MasterPairs == {<<Old(p[1]), New(p[2])>> : p \in MustMatch(mine, his)}

\* SortableNodeClosest: equalities, predicates, negations; then the one with the
\* fewest old variables; then the longest.
Rank(l) == IF ~l.pos THEN 2 ELSE IF l.pred = "=" THEN 0 ELSE 1

Closer(k, l) ==
  \/ Rank(k) < Rank(l)
  \/ /\ Rank(k) = Rank(l)
     /\ \/ Cardinality(OldVars(k)) < Cardinality(OldVars(l))
        \/ Cardinality(OldVars(k)) = Cardinality(OldVars(l)) /\ Len(k.args) > Len(l.args)

\* std::sort may put any of the closest ones first.
Closest(form) == {l \in form : \A k \in form : ~Closer(k, l)}

\* Slip: an inequality is taken to be there.
RefutedByPositive(form, sub) ==
  \E l \in FormulaAfter(form, sub) : l.pos /\ OldVars(l) = {} /\ ~ImpliesLiteral(HisPrecs, l)

\* What is left to match once sub is applied, and whether a formula that has no
\* old variable any more is missing from his preconditions.
StillOpen(form, sub) == {l \in FormulaAfter(form, sub) : OldVars(l) # {}}
Refuted(form, sub) ==
  \E l \in FormulaAfter(form, sub) : OldVars(l) = {} /\ ~ImpliesLiteral(HisPrecs, l)

PairsOf(l, k) == {<<l.args[i], k.args[i]>> : i \in 1..Len(l.args)}

\* The loop bodies of NewCanSubsumePredicate, -Equality and -Negation match the
\* arguments one by one, in the order they are written.
Unifies(l, k) ==
  /\ l.pos = k.pos /\ l.pred = k.pred /\ Len(l.args) = Len(k.args)
  /\ \A p \in PairsOf(l, k) : ~IsOld(p[1]) => p[1] = p[2]
  /\ IsFunctional(PairsOf(l, k))

Unifier(l, k) == MatchOf({p \in PairsOf(l, k) : IsOld(p[1])})

----------------------------------------------------------------------------
\* A call of NewCanSubsume on formulas form with sub, under the calls below.
Call(form, sub, below) ==
  IF Refuted(form, sub) THEN stack' = below /\ verdict' = verdict
  ELSE IF StillOpen(form, sub) = {} THEN stack' = <<>> /\ verdict' = "yes"
  ELSE /\ \E l \in Closest(StillOpen(form, sub)) :
            stack' = Append(below, [form |-> StillOpen(form, sub), first |-> l, untried |-> HisPrecs])
       /\ verdict' = verdict

Init == (\E p \in Pairs : mine = p[1] /\ his = p[2]) /\ stack = <<>> /\ verdict = "unknown"

\* Subsumes up to the first call.
Compare ==
  /\ verdict = "unknown"
  /\ IF SameShape(mine, his) /\ IsFunctional(MasterPairs)
     THEN verdict' = "searching" /\ stack' = <<>>
     ELSE verdict' = "no" /\ stack' = <<>>
  /\ UNCHANGED <<mine, his>>

Begin ==
  /\ verdict = "searching" /\ stack = <<>>
  /\ IF Refuted(MyPrecs, MatchOf(MasterPairs))
     THEN stack' = <<>> /\ verdict' = "no"
     ELSE Call(MyPrecs, MatchOf(MasterPairs), <<>>)
  /\ UNCHANGED <<mine, his>>

Top == stack[Len(stack)]

\* Slip: after a call that fails, the formula is not tried any further.
TryOnce ==
  /\ verdict = "searching" /\ stack # <<>> /\ Top.untried # {}
  /\ LET k    == CHOOSE l \in Top.untried : TRUE
         rest == [stack EXCEPT ![Len(stack)].untried = {}]
     IN  IF Unifies(Top.first, k) THEN Call(Top.form, Unifier(Top.first, k), rest)
         ELSE stack' = [stack EXCEPT ![Len(stack)].untried = @ \ {k}] /\ verdict' = verdict
  /\ UNCHANGED <<mine, his>>

\* One of his preconditions against the first formula: if they match, recurse.
Try ==
  /\ verdict = "searching" /\ stack # <<>> /\ Top.untried # {}
  /\ LET k    == CHOOSE l \in Top.untried : TRUE
         rest == [stack EXCEPT ![Len(stack)].untried = @ \ {k}]
     IN  IF Unifies(Top.first, k) THEN Call(Top.form, Unifier(Top.first, k), rest)
         ELSE stack' = rest /\ verdict' = verdict
  /\ UNCHANGED <<mine, his>>

\* No precondition matched: this call fails.
Return ==
  /\ verdict = "searching" /\ stack # <<>> /\ Top.untried = {}
  /\ stack' = SubSeq(stack, 1, Len(stack) - 1)
  /\ verdict' = IF Len(stack) = 1 THEN "no" ELSE verdict
  /\ UNCHANGED <<mine, his>>

Next == Compare \/ Begin \/ Try \/ Return

Spec == Init /\ [][Next]_vars

----------------------------------------------------------------------------
(* Correctness                                                             *)

\* A yes of the search is never wrong: the substitution that the nested calls
\* put together one formula at a time is one the definition asks for.
YesIsRight == verdict = "yes" => SubsumesByDefinition(mine, his)

\* The search matches an equation only as it is written.  That matters for one
\* that is matched before its variables are known.
OrientationMatters ==
  LET known == RelevantVariables(mine)
      inPredicates == VariablesOf({l \in mine.precs : l.pred # "="})
  IN  \E l \in mine.precs : l.pred = "=" /\
        ~(VariablesOf({l}) \subseteq known \cup (IF l.pos THEN {} ELSE inPredicates))

\* Nor is a no, whatever order the sort leaves equally close formulas in.
NoIsRight == verdict = "no" /\ ~OrientationMatters => ~SubsumesByDefinition(mine, his)
============================================================================
