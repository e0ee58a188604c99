-------------------------- MODULE PartialHtnMethod --------------------------
(***************************************************************************)
(* A method in the making: class PartialHtnMethod, which regresses the     *)
(* effects of a task backwards through a plan.  Operators and methods that *)
(* were added are the pieces, latest first; the lists of remaining adds    *)
(* and preconditions are sets.  The order in which the code meets          *)
(* formulas decides only which of several equal variables keeps its name.  *)
(***************************************************************************)
EXTENDS HtnMethods

\* MakeVarId and MakeOldId: names no domain file uses.  n is how many were made.
CreatedVar(n) == "?auto_" \o ToString(n)
WithName(f, vs, name) ==
  LET new == CHOOSE v \in vs : v \notin DOMAIN f
  IN  [v \in DOMAIN f \cup {new} |-> IF v = new THEN name ELSE f[v]]
NewVars(vs, n) ==
  LET after[i \in 0..Cardinality(vs)] == IF i = 0 THEN <<>> ELSE WithName(after[i - 1], vs, CreatedVar(n + i))
  IN  after[Cardinality(vs)]

\* A list of formulas without repetition, to which more are appended.
WithNew(form, more) ==
  form \cup {l \in more : ~ImpliesLiteral(form, l) /\ l = CHOOSE k \in more : SameLiteral(k, l)}

\* TermVariable::AfterSubstitution follows chains, as far as MAX_SUBS_DEPTH.
MaxSubsDepth == 10
Chased(v, sub) ==
  LET after[n \in 0..MaxSubsDepth] == IF n = 0 THEN v ELSE Substituted(after[n - 1], sub)
  IN  after[MaxSubsDepth]
ChasedIn(form, sub) == FormulaAfter(form, [v \in DOMAIN sub |-> Chased(v, sub)])
SubsRecurse(form, sub) == \E l \in form : \E v \in Elems(l.args) : Chased(v, sub) \in DOMAIN sub

\* The constructor and GetNewTaskVars: vars stand for those of the ground task.
NewPartial(task, ground, vars, final) ==
  [task |-> task, taskSub |-> vars, master |-> [v \in Range(vars) |-> ground[CHOOSE x \in DOMAIN vars : vars[x] = v]],
   adds |-> WithNew({}, FormulaAfter(task.effects, vars)), precs |-> {}, pieces |-> <<>>,
   init |-> 0, final |-> final, current |-> final, cost |-> 0]

GroundAfter(form, p) == FormulaAfter(form, p.master)

\* Slip: only the task's effects are looked at.
SuppliesEffect(effects, p) == \E l \in GroundAfter(p.adds, p) : ImpliesLiteral(effects, l)

\* SuppliesPrec and SuppliesEffect.
Supplies(effects, p) == \E l \in GroundAfter(p.precs \cup p.adds, p) : ImpliesLiteral(effects, l)

\* SuppliesNewPrec and SuppliesNewEffect.
SuppliesNew(effects, old, p) ==
  \E l \in GroundAfter(p.precs \cup p.adds, p) : ImpliesLiteral(effects, l) /\ ~ImpliesLiteral(old, l)

\* DoesOperatorConflict and DoesMethodConflict.
Conflicts(p, before, after) ==
  \E i \in 1..Len(p.pieces) : before < p.pieces[i].after /\ p.pieces[i].before < after

----------------------------------------------------------------------------
(* CreateNewVars                                                           *)

\* FindIndexByTerm: the variable that stands for each constant met before.
Representatives(p, real) ==
  {f \in [Range(real) \cap Range(p.master) -> DOMAIN p.master] : \A c \in DOMAIN f : p.master[f[c]] = c}

\* One new variable for each variable of the operator or method.
NewVarsForAll(real, n) == NewVars(DOMAIN real, n)

\* With partial generalization, one for each constant not met before.
NewVarsForConstants(real, known, n) ==
  LET new == NewVars(Range(real) \ DOMAIN known, n)
  IN  [v \in DOMAIN real |-> IF real[v] \in DOMAIN known THEN known[real[v]] ELSE new[real[v]]]

WithVars(p, real, sub) ==
  [p EXCEPT !.master = Joint([v \in Range(sub) |-> real[CHOOSE x \in DOMAIN sub : sub[x] = v]], @)]

----------------------------------------------------------------------------
(* ProcessEffects                                                          *)

Adds(effects) == {e \in effects : e.pos /\ e.pred # "="}

\* Slip: only the task's effects are struck out.
StrikeAddsOnly(p, effects, sub) == [p EXCEPT !.adds = @ \ FormulaAfter(Adds(effects), sub)]

\* With partial generalization formulas that are supplied are equal already.
Strike(p, effects, sub) ==
  [p EXCEPT !.adds = @ \ FormulaAfter(Adds(effects), sub), !.precs = @ \ FormulaAfter(Adds(effects), sub)]

RenameValues(sub, old, new) == [v \in DOMAIN sub |-> IF sub[v] = old THEN new ELSE sub[v]]

\* Substitution::ReplaceTerm on the master, whose two variables are equal.
RenameKeys(master, old, new) ==
  [v \in (DOMAIN master \ {old}) \cup {new} |-> IF v = new THEN master[old] ELSE master[v]]

\* Slip: the pieces that were there keep the old name.
ReplaceTermInTask(a, old, new) ==
  [p        |-> [a.p EXCEPT !.taskSub = RenameValues(@, old, new), !.master = RenameKeys(@, old, new)],
   sub      |-> RenameValues(a.sub, old, new),
   replaced |-> Joint([v \in {old} |-> new], a.replaced), threw |-> (a.threw \/ old \in DOMAIN a.replaced)]

\* DoAddListTermReplacement: the same variable from here on, in the new piece,
\* the task and every piece.  AddPair throws if old was replaced before.
ReplaceTerm(a, old, new) ==
  LET renamed(piece) == [piece EXCEPT !.sub = RenameValues(@, old, new)]
  IN  [p        |-> [a.p EXCEPT !.taskSub = RenameValues(@, old, new), !.master = RenameKeys(@, old, new),
                                !.pieces = [i \in 1..Len(@) |-> renamed(@[i])]],
       sub      |-> RenameValues(a.sub, old, new),
       replaced |-> Joint([v \in {old} |-> new], a.replaced), threw |-> (a.threw \/ old \in DOMAIN a.replaced)]

\* DoAddListUnification and DoPrecondUnification without the erasure: effect e
\* and formula l, argument by argument, as l was written at the start.
Unified(a, e, l) ==
  LET next(b, i) == IF b.sub[e.args[i]] = l.args[i] THEN b ELSE ReplaceTerm(b, b.sub[e.args[i]], l.args[i])
      after[i \in 0..Len(l.args)] == IF i = 0 THEN [a EXCEPT !.replaced = <<>>] ELSE next(after[i - 1], i)
  IN  after[Len(l.args)]

\* UpdateAddsAndPrecs.
Updated(a) ==
  LET p == [a.p EXCEPT !.adds = WithNew({}, ChasedIn(@, a.replaced)), !.precs = WithNew({}, ChasedIn(@, a.replaced))]
  IN  [a EXCEPT !.p = p, !.threw = @ \/ SubsRecurse(a.p.adds \cup a.p.precs, a.replaced)]

\* The formulas of a list that the effect supplies.
SuppliedBy(e, real, form, p) == {l \in form : LiteralAfter(l, p.master) = LiteralAfter(e, real)}

\* The effects that supply something.
Supplying(b, effects, real) ==
  {e \in Adds(effects) : SuppliedBy(e, real, b.p.adds \cup b.p.precs, b.p) # {}}

\* One round of the loops over the two lists, the task's effects first, which
\* start again after each unification.
UnifyOnce(b, effects, real) ==
  IF b.threw \/ Supplying(b, effects, real) = {} THEN b
  ELSE LET e     == CHOOSE e \in Supplying(b, effects, real) : TRUE
           adds  == SuppliedBy(e, real, b.p.adds, b.p)
           precs == SuppliedBy(e, real, b.p.precs, b.p)
           l     == CHOOSE l \in IF adds # {} THEN adds ELSE precs : TRUE
           left  == IF adds # {} THEN [b.p EXCEPT !.adds = @ \ {l}] ELSE [b.p EXCEPT !.precs = @ \ {l}]
       IN  Updated(Unified([b EXCEPT !.p = left], e, l))

\* As often as there are formulas, since each round strikes one out.
Unify(p, effects, real, sub) ==
  LET rounds == Cardinality(p.adds) + Cardinality(p.precs)
      after[n \in 0..rounds] ==
        IF n = 0 THEN [p |-> p, sub |-> sub, replaced |-> <<>>, threw |-> FALSE]
        ELSE UnifyOnce(after[n - 1], effects, real)
  IN  after[rounds]

----------------------------------------------------------------------------
(* AddOperator, AddMethod                                                  *)

\* A piece: what is called, its effects, its variables and where it stands.
PieceOf(head, effects, sub, before, after) ==
  [head |-> head, effects |-> effects, sub |-> sub, before |-> before, after |-> after]

\* Slip: the cost is that of the last piece alone.
WithPieceAtCost(p, head, precs, effects, sub, before, cost) ==
  [p EXCEPT !.precs = WithNew(@, FormulaAfter(precs, sub)),
            !.pieces = Append(@, PieceOf(head, effects, sub, before, p.current)),
            !.current = before, !.cost = cost]

\* The end of both: the preconditions become outstanding, the piece is added.
\* ProcessEffects comes before, so a piece does not supply itself.
WithPiece(p, head, precs, effects, sub, before, cost) ==
  [p EXCEPT !.precs = WithNew(@, FormulaAfter(precs, sub)),
            !.pieces = Append(@, PieceOf(head, effects, sub, before, p.current)),
            !.current = before, !.cost = @ + cost]

----------------------------------------------------------------------------
(* CreateMethod and what is asked of it                                    *)

LiftedPrecs(p)   == FormulaAfter(p.task.precs, p.taskSub)
LiftedEffects(p) == FormulaAfter(p.task.effects, p.taskSub)

\* GetActualEffects: of two effects on an atom, the one of the later piece; of
\* one piece, the one that comes first.
Opposite(l) == [l EXCEPT !.pos = ~@]
ActualEffects(p) ==
  LET of(i) == FormulaAfter(p.pieces[i].effects, p.pieces[i].sub)
  IN  UNION {{l \in of(i) : /\ l = CHOOSE k \in of(i) : k \in {l, Opposite(l)}
                            /\ \A j \in 1..(i - 1) : Opposite(l) \notin of(j)} : i \in 1..Len(p.pieces)}

RemainingAddListSatisfied(p, state) == IsConsistent(p.adds, p.master, state)

\* CreateInequalities: of any two variables, unless it is said already.
Unequal(pair) ==
  LET v == CHOOSE v \in pair : TRUE
  IN  [pos |-> FALSE, pred |-> "=", args |-> <<v, CHOOSE w \in pair : w # v>>]
Inequalities(precs, vars) ==
  {l \in {Unequal({p[1], p[2]}) : p \in {q \in vars \X vars : q[1] # q[2]}} : ~ImpliesLiteral(precs, l)}

\* Slip: what is left of the task's effects is not a precondition.
PrecsWithoutAdds(p) == WithNew(WithNew({}, LiftedPrecs(p)), p.precs)

\* The task's preconditions, the outstanding ones and the remaining effects.
MethodPrecs(p) == WithNew(WithNew(WithNew({}, LiftedPrecs(p)), p.precs), p.adds)

\* Subtasks are in the order of the plan, the verifier last.
CreateMethod(p, verifier, generalization) ==
  LET params   == AfterSubstitution(p.task.params, p.taskSub)
      pieces   == Reverse(p.pieces)
      subtasks == [i \in 1..Len(pieces) |-> TaskAfter(pieces[i].head, pieces[i].sub)]
      vars     == VariablesOf(MethodPrecs(p)) \cup UNION {Elems(subtasks[i].args) : i \in 1..Len(subtasks)}
  IN  [name |-> p.task.name, params |-> params,
       precs |-> MethodPrecs(p)
                   \cup IF generalization
                        THEN Inequalities(MethodPrecs(p), vars \cup Elems(params)) ELSE {},
       subtasks |-> subtasks \o [i \in 1..Len(verifier) |-> [name |-> verifier[i], args |-> params]]]
============================================================================
