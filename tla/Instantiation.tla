---------------------------- MODULE Instantiation ----------------------------
(***************************************************************************)
(* State::GetInstantiations: the search for the substitutions that make    *)
(* preconditions true in a state, which every planner and the learner rest *)
(* on.  Its overloads and the handlers of the kinds of formula call each   *)
(* other recursively; here a frame of the stack is the loop of one handler *)
(* over the bindings of its first formula.  An untyped domain is one with  *)
(* a single type.                                                          *)
(***************************************************************************)
EXTENDS HtnMethods

CONSTANTS TypeOf,  \* the type of each object and variable
          Calls    \* the calls [params, precs, sub, rel, state] to make

\* The preconditions are predicates and equations, the substitution binds
\* variables to constants.
CallType ==
  [params : Seq(Variable), precs : SUBSET {l \in Literal : l.pred = "=" => Len(l.args) = 2},
   sub : UNION {[vs -> Object] : vs \in SUBSET Variable}, rel : SUBSET Variable, state : SUBSET Atom]

ASSUME CallAssumption == Calls \subseteq CallType

VARIABLES call,
          parts,    \* l_vParts: substitutions still to be extended
          stack,    \* the handlers under way, the innermost one last
          results,  \* what is returned
          status

vars == <<call, parts, stack, results, status>>

IsGround(l) == Elems(l.args) \cap Variable = {}

Fits(f) == \A v \in DOMAIN f : TypeOf[v] = TypeOf[f[v]]

----------------------------------------------------------------------------
(* FormulaPMostSpecified: the formula with the fewest bindings goes first  *)

AtomsLike(l, state) ==
  {a \in state : /\ a.pred = l.pred /\ Len(a.args) = Len(l.args)
                 /\ \A i \in 1..Len(a.args) : l.args[i] \in Object => l.args[i] = a.args[i]}

Rank(l) == IF ~l.pos THEN 2 ELSE IF l.pred = "=" THEN 0 ELSE 1

MoreSpecified(k, l) ==
  \/ Rank(k) < Rank(l)
  \/ Rank(k) = 1 /\ Rank(l) = 1
       /\ Cardinality(AtomsLike(k, call.state)) < Cardinality(AtomsLike(l, call.state))
  \/ Rank(k) = Rank(l) /\ Rank(k) # 1
       /\ LET consts(m) == Cardinality(Elems(m.args) \cap Object)
              variables(m) == Cardinality(Elems(m.args) \cap Variable)
          IN  consts(k) > consts(l) \/ (consts(k) = consts(l) /\ variables(k) < variables(l))

\* std::sort may put any of the most specified ones first.
MostSpecified(form) == {l \in form : \A k \in form : ~MoreSpecified(k, l)}

----------------------------------------------------------------------------
(* The handlers                                                            *)

\* GetInstantiationsDoublePredicate: the variables of l against those of atom a.
PairsOf(l, a) == {<<l.args[i], a.args[i]>> : i \in {j \in 1..Len(l.args) : l.args[j] \in Variable}}

PredicateBindings(l) ==
  {f \in {MatchOf(PairsOf(l, a)) : a \in {b \in AtomsLike(l, call.state) : IsFunctional(PairsOf(l, b))}} : Fits(f)}

\* The variable of an equation can only be the constant, of whatever state.
EqualityBindings(l) == {f \in [VariablesOf({l}) -> Elems(l.args) \cap Object] : Fits(f)}

\* Every constant, or every pair of two, that makes the equation false.
NegationBindings(l) ==
  {f \in [VariablesOf({l}) -> ConstantsOf(call.state)] : Fits(f) /\ Holds(l, f, call.state)}

Bindings(l) ==
  IF ~l.pos THEN NegationBindings(l) ELSE IF l.pred = "=" THEN EqualityBindings(l) ELSE PredicateBindings(l)

\* GetInstantiationsEquality with two variables, equal or not, renames one to
\* the other in a substitution that binds neither, and calls with what it got.
Recurses(l) == l.pos /\ l.pred = "=" /\ Elems(l.args) \subseteq Variable /\ TypeOf[l.args[1]] = TypeOf[l.args[2]]

\* GetInstantiationsNegation of anything but an equation.
Throws(l) == ~l.pos /\ l.pred # "="

----------------------------------------------------------------------------
\* CopyVectorsAndDelete: what a call found goes to the one that made it.
Give(found, below) ==
  IF below = <<>> THEN results' = results \cup found /\ stack' = <<>>
  ELSE stack' = [below EXCEPT ![Len(below)].found = @ \cup found] /\ results' = results

StillOpen(form, sub) == {l \in FormulaAfter(form, sub) : ~IsGround(l)}

\* Slip: a ground formula is only looked at if it is negated.
RefutedByNegation(form, sub) ==
  \E l \in FormulaAfter(form, sub) : IsGround(l) /\ ~l.pos /\ ~Holds(l, <<>>, call.state)

Refuted(form, sub) == \E l \in FormulaAfter(form, sub) : IsGround(l) /\ ~Holds(l, <<>>, call.state)

\* GetInstantiations of a vector of formulas.
Enter(form, sub, rel, below) ==
  \/ /\ Refuted(form, sub) /\ Give({}, below) /\ status' = status
  \/ /\ ~Refuted(form, sub) /\ StillOpen(form, sub) = {}
     /\ Give({sub}, below) /\ status' = status
  \/ /\ ~Refuted(form, sub)
     /\ \E l \in MostSpecified(StillOpen(form, sub)) :
          IF Recurses(l) \/ Throws(l)
          THEN status' = (IF Throws(l) THEN "exception" ELSE "overflow") /\ UNCHANGED <<stack, results>>
          ELSE /\ stack' = Append(below, [form |-> StillOpen(form, sub), sub |-> sub, rel |-> rel,
                                          untried |-> Bindings(l), found |-> {}])
               /\ UNCHANGED <<results, status>>

Init == call \in Calls /\ parts = {call.sub} /\ stack = <<>> /\ results = {} /\ status = "running"

\* Parameters no precondition mentions: they may be any constant of the state.
Unmentioned(sub) == {i \in 1..Len(call.params) : call.params[i] \notin DOMAIN sub \cup VariablesOf(call.precs)}

GroundHead ==
  /\ status = "running" /\ stack = <<>>
  /\ \E p \in parts :
       /\ Unmentioned(p) # {}
       /\ LET v == call.params[CHOOSE i \in Unmentioned(p) : \A j \in Unmentioned(p) : i <= j]
              new == {f \in [{v} -> ConstantsOf(call.state)] : Fits(f)}
          IN  parts' = (parts \ {p}) \cup {Joint(p, f) : f \in new}
  /\ UNCHANGED <<call, stack, results, status>>

Begin ==
  /\ status = "running" /\ stack = <<>>
  /\ \E p \in parts :
       /\ Unmentioned(p) = {} /\ parts' = parts \ {p}
       /\ Enter(call.precs, p, IF call.params = <<>> THEN call.rel ELSE call.rel \ DOMAIN p, <<>>)
  /\ UNCHANGED call

Top == stack[Len(stack)]

\* Slip: one binding is always enough.
FinishedAtFirst(f) == f.untried = {} \/ f.found # {}

\* One is enough where no variable is left that matters.
Finished(f) == f.untried = {} \/ (f.found # {} /\ f.rel = {})

\* Slip: the bindings are not counted off.
ExtendAgain ==
  /\ status = "running" /\ stack # <<>> /\ ~Finished(Top)
  /\ \E f \in Top.untried : Enter(Top.form, Joint(f, Top.sub), Top.rel \ DOMAIN f, stack)
  /\ UNCHANGED <<call, parts>>

\* One more binding of the first formula, and a call for the others.
Extend ==
  /\ status = "running" /\ stack # <<>> /\ ~Finished(Top)
  /\ \E f \in Top.untried :
       Enter(Top.form, Joint(f, Top.sub), Top.rel \ DOMAIN f, [stack EXCEPT ![Len(stack)].untried = @ \ {f}])
  /\ UNCHANGED <<call, parts>>

Return ==
  /\ status = "running" /\ stack # <<>> /\ Finished(Top)
  /\ Give(Top.found, Front(stack))
  /\ UNCHANGED <<call, parts, status>>

End ==
  /\ status = "running" /\ stack = <<>> /\ parts = {} /\ status' = "done"
  /\ UNCHANGED <<call, parts, stack, results>>

Next == GroundHead \/ Begin \/ Extend \/ Return \/ End

Spec == Init /\ [][Next]_vars /\ WF_vars(Next)

----------------------------------------------------------------------------
(* Correctness                                                             *)

\* What the search looks for: the substitutions that extend the given one to
\* parameters and preconditions, with constants of the right type from the
\* state (or from an equation), and make the preconditions true.
Instances ==
  LET new    == (Elems(call.params) \cup VariablesOf(call.precs)) \ DOMAIN call.sub
      equals == UNION {Elems(l.args) : l \in {k \in call.precs : k.pos /\ k.pred = "="}}
      consts == ConstantsOf(call.state) \cup (Object \cap (equals \cup Range(call.sub)))
  IN  {Joint(f, call.sub) : f \in {g \in [new -> consts] :
         /\ Fits(g) /\ IsConsistent(call.precs, Joint(g, call.sub), call.state)
         /\ \A v \in new \ equals : g[v] \in ConstantsOf(call.state)}}

\* Whatever order the formulas and their bindings are gone through in, what is
\* found is an instance.
FoundAreInstances == results \subseteq Instances

\* The early stop loses nothing that matters: each instance agrees with one
\* that was found on the relevant variables, and on parameters that no
\* precondition mentions.
NoInstanceMissed ==
  status = "done" =>
    \A s \in Instances : \E r \in results :
      SameOn(r, s, (DOMAIN s \cap call.rel) \cup (Elems(call.params) \ VariablesOf(call.precs)))

\* Variables that the substitution or an equation with a constant binds before
\* any other formula is looked at.
BoundFirst ==
  LET equations == {l \in call.precs : l.pos /\ l.pred = "="}
      bound[n \in 0..Cardinality(equations)] ==
        IF n = 0 THEN DOMAIN call.sub
        ELSE bound[n - 1] \cup VariablesOf({l \in equations : Elems(l.args) \cap (Object \cup bound[n - 1]) # {}})
  IN  bound[Cardinality(equations)]

\* No equation is left without a variable that is bound, and only equations are
\* negated.
Harmless ==
  \A l \in call.precs : IF l.pred = "=" THEN l.pos => VariablesOf({l}) \subseteq BoundFirst ELSE l.pos

\* The search ends, and where the preconditions are harmless it ends by
\* returning: only equations between two open variables recurse without end.
SearchEnds == <>(status = "done" \/ (~Harmless /\ status # "running"))
===============================================================================
