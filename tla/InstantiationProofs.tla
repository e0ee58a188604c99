------------------------ MODULE InstantiationProofs ------------------------
(***************************************************************************)
(* GetInstantiations for every state, preconditions and given              *)
(* substitution: what the search returns are instances, and its early stop *)
(* misses none that differs in what matters.                               *)
(***************************************************************************)
EXTENDS Instantiation, HtnDomainProofs

----------------------------------------------------------------------------
(* Substitutions                                                           *)

Subst == UNION {[vs -> Object] : vs \in SUBSET Variable}

Extends(q, p) == DOMAIN p \subseteq DOMAIN q /\ \A v \in DOMAIN p : q[v] = p[v]

LEMMA SubstFacts ==
  ASSUME NEW p \in Subst
  PROVE  DOMAIN p \in SUBSET Variable /\ \A v \in DOMAIN p : p[v] \in Object
  BY DEF Subst

LEMMA SubstIs ==
  ASSUME NEW V \in SUBSET Variable, NEW p \in [V -> Object]
  PROVE  p \in Subst
  BY DEF Subst

LEMMA ExtendsThrough ==
  ASSUME NEW p, NEW q, NEW r, Extends(q, p), Extends(r, q)
  PROVE  Extends(r, p)
  BY DEF Extends

\* The union of two substitutions that bind different variables.
LEMMA Joined ==
  ASSUME NEW f \in Subst, NEW p \in Subst, DOMAIN f \cap DOMAIN p = {}
  PROVE  /\ Joint(f, p) \in Subst /\ DOMAIN (Joint(f, p)) = DOMAIN f \cup DOMAIN p
         /\ Extends(Joint(f, p), f) /\ Extends(Joint(f, p), p)
         /\ \A q : Extends(q, f) /\ Extends(q, p) => Extends(q, Joint(f, p))
<1> DEFINE h == Joint(f, p)
<1>1. h = [v \in DOMAIN f \cup DOMAIN p |-> IF v \in DOMAIN f THEN f[v] ELSE p[v]]
  BY DEF Joint
<1>2. DOMAIN h = DOMAIN f \cup DOMAIN p
  BY <1>1
<1>3. \A v \in DOMAIN f : h[v] = f[v]
  BY <1>1
<1>4. \A v \in DOMAIN p : h[v] = p[v]
  BY <1>1
<1>5. h \in Subst
  <2>1. DOMAIN f \cup DOMAIN p \in SUBSET Variable
    BY SubstFacts
  <2>2. h \in [DOMAIN f \cup DOMAIN p -> Object]
    BY <1>1, SubstFacts
  <2> HIDE DEF h
  <2> QED  BY <2>1, <2>2, SubstIs
<1> HIDE DEF h
<1>6. Extends(h, f) /\ Extends(h, p)
  BY <1>2, <1>3, <1>4 DEF Extends
<1>7. ASSUME NEW q, Extends(q, f), Extends(q, p)
      PROVE  Extends(q, h)
  BY <1>2, <1>3, <1>4, <1>7 DEF Extends
<1> QED  BY <1>2, <1>5, <1>6, <1>7 DEF h

----------------------------------------------------------------------------
(* Formulas under substitutions                                            *)

Formula == {l \in Literal : l.pred = "=" => Len(l.args) = 2}

Restricted(s, l) == [v \in VariablesOf({l}) |-> s[v]]

LEMMA FormulaFields ==
  ASSUME NEW l \in Formula
  PROVE  /\ l.args \in Seq(Term) /\ l.pos \in BOOLEAN /\ l.pred \in Predicate \cup {"="}
         /\ l.pred = "=" => Len(l.args) = 2
         /\ Len(l.args) \in Nat /\ \A i \in 1..Len(l.args) : l.args[i] \in Term /\ l.args[i] \in Elems(l.args)
         /\ VariablesOf({l}) = Elems(l.args) \cap Variable
<1>1. l.args \in Seq(Term) /\ l.pos \in BOOLEAN /\ l.pred \in Predicate \cup {"="} /\ (l.pred = "=" => Len(l.args) = 2)
  BY DEF Formula, Literal
<1>2. \A i \in 1..Len(l.args) : l.args[i] \in Term /\ l.args[i] \in Elems(l.args)
  BY <1>1, ElemsType
<1> QED  BY <1>1, <1>2 DEF VariablesOf

LEMMA SubstitutedFacts ==
  ASSUME NEW t \in Term, NEW s \in Subst
  PROVE  /\ Substituted(t, s) \in Term
         /\ t \in DOMAIN s => Substituted(t, s) = s[t] /\ s[t] \in Object /\ t \in Variable
         /\ t \notin DOMAIN s => Substituted(t, s) = t
         /\ t \in Object => Substituted(t, s) = t
         /\ \A q \in Subst : Extends(q, s) => Substituted(Substituted(t, s), q) = Substituted(t, q)
<1>1. t \in DOMAIN s => Substituted(t, s) = s[t] /\ s[t] \in Object /\ t \in Variable
  BY SubstFacts DEF Substituted
<1>2. t \notin DOMAIN s => Substituted(t, s) = t
  BY DEF Substituted
<1>3. t \in Object => t \notin DOMAIN s
  BY SubstFacts, DomainAssumption
<1>4. Substituted(t, s) \in Term
  BY <1>1, <1>2 DEF Term
<1>5. ASSUME NEW q \in Subst, Extends(q, s)
      PROVE  Substituted(Substituted(t, s), q) = Substituted(t, q)
  <2>1. CASE t \in DOMAIN s
    <3>1. Substituted(t, s) = s[t] /\ s[t] \in Object /\ t \in DOMAIN q /\ q[t] = s[t]
      BY <1>1, <1>5, <2>1 DEF Extends
    <3>2. s[t] \notin DOMAIN q
      BY <3>1, SubstFacts, DomainAssumption
    <3> QED  BY <3>1, <3>2 DEF Substituted
  <2>2. CASE t \notin DOMAIN s
    BY <1>2, <2>2
  <2> QED  BY <2>1, <2>2
<1> QED  BY <1>1, <1>2, <1>3, <1>4, <1>5

\* What a formula becomes under a substitution.
LEMMA LiteralAfterFacts ==
  ASSUME NEW l \in Formula, NEW s \in Subst
  PROVE  /\ LiteralAfter(l, s) \in Formula
         /\ LiteralAfter(l, s).pos = l.pos /\ LiteralAfter(l, s).pred = l.pred
         /\ LiteralAfter(l, s).args = AfterSubstitution(l.args, s)
         /\ Elems(LiteralAfter(l, s).args) = {Substituted(t, s) : t \in Elems(l.args)}
<1> DEFINE k == LiteralAfter(l, s)
           a == AfterSubstitution(l.args, s)
<1>1. l.args \in Seq(Term) /\ Len(l.args) \in Nat /\ \A i \in 1..Len(l.args) : l.args[i] \in Term
  BY FormulaFields
<1>2. a \in Seq(Term) /\ Len(a) = Len(l.args) /\ \A i \in 1..Len(l.args) : a[i] = Substituted(l.args[i], s)
  <2>1. \A i \in 1..Len(l.args) : Substituted(l.args[i], s) \in Term
    BY <1>1, SubstitutedFacts
  <2> QED  BY <1>1, <2>1 DEF AfterSubstitution
<1>3. k = [l EXCEPT !.args = a]
  BY DEF LiteralAfter
<1> HIDE DEF a
<1>4. k.pos = l.pos /\ k.pred = l.pred /\ k.args = a /\ k \in Literal
  BY <1>2, <1>3 DEF Formula, Literal
<1>5. k \in Formula
  BY <1>2, <1>4 DEF Formula
<1>6. Elems(a) = {Substituted(t, s) : t \in Elems(l.args)}
  BY <1>2 DEF Elems
<1> HIDE DEF k
<1> QED  BY <1>4, <1>5, <1>6 DEF k, a

\* The variables that are left.
LEMMA VariablesAfter ==
  ASSUME NEW l \in Formula, NEW s \in Subst
  PROVE  VariablesOf({LiteralAfter(l, s)}) = VariablesOf({l}) \ DOMAIN s
<1>1. VariablesOf({LiteralAfter(l, s)}) = {Substituted(t, s) : t \in Elems(l.args)} \cap Variable
  BY LiteralAfterFacts, FormulaFields
<1>2. VariablesOf({l}) = Elems(l.args) \cap Variable /\ \A t \in Elems(l.args) : t \in Term
  <2>1. l.args \in Seq(Term)
    BY FormulaFields
  <2> QED  BY <2>1, ElemsType, FormulaFields
<1>3. \A t \in Elems(l.args) :
        /\ t \in DOMAIN s => Substituted(t, s) \notin Variable
        /\ t \notin DOMAIN s => Substituted(t, s) = t
  BY <1>2, SubstitutedFacts, DomainAssumption
<1>4. ASSUME NEW v \in VariablesOf({LiteralAfter(l, s)})
      PROVE  v \in VariablesOf({l}) \ DOMAIN s
  BY <1>1, <1>2, <1>3
<1>5. ASSUME NEW v \in VariablesOf({l}) \ DOMAIN s
      PROVE  v \in VariablesOf({LiteralAfter(l, s)})
  BY <1>1, <1>2, <1>3
<1> QED  BY <1>4, <1>5

\* Substituting twice is substituting once.
LEMMA HoldsAfter ==
  ASSUME NEW l \in Formula, NEW s \in Subst, NEW q \in Subst, Extends(q, s), NEW state
  PROVE  Holds(LiteralAfter(l, s), q, state) <=> Holds(l, q, state)
<1> DEFINE k == LiteralAfter(l, s)
<1>1. k.pos = l.pos /\ k.pred = l.pred /\ k.args = AfterSubstitution(l.args, s)
  BY LiteralAfterFacts
<1>2. Len(l.args) \in Nat /\ \A i \in 1..Len(l.args) : l.args[i] \in Term
  BY FormulaFields
<1>3. Len(k.args) = Len(l.args) /\ \A i \in 1..Len(l.args) : k.args[i] = Substituted(l.args[i], s)
  BY <1>1, <1>2 DEF AfterSubstitution
<1> HIDE DEF k
<1>4. \A i \in 1..Len(l.args) : Substituted(k.args[i], q) = Substituted(l.args[i], q)
  BY <1>2, <1>3, SubstitutedFacts
<1>5. AfterSubstitution(k.args, q) = AfterSubstitution(l.args, q)
  BY <1>3, <1>4 DEF AfterSubstitution
<1>6. AtomAfter(k, q) = AtomAfter(l, q)
  BY <1>1, <1>5 DEF AtomAfter
<1> QED  BY <1>1, <1>6 DEF Holds, k

\* A ground formula holds under any substitution or under none.
LEMMA GroundHolds ==
  ASSUME NEW l \in Formula, IsGround(l), NEW q \in Subst, NEW state
  PROVE  Holds(l, <<>>, state) <=> Holds(l, q, state)
<1>1. \A i \in 1..Len(l.args) : l.args[i] \notin DOMAIN q
  <2>1. \A i \in 1..Len(l.args) : l.args[i] \in Elems(l.args)
    BY FormulaFields
  <2> QED  BY <2>1, SubstFacts DEF IsGround
<1>2. DOMAIN <<>> = {}
  OBVIOUS
<1>3. \A i \in 1..Len(l.args) : Substituted(l.args[i], q) = l.args[i] /\ Substituted(l.args[i], <<>>) = l.args[i]
  BY <1>1, <1>2 DEF Substituted
<1>4. AfterSubstitution(l.args, <<>>) = AfterSubstitution(l.args, q)
  BY <1>3 DEF AfterSubstitution
<1> QED  BY <1>4 DEF Holds, AtomAfter

\* Only what a substitution makes of the formula's own variables matters.
LEMMA RestrictedHolds ==
  ASSUME NEW l \in Formula, NEW s \in Subst, VariablesOf({l}) \subseteq DOMAIN s, NEW state
  PROVE  /\ Restricted(s, l) \in [VariablesOf({l}) -> Object] /\ Extends(s, Restricted(s, l))
         /\ Holds(l, Restricted(s, l), state) <=> Holds(l, s, state)
<1> DEFINE f == Restricted(s, l)
<1>1. f \in [VariablesOf({l}) -> Object] /\ \A v \in VariablesOf({l}) : f[v] = s[v]
  BY SubstFacts DEF Restricted
<1> HIDE DEF f
<1>2. \A i \in 1..Len(l.args) : l.args[i] \in Term /\ l.args[i] \in Elems(l.args)
  BY FormulaFields
<1>3. VariablesOf({l}) = Elems(l.args) \cap Variable
  BY FormulaFields
<1>4. \A i \in 1..Len(l.args) : Substituted(l.args[i], f) = Substituted(l.args[i], s)
  <2> TAKE i \in 1..Len(l.args)
  <2>1. CASE l.args[i] \in Variable
    BY <1>1, <1>2, <1>3, <2>1 DEF Substituted
  <2>2. CASE l.args[i] \notin Variable
    BY <1>1, <1>3, <2>2, SubstFacts DEF Substituted
  <2> QED  BY <2>1, <2>2
<1>5. AfterSubstitution(l.args, f) = AfterSubstitution(l.args, s)
  BY <1>4 DEF AfterSubstitution
<1>6. Holds(l, f, state) <=> Holds(l, s, state)
  BY <1>5 DEF Holds, AtomAfter
<1> QED  BY <1>1, <1>6 DEF Extends, f

----------------------------------------------------------------------------
(* What the search looks for                                               *)

\* The variables to bind, and those of equations.
Unbound(c)  == (Elems(c.params) \cup VariablesOf(c.precs)) \ DOMAIN c.sub
EqualsOf(c) == UNION {Elems(l.args) : l \in {k \in c.precs : k.pos /\ k.pred = "="}}
ConstsOf(c) == ConstantsOf(c.state) \cup (Object \cap (EqualsOf(c) \cup Range(c.sub)))

\* x may be what variable v is bound to.
MayBind(c, v, x) ==
  TypeOf[v] = TypeOf[x] /\ x \in ConstsOf(c) /\ (v \notin EqualsOf(c) => x \in ConstantsOf(c.state))

\* A part of an instance, as far as single variables go.
Good(c, p) ==
  /\ p \in Subst /\ Extends(p, c.sub) /\ DOMAIN p \subseteq Unbound(c) \cup DOMAIN c.sub
  /\ \A v \in DOMAIN p \ DOMAIN c.sub : MayBind(c, v, p[v])

Instance(c, s) ==
  Good(c, s) /\ DOMAIN s = Unbound(c) \cup DOMAIN c.sub /\ IsConsistent(c.precs, s, c.state)

LEMMA CallFacts ==
  ASSUME NEW c \in CallType
  PROVE  /\ c.params \in Seq(Variable) /\ Elems(c.params) \subseteq Variable
         /\ c.precs \subseteq Formula /\ VariablesOf(c.precs) \subseteq Variable
         /\ c.sub \in Subst /\ ConstantsOf(c.state) \subseteq Object /\ ConstsOf(c) \subseteq Object
         /\ Unbound(c) \subseteq Variable
         /\ \A v \in EqualsOf(c) \cap Variable : v \in VariablesOf(c.precs)
<1>1. c.params \in Seq(Variable) /\ c.precs \subseteq Formula /\ c.sub \in Subst /\ c.state \subseteq Atom
  BY DEF CallType, Formula, Subst
<1>2. Elems(c.params) \subseteq Variable
  BY <1>1 DEF Elems
<1>3. ConstantsOf(c.state) \subseteq Object
  <2>1. ASSUME NEW a \in c.state
        PROVE  Elems(a.args) \subseteq Object
    <3>1. a.args \in Seq(Object)
      BY <1>1 DEF Atom
    <3> QED  BY <3>1 DEF Elems
  <2> QED  BY <2>1 DEF ConstantsOf
<1>4. VariablesOf(c.precs) \subseteq Variable
  BY DEF VariablesOf
<1>5. \A v \in EqualsOf(c) \cap Variable : v \in VariablesOf(c.precs)
  BY DEF EqualsOf, VariablesOf
<1> QED  BY <1>1, <1>2, <1>3, <1>4, <1>5 DEF ConstsOf, Unbound

\* The definition by the bindings that are added to the given substitution.
LEMMA InstancesAre ==
  ASSUME call \in CallType
  PROVE  \A s : s \in Instances <=> Instance(call, s)
<1> DEFINE c == call
           cand(g) == /\ Fits(g) /\ IsConsistent(c.precs, Joint(g, c.sub), c.state)
                      /\ \A v \in Unbound(c) \ EqualsOf(c) : g[v] \in ConstantsOf(c.state)
           G == {g \in [Unbound(c) -> ConstsOf(c)] : cand(g)}
<1>1. Instances = {Joint(f, c.sub) : f \in G}
  BY DEF Instances, Unbound, EqualsOf, ConstsOf
<1>2. /\ Unbound(c) \in SUBSET Variable /\ ConstsOf(c) \subseteq Object /\ c.sub \in Subst
      /\ Unbound(c) \cap DOMAIN c.sub = {}
  BY CallFacts DEF Unbound
<1> HIDE DEF G
<1>3. ASSUME NEW f \in G
      PROVE  Instance(c, Joint(f, c.sub))
  <2>1. f \in [Unbound(c) -> ConstsOf(c)] /\ cand(f)
    BY DEF G
  <2>2. f \in Subst /\ DOMAIN f = Unbound(c)
    <3>1. f \in [Unbound(c) -> Object]
      BY <1>2, <2>1
    <3> QED  BY <1>2, <3>1, SubstIs
  <2> DEFINE s == Joint(f, c.sub)
  <2>3. s \in Subst /\ DOMAIN s = Unbound(c) \cup DOMAIN c.sub /\ Extends(s, f) /\ Extends(s, c.sub)
    BY <1>2, <2>2, Joined
  <2>5. IsConsistent(c.precs, s, c.state)
    BY <2>1
  <2> HIDE DEF s
  <2>4. \A v \in Unbound(c) : s[v] = f[v]
    BY <2>2, <2>3 DEF Extends
  <2>6. ASSUME NEW v \in DOMAIN s \ DOMAIN c.sub
        PROVE  MayBind(c, v, s[v])
    <3>1. v \in Unbound(c) /\ s[v] = f[v]
      BY <2>3, <2>4
    <3>2. TypeOf[v] = TypeOf[f[v]] /\ f[v] \in ConstsOf(c) /\ (v \notin EqualsOf(c) => f[v] \in ConstantsOf(c.state))
      BY <2>1, <2>2, <3>1 DEF Fits
    <3> QED  BY <3>1, <3>2 DEF MayBind
  <2> QED  BY <2>3, <2>5, <2>6 DEF Instance, Good, s
<1>4. ASSUME NEW s, Instance(c, s)
      PROVE  \E f \in G : s = Joint(f, c.sub)
  <2> DEFINE f == [v \in Unbound(c) |-> s[v]]
  <2>1. s \in Subst /\ DOMAIN s = Unbound(c) \cup DOMAIN c.sub /\ Extends(s, c.sub) /\ IsConsistent(c.precs, s, c.state)
    BY <1>4 DEF Instance, Good
  <2>2. \A v \in Unbound(c) : MayBind(c, v, s[v])
    BY <1>2, <1>4 DEF Instance, Good
  <2>3. DOMAIN f = Unbound(c) /\ \A v \in Unbound(c) : f[v] = s[v]
    OBVIOUS
  <2>4. f \in [Unbound(c) -> ConstsOf(c)]
    BY <2>2 DEF MayBind
  <2> HIDE DEF f
  <2>5. s = Joint(f, c.sub)
    <3>1. \E V, W : s \in [V -> W]
      BY <2>1 DEF Subst
    <3>2. s = [v \in DOMAIN s |-> s[v]]
      BY <3>1
    <3>3. \A v \in DOMAIN s : s[v] = IF v \in DOMAIN f THEN f[v] ELSE c.sub[v]
      BY <2>1, <2>3 DEF Extends
    <3> QED  BY <2>1, <2>3, <3>2, <3>3 DEF Joint
  <2>6. Fits(f) /\ \A v \in Unbound(c) \ EqualsOf(c) : f[v] \in ConstantsOf(c.state)
    BY <2>2, <2>3 DEF Fits, MayBind
  <2>7. cand(f)
    BY <2>1, <2>5, <2>6
  <2>8. f \in G
    BY <2>4, <2>7 DEF G
  <2> QED  BY <2>5, <2>8
<1> QED  BY <1>1, <1>3, <1>4

\* Instances bind the same variables.
LEMMA InstanceFacts ==
  ASSUME NEW c \in CallType, NEW s, Instance(c, s)
  PROVE  /\ s \in Subst /\ Extends(s, c.sub) /\ IsConsistent(c.precs, s, c.state)
         /\ Elems(c.params) \cup VariablesOf(c.precs) \subseteq DOMAIN s
         /\ \A v \in Unbound(c) : MayBind(c, v, s[v]) /\ s[v] \in Object
         /\ \A r : Instance(c, r) /\ Extends(r, s) => r = s
<1>1. s \in Subst /\ Extends(s, c.sub) /\ IsConsistent(c.precs, s, c.state) /\ DOMAIN s = Unbound(c) \cup DOMAIN c.sub
  BY DEF Instance, Good
<1>2. \A v \in Unbound(c) : MayBind(c, v, s[v]) /\ s[v] \in Object
  <2>1. \A v \in Unbound(c) : v \in DOMAIN s \ DOMAIN c.sub
    BY <1>1 DEF Unbound
  <2> QED  BY <1>1, <2>1, SubstFacts DEF Instance, Good
<1>3. ASSUME NEW r, Instance(c, r), Extends(r, s)
      PROVE  r = s
  <2>1. r \in Subst /\ DOMAIN r = DOMAIN s /\ \A v \in DOMAIN s : r[v] = s[v]
    BY <1>1, <1>3 DEF Instance, Good, Extends
  <2>2. (\E V, W : r \in [V -> W]) /\ (\E V, W : s \in [V -> W])
    BY <1>1, <2>1 DEF Subst
  <2>3. r = [v \in DOMAIN r |-> r[v]] /\ s = [v \in DOMAIN s |-> s[v]]
    BY <2>2
  <2> QED  BY <2>1, <2>3
<1> QED  BY <1>1, <1>2, <1>3 DEF Unbound

----------------------------------------------------------------------------
(* What is left of the preconditions                                       *)

\* Under any extension of s, form says what the preconditions say; and every
\* equation with an open variable is still in it.
Handed(c, form, s) ==
  /\ form \subseteq Formula /\ VariablesOf(form) \subseteq VariablesOf(c.precs)
  /\ VariablesOf(c.precs) \subseteq VariablesOf(form) \cup DOMAIN s
  /\ \A q \in Subst : Extends(q, s) => (IsConsistent(form, q, c.state) <=> IsConsistent(c.precs, q, c.state))
  /\ \A l \in form : l.pos /\ l.pred = "=" =>
       \A t \in Elems(l.args) : (t \in Variable => t \in EqualsOf(c)) /\ (t \in Object => t \in ConstsOf(c))
  /\ \A v \in (EqualsOf(c) \cap Variable) \ DOMAIN s :
       \E l \in form : l.pos /\ l.pred = "=" /\ v \in Elems(l.args)

LEMMA HandedAtFirst ==
  ASSUME NEW c \in CallType, NEW s
  PROVE  Handed(c, c.precs, s)
<1>1. c.precs \subseteq Formula
  BY CallFacts
<1>2. ASSUME NEW l \in c.precs, l.pos /\ l.pred = "=", NEW t \in Elems(l.args)
      PROVE  t \in EqualsOf(c) /\ (t \in Object => t \in ConstsOf(c))
  BY <1>2 DEF EqualsOf, ConstsOf
<1>3. ASSUME NEW v \in (EqualsOf(c) \cap Variable) \ DOMAIN s
      PROVE  \E l \in c.precs : l.pos /\ l.pred = "=" /\ v \in Elems(l.args)
  BY <1>3 DEF EqualsOf
<1> QED  BY <1>1, <1>2, <1>3 DEF Handed

\* The variables of a formula are those of its literals.
LEMMA VariablesOfEach ==
  ASSUME NEW form \in SUBSET Formula
  PROVE  /\ \A l \in form : VariablesOf({l}) \subseteq VariablesOf(form)
         /\ \A v \in VariablesOf(form) : \E l \in form : v \in VariablesOf({l})
  BY DEF VariablesOf

\* A formula that was refuted holds under no extension.
LEMMA RefutedHoldsNever ==
  ASSUME call \in CallType, NEW form, NEW s, Handed(call, form, s), NEW p \in Subst, Extends(p, s), Refuted(form, p),
         NEW q \in Subst, Extends(q, p)
  PROVE  ~IsConsistent(call.precs, q, call.state)
<1>1. PICK k \in FormulaAfter(form, p) : IsGround(k) /\ ~Holds(k, <<>>, call.state)
  BY DEF Refuted
<1>2. PICK l \in form : k = LiteralAfter(l, p)
  BY <1>1 DEF FormulaAfter
<1>3. l \in Formula
  BY <1>2 DEF Handed
<1>4. k \in Formula
  BY <1>2, <1>3, LiteralAfterFacts
<1>5. ~Holds(k, q, call.state)
  BY <1>1, <1>4, GroundHolds
<1>6. ~Holds(l, q, call.state)
  BY <1>2, <1>3, <1>5, HoldsAfter
<1>7. ~IsConsistent(form, q, call.state)
  BY <1>2, <1>6 DEF IsConsistent
<1>8. Extends(q, s)
  BY ExtendsThrough
<1> QED  BY <1>7, <1>8 DEF Handed

\* What is handed on is the open part, with what is bound put in.
LEMMA HandedOn ==
  ASSUME call \in CallType, NEW form, NEW s, Handed(call, form, s), NEW p, Good(call, p), Extends(p, s), ~Refuted(form, p)
  PROVE  /\ Handed(call, StillOpen(form, p), p) /\ VariablesOf(StillOpen(form, p)) \cap DOMAIN p = {}
         /\ \A l \in StillOpen(form, p) : VariablesOf({l}) # {}
<1> DEFINE c == call
           open == StillOpen(form, p)
<1>1. p \in Subst /\ form \in SUBSET Formula
  BY DEF Good, Handed
<1>2. ASSUME NEW k \in FormulaAfter(form, p)
      PROVE  \E l \in form : /\ k = LiteralAfter(l, p) /\ l \in Formula /\ k \in Formula
                             /\ k.pos = l.pos /\ k.pred = l.pred /\ Elems(k.args) = {Substituted(t, p) : t \in Elems(l.args)}
                             /\ VariablesOf({k}) = VariablesOf({l}) \ DOMAIN p
  <2>1. PICK l \in form : k = LiteralAfter(l, p)
    BY <1>2 DEF FormulaAfter
  <2>2. l \in Formula
    BY <1>1
  <2> QED  BY <1>1, <2>1, <2>2, LiteralAfterFacts, VariablesAfter
<1>3. \A l \in form : LiteralAfter(l, p) \in FormulaAfter(form, p)
  BY DEF FormulaAfter
<1>4. \A k : k \in open <=> k \in FormulaAfter(form, p) /\ ~IsGround(k)
  BY DEF StillOpen
<1> HIDE DEF open
<1>5. open \in SUBSET Formula
  BY <1>2, <1>4
<1>6. \A k \in FormulaAfter(form, p) : IsGround(k) <=> VariablesOf({k}) = {}
  BY <1>2, FormulaFields DEF IsGround
<1>7. \A v : v \in VariablesOf(open) <=> v \in VariablesOf(form) \ DOMAIN p
  <2>1. ASSUME NEW v \in VariablesOf(open)
        PROVE  v \in VariablesOf(form) \ DOMAIN p
    <3>1. PICK k \in open : v \in VariablesOf({k})
      BY <1>5, <2>1, VariablesOfEach
    <3>2. PICK l \in form : VariablesOf({k}) = VariablesOf({l}) \ DOMAIN p
      BY <1>2, <1>4
    <3> QED  BY <1>1, <3>1, <3>2, VariablesOfEach
  <2>2. ASSUME NEW v \in VariablesOf(form) \ DOMAIN p
        PROVE  v \in VariablesOf(open)
    <3>1. PICK l \in form : v \in VariablesOf({l})
      BY <1>1, <2>2, VariablesOfEach
    <3>2. v \in VariablesOf({LiteralAfter(l, p)})
      BY <1>1, <2>2, <3>1, VariablesAfter
    <3>3. LiteralAfter(l, p) \in open
      BY <1>3, <1>4, <1>6, <3>1, <3>2
    <3> QED  BY <1>5, <3>2, <3>3, VariablesOfEach
  <2> QED  BY <2>1, <2>2
<1>8. ASSUME NEW q \in Subst, Extends(q, p)
      PROVE  IsConsistent(open, q, c.state) <=> IsConsistent(c.precs, q, c.state)
  <2>1. Extends(q, s)
    BY <1>8, ExtendsThrough
  <2>2. IsConsistent(form, q, c.state) <=> IsConsistent(c.precs, q, c.state)
    BY <2>1 DEF Handed
  <2>3. ASSUME IsConsistent(form, q, c.state), NEW k \in open
        PROVE  Holds(k, q, c.state)
    <3>1. PICK l \in form : k = LiteralAfter(l, p) /\ l \in Formula
      BY <1>2, <1>4
    <3> QED  BY <1>1, <1>8, <2>3, <3>1, HoldsAfter DEF IsConsistent
  <2>4. ASSUME IsConsistent(open, q, c.state), NEW l \in form
        PROVE  Holds(l, q, c.state)
    <3> DEFINE k == LiteralAfter(l, p)
    <3>1. k \in FormulaAfter(form, p)
      BY <1>3
    <3>2. l \in Formula /\ k \in Formula
      BY <1>1, LiteralAfterFacts
    <3>3. Holds(k, q, c.state) <=> Holds(l, q, c.state)
      BY <1>1, <1>8, <3>2, HoldsAfter
    <3> HIDE DEF k
    <3>4. Holds(k, q, c.state)
      <4>1. CASE IsGround(k)
        <5>1. Holds(k, <<>>, c.state)
          BY <3>1, <4>1 DEF Refuted
        <5> QED  BY <3>2, <4>1, <5>1, GroundHolds
      <4>2. CASE ~IsGround(k)
        BY <1>4, <2>4, <3>1, <4>2 DEF IsConsistent
      <4> QED  BY <4>1, <4>2
    <3> QED  BY <3>3, <3>4
  <2> QED  BY <2>2, <2>3, <2>4 DEF IsConsistent
<1>9. ASSUME NEW k \in open, k.pos /\ k.pred = "=", NEW t \in Elems(k.args)
      PROVE  (t \in Variable => t \in EqualsOf(c)) /\ (t \in Object => t \in ConstsOf(c))
  <2>1. PICK l \in form : /\ k.pos = l.pos /\ k.pred = l.pred /\ l \in Formula
                          /\ Elems(k.args) = {Substituted(u, p) : u \in Elems(l.args)}
    BY <1>2, <1>4
  <2>2. PICK u \in Elems(l.args) : t = Substituted(u, p)
    BY <1>9, <2>1
  <2>3. u \in Term /\ (u \in Variable => u \in EqualsOf(c)) /\ (u \in Object => u \in ConstsOf(c))
    <3>1. l.args \in Seq(Term)
      BY <2>1, FormulaFields
    <3> QED  BY <1>9, <2>1, <3>1, ElemsType DEF Handed
  <2>4. CASE u \notin DOMAIN p
    BY <1>1, <2>2, <2>3, <2>4, SubstitutedFacts
  <2>5. CASE u \in DOMAIN p
    <3>1. t = p[u] /\ t \in Object
      BY <1>1, <2>2, <2>3, <2>5, SubstitutedFacts
    <3>2. t \in ConstsOf(c)
      <4>1. CASE u \in DOMAIN c.sub
        <5>1. t = c.sub[u]
          BY <3>1, <4>1 DEF Good, Extends
        <5>2. t \in Range(c.sub)
          BY <4>1, <5>1 DEF Range
        <5> QED  BY <3>1, <5>2 DEF ConstsOf
      <4>2. CASE u \notin DOMAIN c.sub
        BY <2>5, <3>1, <4>2 DEF Good, MayBind
      <4> QED  BY <4>1, <4>2
    <3> QED  BY <3>1, <3>2, DomainAssumption
  <2> QED  BY <2>4, <2>5
<1>10. ASSUME NEW v \in (EqualsOf(c) \cap Variable) \ DOMAIN p
       PROVE  \E k \in open : k.pos /\ k.pred = "=" /\ v \in Elems(k.args)
  <2>1. v \notin DOMAIN s
    BY <1>10 DEF Extends
  <2>2. PICK l \in form : l.pos /\ l.pred = "=" /\ v \in Elems(l.args)
    BY <1>10, <2>1 DEF Handed
  <2> DEFINE k == LiteralAfter(l, p)
  <2>3. l \in Formula /\ k \in Formula /\ k.pos /\ k.pred = "="
    BY <1>1, <2>2, LiteralAfterFacts
  <2>4. v \in VariablesOf({k})
    <3>1. v \in VariablesOf({l})
      BY <1>10, <2>2, <2>3, FormulaFields
    <3> QED  BY <1>1, <1>10, <2>3, <3>1, VariablesAfter
  <2>5. k \in open
    BY <1>3, <1>4, <1>6, <2>4
  <2>6. v \in Elems(k.args)
    BY <2>3, <2>4, FormulaFields
  <2> QED  BY <2>3, <2>5, <2>6
<1>11. VariablesOf(open) \subseteq VariablesOf(c.precs)
  BY <1>7 DEF Handed
<1>12. VariablesOf(c.precs) \subseteq VariablesOf(open) \cup DOMAIN p
  BY <1>7 DEF Handed, Extends
<1>13. Handed(c, open, p)
  BY <1>5, <1>8, <1>9, <1>10, <1>11, <1>12 DEF Handed
<1> QED  BY <1>4, <1>6, <1>7, <1>13 DEF open

----------------------------------------------------------------------------
(* The bindings of the most specified formula                              *)

\* The pairs of a predicate and an atom bind its variables to constants.
LEMMA PairsFacts ==
  ASSUME NEW l \in Formula, NEW a \in Atom, Len(a.args) = Len(l.args), IsFunctional(PairsOf(l, a))
  PROVE  /\ DOMAIN MatchOf(PairsOf(l, a)) = VariablesOf({l})
         /\ \A v \in VariablesOf({l}) : MatchOf(PairsOf(l, a))[v] \in Elems(a.args)
         /\ \A i \in 1..Len(l.args) : l.args[i] \in Variable => MatchOf(PairsOf(l, a))[l.args[i]] = a.args[i]
         /\ \E V, W : MatchOf(PairsOf(l, a)) \in [V -> W]
<1> DEFINE P == PairsOf(l, a)
           f == MatchOf(P)
           binder(v) == CHOOSE p \in P : p[1] = v
<1>1. /\ \A p \in P : \E i \in 1..Len(l.args) : l.args[i] \in Variable /\ p = <<l.args[i], a.args[i]>>
      /\ \A i \in 1..Len(l.args) : l.args[i] \in Variable => <<l.args[i], a.args[i]>> \in P
  BY DEF PairsOf
<1>2. VariablesOf({l}) = Elems(l.args) \cap Variable /\ Len(l.args) \in Nat
  BY FormulaFields
<1>3. f = [v \in {p[1] : p \in P} |-> binder(v)[2]]
  BY DEF MatchOf
<1> HIDE DEF P, f
<1>4. \A v \in VariablesOf({l}) : \E i \in 1..Len(l.args) : l.args[i] = v /\ <<v, a.args[i]>> \in P
  BY <1>1, <1>2 DEF Elems
<1>5. DOMAIN f = VariablesOf({l})
  <2>1. \A p \in P : p[1] \in VariablesOf({l})
    <3> TAKE p \in P
    <3>1. PICK i \in 1..Len(l.args) : l.args[i] \in Variable /\ p = <<l.args[i], a.args[i]>>
      BY <1>1
    <3>2. p[1] = l.args[i]
      BY <3>1
    <3> QED  BY <1>2, <3>1, <3>2 DEF Elems
  <2>2. \A v \in VariablesOf({l}) : v \in {p[1] : p \in P}
    <3> TAKE v \in VariablesOf({l})
    <3>1. PICK i \in 1..Len(l.args) : <<v, a.args[i]>> \in P
      BY <1>4
    <3>2. <<v, a.args[i]>>[1] = v
      OBVIOUS
    <3> QED  BY <3>1, <3>2
  <2> QED  BY <1>3, <2>1, <2>2
<1>6. \A i \in 1..Len(l.args) : l.args[i] \in Variable => f[l.args[i]] = a.args[i]
  <2> SUFFICES ASSUME NEW i \in 1..Len(l.args), l.args[i] \in Variable
               PROVE  f[l.args[i]] = a.args[i]
    OBVIOUS
  <2> DEFINE v == l.args[i]
             r == <<v, a.args[i]>>
  <2>1. r \in P /\ r[1] = v /\ r[2] = a.args[i]
    BY <1>1
  <2> HIDE DEF v, r
  <2>2. binder(v) \in P /\ binder(v)[1] = v
    BY <2>1
  <2>3. f[v] = binder(v)[2]
    BY <1>3, <2>1
  <2> HIDE DEF binder
  <2>4. binder(v)[2] = r[2]
    BY <2>1, <2>2 DEF IsFunctional, P
  <2> QED  BY <2>1, <2>3, <2>4 DEF v
<1>7. \A v \in VariablesOf({l}) : f[v] \in Elems(a.args)
  <2> TAKE v \in VariablesOf({l})
  <2>1. PICK i \in 1..Len(l.args) : l.args[i] = v
    BY <1>4
  <2>2. v \in Variable
    BY <1>2
  <2> QED  BY <1>6, <2>1, <2>2 DEF Elems
<1>8. \E V, W : f \in [V -> W]
  <2>1. f \in [{p[1] : p \in P} -> {binder(v)[2] : v \in {p[1] : p \in P}}]
    BY <1>3
  <2> QED  BY <2>1
<1> QED  BY <1>5, <1>6, <1>7, <1>8 DEF P, f

\* Whatever kind the formula is of, its bindings may be part of an instance.
LEMMA BindingsSound ==
  ASSUME call \in CallType, NEW form, NEW p, Handed(call, form, p), NEW l \in form, NEW f \in Bindings(l)
  PROVE  f \in Subst /\ DOMAIN f = VariablesOf({l}) /\ \A v \in DOMAIN f : MayBind(call, v, f[v])
<1>1. l \in Formula /\ VariablesOf({l}) \in SUBSET Variable
  BY FormulaFields DEF Handed
<1>2. ConstantsOf(call.state) \subseteq Object /\ ConstantsOf(call.state) \subseteq ConstsOf(call)
  BY CallFacts DEF ConstsOf
<1>3. CASE ~l.pos
  <2>1. f \in [VariablesOf({l}) -> ConstantsOf(call.state)] /\ Fits(f)
    BY <1>3 DEF Bindings, NegationBindings
  <2>2. f \in [VariablesOf({l}) -> Object]
    BY <1>2, <2>1
  <2>3. f \in Subst
    BY <1>1, <2>2, SubstIs
  <2> QED  BY <1>2, <2>1, <2>3 DEF Fits, MayBind
<1>4. CASE l.pos /\ l.pred = "="
  <2>1. f \in [VariablesOf({l}) -> Elems(l.args) \cap Object] /\ Fits(f)
    BY <1>4 DEF Bindings, EqualityBindings
  <2>2. f \in [VariablesOf({l}) -> Object]
    BY <2>1
  <2>3. f \in Subst
    BY <1>1, <2>2, SubstIs
  <2>4. \A v \in VariablesOf({l}) : f[v] \in ConstsOf(call) /\ v \in EqualsOf(call)
    BY <1>1, <1>4, <2>1, FormulaFields DEF Handed
  <2> QED  BY <2>1, <2>3, <2>4 DEF Fits, MayBind
<1>5. CASE l.pos /\ l.pred # "="
  <2>1. PICK a \in AtomsLike(l, call.state) : f = MatchOf(PairsOf(l, a)) /\ IsFunctional(PairsOf(l, a)) /\ Fits(f)
    BY <1>5 DEF Bindings, PredicateBindings
  <2>2. a \in call.state /\ Len(a.args) = Len(l.args)
    BY <2>1 DEF AtomsLike
  <2>3. a \in Atom
    BY <2>2 DEF CallType
  <2>4. DOMAIN f = VariablesOf({l}) /\ (\A v \in VariablesOf({l}) : f[v] \in Elems(a.args)) /\ \E V, W : f \in [V -> W]
    BY <1>1, <2>1, <2>2, <2>3, PairsFacts
  <2>5. \A v \in VariablesOf({l}) : f[v] \in ConstantsOf(call.state)
    BY <2>2, <2>4 DEF ConstantsOf
  <2>6. f = [v \in VariablesOf({l}) |-> f[v]]
    BY <2>4
  <2>7. f \in [VariablesOf({l}) -> Object]
    BY <1>2, <2>5, <2>6
  <2>8. f \in Subst
    BY <1>1, <2>7, SubstIs
  <2> QED  BY <1>2, <2>1, <2>4, <2>5, <2>8 DEF Fits, MayBind
<1> QED  BY <1>3, <1>4, <1>5

\* Every instance binds the formula's variables in one of the ways listed: a
\* negation's to constants of the state, for all equations came before.
LEMMA BindingsComplete ==
  ASSUME call \in CallType, NEW open, NEW p, Handed(call, open, p), VariablesOf(open) \cap DOMAIN p = {},
         Extends(p, call.sub), NEW l \in MostSpecified(open), ~Recurses(l), ~Throws(l),
         NEW s, Instance(call, s), Extends(s, p)
  PROVE  Restricted(s, l) \in Bindings(l) /\ Extends(s, Restricted(s, l))
<1> DEFINE f == Restricted(s, l)
           V == VariablesOf({l})
<1>1. l \in open /\ \A k \in open : ~MoreSpecified(k, l)
  BY DEF MostSpecified
<1>2. l \in Formula /\ V = Elems(l.args) \cap Variable
  BY <1>1, FormulaFields DEF Handed
<1>3. V \subseteq VariablesOf(open) /\ V \subseteq VariablesOf(call.precs)
  BY <1>1, VariablesOfEach DEF Handed
<1>4. s \in Subst /\ V \subseteq DOMAIN s
  BY <1>3, InstanceFacts
<1>5. V \subseteq Unbound(call)
  BY <1>3 DEF Unbound, Extends
<1>6. \A v \in V : MayBind(call, v, s[v]) /\ s[v] \in Object
  BY <1>5, InstanceFacts
<1>7. Holds(l, s, call.state)
  <2>1. IsConsistent(open, s, call.state)
    BY InstanceFacts DEF Handed
  <2> QED  BY <1>1, <2>1 DEF IsConsistent
<1>8. f \in [V -> Object] /\ Extends(s, f) /\ Holds(l, f, call.state) /\ \A v \in V : f[v] = s[v]
  BY <1>2, <1>4, <1>7, RestrictedHolds DEF Restricted
<1> HIDE DEF f
<1>9. Fits(f)
  BY <1>6, <1>8 DEF Fits, MayBind
<1>10. CASE ~l.pos
  <2>1. \A k \in open : ~(k.pos /\ k.pred = "=")
    <3> SUFFICES ASSUME NEW k \in open, k.pos /\ k.pred = "=" PROVE FALSE
      OBVIOUS
    <3>1. Rank(k) = 0 /\ Rank(l) = 2
      BY <1>10 DEF Rank
    <3>2. Rank(k) < Rank(l)
      BY <3>1
    <3>3. MoreSpecified(k, l)
      BY ONLY <3>2 DEF MoreSpecified
    <3> QED  BY <1>1, <3>3
  <2>2. \A v \in V : v \notin EqualsOf(call)
    <3> SUFFICES ASSUME NEW v \in V, v \in EqualsOf(call) PROVE FALSE
      OBVIOUS
    <3>1. v \in Variable /\ v \notin DOMAIN p
      BY <1>2, <1>3
    <3> QED  BY <2>1, <3>1 DEF Handed
  <2>3. \A v \in V : f[v] \in ConstantsOf(call.state)
    BY <1>6, <1>8, <2>2 DEF MayBind
  <2>4. f \in [V -> ConstantsOf(call.state)]
    BY <1>8, <2>3
  <2>5. f \in NegationBindings(l)
    BY <1>8, <1>9, <2>4 DEF NegationBindings
  <2> QED  BY <1>8, <1>10, <2>5 DEF Bindings, f
<1>11. CASE l.pos /\ l.pred = "="
  <2>1. Len(l.args) = 2 /\ l.args[1] \in Term /\ l.args[2] \in Term /\ Elems(l.args) = {l.args[1], l.args[2]}
    <3>1. Len(l.args) = 2 /\ \A i \in 1..Len(l.args) : l.args[i] \in Term
      BY <1>2, <1>11, FormulaFields
    <3>2. 1..Len(l.args) = {1, 2}
      BY <3>1
    <3>3. Elems(l.args) = {l.args[i] : i \in {1, 2}}
      BY <3>2 DEF Elems
    <3> QED  BY <3>1, <3>2, <3>3
  <2>2. Substituted(l.args[1], s) = Substituted(l.args[2], s)
    BY <1>7, <1>11, <2>1 DEF Holds, AtomAfter, AfterSubstitution
  <2>3. \A t \in Elems(l.args) : t \in Variable => Substituted(t, s) = s[t] /\ t \in V
    BY <1>2, <1>4 DEF Substituted
  <2>4. \A t \in Elems(l.args) : t \in Object => Substituted(t, s) = t
    BY <1>4, <2>1, SubstitutedFacts
  <2>5. ~(l.args[1] \in Variable /\ l.args[2] \in Variable)
    <3> SUFFICES ASSUME l.args[1] \in Variable, l.args[2] \in Variable PROVE FALSE
      OBVIOUS
    <3>1. s[l.args[1]] = s[l.args[2]] /\ l.args[1] \in V /\ l.args[2] \in V
      BY <2>1, <2>2, <2>3
    <3>2. TypeOf[l.args[1]] = TypeOf[l.args[2]]
      BY <1>6, <3>1 DEF MayBind
    <3>3. Elems(l.args) \subseteq Variable
      BY <2>1
    <3> QED  BY <1>11, <3>2, <3>3 DEF Recurses
  <2>6. \A v \in V : f[v] \in Elems(l.args) \cap Object
    <3> TAKE v \in V
    <3>1. v \in Elems(l.args) /\ v \in Variable
      BY <1>2
    <3>2. PICK t \in Elems(l.args) : t \in Object /\ Substituted(t, s) = Substituted(v, s)
      BY <2>1, <2>2, <2>5, <3>1 DEF Term
    <3>3. s[v] = t
      BY <2>3, <2>4, <3>1, <3>2
    <3> QED  BY <1>8, <3>2, <3>3
  <2>7. f \in [V -> Elems(l.args) \cap Object]
    BY <1>8, <2>6
  <2>8. f \in EqualityBindings(l)
    BY <1>9, <2>7 DEF EqualityBindings
  <2> QED  BY <1>8, <1>11, <2>8 DEF Bindings, f
<1>12. CASE l.pos /\ l.pred # "="
  <2> DEFINE a == AtomAfter(l, s)
  <2>1. a \in call.state
    BY <1>7, <1>12 DEF Holds
  <2>2. a.pred = l.pred /\ a.args = AfterSubstitution(l.args, s)
    BY DEF AtomAfter
  <2>3. Len(l.args) \in Nat /\ \A i \in 1..Len(l.args) : l.args[i] \in Term /\ l.args[i] \in Elems(l.args)
    BY <1>2, FormulaFields
  <2>4. Len(a.args) = Len(l.args) /\ \A i \in 1..Len(l.args) : a.args[i] = Substituted(l.args[i], s)
    BY <2>2, <2>3 DEF AfterSubstitution
  <2>5. a \in Atom
    BY <2>1 DEF CallType
  <2> HIDE DEF a
  <2>6. \A i \in 1..Len(l.args) : l.args[i] \in Object => a.args[i] = l.args[i]
    BY <1>4, <2>3, <2>4, SubstitutedFacts
  <2>7. \A i \in 1..Len(l.args) : l.args[i] \in Variable => a.args[i] = s[l.args[i]] /\ l.args[i] \in V
    BY <1>2, <1>4, <2>3, <2>4 DEF Substituted
  <2>8. a \in AtomsLike(l, call.state)
    BY <2>1, <2>2, <2>4, <2>6 DEF AtomsLike
  <2>9. \A r \in PairsOf(l, a) : r[2] = s[r[1]]
    BY <2>7 DEF PairsOf
  <2>10. IsFunctional(PairsOf(l, a))
    BY <2>9 DEF IsFunctional
  <2> DEFINE g == MatchOf(PairsOf(l, a))
  <2>11. /\ DOMAIN g = V /\ (\E X, Y : g \in [X -> Y])
         /\ \A i \in 1..Len(l.args) : l.args[i] \in Variable => g[l.args[i]] = a.args[i]
    BY <1>2, <2>4, <2>5, <2>10, PairsFacts
  <2> HIDE DEF g
  <2>12. \A v \in V : g[v] = f[v]
    <3> TAKE v \in V
    <3>1. PICK i \in 1..Len(l.args) : l.args[i] = v /\ v \in Variable
      BY <1>2 DEF Elems
    <3> QED  BY <1>8, <2>7, <2>11, <3>1
  <2>13. g = f
    <3>1. g = [v \in V |-> g[v]] /\ f = [v \in V |-> f[v]]
      BY <1>8, <2>11
    <3> QED  BY <2>12, <3>1
  <2>14. f \in PredicateBindings(l)
    BY <1>9, <2>8, <2>10, <2>13 DEF PredicateBindings, g
  <2> QED  BY <1>8, <1>12, <2>14 DEF Bindings, f
<1> QED  BY <1>10, <1>11, <1>12

----------------------------------------------------------------------------
(* The inductive invariant                                                 *)

Frame == [form : SUBSET Formula, sub : Subst, rel : SUBSET Variable, untried : SUBSET Subst, found : SUBSET Subst]

\* A handler: what it hands on, the bindings it tries and what it has found.
FrameOK(c, fr) ==
  /\ Good(c, fr.sub) /\ Handed(c, fr.form, fr.sub) /\ VariablesOf(fr.form) \cap DOMAIN fr.sub = {}
  /\ Elems(c.params) \subseteq DOMAIN fr.sub \cup VariablesOf(c.precs)
  /\ c.rel \subseteq fr.rel \cup DOMAIN fr.sub
  /\ \A f \in fr.untried : DOMAIN f \subseteq VariablesOf(fr.form) /\ \A v \in DOMAIN f : MayBind(c, v, f[v])
  /\ \A r \in fr.found : Instance(c, r) /\ Extends(r, fr.sub)

\* Each handler was called with more bindings than the one below.
Stacked(c, st) ==
  /\ st \in Seq(Frame) /\ \A k \in 1..Len(st) : FrameOK(c, st[k])
  /\ \A k \in 1..(Len(st) - 1) : Extends(st[k + 1].sub, st[k].sub)

\* The variables two instances must differ in to be told apart.
Matters(c) == ((Unbound(c) \cup DOMAIN c.sub) \cap c.rel) \cup (Elems(c.params) \ VariablesOf(c.precs))

Agrees(c, R, s) == \E r \in R : SameOn(r, s, Matters(c))

\* Handler fr has found instance s, or comes to it.
Awaited(c, fr, s) ==
  Extends(s, fr.sub) /\ ((\E f \in fr.untried : Extends(s, f)) \/ Agrees(c, fr.found, s))

AwaitedIn(c, st, s) == \E k \in 1..Len(st) : Awaited(c, st[k], s)

IInv ==
  /\ call \in CallType /\ Stacked(call, stack)
  /\ \A p \in parts : Good(call, p)
  /\ \A r \in results : Instance(call, r)
  /\ status = "done" => parts = {} /\ stack = <<>>
  /\ status \in {"running", "done"} =>
       \A s : Instance(call, s) =>
         Agrees(call, results, s) \/ AwaitedIn(call, stack, s) \/ \E p \in parts : Extends(s, p)

----------------------------------------------------------------------------
(* Calls and returns                                                       *)

LEMMA HandedFurther ==
  ASSUME NEW c, NEW form, NEW s, NEW p, Handed(c, form, s), Extends(p, s)
  PROVE  Handed(c, form, p)
<1>1. \A q \in Subst : Extends(q, p) => (IsConsistent(form, q, c.state) <=> IsConsistent(c.precs, q, c.state))
  BY ExtendsThrough DEF Handed
<1>2. DOMAIN s \subseteq DOMAIN p
  BY DEF Extends
<1> QED  BY <1>1, <1>2 DEF Handed

\* More variables bound in one of the ways an instance may bind them.
LEMMA GoodFurther ==
  ASSUME NEW c \in CallType, NEW p, Good(c, p), NEW f \in Subst, DOMAIN f \subseteq Unbound(c),
         \A v \in DOMAIN f : MayBind(c, v, f[v]),
         NEW q \in Subst, DOMAIN q = DOMAIN f \cup DOMAIN p, Extends(q, f), Extends(q, p)
  PROVE  Good(c, q)
<1>1. Extends(q, c.sub)
  BY ExtendsThrough DEF Good
<1>2. \A v \in DOMAIN q \ DOMAIN c.sub : MayBind(c, v, q[v])
  <2> TAKE v \in DOMAIN q \ DOMAIN c.sub
  <2>1. CASE v \in DOMAIN f
    BY <2>1 DEF Extends
  <2>2. CASE v \notin DOMAIN f
    BY <2>2 DEF Extends, Good
  <2> QED  BY <2>1, <2>2
<1> QED  BY <1>1, <1>2 DEF Good

\* What a call is made with.
Asked(c, form, p, rel) ==
  /\ Good(c, p) /\ Handed(c, form, p) /\ rel \subseteq Variable
  /\ Elems(c.params) \subseteq DOMAIN p \cup VariablesOf(c.precs) /\ c.rel \subseteq rel \cup DOMAIN p

\* A call that returns gives instances that extend p, and has one for each.
Returns(p, below) ==
  \E found : /\ Give(found, below) /\ status' = status
             /\ \A r \in found : Instance(call, r) /\ Extends(r, p)
             /\ \A s : Instance(call, s) /\ Extends(s, p) => Agrees(call, found, s)

\* A call that comes to a handler has a binding to try for each.
Pushes(p, below) ==
  \E fr \in Frame : /\ FrameOK(call, fr) /\ fr.sub = p /\ stack' = Append(below, fr)
                    /\ UNCHANGED <<results, status>>
                    /\ \A s : Instance(call, s) /\ Extends(s, p) => \E f \in fr.untried : Extends(s, f)

LEMMA Entered ==
  ASSUME call \in CallType, NEW form, NEW p, NEW rel, NEW below, Asked(call, form, p, rel), Enter(form, p, rel, below)
  PROVE  \/ Returns(p, below) \/ Pushes(p, below)
         \/ status' \in {"exception", "overflow"} /\ UNCHANGED <<stack, results>>
<1> DEFINE open == StillOpen(form, p)
<1>1. Good(call, p) /\ Handed(call, form, p) /\ p \in Subst /\ Extends(p, p)
  BY DEF Asked, Good, Extends
<1>2. CASE Refuted(form, p) /\ Give({}, below) /\ status' = status
  <2>1. ASSUME NEW s, Instance(call, s), Extends(s, p)
        PROVE  FALSE
    <3>1. s \in Subst /\ IsConsistent(call.precs, s, call.state)
      BY <2>1, InstanceFacts
    <3> QED  BY <1>1, <1>2, <2>1, <3>1, RefutedHoldsNever
  <2> QED  BY <1>2, <2>1 DEF Returns
<1>3. CASE ~Refuted(form, p) /\ open = {} /\ Give({p}, below) /\ status' = status
  <2>1. Handed(call, open, p)
    BY <1>1, <1>3, HandedOn
  <2>2. VariablesOf(open) = {} /\ IsConsistent(open, p, call.state)
    BY <1>3 DEF VariablesOf, IsConsistent
  <2> HIDE DEF open
  <2>3. IsConsistent(call.precs, p, call.state) /\ VariablesOf(call.precs) \subseteq DOMAIN p
    BY <1>1, <2>1, <2>2 DEF Handed
  <2>4. DOMAIN p = Unbound(call) \cup DOMAIN call.sub
    BY <2>3 DEF Asked, Good, Unbound, Extends
  <2>5. Instance(call, p)
    BY <1>1, <2>3, <2>4 DEF Instance
  <2>6. ASSUME NEW s, Instance(call, s), Extends(s, p)
        PROVE  Agrees(call, {p}, s)
    <3>1. s = p
      BY <2>5, <2>6, InstanceFacts
    <3> QED  BY <3>1 DEF Agrees, SameOn
  <2>7. \A r \in {p} : Instance(call, r) /\ Extends(r, p)
    BY <1>1, <2>5
  <2> QED  BY <1>3, <2>6, <2>7 DEF Returns
<1>4. CASE /\ ~Refuted(form, p)
           /\ \E l \in MostSpecified(open) :
                IF Recurses(l) \/ Throws(l)
                THEN status' = (IF Throws(l) THEN "exception" ELSE "overflow") /\ UNCHANGED <<stack, results>>
                ELSE /\ stack' = Append(below, [form |-> open, sub |-> p, rel |-> rel,
                                                untried |-> Bindings(l), found |-> {}])
                     /\ UNCHANGED <<results, status>>
  <2>1. PICK l \in MostSpecified(open) :
          IF Recurses(l) \/ Throws(l)
          THEN status' = (IF Throws(l) THEN "exception" ELSE "overflow") /\ UNCHANGED <<stack, results>>
          ELSE /\ stack' = Append(below, [form |-> open, sub |-> p, rel |-> rel,
                                          untried |-> Bindings(l), found |-> {}])
               /\ UNCHANGED <<results, status>>
    BY <1>4
  <2>2. Handed(call, open, p) /\ VariablesOf(open) \cap DOMAIN p = {}
    BY <1>1, <1>4, HandedOn
  <2> HIDE DEF open
  <2>3. CASE Recurses(l) \/ Throws(l)
    BY <2>1, <2>3
  <2>4. CASE ~Recurses(l) /\ ~Throws(l)
    <3> DEFINE fr == [form |-> open, sub |-> p, rel |-> rel, untried |-> Bindings(l), found |-> {}]
    <3>1. fr.form = open /\ fr.sub = p /\ fr.rel = rel /\ fr.untried = Bindings(l) /\ fr.found = {}
      OBVIOUS
    <3>2. l \in open
      BY DEF MostSpecified
    <3>3. VariablesOf({l}) \subseteq VariablesOf(open) /\ open \in SUBSET Formula
      BY <2>2, <3>2, VariablesOfEach DEF Handed
    <3>4. \A f \in Bindings(l) : f \in Subst /\ DOMAIN f = VariablesOf({l}) /\ \A v \in DOMAIN f : MayBind(call, v, f[v])
      BY <2>2, <3>2, BindingsSound
    <3>5. fr \in Frame
      <4>1. Bindings(l) \in SUBSET Subst /\ rel \in SUBSET Variable
        BY <3>4 DEF Asked
      <4> QED  BY <1>1, <3>3, <4>1 DEF Frame
    <3>6. ASSUME NEW s, Instance(call, s), Extends(s, p)
          PROVE  \E f \in Bindings(l) : Extends(s, f)
      <4>1. Extends(p, call.sub)
        BY <1>1 DEF Good
      <4> QED  BY <2>2, <2>4, <3>6, <4>1, BindingsComplete
    <3>7. stack' = Append(below, fr) /\ UNCHANGED <<results, status>>
      BY <2>1, <2>4
    <3> HIDE DEF fr
    <3>8. FrameOK(call, fr)
      BY <1>1, <2>2, <3>1, <3>3, <3>4 DEF FrameOK, Asked
    <3> QED  BY <3>1, <3>5, <3>6, <3>7, <3>8 DEF Pushes
  <2> QED  BY <2>3, <2>4
<1> QED  BY <1>2, <1>3, <1>4 DEF Enter

----------------------------------------------------------------------------
(* The stack after a call                                                  *)

\* What becomes of the handlers below a call for the extensions of p.
Keeps(p, below) ==
  /\ Stacked(call, stack') /\ \A r \in results' : Instance(call, r)
  /\ status' \in {"running", "done"} =>
       /\ status' = status
       /\ \A s : Instance(call, s) /\ (Agrees(call, results, s) \/ AwaitedIn(call, below, s) \/ Extends(s, p)) =>
            Agrees(call, results', s) \/ AwaitedIn(call, stack', s)

LEMMA MoreAgree ==
  ASSUME NEW c, NEW R, NEW S, R \subseteq S, NEW s, Agrees(c, R, s)
  PROVE  Agrees(c, S, s)
  BY DEF Agrees

\* What is given to the handler below, or returned, is not lost.
LEMMA GiveKeeps ==
  ASSUME call \in CallType, NEW p, NEW below, Stacked(call, below), NEW found, Give(found, below),
         \A r \in found : Instance(call, r) /\ Extends(r, p),
         below # <<>> => Extends(p, below[Len(below)].sub), \A r \in results : Instance(call, r)
  PROVE  /\ Stacked(call, stack') /\ \A r \in results' : Instance(call, r)
         /\ \A s : Instance(call, s)
                  /\ (\/ Agrees(call, results, s) \/ AwaitedIn(call, below, s)
                      \/ Extends(s, p) /\ Agrees(call, found, s)) =>
              Agrees(call, results', s) \/ AwaitedIn(call, stack', s)
<1>1. Give(found, below) /\ \A r \in found : Instance(call, r) /\ Extends(r, p)
  OBVIOUS
<1>2. CASE below = <<>>
  <2>1. results' = results \cup found /\ stack' = <<>>
    BY <1>1, <1>2 DEF Give
  <2>2. Stacked(call, stack')
    BY <2>1 DEF Stacked
  <2>3. \A s : ~AwaitedIn(call, below, s)
    BY <1>2 DEF AwaitedIn
  <2>4. ASSUME NEW s, Instance(call, s), Agrees(call, results, s) \/ Agrees(call, found, s)
        PROVE  Agrees(call, results', s)
    BY <2>1, <2>4, MoreAgree
  <2> QED  BY <1>1, <2>1, <2>2, <2>3, <2>4
<1>3. CASE below # <<>>
  <2> DEFINE n == Len(below)
             old == below[n]
             new == [old EXCEPT !.found = @ \cup found]
  <2>1. below \in Seq(Frame) /\ n \in Nat /\ n \in 1..n /\ old \in Frame /\ FrameOK(call, old)
    BY <1>3 DEF Stacked
  <2>2. stack' = [below EXCEPT ![n] = new] /\ results' = results
    <3>1. stack' = [below EXCEPT ![Len(below)].found = @ \cup found] /\ results' = results
      BY <1>1, <1>3 DEF Give
    <3> QED  BY <2>1, <3>1
  <2>3. /\ new.form = old.form /\ new.sub = old.sub /\ new.rel = old.rel /\ new.untried = old.untried
        /\ new.found = old.found \cup found
    BY <2>1 DEF Frame
  <2>4. found \subseteq Subst
    BY <1>1 DEF Instance, Good
  <2>5. new \in Frame
    BY <2>1, <2>4 DEF Frame
  <2> HIDE DEF new
  <2>6. FrameOK(call, new)
    <3>1. \A r \in new.found : Instance(call, r) /\ Extends(r, new.sub)
      <4> TAKE r \in new.found
      <4>1. CASE r \in old.found
        BY <2>1, <2>3, <4>1 DEF FrameOK
      <4>2. CASE r \in found
        BY <1>1, <1>3, <2>3, <4>2, ExtendsThrough
      <4> QED  BY <2>3, <4>1, <4>2
    <3> QED  BY <2>1, <2>3, <3>1 DEF FrameOK
  <2> HIDE DEF n, old
  <2>7. /\ stack' \in Seq(Frame) /\ Len(stack') = n /\ stack'[n] = new
        /\ \A k \in 1..n : k # n => stack'[k] = below[k]
    BY <2>1, <2>2, <2>5 DEF n
  <2>8. \A k \in 1..n : stack'[k].sub = below[k].sub /\ FrameOK(call, stack'[k])
    BY <2>1, <2>3, <2>6, <2>7 DEF Stacked, n, old
  <2>9. Stacked(call, stack')
    BY <2>1, <2>7, <2>8 DEF Stacked, n
  <2>10. ASSUME NEW s, Awaited(call, old, s)
         PROVE  Awaited(call, new, s)
    BY <2>3, <2>10, MoreAgree DEF Awaited
  <2>11. ASSUME NEW s, Instance(call, s), AwaitedIn(call, below, s)
         PROVE  AwaitedIn(call, stack', s)
    <3>1. PICK k \in 1..n : Awaited(call, below[k], s)
      BY <2>11 DEF AwaitedIn, n
    <3>2. Awaited(call, stack'[k], s)
      BY <2>7, <2>10, <3>1 DEF old
    <3> QED  BY <2>7, <3>2 DEF AwaitedIn
  <2>12. ASSUME NEW s, Instance(call, s), Extends(s, p), Agrees(call, found, s)
         PROVE  AwaitedIn(call, stack', s)
    <3>1. Agrees(call, new.found, s)
      BY <2>3, <2>12, MoreAgree
    <3>2. Extends(s, new.sub)
      BY <1>3, <2>3, <2>12, ExtendsThrough DEF old, n
    <3> QED  BY <2>1, <2>7, <3>1, <3>2 DEF AwaitedIn, Awaited
  <2> QED  BY <2>2, <2>9, <2>11, <2>12
<1> QED  BY <1>2, <1>3

LEMMA ReturnKeeps ==
  ASSUME call \in CallType, NEW p, NEW below, Stacked(call, below), Returns(p, below),
         below # <<>> => Extends(p, below[Len(below)].sub), \A r \in results : Instance(call, r)
  PROVE  Keeps(p, below)
<1>1. PICK found : /\ Give(found, below) /\ status' = status
                   /\ \A r \in found : Instance(call, r) /\ Extends(r, p)
                   /\ \A s : Instance(call, s) /\ Extends(s, p) => Agrees(call, found, s)
  BY DEF Returns
<1>2. /\ Stacked(call, stack') /\ \A r \in results' : Instance(call, r)
      /\ \A s : Instance(call, s)
               /\ (\/ Agrees(call, results, s) \/ AwaitedIn(call, below, s)
                   \/ Extends(s, p) /\ Agrees(call, found, s)) =>
           Agrees(call, results', s) \/ AwaitedIn(call, stack', s)
  BY <1>1, GiveKeeps
<1>3. ASSUME NEW s, Instance(call, s), Agrees(call, results, s) \/ AwaitedIn(call, below, s) \/ Extends(s, p)
      PROVE  Agrees(call, results', s) \/ AwaitedIn(call, stack', s)
  <2>1. Extends(s, p) => Agrees(call, found, s)
    BY <1>1, <1>3
  <2> QED  BY <1>2, <1>3, <2>1
<1> QED  BY <1>1, <1>2, <1>3 DEF Keeps

LEMMA PushKeeps ==
  ASSUME call \in CallType, NEW p, NEW below, Stacked(call, below), Pushes(p, below),
         below # <<>> => Extends(p, below[Len(below)].sub), \A r \in results : Instance(call, r)
  PROVE  Keeps(p, below)
<1>1. PICK fr \in Frame : /\ FrameOK(call, fr) /\ fr.sub = p /\ stack' = Append(below, fr)
                          /\ UNCHANGED <<results, status>>
                          /\ \A s : Instance(call, s) /\ Extends(s, p) => \E f \in fr.untried : Extends(s, f)
  BY DEF Pushes
<1>2. below \in Seq(Frame) /\ Len(below) \in Nat
  BY DEF Stacked
<1>3. /\ stack' \in Seq(Frame) /\ Len(stack') = Len(below) + 1 /\ stack'[Len(below) + 1] = fr
      /\ \A k \in 1..Len(below) : stack'[k] = below[k]
  BY <1>1, <1>2
<1>4. \A k \in 1..Len(stack') : FrameOK(call, stack'[k])
  <2> TAKE k \in 1..Len(stack')
  <2>1. CASE k = Len(below) + 1
    BY <1>1, <1>3, <2>1
  <2>2. CASE k \in 1..Len(below)
    BY <1>3, <2>2 DEF Stacked
  <2> QED  BY <1>2, <1>3, <2>1, <2>2
<1>5. \A k \in 1..(Len(stack') - 1) : Extends(stack'[k + 1].sub, stack'[k].sub)
  <2> TAKE k \in 1..(Len(stack') - 1)
  <2>1. CASE k = Len(below)
    <3>1. below # <<>>
      BY <1>2, <1>3, <2>1
    <3>2. stack'[k + 1] = fr /\ stack'[k] = below[Len(below)]
      BY <1>2, <1>3, <2>1
    <3> QED  BY <1>1, <3>1, <3>2
  <2>2. CASE k \in 1..(Len(below) - 1)
    <3>1. k \in 1..Len(below) /\ k + 1 \in 1..Len(below)
      BY <1>2, <2>2
    <3>2. stack'[k] = below[k] /\ stack'[k + 1] = below[k + 1]
      BY <1>3, <3>1
    <3> QED  BY <2>2, <3>2 DEF Stacked
  <2> QED  BY <1>2, <1>3, <2>1, <2>2
<1>6. Stacked(call, stack')
  BY <1>3, <1>4, <1>5 DEF Stacked
<1>7. ASSUME NEW s, AwaitedIn(call, below, s)
      PROVE  AwaitedIn(call, stack', s)
  BY <1>2, <1>3, <1>7 DEF AwaitedIn
<1>8. ASSUME NEW s, Instance(call, s), Extends(s, p)
      PROVE  AwaitedIn(call, stack', s)
  <2>1. Awaited(call, fr, s)
    BY <1>1, <1>8 DEF Awaited
  <2>2. Len(below) + 1 \in 1..Len(stack')
    BY <1>2, <1>3
  <2> QED  BY <1>3, <2>1, <2>2 DEF AwaitedIn
<1> QED  BY <1>1, <1>6, <1>7, <1>8 DEF Keeps

LEMMA EnterKeeps ==
  ASSUME call \in CallType, NEW form, NEW p, NEW rel, NEW below, Asked(call, form, p, rel), Enter(form, p, rel, below),
         Stacked(call, stack), Stacked(call, below), below # <<>> => Extends(p, below[Len(below)].sub),
         \A r \in results : Instance(call, r)
  PROVE  Keeps(p, below)
<1>1. CASE Returns(p, below)
  BY <1>1, ReturnKeeps
<1>2. CASE Pushes(p, below)
  BY <1>2, PushKeeps
<1>3. CASE status' \in {"exception", "overflow"} /\ UNCHANGED <<stack, results>>
  BY <1>3 DEF Keeps
<1> QED  BY <1>1, <1>2, <1>3, Entered

----------------------------------------------------------------------------
(* Each step keeps the invariant                                           *)

LEMMA Started == Init => IInv
<1> SUFFICES ASSUME Init PROVE IInv
  OBVIOUS
<1>1. /\ call \in CallType /\ parts = {call.sub} /\ stack = <<>> /\ results = {} /\ status = "running"
  BY CallAssumption DEF Init
<1>2. Stacked(call, stack)
  BY <1>1 DEF Stacked
<1>3. Good(call, call.sub)
  BY <1>1, CallFacts DEF Good, Extends
<1>4. \A s : Instance(call, s) => Extends(s, call.sub)
  BY DEF Instance, Good
<1> QED  BY <1>1, <1>2, <1>3, <1>4 DEF IInv

LEMMA GroundHeadKeeps ==
  ASSUME IInv, GroundHead
  PROVE  IInv'
<1> DEFINE v(p) == call.params[CHOOSE i \in Unmentioned(p) : \A j \in Unmentioned(p) : i <= j]
           new(p) == {f \in [{v(p)} -> ConstantsOf(call.state)] : Fits(f)}
<1>1. PICK p \in parts : Unmentioned(p) # {} /\ parts' = (parts \ {p}) \cup {Joint(p, f) : f \in new(p)}
  BY DEF GroundHead
<1>2. status = "running" /\ stack = <<>> /\ UNCHANGED <<call, stack, results, status>>
  BY DEF GroundHead
<1>3. call \in CallType /\ Good(call, p) /\ p \in Subst
  BY <1>1 DEF IInv, Good
<1> DEFINE x == v(p)
<1>4. x \in Elems(call.params) /\ x \notin DOMAIN p \cup VariablesOf(call.precs)
  <2>1. Unmentioned(p) \subseteq Nat
    BY DEF Unmentioned
  <2>2. \E i \in Unmentioned(p) : \A j \in Unmentioned(p) : i <= j
    BY <1>1, <2>1, Least
  <2>3. PICK i \in Unmentioned(p) : x = call.params[i]
    BY <2>2
  <2> HIDE DEF x
  <2> QED  BY <2>3 DEF Unmentioned, Elems
<1>5. parts' = (parts \ {p}) \cup {Joint(p, f) : f \in {g \in [{x} -> ConstantsOf(call.state)] : Fits(g)}}
  BY <1>1
<1> HIDE DEF x
<1>6. x \in Variable /\ x \in Unbound(call) /\ x \notin EqualsOf(call)
  <2>1. x \in Variable
    BY <1>3, <1>4, CallFacts
  <2>2. x \notin DOMAIN call.sub
    BY <1>3, <1>4 DEF Good, Extends
  <2> QED  BY <1>3, <1>4, <2>1, <2>2, CallFacts DEF Unbound
<1>7. ConstantsOf(call.state) \subseteq Object /\ ConstantsOf(call.state) \subseteq ConstsOf(call)
  BY <1>3, CallFacts DEF ConstsOf
<1>8. ASSUME NEW f \in [{x} -> ConstantsOf(call.state)], Fits(f)
      PROVE  /\ Good(call, Joint(p, f))
             /\ \A s : Extends(s, p) /\ Extends(s, f) => Extends(s, Joint(p, f))
  <2>1. f \in Subst
    <3>1. f \in [{x} -> Object] /\ {x} \in SUBSET Variable
      BY <1>6, <1>7
    <3> QED  BY <3>1, SubstIs
  <2>2. DOMAIN p \cap DOMAIN f = {}
    BY <1>4
  <2> DEFINE q == Joint(p, f)
  <2>3. /\ q \in Subst /\ DOMAIN q = DOMAIN p \cup DOMAIN f /\ Extends(q, p) /\ Extends(q, f)
        /\ \A s : Extends(s, p) /\ Extends(s, f) => Extends(s, q)
    BY <1>3, <2>1, <2>2, Joined
  <2> HIDE DEF q
  <2>4. \A y \in DOMAIN f : MayBind(call, y, f[y])
    BY <1>7, <1>8 DEF Fits, MayBind
  <2>5. Good(call, q)
    <3>1. DOMAIN f \subseteq Unbound(call) /\ DOMAIN q = DOMAIN f \cup DOMAIN p
      BY <1>6, <2>3
    <3> QED  BY <1>3, <2>1, <2>3, <2>4, <3>1, GoodFurther
  <2> QED  BY <2>3, <2>5 DEF q
<1>9. \A q \in parts' : Good(call, q)
  BY <1>5, <1>8 DEF IInv
<1>10. ASSUME NEW s, Instance(call, s), Extends(s, p)
       PROVE  \E q \in parts' : Extends(s, q)
  <2> DEFINE f == [y \in {x} |-> s[y]]
  <2>1. MayBind(call, x, s[x])
    BY <1>3, <1>6, <1>10, InstanceFacts
  <2>2. x \in DOMAIN s
    BY <1>3, <1>4, <1>10, InstanceFacts
  <2>3. f \in [{x} -> ConstantsOf(call.state)] /\ f[x] = s[x] /\ DOMAIN f = {x}
    BY <1>6, <2>1 DEF MayBind
  <2> HIDE DEF f
  <2>4. Fits(f) /\ Extends(s, f)
    BY <2>1, <2>2, <2>3 DEF Fits, MayBind, Extends
  <2>5. Joint(p, f) \in parts'
    BY <1>5, <2>3, <2>4
  <2> QED  BY <1>8, <1>10, <2>3, <2>4, <2>5
<1>11. \A s : Instance(call, s) =>
         Agrees(call, results, s) \/ AwaitedIn(call, stack, s) \/ \E q \in parts' : Extends(s, q)
  <2> SUFFICES ASSUME NEW s, Instance(call, s),
                      ~Agrees(call, results, s), ~AwaitedIn(call, stack, s)
               PROVE  \E q \in parts' : Extends(s, q)
    OBVIOUS
  <2>1. PICK q \in parts : Extends(s, q)
    BY <1>2 DEF IInv
  <2>2. CASE q = p
    BY <1>10, <2>1, <2>2
  <2>3. CASE q # p
    BY <1>5, <2>1, <2>3
  <2> QED  BY <2>2, <2>3
<1> QED  BY <1>2, <1>9, <1>11 DEF IInv

LEMMA BeginKeeps ==
  ASSUME IInv, Begin
  PROVE  IInv'
<1> DEFINE rel(p) == IF call.params = <<>> THEN call.rel ELSE call.rel \ DOMAIN p
<1>1. PICK p \in parts : Unmentioned(p) = {} /\ parts' = parts \ {p} /\ Enter(call.precs, p, rel(p), <<>>)
  BY DEF Begin
<1>2. status = "running" /\ stack = <<>> /\ call' = call
  BY DEF Begin
<1>3. call \in CallType /\ Good(call, p) /\ \A r \in results : Instance(call, r)
  BY <1>1 DEF IInv
<1>4. Handed(call, call.precs, p)
  BY <1>3, HandedAtFirst
<1>5. Elems(call.params) \subseteq DOMAIN p \cup VariablesOf(call.precs)
  BY <1>1 DEF Unmentioned, Elems
<1>6. call.rel \subseteq rel(p) \cup DOMAIN p /\ rel(p) \subseteq Variable
  BY <1>3 DEF CallType
<1> HIDE DEF rel
<1>7. Asked(call, call.precs, p, rel(p))
  BY <1>3, <1>4, <1>5, <1>6 DEF Asked
<1>8. Stacked(call, <<>>) /\ Stacked(call, stack)
  BY <1>2 DEF Stacked
<1>9. Keeps(p, <<>>)
  BY <1>1, <1>3, <1>7, <1>8, EnterKeeps
<1>10. ASSUME status' \in {"running", "done"}, NEW s, Instance(call, s)
       PROVE  Agrees(call, results', s) \/ AwaitedIn(call, stack', s) \/ \E q \in parts' : Extends(s, q)
  <2>1. Agrees(call, results, s) \/ AwaitedIn(call, stack, s) \/ \E q \in parts : Extends(s, q)
    BY <1>2, <1>10 DEF IInv
  <2>2. ~AwaitedIn(call, stack, s)
    BY <1>2 DEF AwaitedIn
  <2>3. CASE Agrees(call, results, s) \/ Extends(s, p)
    BY <1>9, <1>10, <2>3 DEF Keeps
  <2>4. CASE \E q \in parts : q # p /\ Extends(s, q)
    BY <1>1, <2>4
  <2> QED  BY <2>1, <2>2, <2>3, <2>4
<1>11. status' # "done"
  BY <1>2, <1>9 DEF Keeps
<1> QED  BY <1>1, <1>2, <1>3, <1>9, <1>10, <1>11 DEF IInv, Keeps

LEMMA TopFacts ==
  ASSUME IInv, stack # <<>>
  PROVE  /\ Len(stack) \in Nat /\ Len(stack) \in 1..Len(stack) /\ stack \in Seq(Frame)
         /\ Top \in Frame /\ FrameOK(call, Top) /\ Top = stack[Len(stack)]
  BY DEF IInv, Stacked, Top

LEMMA ExtendKeeps ==
  ASSUME IInv, Extend
  PROVE  IInv'
<1> DEFINE n == Len(stack)
           old == Top
<1>1. PICK f \in old.untried :
        Enter(old.form, Joint(f, old.sub), old.rel \ DOMAIN f, [stack EXCEPT ![Len(stack)].untried = @ \ {f}])
  BY DEF Extend
<1>2. status = "running" /\ stack # <<>> /\ UNCHANGED <<call, parts>>
  BY DEF Extend
<1>3. /\ n \in Nat /\ n \in 1..n /\ stack \in Seq(Frame)
      /\ old \in Frame /\ FrameOK(call, old) /\ old = stack[n]
      /\ call \in CallType /\ \A r \in results : Instance(call, r)
  BY <1>2, TopFacts DEF IInv
<1> DEFINE p == Joint(f, old.sub)
           new == [old EXCEPT !.untried = @ \ {f}]
           below == [stack EXCEPT ![Len(stack)].untried = @ \ {f}]
<1>4. below = [stack EXCEPT ![n] = new]
  BY <1>3
<1>5. /\ new \in Frame /\ new.form = old.form /\ new.sub = old.sub /\ new.rel = old.rel
      /\ new.untried = old.untried \ {f} /\ new.found = old.found
  BY <1>3 DEF Frame
<1>6. Enter(old.form, p, old.rel \ DOMAIN f, below)
  BY <1>1
<1> HIDE DEF new, below, old
<1>7. /\ below \in Seq(Frame) /\ Len(below) = n /\ below[n] = new
      /\ \A k \in 1..n : k # n => below[k] = stack[k]
  BY <1>3, <1>4, <1>5
<1>8. Stacked(call, below)
  <2>1. FrameOK(call, new)
    BY <1>3, <1>5 DEF FrameOK
  <2>2. \A k \in 1..n : below[k].sub = stack[k].sub /\ FrameOK(call, below[k])
    BY <1>3, <1>5, <1>7, <2>1 DEF IInv, Stacked
  <2>3. \A k \in 1..(n - 1) : Extends(below[k + 1].sub, below[k].sub)
    <3> TAKE k \in 1..(n - 1)
    <3>1. k \in 1..n /\ k + 1 \in 1..n
      BY <1>3
    <3>2. Extends(stack[k + 1].sub, stack[k].sub)
      BY DEF IInv, Stacked
    <3> QED  BY <2>2, <3>1, <3>2
  <2> QED  BY <1>3, <1>7, <2>2, <2>3 DEF Stacked
<1>9. /\ f \in Subst /\ DOMAIN f \subseteq VariablesOf(old.form) /\ \A v \in DOMAIN f : MayBind(call, v, f[v])
      /\ Good(call, old.sub) /\ Handed(call, old.form, old.sub) /\ VariablesOf(old.form) \cap DOMAIN old.sub = {}
  BY <1>1, <1>3 DEF FrameOK, Frame
<1>10. /\ p \in Subst /\ DOMAIN p = DOMAIN f \cup DOMAIN old.sub /\ Extends(p, f) /\ Extends(p, old.sub)
       /\ \A s : Extends(s, f) /\ Extends(s, old.sub) => Extends(s, p)
  <2>1. old.sub \in Subst /\ DOMAIN f \cap DOMAIN old.sub = {}
    BY <1>9 DEF Good
  <2> QED  BY <1>9, <2>1, Joined
<1> HIDE DEF p, n
<1>11. DOMAIN f \subseteq Unbound(call)
  BY <1>9 DEF Handed, Good, Extends, Unbound
<1>12. Good(call, p)
  BY <1>3, <1>9, <1>10, <1>11, GoodFurther
<1>13. Handed(call, old.form, p)
  BY <1>9, <1>10, HandedFurther
<1>14. Asked(call, old.form, p, old.rel \ DOMAIN f)
  <2>1. old.rel \subseteq Variable
    BY <1>3 DEF Frame
  <2> QED  BY <1>3, <1>10, <1>12, <1>13, <2>1 DEF Asked, FrameOK
<1>15. Extends(p, below[Len(below)].sub)
  BY <1>5, <1>7, <1>10
<1>16. Keeps(p, below)
  <2>1. Stacked(call, stack)
    BY DEF IInv
  <2> QED  BY <1>3, <1>6, <1>8, <1>14, <1>15, <2>1, EnterKeeps
<1>17. ASSUME NEW s, AwaitedIn(call, stack, s)
       PROVE  AwaitedIn(call, below, s) \/ Extends(s, p)
  <2>1. PICK k \in 1..n : Awaited(call, stack[k], s)
    BY <1>17 DEF AwaitedIn, n
  <2>2. CASE k # n
    BY <1>7, <2>1, <2>2 DEF AwaitedIn
  <2>3. CASE k = n
    <3>1. Awaited(call, old, s)
      BY <1>3, <2>1, <2>3 DEF n
    <3>2. CASE Extends(s, f)
      BY <1>10, <3>1, <3>2 DEF Awaited
    <3>3. CASE ~Extends(s, f)
      <4>1. Awaited(call, new, s)
        BY <1>5, <3>1, <3>3 DEF Awaited
      <4> QED  BY <1>3, <1>7, <4>1 DEF AwaitedIn, n
    <3> QED  BY <3>2, <3>3
  <2> QED  BY <2>2, <2>3
<1>18. ASSUME status' \in {"running", "done"}, NEW s, Instance(call, s)
       PROVE  Agrees(call, results', s) \/ AwaitedIn(call, stack', s) \/ \E q \in parts' : Extends(s, q)
  <2>1. Agrees(call, results, s) \/ AwaitedIn(call, stack, s) \/ \E q \in parts : Extends(s, q)
    BY <1>2, <1>18 DEF IInv
  <2>2. CASE Agrees(call, results, s) \/ AwaitedIn(call, stack, s)
    BY <1>16, <1>17, <1>18, <2>2 DEF Keeps
  <2>3. CASE \E q \in parts : Extends(s, q)
    BY <1>2, <2>3
  <2> QED  BY <2>1, <2>2, <2>3
<1>19. status' # "done"
  BY <1>2, <1>16 DEF Keeps
<1> QED  BY <1>2, <1>3, <1>16, <1>18, <1>19 DEF IInv, Keeps

\* Where no variable is left that matters, one instance stands for all.
LEMMA ReturnStepKeeps ==
  ASSUME IInv, Return
  PROVE  IInv'
<1> DEFINE n == Len(stack)
           old == Top
           below == Front(stack)
<1>1. /\ status = "running" /\ stack # <<>> /\ Finished(old) /\ Give(old.found, below)
      /\ UNCHANGED <<call, parts, status>>
  BY DEF Return
<1>2. /\ n \in Nat /\ n \in 1..n /\ stack \in Seq(Frame) /\ old \in Frame /\ FrameOK(call, old) /\ old = stack[n]
      /\ call \in CallType /\ Stacked(call, stack) /\ \A r \in results : Instance(call, r)
  BY <1>1, TopFacts DEF IInv
<1>3. below = SubSeq(stack, 1, n - 1)
  BY DEF Front
<1> HIDE DEF below, old, n
<1>4. below \in Seq(Frame) /\ Len(below) = n - 1 /\ \A k \in 1..(n - 1) : below[k] = stack[k]
  <2>1. n - 1 \in Nat /\ n - 1 <= Len(stack)
    BY <1>2 DEF n
  <2>2. \A k \in 1..(n - 1) : stack[k] \in Frame
    BY <1>2, <2>1 DEF n
  <2> QED  BY <1>2, <1>3, <2>1, <2>2
<1>5. Stacked(call, below)
  BY <1>2, <1>4 DEF Stacked, n
<1>6. ASSUME below # <<>>
      PROVE  Extends(old.sub, below[Len(below)].sub)
  <2>1. n - 1 \in 1..(n - 1)
    BY <1>2, <1>4, <1>6
  <2>2. Extends(stack[(n - 1) + 1].sub, stack[n - 1].sub)
    BY <1>2, <2>1 DEF Stacked, n
  <2>3. (n - 1) + 1 = n
    BY <1>2
  <2> QED  BY <1>2, <1>4, <2>1, <2>2, <2>3
<1>7. ASSUME NEW s, Awaited(call, old, s)
      PROVE  Extends(s, old.sub) /\ Agrees(call, old.found, s)
  <2>1. CASE old.untried = {}
    BY <1>7, <2>1 DEF Awaited
  <2>2. CASE old.found # {} /\ old.rel = {}
    <3>1. PICK r \in old.found : Extends(r, old.sub)
      BY <1>2, <2>2 DEF FrameOK
    <3>2. Matters(call) \subseteq DOMAIN old.sub
      BY <1>2, <2>2 DEF Matters, FrameOK
    <3>3. SameOn(r, s, Matters(call))
      BY <1>7, <3>1, <3>2 DEF SameOn, Extends, Awaited
    <3> QED  BY <1>7, <3>3 DEF Agrees, Awaited
  <2> QED  BY <1>1, <2>1, <2>2 DEF Finished
<1>8. \A r \in old.found : Instance(call, r) /\ Extends(r, old.sub)
  BY <1>2 DEF FrameOK
<1>9. /\ Stacked(call, stack') /\ \A r \in results' : Instance(call, r)
      /\ \A s : Instance(call, s)
               /\ (\/ Agrees(call, results, s) \/ AwaitedIn(call, below, s)
                   \/ Extends(s, old.sub) /\ Agrees(call, old.found, s)) =>
           Agrees(call, results', s) \/ AwaitedIn(call, stack', s)
  BY <1>1, <1>2, <1>5, <1>6, <1>8, GiveKeeps
<1>10. ASSUME NEW s, AwaitedIn(call, stack, s)
       PROVE  AwaitedIn(call, below, s) \/ (Extends(s, old.sub) /\ Agrees(call, old.found, s))
  <2>1. PICK k \in 1..n : Awaited(call, stack[k], s)
    BY <1>10 DEF AwaitedIn, n
  <2>2. CASE k = n
    BY <1>2, <1>7, <2>1, <2>2
  <2>3. CASE k # n
    <3>1. k \in 1..(n - 1)
      BY <1>2, <2>3
    <3> QED  BY <1>4, <2>1, <3>1 DEF AwaitedIn
  <2> QED  BY <2>2, <2>3
<1>11. \A s : Instance(call, s) =>
         Agrees(call, results', s) \/ AwaitedIn(call, stack', s) \/ \E q \in parts' : Extends(s, q)
  <2> SUFFICES ASSUME NEW s, Instance(call, s)
               PROVE  Agrees(call, results', s) \/ AwaitedIn(call, stack', s) \/ \E q \in parts' : Extends(s, q)
    OBVIOUS
  <2>1. Agrees(call, results, s) \/ AwaitedIn(call, stack, s) \/ \E q \in parts : Extends(s, q)
    BY <1>1 DEF IInv
  <2>2. CASE Agrees(call, results, s) \/ AwaitedIn(call, stack, s)
    BY <1>9, <1>10, <2>2
  <2>3. CASE \E q \in parts : Extends(s, q)
    BY <1>1, <2>3
  <2> QED  BY <2>1, <2>2, <2>3
<1> QED  BY <1>1, <1>2, <1>9, <1>11 DEF IInv

LEMMA EndKeeps ==
  ASSUME IInv, End
  PROVE  IInv'
  BY DEF IInv, End

LEMMA Kept == IInv /\ [Next]_vars => IInv'
<1> SUFFICES ASSUME IInv, [Next]_vars PROVE IInv'
  OBVIOUS
<1>1. CASE GroundHead
  BY <1>1, GroundHeadKeeps
<1>2. CASE Begin
  BY <1>2, BeginKeeps
<1>3. CASE Extend
  BY <1>3, ExtendKeeps
<1>4. CASE Return
  BY <1>4, ReturnStepKeeps
<1>5. CASE End
  BY <1>5, EndKeeps
<1>6. CASE UNCHANGED vars
  BY <1>6 DEF IInv, vars
<1> QED  BY <1>1, <1>2, <1>3, <1>4, <1>5, <1>6 DEF Next

LEMMA Invariance == Spec => []IInv
  BY Started, Kept, PTL DEF Spec

----------------------------------------------------------------------------
(* What is found                                                           *)

\* Whatever order the search takes formulas and bindings in, every substitution
\* it returns extends the given one, has constants of the right types, and makes
\* the preconditions true.
THEOREM FoundAreRight == Spec => []FoundAreInstances
<1>1. IInv => FoundAreInstances
  BY InstancesAre DEF IInv, FoundAreInstances
<1> QED  BY <1>1, Invariance, PTL

\* When the search has ended, every instance agrees with one that was found in
\* all that matters: stopping early, and binding negations last, loses nothing.
THEOREM NoneIsMissed == Spec => []NoInstanceMissed
<1>1. IInv => NoInstanceMissed
  <2> SUFFICES ASSUME IInv, status = "done", NEW s \in Instances
               PROVE  \E r \in results :
                        SameOn(r, s, (DOMAIN s \cap call.rel) \cup (Elems(call.params) \ VariablesOf(call.precs)))
    BY DEF NoInstanceMissed
  <2>1. call \in CallType /\ parts = {} /\ stack = <<>>
    BY DEF IInv
  <2>2. Instance(call, s)
    BY <2>1, InstancesAre
  <2>3. ~AwaitedIn(call, stack, s)
    BY <2>1 DEF AwaitedIn
  <2>4. Agrees(call, results, s)
    BY <2>1, <2>2, <2>3 DEF IInv
  <2>5. DOMAIN s = Unbound(call) \cup DOMAIN call.sub
    BY <2>2 DEF Instance
  <2> QED  BY <2>4, <2>5 DEF Agrees, Matters
<1> QED  BY <1>1, Invariance, PTL
=============================================================================
