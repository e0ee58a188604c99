------------------------- MODULE SubsumptionProofs -------------------------
(***************************************************************************)
(* HtnMethod::Subsumes for every two methods: the search says yes only     *)
(* where the definition does, and says no only where it does not, unless   *)
(* an equation is matched before its variables are known.                  *)
(***************************************************************************)
EXTENDS Subsumption, SequenceTheorems, TLAPS

----------------------------------------------------------------------------
(* Terms and formulas under temporary names                                *)

OldTerm == {Old(v) : v \in Variable}
NewTerm == {New(v) : v \in Variable}
TempTerm == OldTerm \cup NewTerm

TempLiteral ==
  {l \in [pos : BOOLEAN, pred : Predicate \cup {"="}, args : Seq(TempTerm)] :
     (l.pred = "=" => Len(l.args) = 2) /\ (~l.pos => l.pred = "=")}

\* Substitutions of new terms for old ones, and those that leave none.
TempSub == UNION {[vs -> NewTerm] : vs \in SUBSET OldTerm}
FullSub == [OldTerm -> NewTerm]

Extends(q, p) == DOMAIN p \subseteq DOMAIN q /\ \A v \in DOMAIN p : q[v] = p[v]

LEMMA TermFacts ==
  /\ \A v \in Variable : Old(v) \in OldTerm /\ New(v) \in NewTerm
  /\ \A t \in TempTerm : (IsOld(t) <=> t \in OldTerm) /\ (t \in NewTerm <=> t \notin OldTerm)
  /\ \A v, w \in Variable : (Old(v) = Old(w) => v = w) /\ (New(v) = New(w) => v = w)
  /\ \A t \in OldTerm : t[2] \in Variable /\ t = Old(t[2])
  /\ \A t \in NewTerm : t[2] \in Variable /\ t = New(t[2])
<1>1. \A v \in Variable : Old(v) \in OldTerm /\ New(v) \in NewTerm
  BY DEF OldTerm, NewTerm
<1>2. \A v : Old(v)[1] = "?temp_old_" /\ New(v)[1] = "?temp_new_" /\ Old(v)[2] = v /\ New(v)[2] = v
  BY DEF Old, New
<1>3. \A t \in OldTerm : t[2] \in Variable /\ t = Old(t[2]) /\ IsOld(t)
  BY <1>2 DEF OldTerm, IsOld
<1>4. \A t \in NewTerm : t[2] \in Variable /\ t = New(t[2]) /\ ~IsOld(t)
  BY <1>2 DEF NewTerm, IsOld
<1>5. \A v, w \in Variable : (Old(v) = Old(w) => v = w) /\ (New(v) = New(w) => v = w)
  BY <1>2
<1> QED  BY <1>1, <1>3, <1>4, <1>5 DEF TempTerm

LEMMA SubFacts ==
  ASSUME NEW s \in TempSub
  PROVE  /\ DOMAIN s \subseteq OldTerm /\ \A t \in DOMAIN s : s[t] \in NewTerm
         /\ \A t \in TempTerm : Substituted(t, s) \in TempTerm
         /\ \A t \in NewTerm : Substituted(t, s) = t
         /\ \A t \in DOMAIN s : Substituted(t, s) = s[t]
<1>1. DOMAIN s \subseteq OldTerm /\ \A t \in DOMAIN s : s[t] \in NewTerm
  BY DEF TempSub
<1>2. \A t \in NewTerm : t \notin DOMAIN s
  BY <1>1, TermFacts DEF TempTerm
<1> QED  BY <1>1, <1>2 DEF Substituted, TempTerm

LEMMA FullFacts ==
  ASSUME NEW q \in FullSub
  PROVE  q \in TempSub /\ DOMAIN q = OldTerm
  BY DEF FullSub, TempSub

LEMMA LiteralFields ==
  ASSUME NEW l \in TempLiteral
  PROVE  /\ l.args \in Seq(TempTerm) /\ Len(l.args) \in Nat
         /\ \A i \in 1..Len(l.args) : l.args[i] \in TempTerm
         /\ l.pos \in BOOLEAN /\ l.pred \in Predicate \cup {"="}
         /\ l = [pos |-> l.pos, pred |-> l.pred, args |-> l.args]
         /\ l.pred = "=" => Len(l.args) = 2
         /\ ~l.pos => l.pred = "="
         /\ OldVars(l) = {t \in OldTerm : \E i \in 1..Len(l.args) : t = l.args[i]}
<1>1. /\ l.args \in Seq(TempTerm) /\ Len(l.args) \in Nat
      /\ \A i \in 1..Len(l.args) : l.args[i] \in TempTerm
      /\ l.pos \in BOOLEAN /\ l.pred \in Predicate \cup {"="}
      /\ l = [pos |-> l.pos, pred |-> l.pred, args |-> l.args]
      /\ l.pred = "=" => Len(l.args) = 2
      /\ ~l.pos => l.pred = "="
  BY DEF TempLiteral
<1>2. OldVars(l) = {t \in OldTerm : \E i \in 1..Len(l.args) : t = l.args[i]}
  BY <1>1, TermFacts DEF OldVars, Elems, TempTerm
<1> QED  BY <1>1, <1>2

\* What a formula becomes under a substitution.
LEMMA AfterFacts ==
  ASSUME NEW l \in TempLiteral, NEW s \in TempSub
  PROVE  /\ LiteralAfter(l, s) \in TempLiteral
         /\ LiteralAfter(l, s).pos = l.pos /\ LiteralAfter(l, s).pred = l.pred
         /\ Len(LiteralAfter(l, s).args) = Len(l.args)
         /\ \A i \in 1..Len(l.args) : LiteralAfter(l, s).args[i] = Substituted(l.args[i], s)
         /\ OldVars(LiteralAfter(l, s)) = OldVars(l) \ DOMAIN s
<1> DEFINE k == LiteralAfter(l, s)
           a == AfterSubstitution(l.args, s)
<1>1. a \in Seq(TempTerm) /\ Len(a) = Len(l.args) /\ \A i \in 1..Len(l.args) : a[i] = Substituted(l.args[i], s)
  <2>1. \A i \in 1..Len(l.args) : Substituted(l.args[i], s) \in TempTerm
    BY LiteralFields, SubFacts
  <2> QED  BY <2>1, LiteralFields DEF AfterSubstitution
<1>2. k = [l EXCEPT !.args = a]
  BY DEF LiteralAfter
<1> HIDE DEF a, k
<1>3. k.pos = l.pos /\ k.pred = l.pred /\ k.args = a /\ k \in TempLiteral
  BY <1>1, <1>2 DEF TempLiteral
<1>4. OldVars(k) = {t \in OldTerm : \E i \in 1..Len(l.args) : t = Substituted(l.args[i], s)}
  BY <1>1, <1>3, LiteralFields
<1>5. OldVars(l) = {t \in OldTerm : \E i \in 1..Len(l.args) : t = l.args[i]}
  BY LiteralFields
<1>6. \A i \in 1..Len(l.args) :
        /\ l.args[i] \in DOMAIN s => Substituted(l.args[i], s) \notin OldTerm
        /\ l.args[i] \notin DOMAIN s => Substituted(l.args[i], s) = l.args[i]
  <2>1. \A t \in NewTerm : t \notin OldTerm
    BY TermFacts DEF TempTerm
  <2> QED  BY <2>1, SubFacts DEF Substituted
<1>7. OldVars(k) = OldVars(l) \ DOMAIN s
  <2>1. ASSUME NEW t \in OldVars(k)
        PROVE  t \in OldVars(l) \ DOMAIN s
    BY <1>4, <1>5, <1>6
  <2>2. ASSUME NEW t \in OldVars(l) \ DOMAIN s
        PROVE  t \in OldVars(k)
    BY <1>4, <1>5, <1>6
  <2> QED  BY <2>1, <2>2
<1> QED  BY <1>1, <1>3, <1>7 DEF k

\* Two literals are the same if their parts are.
LEMMA SameParts ==
  ASSUME NEW k \in TempLiteral, NEW l \in TempLiteral, k.pos = l.pos, k.pred = l.pred, Len(k.args) = Len(l.args),
         \A i \in 1..Len(l.args) : k.args[i] = l.args[i]
  PROVE  k = l
<1>1. k.args = l.args
  BY LiteralFields
<1> QED  BY <1>1, LiteralFields

\* Applying s first and then the rest of q comes to applying q.
LEMMA AfterTwice ==
  ASSUME NEW l \in TempLiteral, NEW s \in TempSub, NEW q \in FullSub, Extends(q, s)
  PROVE  LiteralAfter(LiteralAfter(l, s), q) = LiteralAfter(l, q)
<1> DEFINE k == LiteralAfter(l, s)
           m == LiteralAfter(k, q)
           n == LiteralAfter(l, q)
<1>1. k \in TempLiteral /\ k.pos = l.pos /\ k.pred = l.pred /\ Len(k.args) = Len(l.args)
      /\ \A i \in 1..Len(l.args) : k.args[i] = Substituted(l.args[i], s)
  BY AfterFacts
<1>2. n \in TempLiteral /\ n.pos = l.pos /\ n.pred = l.pred /\ Len(n.args) = Len(l.args)
      /\ \A i \in 1..Len(l.args) : n.args[i] = Substituted(l.args[i], q)
  BY AfterFacts, FullFacts
<1> HIDE DEF k, n
<1>3. m \in TempLiteral /\ m.pos = k.pos /\ m.pred = k.pred /\ Len(m.args) = Len(k.args)
      /\ \A i \in 1..Len(k.args) : m.args[i] = Substituted(k.args[i], q)
  BY <1>1, AfterFacts, FullFacts
<1> HIDE DEF m
<1>4. \A t \in TempTerm : Substituted(Substituted(t, s), q) = Substituted(t, q)
  <2> TAKE t \in TempTerm
  <2>1. CASE t \in DOMAIN s
    <3>1. Substituted(t, s) = s[t] /\ s[t] \in NewTerm /\ Substituted(t, q) = s[t]
      BY <2>1, SubFacts, FullFacts DEF Extends
    <3> QED  BY <3>1, SubFacts, FullFacts
  <2>2. CASE t \notin DOMAIN s
    BY <2>2 DEF Substituted
  <2> QED  BY <2>1, <2>2
<1>5. \A i \in 1..Len(l.args) : m.args[i] = n.args[i]
  BY <1>1, <1>2, <1>3, <1>4, LiteralFields
<1> QED  BY <1>1, <1>2, <1>3, <1>5, SameParts DEF k, m, n

\* Only the old variables of a formula matter.
LEMMA AfterSame ==
  ASSUME NEW l \in TempLiteral, NEW q \in TempSub, NEW r \in TempSub,
         \A t \in OldVars(l) : Substituted(t, q) = Substituted(t, r)
  PROVE  LiteralAfter(l, q) = LiteralAfter(l, r)
<1>1. \A i \in 1..Len(l.args) : Substituted(l.args[i], q) = Substituted(l.args[i], r)
  BY LiteralFields, SubFacts DEF TempTerm
<1> DEFINE m == LiteralAfter(l, q)
           n == LiteralAfter(l, r)
<1>2. m \in TempLiteral /\ m.pos = l.pos /\ m.pred = l.pred /\ Len(m.args) = Len(l.args)
      /\ \A i \in 1..Len(l.args) : m.args[i] = Substituted(l.args[i], q)
  BY AfterFacts
<1>3. n \in TempLiteral /\ n.pos = l.pos /\ n.pred = l.pred /\ Len(n.args) = Len(l.args)
      /\ \A i \in 1..Len(l.args) : n.args[i] = Substituted(l.args[i], r)
  BY AfterFacts
<1> HIDE DEF m, n
<1>4. m = n
  BY <1>1, <1>2, <1>3, SameParts
<1> QED  BY <1>4 DEF m, n

LEMMA AfterGround ==
  ASSUME NEW l \in TempLiteral, OldVars(l) = {}, NEW s \in TempSub
  PROVE  LiteralAfter(l, s) = l
<1>1. \A i \in 1..Len(l.args) : l.args[i] \in NewTerm
  BY LiteralFields, TermFacts
<1>2. \A i \in 1..Len(l.args) : LiteralAfter(l, s).args[i] = l.args[i]
  BY <1>1, AfterFacts, SubFacts
<1> QED  BY <1>2, AfterFacts, SameParts

----------------------------------------------------------------------------
(* Solutions of a set of formulas                                          *)

\* The substitution makes every formula one of H, his preconditions.
Matches(H, form, q) == \A l \in form : ImpliesLiteral(H, LiteralAfter(l, q))
Sat(H, form, s)     == \E q \in FullSub : Extends(q, s) /\ Matches(H, form, q)
Solvable(H, form)   == \E q \in FullSub : Matches(H, form, q)

\* A call of NewCanSubsume loses no solution and adds none.
LEMMA OneCall ==
  ASSUME NEW form \in SUBSET TempLiteral, NEW s \in TempSub
  PROVE  Sat(HisPrecs, form, s) <=> ~Refuted(form, s) /\ Solvable(HisPrecs, StillOpen(form, s))
<1>1. ASSUME NEW q \in FullSub, Extends(q, s), Matches(HisPrecs, form, q)
      PROVE  ~Refuted(form, s) /\ Matches(HisPrecs, StillOpen(form, s), q)
  <2>1. ASSUME NEW l \in form
        PROVE  /\ ImpliesLiteral(HisPrecs, LiteralAfter(LiteralAfter(l, s), q))
               /\ OldVars(LiteralAfter(l, s)) = {} => ImpliesLiteral(HisPrecs, LiteralAfter(l, s))
    <3>1. ImpliesLiteral(HisPrecs, LiteralAfter(LiteralAfter(l, s), q))
      BY <1>1, AfterTwice DEF Matches
    <3>2. LiteralAfter(l, s) \in TempLiteral
      BY AfterFacts
    <3>3. OldVars(LiteralAfter(l, s)) = {} => LiteralAfter(LiteralAfter(l, s), q) = LiteralAfter(l, s)
      BY <3>2, AfterGround, FullFacts
    <3> QED  BY <3>1, <3>3
  <2> QED  BY <2>1 DEF Matches, Refuted, StillOpen, FormulaAfter
<1>2. ASSUME NEW q \in FullSub, ~Refuted(form, s), Matches(HisPrecs, StillOpen(form, s), q)
      PROVE  Sat(HisPrecs, form, s)
  <2> DEFINE r == [t \in OldTerm |-> IF t \in DOMAIN s THEN s[t] ELSE q[t]]
  <2>1. r \in FullSub /\ Extends(r, s)
    BY SubFacts DEF FullSub, Extends
  <2>2. \A t \in OldTerm \ DOMAIN s : Substituted(t, r) = Substituted(t, q)
    BY DEF FullSub, Substituted
  <2> HIDE DEF r
  <2>3. ASSUME NEW l \in form
        PROVE  ImpliesLiteral(HisPrecs, LiteralAfter(l, r))
    <3> DEFINE k == LiteralAfter(l, s)
    <3>1. k \in TempLiteral /\ OldVars(k) = OldVars(l) \ DOMAIN s /\ k \in FormulaAfter(form, s)
      BY AfterFacts DEF FormulaAfter
    <3>2. LiteralAfter(k, r) = LiteralAfter(l, r)
      BY <2>1, AfterTwice
    <3> HIDE DEF k
    <3>3. CASE OldVars(k) = {}
      <4>1. LiteralAfter(k, r) = k
        BY <2>1, <3>1, <3>3, AfterGround, FullFacts
      <4> QED  BY <1>2, <3>1, <3>2, <3>3, <4>1 DEF Refuted
    <3>4. CASE OldVars(k) # {}
      <4>1. OldVars(l) \subseteq OldTerm
        BY LiteralFields
      <4>2. LiteralAfter(k, r) = LiteralAfter(k, q)
        BY <2>1, <2>2, <3>1, <4>1, AfterSame, FullFacts
      <4> QED  BY <1>2, <3>1, <3>2, <3>4, <4>2 DEF StillOpen, Matches
    <3> QED  BY <3>3, <3>4
  <2> QED  BY <2>1, <2>3 DEF Sat, Matches
<1> QED  BY <1>1, <1>2 DEF Sat, Solvable

LEMMA OpenFacts ==
  ASSUME NEW form \in SUBSET TempLiteral, NEW s \in TempSub
  PROVE  /\ StillOpen(form, s) \in SUBSET TempLiteral
         /\ \A l \in StillOpen(form, s) : OldVars(l) # {}
  BY AfterFacts DEF StillOpen, FormulaAfter

\* Subsumes begins with a substitution, so that there is one.
LEMMA FullSubNonempty ==
  ASSUME NEW s \in TempSub
  PROVE  \E q \in FullSub : Extends(q, s)
<1> DEFINE q == [t \in OldTerm |-> IF t \in DOMAIN s THEN s[t] ELSE New(t[2])]
<1>1. q \in FullSub /\ Extends(q, s)
  BY SubFacts, TermFacts DEF FullSub, Extends
<1> QED  BY <1>1

----------------------------------------------------------------------------
(* Matching two formulas                                                   *)

LEMMA MatchValue ==
  ASSUME NEW pairs, NEW v \in DOMAIN MatchOf(pairs)
  PROVE  \E p \in pairs : p[1] = v /\ MatchOf(pairs)[v] = p[2]
<1> DEFINE c == CHOOSE p \in pairs : p[1] = v
<1>1. v \in {p[1] : p \in pairs}
  BY DEF MatchOf
<1>2. \E p \in pairs : p[1] = v
  BY <1>1
<1>3. c \in pairs /\ c[1] = v
  BY <1>2
<1>4. MatchOf(pairs)[v] = c[2]
  BY <1>1 DEF MatchOf
<1> QED  BY <1>3, <1>4

LEMMA MatchFacts ==
  ASSUME NEW pairs
  PROVE  /\ DOMAIN MatchOf(pairs) = {p[1] : p \in pairs}
         /\ IsFunctional(pairs) => \A p \in pairs : MatchOf(pairs)[p[1]] = p[2]
<1>1. DOMAIN MatchOf(pairs) = {p[1] : p \in pairs}
  BY DEF MatchOf
<1>2. ASSUME IsFunctional(pairs), NEW p \in pairs
      PROVE  MatchOf(pairs)[p[1]] = p[2]
  <2>1. PICK r \in pairs : r[1] = p[1] /\ MatchOf(pairs)[p[1]] = r[2]
    BY <1>1, MatchValue
  <2> QED  BY <1>2, <2>1 DEF IsFunctional
<1> QED  BY <1>1, <1>2

LEMMA UnifierFacts ==
  ASSUME NEW l \in TempLiteral, NEW k \in TempLiteral, OldVars(k) = {}, Len(l.args) = Len(k.args)
  PROVE  Unifier(l, k) \in TempSub
<1> DEFINE pairs == {p \in PairsOf(l, k) : IsOld(p[1])}
           u     == Unifier(l, k)
<1>1. \A p \in pairs : p[1] \in OldTerm /\ p[2] \in NewTerm
  <2>1. \A i \in 1..Len(l.args) : /\ l.args[i] \in TempTerm
                                  /\ IsOld(l.args[i]) => l.args[i] \in OldTerm
    BY LiteralFields, TermFacts
  <2>2. \A i \in 1..Len(k.args) : k.args[i] \in NewTerm
    BY LiteralFields, TermFacts
  <2> QED  BY <2>1, <2>2 DEF PairsOf
<1>2. u = MatchOf(pairs)
  BY DEF Unifier
<1> HIDE DEF pairs, u
<1>3. DOMAIN u \subseteq OldTerm /\ \A v \in DOMAIN u : u[v] \in NewTerm
  <2>1. DOMAIN u = {p[1] : p \in pairs}
    BY <1>2, MatchFacts
  <2>2. \A v \in DOMAIN u : \E p \in pairs : p[1] = v /\ u[v] = p[2]
    <3>1. \A v \in DOMAIN MatchOf(pairs) : \E p \in pairs : p[1] = v /\ MatchOf(pairs)[v] = p[2]
      BY MatchValue
    <3> QED  BY <1>2, <3>1
  <2> QED  BY <1>1, <2>1, <2>2
<1>4. u = [v \in DOMAIN u |-> u[v]]
  BY <1>2 DEF MatchOf
<1>5. u \in [DOMAIN u -> NewTerm]
  BY <1>3, <1>4
<1> QED  BY <1>3, <1>5 DEF TempSub, u

\* The comparison finds every match.
LEMMA MatchIsFound ==
  ASSUME NEW l \in TempLiteral, NEW k \in TempLiteral, OldVars(k) = {}, NEW q \in FullSub, LiteralAfter(l, q) = k
  PROVE  Unifies(l, k) /\ Unifier(l, k) \in TempSub /\ Extends(q, Unifier(l, k))
<1>1. /\ l.pos = k.pos /\ l.pred = k.pred /\ Len(l.args) = Len(k.args)
      /\ \A i \in 1..Len(l.args) : k.args[i] = Substituted(l.args[i], q)
  BY AfterFacts, FullFacts
<1>2. \A p \in PairsOf(l, k) : p[1] \in TempTerm /\ p[2] = Substituted(p[1], q)
  BY <1>1, LiteralFields DEF PairsOf
<1>3. \A p \in PairsOf(l, k) : ~IsOld(p[1]) => p[1] = p[2]
  BY <1>2, TermFacts, SubFacts, FullFacts DEF TempTerm
<1>4. IsFunctional(PairsOf(l, k))
  BY <1>2 DEF IsFunctional
<1>5. Unifier(l, k) \in TempSub
  BY <1>1, UnifierFacts
<1>6. Extends(q, Unifier(l, k))
  <2> DEFINE pairs == {p \in PairsOf(l, k) : IsOld(p[1])}
             u     == Unifier(l, k)
  <2>1. u = MatchOf(pairs)
    BY DEF Unifier
  <2>2. \A p \in pairs : p[1] \in OldTerm /\ p[2] = q[p[1]]
    BY <1>2, TermFacts, SubFacts, FullFacts
  <2> HIDE DEF pairs, u
  <2>3. DOMAIN u \subseteq OldTerm /\ \A v \in DOMAIN u : u[v] = q[v]
    <3>1. DOMAIN u = {p[1] : p \in pairs}
      BY <2>1, MatchFacts
    <3>2. \A v \in DOMAIN u : \E p \in pairs : p[1] = v /\ u[v] = p[2]
      <4>1. \A v \in DOMAIN MatchOf(pairs) : \E p \in pairs : p[1] = v /\ MatchOf(pairs)[v] = p[2]
        BY MatchValue
      <4> QED  BY <2>1, <4>1
    <3> QED  BY <2>2, <3>1, <3>2
  <2> QED  BY <2>3, FullFacts DEF Extends, u
<1> QED  BY <1>1, <1>3, <1>4, <1>5, <1>6 DEF Unifies

----------------------------------------------------------------------------
(* The inductive invariant                                                 *)

Frame == [form : SUBSET TempLiteral, first : TempLiteral, untried : SUBSET TempLiteral]

Comparable == SameShape(mine, his) /\ IsFunctional(MasterPairs)

\* What the search is to find out.
Answer == Comparable /\ Sat(HisPrecs, MyPrecs, MatchOf(MasterPairs))

\* Every equation is negated, and a predicate will bind its variables first.
Directed(form) ==
  \A l \in form : l.pred = "=" =>
    ~l.pos /\ \A t \in OldVars(l) : \E k \in form : k.pred # "=" /\ t \in OldVars(k)

GoodFrame(frame) ==
  /\ frame \in Frame /\ frame.first \in frame.form /\ frame.untried \subseteq HisPrecs
  /\ Solvable(HisPrecs, frame.form) => Answer
  /\ ~OrientationMatters => Directed(frame.form)

\* A precondition that the call has not come to yet leads to a solution.
Hopeful(H, frame) ==
  \E k \in frame.untried : Unifies(frame.first, k) /\ Sat(H, frame.form, Unifier(frame.first, k))

GoodCalls(calls, v) ==
  /\ calls \in Seq(Frame) /\ \A i \in 1..Len(calls) : GoodFrame(calls[i])
  /\ v = "searching" => Comparable
  /\ v = "yes" => Answer
  /\ v = "no" /\ ~OrientationMatters => ~Answer
  /\ v = "searching" /\ calls # <<>> /\ ~OrientationMatters /\ Answer =>
       \E i \in 1..Len(calls) : Hopeful(HisPrecs, calls[i])

IInv == mine \in LearnedType /\ his \in LearnedType /\ GoodCalls(stack, verdict)

----------------------------------------------------------------------------
(* The two methods under temporary names                                   *)

OldOf(l) == [l EXCEPT !.args = [i \in 1..Len(@) |-> Old(@[i])]]
NewOf(l) == [l EXCEPT !.args = [i \in 1..Len(@) |-> New(@[i])]]

LEMMA LearnedFields ==
  ASSUME NEW l \in LearnedLiteral
  PROVE  /\ l.args \in Seq(Variable) /\ Len(l.args) \in Nat /\ \A i \in 1..Len(l.args) : l.args[i] \in Variable
         /\ l = [pos |-> l.pos, pred |-> l.pred, args |-> l.args]
         /\ l.pos \in BOOLEAN /\ l.pred \in Predicate \cup {"="}
         /\ l.pred = "=" => Len(l.args) = 2
         /\ ~l.pos => l.pred = "="
         /\ Elems(l.args) \subseteq Variable
  BY DEF LearnedLiteral, Elems

LEMMA RenamedFacts ==
  ASSUME NEW l \in LearnedLiteral
  PROVE  /\ OldOf(l) \in TempLiteral /\ NewOf(l) \in TempLiteral
         /\ OldOf(l).pos = l.pos /\ OldOf(l).pred = l.pred /\ Len(OldOf(l).args) = Len(l.args)
         /\ NewOf(l).pos = l.pos /\ NewOf(l).pred = l.pred /\ Len(NewOf(l).args) = Len(l.args)
         /\ \A i \in 1..Len(l.args) : OldOf(l).args[i] = Old(l.args[i]) /\ NewOf(l).args[i] = New(l.args[i])
         /\ OldVars(OldOf(l)) = {Old(v) : v \in Elems(l.args)}
         /\ OldVars(NewOf(l)) = {}
<1> DEFINE a == [i \in 1..Len(l.args) |-> Old(l.args[i])]
           b == [i \in 1..Len(l.args) |-> New(l.args[i])]
<1>1. /\ l.args \in Seq(Variable) /\ Len(l.args) \in Nat /\ \A i \in 1..Len(l.args) : l.args[i] \in Variable
      /\ l = [pos |-> l.pos, pred |-> l.pred, args |-> l.args]
      /\ l.pos \in BOOLEAN /\ l.pred \in Predicate \cup {"="}
      /\ l.pred = "=" => Len(l.args) = 2
      /\ ~l.pos => l.pred = "="
  BY LearnedFields
<1>2. /\ a \in Seq(TempTerm) /\ Len(a) = Len(l.args) /\ \A i \in 1..Len(l.args) : a[i] = Old(l.args[i])
      /\ b \in Seq(TempTerm) /\ Len(b) = Len(l.args) /\ \A i \in 1..Len(l.args) : b[i] = New(l.args[i])
  BY <1>1, TermFacts DEF TempTerm
<1>10. OldOf(l) = [l EXCEPT !.args = a] /\ NewOf(l) = [l EXCEPT !.args = b]
  BY DEF OldOf, NewOf
<1> HIDE DEF a, b
<1>3. /\ OldOf(l) = [pos |-> l.pos, pred |-> l.pred, args |-> a]
      /\ NewOf(l) = [pos |-> l.pos, pred |-> l.pred, args |-> b]
  BY <1>1, <1>10
<1>4. OldOf(l) \in TempLiteral /\ NewOf(l) \in TempLiteral
  BY <1>1, <1>2, <1>3 DEF TempLiteral
<1>5. OldVars(OldOf(l)) = {Old(v) : v \in Elems(l.args)}
  <2>1. OldVars(OldOf(l)) = {t \in OldTerm : \E i \in 1..Len(l.args) : t = Old(l.args[i])}
    BY <1>2, <1>3, <1>4, LiteralFields
  <2> QED  BY <1>1, <2>1, TermFacts DEF Elems
<1>6. OldVars(NewOf(l)) = {}
  <2>1. OldVars(NewOf(l)) = {t \in OldTerm : \E i \in 1..Len(l.args) : t = New(l.args[i])}
    BY <1>2, <1>3, <1>4, LiteralFields
  <2> QED  BY <1>1, <2>1, TermFacts DEF TempTerm
<1> QED  BY <1>2, <1>3, <1>4, <1>5, <1>6

LEMMA PrecFacts ==
  ASSUME mine \in LearnedType, his \in LearnedType
  PROVE  /\ mine.precs \subseteq LearnedLiteral /\ his.precs \subseteq LearnedLiteral
         /\ MyPrecs = {OldOf(l) : l \in mine.precs} /\ HisPrecs = {NewOf(l) : l \in his.precs}
         /\ MyPrecs \in SUBSET TempLiteral /\ HisPrecs \in SUBSET TempLiteral
         /\ \A k \in HisPrecs : OldVars(k) = {}
<1>1. MyPrecs = {OldOf(l) : l \in mine.precs} /\ HisPrecs = {NewOf(l) : l \in his.precs}
  BY DEF MyPrecs, HisPrecs, AsOld, AsNew, OldOf, NewOf
<1>2. mine.precs \subseteq LearnedLiteral /\ his.precs \subseteq LearnedLiteral
  BY DEF LearnedType
<1> QED  BY <1>1, <1>2, RenamedFacts

\* The pairs of heads and subtasks, with every argument of mine in one of them.
LEMMA PairFacts ==
  ASSUME NEW m \in LearnedType, NEW h \in LearnedType, SameShape(m, h)
  PROVE  /\ \A p \in MustMatch(m, h) : p[1] \in Variable /\ p[2] \in Variable
         /\ {p[1] : p \in MustMatch(m, h)} = RelevantVariables(m)
<1>1. /\ m.params \in Seq(Variable) /\ h.params \in Seq(Variable) /\ Len(m.params) = Len(h.params)
      /\ Len(m.subtasks) = Len(h.subtasks)
  BY DEF SameShape, LearnedType
<1>2. \A i \in 1..Len(m.subtasks) : /\ m.subtasks[i].args \in Seq(Variable) /\ h.subtasks[i].args \in Seq(Variable)
                                    /\ Len(m.subtasks[i].args) = Len(h.subtasks[i].args)
  <2> TAKE i \in 1..Len(m.subtasks)
  <2>1. m.subtasks[i] \in WithArity([name : TaskName, args : Seq(Variable)])
    BY DEF LearnedType
  <2>2. h.subtasks[i] \in WithArity([name : TaskName, args : Seq(Variable)])
    BY <1>1 DEF LearnedType
  <2>3. m.subtasks[i].name = h.subtasks[i].name
    BY DEF SameShape
  <2> QED  BY <2>1, <2>2, <2>3 DEF WithArity
<1>3. \A i \in 1..Len(m.params) : m.params[i] \in Variable /\ h.params[i] \in Variable
  BY <1>1
<1>4. \A i \in 1..Len(m.subtasks) : \A j \in 1..Len(m.subtasks[i].args) :
        m.subtasks[i].args[j] \in Variable /\ h.subtasks[i].args[j] \in Variable
  BY <1>2
<1>5. \A p \in MustMatch(m, h) : p[1] \in Variable /\ p[2] \in Variable
  BY <1>3, <1>4 DEF MustMatch
<1>6. ASSUME NEW v \in {p[1] : p \in MustMatch(m, h)}
      PROVE  v \in RelevantVariables(m)
  <2>1. PICK p \in MustMatch(m, h) : p[1] = v
    OBVIOUS
  <2> QED  BY <1>4, <2>1 DEF MustMatch, RelevantVariables, Elems
<1>7. ASSUME NEW v \in RelevantVariables(m)
      PROVE  v \in {p[1] : p \in MustMatch(m, h)}
  <2>1. CASE v \in Elems(m.params)
    <3>1. PICK i \in 1..Len(m.params) : v = m.params[i]
      BY <2>1 DEF Elems
    <3>2. <<m.params[i], h.params[i]>> \in MustMatch(m, h)
      BY DEF MustMatch
    <3> QED  BY <3>1, <3>2
  <2>2. CASE v \notin Elems(m.params)
    <3>1. PICK i \in 1..Len(m.subtasks) : v \in Elems(m.subtasks[i].args)
      BY <2>2 DEF RelevantVariables
    <3>2. PICK j \in 1..Len(m.subtasks[i].args) : v = m.subtasks[i].args[j]
      BY <3>1 DEF Elems
    <3>3. <<m.subtasks[i].args[j], h.subtasks[i].args[j]>> \in MustMatch(m, h)
      BY DEF MustMatch
    <3> QED  BY <3>2, <3>3
  <2> QED  BY <2>1, <2>2
<1> QED  BY <1>5, <1>6, <1>7

LEMMA MasterFacts ==
  ASSUME mine \in LearnedType, his \in LearnedType, SameShape(mine, his)
  PROVE  /\ MatchOf(MasterPairs) \in TempSub
         /\ DOMAIN MatchOf(MasterPairs) = {Old(v) : v \in RelevantVariables(mine)}
         /\ IsFunctional(MasterPairs) <=> IsFunctional(MustMatch(mine, his))
<1> DEFINE pairs == MasterPairs
           u     == MatchOf(MasterPairs)
<1>1. \A p \in MustMatch(mine, his) : p[1] \in Variable /\ p[2] \in Variable
  BY PairFacts
<1>11. /\ \A p \in pairs : \E r \in MustMatch(mine, his) : p[1] = Old(r[1]) /\ p[2] = New(r[2])
      /\ \A r \in MustMatch(mine, his) : \E p \in pairs : p[1] = Old(r[1]) /\ p[2] = New(r[2])
  <2>1. ASSUME NEW p \in pairs
        PROVE  \E r \in MustMatch(mine, his) : p[1] = Old(r[1]) /\ p[2] = New(r[2])
    <3>1. PICK r \in MustMatch(mine, his) : p = <<Old(r[1]), New(r[2])>>
      BY DEF MasterPairs
    <3> QED  BY <3>1
  <2>2. ASSUME NEW r \in MustMatch(mine, his)
        PROVE  \E p \in pairs : p[1] = Old(r[1]) /\ p[2] = New(r[2])
    <3>1. <<Old(r[1]), New(r[2])>> \in pairs
      BY DEF MasterPairs
    <3> QED  BY <3>1
  <2> QED  BY <2>1, <2>2
<1>2. \A p \in pairs : p[1] \in OldTerm /\ p[2] \in NewTerm
  BY <1>1, TermFacts DEF MasterPairs
<1>3. DOMAIN u = {p[1] : p \in pairs}
  BY MatchFacts
<1>4. \A v \in DOMAIN u : \E p \in pairs : p[1] = v /\ u[v] = p[2]
  BY MatchValue
<1>5. {p[1] : p \in pairs} = {Old(v) : v \in RelevantVariables(mine)}
  <2>1. {p[1] : p \in MustMatch(mine, his)} = RelevantVariables(mine)
    BY PairFacts
  <2> HIDE DEF pairs
  <2> QED  BY <2>1, <1>11
<1>6. IsFunctional(pairs) <=> IsFunctional(MustMatch(mine, his))
  <2> HIDE DEF pairs
  <2> QED  BY <1>1, <1>11, TermFacts DEF IsFunctional
<1>7. u = [v \in DOMAIN u |-> u[v]]
  BY DEF MatchOf
<1> HIDE DEF pairs, u
<1>8. DOMAIN u \subseteq OldTerm /\ \A v \in DOMAIN u : u[v] \in NewTerm
  BY <1>2, <1>3, <1>4
<1>9. u \in TempSub
  BY <1>7, <1>8 DEF TempSub
<1> QED  BY <1>3, <1>5, <1>6, <1>9 DEF pairs, u

----------------------------------------------------------------------------
(* Equations wait until a predicate has bound their variables              *)

LEMMA DirectedAfter ==
  ASSUME NEW form \in SUBSET TempLiteral, NEW s \in TempSub,
         \A l \in form : l.pred = "=" =>
           \/ OldVars(l) \subseteq DOMAIN s
           \/ ~l.pos /\ \A t \in OldVars(l) \ DOMAIN s : \E k \in form : k.pred # "=" /\ t \in OldVars(k)
  PROVE  Directed(StillOpen(form, s))
<1>1. \A l \in form : /\ LiteralAfter(l, s).pos = l.pos /\ LiteralAfter(l, s).pred = l.pred
                     /\ OldVars(LiteralAfter(l, s)) = OldVars(l) \ DOMAIN s
  BY AfterFacts
<1>2. ASSUME NEW m \in StillOpen(form, s), m.pred = "=", NEW t \in OldVars(m)
      PROVE  ~m.pos /\ \E n \in StillOpen(form, s) : n.pred # "=" /\ t \in OldVars(n)
  <2>1. PICK l \in form : m = LiteralAfter(l, s)
    BY DEF StillOpen, FormulaAfter
  <2>2. l.pred = "=" /\ t \in OldVars(l) \ DOMAIN s
    BY <1>1, <1>2, <2>1
  <2>3. ~l.pos /\ \E k \in form : k.pred # "=" /\ t \in OldVars(k)
    BY <2>2
  <2>4. PICK k \in form : k.pred # "=" /\ t \in OldVars(k)
    BY <2>3
  <2>5. LiteralAfter(k, s).pred # "=" /\ t \in OldVars(LiteralAfter(k, s))
    BY <1>1, <2>2, <2>4
  <2>6. LiteralAfter(k, s) \in StillOpen(form, s)
    BY <2>5 DEF StillOpen, FormulaAfter
  <2> QED  BY <1>1, <2>1, <2>3, <2>5, <2>6
<1>3. \A m \in StillOpen(form, s) : OldVars(m) # {}
  BY OpenFacts
<1> QED  BY <1>2, <1>3 DEF Directed

LEMMA DirectedStart ==
  ASSUME mine \in LearnedType, his \in LearnedType, SameShape(mine, his), ~OrientationMatters
  PROVE  Directed(StillOpen(MyPrecs, MatchOf(MasterPairs)))
<1> DEFINE s == MatchOf(MasterPairs)
<1>1. s \in TempSub /\ DOMAIN s = {Old(v) : v \in RelevantVariables(mine)}
  BY MasterFacts
<1>2. MyPrecs = {OldOf(l) : l \in mine.precs} /\ MyPrecs \in SUBSET TempLiteral /\ mine.precs \subseteq LearnedLiteral
  BY PrecFacts
<1>3. ASSUME NEW l \in mine.precs, l.pred = "="
      PROVE  \/ OldVars(OldOf(l)) \subseteq DOMAIN s
             \/ ~l.pos /\ \A t \in OldVars(OldOf(l)) \ DOMAIN s :
                           \E k \in mine.precs : k.pred # "=" /\ t \in OldVars(OldOf(k))
  <2>1. OldVars(OldOf(l)) = {Old(v) : v \in Elems(l.args)} /\ Elems(l.args) \subseteq Variable
    BY <1>2, RenamedFacts, LearnedFields
  <2>2. Elems(l.args) \subseteq
          RelevantVariables(mine) \cup (IF l.pos THEN {} ELSE VariablesOf({k \in mine.precs : k.pred # "="}))
    BY <1>3, <2>1 DEF OrientationMatters, VariablesOf
  <2>3. CASE l.pos
    BY <1>1, <2>1, <2>2, <2>3
  <2>4. CASE ~l.pos
    <3>1. ASSUME NEW t \in OldVars(OldOf(l)) \ DOMAIN s
          PROVE  \E k \in mine.precs : k.pred # "=" /\ t \in OldVars(OldOf(k))
      <4>1. PICK v \in Elems(l.args) : t = Old(v) /\ v \notin RelevantVariables(mine)
        BY <1>1, <2>1
      <4>2. v \in VariablesOf({k \in mine.precs : k.pred # "="})
        BY <2>2, <2>4, <4>1
      <4>3. PICK k \in mine.precs : k.pred # "=" /\ v \in Elems(k.args)
        BY <4>2 DEF VariablesOf
      <4>4. t \in OldVars(OldOf(k))
        BY <1>2, <4>1, <4>3, RenamedFacts
      <4> QED  BY <4>3, <4>4
    <3> QED  BY <2>4, <3>1
  <2> QED  BY <2>3, <2>4
<1> HIDE DEF s
<1>4. \A l \in mine.precs : OldOf(l).pos = l.pos /\ OldOf(l).pred = l.pred
  BY <1>2, RenamedFacts
<1>5. \A l \in MyPrecs : l.pred = "=" =>
        \/ OldVars(l) \subseteq DOMAIN s
        \/ ~l.pos /\ \A t \in OldVars(l) \ DOMAIN s : \E k \in MyPrecs : k.pred # "=" /\ t \in OldVars(k)
  <2> TAKE k \in MyPrecs
  <2> HAVE k.pred = "="
  <2>1. PICK l \in mine.precs : k = OldOf(l)
    BY <1>2
  <2>2. l.pred = "=" /\ k.pos = l.pos
    BY <1>4, <2>1
  <2>3. CASE OldVars(OldOf(l)) \subseteq DOMAIN s
    BY <2>1, <2>3
  <2>4. CASE ~(OldVars(OldOf(l)) \subseteq DOMAIN s)
    <3>1. ~l.pos /\ \A t \in OldVars(OldOf(l)) \ DOMAIN s :
                      \E m \in mine.precs : m.pred # "=" /\ t \in OldVars(OldOf(m))
      BY <1>3, <2>2, <2>4
    <3>2. \A m \in mine.precs : OldOf(m) \in MyPrecs
      BY <1>2
    <3> QED  BY <1>4, <2>1, <2>2, <3>1, <3>2
  <2> QED  BY <2>3, <2>4
<1>6. Directed(StillOpen(MyPrecs, s))
  BY <1>1, <1>2, <1>5, DirectedAfter
<1> QED  BY <1>6 DEF s

LEMMA DirectedKept ==
  ASSUME NEW form \in SUBSET TempLiteral, Directed(form), NEW s \in TempSub
  PROVE  Directed(StillOpen(form, s))
  BY DirectedAfter DEF Directed

\* So the formula that a call begins with is a predicate.
LEMMA FirstIsPredicate ==
  ASSUME NEW form \in SUBSET TempLiteral, Directed(form), \A l \in form : OldVars(l) # {}, NEW l \in Closest(form)
  PROVE  l \in form /\ l.pred # "="
<1>1. l \in form /\ \A k \in form : ~Closer(k, l)
  BY DEF Closest
<1>2. ASSUME l.pred = "="
      PROVE  FALSE
  <2>1. PICK k \in form : k.pred # "="
    BY <1>1, <1>2 DEF Directed
  <2>2. k.pos /\ ~l.pos
    BY <1>1, <1>2, <2>1, LiteralFields DEF Directed
  <2>3. Rank(k) = 1 /\ Rank(l) = 2
    BY <2>1, <2>2 DEF Rank
  <2> QED  BY <1>1, <2>3 DEF Closer
<1> QED  BY <1>1, <1>2

\* And one of his preconditions is the one it becomes in a solution.
LEMMA CallIsHopeful ==
  ASSUME mine \in LearnedType, his \in LearnedType,
         NEW form \in SUBSET TempLiteral, Directed(form), \A l \in form : OldVars(l) # {},
         Solvable(HisPrecs, form), NEW l \in Closest(form), NEW frame,
         frame.form = form, frame.first = l, frame.untried = HisPrecs
  PROVE  Hopeful(HisPrecs, frame)
<1>1. l \in form /\ l \in TempLiteral /\ l.pred # "="
  BY FirstIsPredicate
<1>2. PICK q \in FullSub : Matches(HisPrecs, form, q)
  BY DEF Solvable
<1>3. LiteralAfter(l, q).pred # "="
  BY <1>1, AfterFacts, FullFacts
<1>4. LiteralAfter(l, q) \in HisPrecs
  BY <1>1, <1>2, <1>3 DEF Matches, ImpliesLiteral, SameLiteral
<1> DEFINE k == LiteralAfter(l, q)
<1>5. k \in TempLiteral /\ OldVars(k) = {}
  BY <1>4, PrecFacts
<1>6. Unifies(l, k) /\ Extends(q, Unifier(l, k))
  BY <1>1, <1>5, MatchIsFound
<1>7. Sat(HisPrecs, form, Unifier(l, k))
  BY <1>2, <1>6 DEF Sat
<1> HIDE DEF k
<1> QED  BY <1>4, <1>6, <1>7 DEF Hopeful, k

----------------------------------------------------------------------------
(* The invariant holds                                                     *)

LEMMA GoodTypes ==
  ASSUME NEW frame, GoodFrame(frame)
  PROVE  /\ frame.form \in SUBSET TempLiteral /\ frame.first \in TempLiteral /\ frame.first \in frame.form
         /\ frame.untried \in SUBSET TempLiteral /\ frame.untried \subseteq HisPrecs
         /\ frame = [form |-> frame.form, first |-> frame.first, untried |-> frame.untried]
  BY DEF GoodFrame, Frame

\* A call of NewCanSubsume: what it decides is right, and what it leaves open
\* is a good call.
LEMMA CallKeeps ==
  ASSUME mine \in LearnedType, his \in LearnedType, Comparable, verdict = "searching",
         NEW form \in SUBSET TempLiteral, NEW s \in TempSub, NEW below,
         below \in Seq(Frame), \A i \in 1..Len(below) : GoodFrame(below[i]),
         Refuted(form, s) => below # <<>>,
         Sat(HisPrecs, form, s) => Answer,
         ~OrientationMatters => Directed(StillOpen(form, s)),
         ~OrientationMatters /\ Answer =>
           Sat(HisPrecs, form, s) \/ \E i \in 1..Len(below) : Hopeful(HisPrecs, below[i]),
         Call(form, s, below)
  PROVE  GoodCalls(stack', verdict')
<1>1. Sat(HisPrecs, form, s) <=> ~Refuted(form, s) /\ Solvable(HisPrecs, StillOpen(form, s))
  BY OneCall
<1>2. CASE Refuted(form, s)
  <2>1. stack' = below /\ verdict' = "searching"
    BY <1>2 DEF Call
  <2> QED  BY <1>1, <1>2, <2>1 DEF GoodCalls
<1>3. CASE ~Refuted(form, s) /\ StillOpen(form, s) = {}
  <2>1. stack' = <<>> /\ verdict' = "yes"
    BY <1>3 DEF Call
  <2>2. \E q \in FullSub : TRUE
    BY FullSubNonempty
  <2>3. Solvable(HisPrecs, StillOpen(form, s))
    BY <1>3, <2>2 DEF Solvable, Matches
  <2> QED  BY <1>1, <1>3, <2>1, <2>3 DEF GoodCalls
<1>4. CASE ~Refuted(form, s) /\ StillOpen(form, s) # {}
  <2> DEFINE open == StillOpen(form, s)
  <2>1. PICK l \in Closest(open) : stack' = Append(below, [form |-> open, first |-> l, untried |-> HisPrecs])
    BY <1>4 DEF Call
  <2> DEFINE frame == [form |-> open, first |-> l, untried |-> HisPrecs]
  <2>2. verdict' = "searching"
    BY <1>4 DEF Call
  <2>3. open \in SUBSET TempLiteral /\ \A k \in open : OldVars(k) # {}
    BY OpenFacts
  <2>4. l \in open
    BY DEF Closest
  <2>5. ~OrientationMatters => Directed(open)
    OBVIOUS
  <2>6. Solvable(HisPrecs, open) => Answer
    BY <1>1, <1>4
  <2>7. HisPrecs \in SUBSET TempLiteral
    BY PrecFacts
  <2> HIDE DEF open
  <2>8. GoodFrame(frame)
    BY <2>3, <2>4, <2>5, <2>6, <2>7 DEF GoodFrame, Frame
  <2>9. frame.form = open /\ frame.first = l /\ frame.untried = HisPrecs /\ frame \in Frame
    BY <2>8 DEF GoodFrame
  <2>10. ~OrientationMatters /\ Solvable(HisPrecs, open) => Hopeful(HisPrecs, frame)
    BY <2>3, <2>5, <2>9, CallIsHopeful
  <2> HIDE DEF frame
  <2>11. stack' = Append(below, frame)
    BY <2>1 DEF frame
  <2>12. /\ stack' \in Seq(Frame) /\ Len(stack') = Len(below) + 1 /\ Len(below) \in Nat
         /\ \A i \in 1..Len(below) : stack'[i] = below[i]
         /\ stack'[Len(below) + 1] = frame
    BY <2>9, <2>11
  <2>13. \A i \in 1..Len(stack') : GoodFrame(stack'[i])
    <3> TAKE i \in 1..Len(stack')
    <3>1. CASE i = Len(below) + 1
      BY <2>8, <2>12, <3>1
    <3>2. CASE i # Len(below) + 1
      <4>1. i \in 1..Len(below)
        BY <2>12, <3>2
      <4> QED  BY <2>12, <4>1
    <3> QED  BY <3>1, <3>2
  <2>14. ASSUME ~OrientationMatters, Answer
         PROVE  \E i \in 1..Len(stack') : Hopeful(HisPrecs, stack'[i])
    <3>1. CASE Sat(HisPrecs, form, s)
      <4>1. Hopeful(HisPrecs, frame)
        BY <1>1, <2>10, <2>14, <3>1 DEF open
      <4>2. Len(below) + 1 \in 1..Len(stack')
        BY <2>12
      <4> QED  BY <2>12, <4>1, <4>2
    <3>2. CASE \E i \in 1..Len(below) : Hopeful(HisPrecs, below[i])
      <4>1. PICK i \in 1..Len(below) : Hopeful(HisPrecs, below[i])
        BY <3>2
      <4>2. i \in 1..Len(stack')
        BY <2>12
      <4> QED  BY <2>12, <4>1, <4>2
    <3> QED  BY <2>14, <3>1, <3>2
  <2> QED  BY <2>2, <2>12, <2>13, <2>14 DEF GoodCalls
<1> QED  BY <1>2, <1>3, <1>4

LEMMA BeginKeeps ==
  ASSUME IInv, Begin
  PROVE  GoodCalls(stack', verdict')
<1> DEFINE s == MatchOf(MasterPairs)
<1>1. /\ mine \in LearnedType /\ his \in LearnedType /\ verdict = "searching" /\ Comparable
  BY DEF IInv, GoodCalls, Begin
<1>2. s \in TempSub /\ MyPrecs \in SUBSET TempLiteral
  BY <1>1, MasterFacts, PrecFacts DEF Comparable
<1>3. Answer <=> Sat(HisPrecs, MyPrecs, s)
  BY <1>1 DEF Answer
<1>4. ~OrientationMatters => Directed(StillOpen(MyPrecs, s))
  BY <1>1, DirectedStart DEF Comparable
<1>5. CASE Refuted(MyPrecs, s)
  <2>1. stack' = <<>> /\ verdict' = "no"
    BY <1>5 DEF Begin
  <2>2. ~Answer
    BY <1>2, <1>3, <1>5, OneCall
  <2> QED  BY <2>1, <2>2 DEF GoodCalls
<1>6. CASE ~Refuted(MyPrecs, s)
  <2>1. Call(MyPrecs, s, <<>>)
    BY <1>6 DEF Begin
  <2>2. <<>> \in Seq(Frame) /\ \A i \in 1..Len(<<>>) : GoodFrame((<<>>)[i])
    OBVIOUS
  <2>3. Refuted(MyPrecs, s) => <<>> # <<>>
    BY <1>6
  <2>4. Sat(HisPrecs, MyPrecs, s) => Answer
    BY <1>3
  <2>5. ~OrientationMatters /\ Answer =>
          Sat(HisPrecs, MyPrecs, s) \/ \E i \in 1..Len(<<>>) : Hopeful(HisPrecs, (<<>>)[i])
    BY <1>3
  <2> HIDE DEF s
  <2> QED  BY <1>1, <1>2, <1>4, <2>1, <2>2, <2>3, <2>4, <2>5, CallKeeps
<1> QED  BY <1>5, <1>6

LEMMA TryKeeps ==
  ASSUME IInv, Try
  PROVE  GoodCalls(stack', verdict')
<1> DEFINE n    == Len(stack)
           k    == CHOOSE l \in Top.untried : TRUE
           rest == [stack EXCEPT ![Len(stack)].untried = @ \ {k}]
           u    == Unifier(Top.first, k)
<1>1. /\ mine \in LearnedType /\ his \in LearnedType /\ verdict = "searching" /\ Comparable
      /\ stack \in Seq(Frame) /\ stack # <<>> /\ Top.untried # {}
      /\ \A i \in 1..Len(stack) : GoodFrame(stack[i])
      /\ ~OrientationMatters /\ Answer => \E i \in 1..Len(stack) : Hopeful(HisPrecs, stack[i])
  BY DEF IInv, GoodCalls, Try
<1>2. n \in Nat /\ n \in 1..n /\ Top = stack[n]
  BY <1>1 DEF Top
<1>3. k \in Top.untried
  BY <1>1
<1>4. IF Unifies(Top.first, k) THEN Call(Top.form, u, rest) ELSE stack' = rest /\ verdict' = verdict
  BY DEF Try
<1>5. GoodFrame(Top)
  BY <1>1, <1>2
<1> DEFINE top == [form |-> Top.form, first |-> Top.first, untried |-> Top.untried \ {k}]
<1>6. /\ Len(rest) = n /\ rest[n] = top /\ \A i \in 1..n : i # n => rest[i] = stack[i]
      /\ rest \in Seq(Frame)
  <2>1. /\ Top = [form |-> Top.form, first |-> Top.first, untried |-> Top.untried]
        /\ Top.form \in SUBSET TempLiteral /\ Top.first \in TempLiteral /\ Top.untried \in SUBSET TempLiteral
    BY <1>5, GoodTypes
  <2>2. top \in Frame
    BY <2>1 DEF Frame
  <2>3. [stack[n] EXCEPT !.untried = @ \ {k}] = top
    <3> DEFINE r == k
    <3> HIDE DEF r
    <3>1. [Top EXCEPT !.untried = @ \ {r}] = [form |-> Top.form, first |-> Top.first, untried |-> Top.untried \ {r}]
      BY <2>1
    <3> QED  BY <1>2, <3>1 DEF r
  <2>4. rest = [stack EXCEPT ![n] = [stack[n] EXCEPT !.untried = @ \ {k}]]
    OBVIOUS
  <2> HIDE DEF rest, top, k
  <2>5. rest = [stack EXCEPT ![n] = top]
    BY <2>3, <2>4
  <2> QED  BY <1>1, <1>2, <2>2, <2>5
<1>7. top.form = Top.form /\ top.first = Top.first /\ top.untried = Top.untried \ {k}
  OBVIOUS
<1>8. top \in Frame
  BY <1>2, <1>6
<1> HIDE DEF rest, top, k, u
<1>9. GoodFrame(top)
  BY <1>5, <1>7, <1>8 DEF GoodFrame
<1>10. rest # <<>> /\ \A i \in 1..Len(rest) : GoodFrame(rest[i])
  BY <1>1, <1>2, <1>6, <1>9
<1>11. ASSUME NEW i \in 1..n, Hopeful(HisPrecs, stack[i]),
              ~(Unifies(Top.first, k) /\ Sat(HisPrecs, Top.form, u))
       PROVE  Hopeful(HisPrecs, rest[i])
  <2>1. CASE i # n
    BY <1>6, <1>11, <2>1
  <2>2. CASE i = n
    <3>1. PICK l \in Top.untried : Unifies(Top.first, l) /\ Sat(HisPrecs, Top.form, Unifier(Top.first, l))
      BY <1>2, <1>11, <2>2 DEF Hopeful
    <3>2. l # k
      BY <1>11, <3>1 DEF u
    <3>3. l \in top.untried
      BY <1>7, <3>2
    <3> QED  BY <1>6, <1>7, <2>2, <3>1, <3>3 DEF Hopeful
  <2> QED  BY <2>1, <2>2
<1>12. CASE ~Unifies(Top.first, k)
  <2>1. stack' = rest /\ verdict' = "searching"
    BY <1>1, <1>4, <1>12
  <2>2. ~OrientationMatters /\ Answer => \E i \in 1..Len(rest) : Hopeful(HisPrecs, rest[i])
    BY <1>1, <1>6, <1>11, <1>12
  <2> QED  BY <1>1, <1>6, <1>10, <2>1, <2>2 DEF GoodCalls
<1>13. CASE Unifies(Top.first, k)
  <2>1. Call(Top.form, u, rest)
    BY <1>4, <1>13
  <2>2. Top.form \in SUBSET TempLiteral /\ Top.first \in TempLiteral /\ k \in TempLiteral /\ k \in HisPrecs
    BY <1>3, <1>5, GoodTypes
  <2>3. u \in TempSub
    <3>1. OldVars(k) = {} /\ Len(Top.first.args) = Len(k.args)
      BY <1>1, <1>13, <2>2, PrecFacts DEF Unifies
    <3> QED  BY <2>2, <3>1, UnifierFacts DEF u
  <2>4. Sat(HisPrecs, Top.form, u) => Answer
    BY <1>5 DEF GoodFrame, Sat, Solvable
  <2>5. ~OrientationMatters => Directed(StillOpen(Top.form, u))
    BY <1>5, <2>2, <2>3, DirectedKept DEF GoodFrame
  <2>6. ~OrientationMatters /\ Answer =>
          Sat(HisPrecs, Top.form, u) \/ \E i \in 1..Len(rest) : Hopeful(HisPrecs, rest[i])
    BY <1>1, <1>6, <1>11
  <2>7. rest \in Seq(Frame)
    BY <1>6
  <2> QED  BY <1>1, <1>10, <2>1, <2>2, <2>3, <2>4, <2>5, <2>6, <2>7, CallKeeps
<1> QED  BY <1>12, <1>13

LEMMA ReturnKeeps ==
  ASSUME IInv, Return
  PROVE  GoodCalls(stack', verdict')
<1> DEFINE n == Len(stack)
<1>1. /\ verdict = "searching" /\ Comparable /\ stack \in Seq(Frame) /\ stack # <<>> /\ Top.untried = {}
      /\ \A i \in 1..n : GoodFrame(stack[i])
      /\ ~OrientationMatters /\ Answer => \E i \in 1..n : Hopeful(HisPrecs, stack[i])
      /\ stack' = SubSeq(stack, 1, n - 1)
      /\ verdict' = IF n = 1 THEN "no" ELSE verdict
  BY DEF IInv, GoodCalls, Return
<1>2. n \in Nat /\ n > 0 /\ Top = stack[n]
  BY <1>1 DEF Top
<1>3. /\ stack' \in Seq(Frame) /\ Len(stack') = n - 1
      /\ \A i \in 1..(n - 1) : stack'[i] = stack[i]
  <2>1. PICK m \in Nat : m = n - 1
    BY <1>2
  <2>2. \A i \in 1..m : stack[i] \in Frame
    BY <1>1, <1>2, <2>1
  <2>3. /\ SubSeq(stack, 1, m) \in Seq(Frame) /\ Len(SubSeq(stack, 1, m)) = m
        /\ \A i \in 1..m : SubSeq(stack, 1, m)[i] = stack[i]
    <3>1. /\ SubSeq(stack, 1, m) \in Seq(Frame)
          /\ Len(SubSeq(stack, 1, m)) = IF 1 <= m THEN m - 1 + 1 ELSE 0
          /\ \A i \in 1..(m - 1 + 1) : SubSeq(stack, 1, m)[i] = stack[1 + i - 1]
      BY <2>2, SubSeqProperties
    <3> QED  BY <3>1
  <2> QED  BY <1>1, <2>1, <2>3
<1>4. ~Hopeful(HisPrecs, stack[n])
  BY <1>1, <1>2 DEF Hopeful
<1>5. ~OrientationMatters /\ Answer => n # 1 /\ \E i \in 1..(n - 1) : Hopeful(HisPrecs, stack'[i])
  BY <1>1, <1>2, <1>3, <1>4
<1> QED  BY <1>1, <1>2, <1>3, <1>5 DEF GoodCalls

\* The invariant speaks of the calls, the verdict and two methods that stay.
LEMMA SameMethods ==
  ASSUME GoodCalls(stack', verdict'), UNCHANGED <<mine, his>>, mine \in LearnedType, his \in LearnedType
  PROVE  IInv'
  BY DEF IInv, GoodCalls, GoodFrame, Answer, Comparable, MasterPairs, MyPrecs, HisPrecs, OrientationMatters

LEMMA Invariance ==
  Spec => []IInv
<1>1. Init => IInv
  BY PairsAssumption DEF Init, IInv, GoodCalls
<1>2. IInv /\ [Next]_vars => IInv'
  <2> SUFFICES ASSUME IInv, [Next]_vars
               PROVE  IInv'
    OBVIOUS
  <2>1. mine \in LearnedType /\ his \in LearnedType
    BY DEF IInv
  <2>2. CASE Compare
    <3>1. UNCHANGED <<mine, his>> /\ stack' = <<>> /\ verdict' = IF Comparable THEN "searching" ELSE "no"
      BY <2>2 DEF Compare, Comparable
    <3>2. GoodCalls(stack', verdict')
      BY <3>1 DEF GoodCalls, Answer
    <3> QED  BY <2>1, <3>1, <3>2, SameMethods
  <2>3. CASE Begin
    BY <2>1, <2>3, BeginKeeps, SameMethods DEF Begin
  <2>4. CASE Try
    BY <2>1, <2>4, TryKeeps, SameMethods DEF Try
  <2>5. CASE Return
    BY <2>1, <2>5, ReturnKeeps, SameMethods DEF Return
  <2>6. CASE UNCHANGED vars
    <3>1. UNCHANGED <<mine, his, stack, verdict>>
      BY <2>6 DEF vars
    <3> QED  BY <3>1 DEF IInv, GoodCalls, GoodFrame, Answer, Comparable, MasterPairs, MyPrecs, HisPrecs,
                         OrientationMatters
  <2> QED  BY <2>2, <2>3, <2>4, <2>5, <2>6 DEF Next
<1> QED  BY <1>1, <1>2, PTL DEF Spec

----------------------------------------------------------------------------
(* What the search finds out is what the definition says                   *)

LEMMA SameArguments ==
  ASSUME NEW x \in Seq(Variable), NEW y \in Seq(Variable), NEW a \in Seq(TempTerm), NEW b \in Seq(TempTerm),
         Len(a) = Len(x), Len(b) = Len(y),
         \A i \in 1..Len(x) : a[i] = New(x[i]), \A i \in 1..Len(y) : b[i] = New(y[i])
  PROVE  a = b <=> x = y
<1>1. ASSUME a = b
      PROVE  x = y
  <2>1. Len(x) = Len(y) /\ \A i \in 1..Len(x) : x[i] \in Variable /\ y[i] \in Variable /\ New(x[i]) = New(y[i])
    BY <1>1
  <2>2. \A i \in 1..Len(x) : x[i] = y[i]
    BY <2>1, TermFacts
  <2> QED  BY <2>1, <2>2
<1>2. ASSUME x = y
      PROVE  a = b
  BY <1>2
<1> QED  BY <1>1, <1>2

\* New names keep literals apart, and keep the two sides of an equation.
LEMMA SameRenamed ==
  ASSUME NEW k \in LearnedLiteral, NEW l \in LearnedLiteral
  PROVE  SameLiteral(NewOf(k), NewOf(l)) <=> SameLiteral(k, l)
<1> DEFINE a == NewOf(k).args
           b == NewOf(l).args
<1>1. /\ NewOf(k).pos = k.pos /\ NewOf(k).pred = k.pred /\ NewOf(l).pos = l.pos /\ NewOf(l).pred = l.pred
      /\ Len(a) = Len(k.args) /\ Len(b) = Len(l.args)
      /\ \A i \in 1..Len(k.args) : a[i] = New(k.args[i])
      /\ \A i \in 1..Len(l.args) : b[i] = New(l.args[i])
      /\ a \in Seq(TempTerm) /\ b \in Seq(TempTerm)
      /\ NewOf(k) = [pos |-> k.pos, pred |-> k.pred, args |-> a]
      /\ NewOf(l) = [pos |-> l.pos, pred |-> l.pred, args |-> b]
  BY RenamedFacts, LiteralFields
<1>2. /\ k = [pos |-> k.pos, pred |-> k.pred, args |-> k.args]
      /\ l = [pos |-> l.pos, pred |-> l.pred, args |-> l.args]
      /\ k.args \in Seq(Variable) /\ l.args \in Seq(Variable) /\ Len(k.args) \in Nat /\ Len(l.args) \in Nat
      /\ \A i \in 1..Len(k.args) : k.args[i] \in Variable
      /\ \A i \in 1..Len(l.args) : l.args[i] \in Variable
  BY LearnedFields
<1> HIDE DEF a, b
<1>4. a = b <=> k.args = l.args
  BY <1>1, <1>2, SameArguments
<1>5. a = Reverse(b) <=> k.args = Reverse(l.args)
  <2> DEFINE n == Len(l.args)
             c == Reverse(b)
             d == Reverse(l.args)
  <2>1. /\ c \in Seq(TempTerm) /\ Len(c) = n /\ \A i \in 1..n : c[i] = b[n - i + 1]
        /\ d \in Seq(Variable) /\ Len(d) = n /\ \A i \in 1..n : d[i] = l.args[n - i + 1]
    BY <1>1, <1>2 DEF Reverse
  <2>2. \A i \in 1..n : n - i + 1 \in 1..n
    BY <1>2
  <2> HIDE DEF n, c, d
  <2>3. \A i \in 1..n : c[i] = New(d[i]) /\ d[i] \in Variable
    BY <1>1, <1>2, <2>1, <2>2 DEF n
  <2>4. a = c <=> k.args = d
    <3>1. k.args \in Seq(Variable) /\ a \in Seq(TempTerm) /\ Len(a) = Len(k.args)
          /\ \A i \in 1..Len(k.args) : a[i] = New(k.args[i])
      BY <1>1, <1>2
    <3>2. d \in Seq(Variable) /\ c \in Seq(TempTerm) /\ Len(c) = Len(d) /\ \A i \in 1..Len(d) : c[i] = New(d[i])
      BY <2>1, <2>3
    <3>3. ASSUME NEW x \in Seq(Variable), NEW y \in Seq(TempTerm), Len(y) = Len(x),
                 \A i \in 1..Len(x) : y[i] = New(x[i])
          PROVE  a = y <=> k.args = x
      BY <3>1, <3>3, SameArguments
    <3> QED  BY <3>2, <3>3
  <2> QED  BY <2>4 DEF c, d
<1> QED  BY <1>1, <1>2, <1>4, <1>5 DEF SameLiteral

LEMMA ImpliesRenamed ==
  ASSUME mine \in LearnedType, his \in LearnedType, NEW l \in LearnedLiteral
  PROVE  ImpliesLiteral(HisPrecs, NewOf(l)) <=> ImpliesLiteral(his.precs, l)
  BY PrecFacts, SameRenamed DEF ImpliesLiteral

\* What a formula of mine becomes, with and without temporary names.
LEMMA AfterRenamed ==
  ASSUME NEW l \in LearnedLiteral, NEW q \in FullSub, NEW g,
         \A v \in Elems(l.args) : q[Old(v)] = New(Substituted(v, g)) /\ Substituted(v, g) \in Variable
  PROVE  LiteralAfter(l, g) \in LearnedLiteral /\ LiteralAfter(OldOf(l), q) = NewOf(LiteralAfter(l, g))
<1> DEFINE a == AfterSubstitution(l.args, g)
           m == LiteralAfter(l, g)
           k == LiteralAfter(OldOf(l), q)
<1>1. /\ l.args \in Seq(Variable) /\ Len(l.args) \in Nat /\ \A i \in 1..Len(l.args) : l.args[i] \in Variable
      /\ l = [pos |-> l.pos, pred |-> l.pred, args |-> l.args]
      /\ l.pos \in BOOLEAN /\ l.pred \in Predicate \cup {"="}
      /\ l.pred = "=" => Len(l.args) = 2
      /\ ~l.pos => l.pred = "="
  BY LearnedFields
<1>2. \A i \in 1..Len(l.args) : /\ q[Old(l.args[i])] = New(Substituted(l.args[i], g))
                                /\ Substituted(l.args[i], g) \in Variable
  BY DEF Elems
<1>3. a \in Seq(Variable) /\ Len(a) = Len(l.args) /\ \A i \in 1..Len(l.args) : a[i] = Substituted(l.args[i], g)
  BY <1>1, <1>2 DEF AfterSubstitution
<1>4. m = [l EXCEPT !.args = a]
  BY DEF LiteralAfter
<1> HIDE DEF a, m
<1>5. m.pos = l.pos /\ m.pred = l.pred /\ m.args = a /\ m \in LearnedLiteral
  BY <1>1, <1>3, <1>4 DEF LearnedLiteral
<1>6. /\ k \in TempLiteral /\ k.pos = l.pos /\ k.pred = l.pred /\ Len(k.args) = Len(l.args)
      /\ \A i \in 1..Len(l.args) : k.args[i] = Substituted(Old(l.args[i]), q)
  <2>1. /\ OldOf(l) \in TempLiteral /\ OldOf(l).pos = l.pos /\ OldOf(l).pred = l.pred
        /\ Len(OldOf(l).args) = Len(l.args) /\ \A i \in 1..Len(l.args) : OldOf(l).args[i] = Old(l.args[i])
    BY RenamedFacts
  <2> QED  BY <2>1, AfterFacts, FullFacts
<1> HIDE DEF k
<1>7. \A i \in 1..Len(l.args) : k.args[i] = New(m.args[i])
  <2>1. \A i \in 1..Len(l.args) : Substituted(Old(l.args[i]), q) = q[Old(l.args[i])]
    BY <1>1, TermFacts, FullFacts, SubFacts
  <2> QED  BY <1>2, <1>3, <1>5, <1>6, <2>1
<1>8. /\ NewOf(m) \in TempLiteral /\ NewOf(m).pos = m.pos /\ NewOf(m).pred = m.pred
      /\ Len(NewOf(m).args) = Len(m.args)
      /\ \A i \in 1..Len(m.args) : NewOf(m).args[i] = New(m.args[i])
  BY <1>5, RenamedFacts
<1>9. k = NewOf(m)
  BY <1>3, <1>5, <1>6, <1>7, <1>8, SameParts
<1> QED  BY <1>5, <1>9 DEF k, m

LEMMA MatchRenamed ==
  ASSUME mine \in LearnedType, his \in LearnedType, Comparable
  PROVE  LET fixed == MatchOf(MustMatch(mine, his))
             u     == MatchOf(MasterPairs)
         IN  /\ DOMAIN fixed = RelevantVariables(mine) /\ RelevantVariables(mine) \subseteq Variable
             /\ DOMAIN u = {Old(v) : v \in RelevantVariables(mine)}
             /\ \A v \in RelevantVariables(mine) : fixed[v] \in Variable /\ u[Old(v)] = New(fixed[v])
<1> DEFINE pairs == MustMatch(mine, his)
           fixed == MatchOf(pairs)
           u     == MatchOf(MasterPairs)
<1>1. /\ SameShape(mine, his) /\ IsFunctional(MasterPairs)
      /\ \A p \in pairs : p[1] \in Variable /\ p[2] \in Variable
      /\ {p[1] : p \in pairs} = RelevantVariables(mine)
  BY PairFacts DEF Comparable
<1>2. DOMAIN fixed = RelevantVariables(mine) /\ DOMAIN u = {Old(v) : v \in RelevantVariables(mine)}
  BY <1>1, MatchFacts, MasterFacts
<1>3. RelevantVariables(mine) \subseteq Variable
  <2> HIDE DEF pairs
  <2> QED  BY <1>1
<1>4. ASSUME NEW v \in RelevantVariables(mine)
      PROVE  fixed[v] \in Variable /\ u[Old(v)] = New(fixed[v])
  <2>1. PICK p \in pairs : p[1] = v /\ fixed[v] = p[2]
    BY <1>2, MatchValue
  <2>2. <<Old(p[1]), New(p[2])>> \in MasterPairs
    BY DEF MasterPairs
  <2>3. \A r \in MasterPairs : u[r[1]] = r[2]
    BY <1>1, MatchFacts
  <2>4. u[Old(p[1])] = New(p[2])
    BY <2>2, <2>3
  <2> QED  BY <1>1, <2>1, <2>4
<1> QED  BY <1>2, <1>3, <1>4

LEMMA AnswerIsSubsumption ==
  ASSUME mine \in LearnedType, his \in LearnedType
  PROVE  Answer <=> SubsumesByDefinition(mine, his)
<1> DEFINE fixed == MatchOf(MustMatch(mine, his))
           u     == MatchOf(MasterPairs)
           free  == MethodVariables(mine) \ DOMAIN fixed
<1>1. Comparable <=> SameShape(mine, his) /\ IsFunctional(MustMatch(mine, his))
  BY MasterFacts DEF Comparable
<1>2. SubsumesByDefinition(mine, his) <=>
        /\ SameShape(mine, his) /\ IsFunctional(MustMatch(mine, his))
        /\ \E f \in [free -> MethodVariables(his)] :
             \A l \in mine.precs : ImpliesLiteral(his.precs, LiteralAfter(l, Joint(f, fixed)))
  BY DEF SubsumesByDefinition
<1>3. /\ mine.precs \subseteq LearnedLiteral /\ his.precs \subseteq LearnedLiteral
      /\ MyPrecs = {OldOf(l) : l \in mine.precs} /\ HisPrecs = {NewOf(l) : l \in his.precs}
      /\ MyPrecs \in SUBSET TempLiteral
  BY PrecFacts
<1>4. \A l \in mine.precs : Elems(l.args) \subseteq Variable /\ Elems(l.args) \subseteq MethodVariables(mine)
  BY <1>3, LearnedFields DEF MethodVariables, VariablesOf
<1>5. \A k \in his.precs : Elems(k.args) \subseteq MethodVariables(his)
  BY <1>3, LearnedFields DEF MethodVariables, VariablesOf
<1>6. MethodVariables(his) \subseteq Variable
  <2>1. Elems(his.params) \subseteq Variable
    BY DEF LearnedType, Elems
  <2> QED  BY <2>1 DEF MethodVariables, RelevantVariables, VariablesOf
<1> SUFFICES ASSUME Comparable
             PROVE  Sat(HisPrecs, MyPrecs, u) <=>
                      \E f \in [free -> MethodVariables(his)] :
                        \A l \in mine.precs : ImpliesLiteral(his.precs, LiteralAfter(l, Joint(f, fixed)))
  BY <1>1, <1>2 DEF Answer
<1>7. /\ DOMAIN fixed = RelevantVariables(mine) /\ RelevantVariables(mine) \subseteq Variable
      /\ DOMAIN u = {Old(v) : v \in RelevantVariables(mine)}
      /\ \A v \in RelevantVariables(mine) : fixed[v] \in Variable /\ u[Old(v)] = New(fixed[v])
  BY MatchRenamed
<1>8. free = VariablesOf(mine.precs) \ RelevantVariables(mine)
  BY <1>7 DEF MethodVariables
<1> HIDE DEF fixed, u, free
<1>9. ASSUME NEW q \in FullSub, Extends(q, u), Matches(HisPrecs, MyPrecs, q)
      PROVE  \E f \in [free -> MethodVariables(his)] :
               \A l \in mine.precs : ImpliesLiteral(his.precs, LiteralAfter(l, Joint(f, fixed)))
  <2> DEFINE f == [v \in free |-> q[Old(v)][2]]
             g == Joint(f, fixed)
  <2>1. \A v \in Variable : q[Old(v)] \in NewTerm
    BY TermFacts DEF FullSub
  <2>2. ASSUME NEW v \in free
        PROVE  q[Old(v)][2] \in MethodVariables(his)
    <3>1. PICK l \in mine.precs : v \in Elems(l.args)
      BY <1>8 DEF VariablesOf
    <3>2. PICK i \in 1..Len(l.args) : v = l.args[i]
      BY <3>1 DEF Elems
    <3> DEFINE m == LiteralAfter(OldOf(l), q)
    <3>3. OldOf(l) \in TempLiteral /\ Len(OldOf(l).args) = Len(l.args) /\ OldOf(l).args[i] = Old(v)
      BY <1>3, <3>2, RenamedFacts
    <3>4. m \in TempLiteral /\ Len(m.args) = Len(l.args) /\ m.args[i] = q[Old(v)]
      <4>1. Old(v) \in OldTerm
        BY <1>3, <3>1, LearnedFields, TermFacts
      <4>2. Substituted(Old(v), q) = q[Old(v)]
        BY <4>1, FullFacts, SubFacts
      <4> QED  BY <3>3, <4>2, AfterFacts, FullFacts
    <3>5. ImpliesLiteral(HisPrecs, m)
      BY <1>3, <1>9 DEF Matches
    <3> HIDE DEF m
    <3>6. PICK k \in his.precs : SameLiteral(NewOf(k), m)
      BY <1>3, <3>5 DEF ImpliesLiteral
    <3>7. /\ NewOf(k) \in TempLiteral /\ Len(NewOf(k).args) = Len(k.args)
          /\ \A j \in 1..Len(k.args) : NewOf(k).args[j] = New(k.args[j])
      BY <1>3, RenamedFacts
    <3>8. \E j \in 1..Len(k.args) : NewOf(k).args[j] = m.args[i]
      <4>1. CASE NewOf(k) = m
        BY <3>4, <3>7, <4>1
      <4>2. CASE NewOf(k).args = Reverse(m.args)
        <5> DEFINE n == Len(m.args)
        <5>1. /\ n \in Nat /\ i \in 1..n /\ Len(Reverse(m.args)) = n
              /\ \A j \in 1..n : Reverse(m.args)[j] = m.args[n - j + 1]
          BY <3>4, LiteralFields DEF Reverse
        <5> HIDE DEF n
        <5>2. n - i + 1 \in 1..n /\ n - (n - i + 1) + 1 = i
          BY <5>1
        <5>3. Reverse(m.args)[n - i + 1] = m.args[i]
          BY <5>1, <5>2
        <5> QED  BY <3>7, <4>2, <5>1, <5>2, <5>3
      <4> QED  BY <3>6, <4>1, <4>2 DEF SameLiteral
    <3>9. PICK j \in 1..Len(k.args) : New(k.args[j]) = q[Old(v)]
      BY <3>4, <3>7, <3>8
    <3>10. q[Old(v)][2] = k.args[j]
      BY <3>9 DEF New
    <3> QED  BY <1>5, <3>10 DEF Elems
  <2>3. f \in [free -> MethodVariables(his)]
    BY <2>2
  <2>4. \A v \in MethodVariables(mine) \cap Variable :
          q[Old(v)] = New(Substituted(v, g)) /\ Substituted(v, g) \in Variable
    <3> TAKE v \in MethodVariables(mine) \cap Variable
    <3>1. CASE v \in RelevantVariables(mine)
      <4>1. Substituted(v, g) = fixed[v]
        BY <1>7, <1>8, <3>1 DEF Substituted, Joint
      <4>2. q[Old(v)] = u[Old(v)]
        BY <1>7, <1>9, <3>1 DEF Extends
      <4> QED  BY <1>7, <3>1, <4>1, <4>2
    <3>2. CASE v \notin RelevantVariables(mine)
      <4>1. v \in free
        BY <1>8, <3>2 DEF MethodVariables
      <4>2. Substituted(v, g) = q[Old(v)][2]
        BY <4>1 DEF Substituted, Joint
      <4>3. q[Old(v)][2] \in Variable /\ q[Old(v)] = New(q[Old(v)][2])
        BY <2>1, TermFacts
      <4> QED  BY <4>2, <4>3
    <3> QED  BY <3>1, <3>2
  <2> HIDE DEF f, g
  <2>5. ASSUME NEW l \in mine.precs
        PROVE  ImpliesLiteral(his.precs, LiteralAfter(l, g))
    <3>1. \A v \in Elems(l.args) : q[Old(v)] = New(Substituted(v, g)) /\ Substituted(v, g) \in Variable
      BY <1>4, <2>4
    <3>2. l \in LearnedLiteral /\ OldOf(l) \in MyPrecs
      BY <1>3
    <3>3. LiteralAfter(l, g) \in LearnedLiteral /\ LiteralAfter(OldOf(l), q) = NewOf(LiteralAfter(l, g))
      BY <3>1, <3>2, AfterRenamed
    <3>4. ImpliesLiteral(HisPrecs, LiteralAfter(OldOf(l), q))
      BY <1>9, <3>2 DEF Matches
    <3> QED  BY <3>3, <3>4, ImpliesRenamed
  <2> QED  BY <2>3, <2>5 DEF g
<1>10. ASSUME NEW f \in [free -> MethodVariables(his)],
              \A l \in mine.precs : ImpliesLiteral(his.precs, LiteralAfter(l, Joint(f, fixed)))
       PROVE  Sat(HisPrecs, MyPrecs, u)
  <2> DEFINE g == Joint(f, fixed)
             q == [t \in OldTerm |-> New(Substituted(t[2], g))]
  <2>1. \A v \in Variable : Substituted(v, g) \in Variable
    BY <1>6, <1>7 DEF Substituted, Joint
  <2>2. \A v \in Variable : q[Old(v)] = New(Substituted(v, g))
    <3>1. \A v : Old(v)[2] = v
      BY DEF Old
    <3> QED  BY <3>1, TermFacts
  <2>3. \A v \in RelevantVariables(mine) : Substituted(v, g) = fixed[v]
    BY <1>7, <1>8 DEF Substituted, Joint
  <2>4. q \in FullSub
    BY <2>1, TermFacts DEF FullSub
  <2> HIDE DEF g, q
  <2>5. Extends(q, u)
    <3>1. DOMAIN u \subseteq DOMAIN q
      BY <1>7, <2>4, FullFacts, TermFacts
    <3> QED  BY <1>7, <2>2, <2>3, <3>1 DEF Extends
  <2>6. ASSUME NEW l \in mine.precs
        PROVE  ImpliesLiteral(HisPrecs, LiteralAfter(OldOf(l), q))
    <3>1. \A v \in Elems(l.args) : q[Old(v)] = New(Substituted(v, g)) /\ Substituted(v, g) \in Variable
      BY <1>4, <2>1, <2>2
    <3>2. l \in LearnedLiteral
      BY <1>3
    <3>3. LiteralAfter(l, g) \in LearnedLiteral /\ LiteralAfter(OldOf(l), q) = NewOf(LiteralAfter(l, g))
      BY <2>4, <3>1, <3>2, AfterRenamed
    <3> QED  BY <1>10, <3>3, ImpliesRenamed DEF g
  <2>7. Matches(HisPrecs, MyPrecs, q)
    BY <1>3, <2>6 DEF Matches
  <2> QED  BY <2>4, <2>5, <2>7 DEF Sat
<1> QED  BY <1>9, <1>10 DEF Sat

----------------------------------------------------------------------------
(* The results                                                             *)

\* A yes of the search is right for every two methods: the substitutions of the
\* nested calls add up to one that the definition of subsumption asks for.
THEOREM YesIsNeverWrong == Spec => []YesIsRight
<1>1. IInv => YesIsRight
  BY AnswerIsSubsumption DEF IInv, GoodCalls, YesIsRight
<1> QED  BY <1>1, Invariance, PTL

\* So is a no, in whatever order std::sort leaves equally close formulas, unless
\* an equation has to be matched the other way round from how it is written.
THEOREM NoIsNeverWrong == Spec => []NoIsRight
<1>1. IInv => NoIsRight
  BY AnswerIsSubsumption DEF IInv, GoodCalls, NoIsRight
<1> QED  BY <1>1, Invariance, PTL
============================================================================
