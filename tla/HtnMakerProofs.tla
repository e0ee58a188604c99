--------------------------- MODULE HtnMakerProofs ---------------------------
(***************************************************************************)
(* Theorems about the learner.                                             *)
(***************************************************************************)
EXTENDS HtnMaker, HtnDomainProofs, SequenceTheorems

----------------------------------------------------------------------------
(* Substitutions                                                           *)

\* The literals all of whose arguments are of a set.
Over(S) == [pos : BOOLEAN, pred : Predicate \cup {"="}, args : Seq(S)]

\* First one substitution, then the other.
Composed(sub, sub2) == [v \in DOMAIN sub |-> sub2[sub[v]]]

\* The values of sub are of a set.
Into(sub, T) == \A v \in DOMAIN sub : sub[v] \in T

LEMMA ArgsAfter ==
  ASSUME NEW sub, NEW args \in Seq(DOMAIN sub)
  PROVE  /\ Len(AfterSubstitution(args, sub)) = Len(args)
         /\ \A i \in 1..Len(args) : args[i] \in DOMAIN sub /\ AfterSubstitution(args, sub)[i] = sub[args[i]]
<1>1. Len(args) \in Nat /\ \A i \in 1..Len(args) : args[i] \in DOMAIN sub /\ Substituted(args[i], sub) = sub[args[i]]
  BY DEF Substituted
<1> QED  BY <1>1 DEF AfterSubstitution

LEMMA ArgsType ==
  ASSUME NEW sub, NEW args \in Seq(DOMAIN sub), NEW T, Into(sub, T)
  PROVE  AfterSubstitution(args, sub) \in Seq(T)
<1>1. Len(args) \in Nat /\ \A i \in 1..Len(args) : Substituted(args[i], sub) \in T
  BY DEF Substituted, Into
<1> QED  BY <1>1 DEF AfterSubstitution

LEMMA ArgsComposed ==
  ASSUME NEW sub, NEW sub2, NEW args \in Seq(DOMAIN sub), Into(sub, DOMAIN sub2)
  PROVE  AfterSubstitution(AfterSubstitution(args, sub), sub2) = AfterSubstitution(args, Composed(sub, sub2))
<1> DEFINE mid == AfterSubstitution(args, sub)
           sub3 == Composed(sub, sub2)
<1>1. DOMAIN sub3 = DOMAIN sub /\ \A v \in DOMAIN sub : sub3[v] = sub2[sub[v]]
  BY DEF Composed
<1>2. /\ mid \in Seq(DOMAIN sub2) /\ Len(mid) = Len(args) /\ Len(args) \in Nat
      /\ \A i \in 1..Len(args) : args[i] \in DOMAIN sub /\ mid[i] = sub[args[i]]
  BY ArgsAfter, ArgsType
<1> HIDE DEF mid, sub3
<1>3. /\ Len(AfterSubstitution(mid, sub2)) = Len(mid)
      /\ \A i \in 1..Len(mid) : AfterSubstitution(mid, sub2)[i] = sub2[mid[i]]
  BY <1>2, ArgsAfter
<1>4. /\ Len(AfterSubstitution(args, sub3)) = Len(args)
      /\ \A i \in 1..Len(args) : AfterSubstitution(args, sub3)[i] = sub3[args[i]]
  BY <1>1, ArgsAfter
<1>5. \A i \in 1..Len(args) : AfterSubstitution(mid, sub2)[i] = AfterSubstitution(args, sub3)[i]
  BY <1>1, <1>2, <1>3, <1>4
<1>6. /\ AfterSubstitution(mid, sub2) = [i \in 1..Len(args) |-> AfterSubstitution(mid, sub2)[i]]
      /\ AfterSubstitution(args, sub3) = [i \in 1..Len(args) |-> AfterSubstitution(args, sub3)[i]]
  BY <1>2 DEF AfterSubstitution
<1>7. AfterSubstitution(mid, sub2) = AfterSubstitution(args, sub3)
  BY <1>5, <1>6
<1> QED  BY <1>7 DEF mid, sub3

LEMMA LiteralAfterRecord ==
  ASSUME NEW S, NEW l \in Over(S), NEW sub
  PROVE  /\ LiteralAfter(l, sub) = [pos |-> l.pos, pred |-> l.pred, args |-> AfterSubstitution(l.args, sub)]
         /\ LiteralAfter(l, sub).args = AfterSubstitution(l.args, sub)
         /\ LiteralAfter(l, sub).pos = l.pos /\ LiteralAfter(l, sub).pred = l.pred
<1> QED  BY DEF LiteralAfter, Over

LEMMA LiteralAfterType ==
  ASSUME NEW sub, NEW l \in Over(DOMAIN sub), NEW T, Into(sub, T)
  PROVE  LiteralAfter(l, sub) \in Over(T)
<1>1. AfterSubstitution(l.args, sub) \in Seq(T)
  BY ArgsType DEF Over
<1>2. l.pos \in BOOLEAN /\ l.pred \in Predicate \cup {"="}
  BY DEF Over
<1>3. LiteralAfter(l, sub) = [pos |-> l.pos, pred |-> l.pred, args |-> AfterSubstitution(l.args, sub)]
  BY LiteralAfterRecord
<1> QED  BY <1>1, <1>2, <1>3 DEF Over

LEMMA LiteralComposed ==
  ASSUME NEW sub, NEW sub2, NEW l \in Over(DOMAIN sub), Into(sub, DOMAIN sub2)
  PROVE  LiteralAfter(LiteralAfter(l, sub), sub2) = LiteralAfter(l, Composed(sub, sub2))
<1>1. AfterSubstitution(AfterSubstitution(l.args, sub), sub2) = AfterSubstitution(l.args, Composed(sub, sub2))
  BY ArgsComposed DEF Over
<1>2. LiteralAfter(l, sub) \in Over(DOMAIN sub2)
  BY LiteralAfterType
<1> QED  BY <1>1, <1>2, LiteralAfterRecord

LEMMA FormulaAfterType ==
  ASSUME NEW sub, NEW form \in SUBSET Over(DOMAIN sub), NEW T, Into(sub, T)
  PROVE  FormulaAfter(form, sub) \in SUBSET Over(T)
<1> QED  BY LiteralAfterType DEF FormulaAfter

LEMMA FormulaComposed ==
  ASSUME NEW sub, NEW sub2, NEW form \in SUBSET Over(DOMAIN sub), Into(sub, DOMAIN sub2)
  PROVE  FormulaAfter(FormulaAfter(form, sub), sub2) = FormulaAfter(form, Composed(sub, sub2))
<1>1. \A l \in form : LiteralAfter(LiteralAfter(l, sub), sub2) = LiteralAfter(l, Composed(sub, sub2))
  BY LiteralComposed
<1> QED  BY <1>1 DEF FormulaAfter

LEMMA FormulaFinite ==
  ASSUME NEW form, IsFiniteSet(form), NEW sub
  PROVE  IsFiniteSet(FormulaAfter(form, sub)) /\ Cardinality(FormulaAfter(form, sub)) <= Cardinality(form)
<1> DEFINE f == [l \in form |-> LiteralAfter(l, sub)]
<1>1. f \in [form -> FormulaAfter(form, sub)] /\ FormulaAfter(form, sub) = {f[l] : l \in form}
  BY DEF FormulaAfter
<1> HIDE DEF f
<1> QED  BY <1>1, FiniteImage

LEMMA HeadComposed ==
  ASSUME NEW sub, NEW sub2, NEW h, h.args \in Seq(DOMAIN sub), Into(sub, DOMAIN sub2)
  PROVE  TaskAfter(TaskAfter(h, sub), sub2) = TaskAfter(h, Composed(sub, sub2))
<1>1. AfterSubstitution(AfterSubstitution(h.args, sub), sub2) = AfterSubstitution(h.args, Composed(sub, sub2))
  BY ArgsComposed
<1> QED  BY <1>1 DEF TaskAfter

----------------------------------------------------------------------------
(* CreateNewVars                                                           *)

\* The names the program makes are new ones each time, and are not constants.
FreshNames ==
  /\ \A n \in Nat : CreatedVar(n) \in Variable
  /\ \A i, j \in Nat : CreatedVar(i) = CreatedVar(j) => i = j

\* The names made from one count to another.
Names(a, b) == {CreatedVar(i) : i \in (a + 1)..b}

LEMMA NamesFacts ==
  ASSUME FreshNames, NEW a \in Nat, NEW b \in Nat, NEW c \in Nat
  PROVE  /\ Names(a, b) \subseteq Variable
         /\ b <= c => Names(a, b) \subseteq Names(a, c) /\ Names(a, b) \cap Names(b, c) = {}
         /\ a <= b => Names(b, c) \subseteq Names(a, c)
<1> QED  BY DEF FreshNames, Names

\* One name more, for an element that has none yet.
LEMMA OneName ==
  ASSUME FreshNames, NEW vs, IsFiniteSet(vs), NEW n \in Nat, NEW i \in 1..Cardinality(vs), NEW f,
         DOMAIN f \subseteq vs, Cardinality(DOMAIN f) = i - 1, Into(f, Names(n, n + i - 1)), IsInjective(f)
  PROVE  LET g == WithName(f, vs, CreatedVar(n + i))
         IN  /\ g \in UNION {[D -> Variable] : D \in SUBSET vs} /\ DOMAIN g \subseteq vs
             /\ Cardinality(DOMAIN g) = i /\ Into(g, Names(n, n + i)) /\ IsInjective(g)
<1> DEFINE new == CHOOSE v \in vs : v \notin DOMAIN f
           name == CreatedVar(n + i)
           g == WithName(f, vs, name)
<1>1. Cardinality(vs) \in Nat
  BY FS_CardinalityType
<1>2. vs # DOMAIN f
  BY <1>1
<1>3. new \in vs /\ new \notin DOMAIN f
  BY <1>2
<1> HIDE DEF new
<1>4. DOMAIN g = DOMAIN f \cup {new} /\ g[new] = name /\ \A v \in DOMAIN f : g[v] = f[v]
  BY <1>3 DEF WithName, new
<1>5. g = [v \in DOMAIN f \cup {new} |-> g[v]]
  BY DEF WithName, new
<1>6. name \in Names(n, n + i) /\ name \notin Names(n, n + i - 1)
  BY DEF Names, FreshNames
<1>7. Names(n, n + i - 1) \subseteq Names(n, n + i)
  BY DEF Names
<1> HIDE DEF g, name
<1>8. Into(g, Names(n, n + i))
  BY <1>4, <1>6, <1>7 DEF Into
<1>9. Names(n, n + i) \subseteq Variable
  BY DEF Names, FreshNames
<1>10. g \in [DOMAIN f \cup {new} -> Variable] /\ DOMAIN f \cup {new} \in SUBSET vs
  BY <1>3, <1>4, <1>5, <1>8, <1>9 DEF Into
<1>11. IsInjective(g)
  BY <1>3, <1>4, <1>6 DEF IsInjective, Into
<1>12. Cardinality(DOMAIN g) = i
  <2>1. IsFiniteSet(DOMAIN f)
    BY FS_Subset
  <2> QED  BY <1>3, <1>4, <2>1, FS_AddElement
<1> QED  BY <1>4, <1>8, <1>10, <1>11, <1>12 DEF g, name

LEMMA NewVarsFacts ==
  ASSUME FreshNames, NEW vs, IsFiniteSet(vs), NEW n \in Nat
  PROVE  /\ Cardinality(vs) \in Nat /\ DOMAIN NewVars(vs, n) = vs
         /\ Into(NewVars(vs, n), Names(n, n + Cardinality(vs))) /\ IsInjective(NewVars(vs, n))
         /\ NewVars(vs, n) \in [vs -> Variable]
<1> DEFINE c == Cardinality(vs)
           T == UNION {[D -> Variable] : D \in SUBSET vs}
           Good(f, i) == /\ f \in T /\ DOMAIN f \subseteq vs /\ Cardinality(DOMAIN f) = i
                         /\ Into(f, Names(n, n + i)) /\ IsInjective(f)
           Next1(f, i) == WithName(f, vs, CreatedVar(n + i))
           step == [p \in (1..c) \X T |-> IF Good(p[2], p[1] - 1) THEN Next1(p[2], p[1]) ELSE p[2]]
           Body(f) == [i \in 0..c |-> IF i = 0 THEN <<>> ELSE WithName(f[i - 1], vs, CreatedVar(n + i))]
<1>1. c \in Nat
  BY FS_CardinalityType
<1>2. Good(<<>>, 0)
  <2>1. <<>> \in [{} -> Variable] /\ DOMAIN <<>> = {}
    OBVIOUS
  <2> QED  BY <2>1, FS_EmptySet DEF Into, IsInjective
<1>3. ASSUME NEW i \in 1..c, NEW f \in T, Good(f, i - 1)
      PROVE  Good(Next1(f, i), i)
  <2>1. n + (i - 1) = n + i - 1
    OBVIOUS
  <2> QED  BY <1>3, <2>1, OneName
<1> HIDE DEF T, Good, Next1, c
<1>4. step \in [(1..c) \X T -> T]
  <2> SUFFICES ASSUME NEW i \in 1..c, NEW f \in T
               PROVE  (IF Good(f, i - 1) THEN Next1(f, i) ELSE f) \in T
    OBVIOUS
  <2>1. CASE Good(f, i - 1)
    <3>1. Good(Next1(f, i), i)
      BY <1>3, <2>1
    <3> QED  BY <2>1, <3>1 DEF Good
  <2>2. CASE ~Good(f, i - 1)
    BY <2>2
  <2> QED  BY <2>1, <2>2
<1>5. PICK f \in [0..c -> T] : f[0] = <<>> /\ \A i \in 1..c : f[i] = step[<<i, f[i - 1]>>]
  <2> HIDE DEF step
  <2>1. <<>> \in T
    BY <1>2 DEF Good
  <2>2. Iterations(T, <<>>, c, step) # {}
    BY <1>1, <1>4, <2>1, Recursion
  <2> QED  BY <2>2 DEF Iterations
<1> DEFINE S == {i \in Nat : i <= c => Good(f[i], i)}
<1>6. 0 \in S
  BY <1>2, <1>5
<1>7. ASSUME NEW i \in Nat, i + 1 <= c, Good(f[i], i)
      PROVE  Good(f[i + 1], i + 1) /\ f[i + 1] = Next1(f[i], i + 1)
  <2>1. i + 1 \in 1..c /\ i + 1 - 1 = i /\ i \in 0..c
    BY <1>1, <1>7
  <2>2. f[i] \in T /\ f[i + 1] = step[<<i + 1, f[i]>>]
    <3> HIDE DEF step
    <3> QED  BY <1>5, <2>1
  <2>3. <<i + 1, f[i]>> \in (1..c) \X T
    BY <2>1, <2>2
  <2>4. step[<<i + 1, f[i]>>] = IF Good(f[i], i) THEN Next1(f[i], i + 1) ELSE f[i]
    BY <2>1, <2>3
  <2>5. f[i + 1] = Next1(f[i], i + 1)
    BY <1>7, <2>2, <2>4
  <2> QED  BY <1>3, <1>7, <2>1, <2>2, <2>5
<1>8. \A i \in Nat : i \in S => i + 1 \in S
  <2> SUFFICES ASSUME NEW i \in Nat, i \in S, i + 1 <= c
               PROVE  Good(f[i + 1], i + 1)
    OBVIOUS
  <2> QED  BY <1>1, <1>7
<1>9. Nat \subseteq S
  <2> HIDE DEF S
  <2> QED  BY <1>6, <1>8, Induction
<1>10. \A i \in 1..c : f[i] = WithName(f[i - 1], vs, CreatedVar(n + i))
  <2> SUFFICES ASSUME NEW i \in 1..c
               PROVE  f[i] = WithName(f[i - 1], vs, CreatedVar(n + i))
    OBVIOUS
  <2>1. i - 1 \in Nat /\ i - 1 + 1 = i /\ i - 1 <= c /\ i <= c
    BY <1>1
  <2>2. Good(f[i - 1], i - 1)
    BY <1>9, <2>1
  <2>3. f[i] = Next1(f[i - 1], i)
    BY <1>7, <2>1, <2>2
  <2> QED  BY <2>3 DEF Next1
<1>11. f = Body(f)
  <2> HIDE DEF step, S
  <2>1. f = [i \in 0..c |-> f[i]]
    BY <1>5
  <2>2. \A i \in 0..c : f[i] = IF i = 0 THEN <<>> ELSE WithName(f[i - 1], vs, CreatedVar(n + i))
    BY <1>1, <1>5, <1>10
  <2> QED  BY <2>1, <2>2
<1> DEFINE after == CHOOSE g : g = Body(g)
<1>12. NewVars(vs, n) = after[c]
  BY Zenon DEF NewVars, c
<1>13. after = Body(after)
  <2>1. \E g : g = Body(g)
    BY <1>11, Zenon
  <2> QED  BY <2>1, Zenon
<1> HIDE DEF after, step, S
<1>14. after[0] = <<>> /\ \A i \in 1..c : after[i] = WithName(after[i - 1], vs, CreatedVar(n + i))
  BY <1>1, <1>13
<1> DEFINE R == {i \in Nat : i <= c => after[i] = f[i]}
<1>15. 0 \in R
  BY <1>5, <1>14
<1>16. ASSUME NEW i \in Nat, i \in R
       PROVE  i + 1 \in R
  <2> SUFFICES ASSUME i + 1 <= c
               PROVE  after[i + 1] = f[i + 1]
    OBVIOUS
  <2>1. i + 1 \in 1..c /\ i + 1 - 1 = i /\ after[i] = f[i]
    BY <1>1, <1>16
  <2> QED  BY <1>10, <1>14, <2>1
<1>17. Nat \subseteq R
  <2> HIDE DEF R
  <2> QED  BY <1>15, <1>16, Induction
<1>18. NewVars(vs, n) = f[c]
  BY <1>1, <1>12, <1>17
<1>19. Good(NewVars(vs, n), c)
  <2>1. c \in S
    BY <1>1, <1>9
  <2> QED  BY <1>1, <1>18, <2>1 DEF S
<1>20. DOMAIN NewVars(vs, n) = vs
  <2>1. DOMAIN NewVars(vs, n) \in SUBSET vs /\ Cardinality(DOMAIN NewVars(vs, n)) = Cardinality(vs)
    BY <1>19 DEF Good, c
  <2> QED  BY <2>1, FS_Subset
<1>21. NewVars(vs, n) \in T
  BY <1>19 DEF Good
<1> QED  BY <1>1, <1>19, <1>20, <1>21 DEF Good, c, T

----------------------------------------------------------------------------
(* Lists of formulas and chains of replacements                            *)

LEMMA WithNewFacts ==
  ASSUME NEW form, NEW more
  PROVE  form \subseteq WithNew(form, more) /\ WithNew(form, more) \subseteq form \cup more
<1> QED  BY DEF WithNew

\* The end of a chain of replacements of variables of one constant is one of them.
LEMMA ChasedFacts ==
  ASSUME NEW D, NEW M, NEW sub, Into(sub, D), \A x \in DOMAIN sub : M[sub[x]] = M[x], NEW v \in D
  PROVE  Chased(v, sub) \in D /\ M[Chased(v, sub)] = M[v]
<1> DEFINE c == MaxSubsDepth
           T == {w \in D : M[w] = M[v]}
           step == [p \in (1..c) \X T |-> Substituted(p[2], sub)]
           Body(f) == [i \in 0..c |-> IF i = 0 THEN v ELSE Substituted(f[i - 1], sub)]
<1>1. c \in Nat /\ v \in T
  BY DEF MaxSubsDepth
<1>2. \A w \in T : Substituted(w, sub) \in T
  BY DEF Substituted, Into
<1> HIDE DEF T, c
<1>3. step \in [(1..c) \X T -> T]
  BY <1>2
<1>4. PICK f \in [0..c -> T] : f[0] = v /\ \A i \in 1..c : f[i] = step[<<i, f[i - 1]>>]
  <2> HIDE DEF step
  <2>1. Iterations(T, v, c, step) # {}
    BY <1>1, <1>3, Recursion
  <2> QED  BY <2>1 DEF Iterations
<1>5. ASSUME NEW i \in 1..c
      PROVE  f[i] = Substituted(f[i - 1], sub)
  <2>1. i - 1 \in 0..c
    BY <1>1
  <2>2. <<i, f[i - 1]>> \in (1..c) \X T
    BY <2>1
  <2> QED  BY <1>4, <2>2
<1>6. f = Body(f)
  <2>1. f = [i \in 0..c |-> f[i]]
    BY <1>4
  <2>2. \A i \in 0..c : f[i] = IF i = 0 THEN v ELSE Substituted(f[i - 1], sub)
    BY <1>1, <1>4, <1>5
  <2> QED  BY <2>1, <2>2
<1> DEFINE after == CHOOSE g : g = Body(g)
<1>7. Chased(v, sub) = after[c]
  BY Zenon DEF Chased, c
<1>8. after = Body(after)
  <2>1. \E g : g = Body(g)
    BY <1>6, Zenon
  <2> QED  BY <2>1, Zenon
<1> HIDE DEF after, step
<1>9. after[0] = v /\ \A i \in 1..c : after[i] = Substituted(after[i - 1], sub)
  BY <1>1, <1>8
<1> DEFINE S == {i \in Nat : i <= c => after[i] \in T}
<1>10. 0 \in S
  BY <1>1, <1>9
<1>11. ASSUME NEW i \in Nat, i \in S
       PROVE  i + 1 \in S
  <2> SUFFICES ASSUME i + 1 <= c PROVE after[i + 1] \in T
    OBVIOUS
  <2>1. i + 1 \in 1..c /\ i + 1 - 1 = i /\ after[i] \in T
    BY <1>1, <1>11
  <2> QED  BY <1>2, <1>9, <2>1
<1>12. Nat \subseteq S
  <2> HIDE DEF S
  <2> QED  BY <1>10, <1>11, Induction
<1>13. after[c] \in T
  BY <1>1, <1>12
<1> QED  BY <1>7, <1>13 DEF T

\* What is in place of a list's formulas stands for the same constants, and has
\* no variable that was replaced unless the chain did not come to its end.
LEMMA ChasedFormula ==
  ASSUME NEW M, NEW sub, Into(sub, DOMAIN M), DOMAIN sub \subseteq DOMAIN M,
         \A x \in DOMAIN sub : M[sub[x]] = M[x],
         NEW form \in SUBSET Over(DOMAIN M), ~SubsRecurse(form, sub)
  PROVE  /\ ChasedIn(form, sub) \in SUBSET Over(DOMAIN M \ DOMAIN sub)
         /\ FormulaAfter(ChasedIn(form, sub), M) = FormulaAfter(form, M)
<1> DEFINE D == DOMAIN M
<1> DEFINE chain == [v \in DOMAIN sub |-> Chased(v, sub)]
<1>1. \A v \in DOMAIN sub : Chased(v, sub) \in D /\ M[Chased(v, sub)] = M[v]
  BY ChasedFacts
<1>2. ASSUME NEW l \in form
      PROVE  /\ LiteralAfter(l, chain) \in Over(D \ DOMAIN sub)
             /\ LiteralAfter(LiteralAfter(l, chain), M) = LiteralAfter(l, M)
  <2> DEFINE n == Len(l.args)
             args == AfterSubstitution(l.args, chain)
  <2>1. l \in Over(D) /\ l.args \in Seq(D) /\ n \in Nat /\ \A i \in 1..n : l.args[i] \in D
    BY DEF Over
  <2>2. ASSUME NEW i \in 1..n
        PROVE  Substituted(l.args[i], chain) \in D \ DOMAIN sub /\ M[Substituted(l.args[i], chain)] = M[l.args[i]]
    <3>1. CASE l.args[i] \in DOMAIN sub
      <4>1. Substituted(l.args[i], chain) = Chased(l.args[i], sub)
        BY <3>1 DEF Substituted
      <4>2. l.args[i] \in Elems(l.args)
        BY DEF Elems
      <4>3. Chased(l.args[i], sub) \notin DOMAIN sub
        BY <4>2 DEF SubsRecurse
      <4> QED  BY <1>1, <3>1, <4>1, <4>3
    <3>2. CASE l.args[i] \notin DOMAIN sub
      BY <2>1, <3>2 DEF Substituted
    <3> QED  BY <3>1, <3>2
  <2>3. args = [i \in 1..n |-> Substituted(l.args[i], chain)]
    BY DEF AfterSubstitution
  <2> HIDE DEF chain, n
  <2>4. /\ args \in Seq(D \ DOMAIN sub) /\ Len(args) = n
        /\ \A i \in 1..n : args[i] \in DOMAIN M /\ M[args[i]] = M[l.args[i]]
    BY <2>1, <2>2, <2>3
  <2>5. LiteralAfter(l, chain) = [pos |-> l.pos, pred |-> l.pred, args |-> args]
    BY <2>1, LiteralAfterRecord
  <2>6. l.pos \in BOOLEAN /\ l.pred \in Predicate \cup {"="}
    BY <2>1 DEF Over
  <2> HIDE DEF args
  <2>7. LiteralAfter(l, chain) \in Over(D \ DOMAIN sub) /\ LiteralAfter(l, chain).args = args
    BY <2>4, <2>5, <2>6 DEF Over
  <2>8. AfterSubstitution(args, M) = AfterSubstitution(l.args, M)
    <3>1. \A i \in 1..n : Substituted(args[i], M) = M[args[i]] /\ Substituted(l.args[i], M) = M[l.args[i]]
      BY <2>1, <2>4 DEF Substituted
    <3> QED  BY <2>4, <3>1 DEF AfterSubstitution, n
  <2>9. LiteralAfter(LiteralAfter(l, chain), M) = [pos |-> l.pos, pred |-> l.pred, args |-> AfterSubstitution(args, M)]
    BY <2>5, <2>7, LiteralAfterRecord
  <2>10. LiteralAfter(l, M) = [pos |-> l.pos, pred |-> l.pred, args |-> AfterSubstitution(l.args, M)]
    BY <2>1, LiteralAfterRecord
  <2> QED  BY <2>7, <2>8, <2>9, <2>10
<1>3. ChasedIn(form, sub) = FormulaAfter(form, chain)
  BY DEF ChasedIn
<1> HIDE DEF chain
<1> QED  BY <1>2, <1>3 DEF FormulaAfter

----------------------------------------------------------------------------
(* Partial methods                                                         *)

\* Substitutions of variables.
Subst(T) == UNION {[D -> T] : D \in SUBSET Variable}

LEMMA SubstFacts ==
  ASSUME NEW T, NEW f
  PROVE  f \in Subst(T) <=> f = [v \in DOMAIN f |-> f[v]] /\ DOMAIN f \subseteq Variable /\ Into(f, T)
<1>1. ASSUME f \in Subst(T)
      PROVE  f = [v \in DOMAIN f |-> f[v]] /\ DOMAIN f \subseteq Variable /\ Into(f, T)
  <2>1. PICK D \in SUBSET Variable : f \in [D -> T]
    BY <1>1 DEF Subst
  <2> QED  BY <2>1 DEF Into
<1>2. ASSUME f = [v \in DOMAIN f |-> f[v]], DOMAIN f \subseteq Variable, Into(f, T)
      PROVE  f \in Subst(T)
  <2>1. f \in [DOMAIN f -> T]
    BY <1>2 DEF Into
  <2> QED  BY <1>2, <2>1 DEF Subst
<1> QED  BY <1>1, <1>2

HeadType  == [name : TaskName, args : Seq(Variable)]
TaskType  == [name : Compound, params : Seq(Variable), precs : SUBSET Over(Variable), effects : SUBSET Over(Variable)]
PieceType == [head : HeadType, effects : SUBSET Over(Variable), sub : Subst(Variable), before : Nat, after : Nat]
PartType  == [task : TaskType, taskSub : Subst(Variable), master : Subst(Object),
              adds : SUBSET Over(Variable), precs : SUBSET Over(Variable), pieces : Seq(PieceType),
              init : Nat, final : Nat, current : Nat, cost : Nat]
UnifyType == [p : PartType, sub : Subst(Variable), replaced : Subst(Variable), threw : BOOLEAN]

\* Under master m1 substitution s stands for the constants t stands for under M.
Same(s, m1, t, M) ==
  DOMAIN s = DOMAIN t /\ \A v \in DOMAIN t : s[v] \in DOMAIN m1 /\ m1[s[v]] = M[t[v]]

\* q is p with equal variables put in place of one another.
Keeps(q, p) ==
  /\ q.task = p.task /\ q.init = p.init /\ q.final = p.final /\ q.current = p.current /\ q.cost = p.cost
  /\ DOMAIN q.master \subseteq DOMAIN p.master /\ \A v \in DOMAIN q.master : q.master[v] = p.master[v]
  /\ Same(q.taskSub, q.master, p.taskSub, p.master)
  /\ Len(q.pieces) = Len(p.pieces)
  /\ \A i \in 1..Len(p.pieces) :
       /\ q.pieces[i].head = p.pieces[i].head /\ q.pieces[i].effects = p.pieces[i].effects
       /\ q.pieces[i].before = p.pieces[i].before /\ q.pieces[i].after = p.pieces[i].after
       /\ Same(q.pieces[i].sub, q.master, p.pieces[i].sub, p.master)

LEMMA KeepsTransitive ==
  ASSUME NEW p, NEW q, NEW r, Keeps(q, p), Keeps(r, q)
  PROVE  Keeps(r, p)
<1>1. ASSUME NEW s, NEW t, NEW u, Same(s, r.master, t, q.master), Same(t, q.master, u, p.master)
      PROVE  Same(s, r.master, u, p.master)
  BY <1>1, Zenon DEF Same
<1>2. Same(r.taskSub, r.master, p.taskSub, p.master)
  BY <1>1, Zenon DEF Keeps
<1>3. ASSUME NEW i \in 1..Len(p.pieces)
      PROVE  /\ r.pieces[i].head = p.pieces[i].head /\ r.pieces[i].effects = p.pieces[i].effects
             /\ r.pieces[i].before = p.pieces[i].before /\ r.pieces[i].after = p.pieces[i].after
             /\ Same(r.pieces[i].sub, r.master, p.pieces[i].sub, p.master)
  BY <1>1, Zenon DEF Keeps
<1>4. DOMAIN r.master \subseteq DOMAIN p.master /\ \A v \in DOMAIN r.master : r.master[v] = p.master[v]
  BY DEF Keeps
<1>5. /\ r.task = p.task /\ r.init = p.init /\ r.final = p.final /\ r.current = p.current /\ r.cost = p.cost
      /\ Len(r.pieces) = Len(p.pieces)
  BY DEF Keeps
<1> QED  BY <1>2, <1>3, <1>4, <1>5, Zenon DEF Keeps

LEMMA RenameSame ==
  ASSUME NEW s, NEW m1, NEW t, NEW M, Same(s, m1, t, M), NEW old, NEW new, new \in DOMAIN m1 => m1[new] = m1[old]
  PROVE  Same(RenameValues(s, old, new), RenameKeys(m1, old, new), t, M)
<1>1. DOMAIN RenameValues(s, old, new) = DOMAIN s /\ DOMAIN RenameKeys(m1, old, new) = (DOMAIN m1 \ {old}) \cup {new}
  BY DEF RenameValues, RenameKeys
<1>2. ASSUME NEW v \in DOMAIN t
      PROVE  /\ RenameValues(s, old, new)[v] \in DOMAIN RenameKeys(m1, old, new)
             /\ RenameKeys(m1, old, new)[RenameValues(s, old, new)[v]] = M[t[v]]
  <2>1. v \in DOMAIN s /\ s[v] \in DOMAIN m1 /\ m1[s[v]] = M[t[v]]
    BY DEF Same
  <2>2. RenameValues(s, old, new)[v] = IF s[v] = old THEN new ELSE s[v]
    BY <2>1 DEF RenameValues
  <2>3. /\ \A x \in (DOMAIN m1 \ {old}) \cup {new} : RenameKeys(m1, old, new)[x] = IF x = new THEN m1[old] ELSE m1[x]
    BY DEF RenameKeys
  <2> QED  BY <1>1, <2>1, <2>2, <2>3
<1> QED  BY <1>1, <1>2 DEF Same

Renamed(piece, was, old, new) ==
  /\ piece.head = was.head /\ piece.effects = was.effects /\ piece.before = was.before /\ piece.after = was.after
  /\ piece.sub = RenameValues(was.sub, old, new)

\* The fields of ReplaceTerm.
Replaced(r, a, old, new) ==
  /\ r \in UnifyType
  /\ r.p.task = a.p.task /\ r.p.init = a.p.init /\ r.p.final = a.p.final
  /\ r.p.current = a.p.current /\ r.p.cost = a.p.cost /\ r.p.adds = a.p.adds /\ r.p.precs = a.p.precs
  /\ r.p.taskSub = RenameValues(a.p.taskSub, old, new) /\ r.p.master = RenameKeys(a.p.master, old, new)
  /\ Len(r.p.pieces) = Len(a.p.pieces)
  /\ \A i \in 1..Len(a.p.pieces) : Renamed(r.p.pieces[i], a.p.pieces[i], old, new)
  /\ r.sub = RenameValues(a.sub, old, new) /\ r.replaced = Joint([v \in {old} |-> new], a.replaced)

LEMMA ReplaceTermFields ==
  ASSUME NEW a \in UnifyType, NEW old \in Variable, NEW new \in Variable, old \in DOMAIN a.p.master
  PROVE  Replaced(ReplaceTerm(a, old, new), a, old, new)
<1> DEFINE pieces == [i \in 1..Len(a.p.pieces) |-> [a.p.pieces[i] EXCEPT !.sub = RenameValues(@, old, new)]]
           q == [a.p EXCEPT !.taskSub = RenameValues(a.p.taskSub, old, new),
                            !.master = RenameKeys(a.p.master, old, new), !.pieces = pieces]
           r == [p |-> q, sub |-> RenameValues(a.sub, old, new), replaced |-> Joint([v \in {old} |-> new], a.replaced),
                 threw |-> (a.threw \/ old \in DOMAIN a.replaced)]
<1>1. a.p \in PartType /\ a.sub \in Subst(Variable) /\ a.replaced \in Subst(Variable) /\ a.threw \in BOOLEAN
  BY DEF UnifyType
<1>2. ReplaceTerm(a, old, new) = r
  BY DEF ReplaceTerm
<1>3. ASSUME NEW s \in Subst(Variable)
      PROVE  RenameValues(s, old, new) \in Subst(Variable)
  <2>1. DOMAIN s \subseteq Variable /\ Into(s, Variable)
    BY SubstFacts
  <2>2. RenameValues(s, old, new) \in [DOMAIN s -> Variable]
    BY <2>1 DEF RenameValues, Into
  <2> QED  BY <2>1, <2>2 DEF Subst
<1>4. RenameKeys(a.p.master, old, new) \in Subst(Object)
  <2> DEFINE M == a.p.master
  <2>1. M \in Subst(Object)
    BY <1>1 DEF PartType
  <2>2. DOMAIN M \subseteq Variable /\ Into(M, Object)
    BY <2>1, SubstFacts
  <2>3. RenameKeys(M, old, new) \in [(DOMAIN M \ {old}) \cup {new} -> Object]
    BY <2>2 DEF RenameKeys, Into
  <2> QED  BY <2>2, <2>3 DEF Subst
<1>5. Joint([v \in {old} |-> new], a.replaced) \in Subst(Variable)
  <2>1. DOMAIN a.replaced \subseteq Variable /\ Into(a.replaced, Variable)
    BY <1>1, SubstFacts
  <2>2. Joint([v \in {old} |-> new], a.replaced) \in [{old} \cup DOMAIN a.replaced -> Variable]
    BY <2>1 DEF Into, Joint
  <2> QED  BY <2>1, <2>2 DEF Subst
<1>6. pieces \in Seq(PieceType) /\ Len(pieces) = Len(a.p.pieces) /\ Len(a.p.pieces) \in Nat
  <2>1. a.p.pieces \in Seq(PieceType)
    BY <1>1 DEF PartType
  <2>2. ASSUME NEW piece \in PieceType
        PROVE  [piece EXCEPT !.sub = RenameValues(@, old, new)] \in PieceType
    <3>1. RenameValues(piece.sub, old, new) \in Subst(Variable)
      BY <1>3 DEF PieceType
    <3> QED  BY <3>1 DEF PieceType
  <2>3. \A i \in 1..Len(a.p.pieces) : a.p.pieces[i] \in PieceType
    BY <2>1
  <2> QED  BY <2>1, <2>2, <2>3
<1>7. /\ q \in PartType
      /\ q.task = a.p.task /\ q.init = a.p.init /\ q.final = a.p.final /\ q.current = a.p.current
      /\ q.cost = a.p.cost /\ q.adds = a.p.adds /\ q.precs = a.p.precs
      /\ q.taskSub = RenameValues(a.p.taskSub, old, new) /\ q.master = RenameKeys(a.p.master, old, new)
      /\ q.pieces = pieces
  <2>1. RenameValues(a.p.taskSub, old, new) \in Subst(Variable)
    BY <1>1, <1>3 DEF PartType
  <2>2. a.p \in PartType /\ RenameKeys(a.p.master, old, new) \in Subst(Object) /\ pieces \in Seq(PieceType)
    BY <1>1, <1>4, <1>6
  <2> DEFINE old1 == a.p
             taskSub == RenameValues(a.p.taskSub, old, new)
             master == RenameKeys(a.p.master, old, new)
  <2>3. q = [old1 EXCEPT !.taskSub = taskSub, !.master = master, !.pieces = pieces]
    OBVIOUS
  <2> HIDE DEF pieces, old1, taskSub, master, q
  <2>4. old1 \in PartType /\ taskSub \in Subst(Variable) /\ master \in Subst(Object)
    BY <2>1, <2>2 DEF old1, taskSub, master
  <2>5. /\ q \in PartType
        /\ q.task = old1.task /\ q.init = old1.init /\ q.final = old1.final /\ q.current = old1.current
        /\ q.cost = old1.cost /\ q.adds = old1.adds /\ q.precs = old1.precs
        /\ q.taskSub = taskSub /\ q.master = master /\ q.pieces = pieces
    BY <2>2, <2>3, <2>4 DEF PartType
  <2> QED  BY <2>5 DEF old1, taskSub, master
<1>8. r \in UnifyType
  <2>1. RenameValues(a.sub, old, new) \in Subst(Variable)
    BY <1>1, <1>3
  <2> HIDE DEF q
  <2> QED  BY <1>1, <1>5, <1>7, <2>1 DEF UnifyType
<1>9. /\ r.p = q /\ r.sub = RenameValues(a.sub, old, new) /\ r.replaced = Joint([v \in {old} |-> new], a.replaced)
      /\ \A i \in 1..Len(a.p.pieces) : pieces[i] = [a.p.pieces[i] EXCEPT !.sub = RenameValues(@, old, new)]
  OBVIOUS
<1>10. ASSUME NEW i \in 1..Len(a.p.pieces)
       PROVE  Renamed(pieces[i], a.p.pieces[i], old, new)
  <2>1. a.p.pieces[i] \in PieceType /\ pieces[i] = [a.p.pieces[i] EXCEPT !.sub = RenameValues(@, old, new)]
    BY <1>1, <1>9 DEF PartType
  <2> HIDE DEF pieces
  <2> QED  BY <2>1 DEF PieceType, Renamed
<1> HIDE DEF r, q, pieces
<1> QED  BY <1>2, <1>6, <1>7, <1>8, <1>9, <1>10 DEF Replaced

\* A substitution of some of the variables of a formula.
LEMMA PartialAfterType ==
  ASSUME NEW sub, NEW S, NEW T, Into(sub, T), S \ DOMAIN sub \subseteq T, NEW form \in SUBSET Over(S)
  PROVE  FormulaAfter(form, sub) \in SUBSET Over(T)
<1>1. ASSUME NEW l \in form
      PROVE  LiteralAfter(l, sub) \in Over(T)
  <2>1. l \in Over(S) /\ l.args \in Seq(S) /\ l.pos \in BOOLEAN /\ l.pred \in Predicate \cup {"="}
    BY DEF Over
  <2>2. \A i \in 1..Len(l.args) : Substituted(l.args[i], sub) \in T
    BY <2>1 DEF Substituted, Into
  <2>3. AfterSubstitution(l.args, sub) \in Seq(T)
    BY <2>1, <2>2 DEF AfterSubstitution
  <2>4. LiteralAfter(l, sub) = [pos |-> l.pos, pred |-> l.pred, args |-> AfterSubstitution(l.args, sub)]
    BY <2>1, LiteralAfterRecord
  <2> QED  BY <2>1, <2>3, <2>4 DEF Over
<1> QED  BY <1>1 DEF FormulaAfter

\* Two substitutions that agree on the variables of a formula.
LEMMA AgreeAfter ==
  ASSUME NEW m1, NEW M, NEW D, D \subseteq DOMAIN m1, D \subseteq DOMAIN M, \A v \in D : m1[v] = M[v],
         NEW form \in SUBSET Over(D)
  PROVE  FormulaAfter(form, m1) = FormulaAfter(form, M)
<1>1. ASSUME NEW l \in form
      PROVE  LiteralAfter(l, m1) = LiteralAfter(l, M)
  <2>1. l \in Over(D) /\ l.args \in Seq(D)
    BY DEF Over
  <2>2. \A i \in 1..Len(l.args) : Substituted(l.args[i], m1) = Substituted(l.args[i], M)
    BY <2>1 DEF Substituted
  <2>3. AfterSubstitution(l.args, m1) = AfterSubstitution(l.args, M)
    BY <2>2 DEF AfterSubstitution
  <2> QED  BY <2>1, <2>3, LiteralAfterRecord
<1> QED  BY <1>1 DEF FormulaAfter

\* a comes from b by some replacements.
Round(a, b) ==
  /\ a \in UnifyType /\ Keeps(a.p, b.p) /\ a.p.adds = b.p.adds /\ a.p.precs = b.p.precs
  /\ Same(a.sub, a.p.master, b.sub, b.p.master)
  /\ DOMAIN a.replaced \subseteq DOMAIN b.p.master /\ Into(a.replaced, DOMAIN b.p.master)
  /\ \A v \in DOMAIN a.replaced : b.p.master[a.replaced[v]] = b.p.master[v]
  /\ DOMAIN b.p.master \subseteq DOMAIN a.p.master \cup DOMAIN a.replaced

LEMMA RoundStep ==
  ASSUME NEW b \in UnifyType, NEW a, Round(a, b), NEW v \in DOMAIN b.sub, NEW new \in DOMAIN b.p.master,
         b.p.master[new] = b.p.master[b.sub[v]]
  PROVE  Round(ReplaceTerm(a, a.sub[v], new), b)
<1> DEFINE old == a.sub[v]
           r == ReplaceTerm(a, old, new)
           m1 == a.p.master
           M == b.p.master
           n == RenameKeys(m1, old, new)
<1>1. /\ a \in UnifyType /\ Keeps(a.p, b.p) /\ a.p.adds = b.p.adds /\ a.p.precs = b.p.precs
      /\ Same(a.sub, m1, b.sub, M) /\ DOMAIN a.replaced \subseteq DOMAIN M /\ Into(a.replaced, DOMAIN M)
      /\ \A w \in DOMAIN a.replaced : M[a.replaced[w]] = M[w]
      /\ DOMAIN M \subseteq DOMAIN m1 \cup DOMAIN a.replaced
  BY DEF Round
<1>2. /\ DOMAIN m1 \subseteq DOMAIN M /\ \A w \in DOMAIN m1 : m1[w] = M[w]
      /\ Same(a.p.taskSub, m1, b.p.taskSub, M)
      /\ \A i \in 1..Len(b.p.pieces) : Same(a.p.pieces[i].sub, m1, b.p.pieces[i].sub, M)
  BY <1>1 DEF Keeps
<1>3. old \in DOMAIN m1 /\ m1[old] = M[new] /\ M[old] = M[new]
  BY <1>1, <1>2 DEF Same
<1>4. DOMAIN M \subseteq Variable /\ new \in Variable /\ old \in Variable
  <2>1. b.p.master \in Subst(Object)
    BY DEF UnifyType, PartType
  <2> QED  BY <1>2, <1>3, <2>1, SubstFacts
<1>5. /\ r \in UnifyType
      /\ r.p.task = a.p.task /\ r.p.init = a.p.init /\ r.p.final = a.p.final
      /\ r.p.current = a.p.current /\ r.p.cost = a.p.cost /\ r.p.adds = a.p.adds /\ r.p.precs = a.p.precs
      /\ r.p.taskSub = RenameValues(a.p.taskSub, old, new) /\ r.p.master = n
      /\ Len(r.p.pieces) = Len(a.p.pieces)
      /\ \A i \in 1..Len(a.p.pieces) : Renamed(r.p.pieces[i], a.p.pieces[i], old, new)
      /\ r.sub = RenameValues(a.sub, old, new)
      /\ r.replaced = Joint([w \in {old} |-> new], a.replaced)
  <2>1. Replaced(r, a, old, new)
    BY <1>1, <1>3, <1>4, ReplaceTermFields
  <2> HIDE DEF r
  <2> QED  BY <2>1 DEF Replaced
<1> HIDE DEF r
<1>6. ASSUME NEW s, NEW t, Same(s, m1, t, M)
      PROVE  Same(RenameValues(s, old, new), n, t, M)
  <2>1. new \in DOMAIN m1 => m1[new] = m1[old]
    BY <1>2, <1>3
  <2> QED  BY <1>6, <2>1, RenameSame
<1>7. DOMAIN n = (DOMAIN m1 \ {old}) \cup {new} /\ \A w \in DOMAIN n : n[w] = M[w]
  <2>1. \A w \in DOMAIN n : n[w] = IF w = new THEN m1[old] ELSE m1[w]
    BY DEF RenameKeys
  <2>2. DOMAIN n = (DOMAIN m1 \ {old}) \cup {new}
    BY DEF RenameKeys
  <2> QED  BY <1>2, <1>3, <2>1, <2>2
<1> HIDE DEF n, old
<1>8. Keeps(r.p, b.p)
  <2>1. /\ b.p.task = a.p.task /\ b.p.init = a.p.init /\ b.p.final = a.p.final
        /\ b.p.current = a.p.current /\ b.p.cost = a.p.cost /\ Len(a.p.pieces) = Len(b.p.pieces)
    BY <1>1 DEF Keeps
  <2>2. Same(r.p.taskSub, r.p.master, b.p.taskSub, b.p.master)
    BY <1>2, <1>5, <1>6
  <2>3. ASSUME NEW i \in 1..Len(b.p.pieces)
        PROVE  /\ r.p.pieces[i].head = b.p.pieces[i].head /\ r.p.pieces[i].effects = b.p.pieces[i].effects
               /\ r.p.pieces[i].before = b.p.pieces[i].before /\ r.p.pieces[i].after = b.p.pieces[i].after
               /\ Same(r.p.pieces[i].sub, r.p.master, b.p.pieces[i].sub, b.p.master)
    <3>1. i \in 1..Len(a.p.pieces) /\ a.p.pieces \in Seq(PieceType)
      BY <1>1, <2>1 DEF UnifyType, PartType
    <3>4. Renamed(r.p.pieces[i], a.p.pieces[i], old, new)
      BY <1>5, <3>1
    <3>5. Same(r.p.pieces[i].sub, r.p.master, b.p.pieces[i].sub, b.p.master)
      BY <1>2, <1>5, <1>6, <3>4 DEF Renamed
    <3>6. /\ a.p.pieces[i].head = b.p.pieces[i].head /\ a.p.pieces[i].effects = b.p.pieces[i].effects
          /\ a.p.pieces[i].before = b.p.pieces[i].before /\ a.p.pieces[i].after = b.p.pieces[i].after
      BY <1>1 DEF Keeps
    <3> QED  BY <3>4, <3>5, <3>6 DEF Renamed
  <2>4. DOMAIN r.p.master \subseteq DOMAIN b.p.master /\ \A w \in DOMAIN r.p.master : r.p.master[w] = b.p.master[w]
    BY <1>2, <1>5, <1>7
  <2> QED  BY <1>5, <2>1, <2>2, <2>3, <2>4 DEF Keeps
<1>9. Same(r.sub, r.p.master, b.sub, b.p.master)
  BY <1>1, <1>5, <1>6
<1>10. /\ DOMAIN r.replaced = {old} \cup DOMAIN a.replaced
       /\ \A w \in DOMAIN r.replaced : r.replaced[w] = IF w = old THEN new ELSE a.replaced[w]
  BY <1>5 DEF Joint
<1>11. old \in DOMAIN M
  BY <1>2, <1>3
<1>12. DOMAIN r.replaced \subseteq DOMAIN M /\ Into(r.replaced, DOMAIN M)
  BY <1>1, <1>10, <1>11 DEF Into
<1>13. \A w \in DOMAIN r.replaced : M[r.replaced[w]] = M[w]
  BY <1>1, <1>3, <1>10
<1>14. DOMAIN M \subseteq DOMAIN r.p.master \cup DOMAIN r.replaced
  BY <1>1, <1>5, <1>7, <1>10
<1>15. Round(r, b)
  BY <1>1, <1>5, <1>8, <1>9, <1>12, <1>13, <1>14 DEF Round
<1> QED  BY <1>15 DEF r, old

\* Unification keeps the constants that everything stands for.
LEMMA UnifiedFacts ==
  ASSUME NEW b \in UnifyType, Keeps(b.p, b.p), Same(b.sub, b.p.master, b.sub, b.p.master),
         NEW e, NEW l, e.args \in Seq(DOMAIN b.sub), l.args \in Seq(DOMAIN b.p.master), Len(e.args) = Len(l.args),
         \A i \in 1..Len(l.args) : b.p.master[l.args[i]] = b.p.master[b.sub[e.args[i]]]
  PROVE  Round(Unified(b, e, l), b)
<1> DEFINE c == Len(l.args)
           T == {a \in UnifyType : Round(a, b)}
           Next1(a, i) == IF a.sub[e.args[i]] = l.args[i] THEN a ELSE ReplaceTerm(a, a.sub[e.args[i]], l.args[i])
           start == [b EXCEPT !.replaced = <<>>]
           step == [p \in (1..c) \X T |-> Next1(p[2], p[1])]
           Body(f) == [i \in 0..c |-> IF i = 0 THEN start ELSE Next1(f[i - 1], i)]
<1>1. c \in Nat
  OBVIOUS
<1>2. start \in T
  <2>1. <<>> \in Subst(Variable) /\ DOMAIN <<>> = {}
    <3>1. <<>> \in [{} -> Variable] /\ DOMAIN <<>> = {}
      OBVIOUS
    <3> QED  BY <3>1 DEF Subst
  <2>2. start \in UnifyType /\ start.p = b.p /\ start.sub = b.sub /\ start.replaced = <<>>
    BY <2>1 DEF UnifyType
  <2> HIDE DEF start
  <2> QED  BY <2>1, <2>2 DEF Round, Into
<1>3. ASSUME NEW a \in T, NEW i \in 1..c
      PROVE  Next1(a, i) \in T
  <2>1. CASE a.sub[e.args[i]] = l.args[i]
    BY <2>1
  <2>2. CASE a.sub[e.args[i]] # l.args[i]
    <3>1. Round(a, b) /\ e.args[i] \in DOMAIN b.sub /\ l.args[i] \in DOMAIN b.p.master
      OBVIOUS
    <3>2. Round(ReplaceTerm(a, a.sub[e.args[i]], l.args[i]), b)
      BY <3>1, RoundStep
    <3>3. ReplaceTerm(a, a.sub[e.args[i]], l.args[i]) \in UnifyType
      BY <3>2 DEF Round
    <3> QED  BY <2>2, <3>2, <3>3
  <2> QED  BY <2>1, <2>2
<1> HIDE DEF T, c, start
<1>4. step \in [(1..c) \X T -> T]
  BY <1>3
<1>5. PICK f \in [0..c -> T] : f[0] = start /\ \A i \in 1..c : f[i] = step[<<i, f[i - 1]>>]
  <2> HIDE DEF step
  <2>1. Iterations(T, start, c, step) # {}
    BY <1>1, <1>2, <1>4, Recursion
  <2> QED  BY <2>1 DEF Iterations
<1>6. ASSUME NEW i \in 1..c
      PROVE  f[i] = Next1(f[i - 1], i)
  <2>1. i - 1 \in 0..c
    BY <1>1
  <2>2. <<i, f[i - 1]>> \in (1..c) \X T
    BY <2>1
  <2> QED  BY <1>5, <2>2
<1> HIDE DEF Next1
<1>7. f = Body(f)
  <2>1. f = [i \in 0..c |-> f[i]]
    BY <1>5
  <2>2. \A i \in 0..c : f[i] = IF i = 0 THEN start ELSE Next1(f[i - 1], i)
    BY <1>1, <1>5, <1>6
  <2> QED  BY <2>1, <2>2
<1> DEFINE after == CHOOSE g : g = Body(g)
<1>8. Unified(b, e, l) = after[c]
  BY Zenon DEF Unified, c, start, Next1
<1>9. after = Body(after)
  <2>1. \E g : g = Body(g)
    BY <1>7, Zenon
  <2> QED  BY <2>1, Zenon
<1> HIDE DEF after, step
<1>10. after[0] = start /\ \A i \in 1..c : after[i] = Next1(after[i - 1], i)
  BY <1>1, <1>9
<1> DEFINE S == {i \in Nat : i <= c => after[i] \in T}
<1>11. 0 \in S
  BY <1>2, <1>10
<1>12. ASSUME NEW i \in Nat, i \in S
       PROVE  i + 1 \in S
  <2> SUFFICES ASSUME i + 1 <= c PROVE after[i + 1] \in T
    OBVIOUS
  <2>1. i + 1 \in 1..c /\ i + 1 - 1 = i /\ after[i] \in T
    BY <1>1, <1>12
  <2>2. after[i + 1] = Next1(after[i], i + 1)
    BY <1>10, <2>1
  <2> QED  BY <1>3, <2>1, <2>2
<1>13. Nat \subseteq S
  <2> HIDE DEF S
  <2> QED  BY <1>11, <1>12, Induction
<1>14. after[c] \in T
  BY <1>1, <1>13
<1> QED  BY <1>8, <1>14 DEF T

LEMMA FormulaParts ==
  ASSUME NEW form, NEW more, NEW sub
  PROVE  /\ FormulaAfter(form \cup more, sub) = FormulaAfter(form, sub) \cup FormulaAfter(more, sub)
         /\ form \subseteq more => FormulaAfter(form, sub) \subseteq FormulaAfter(more, sub)
<1> QED  BY DEF FormulaAfter

\* A list of formulas after the replacements of a round.
LEMMA ListUpdated ==
  ASSUME NEW b \in UnifyType, NEW a, Round(a, b),
         NEW form \in SUBSET Over(DOMAIN b.p.master), IsFiniteSet(form)
  PROVE  LET new == WithNew({}, ChasedIn(form, a.replaced))
         IN  /\ new \in SUBSET Over(Variable) /\ IsFiniteSet(new) /\ Cardinality(new) <= Cardinality(form)
             /\ ~SubsRecurse(form, a.replaced) =>
                  /\ new \in SUBSET Over(DOMAIN a.p.master)
                  /\ FormulaAfter(new, a.p.master) \subseteq FormulaAfter(form, b.p.master)
<1> DEFINE M == b.p.master
           D == DOMAIN M
           m1 == a.p.master
           sub == a.replaced
           chain == [v \in DOMAIN sub |-> Chased(v, sub)]
           all == ChasedIn(form, sub)
           new == WithNew({}, all)
<1>1. /\ DOMAIN sub \subseteq D /\ Into(sub, D) /\ \A v \in DOMAIN sub : M[sub[v]] = M[v]
      /\ D \subseteq DOMAIN m1 \cup DOMAIN sub
      /\ DOMAIN m1 \subseteq D /\ \A v \in DOMAIN m1 : m1[v] = M[v]
  BY DEF Round, Keeps
<1>2. D \subseteq Variable
  BY SubstFacts DEF UnifyType, PartType
<1>3. new \subseteq all
  BY WithNewFacts
<1> HIDE DEF M, D, m1, sub, new
<1>4. Into(chain, D)
  <2>1. \A v \in DOMAIN sub : Chased(v, sub) \in D
    BY <1>1, ChasedFacts
  <2> QED  BY <2>1 DEF Into
<1>5. all = FormulaAfter(form, chain)
  BY DEF ChasedIn
<1>6. form \in SUBSET Over(D)
  BY DEF D, M
<1> HIDE DEF all, chain
<1>7. all \in SUBSET Over(D)
  BY <1>4, <1>5, <1>6, PartialAfterType
<1>8. IsFiniteSet(all) /\ Cardinality(all) <= Cardinality(form)
  BY <1>5, FormulaFinite
<1>9. Over(D) \subseteq Over(Variable)
  BY <1>2 DEF Over
<1>10. IsFiniteSet(new) /\ Cardinality(new) <= Cardinality(form)
  <2>1. IsFiniteSet(new) /\ Cardinality(new) <= Cardinality(all)
    BY <1>3, <1>8, FS_Subset
  <2>2. Cardinality(new) \in Nat /\ Cardinality(all) \in Nat /\ Cardinality(form) \in Nat
    BY <1>8, <2>1, FS_CardinalityType
  <2> QED  BY <1>8, <2>1, <2>2
<1>11. ASSUME ~SubsRecurse(form, sub)
       PROVE  new \in SUBSET Over(DOMAIN m1) /\ FormulaAfter(new, m1) \subseteq FormulaAfter(form, M)
  <2> DEFINE E == D \ DOMAIN sub
  <2>1. all \in SUBSET Over(E) /\ FormulaAfter(all, M) = FormulaAfter(form, M)
    <3>1. DOMAIN M = D
      BY DEF D
    <3>2. /\ ChasedIn(form, sub) \in SUBSET Over(DOMAIN M \ DOMAIN sub)
          /\ FormulaAfter(ChasedIn(form, sub), M) = FormulaAfter(form, M)
      <4>1. /\ DOMAIN sub \subseteq DOMAIN M /\ Into(sub, DOMAIN M) /\ form \in SUBSET Over(DOMAIN M)
            /\ \A v \in DOMAIN sub : M[sub[v]] = M[v]
        BY <1>1, <1>6, <3>1
      <4> QED  BY <1>11, <4>1, ChasedFormula
    <3> QED  BY <3>1, <3>2 DEF all
  <2>2. E \subseteq DOMAIN m1 /\ E \subseteq DOMAIN M /\ \A v \in E : m1[v] = M[v]
    BY <1>1 DEF D
  <2> HIDE DEF E
  <2>3. new \in SUBSET Over(E)
    BY <1>3, <2>1
  <2>4. FormulaAfter(new, m1) = FormulaAfter(new, M)
    BY <2>2, <2>3, AgreeAfter
  <2>5. FormulaAfter(new, M) \subseteq FormulaAfter(all, M)
    BY <1>3, FormulaParts
  <2>6. Over(E) \subseteq Over(DOMAIN m1)
    BY <2>2 DEF Over
  <2> QED  BY <2>1, <2>3, <2>4, <2>5, <2>6
<1>12. /\ new \in SUBSET Over(Variable)
       /\ ~SubsRecurse(form, sub) =>
            new \in SUBSET Over(DOMAIN m1) /\ FormulaAfter(new, m1) \subseteq FormulaAfter(form, M)
  BY <1>3, <1>7, <1>9, <1>11
<1> QED  BY <1>10, <1>12 DEF new, all, sub, m1, M

Goals(p) == p.adds \cup p.precs

\* b is the partial method p and the substitution sub, unified here and there.
Fine(b, p, sub) ==
  /\ b \in UnifyType /\ Keeps(b.p, p) /\ Same(b.sub, b.p.master, sub, p.master)
  /\ Goals(b.p) \in SUBSET Over(DOMAIN b.p.master)
  /\ FormulaAfter(Goals(b.p), b.p.master) \subseteq FormulaAfter(Goals(p), p.master)
  /\ IsFiniteSet(b.p.adds) /\ IsFiniteSet(b.p.precs)

LEMMA UpdatedFacts ==
  ASSUME NEW b \in UnifyType, NEW a, Round(a, b), Goals(b.p) \in SUBSET Over(DOMAIN b.p.master),
         IsFiniteSet(b.p.adds), IsFiniteSet(b.p.precs)
  PROVE  /\ Updated(a) \in UnifyType
         /\ ~Updated(a).threw => Fine(Updated(a), b.p, b.sub)
         /\ Cardinality(Updated(a).p.adds) <= Cardinality(b.p.adds)
         /\ Cardinality(Updated(a).p.precs) <= Cardinality(b.p.precs)
         /\ IsFiniteSet(Updated(a).p.adds) /\ IsFiniteSet(Updated(a).p.precs)
<1> DEFINE adds == WithNew({}, ChasedIn(a.p.adds, a.replaced))
           precs == WithNew({}, ChasedIn(a.p.precs, a.replaced))
           q == [a.p EXCEPT !.adds = adds, !.precs = precs]
           threw == a.threw \/ SubsRecurse(a.p.adds \cup a.p.precs, a.replaced)
           u == Updated(a)
<1>1. /\ a \in UnifyType /\ a.p \in PartType /\ Keeps(a.p, b.p) /\ a.p.adds = b.p.adds /\ a.p.precs = b.p.precs
      /\ Same(a.sub, a.p.master, b.sub, b.p.master)
  BY DEF Round, UnifyType
<1>2. u = [a EXCEPT !.p = q, !.threw = threw]
  BY DEF Updated
<1>3. /\ adds \in SUBSET Over(Variable) /\ IsFiniteSet(adds) /\ Cardinality(adds) <= Cardinality(b.p.adds)
      /\ ~SubsRecurse(a.p.adds, a.replaced) =>
           /\ adds \in SUBSET Over(DOMAIN a.p.master)
           /\ FormulaAfter(adds, a.p.master) \subseteq FormulaAfter(b.p.adds, b.p.master)
  BY <1>1, ListUpdated DEF Goals
<1>4. /\ precs \in SUBSET Over(Variable) /\ IsFiniteSet(precs) /\ Cardinality(precs) <= Cardinality(b.p.precs)
      /\ ~SubsRecurse(a.p.precs, a.replaced) =>
           /\ precs \in SUBSET Over(DOMAIN a.p.master)
           /\ FormulaAfter(precs, a.p.master) \subseteq FormulaAfter(b.p.precs, b.p.master)
  BY <1>1, ListUpdated DEF Goals
<1>5. ~threw => ~SubsRecurse(a.p.adds, a.replaced) /\ ~SubsRecurse(a.p.precs, a.replaced)
  BY DEF SubsRecurse
<1>6. threw \in BOOLEAN
  BY <1>1 DEF UnifyType
<1> HIDE DEF adds, precs, threw, u
<1>7. /\ q \in PartType /\ q.adds = adds /\ q.precs = precs /\ q.task = a.p.task /\ q.init = a.p.init
      /\ q.final = a.p.final /\ q.current = a.p.current /\ q.cost = a.p.cost /\ q.taskSub = a.p.taskSub
      /\ q.master = a.p.master /\ q.pieces = a.p.pieces
  <2> DEFINE old == a.p
  <2>1. old \in PartType /\ q = [old EXCEPT !.adds = adds, !.precs = precs]
    BY <1>1
  <2> HIDE DEF old, q
  <2>2. /\ q \in PartType /\ q.adds = adds /\ q.precs = precs /\ q.task = old.task /\ q.init = old.init
        /\ q.final = old.final /\ q.current = old.current /\ q.cost = old.cost /\ q.taskSub = old.taskSub
        /\ q.master = old.master /\ q.pieces = old.pieces
    BY <1>3, <1>4, <2>1 DEF PartType
  <2> QED  BY <2>2 DEF old
<1> HIDE DEF q
<1>8. u \in UnifyType /\ u.p = q /\ u.sub = a.sub /\ u.threw = threw
  BY <1>1, <1>2, <1>6, <1>7 DEF UnifyType
<1>9. Keeps(u.p, b.p)
  BY <1>1, <1>7, <1>8 DEF Keeps
<1>10. ASSUME ~u.threw
       PROVE  Fine(u, b.p, b.sub)
  <2>1. Goals(u.p) = adds \cup precs
    BY <1>7, <1>8 DEF Goals
  <2>2. Goals(u.p) \in SUBSET Over(DOMAIN u.p.master)
    BY <1>3, <1>4, <1>5, <1>7, <1>8, <1>10, <2>1
  <2>3. /\ FormulaAfter(adds, a.p.master) \subseteq FormulaAfter(b.p.adds, b.p.master)
        /\ FormulaAfter(precs, a.p.master) \subseteq FormulaAfter(b.p.precs, b.p.master)
    BY <1>3, <1>4, <1>5, <1>8, <1>10
  <2>4. FormulaAfter(Goals(u.p), u.p.master) \subseteq FormulaAfter(Goals(b.p), b.p.master)
    <3>1. FormulaAfter(Goals(u.p), u.p.master) = FormulaAfter(adds, a.p.master) \cup FormulaAfter(precs, a.p.master)
      BY <1>7, <1>8, <2>1, FormulaParts
    <3>2. FormulaAfter(Goals(b.p), b.p.master) = FormulaAfter(b.p.adds, b.p.master) \cup FormulaAfter(b.p.precs, b.p.master)
      BY FormulaParts DEF Goals
    <3> QED  BY <2>3, <3>1, <3>2
  <2>5. Same(u.sub, u.p.master, b.sub, b.p.master)
    BY <1>1, <1>7, <1>8
  <2> QED  BY <1>3, <1>4, <1>7, <1>8, <1>9, <2>2, <2>4, <2>5 DEF Fine
<1> QED  BY <1>3, <1>4, <1>7, <1>8, <1>10 DEF u

\* An effect that supplies a goal is of variables of its piece, argument by argument.
LEMMA MatchFacts ==
  ASSUME NEW M \in Subst(Object), NEW l \in Over(DOMAIN M), NEW e \in Over(Variable), NEW real,
         LiteralAfter(l, M) = LiteralAfter(e, real)
  PROVE  /\ l.args \in Seq(DOMAIN M) /\ e.args \in Seq(DOMAIN real) /\ Len(e.args) = Len(l.args)
         /\ \A i \in 1..Len(l.args) : M[l.args[i]] = real[e.args[i]]
<1>1. l.args \in Seq(DOMAIN M) /\ e.args \in Seq(Variable)
  BY DEF Over
<1>2. AfterSubstitution(l.args, M) = AfterSubstitution(e.args, real)
  BY LiteralAfterRecord
<1>3. /\ Len(AfterSubstitution(l.args, M)) = Len(l.args)
      /\ \A i \in 1..Len(l.args) : l.args[i] \in DOMAIN M /\ AfterSubstitution(l.args, M)[i] = M[l.args[i]]
  BY <1>1, ArgsAfter
<1>4. /\ Len(AfterSubstitution(e.args, real)) = Len(e.args)
      /\ \A i \in 1..Len(e.args) : e.args[i] \in Variable /\ AfterSubstitution(e.args, real)[i] = Substituted(e.args[i], real)
  BY <1>1 DEF AfterSubstitution
<1>5. Len(e.args) = Len(l.args) /\ Len(l.args) \in Nat
  BY <1>1, <1>2, <1>3, <1>4
<1>6. ASSUME NEW i \in 1..Len(l.args)
      PROVE  e.args[i] \in DOMAIN real /\ M[l.args[i]] = real[e.args[i]]
  <2>1. M[l.args[i]] = Substituted(e.args[i], real) /\ l.args[i] \in DOMAIN M /\ e.args[i] \in Variable
    BY <1>2, <1>3, <1>4, <1>5
  <2>2. M[l.args[i]] \in Object
    BY <2>1, SubstFacts DEF Into
  <2>3. M[l.args[i]] \notin Variable
    BY <2>2, DomainAssumption
  <2> QED  BY <2>1, <2>3 DEF Substituted
<1>7. e.args \in Seq(DOMAIN real)
  BY <1>1, <1>5, <1>6
<1> QED  BY <1>1, <1>5, <1>6, <1>7

\* real are the constants that sub stands for in the partial method p.
StandsFor(sub, p, real) ==
  DOMAIN sub = DOMAIN real /\ \A v \in DOMAIN real : sub[v] \in DOMAIN p.master /\ p.master[sub[v]] = real[v]

LEMMA UnifyOnceFacts ==
  ASSUME NEW p \in PartType, NEW sub, NEW real, StandsFor(sub, p, real), NEW effects \in SUBSET Over(Variable),
         NEW b, Fine(b, p, sub), ~b.threw, Supplying(b, effects, real) # {}
  PROVE  LET u == UnifyOnce(b, effects, real)
         IN  /\ u \in UnifyType
             /\ ~u.threw => Fine(u, p, sub)
             /\ Cardinality(u.p.adds) \in Nat /\ Cardinality(u.p.precs) \in Nat
             /\ Cardinality(u.p.adds) + Cardinality(u.p.precs) < Cardinality(b.p.adds) + Cardinality(b.p.precs)
<1> DEFINE e     == CHOOSE e \in Supplying(b, effects, real) : TRUE
           adds  == SuppliedBy(e, real, b.p.adds, b.p)
           precs == SuppliedBy(e, real, b.p.precs, b.p)
           l     == CHOOSE l \in IF adds # {} THEN adds ELSE precs : TRUE
           left  == IF adds # {} THEN [b.p EXCEPT !.adds = @ \ {l}] ELSE [b.p EXCEPT !.precs = @ \ {l}]
           c     == [b EXCEPT !.p = left]
           a     == Unified(c, e, l)
           u     == UnifyOnce(b, effects, real)
<1>1. u = Updated(a)
  BY DEF UnifyOnce
<1>2. e \in effects /\ (adds # {} \/ precs # {})
  <2>1. e \in Supplying(b, effects, real)
    OBVIOUS
  <2> HIDE DEF e
  <2> QED  BY <2>1 DEF Supplying, Adds, SuppliedBy
<1> HIDE DEF e, u
<1>3. /\ adds # {} => l \in b.p.adds
      /\ adds = {} => l \in b.p.precs
      /\ LiteralAfter(l, b.p.master) = LiteralAfter(e, real)
  <2>1. l \in IF adds # {} THEN adds ELSE precs
    BY <1>2
  <2> HIDE DEF l
  <2> QED  BY <2>1 DEF SuppliedBy
<1> HIDE DEF l
<1>4. /\ b \in UnifyType /\ b.p \in PartType /\ Keeps(b.p, p) /\ Same(b.sub, b.p.master, sub, p.master)
      /\ b.p.adds \cup b.p.precs \in SUBSET Over(DOMAIN b.p.master)
      /\ FormulaAfter(b.p.adds \cup b.p.precs, b.p.master) \subseteq FormulaAfter(Goals(p), p.master)
      /\ IsFiniteSet(b.p.adds) /\ IsFiniteSet(b.p.precs)
  BY DEF Fine, UnifyType, Goals
<1>5. /\ left \in PartType /\ left.adds \subseteq b.p.adds /\ left.precs \subseteq b.p.precs
      /\ left.task = b.p.task /\ left.init = b.p.init /\ left.final = b.p.final /\ left.current = b.p.current
      /\ left.cost = b.p.cost /\ left.taskSub = b.p.taskSub /\ left.master = b.p.master /\ left.pieces = b.p.pieces
      /\ adds # {} => left.adds = b.p.adds \ {l} /\ left.precs = b.p.precs
      /\ adds = {} => left.adds = b.p.adds /\ left.precs = b.p.precs \ {l}
  <2> DEFINE q == b.p
  <2>1. CASE adds # {}
    <3>1. left = [q EXCEPT !.adds = q.adds \ {l}] /\ q \in PartType
      BY <1>4, <2>1
    <3> HIDE DEF q, left, adds
    <3>2. /\ left \in PartType /\ left.adds = q.adds \ {l} /\ left.precs = q.precs
          /\ left.task = q.task /\ left.init = q.init /\ left.final = q.final /\ left.current = q.current
          /\ left.cost = q.cost /\ left.taskSub = q.taskSub /\ left.master = q.master /\ left.pieces = q.pieces
      BY <3>1 DEF PartType
    <3> QED  BY <2>1, <3>2 DEF q
  <2>2. CASE adds = {}
    <3>1. left = [q EXCEPT !.precs = q.precs \ {l}] /\ q \in PartType
      BY <1>4, <2>2
    <3> HIDE DEF q, left, adds
    <3>2. /\ left \in PartType /\ left.adds = q.adds /\ left.precs = q.precs \ {l}
          /\ left.task = q.task /\ left.init = q.init /\ left.final = q.final /\ left.current = q.current
          /\ left.cost = q.cost /\ left.taskSub = q.taskSub /\ left.master = q.master /\ left.pieces = q.pieces
      BY <3>1 DEF PartType
    <3> QED  BY <2>2, <3>2 DEF q
  <2> QED  BY <2>1, <2>2
<1> HIDE DEF left
<1>6. c \in UnifyType /\ c.p = left /\ c.sub = b.sub
  BY <1>4, <1>5 DEF UnifyType
<1> HIDE DEF c, adds, precs
<1>7. Same(c.sub, c.p.master, c.sub, c.p.master)
  BY <1>4, <1>5, <1>6 DEF Same
<1>8. Keeps(c.p, c.p) /\ Keeps(c.p, p)
  <2>1. ASSUME NEW s, NEW t, Same(s, b.p.master, t, p.master)
        PROVE  Same(s, b.p.master, s, b.p.master)
    BY <2>1 DEF Same
  <2>2. Keeps(c.p, p)
    BY <1>4, <1>5, <1>6 DEF Keeps
  <2>3. Same(c.p.taskSub, c.p.master, c.p.taskSub, c.p.master)
    BY <1>4, <1>5, <1>6, <2>1 DEF Keeps
  <2>4. ASSUME NEW i \in 1..Len(c.p.pieces)
        PROVE  Same(c.p.pieces[i].sub, c.p.master, c.p.pieces[i].sub, c.p.master)
    <3>1. Same(b.p.pieces[i].sub, b.p.master, p.pieces[i].sub, p.master)
      BY <1>4, <1>5, <1>6 DEF Keeps
    <3> QED  BY <1>5, <1>6, <2>1, <3>1
  <2> QED  BY <2>2, <2>3, <2>4 DEF Keeps
<1>9. /\ l.args \in Seq(DOMAIN c.p.master) /\ e.args \in Seq(DOMAIN c.sub) /\ Len(e.args) = Len(l.args)
      /\ \A i \in 1..Len(l.args) : c.p.master[l.args[i]] = c.p.master[c.sub[e.args[i]]]
  <2>1. b.p.master \in Subst(Object) /\ l \in Over(DOMAIN b.p.master) /\ e \in Over(Variable)
    BY <1>2, <1>3, <1>4 DEF PartType
  <2>2. /\ l.args \in Seq(DOMAIN b.p.master) /\ e.args \in Seq(DOMAIN real) /\ Len(e.args) = Len(l.args)
        /\ \A i \in 1..Len(l.args) : b.p.master[l.args[i]] = real[e.args[i]]
    BY <1>3, <2>1, MatchFacts
  <2>3. DOMAIN b.sub = DOMAIN real /\ \A v \in DOMAIN real : b.p.master[b.sub[v]] = real[v]
    BY <1>4 DEF Same, StandsFor
  <2>4. \A i \in 1..Len(l.args) : e.args[i] \in DOMAIN real
    BY <2>2
  <2>5. \A i \in 1..Len(l.args) : b.p.master[l.args[i]] = b.p.master[b.sub[e.args[i]]]
    BY <2>2, <2>3, <2>4
  <2> QED  BY <1>5, <1>6, <2>2, <2>3, <2>5
<1>10. Round(a, c)
  BY <1>6, <1>7, <1>8, <1>9, UnifiedFacts
<1> HIDE DEF a
<1>11. Goals(c.p) \in SUBSET Over(DOMAIN c.p.master) /\ Goals(c.p) \subseteq Goals(b.p)
  BY <1>4, <1>5, <1>6 DEF Goals
<1>12. IsFiniteSet(c.p.adds) /\ IsFiniteSet(c.p.precs)
  BY <1>4, <1>5, <1>6, FS_Subset
<1>13. /\ u \in UnifyType
       /\ ~u.threw => Fine(u, c.p, c.sub)
       /\ Cardinality(u.p.adds) <= Cardinality(c.p.adds) /\ Cardinality(u.p.precs) <= Cardinality(c.p.precs)
       /\ IsFiniteSet(u.p.adds) /\ IsFiniteSet(u.p.precs)
  BY <1>1, <1>6, <1>10, <1>11, <1>12, UpdatedFacts
<1>14. Cardinality(c.p.adds) + Cardinality(c.p.precs) < Cardinality(b.p.adds) + Cardinality(b.p.precs)
  <2>1. /\ Cardinality(b.p.adds) \in Nat /\ Cardinality(b.p.precs) \in Nat
        /\ l \in b.p.adds => Cardinality(b.p.adds \ {l}) = Cardinality(b.p.adds) - 1
        /\ l \in b.p.precs => Cardinality(b.p.precs \ {l}) = Cardinality(b.p.precs) - 1
    BY <1>4, FS_CardinalityType, FS_RemoveElement
  <2>2. CASE adds # {}
    <3>1. Cardinality(c.p.adds) = Cardinality(b.p.adds) - 1 /\ Cardinality(c.p.precs) = Cardinality(b.p.precs)
      BY <1>3, <1>5, <1>6, <2>1, <2>2
    <3> QED  BY <2>1, <3>1
  <2>3. CASE adds = {}
    <3>1. Cardinality(c.p.adds) = Cardinality(b.p.adds) /\ Cardinality(c.p.precs) = Cardinality(b.p.precs) - 1
      BY <1>3, <1>5, <1>6, <2>1, <2>3
    <3> QED  BY <2>1, <3>1
  <2> QED  BY <2>2, <2>3
<1>15. /\ Cardinality(u.p.adds) \in Nat /\ Cardinality(u.p.precs) \in Nat
       /\ Cardinality(u.p.adds) + Cardinality(u.p.precs) < Cardinality(b.p.adds) + Cardinality(b.p.precs)
  <2>1. /\ Cardinality(u.p.adds) \in Nat /\ Cardinality(u.p.precs) \in Nat
        /\ Cardinality(c.p.adds) \in Nat /\ Cardinality(c.p.precs) \in Nat
        /\ Cardinality(b.p.adds) \in Nat /\ Cardinality(b.p.precs) \in Nat
    BY <1>4, <1>12, <1>13, FS_CardinalityType
  <2> QED  BY <1>13, <1>14, <2>1
<1>16. ASSUME ~u.threw
       PROVE  Fine(u, p, sub)
  <2>1. /\ Keeps(u.p, c.p) /\ Same(u.sub, u.p.master, c.sub, c.p.master)
        /\ Goals(u.p) \in SUBSET Over(DOMAIN u.p.master)
        /\ FormulaAfter(Goals(u.p), u.p.master) \subseteq FormulaAfter(Goals(c.p), c.p.master)
    BY <1>13, <1>16 DEF Fine
  <2>2. Keeps(u.p, p)
    BY <1>8, <2>1, KeepsTransitive
  <2>3. Same(u.sub, u.p.master, sub, p.master)
    BY <1>4, <1>5, <1>6, <2>1 DEF Same
  <2>4. FormulaAfter(Goals(c.p), c.p.master) \subseteq FormulaAfter(Goals(b.p), b.p.master)
    BY <1>5, <1>6, <1>11, FormulaParts
  <2>5. FormulaAfter(Goals(u.p), u.p.master) \subseteq FormulaAfter(Goals(p), p.master)
    BY <1>4, <2>1, <2>4 DEF Goals
  <2> QED  BY <1>13, <2>1, <2>2, <2>3, <2>5 DEF Fine
<1> QED  BY <1>13, <1>15, <1>16 DEF u

\* When unification ends no effect supplies a goal that is left.
LEMMA UnifyFacts ==
  ASSUME NEW p \in PartType, Keeps(p, p), NEW sub \in Subst(Variable), NEW real, StandsFor(sub, p, real),
         Goals(p) \in SUBSET Over(DOMAIN p.master), IsFiniteSet(p.adds), IsFiniteSet(p.precs),
         NEW effects \in SUBSET Over(Variable)
  PROVE  LET u == Unify(p, effects, real, sub)
         IN  u \in UnifyType /\ (~u.threw => Fine(u, p, sub) /\ Supplying(u, effects, real) = {})
<1> DEFINE c == Cardinality(p.adds) + Cardinality(p.precs)
           Left(b) == Cardinality(b.p.adds) + Cardinality(b.p.precs)
           T == {b \in UnifyType : ~b.threw => Fine(b, p, sub)}
           Next1(b) == UnifyOnce(b, effects, real)
           start == [p |-> p, sub |-> sub, replaced |-> <<>>, threw |-> FALSE]
           step == [q \in (1..c) \X T |-> Next1(q[2])]
           Body(f) == [n \in 0..c |-> IF n = 0 THEN start ELSE Next1(f[n - 1])]
           Done(b) == b.threw \/ Supplying(b, effects, real) = {}
<1>1. c \in Nat
  BY FS_CardinalityType
<1>2. start \in T /\ Left(start) = c
  <2>1. <<>> \in Subst(Variable)
    <3>1. <<>> \in [{} -> Variable]
      OBVIOUS
    <3> QED  BY <3>1 DEF Subst
  <2>2. start \in UnifyType /\ start.p = p /\ start.sub = sub /\ start.threw = FALSE
    BY <2>1 DEF UnifyType
  <2> HIDE DEF start
  <2>3. Same(start.sub, start.p.master, sub, p.master)
    BY <2>2 DEF Same, StandsFor
  <2>4. Fine(start, p, sub)
    BY <2>2, <2>3 DEF Fine
  <2> QED  BY <2>2, <2>4
<1>3. ASSUME NEW b \in T
      PROVE  /\ Next1(b) \in T
             /\ Done(b) => Next1(b) = b
             /\ ~Done(b) => Left(Next1(b)) \in Nat /\ Left(Next1(b)) < Left(b)
  <2>1. CASE Done(b)
    BY <2>1 DEF UnifyOnce
  <2>2. CASE ~Done(b)
    <3>1. ~b.threw /\ Fine(b, p, sub) /\ Supplying(b, effects, real) # {}
      BY <2>2
    <3> DEFINE u == UnifyOnce(b, effects, real)
    <3>2. /\ u \in UnifyType
          /\ ~u.threw => Fine(u, p, sub)
          /\ Cardinality(u.p.adds) \in Nat /\ Cardinality(u.p.precs) \in Nat
          /\ Cardinality(u.p.adds) + Cardinality(u.p.precs) < Cardinality(b.p.adds) + Cardinality(b.p.precs)
      BY <3>1, UnifyOnceFacts
    <3> HIDE DEF u
    <3>3. u \in T /\ Left(u) \in Nat /\ Left(u) < Left(b)
      BY <3>2
    <3> QED  BY <2>2, <3>3 DEF u
  <2> QED  BY <2>1, <2>2
<1>4. ASSUME NEW b \in T, Left(b) <= 0
      PROVE  Done(b)
  <2> SUFFICES ASSUME ~b.threw PROVE Supplying(b, effects, real) = {}
    OBVIOUS
  <2>1. IsFiniteSet(b.p.adds) /\ IsFiniteSet(b.p.precs)
    BY DEF Fine
  <2>2. Cardinality(b.p.adds) \in Nat /\ Cardinality(b.p.precs) \in Nat
    BY <2>1, FS_CardinalityType
  <2>3. Cardinality(b.p.adds) = 0 /\ Cardinality(b.p.precs) = 0
    BY <1>4, <2>2
  <2>4. b.p.adds = {} /\ b.p.precs = {}
    BY <2>1, <2>3, FS_EmptySet
  <2> QED  BY <2>4 DEF Supplying, SuppliedBy
<1> HIDE DEF T, c, start, Next1, Left, Done
<1>5. step \in [(1..c) \X T -> T]
  BY <1>3
<1>6. PICK f \in [0..c -> T] : f[0] = start /\ \A n \in 1..c : f[n] = step[<<n, f[n - 1]>>]
  <2> HIDE DEF step
  <2>1. Iterations(T, start, c, step) # {}
    BY <1>1, <1>2, <1>5, Recursion
  <2> QED  BY <2>1 DEF Iterations
<1>7. ASSUME NEW n \in 1..c
      PROVE  f[n] = Next1(f[n - 1])
  <2>1. n - 1 \in 0..c
    BY <1>1
  <2>2. <<n, f[n - 1]>> \in (1..c) \X T
    BY <2>1
  <2> QED  BY <1>6, <2>2
<1>8. f = Body(f)
  <2>1. f = [n \in 0..c |-> f[n]]
    BY <1>6
  <2>2. \A n \in 0..c : f[n] = IF n = 0 THEN start ELSE Next1(f[n - 1])
    BY <1>1, <1>6, <1>7
  <2> QED  BY <2>1, <2>2
<1> DEFINE after == CHOOSE g : g = Body(g)
<1>9. Unify(p, effects, real, sub) = after[c]
  BY Zenon DEF Unify, c, start, Next1
<1>10. after = Body(after)
  <2>1. \E g : g = Body(g)
    BY <1>8, Zenon
  <2> QED  BY <2>1, Zenon
<1> HIDE DEF after, step
<1>11. after[0] = start /\ \A n \in 1..c : after[n] = Next1(after[n - 1])
  BY <1>1, <1>10
<1> DEFINE S == {n \in Nat : n <= c => after[n] \in T /\ (Done(after[n]) \/ (Left(after[n]) \in Int /\ Left(after[n]) <= c - n))}
<1>12. 0 \in S
  BY <1>1, <1>2, <1>11
<1>13. ASSUME NEW n \in Nat, n \in S
       PROVE  n + 1 \in S
  <2> SUFFICES ASSUME n + 1 <= c
               PROVE  /\ after[n + 1] \in T
                      /\ Done(after[n + 1]) \/ (Left(after[n + 1]) \in Int /\ Left(after[n + 1]) <= c - (n + 1))
    OBVIOUS
  <2>1. n + 1 \in 1..c /\ n + 1 - 1 = n /\ after[n] \in T
    BY <1>1, <1>13
  <2>2. after[n + 1] = Next1(after[n])
    BY <1>11, <2>1
  <2>3. Done(after[n]) \/ (Left(after[n]) \in Int /\ Left(after[n]) <= c - n)
    BY <1>1, <1>13
  <2> QED  BY <1>1, <1>3, <2>1, <2>2, <2>3
<1>14. Nat \subseteq S
  <2> HIDE DEF S
  <2> QED  BY <1>12, <1>13, Induction
<1>15. after[c] \in T /\ Done(after[c])
  <2>1. after[c] \in T /\ (Done(after[c]) \/ Left(after[c]) <= c - c)
    BY <1>1, <1>14
  <2>2. c - c = 0
    BY <1>1
  <2> QED  BY <1>4, <2>1, <2>2
<1> QED  BY <1>9, <1>15 DEF T, Done

----------------------------------------------------------------------------
(* AddOperator and AddMethod                                               *)

GroundGoals(p) == FormulaAfter(Goals(p), p.master)

\* Positive, or an equation.
Positive(form) == \A l \in form : l.pos \/ l.pred = "="

TaskOK(p) ==
  /\ p.task.params \in Seq(DOMAIN p.taskSub) /\ Len(p.task.params) = Arity[p.task.name]
  /\ p.task.precs \in SUBSET Over(DOMAIN p.taskSub) /\ IsFiniteSet(p.task.precs) /\ Positive(p.task.precs)

GoalsOK(p) ==
  /\ Goals(p) \in SUBSET Over(DOMAIN p.master) /\ IsFiniteSet(p.adds) /\ IsFiniteSet(p.precs)
  /\ Positive(GroundGoals(p))

PieceOK(piece, p) ==
  /\ piece.head.args \in Seq(DOMAIN piece.sub) /\ Len(piece.head.args) = Arity[piece.head.name]
  /\ p.init <= piece.before /\ piece.before < piece.after /\ piece.after <= p.final

PartOK(p, n) ==
  /\ p \in PartType /\ Keeps(p, p)
  /\ DOMAIN p.master \subseteq Names(0, n) /\ IsFiniteSet(DOMAIN p.master)
  /\ TaskOK(p) /\ GoalsOK(p)
  /\ \A i \in 1..Len(p.pieces) : PieceOK(p.pieces[i], p)
  /\ p.init <= p.current /\ p.current <= p.final

\* q is p with more variables and pieces.
Follows(q, p) ==
  /\ q.task = p.task /\ q.init = p.init /\ q.final = p.final
  /\ Same(q.taskSub, q.master, p.taskSub, p.master)
  /\ Len(p.pieces) <= Len(q.pieces)
  /\ \A i \in 1..Len(p.pieces) :
       /\ q.pieces[i].head = p.pieces[i].head /\ q.pieces[i].effects = p.pieces[i].effects
       /\ q.pieces[i].before = p.pieces[i].before /\ q.pieces[i].after = p.pieces[i].after
       /\ Same(q.pieces[i].sub, q.master, p.pieces[i].sub, p.master)

LEMMA KeepsFollows ==
  ASSUME NEW p \in PartType, NEW q \in PartType, Keeps(q, p)
  PROVE  Follows(q, p) /\ Keeps(q, q)
<1>1. ASSUME NEW s, NEW t, Same(s, q.master, t, p.master)
      PROVE  Same(s, q.master, s, q.master)
  BY <1>1 DEF Same
<1>2. Len(p.pieces) \in Nat
  BY DEF PartType
<1>3. Follows(q, p)
  BY <1>2 DEF Keeps, Follows
<1>4. Same(q.taskSub, q.master, q.taskSub, q.master)
  BY <1>1 DEF Keeps
<1>5. \A i \in 1..Len(q.pieces) : Same(q.pieces[i].sub, q.master, q.pieces[i].sub, q.master)
  BY <1>1 DEF Keeps
<1> QED  BY <1>3, <1>4, <1>5 DEF Keeps

LEMMA FollowsTransitive ==
  ASSUME NEW p \in PartType, NEW q \in PartType, NEW r \in PartType, Follows(q, p), Follows(r, q)
  PROVE  Follows(r, p)
<1>1. ASSUME NEW s, NEW t, NEW u, Same(s, r.master, t, q.master), Same(t, q.master, u, p.master)
      PROVE  Same(s, r.master, u, p.master)
  BY <1>1, Zenon DEF Same
<1>2. Len(p.pieces) \in Nat /\ Len(q.pieces) \in Nat /\ Len(r.pieces) \in Nat
  BY DEF PartType
<1>3. Len(p.pieces) <= Len(q.pieces) /\ Len(q.pieces) <= Len(r.pieces)
  BY DEF Follows
<1>4. Same(r.taskSub, r.master, p.taskSub, p.master)
  BY <1>1, Zenon DEF Follows
<1>5. ASSUME NEW i \in 1..Len(p.pieces)
      PROVE  /\ r.pieces[i].head = p.pieces[i].head /\ r.pieces[i].effects = p.pieces[i].effects
             /\ r.pieces[i].before = p.pieces[i].before /\ r.pieces[i].after = p.pieces[i].after
             /\ Same(r.pieces[i].sub, r.master, p.pieces[i].sub, p.master)
  <2>1. i \in 1..Len(q.pieces)
    BY <1>2, <1>3
  <2> QED  BY <1>1, <2>1, Zenon DEF Follows
<1>6. r.task = p.task /\ r.init = p.init /\ r.final = p.final
  BY DEF Follows
<1>7. Len(p.pieces) <= Len(r.pieces)
  BY <1>2, <1>3
<1> QED  BY <1>4, <1>5, <1>6, <1>7, Zenon DEF Follows

\* What unification leaves is a partial method again.
LEMMA PartUnified ==
  ASSUME NEW p, NEW n, PartOK(p, n), NEW sub, NEW b, Fine(b, p, sub)
  PROVE  PartOK(b.p, n) /\ Follows(b.p, p) /\ b.p.current = p.current /\ b.p.cost = p.cost
         /\ Len(b.p.pieces) = Len(p.pieces)
<1> DEFINE q == b.p
<1>1. /\ p \in PartType /\ q \in PartType /\ Keeps(q, p)
      /\ Goals(q) \in SUBSET Over(DOMAIN q.master) /\ GroundGoals(q) \subseteq GroundGoals(p)
      /\ IsFiniteSet(q.adds) /\ IsFiniteSet(q.precs)
  BY DEF Fine, UnifyType, PartOK, GroundGoals
<1> HIDE DEF q
<1>2. Follows(q, p) /\ Keeps(q, q)
  BY <1>1, KeepsFollows
<1>3. DOMAIN q.master \subseteq Names(0, n) /\ IsFiniteSet(DOMAIN q.master)
  BY <1>1, FS_Subset DEF PartOK, Keeps
<1>4. TaskOK(q)
  BY <1>1 DEF PartOK, TaskOK, Keeps, Same
<1>5. GoalsOK(q)
  BY <1>1 DEF PartOK, GoalsOK, Positive
<1>6. ASSUME NEW i \in 1..Len(q.pieces)
      PROVE  PieceOK(q.pieces[i], q)
  <2>1. i \in 1..Len(p.pieces) /\ PieceOK(p.pieces[i], p)
    BY <1>1 DEF PartOK, Keeps
  <2>2. /\ q.pieces[i].head = p.pieces[i].head
        /\ q.pieces[i].before = p.pieces[i].before /\ q.pieces[i].after = p.pieces[i].after
        /\ DOMAIN q.pieces[i].sub = DOMAIN p.pieces[i].sub
    BY <1>1, <2>1 DEF Keeps, Same
  <2>3. q.init = p.init /\ q.final = p.final
    BY <1>1 DEF Keeps
  <2> QED  BY <2>1, <2>2, <2>3 DEF PieceOK
<1>7. q.init <= q.current /\ q.current <= q.final /\ q.current = p.current /\ q.cost = p.cost
      /\ Len(q.pieces) = Len(p.pieces)
  BY <1>1 DEF PartOK, Keeps
<1> QED  BY <1>1, <1>2, <1>3, <1>4, <1>5, <1>6, <1>7 DEF PartOK, q

\* Variables are made for the constants real of an operator or a method.
LEMMA PartWithVars ==
  ASSUME FreshNames, NEW n \in Nat, NEW k1 \in Nat, n <= k1, NEW p, PartOK(p, n),
         NEW real \in Subst(Object), IsFiniteSet(DOMAIN real), NEW sub, DOMAIN sub = DOMAIN real,
         Into(sub, Names(0, k1)),
         \A x, y \in DOMAIN real : sub[x] = sub[y] => real[x] = real[y],
         \A x \in DOMAIN real : sub[x] \in DOMAIN p.master => p.master[sub[x]] = real[x]
  PROVE  LET q == WithVars(p, real, sub)
         IN  /\ PartOK(q, k1) /\ StandsFor(sub, q, real) /\ Follows(q, p) /\ GroundGoals(q) = GroundGoals(p)
             /\ q.current = p.current /\ q.cost = p.cost /\ Len(q.pieces) = Len(p.pieces)
             /\ DOMAIN p.master \subseteq DOMAIN q.master
             /\ \A v \in DOMAIN p.master : q.master[v] = p.master[v]
<1> DEFINE new == [v \in Range(sub) |-> real[CHOOSE x \in DOMAIN sub : sub[x] = v]]
           m1 == Joint(new, p.master)
           q == WithVars(p, real, sub)
<1>1. /\ p \in PartType /\ p.master \in Subst(Object) /\ Keeps(p, p) /\ TaskOK(p) /\ GoalsOK(p)
      /\ DOMAIN p.master \subseteq Names(0, n) /\ IsFiniteSet(DOMAIN p.master)
  BY DEF PartOK, PartType
<1>2. \A x \in DOMAIN real : sub[x] \in Range(sub)
  BY DEF Range
<1>3. ASSUME NEW x \in DOMAIN real
      PROVE  new[sub[x]] = real[x]
  <2> DEFINE y == CHOOSE y \in DOMAIN sub : sub[y] = sub[x]
  <2>1. y \in DOMAIN sub /\ sub[y] = sub[x]
    OBVIOUS
  <2>2. new[sub[x]] = real[y]
    BY <1>2
  <2> HIDE DEF y
  <2> QED  BY <2>1, <2>2
<1>4. DOMAIN m1 = Range(sub) \cup DOMAIN p.master
      /\ \A v \in DOMAIN m1 : m1[v] = IF v \in Range(sub) THEN new[v] ELSE p.master[v]
  BY DEF Joint
<1>5. \A v \in Range(sub) : \E x \in DOMAIN real : v = sub[x]
  BY DEF Range
<1>6. m1 = [v \in DOMAIN m1 |-> m1[v]]
  BY DEF Joint
<1> HIDE DEF new, m1
<1>7. \A v \in DOMAIN p.master : m1[v] = p.master[v]
  BY <1>3, <1>4, <1>5
<1>8. \A x \in DOMAIN real : sub[x] \in DOMAIN m1 /\ m1[sub[x]] = real[x]
  BY <1>2, <1>3, <1>4
<1>9. Names(0, k1) \subseteq Variable /\ Names(0, n) \subseteq Names(0, k1)
  <2>1. 0 \in Nat
    OBVIOUS
  <2> QED  BY <2>1, NamesFacts
<1>10. DOMAIN m1 \subseteq Names(0, k1)
  BY <1>1, <1>4, <1>5, <1>9 DEF Into
<1>11. m1 \in Subst(Object)
  <2>1. Into(m1, Object)
    <3>1. Into(real, Object) /\ Into(p.master, Object)
      BY <1>1, SubstFacts
    <3>2. \A v \in DOMAIN m1 : m1[v] \in Object
      BY <1>4, <1>5, <1>7, <1>8, <3>1 DEF Into
    <3> QED  BY <3>2 DEF Into
  <2> QED  BY <1>6, <1>9, <1>10, <2>1, SubstFacts
<1>12. IsFiniteSet(DOMAIN m1)
  <2> DEFINE f == [x \in DOMAIN real |-> sub[x]]
  <2>2. f \in [DOMAIN real -> Range(sub)] /\ Range(sub) = {f[x] : x \in DOMAIN real}
    BY DEF Range
  <2> HIDE DEF f
  <2>3. IsFiniteSet(Range(sub))
    BY <2>2, FiniteImage
  <2>4. IsFiniteSet(Range(sub) \cup DOMAIN p.master)
    BY <1>1, <2>3, FS_Union
  <2> QED  BY <1>4, <2>4
<1>13. /\ q \in PartType /\ q.master = m1 /\ q.task = p.task /\ q.taskSub = p.taskSub /\ q.adds = p.adds
       /\ q.precs = p.precs /\ q.pieces = p.pieces /\ q.init = p.init /\ q.final = p.final
       /\ q.current = p.current /\ q.cost = p.cost
  <2>1. q = [p EXCEPT !.master = m1]
    BY DEF WithVars, m1, new
  <2> HIDE DEF q
  <2> QED  BY <1>1, <1>11, <2>1 DEF PartType
<1> HIDE DEF q
<1>14. ASSUME NEW s, NEW t, Same(s, p.master, t, p.master)
       PROVE  Same(s, q.master, s, q.master) /\ Same(s, q.master, t, p.master)
  BY <1>4, <1>7, <1>13, <1>14 DEF Same
<1>15. Len(p.pieces) \in Nat
  BY <1>1 DEF PartType
<1>16. Keeps(q, q)
  BY <1>1, <1>13, <1>14 DEF Keeps
<1>17. Follows(q, p)
  BY <1>1, <1>13, <1>14, <1>15 DEF Keeps, Follows
<1>18. StandsFor(sub, q, real)
  BY <1>8, <1>13 DEF StandsFor
<1>19. GroundGoals(q) = GroundGoals(p) /\ Goals(q) = Goals(p) /\ Goals(q) \in SUBSET Over(DOMAIN q.master)
  <2>1. Goals(q) = Goals(p) /\ Goals(p) \in SUBSET Over(DOMAIN p.master)
    BY <1>1, <1>13 DEF GoalsOK, Goals
  <2>2. DOMAIN p.master \subseteq DOMAIN q.master /\ \A v \in DOMAIN p.master : q.master[v] = p.master[v]
    BY <1>4, <1>7, <1>13
  <2>3. FormulaAfter(Goals(p), q.master) = FormulaAfter(Goals(p), p.master)
    BY <2>1, <2>2, AgreeAfter
  <2>4. Over(DOMAIN p.master) \subseteq Over(DOMAIN q.master)
    BY <2>2 DEF Over
  <2> QED  BY <2>1, <2>3, <2>4 DEF GroundGoals
<1>20. GoalsOK(q)
  BY <1>1, <1>13, <1>19 DEF GoalsOK
<1>21. TaskOK(q)
  BY <1>1, <1>13 DEF TaskOK
<1>22. \A i \in 1..Len(q.pieces) : PieceOK(q.pieces[i], q)
  BY <1>13 DEF PartOK, PieceOK
<1>23. q.init <= q.current /\ q.current <= q.final
  BY <1>13 DEF PartOK
<1>24. PartOK(q, k1)
  BY <1>10, <1>12, <1>13, <1>16, <1>20, <1>21, <1>22, <1>23 DEF PartOK
<1> QED  BY <1>4, <1>7, <1>13, <1>17, <1>18, <1>19, <1>24 DEF q

\* Goals that are struck out.
LEMMA PartStruck ==
  ASSUME NEW p, NEW n, PartOK(p, n), NEW effects, NEW sub
  PROVE  LET q == Strike(p, effects, sub)
         IN  /\ PartOK(q, n) /\ Follows(q, p) /\ q.master = p.master
             /\ Goals(q) = Goals(p) \ FormulaAfter(Adds(effects), sub)
             /\ q.current = p.current /\ q.cost = p.cost /\ Len(q.pieces) = Len(p.pieces)
<1> DEFINE gone == FormulaAfter(Adds(effects), sub)
           q == Strike(p, effects, sub)
<1>1. q = [p EXCEPT !.adds = @ \ gone, !.precs = @ \ gone]
  BY DEF Strike
<1>2. /\ p \in PartType /\ Keeps(p, p) /\ TaskOK(p) /\ GoalsOK(p)
  BY DEF PartOK
<1> HIDE DEF q, gone
<1>3. /\ q \in PartType /\ q.adds = p.adds \ gone /\ q.precs = p.precs \ gone
      /\ q.master = p.master /\ q.task = p.task /\ q.taskSub = p.taskSub /\ q.pieces = p.pieces
      /\ q.init = p.init /\ q.final = p.final /\ q.current = p.current /\ q.cost = p.cost
  BY <1>1, <1>2 DEF PartType
<1>4. Goals(q) = Goals(p) \ gone
  BY <1>3 DEF Goals
<1>5. Keeps(q, q) /\ Follows(q, p)
  <2>1. Keeps(q, p)
    BY <1>2, <1>3 DEF Keeps
  <2> QED  BY <1>2, <1>3, <2>1, KeepsFollows
<1>6. GoalsOK(q)
  <2>1. GroundGoals(q) \subseteq GroundGoals(p)
    BY <1>3, <1>4, FormulaParts DEF GroundGoals
  <2>2. IsFiniteSet(q.adds) /\ IsFiniteSet(q.precs)
    BY <1>2, <1>3, FS_Subset DEF GoalsOK
  <2> QED  BY <1>2, <1>3, <1>4, <2>1, <2>2 DEF GoalsOK, Positive
<1>7. TaskOK(q)
  BY <1>2, <1>3 DEF TaskOK
<1>8. PartOK(q, n)
  BY <1>3, <1>5, <1>6, <1>7 DEF PartOK, PieceOK
<1> QED  BY <1>3, <1>4, <1>5, <1>8 DEF q, gone

\* What stands for the same constants, as a formula.
LEMMA StandsForFormula ==
  ASSUME NEW p, NEW sub, NEW real \in Subst(Object), StandsFor(sub, p, real), NEW form \in SUBSET Over(DOMAIN real)
  PROVE  /\ FormulaAfter(form, sub) \in SUBSET Over(DOMAIN p.master)
         /\ FormulaAfter(FormulaAfter(form, sub), p.master) = FormulaAfter(form, real)
<1>1. DOMAIN sub = DOMAIN real /\ Into(sub, DOMAIN p.master) /\ form \in SUBSET Over(DOMAIN sub)
  BY DEF StandsFor, Into
<1>2. Composed(sub, p.master) = real
  <2>1. real = [v \in DOMAIN real |-> real[v]]
    BY SubstFacts
  <2>2. \A v \in DOMAIN real : p.master[sub[v]] = real[v]
    BY DEF StandsFor
  <2> QED  BY <1>1, <2>1, <2>2 DEF Composed
<1>3. FormulaAfter(FormulaAfter(form, sub), p.master) = FormulaAfter(form, Composed(sub, p.master))
  BY <1>1, FormulaComposed
<1>4. FormulaAfter(form, sub) \in SUBSET Over(DOMAIN p.master)
  BY <1>1, FormulaAfterType
<1> QED  BY <1>2, <1>3, <1>4

LEMMA PositiveAfter ==
  ASSUME NEW S, NEW form \in SUBSET Over(S), NEW sub
  PROVE  Positive(FormulaAfter(form, sub)) <=> Positive(form)
<1>1. \A l \in form : LiteralAfter(l, sub).pos = l.pos /\ LiteralAfter(l, sub).pred = l.pred
  BY LiteralAfterRecord
<1> QED  BY <1>1 DEF Positive, FormulaAfter

\* What is called: its variables are among those of real.
CallOK(head, precs, effects, real) ==
  /\ real \in Subst(Object) /\ IsFiniteSet(DOMAIN real)
  /\ head \in HeadType /\ head.args \in Seq(DOMAIN real) /\ Len(head.args) = Arity[head.name]
  /\ precs \in SUBSET Over(DOMAIN real) /\ IsFiniteSet(precs) /\ Positive(precs)
  /\ effects \in SUBSET Over(Variable)

\* q is p with a piece more.
WithCall(q, p, head, precs, effects, real, before, cost) ==
  /\ Follows(q, p) /\ q.current = before /\ q.cost = p.cost + cost /\ Len(q.pieces) = Len(p.pieces) + 1
  /\ q.pieces[Len(q.pieces)].head = head /\ q.pieces[Len(q.pieces)].effects = effects
  /\ q.pieces[Len(q.pieces)].before = before /\ q.pieces[Len(q.pieces)].after = p.current
  /\ StandsFor(q.pieces[Len(q.pieces)].sub, q, real)
  /\ GroundGoals(q) \subseteq GroundGoals(p) \cup FormulaAfter(precs, real)

LEMMA PartWithPiece ==
  ASSUME NEW p, NEW n, PartOK(p, n), NEW head, NEW precs, NEW effects, NEW real, CallOK(head, precs, effects, real),
         NEW sub \in Subst(Variable), StandsFor(sub, p, real),
         NEW before \in Nat, p.init <= before, before < p.current, NEW cost \in Nat
  PROVE  LET q == WithPiece(p, head, precs, effects, sub, before, cost)
         IN  PartOK(q, n) /\ WithCall(q, p, head, precs, effects, real, before, cost) /\ q.master = p.master
<1> DEFINE q == WithPiece(p, head, precs, effects, sub, before, cost)
           more == FormulaAfter(precs, sub)
           piece == PieceOf(head, effects, sub, before, p.current)
           len == Len(p.pieces)
<1>1. /\ p \in PartType /\ Keeps(p, p) /\ TaskOK(p) /\ GoalsOK(p) /\ p.pieces \in Seq(PieceType)
      /\ p.current \in Nat /\ p.cost \in Nat /\ len \in Nat
  BY DEF PartOK, PartType
<1>2. more \in SUBSET Over(DOMAIN p.master) /\ FormulaAfter(more, p.master) = FormulaAfter(precs, real)
  BY StandsForFormula DEF CallOK
<1>3. /\ piece \in PieceType /\ piece.head = head /\ piece.effects = effects /\ piece.sub = sub
      /\ piece.before = before /\ piece.after = p.current
  BY <1>1 DEF PieceOf, PieceType, CallOK
<1>4. DOMAIN p.master \subseteq Variable
  <2>1. p.master \in Subst(Object)
    BY <1>1 DEF PartType
  <2> QED  BY <2>1, SubstFacts
<1> HIDE DEF piece, more
<1>5. WithNew(p.precs, more) \subseteq p.precs \cup more
  BY WithNewFacts
<1>6. WithNew(p.precs, more) \in SUBSET Over(Variable)
  <2>1. Over(DOMAIN p.master) \subseteq Over(Variable)
    BY <1>4 DEF Over
  <2>2. p.precs \in SUBSET Over(Variable)
    BY <1>1 DEF PartType
  <2> QED  BY <1>2, <1>5, <2>1, <2>2
<1>7. /\ Append(p.pieces, piece) \in Seq(PieceType) /\ Len(Append(p.pieces, piece)) = len + 1
      /\ Append(p.pieces, piece)[len + 1] = piece
      /\ \A i \in 1..len : Append(p.pieces, piece)[i] = p.pieces[i]
  BY <1>1, <1>3
<1>8. q = [p EXCEPT !.precs = WithNew(@, more), !.pieces = Append(@, piece), !.current = before, !.cost = @ + cost]
  BY DEF WithPiece, more, piece
<1> HIDE DEF q, len
<1>9. /\ q \in PartType /\ q.precs = WithNew(p.precs, more) /\ q.pieces = Append(p.pieces, piece)
      /\ q.current = before /\ q.cost = p.cost + cost /\ q.adds = p.adds
      /\ q.master = p.master /\ q.task = p.task /\ q.taskSub = p.taskSub /\ q.init = p.init /\ q.final = p.final
  <2> DEFINE newPrecs == WithNew(p.precs, more)
             newPieces == Append(p.pieces, piece)
             newCost == p.cost + cost
  <2>1. newPrecs \in SUBSET Over(Variable) /\ newPieces \in Seq(PieceType) /\ newCost \in Nat /\ before \in Nat
    BY <1>1, <1>6, <1>7
  <2>2. q = [p EXCEPT !.precs = newPrecs, !.pieces = newPieces, !.current = before, !.cost = newCost]
    BY <1>8
  <2> HIDE DEF newPrecs, newPieces, newCost
  <2>3. /\ q \in PartType /\ q.precs = newPrecs /\ q.pieces = newPieces
        /\ q.current = before /\ q.cost = newCost /\ q.adds = p.adds
        /\ q.master = p.master /\ q.task = p.task /\ q.taskSub = p.taskSub /\ q.init = p.init /\ q.final = p.final
    BY <1>1, <2>1, <2>2 DEF PartType
  <2> QED  BY <2>3 DEF newPrecs, newPieces, newCost
<1>10. Goals(q) \subseteq Goals(p) \cup more
  BY <1>5, <1>9 DEF Goals
<1>11. GroundGoals(q) \subseteq GroundGoals(p) \cup FormulaAfter(precs, real)
  <2>1. FormulaAfter(Goals(q), p.master) \subseteq FormulaAfter(Goals(p) \cup more, p.master)
    BY <1>10, FormulaParts
  <2>2. FormulaAfter(Goals(p) \cup more, p.master) = GroundGoals(p) \cup FormulaAfter(precs, real)
    BY <1>2, FormulaParts DEF GroundGoals
  <2> QED  BY <1>9, <2>1, <2>2 DEF GroundGoals
<1>12. Positive(FormulaAfter(precs, real))
  BY PositiveAfter DEF CallOK
<1>13. GoalsOK(q)
  <2>1. Goals(q) \in SUBSET Over(DOMAIN q.master)
    BY <1>1, <1>2, <1>9, <1>10 DEF GoalsOK
  <2>2. IsFiniteSet(q.precs)
    <3>1. IsFiniteSet(more)
      BY FormulaFinite DEF more, CallOK
    <3>2. IsFiniteSet(p.precs)
      BY <1>1 DEF GoalsOK
    <3>3. IsFiniteSet(p.precs \cup more)
      BY <3>1, <3>2, FS_Union
    <3> QED  BY <1>5, <1>9, <3>3, FS_Subset
  <2>3. Positive(GroundGoals(q))
    BY <1>1, <1>11, <1>12 DEF GoalsOK, Positive
  <2> QED  BY <1>1, <1>9, <2>1, <2>2, <2>3 DEF GoalsOK
<1>14. Same(sub, q.master, sub, q.master) /\ StandsFor(sub, q, real)
  BY <1>9 DEF StandsFor, Same
<1>15. ASSUME NEW i \in 1..Len(q.pieces)
       PROVE  PieceOK(q.pieces[i], q) /\ Same(q.pieces[i].sub, q.master, q.pieces[i].sub, q.master)
  <2>1. i \in 1..len \/ i = len + 1
    BY <1>1, <1>7, <1>9
  <2>2. CASE i \in 1..len
    <3>1. q.pieces[i] = p.pieces[i] /\ PieceOK(p.pieces[i], p)
      BY <1>7, <1>9, <2>2 DEF PartOK, len
    <3>2. Same(p.pieces[i].sub, p.master, p.pieces[i].sub, p.master)
      BY <1>1, <2>2 DEF Keeps, len
    <3> QED  BY <1>9, <3>1, <3>2 DEF PieceOK
  <2>3. CASE i = len + 1
    <3>1. q.pieces[i] = piece
      BY <1>7, <1>9, <2>3
    <3>2. p.current <= p.final /\ DOMAIN sub = DOMAIN real
      BY DEF PartOK, StandsFor
    <3> QED  BY <1>3, <1>9, <1>14, <3>1, <3>2 DEF PieceOK, CallOK
  <2> QED  BY <2>1, <2>2, <2>3
<1>16. Keeps(q, q)
  <2>1. Same(q.taskSub, q.master, q.taskSub, q.master)
    BY <1>1, <1>9 DEF Keeps
  <2> QED  BY <1>15, <2>1 DEF Keeps
<1>17. Follows(q, p)
  <2>1. Same(q.taskSub, q.master, p.taskSub, p.master)
    BY <1>1, <1>9 DEF Keeps
  <2>2. \A i \in 1..Len(p.pieces) : Same(q.pieces[i].sub, q.master, p.pieces[i].sub, p.master)
    BY <1>1, <1>7, <1>9 DEF Keeps, len
  <2>3. Len(p.pieces) <= Len(q.pieces)
    BY <1>1, <1>7, <1>9 DEF len
  <2>4. \A i \in 1..Len(p.pieces) : q.pieces[i] = p.pieces[i]
    BY <1>7, <1>9 DEF len
  <2> QED  BY <1>9, <2>1, <2>2, <2>3, <2>4 DEF Follows
<1>18. /\ q.init <= q.current /\ q.current <= q.final /\ TaskOK(q)
       /\ DOMAIN q.master \subseteq Names(0, n) /\ IsFiniteSet(DOMAIN q.master)
  <2>1. p.current <= p.final /\ p.final \in Nat /\ p.init \in Nat
    BY DEF PartOK, PartType
  <2>2. TaskOK(q)
    BY <1>1, <1>9 DEF TaskOK
  <2> QED  BY <1>1, <1>9, <2>1, <2>2 DEF PartOK
<1>19. PartOK(q, n)
  BY <1>9, <1>13, <1>15, <1>16, <1>18 DEF PartOK
<1>20. WithCall(q, p, head, precs, effects, real, before, cost)
  <2>1. Len(q.pieces) = len + 1 /\ q.pieces[len + 1] = piece
    BY <1>7, <1>9
  <2> QED  BY <1>3, <1>9, <1>11, <1>14, <1>17, <2>1 DEF WithCall, len
<1> QED  BY <1>9, <1>19, <1>20 DEF q

LEMMA CallAfter ==
  ASSUME NEW p \in PartType, NEW q \in PartType, NEW r \in PartType, Follows(q, p), q.current = p.current,
         q.cost = p.cost, Len(q.pieces) = Len(p.pieces), GroundGoals(q) \subseteq GroundGoals(p),
         NEW head, NEW precs, NEW effects, NEW real, NEW before, NEW cost,
         WithCall(r, q, head, precs, effects, real, before, cost)
  PROVE  WithCall(r, p, head, precs, effects, real, before, cost)
<1>1. Follows(r, p)
  BY FollowsTransitive DEF WithCall
<1> QED  BY <1>1 DEF WithCall

\* Formulas that are one after an injective substitution are one.
LEMMA InjectiveAfter ==
  ASSUME NEW M, IsInjective(M), NEW k1 \in Over(DOMAIN M), NEW k2 \in Over(DOMAIN M),
         LiteralAfter(k1, M) = LiteralAfter(k2, M)
  PROVE  k1 = k2
<1>1. /\ k1 = [pos |-> k1.pos, pred |-> k1.pred, args |-> k1.args] /\ k1.args \in Seq(DOMAIN M)
      /\ k2 = [pos |-> k2.pos, pred |-> k2.pred, args |-> k2.args] /\ k2.args \in Seq(DOMAIN M)
  BY DEF Over
<1>2. /\ k1.pos = k2.pos /\ k1.pred = k2.pred
      /\ AfterSubstitution(k1.args, M) = AfterSubstitution(k2.args, M)
  BY LiteralAfterRecord
<1>3. /\ Len(AfterSubstitution(k1.args, M)) = Len(k1.args)
      /\ \A i \in 1..Len(k1.args) : k1.args[i] \in DOMAIN M /\ AfterSubstitution(k1.args, M)[i] = M[k1.args[i]]
      /\ Len(AfterSubstitution(k2.args, M)) = Len(k2.args)
      /\ \A i \in 1..Len(k2.args) : k2.args[i] \in DOMAIN M /\ AfterSubstitution(k2.args, M)[i] = M[k2.args[i]]
  BY <1>1, ArgsAfter
<1>4. Len(k1.args) = Len(k2.args) /\ \A i \in 1..Len(k1.args) : k1.args[i] = k2.args[i]
  BY <1>2, <1>3 DEF IsInjective
<1>5. k1.args = k2.args
  BY <1>1, <1>4
<1> QED  BY <1>1, <1>2, <1>5

\* With --partial_generalization.
LEMMA GeneralizedPiece ==
  ASSUME FreshNames, NEW n \in Nat, NEW p, PartOK(p, n),
         NEW head, NEW precs, NEW effects, NEW real, CallOK(head, precs, effects, real),
         NEW before \in Nat, p.init <= before, before < p.current, NEW cost \in Nat,
         NEW known \in Representatives(p, real)
  PROVE  LET sub == NewVarsForConstants(real, known, n)
             q   == WithPiece(Strike(WithVars(p, real, sub), effects, sub), head, precs, effects, sub, before, cost)
             n2  == n + Cardinality(Range(real) \ DOMAIN known)
         IN  /\ n2 \in Nat /\ n <= n2 /\ PartOK(q, n2)
             /\ WithCall(q, p, head, precs, effects, real, before, cost)
             /\ IsInjective(q.master) => IsInjective(p.master)
             /\ IsInjective(q.master) /\ effects \in SUBSET Over(DOMAIN real) =>
                  GroundGoals(q) \subseteq (GroundGoals(p) \ FormulaAfter(Adds(effects), real)) \cup FormulaAfter(precs, real)
<1> DEFINE vs  == Range(real) \ DOMAIN known
           new == NewVars(vs, n)
           sub == NewVarsForConstants(real, known, n)
           p1  == WithVars(p, real, sub)
           p2  == Strike(p1, effects, sub)
           q   == WithPiece(p2, head, precs, effects, sub, before, cost)
           n2  == n + Cardinality(Range(real) \ DOMAIN known)
<1>1. real \in Subst(Object) /\ IsFiniteSet(DOMAIN real) /\ \A x \in DOMAIN real : real[x] \in Range(real)
  BY DEF CallOK, Range
<1>2. IsFiniteSet(vs)
  <2> DEFINE f == [x \in DOMAIN real |-> real[x]]
  <2>1. f \in [DOMAIN real -> Range(real)] /\ Range(real) = {f[x] : x \in DOMAIN real}
    BY DEF Range
  <2> HIDE DEF f
  <2>2. IsFiniteSet(Range(real))
    BY <1>1, <2>1, FiniteImage
  <2> QED  BY <2>2, FS_Subset
<1>3. /\ Cardinality(vs) \in Nat /\ DOMAIN new = vs /\ Into(new, Names(n, n + Cardinality(vs))) /\ IsInjective(new)
  BY <1>2, NewVarsFacts
<1>4. n2 \in Nat /\ n <= n2 /\ Into(new, Names(n, n2))
  BY <1>3
<1>5. /\ \A c \in DOMAIN known : known[c] \in DOMAIN p.master /\ p.master[known[c]] = c
      /\ DOMAIN p.master \subseteq Names(0, n)
  BY DEF Representatives, PartOK
<1>6. Names(0, n) \cap Names(n, n2) = {} /\ Names(0, n) \subseteq Names(0, n2) /\ Names(n, n2) \subseteq Names(0, n2)
      /\ Names(0, n2) \subseteq Variable
  <2>1. 0 \in Nat /\ 0 <= n
    OBVIOUS
  <2> HIDE DEF n2
  <2>2. Names(0, n2) \subseteq Variable
    BY <1>4, <2>1, NamesFacts
  <2>3. Names(0, n) \subseteq Names(0, n2) /\ Names(0, n) \cap Names(n, n2) = {}
    BY <1>4, <2>1, NamesFacts
  <2>4. Names(n, n2) \subseteq Names(0, n2)
    BY <1>4, <2>1, NamesFacts
  <2> QED  BY <2>2, <2>3, <2>4
<1> HIDE DEF vs, new, n2
<1>7. /\ DOMAIN sub = DOMAIN real
      /\ \A x \in DOMAIN real : sub[x] = IF real[x] \in DOMAIN known THEN known[real[x]] ELSE new[real[x]]
      /\ sub = [x \in DOMAIN real |-> sub[x]]
  BY DEF NewVarsForConstants, new, vs
<1> HIDE DEF sub
<1>8. \A x \in DOMAIN real : real[x] \in DOMAIN known \/ real[x] \in DOMAIN new
  BY <1>1, <1>3 DEF vs
<1>9. \A x \in DOMAIN real :
        /\ real[x] \in DOMAIN known => sub[x] = known[real[x]] /\ sub[x] \in Names(0, n)
        /\ real[x] \notin DOMAIN known => sub[x] = new[real[x]] /\ real[x] \in DOMAIN new /\ sub[x] \in Names(n, n2)
  BY <1>4, <1>5, <1>7, <1>8 DEF Into
<1>10. Into(sub, Names(0, n2))
  BY <1>6, <1>7, <1>9 DEF Into
<1>11. ASSUME NEW x \in DOMAIN real, NEW y \in DOMAIN real, sub[x] = sub[y]
       PROVE  real[x] = real[y]
  <2>1. CASE real[x] \in DOMAIN known
    <3>1. real[y] \in DOMAIN known
      BY <1>6, <1>9, <1>11, <2>1
    <3> QED  BY <1>5, <1>9, <1>11, <2>1, <3>1
  <2>2. CASE real[x] \notin DOMAIN known
    <3>1. real[y] \notin DOMAIN known
      BY <1>6, <1>9, <1>11, <2>2
    <3> QED  BY <1>3, <1>9, <1>11, <2>2, <3>1 DEF IsInjective
  <2> QED  BY <2>1, <2>2
<1>12. ASSUME NEW x \in DOMAIN real, sub[x] \in DOMAIN p.master
       PROVE  p.master[sub[x]] = real[x]
  <2>1. real[x] \in DOMAIN known
    BY <1>5, <1>6, <1>9, <1>12
  <2> QED  BY <1>5, <1>9, <2>1
<1>13. sub \in Subst(Variable)
  <2>1. DOMAIN sub \subseteq Variable
    BY <1>1, <1>7, SubstFacts
  <2>2. Into(sub, Variable)
    BY <1>6, <1>10 DEF Into
  <2> QED  BY <1>7, <2>1, <2>2, SubstFacts
<1>14. /\ PartOK(p1, n2) /\ StandsFor(sub, p1, real) /\ Follows(p1, p) /\ GroundGoals(p1) = GroundGoals(p)
       /\ p1.current = p.current /\ p1.cost = p.cost /\ Len(p1.pieces) = Len(p.pieces)
       /\ DOMAIN p.master \subseteq DOMAIN p1.master /\ \A v \in DOMAIN p.master : p1.master[v] = p.master[v]
  <2>1. DOMAIN sub = DOMAIN real
    BY <1>7
  <2> QED  BY <1>1, <1>4, <1>10, <1>11, <1>12, <2>1, PartWithVars
<1> HIDE DEF p1
<1>15. /\ PartOK(p2, n2) /\ Follows(p2, p1) /\ p2.master = p1.master
       /\ Goals(p2) = Goals(p1) \ FormulaAfter(Adds(effects), sub)
       /\ p2.current = p1.current /\ p2.cost = p1.cost /\ Len(p2.pieces) = Len(p1.pieces)
  BY <1>14, PartStruck
<1> HIDE DEF p2
<1>16. StandsFor(sub, p2, real)
  BY <1>14, <1>15 DEF StandsFor
<1>17. p \in PartType /\ p1 \in PartType /\ p2 \in PartType
  BY <1>14, <1>15 DEF PartOK
<1>18. Follows(p2, p)
  BY <1>14, <1>15, <1>17, FollowsTransitive
<1>19. /\ PartOK(q, n2) /\ WithCall(q, p2, head, precs, effects, real, before, cost) /\ q.master = p2.master
  <2>1. p2.init <= before /\ before < p2.current
    BY <1>14, <1>15, <1>18 DEF Follows
  <2> QED  BY <1>13, <1>15, <1>16, <2>1, PartWithPiece
<1> HIDE DEF q
<1>20. GroundGoals(p2) \subseteq GroundGoals(p)
  BY <1>14, <1>15, FormulaParts DEF GroundGoals
<1>21. WithCall(q, p, head, precs, effects, real, before, cost)
  <2>1. q \in PartType
    BY <1>19 DEF PartOK
  <2> QED  BY <1>14, <1>15, <1>17, <1>18, <1>19, <1>20, <2>1, CallAfter
<1>22. ASSUME IsInjective(q.master)
       PROVE  IsInjective(p.master)
  BY <1>14, <1>15, <1>19, <1>22 DEF IsInjective
<1>23. ASSUME IsInjective(q.master), effects \in SUBSET Over(DOMAIN real)
       PROVE  GroundGoals(p2) \cap FormulaAfter(Adds(effects), real) = {}
  <2> DEFINE M == p2.master
             adds == Adds(effects)
  <2>1. IsInjective(M) /\ Goals(p2) \in SUBSET Over(DOMAIN M)
    BY <1>15, <1>19, <1>23 DEF PartOK, GoalsOK
  <2>2. adds \in SUBSET Over(DOMAIN real)
    BY <1>23 DEF Adds
  <2> HIDE DEF adds
  <2>3. /\ FormulaAfter(adds, sub) \in SUBSET Over(DOMAIN M)
        /\ FormulaAfter(FormulaAfter(adds, sub), M) = FormulaAfter(adds, real)
    BY <1>1, <1>16, <2>2, StandsForFormula
  <2>4. ASSUME NEW l \in Goals(p2), LiteralAfter(l, M) \in FormulaAfter(adds, real)
        PROVE  FALSE
    <3>1. PICK e \in FormulaAfter(adds, sub) : LiteralAfter(l, M) = LiteralAfter(e, M)
      BY <2>3, <2>4 DEF FormulaAfter
    <3>2. l \in Over(DOMAIN M) /\ e \in Over(DOMAIN M)
      BY <2>1, <2>3
    <3>3. l = e
      BY <2>1, <3>1, <3>2, InjectiveAfter
    <3> QED  BY <1>15, <3>3 DEF adds
  <2>5. GroundGoals(p2) = {LiteralAfter(l, M) : l \in Goals(p2)}
    BY DEF GroundGoals, FormulaAfter
  <2> QED  BY <2>4, <2>5 DEF adds
<1>24. ASSUME IsInjective(q.master), effects \in SUBSET Over(DOMAIN real)
       PROVE  GroundGoals(q) \subseteq (GroundGoals(p) \ FormulaAfter(Adds(effects), real)) \cup FormulaAfter(precs, real)
  <2>1. GroundGoals(q) \subseteq GroundGoals(p2) \cup FormulaAfter(precs, real)
    BY <1>19 DEF WithCall
  <2> QED  BY <1>20, <1>23, <1>24, <2>1
<1> QED  BY <1>4, <1>19, <1>21, <1>22, <1>24 DEF q, p2, p1, sub, n2

\* Without --partial_generalization.
LEMMA UnifiedPiece ==
  ASSUME FreshNames, NEW n \in Nat, NEW p, PartOK(p, n),
         NEW head, NEW precs, NEW effects, NEW real, CallOK(head, precs, effects, real),
         NEW before \in Nat, p.init <= before, before < p.current, NEW cost \in Nat
  PROVE  LET sub == NewVarsForAll(real, n)
             u   == Unify(WithVars(p, real, sub), effects, real, sub)
             q   == WithPiece(u.p, head, precs, effects, u.sub, before, cost)
             n2  == n + Cardinality(DOMAIN real)
         IN  /\ n2 \in Nat /\ n <= n2
             /\ ~u.threw =>
                  /\ PartOK(q, n2) /\ WithCall(q, p, head, precs, effects, real, before, cost)
                  /\ GroundGoals(q) \subseteq (GroundGoals(p) \ FormulaAfter(Adds(effects), real)) \cup FormulaAfter(precs, real)
<1> DEFINE sub == NewVarsForAll(real, n)
           p1  == WithVars(p, real, sub)
           u   == Unify(p1, effects, real, sub)
           q   == WithPiece(u.p, head, precs, effects, u.sub, before, cost)
           n2  == n + Cardinality(DOMAIN real)
<1>1. real \in Subst(Object) /\ IsFiniteSet(DOMAIN real) /\ DOMAIN real \subseteq Variable
  BY SubstFacts DEF CallOK
<1>2. /\ Cardinality(DOMAIN real) \in Nat /\ DOMAIN sub = DOMAIN real /\ Into(sub, Names(n, n2)) /\ IsInjective(sub)
      /\ sub \in [DOMAIN real -> Variable]
  BY <1>1, NewVarsFacts DEF NewVarsForAll
<1>3. n2 \in Nat /\ n <= n2
  BY <1>2
<1> HIDE DEF n2, sub
<1>4. Names(0, n) \cap Names(n, n2) = {} /\ Names(n, n2) \subseteq Names(0, n2)
  <2>1. 0 \in Nat /\ 0 <= n
    OBVIOUS
  <2>2. Names(0, n) \cap Names(n, n2) = {}
    BY <1>3, <2>1, NamesFacts
  <2>3. Names(n, n2) \subseteq Names(0, n2)
    BY <1>3, <2>1, NamesFacts
  <2> QED  BY <2>2, <2>3
<1>5. Into(sub, Names(0, n2))
  BY <1>2, <1>4 DEF Into
<1>6. \A x, y \in DOMAIN real : sub[x] = sub[y] => real[x] = real[y]
  BY <1>2 DEF IsInjective
<1>7. \A x \in DOMAIN real : sub[x] \in DOMAIN p.master => p.master[sub[x]] = real[x]
  BY <1>2, <1>4 DEF Into, PartOK
<1>8. /\ PartOK(p1, n2) /\ StandsFor(sub, p1, real) /\ Follows(p1, p) /\ GroundGoals(p1) = GroundGoals(p)
      /\ p1.current = p.current /\ p1.cost = p.cost /\ Len(p1.pieces) = Len(p.pieces)
  BY <1>1, <1>2, <1>3, <1>5, <1>6, <1>7, PartWithVars
<1> HIDE DEF p1
<1>9. sub \in Subst(Variable)
  BY <1>1, <1>2 DEF Subst
<1>10. u \in UnifyType /\ (~u.threw => Fine(u, p1, sub) /\ Supplying(u, effects, real) = {})
  <2>1. /\ p1 \in PartType /\ Keeps(p1, p1) /\ Goals(p1) \in SUBSET Over(DOMAIN p1.master)
        /\ IsFiniteSet(p1.adds) /\ IsFiniteSet(p1.precs)
    BY <1>8 DEF PartOK, GoalsOK
  <2>2. effects \in SUBSET Over(Variable)
    BY DEF CallOK
  <2> QED  BY <1>8, <1>9, <2>1, <2>2, UnifyFacts
<1> HIDE DEF u
<1> SUFFICES ASSUME ~u.threw
             PROVE  /\ PartOK(q, n2) /\ WithCall(q, p, head, precs, effects, real, before, cost)
                    /\ GroundGoals(q) \subseteq (GroundGoals(p) \ FormulaAfter(Adds(effects), real)) \cup FormulaAfter(precs, real)
  BY <1>3 DEF n2, u, p1, sub
<1>11. Fine(u, p1, sub)
  BY <1>10
<1>12. /\ PartOK(u.p, n2) /\ Follows(u.p, p1) /\ u.p.current = p1.current /\ u.p.cost = p1.cost
       /\ Len(u.p.pieces) = Len(p1.pieces)
  BY <1>8, <1>11, PartUnified
<1>13. GroundGoals(u.p) \subseteq GroundGoals(p1) /\ u.p \in PartType /\ u.sub \in Subst(Variable)
       /\ Goals(u.p) \in SUBSET Over(DOMAIN u.p.master)
  BY <1>11 DEF Fine, GroundGoals, UnifyType
<1>14. StandsFor(u.sub, u.p, real)
  BY <1>8, <1>11 DEF Fine, Same, StandsFor
<1>15. p \in PartType /\ p1 \in PartType
  BY <1>8 DEF PartOK
<1>16. Follows(u.p, p)
  BY <1>8, <1>12, <1>13, <1>15, FollowsTransitive
<1>17. PartOK(q, n2) /\ WithCall(q, u.p, head, precs, effects, real, before, cost)
  <2>1. u.p.init <= before /\ before < u.p.current
    BY <1>8, <1>12, <1>16 DEF Follows
  <2> QED  BY <1>12, <1>13, <1>14, <2>1, PartWithPiece
<1> HIDE DEF q
<1>18. GroundGoals(u.p) \subseteq GroundGoals(p)
  BY <1>8, <1>13
<1>19. WithCall(q, p, head, precs, effects, real, before, cost)
  <2>1. q \in PartType
    BY <1>17 DEF PartOK
  <2> QED  BY <1>8, <1>12, <1>13, <1>15, <1>16, <1>17, <1>18, <2>1, CallAfter
<1>20. GroundGoals(u.p) \cap FormulaAfter(Adds(effects), real) = {}
  <2>1. ASSUME NEW l \in Goals(u.p), NEW e \in Adds(effects), LiteralAfter(l, u.p.master) = LiteralAfter(e, real)
        PROVE  FALSE
    <3>1. e \in Supplying(u, effects, real)
      BY <2>1 DEF Supplying, SuppliedBy, Goals
    <3> QED  BY <1>10, <3>1
  <2> QED  BY <2>1 DEF GroundGoals, FormulaAfter
<1> QED  BY <1>17, <1>18, <1>19, <1>20 DEF WithCall

\* What AddPiece does to a partial method.
LEMMA AddPieceFacts ==
  ASSUME FreshNames, made \in Nat, PartOK(part, made),
         NEW head, NEW precs, NEW effects, NEW real, CallOK(head, precs, effects, real),
         NEW before \in Nat, part.init <= before, before < part.current, NEW cost \in Nat,
         AddPiece(head, precs, effects, real, before, cost)
  PROVE  /\ made' \in Nat /\ made <= made' /\ helped' = TRUE
         /\ \/ pc' \in {"overlap", "substitution recurses"} /\ part' = part
            \/ /\ pc' = pc /\ PartOK(part', made')
               /\ WithCall(part', part, head, precs, effects, real, before, cost)
               /\ Distinct(part'.master) => Distinct(part.master)
               /\ Distinct(part'.master) /\ effects \in SUBSET Over(DOMAIN real) =>
                    GroundGoals(part') \subseteq
                      (GroundGoals(part) \ FormulaAfter(Adds(effects), real)) \cup FormulaAfter(precs, real)
<1>1. helped' = TRUE
  BY DEF AddPiece
<1>2. CASE Conflicts(part, before, part.current)
  BY <1>1, <1>2 DEF AddPiece
<1>3. CASE ~Conflicts(part, before, part.current) /\ flags.partial_generalization
  <2>1. PICK known \in Representatives(part, real) :
          LET sub == NewVarsForConstants(real, known, made)
          IN  /\ part' = WithPiece(Strike(WithVars(part, real, sub), effects, sub),
                                   head, precs, effects, sub, before, cost)
              /\ made' = made + Cardinality(Range(real) \ DOMAIN known) /\ pc' = pc
    BY <1>3 DEF AddPiece
  <2> DEFINE sub == NewVarsForConstants(real, known, made)
             q   == WithPiece(Strike(WithVars(part, real, sub), effects, sub), head, precs, effects, sub, before, cost)
             n2  == made + Cardinality(Range(real) \ DOMAIN known)
  <2>2. /\ n2 \in Nat /\ made <= n2 /\ PartOK(q, n2)
        /\ WithCall(q, part, head, precs, effects, real, before, cost)
        /\ IsInjective(q.master) => IsInjective(part.master)
        /\ IsInjective(q.master) /\ effects \in SUBSET Over(DOMAIN real) =>
             GroundGoals(q) \subseteq (GroundGoals(part) \ FormulaAfter(Adds(effects), real)) \cup FormulaAfter(precs, real)
    BY GeneralizedPiece
  <2>3. part' = q /\ made' = n2 /\ pc' = pc
    BY <2>1
  <2> HIDE DEF q, n2
  <2> QED  BY <1>1, <1>3, <2>2, <2>3 DEF Distinct
<1>4. CASE ~Conflicts(part, before, part.current) /\ ~flags.partial_generalization
  <2> DEFINE sub == NewVarsForAll(real, made)
             u   == Unify(WithVars(part, real, sub), effects, real, sub)
             q   == WithPiece(u.p, head, precs, effects, u.sub, before, cost)
             n2  == made + Cardinality(DOMAIN real)
  <2>1. made' = n2 /\ IF u.threw THEN pc' = "substitution recurses" /\ part' = part ELSE part' = q /\ pc' = pc
    BY <1>4 DEF AddPiece
  <2>2. /\ n2 \in Nat /\ made <= n2
        /\ ~u.threw =>
             /\ PartOK(q, n2) /\ WithCall(q, part, head, precs, effects, real, before, cost)
             /\ GroundGoals(q) \subseteq (GroundGoals(part) \ FormulaAfter(Adds(effects), real)) \cup FormulaAfter(precs, real)
    BY UnifiedPiece
  <2> HIDE DEF q, n2, u
  <2> QED  BY <1>1, <1>4, <2>1, <2>2 DEF Distinct
<1> QED  BY <1>2, <1>3, <1>4

----------------------------------------------------------------------------
(* States                                                                  *)

\* Whether a formula without variables is true in a state.
True(g, state) == IsConsistent({g}, <<>>, state)

LEMMA TrueAfter ==
  ASSUME NEW S, NEW l \in Over(S), NEW sub, NEW state
  PROVE  True(LiteralAfter(l, sub), state) <=> Holds(l, sub, state)
<1> DEFINE g == LiteralAfter(l, sub)
           args == AfterSubstitution(l.args, sub)
<1>1. g.pos = l.pos /\ g.pred = l.pred /\ g.args = args
  BY LiteralAfterRecord
<1>2. DOMAIN <<>> = {}
  OBVIOUS
<1>3. AfterSubstitution(args, <<>>) = args
  <2>1. l.args \in Seq(S)
    BY DEF Over
  <2>2. /\ args = [i \in 1..Len(l.args) |-> Substituted(l.args[i], sub)] /\ Len(l.args) \in Nat
    BY <2>1 DEF AfterSubstitution
  <2>3. Len(args) = Len(l.args)
    BY <2>2
  <2>4. \A i \in 1..Len(args) : Substituted(args[i], <<>>) = args[i]
    BY <1>2 DEF Substituted
  <2>5. AfterSubstitution(args, <<>>) = [i \in 1..Len(l.args) |-> args[i]]
    BY <2>3, <2>4 DEF AfterSubstitution
  <2> QED  BY <2>2, <2>5
<1>4. AtomAfter(g, <<>>) = AtomAfter(l, sub)
  BY <1>1, <1>3 DEF AtomAfter
<1> HIDE DEF g
<1>5. Holds(g, <<>>, state) <=> Holds(l, sub, state)
  BY <1>1, <1>4 DEF Holds
<1> QED  BY <1>5 DEF True, IsConsistent, g

LEMMA ConsistentAfter ==
  ASSUME NEW S, NEW form \in SUBSET Over(S), NEW sub, NEW state
  PROVE  IsConsistent(form, sub, state) <=> \A g \in FormulaAfter(form, sub) : True(g, state)
<1>1. \A l \in form : True(LiteralAfter(l, sub), state) <=> Holds(l, sub, state)
  BY TrueAfter
<1> QED  BY <1>1 DEF IsConsistent, FormulaAfter

LEMMA OverVariables ==
  ASSUME NEW form \in SUBSET Literal, \A l \in form : l.args \in Seq(Variable), NEW S, VariablesOf(form) \subseteq S
  PROVE  form \in SUBSET Over(S)
<1>1. ASSUME NEW l \in form
      PROVE  l \in Over(S)
  <2>1. /\ l = [pos |-> l.pos, pred |-> l.pred, args |-> l.args]
        /\ l.pos \in BOOLEAN /\ l.pred \in Predicate \cup {"="} /\ l.args \in Seq(Variable)
    BY DEF Literal
  <2>2. ASSUME NEW i \in 1..Len(l.args)
        PROVE  l.args[i] \in S
    BY <2>1, ElemsType, VariablesOfFormula
  <2>3. l.args \in Seq(S)
    BY <2>1, <2>2
  <2> QED  BY <2>1, <2>3 DEF Over
<1> QED  BY <1>1

\* A formula of a state that no effect of the step made true was true before.
LEMMA StepBack ==
  ASSUME NEW o, \A e \in o.effects : e \in Literal /\ e.pred # "=", NEW sub, NEW state,
         NEW g \in Over(Object), g.pos \/ g.pred = "=",
         True(g, NextState(o, sub, state)), g \notin FormulaAfter(Adds(o.effects), sub)
  PROVE  True(g, state)
<1>1. DOMAIN <<>> = {}
  OBVIOUS
<1>2. Holds(g, <<>>, NextState(o, sub, state))
  BY DEF True, IsConsistent
<1>3. CASE g.pred = "="
  BY <1>2, <1>3 DEF True, IsConsistent, Holds
<1>4. CASE g.pred # "="
  <2>1. g.pos /\ AtomAfter(g, <<>>) \in NextState(o, sub, state)
    BY <1>2, <1>4 DEF Holds
  <2>2. CASE AtomAfter(g, <<>>) \in state
    BY <1>4, <2>1, <2>2 DEF True, IsConsistent, Holds
  <2>3. CASE AtomAfter(g, <<>>) \notin state
    <3>1. PICK e \in o.effects : e.pos /\ AtomAfter(g, <<>>) = AtomAfter(e, sub)
      BY <2>1, <2>3 DEF NextState
    <3>2. e \in Adds(o.effects) /\ e \in Over(Term)
      BY <3>1 DEF Adds, Over, Literal
    <3>3. AtomAfter(g, <<>>) = [pred |-> g.pred, args |-> g.args]
      <4>1. g.args \in Seq(Object)
        BY DEF Over
      <4>2. \A i \in 1..Len(g.args) : Substituted(g.args[i], <<>>) = g.args[i]
        BY <1>1 DEF Substituted
      <4>3. AfterSubstitution(g.args, <<>>) = [i \in 1..Len(g.args) |-> g.args[i]]
        BY <4>2 DEF AfterSubstitution
      <4>4. AfterSubstitution(g.args, <<>>) = g.args
        BY <4>1, <4>3
      <4> QED  BY <4>4 DEF AtomAfter
    <3>4. g.pred = e.pred /\ g.args = AfterSubstitution(e.args, sub)
      BY <3>1, <3>3 DEF AtomAfter
    <3>5. g = [pos |-> g.pos, pred |-> g.pred, args |-> g.args] /\ g.pos = TRUE /\ e.pos = TRUE
      BY <2>1, <3>1, <3>2 DEF Over
    <3>6. g = LiteralAfter(e, sub)
      BY <3>2, <3>4, <3>5, LiteralAfterRecord
    <3> QED  BY <3>2, <3>6 DEF FormulaAfter
  <2> QED  BY <2>2, <2>3
<1> QED  BY <1>3, <1>4

\* The steps of a plan.
StepsOf == [oper : 1..Len(Operators), sub : UNION {Grounding(Operators[i]) : i \in 1..Len(Operators)}]

LEMMA TraceType ==
  ASSUME trace \in Traces
  PROVE  /\ trace.steps \in Seq(StepsOf) /\ Len(trace.steps) \in Nat
         /\ trace.states \in Seq(SUBSET Atom) /\ Len(trace.states) = Len(trace.steps) + 1
<1>1. /\ trace.steps \in Seq([oper : 1..Len(Operators), sub : UNION {Grounding(Operators[i]) : i \in 1..Len(Operators)}])
      /\ trace.states \in Seq(SUBSET Atom) /\ Len(trace.states) = Len(trace.steps) + 1
  BY MakerAssumption
<1>2. trace.steps \in Seq(StepsOf)
  BY <1>1 DEF StepsOf
<1> QED  BY <1>1, <1>2

LEMMA TraceFacts ==
  ASSUME trace \in Traces, NEW i \in 1..Len(trace.steps)
  PROVE  /\ OperatorAt(i) \in OperatorType /\ OperatorAt(i) = Operators[trace.steps[i].oper]
         /\ trace.steps[i].oper \in 1..Len(Operators)
         /\ \A e \in OperatorAt(i).effects : e \in Literal /\ e.pred # "="
         /\ DOMAIN SubAt(i) = BoundVariables(OperatorAt(i))
         /\ CallOK([name |-> OperatorAt(i).name, args |-> OperatorAt(i).params], OperatorAt(i).precs,
                   OperatorAt(i).effects, SubAt(i))
         /\ OperatorAt(i).effects \in SUBSET Over(DOMAIN SubAt(i))
         /\ IsConsistent(OperatorAt(i).precs, SubAt(i), StateAt(i - 1))
         /\ StateAt(i) = NextState(OperatorAt(i), SubAt(i), StateAt(i - 1))
<1> DEFINE o == OperatorAt(i)
           x == trace.steps[i].oper
           head == [name |-> o.name, args |-> o.params]
<1>1. trace.steps[i] \in StepsOf
  BY TraceType
<1>2. x \in 1..Len(Operators) /\ o = Operators[x]
  BY <1>1 DEF OperatorAt, StepsOf
<1>3. /\ SubAt(i) \in Grounding(o) /\ IsConsistent(o.precs, SubAt(i), StateAt(i - 1))
      /\ StateAt(i) = NextState(o, SubAt(i), StateAt(i - 1))
  <2>1. /\ trace.steps[i].sub \in Grounding(Operators[x])
        /\ IsConsistent(Operators[x].precs, trace.steps[i].sub, trace.states[i])
        /\ trace.states[i + 1] = NextState(Operators[x], trace.steps[i].sub, trace.states[i])
    BY MakerAssumption
  <2>2. i - 1 + 1 = i
    OBVIOUS
  <2> QED  BY <1>2, <2>1, <2>2 DEF SubAt, StateAt
<1> HIDE DEF x
<1>4. /\ o \in OperatorType /\ Len(o.params) = Arity[o.name] /\ BoundVariables(o) \in SUBSET Variable
      /\ IsFiniteSet(BoundVariables(o)) /\ VariablesOf(o.effects) \subseteq BoundVariables(o)
      /\ \A l \in o.effects : l \in Literal /\ l.pred # "="
  BY <1>2, OperatorFacts
<1>5. Regressible(o.precs) /\ \A l \in o.effects : l.args \in Seq(Variable)
  BY <1>2, MakerAssumption DEF Lifted
<1> HIDE DEF o
<1>6. SubAt(i) \in [BoundVariables(o) -> Object]
  BY <1>3 DEF Grounding
<1>7. SubAt(i) \in Subst(Object)
  BY <1>4, <1>6 DEF Subst
<1>8. o.precs \in SUBSET Over(BoundVariables(o)) /\ IsFiniteSet(o.precs) /\ Positive(o.precs)
  <2>1. VariablesOf(o.precs) \subseteq BoundVariables(o)
    BY DEF BoundVariables
  <2>2. o.precs \in SUBSET Literal /\ \A l \in o.precs : l.args \in Seq(Variable)
    BY <1>5 DEF Regressible, Lifted
  <2>3. o.precs \in SUBSET Over(BoundVariables(o))
    BY <2>1, <2>2, OverVariables
  <2> QED  BY <1>5, <2>3 DEF Regressible, Lifted, Positive
<1>9. o.effects \in SUBSET Over(BoundVariables(o))
  BY <1>4, <1>5, OverVariables
<1>10. o.effects \in SUBSET Over(Variable)
  BY <1>4, <1>9 DEF Over
<1>11. o.params \in Seq(BoundVariables(o)) /\ head \in HeadType
  <2>1. o.params \in Seq(Variable) /\ o.name \in TaskName
    BY <1>4 DEF OperatorType, TaskName
  <2>2. \A j \in 1..Len(o.params) : o.params[j] \in BoundVariables(o)
    BY <2>1, ElemsType DEF BoundVariables
  <2> QED  BY <2>1, <2>2 DEF HeadType
<1>12. CallOK(head, o.precs, o.effects, SubAt(i))
  BY <1>4, <1>6, <1>7, <1>8, <1>10, <1>11 DEF CallOK
<1> QED  BY <1>2, <1>3, <1>4, <1>6, <1>9, <1>12 DEF o, x

\* Over several steps.
LEMMA StepsBack ==
  ASSUME trace \in Traces, NEW before \in Nat, NEW after \in Nat, before <= after, after <= Len(trace.steps),
         NEW g \in Over(Object), g.pos \/ g.pred = "=", True(g, StateAt(after)), ~AddsWithin(before, after, g)
  PROVE  True(g, StateAt(before))
<1> DEFINE S == {j \in Nat : j <= after - before => True(g, StateAt(after - j))}
<1>1. 0 \in S
  OBVIOUS
<1>2. ASSUME NEW j \in Nat, j \in S
      PROVE  j + 1 \in S
  <2> SUFFICES ASSUME j + 1 <= after - before PROVE True(g, StateAt(after - (j + 1)))
    OBVIOUS
  <2> DEFINE i == after - j
  <2>1. i \in (before + 1)..after /\ after - (j + 1) = i - 1 /\ True(g, StateAt(i)) /\ Len(trace.steps) \in Nat
    BY <1>2, MakerAssumption
  <2> HIDE DEF i
  <2>2. i \in 1..Len(trace.steps)
    BY <2>1
  <2>3. g \notin FormulaAfter(Adds(OperatorAt(i).effects), SubAt(i))
    BY <2>1 DEF AddsWithin
  <2>4. /\ \A e \in OperatorAt(i).effects : e \in Literal /\ e.pred # "="
        /\ StateAt(i) = NextState(OperatorAt(i), SubAt(i), StateAt(i - 1))
    BY <2>2, TraceFacts
  <2>5. True(g, NextState(OperatorAt(i), SubAt(i), StateAt(i - 1)))
    BY <2>1, <2>4
  <2>6. True(g, StateAt(i - 1))
    BY <2>3, <2>4, <2>5, StepBack
  <2> QED  BY <2>1, <2>6
<1>3. Nat \subseteq S
  <2> HIDE DEF S
  <2> QED  BY <1>1, <1>2, Induction
<1>4. after - before \in S /\ after - (after - before) = before
  BY <1>3
<1> QED  BY <1>4

----------------------------------------------------------------------------
(* Instances of methods                                                    *)

InstType == [method : AnyBody, before : Nat, after : Nat, cost : Nat, sub : Subst(Object),
             task : TaskType, effects : SUBSET Over(Variable)]

\* A body and the variables that its instance binds.
Bound(b, sub) ==
  /\ Usable(b) /\ b.name \notin CheckNames /\ sub \in Subst(Object) /\ IsFiniteSet(DOMAIN sub)
  /\ b.params \in Seq(DOMAIN sub) /\ b.precs \in SUBSET Over(DOMAIN sub)

InstOK(x) == x \in InstType /\ Bound(x.method, x.sub) /\ x.before < x.after

\* The ground subtasks and preconditions of an instance.
Calls(x) == {TaskAfter(h, x.sub) : h \in Elems(x.method.subtasks)}
Needs(x) == FormulaAfter(x.method.precs, x.sub)

\* x is an instance of b.
InstanceOf(x, b, sub, before, after, cost) ==
  /\ InstOK(x) /\ x.before = before /\ x.after = after /\ x.cost = cost
  /\ Needs(x) = FormulaAfter(b.precs, sub) /\ TaskAfter(HeadOf(x.method), x.sub) = TaskAfter(HeadOf(b), sub)
  /\ \A h \in Elems(b.subtasks) : h.args \in Seq(DOMAIN sub) => TaskAfter(h, sub) \in Calls(x)
  /\ IsInjective(x.sub) => IsInjective(sub)

LEMMA PartialArgs ==
  ASSUME NEW S, NEW args \in Seq(S), NEW change, NEW T, Into(change, T), S \ DOMAIN change \subseteq T
  PROVE  AfterSubstitution(args, change) \in Seq(T) /\ Len(AfterSubstitution(args, change)) = Len(args)
<1>1. Len(args) \in Nat /\ \A i \in 1..Len(args) : Substituted(args[i], change) \in T
  BY DEF Substituted, Into
<1> QED  BY <1>1 DEF AfterSubstitution

LEMMA DescrAfterType ==
  ASSUME NEW t \in TaskType, NEW change, Into(change, Variable)
  PROVE  DescrAfter(t, change) \in TaskType
<1> DEFINE params == AfterSubstitution(t.params, change)
           precs == FormulaAfter(t.precs, change)
           effects == FormulaAfter(t.effects, change)
<1>1. params \in Seq(Variable)
  BY PartialArgs DEF TaskType
<1>2. precs \in SUBSET Over(Variable) /\ effects \in SUBSET Over(Variable)
  <2>1. Variable \ DOMAIN change \subseteq Variable /\ t.precs \in SUBSET Over(Variable) /\ t.effects \in SUBSET Over(Variable)
    BY DEF TaskType
  <2> QED  BY <2>1, PartialAfterType
<1>3. DescrAfter(t, change) = [t EXCEPT !.params = params, !.precs = precs, !.effects = effects]
  BY DEF DescrAfter
<1> HIDE DEF params, precs, effects
<1> QED  BY <1>1, <1>2, <1>3 DEF TaskType

LEMMA OverLiteral ==
  ASSUME NEW S, S \subseteq Variable
  PROVE  /\ Over(S) \subseteq Over(Variable) /\ Over(S) \subseteq Literal
         /\ \A l \in Over(S) : l.args \in Seq(Variable)
<1>1. Seq(S) \subseteq Seq(Variable) /\ Seq(S) \subseteq Seq(Term)
  BY DEF Term
<1> QED  BY <1>1 DEF Over, Literal

LEMMA HeadAfterType ==
  ASSUME NEW h \in TaskHead, NEW change, Into(change, Variable)
  PROVE  TaskAfter(h, change) \in TaskHead
<1>1. h.name \in TaskName /\ h.args \in Seq(Term) /\ Len(h.args) = Arity[h.name]
  BY DEF TaskHead, WithArity
<1>2. Into(change, Term) /\ Term \ DOMAIN change \subseteq Term
  BY DEF Into, Term
<1>3. AfterSubstitution(h.args, change) \in Seq(Term) /\ Len(AfterSubstitution(h.args, change)) = Len(h.args)
  BY <1>1, <1>2, PartialArgs
<1> QED  BY <1>1, <1>3 DEF TaskHead, WithArity, TaskAfter

LEMMA HeadStaysLifted ==
  ASSUME NEW h \in LiftedHead, NEW change, Into(change, Variable)
  PROVE  TaskAfter(h, change) \in LiftedHead
<1>1. h \in TaskHead /\ h.args \in Seq(Variable) /\ Variable \ DOMAIN change \subseteq Variable
  BY DEF LiftedHead
<1>2. AfterSubstitution(h.args, change) \in Seq(Variable)
  BY <1>1, PartialArgs
<1> QED  BY <1>1, <1>2, HeadAfterType DEF LiftedHead, TaskAfter

\* The fields of a body that was renamed.
LEMMA MethodAfterFields ==
  ASSUME NEW b \in AnyBody, NEW change, Into(change, Variable)
  PROVE  LET c == MethodAfter(b, change)
         IN  /\ c \in [name : TaskName \cup {""}, params : Seq(Variable), precs : {FormulaAfter(b.precs, change)}, subtasks : Seq(TaskHead)]
             /\ c.name = b.name /\ c.params = AfterSubstitution(b.params, change) /\ Len(c.params) = Len(b.params)
             /\ c.precs = FormulaAfter(b.precs, change)
             /\ Len(c.subtasks) = Len(b.subtasks)
             /\ \A i \in 1..Len(b.subtasks) : c.subtasks[i] = TaskAfter(b.subtasks[i], change)
<1>2. b.subtasks \in Seq(TaskHead) /\ Len(b.subtasks) \in Nat
  <2>1. b.subtasks \in Seq(TaskHead)
    BY DEF AnyBody
  <2> QED  BY <2>1
<1> DEFINE c == MethodAfter(b, change)
           params == AfterSubstitution(b.params, change)
           precs == FormulaAfter(b.precs, change)
           subtasks == [i \in 1..Len(b.subtasks) |-> TaskAfter(b.subtasks[i], change)]
<1>1. params \in Seq(Variable) /\ Len(params) = Len(b.params)
  BY PartialArgs DEF AnyBody
<1>3. \A i \in 1..Len(b.subtasks) : TaskAfter(b.subtasks[i], change) \in TaskHead
  BY <1>2, HeadAfterType
<1>4. /\ subtasks \in Seq(TaskHead) /\ Len(subtasks) = Len(b.subtasks)
      /\ \A i \in 1..Len(b.subtasks) : subtasks[i] = TaskAfter(b.subtasks[i], change)
  BY <1>2, <1>3
<1>5. c = [b EXCEPT !.params = params, !.precs = precs, !.subtasks = subtasks]
  BY DEF MethodAfter
<1> HIDE DEF params, precs, subtasks, c
<1>6. /\ c \in [name : TaskName \cup {""}, params : Seq(Variable), precs : {precs}, subtasks : Seq(TaskHead)]
      /\ c.name = b.name /\ c.params = params /\ c.precs = precs /\ c.subtasks = subtasks
  BY <1>1, <1>4, <1>5 DEF AnyBody
<1> QED  BY <1>1, <1>4, <1>6 DEF params, precs, c

\* The values of a substitution whose variables were renamed.
ValuesOf(change, sub) == [v \in Range(change) |-> sub[CHOOSE x \in DOMAIN sub : change[x] = v]]

LEMMA RenamedSubstitution ==
  ASSUME NEW sub \in Subst(Object), NEW change, DOMAIN change = DOMAIN sub, Into(change, Variable), IsInjective(change)
  PROVE  LET new == ValuesOf(change, sub)
         IN  /\ new \in Subst(Object) /\ DOMAIN new = Range(change) /\ Into(change, DOMAIN new)
             /\ Composed(change, new) = sub /\ (IsFiniteSet(DOMAIN sub) => IsFiniteSet(DOMAIN new))
             /\ IsInjective(new) => IsInjective(sub)
<1> DEFINE new == [v \in Range(change) |-> sub[CHOOSE x \in DOMAIN sub : change[x] = v]]
<1>1. /\ \A x \in DOMAIN sub : change[x] \in Range(change)
      /\ \A v \in Range(change) : \E x \in DOMAIN sub : change[x] = v
      /\ \A x, y \in DOMAIN sub : change[x] = change[y] => x = y
  BY DEF Range, IsInjective
<1>2. ASSUME NEW x \in DOMAIN sub
      PROVE  new[change[x]] = sub[x]
  <2> DEFINE y == CHOOSE y \in DOMAIN sub : change[y] = change[x]
  <2>1. y \in DOMAIN sub /\ change[y] = change[x]
    OBVIOUS
  <2>2. new[change[x]] = sub[y]
    BY <1>1
  <2> HIDE DEF y
  <2> QED  BY <1>1, <2>1, <2>2
<1>3. DOMAIN new = Range(change) /\ new = [v \in DOMAIN new |-> new[v]]
  OBVIOUS
<1> HIDE DEF new
<1>4. Range(change) \subseteq Variable
  BY <1>1 DEF Into
<1>5. new \in Subst(Object)
  <2>1. Into(sub, Object)
    BY SubstFacts
  <2>2. Into(new, Object)
    BY <1>1, <1>2, <1>3, <2>1 DEF Into
  <2> QED  BY <1>3, <1>4, <2>2, SubstFacts
<1>6. Composed(change, new) = sub
  <2>1. sub = [v \in DOMAIN sub |-> sub[v]]
    BY SubstFacts
  <2> QED  BY <1>2, <2>1 DEF Composed
<1>7. IsFiniteSet(DOMAIN sub) => IsFiniteSet(DOMAIN new)
  <2> DEFINE f == [x \in DOMAIN sub |-> change[x]]
  <2>1. f \in [DOMAIN sub -> Range(change)] /\ Range(change) = {f[x] : x \in DOMAIN sub}
    BY DEF Range
  <2> HIDE DEF f
  <2> QED  BY <1>3, <2>1, FiniteImage
<1>8. IsInjective(new) => IsInjective(sub)
  <2> SUFFICES ASSUME IsInjective(new), NEW x \in DOMAIN sub, NEW y \in DOMAIN sub, sub[x] = sub[y]
               PROVE  x = y
    BY DEF IsInjective
  <2>1. change[x] \in DOMAIN new /\ change[y] \in DOMAIN new /\ new[change[x]] = new[change[y]]
    BY <1>1, <1>2, <1>3
  <2>2. change[x] = change[y]
    BY <2>1 DEF IsInjective
  <2> QED  BY <1>1, <2>2
<1>9. Into(change, DOMAIN new)
  BY <1>1, <1>3 DEF Into
<1> QED  BY <1>3, <1>5, <1>6, <1>7, <1>8, <1>9 DEF new, ValuesOf

\* AnnotatedPlan::AddMethodInst keeps what the instance says of the plan.
LEMMA AddMethodInstFacts ==
  ASSUME FreshNames, made \in Nat, final \in Nat, insts \in Seq(InstType), NEW body, NEW sub, Bound(body, sub),
         NEW before \in Nat, before < final, NEW task \in TaskType, NEW effects \in SUBSET Over(Variable),
         NEW cost \in Nat, AddMethodInst(body, sub, before, task, effects, cost)
  PROVE  /\ made' \in Nat /\ insts' \in Seq(InstType) /\ Len(insts') = Len(insts) + 1
         /\ \A i \in 1..Len(insts) : insts'[i] = insts[i]
         /\ InstanceOf(insts'[Len(insts) + 1], body, sub, before, final, cost)
<1> DEFINE change == NewVars(DOMAIN sub, made)
           new    == ValuesOf(change, sub)
           b      == MethodAfter(body, change)
           descr  == DescrAfter(task, change)
           effs   == FormulaAfter(effects, change)
           y      == [method |-> b, before |-> before, after |-> final, cost |-> cost,
                      sub |-> new, task |-> descr, effects |-> effs]
<1>1. /\ Usable(body) /\ body.name \notin CheckNames /\ sub \in Subst(Object) /\ IsFiniteSet(DOMAIN sub)
      /\ body.params \in Seq(DOMAIN sub) /\ body.precs \in SUBSET Over(DOMAIN sub) /\ body \in AnyBody
  BY DEF Bound, Usable
<1>2. insts' = Append(insts, y) /\ made' = made + Cardinality(DOMAIN sub)
  BY DEF AddMethodInst, ValuesOf
<1>3. /\ Cardinality(DOMAIN sub) \in Nat /\ DOMAIN change = DOMAIN sub /\ IsInjective(change)
      /\ change \in [DOMAIN sub -> Variable]
  BY <1>1, NewVarsFacts
<1> HIDE DEF change
<1>4. Into(change, Variable)
  BY <1>3 DEF Into
<1>5. /\ new \in Subst(Object) /\ DOMAIN new = Range(change) /\ Into(change, DOMAIN new)
      /\ Composed(change, new) = sub /\ IsFiniteSet(DOMAIN new) /\ (IsInjective(new) => IsInjective(sub))
  BY <1>1, <1>3, <1>4, RenamedSubstitution
<1> HIDE DEF new
<1>6. /\ b \in [name : TaskName \cup {""}, params : Seq(Variable), precs : {FormulaAfter(body.precs, change)}, subtasks : Seq(TaskHead)]
      /\ b.name = body.name /\ b.params = AfterSubstitution(body.params, change) /\ Len(b.params) = Len(body.params)
      /\ b.precs = FormulaAfter(body.precs, change)
      /\ Len(b.subtasks) = Len(body.subtasks)
      /\ \A i \in 1..Len(body.subtasks) : b.subtasks[i] = TaskAfter(body.subtasks[i], change)
  BY <1>1, <1>4, MethodAfterFields
<1> HIDE DEF b
<1>7. b.params \in Seq(DOMAIN new) /\ b.precs \in SUBSET Over(DOMAIN new)
  <2>1. body.params \in Seq(DOMAIN change) /\ body.precs \in SUBSET Over(DOMAIN change)
    BY <1>1, <1>3
  <2>2. AfterSubstitution(body.params, change) \in Seq(DOMAIN new)
    BY <1>5, <2>1, ArgsType
  <2>3. FormulaAfter(body.precs, change) \in SUBSET Over(DOMAIN new)
    BY <1>5, <2>1, FormulaAfterType
  <2> QED  BY <1>6, <2>2, <2>3
<1>8. FormulaAfter(b.precs, new) = FormulaAfter(body.precs, sub)
  <2>1. body.precs \in SUBSET Over(DOMAIN change)
    BY <1>1, <1>3
  <2>2. FormulaAfter(FormulaAfter(body.precs, change), new) = FormulaAfter(body.precs, Composed(change, new))
    BY <1>5, <2>1, FormulaComposed
  <2> QED  BY <1>5, <1>6, <2>2
<1>9. ASSUME NEW h, h.args \in Seq(DOMAIN sub)
      PROVE  TaskAfter(TaskAfter(h, change), new) = TaskAfter(h, sub)
  BY <1>3, <1>5, <1>9, HeadComposed
<1>10. Usable(b) /\ b.name \notin CheckNames
  <2>8. b.subtasks \in Seq(LiftedHead)
    <3>1. body.subtasks \in Seq(LiftedHead) /\ Variable \ DOMAIN change \subseteq Variable
      BY <1>1 DEF Usable
    <3>2. ASSUME NEW i \in 1..Len(body.subtasks)
          PROVE  TaskAfter(body.subtasks[i], change) \in LiftedHead
      <4>1. body.subtasks[i] \in LiftedHead
        BY <3>1
      <4> QED  BY <1>4, <4>1, HeadStaysLifted
    <3>3. b.subtasks \in Seq(TaskHead)
      BY <1>6
    <3> HIDE DEF LiftedHead
    <3>4. \A i \in 1..Len(b.subtasks) : b.subtasks[i] \in LiftedHead
      <4>1. /\ Len(b.subtasks) = Len(body.subtasks)
            /\ \A i \in 1..Len(body.subtasks) : b.subtasks[i] = TaskAfter(body.subtasks[i], change)
        BY <1>6
      <4> QED  BY <3>2, <4>1
    <3> QED  BY <3>3, <3>4
  <2>1. DOMAIN new \subseteq Variable
    BY <1>5, SubstFacts
  <2>2. b.precs \in SUBSET Literal /\ \A l \in b.precs : l.args \in Seq(Variable)
    BY <1>7, <2>1, OverLiteral
  <2>3. b \in AnyBody
    <3>1. b.precs \in SUBSET Literal /\ b.precs = FormulaAfter(body.precs, change)
      BY <1>6, <2>2
    <3>2. [name : TaskName \cup {""}, params : Seq(Variable), precs : {FormulaAfter(body.precs, change)}, subtasks : Seq(TaskHead)]
            \subseteq AnyBody
      BY <3>1 DEF AnyBody
    <3> QED  BY <1>6, <3>2
  <2>4. IsFiniteSet(b.precs)
    <3>1. IsFiniteSet(body.precs)
      BY <1>1 DEF Usable, Lifted
    <3>2. IsFiniteSet(FormulaAfter(body.precs, change))
      BY <3>1, FormulaFinite
    <3> QED  BY <1>6, <3>2
  <2>5. Positive(b.precs)
    <3>1. Positive(body.precs)
      BY <1>1 DEF Usable, Regressible, Positive
    <3>2. Positive(FormulaAfter(body.precs, change))
      BY <1>1, <3>1, PositiveAfter
    <3> QED  BY <1>6, <3>2
  <2>6. Lifted(b.precs) /\ Regressible(b.precs)
    BY <2>2, <2>4, <2>5 DEF Lifted, Regressible, Positive
  <2>7. b.name \in Compound /\ Len(b.params) = Arity[b.name]
    BY <1>1, <1>6 DEF Usable
  <2> QED  BY <1>1, <1>6, <2>3, <2>6, <2>7, <2>8 DEF Usable
<1>11. descr \in TaskType /\ effs \in SUBSET Over(Variable)
  <2>1. Variable \ DOMAIN change \subseteq Variable
    OBVIOUS
  <2> QED  BY <1>4, <2>1, DescrAfterType, PartialAfterType
<1> HIDE DEF descr, effs
<1>12. /\ y \in InstType /\ y.method = b /\ y.before = before /\ y.after = final /\ y.cost = cost /\ y.sub = new
  <2>1. b \in AnyBody
    BY <1>10 DEF Usable
  <2> QED  BY <1>5, <1>11, <2>1 DEF InstType
<1> HIDE DEF y
<1>13. InstOK(y)
  BY <1>5, <1>7, <1>10, <1>12 DEF InstOK, Bound
<1>14. TaskAfter(HeadOf(b), new) = TaskAfter(HeadOf(body), sub)
  <2>1. HeadOf(b) = TaskAfter(HeadOf(body), change)
    BY <1>6 DEF HeadOf, TaskAfter
  <2>2. HeadOf(body).args \in Seq(DOMAIN sub)
    BY <1>1 DEF HeadOf
  <2> QED  BY <1>9, <2>1, <2>2
<1>15. ASSUME NEW h \in Elems(body.subtasks), h.args \in Seq(DOMAIN sub)
       PROVE  TaskAfter(h, sub) \in Calls(y)
  <2>1. PICK i \in 1..Len(body.subtasks) : h = body.subtasks[i]
    BY DEF Elems
  <2>2. b.subtasks[i] = TaskAfter(h, change) /\ b.subtasks[i] \in Elems(b.subtasks)
    BY <1>6, <2>1 DEF Elems
  <2>3. TaskAfter(b.subtasks[i], new) = TaskAfter(h, sub)
    BY <1>9, <1>15, <2>2
  <2> QED  BY <1>12, <2>2, <2>3 DEF Calls
<1>16. InstanceOf(y, body, sub, before, final, cost)
  BY <1>5, <1>8, <1>12, <1>13, <1>14, <1>15 DEF InstanceOf, Needs
<1>17. /\ Append(insts, y) \in Seq(InstType) /\ Len(Append(insts, y)) = Len(insts) + 1
       /\ \A i \in 1..Len(insts) : Append(insts, y)[i] = insts[i]
       /\ Append(insts, y)[Len(insts) + 1] = y
  BY <1>12
<1> QED  BY <1>2, <1>3, <1>16, <1>17

----------------------------------------------------------------------------
(* CreateMethod                                                            *)

\* The heads of the subtasks are over the variables of the partial method.
LEMMA SubtaskOfPiece ==
  ASSUME NEW p, NEW n, PartOK(p, n), NEW i \in 1..Len(p.pieces)
  PROVE  /\ TaskAfter(p.pieces[i].head, p.pieces[i].sub) \in TaskHead
         /\ TaskAfter(p.pieces[i].head, p.pieces[i].sub).args \in Seq(DOMAIN p.master)
<1> DEFINE piece == p.pieces[i]
           args  == AfterSubstitution(piece.head.args, piece.sub)
<1>1. /\ p.pieces \in Seq(PieceType) /\ p.master \in Subst(Object) /\ PieceOK(piece, p)
      /\ Same(piece.sub, p.master, piece.sub, p.master)
  BY DEF PartOK, PartType, Keeps
<1>2. piece \in PieceType
  BY <1>1
<1> HIDE DEF piece
<1>3. piece.head.args \in Seq(DOMAIN piece.sub) /\ Len(piece.head.args) = Arity[piece.head.name] /\ piece.head.name \in TaskName
  BY <1>1, <1>2 DEF PieceOK, PieceType, HeadType
<1>4. Into(piece.sub, DOMAIN p.master)
  BY <1>1 DEF Same, Into
<1>5. args \in Seq(DOMAIN p.master) /\ Len(args) = Len(piece.head.args)
  BY <1>3, <1>4, ArgsType, ArgsAfter
<1>6. args \in Seq(Term)
  <2>1. DOMAIN p.master \subseteq Term
    BY <1>1, SubstFacts DEF Term
  <2> QED  BY <1>5, <2>1
<1> HIDE DEF args
<1>7. TaskAfter(piece.head, piece.sub) = [name |-> piece.head.name, args |-> args]
  BY DEF TaskAfter, args
<1>8. [name |-> piece.head.name, args |-> args] \in TaskHead
  BY <1>3, <1>5, <1>6 DEF TaskHead, WithArity
<1> QED  BY <1>5, <1>7, <1>8 DEF piece

\* The inequalities are of different variables, and finitely many.
LEMMA InequalitiesFacts ==
  ASSUME NEW precs, NEW vs, IsFiniteSet(vs)
  PROVE  /\ Inequalities(precs, vs) \in SUBSET Over(vs) /\ IsFiniteSet(Inequalities(precs, vs))
         /\ \A l \in Inequalities(precs, vs) :
              ~l.pos /\ l.pred = "=" /\ Len(l.args) = 2 /\ l.args[1] # l.args[2]
              /\ l.args[1] \in vs /\ l.args[2] \in vs
<1> DEFINE pairs == {q \in vs \X vs : q[1] # q[2]}
           of(q) == Unequal({q[1], q[2]})
<1>1. ASSUME NEW q \in pairs
      PROVE  /\ of(q) \in Over(vs) /\ ~of(q).pos /\ of(q).pred = "=" /\ Len(of(q).args) = 2
             /\ of(q).args[1] # of(q).args[2] /\ of(q).args[1] \in vs /\ of(q).args[2] \in vs
  <2> DEFINE pair == {q[1], q[2]}
             v == CHOOSE v \in pair : TRUE
             w == CHOOSE w \in pair : w # v
  <2>1. q[1] \in vs /\ q[2] \in vs /\ q[1] # q[2]
    OBVIOUS
  <2>2. v \in pair
    <3>1. \E x \in pair : TRUE
      OBVIOUS
    <3> QED  BY <3>1
  <2>3. w \in pair /\ w # v
    <3> HIDE DEF v
    <3>1. \E x \in pair : x # v
      BY <2>1
    <3> QED  BY <3>1
  <2>4. v \in vs /\ w \in vs
    BY <2>1, <2>2, <2>3
  <2>5. of(q) = [pos |-> FALSE, pred |-> "=", args |-> <<v, w>>]
    BY Zenon DEF Unequal
  <2> HIDE DEF v, w, of
  <2>6. /\ of(q).pos = FALSE /\ of(q).pred = "=" /\ of(q).args = <<v, w>>
    BY <2>5
  <2>7. of(q) \in Over(vs)
    BY <2>4, <2>5 DEF Over
  <2> QED  BY <2>3, <2>4, <2>6, <2>7
<1>2. Inequalities(precs, vs) \subseteq {of(q) : q \in pairs}
  BY DEF Inequalities
<1>3. IsFiniteSet({of(q) : q \in pairs})
  <2> DEFINE f == [q \in pairs |-> of(q)]
             T == {of(q) : q \in pairs}
  <2>1. IsFiniteSet(pairs)
    <3>1. IsFiniteSet(vs \X vs)
      BY FS_Product
    <3>2. pairs \subseteq vs \X vs
      OBVIOUS
    <3> HIDE DEF pairs
    <3> QED  BY <3>1, <3>2, FS_Subset
  <2> HIDE DEF pairs
  <2>2. f \in [pairs -> T] /\ T = {f[q] : q \in pairs}
    OBVIOUS
  <2> HIDE DEF f, T
  <2>3. IsFiniteSet(T)
    BY <2>1, <2>2, FiniteImage
  <2> QED  BY <2>3 DEF T
<1>4. IsFiniteSet(Inequalities(precs, vs))
  BY <1>2, <1>3, FS_Subset
<1> HIDE DEF pairs, of
<1> QED  BY <1>1, <1>2, <1>4

\* The preconditions of a method that is made of p.
LEMMA MethodPrecsFacts ==
  ASSUME NEW p, NEW n, PartOK(p, n)
  PROVE  /\ MethodPrecs(p) \in SUBSET Over(DOMAIN p.master) /\ IsFiniteSet(MethodPrecs(p)) /\ Positive(MethodPrecs(p))
         /\ LiftedPrecs(p) \in SUBSET Over(DOMAIN p.master)
         /\ MethodPrecs(p) \subseteq LiftedPrecs(p) \cup p.precs \cup p.adds
<1>1. MethodPrecs(p) \subseteq LiftedPrecs(p) \cup p.precs \cup p.adds
  BY WithNewFacts DEF MethodPrecs
<1>2. /\ p.task.precs \in SUBSET Over(DOMAIN p.taskSub) /\ IsFiniteSet(p.task.precs) /\ Positive(p.task.precs)
      /\ Goals(p) \in SUBSET Over(DOMAIN p.master) /\ IsFiniteSet(p.adds) /\ IsFiniteSet(p.precs)
      /\ Positive(GroundGoals(p)) /\ Same(p.taskSub, p.master, p.taskSub, p.master)
  BY DEF PartOK, TaskOK, GoalsOK, Keeps
<1>3. LiftedPrecs(p) \in SUBSET Over(DOMAIN p.master) /\ IsFiniteSet(LiftedPrecs(p)) /\ Positive(LiftedPrecs(p))
  <2>1. Into(p.taskSub, DOMAIN p.master)
    BY <1>2 DEF Same, Into
  <2> QED  BY <1>2, <2>1, FormulaAfterType, FormulaFinite, PositiveAfter DEF LiftedPrecs
<1>4. Positive(Goals(p))
  BY <1>2, PositiveAfter DEF GroundGoals
<1>5. IsFiniteSet(LiftedPrecs(p) \cup p.precs \cup p.adds)
  BY <1>2, <1>3, FS_Union
<1>6. LiftedPrecs(p) \cup p.precs \cup p.adds = LiftedPrecs(p) \cup Goals(p)
  BY DEF Goals
<1> QED  BY <1>1, <1>2, <1>3, <1>4, <1>5, <1>6, FS_Subset DEF Positive

LEMMA SequenceFrom ==
  ASSUME NEW n \in Nat, NEW T, NEW f, f = [i \in 1..n |-> f[i]], \A i \in 1..n : f[i] \in T
  PROVE  f \in Seq(T) /\ Len(f) = n
<1> QED  OBVIOUS

\* The heads that a partial method calls.
Called(p) == {TaskAfter(p.pieces[i].head, p.pieces[i].sub) : i \in 1..Len(p.pieces)}

\* b is what CreateMethod may make of p, with or without checkers.
MadeOf(b, p) ==
  /\ Usable(b) /\ b.name = p.task.name /\ Regressible(b.precs)
  /\ b.params \in Seq(DOMAIN p.master) /\ b.precs \in SUBSET Over(DOMAIN p.master)
  /\ Called(p) \subseteq Elems(b.subtasks)
  /\ \A l \in b.precs : \/ l \in LiftedPrecs(p) \cup p.precs \cup p.adds
                        \/ /\ flags.partial_generalization /\ l.pred = "=" /\ ~l.pos /\ Len(l.args) = 2
                           /\ l.args[1] \in DOMAIN p.master /\ l.args[2] \in DOMAIN p.master /\ l.args[1] # l.args[2]

LEMMA CreateMethodFacts ==
  ASSUME NEW p, NEW n, PartOK(p, n), NEW verifier \in Seq(Compound),
         \A i \in 1..Len(verifier) : Arity[verifier[i]] = Arity[p.task.name]
  PROVE  MadeOf(CreateMethod(p, verifier, flags.partial_generalization), p)
<1> DEFINE gen      == flags.partial_generalization
           params   == AfterSubstitution(p.task.params, p.taskSub)
           pieces   == Reverse(p.pieces)
           subtasks == [i \in 1..Len(pieces) |-> TaskAfter(pieces[i].head, pieces[i].sub)]
           vs     == VariablesOf(MethodPrecs(p)) \cup UNION {Elems(subtasks[i].args) : i \in 1..Len(subtasks)}
           more     == IF gen THEN Inequalities(MethodPrecs(p), vs \cup Elems(params)) ELSE {}
           last     == [i \in 1..Len(verifier) |-> [name |-> verifier[i], args |-> params]]
           len      == Len(p.pieces)
           b        == CreateMethod(p, verifier, gen)
<1>1. b = [name |-> p.task.name, params |-> params, precs |-> MethodPrecs(p) \cup more, subtasks |-> subtasks \o last]
  BY Zenon DEF CreateMethod
<1>2. /\ p.task.params \in Seq(DOMAIN p.taskSub) /\ Len(p.task.params) = Arity[p.task.name] /\ p.task.name \in Compound
      /\ Same(p.taskSub, p.master, p.taskSub, p.master) /\ p.master \in Subst(Object) /\ IsFiniteSet(DOMAIN p.master)
      /\ p.pieces \in Seq(PieceType) /\ len \in Nat
  <2>1. p \in PartType /\ TaskOK(p) /\ Keeps(p, p) /\ IsFiniteSet(DOMAIN p.master)
    BY DEF PartOK
  <2>2. p.pieces \in Seq(PieceType) /\ p.task \in TaskType /\ p.master \in Subst(Object)
    BY <2>1 DEF PartType
  <2> QED  BY <2>1, <2>2 DEF TaskOK, Keeps, TaskType
<1>3. DOMAIN p.master \subseteq Variable /\ DOMAIN p.master \subseteq Term
  BY <1>2, SubstFacts DEF Term
<1>4. params \in Seq(DOMAIN p.master) /\ Len(params) = Arity[p.task.name]
  <2>1. Into(p.taskSub, DOMAIN p.master)
    BY <1>2 DEF Same, Into
  <2> QED  BY <1>2, <2>1, ArgsType, ArgsAfter
<1>5. Len(pieces) = len /\ \A i \in 1..len : pieces[i] = p.pieces[len - i + 1] /\ len - i + 1 \in 1..len
  BY <1>2 DEF Reverse
<1> HIDE DEF params, pieces, len
<1>6. /\ DOMAIN subtasks = 1..len
      /\ \A i \in 1..len : /\ subtasks[i] = TaskAfter(p.pieces[len - i + 1].head, p.pieces[len - i + 1].sub)
                           /\ subtasks[i] \in TaskHead /\ subtasks[i].args \in Seq(DOMAIN p.master)
                           /\ subtasks[i] \in LiftedHead
  <2>1. \A i \in 1..len : /\ TaskAfter(p.pieces[len - i + 1].head, p.pieces[len - i + 1].sub) \in TaskHead
                          /\ TaskAfter(p.pieces[len - i + 1].head, p.pieces[len - i + 1].sub).args \in Seq(DOMAIN p.master)
    BY <1>5, SubtaskOfPiece DEF len
  <2> QED  BY <1>3, <1>5, <2>1 DEF LiftedHead
<1>7. subtasks \in Seq(LiftedHead) /\ Len(subtasks) = len
  <2>1. subtasks = [i \in 1..len |-> subtasks[i]] /\ \A i \in 1..len : subtasks[i] \in LiftedHead
    BY <1>5, <1>6
  <2>2. len \in Nat
    BY <1>2
  <2> HIDE DEF subtasks
  <2> QED  BY <2>1, <2>2, SequenceFrom
<1> HIDE DEF subtasks
<1>8. last \in Seq(LiftedHead) /\ Len(last) \in Nat
  <2>1. ASSUME NEW i \in 1..Len(verifier)
        PROVE  [name |-> verifier[i], args |-> params] \in LiftedHead
    <3>1. params \in Seq(Term) /\ params \in Seq(Variable) /\ verifier[i] \in TaskName /\ Len(params) = Arity[verifier[i]]
      BY <1>3, <1>4 DEF TaskName
    <3> QED  BY <3>1 DEF LiftedHead, TaskHead, WithArity
  <2>2. last \in Seq(LiftedHead)
    <3> HIDE DEF LiftedHead
    <3> QED  BY <2>1
  <2> QED  BY <2>2
<1> HIDE DEF last
<1>9. subtasks \o last \in Seq(LiftedHead) /\ Called(p) \subseteq Elems(subtasks \o last)
  <2>1. /\ subtasks \o last \in Seq(LiftedHead) /\ Len(subtasks \o last) = len + Len(last)
        /\ \A i \in 1..len : (subtasks \o last)[i] = subtasks[i]
    <3>1. /\ subtasks \o last \in Seq(LiftedHead) /\ Len(subtasks \o last) = Len(subtasks) + Len(last)
          /\ \A i \in 1..Len(subtasks) + Len(last) :
               (subtasks \o last)[i] = IF i <= Len(subtasks) THEN subtasks[i] ELSE last[i - Len(subtasks)]
      <4>1. subtasks \in Seq(LiftedHead) /\ last \in Seq(LiftedHead)
        BY <1>7, <1>8
      <4> QED  BY <4>1, ConcatProperties, Zenon
    <3> QED  BY <1>2, <1>7, <1>8, <3>1
  <2>2. ASSUME NEW i \in 1..len
        PROVE  TaskAfter(p.pieces[i].head, p.pieces[i].sub) \in Elems(subtasks \o last)
    <3> DEFINE j == len - i + 1
    <3>1. j \in 1..len /\ len - j + 1 = i
      BY <1>2
    <3>2. subtasks[j] = TaskAfter(p.pieces[i].head, p.pieces[i].sub)
      BY <1>6, <3>1
    <3>3. j \in 1..Len(subtasks \o last)
      BY <1>2, <1>8, <2>1, <3>1
    <3> QED  BY <2>1, <3>1, <3>2, <3>3 DEF Elems
  <2> QED  BY <2>1, <2>2 DEF Called, len
<1>10. vs \cup Elems(params) \subseteq DOMAIN p.master
  <2>1. VariablesOf(MethodPrecs(p)) \subseteq DOMAIN p.master
    <3>1. MethodPrecs(p) \in SUBSET Over(DOMAIN p.master)
      BY MethodPrecsFacts
    <3>2. \A l \in MethodPrecs(p) : Elems(l.args) \subseteq DOMAIN p.master
      BY <3>1, ElemsType DEF Over
    <3> QED  BY <3>2 DEF VariablesOf
  <2>2. \A i \in 1..Len(subtasks) : Elems(subtasks[i].args) \subseteq DOMAIN p.master
    BY <1>6, <1>7, ElemsType
  <2>3. Elems(params) \subseteq DOMAIN p.master
    BY <1>4, ElemsType
  <2> QED  BY <2>1, <2>2, <2>3
<1>11. IsFiniteSet(vs \cup Elems(params))
  BY <1>2, <1>10, FS_Subset
<1> HIDE DEF vs
<1>12. /\ more \in SUBSET Over(DOMAIN p.master) /\ IsFiniteSet(more)
       /\ \A l \in more : /\ gen /\ ~l.pos /\ l.pred = "=" /\ Len(l.args) = 2 /\ l.args[1] # l.args[2]
                          /\ l.args[1] \in DOMAIN p.master /\ l.args[2] \in DOMAIN p.master
  <2>1. CASE gen
    <3>0. more = Inequalities(MethodPrecs(p), vs \cup Elems(params))
      BY <2>1
    <3> DEFINE all == vs \cup Elems(params)
               ineqs == Inequalities(MethodPrecs(p), all)
    <3> HIDE DEF more, all
    <3>4. /\ ineqs \in SUBSET Over(all) /\ IsFiniteSet(ineqs)
          /\ \A l \in ineqs :
               ~l.pos /\ l.pred = "=" /\ Len(l.args) = 2 /\ l.args[1] # l.args[2]
               /\ l.args[1] \in all /\ l.args[2] \in all
      <4>1. IsFiniteSet(all)
        BY <1>11 DEF all
      <4> QED  BY <4>1, InequalitiesFacts, Zenon
    <3>5. more = ineqs
      BY <3>0 DEF all
    <3> HIDE DEF ineqs
    <3>1. /\ more \in SUBSET Over(vs \cup Elems(params)) /\ IsFiniteSet(more)
          /\ \A l \in more : /\ ~l.pos /\ l.pred = "=" /\ Len(l.args) = 2 /\ l.args[1] # l.args[2]
                             /\ l.args[1] \in vs \cup Elems(params) /\ l.args[2] \in vs \cup Elems(params)
      BY <3>4, <3>5 DEF all
    <3>2. Over(vs \cup Elems(params)) \subseteq Over(DOMAIN p.master)
      BY <1>10 DEF Over
    <3> QED  BY <1>10, <2>1, <3>1, <3>2
  <2>2. CASE ~gen
    <3>1. more = {}
      BY <2>2
    <3> QED  BY <3>1, FS_EmptySet
  <2> QED  BY <2>1, <2>2
<1> HIDE DEF more
<1>13. /\ b.name = p.task.name /\ b.params = params /\ b.precs = MethodPrecs(p) \cup more
       /\ b.subtasks = subtasks \o last
  BY <1>1
<1>14. /\ b.precs \in SUBSET Over(DOMAIN p.master) /\ Regressible(b.precs)
  <2>1. /\ MethodPrecs(p) \in SUBSET Over(DOMAIN p.master) /\ IsFiniteSet(MethodPrecs(p)) /\ Positive(MethodPrecs(p))
    BY MethodPrecsFacts
  <2>2. b.precs \in SUBSET Over(DOMAIN p.master)
    BY <1>12, <1>13, <2>1
  <2>3. b.precs \in SUBSET Literal /\ \A l \in b.precs : l.args \in Seq(Variable)
    BY <1>3, <2>2, OverLiteral
  <2>4. IsFiniteSet(b.precs)
    <3>1. IsFiniteSet(MethodPrecs(p) \cup more)
      BY <1>12, <2>1, FS_Union
    <3> QED  BY <1>13, <3>1
  <2>5. \A l \in b.precs : l.pos \/ l.pred = "="
    BY <1>12, <1>13, <2>1 DEF Positive
  <2> QED  BY <2>2, <2>3, <2>4, <2>5 DEF Regressible, Lifted
<1>15. b \in AnyBody
  <2>1. MethodPrecs(p) \cup more \in SUBSET Literal
    BY <1>13, <1>14 DEF Regressible, Lifted
  <2>2. params \in Seq(Variable) /\ p.task.name \in TaskName
    BY <1>2, <1>3, <1>4 DEF TaskName
  <2>3. subtasks \o last \in Seq(TaskHead)
    <3>1. LiftedHead \subseteq TaskHead
      BY DEF LiftedHead
    <3> HIDE DEF LiftedHead
    <3> QED  BY <1>9, <3>1
  <2> HIDE DEF b
  <2> QED  BY <1>1, <2>1, <2>2, <2>3 DEF AnyBody
<1> HIDE DEF b
<1>16. Usable(b)
  BY <1>2, <1>4, <1>9, <1>13, <1>14, <1>15 DEF Usable, Regressible
<1>17. \A l \in b.precs : l \in LiftedPrecs(p) \cup p.precs \cup p.adds \/ l \in more
  BY <1>13, MethodPrecsFacts
<1>18. MadeOf(b, p)
  BY <1>4, <1>9, <1>12, <1>13, <1>14, <1>16, <1>17 DEF MadeOf
<1> QED  BY <1>18 DEF b

LEMMA ElemsOfConcat ==
  ASSUME NEW S, NEW s \in Seq(S), NEW r \in Seq(S)
  PROVE  s \o r \in Seq(S) /\ Elems(s) \subseteq Elems(s \o r) /\ Elems(r) \subseteq Elems(s \o r)
<1>1. /\ s \o r \in Seq(S) /\ Len(s \o r) = Len(s) + Len(r)
      /\ \A i \in 1..Len(s) + Len(r) : (s \o r)[i] = IF i <= Len(s) THEN s[i] ELSE r[i - Len(s)]
  BY ConcatProperties, Zenon
<1>2. Len(s) \in Nat /\ Len(r) \in Nat
  OBVIOUS
<1>3. ASSUME NEW i \in 1..Len(s)
      PROVE  i \in 1..Len(s \o r) /\ (s \o r)[i] = s[i]
  BY <1>1, <1>2
<1>4. ASSUME NEW i \in 1..Len(r)
      PROVE  Len(s) + i \in 1..Len(s \o r) /\ (s \o r)[Len(s) + i] = r[i]
  BY <1>1, <1>2
<1>5. Elems(s) \subseteq Elems(s \o r)
  BY <1>3 DEF Elems
<1>6. Elems(r) \subseteq Elems(s \o r)
  BY <1>4 DEF Elems
<1> QED  BY <1>1, <1>5, <1>6

\* What SubtasksWithCheckers adds after subtask i.
CheckersAfter(b, i) ==
  IF b.subtasks[i].name \in DOMAIN CheckerOf /\ ~(i < Len(b.subtasks) /\ b.subtasks[i + 1] = CheckTask(b.subtasks[i]))
  THEN <<CheckTask(b.subtasks[i])>> ELSE <<>>

\* The checker of an outcome is a subtask over the same variables.
LEMMA CheckersAfterType ==
  ASSUME NEW b, b.subtasks \in Seq(LiftedHead), NEW i \in 1..Len(b.subtasks)
  PROVE  /\ CheckersAfter(b, i) \in Seq(LiftedHead)
         /\ \/ CheckersAfter(b, i) = <<>>
            \/ \E h \in LiftedHead : CheckersAfter(b, i) = <<h>> /\ h.name \in CheckNames
<1> DEFINE g == b.subtasks[i]
<1>1. CASE g.name \in DOMAIN CheckerOf
  <2>1. /\ g.name \in TaskName /\ g.args \in Seq(Term) /\ Len(g.args) = Arity[g.name] /\ g.args \in Seq(Variable)
    BY DEF LiftedHead, TaskHead, WithArity
  <2>2. CheckerOf[g.name] \in Compound /\ Arity[CheckerOf[g.name]] = Arity[g.name]
    BY <1>1, CheckerAssumption, MakerAssumption
  <2>3. CheckTask(g) \in LiftedHead /\ CheckTask(g).name \in CheckNames
    BY <1>1, <2>1, <2>2 DEF CheckTask, LiftedHead, TaskHead, WithArity, TaskName, CheckNames
  <2> HIDE DEF LiftedHead, g
  <2>4. CheckersAfter(b, i) = <<CheckTask(g)>> \/ CheckersAfter(b, i) = <<>>
    BY Zenon DEF CheckersAfter, g
  <2>5. <<CheckTask(g)>> \in Seq(LiftedHead) /\ <<>> \in Seq(LiftedHead)
    BY <2>3
  <2> QED  BY <2>3, <2>4, <2>5, Zenon
<1>2. CASE g.name \notin DOMAIN CheckerOf
  BY <1>2 DEF CheckersAfter
<1> QED  BY <1>1, <1>2

\* Its recursion is defined.
LEMMA CheckersRecursion ==
  ASSUME NEW b, b.subtasks \in Seq(LiftedHead)
  PROVE  \E after :
           /\ SubtasksWithCheckers(b) = after[Len(b.subtasks)] /\ after[0] = <<>>
           /\ \A i \in 1..Len(b.subtasks) : after[i] = after[i - 1] \o <<b.subtasks[i]>> \o CheckersAfter(b, i)
<1> DEFINE st == b.subtasks
           c  == Len(st)
           T  == Seq(LiftedHead)
           checkers(i) ==
             IF st[i].name \in DOMAIN CheckerOf /\ ~(i < Len(st) /\ st[i + 1] = CheckTask(st[i]))
             THEN <<CheckTask(st[i])>> ELSE <<>>
           step == [p \in (1..c) \X T |-> p[2] \o <<st[p[1]]>> \o checkers(p[1])]
           Body(f) == [i \in 0..c |-> IF i = 0 THEN <<>> ELSE f[i - 1] \o <<st[i]>> \o checkers(i)]
<1>1. c \in Nat /\ <<>> \in T /\ \A i \in 1..c : st[i] \in LiftedHead
  OBVIOUS
<1>2. ASSUME NEW i \in 1..c, NEW s \in T
      PROVE  s \o <<st[i]>> \o CheckersAfter(b, i) \in T
  <2>1. s \o <<st[i]>> \in T
    BY <1>1, ElemsOfConcat
  <2>2. CheckersAfter(b, i) \in T
    BY CheckersAfterType
  <2> QED  BY <2>1, <2>2, ElemsOfConcat
<1>10. \A i : checkers(i) = CheckersAfter(b, i)
  BY Zenon DEF CheckersAfter
<1> HIDE DEF T, c, checkers
<1>3. step \in [(1..c) \X T -> T]
  BY <1>2, <1>10
<1>4. PICK f \in [0..c -> T] : f[0] = <<>> /\ \A i \in 1..c : f[i] = step[<<i, f[i - 1]>>]
  <2> HIDE DEF step
  <2>1. Iterations(T, <<>>, c, step) # {}
    BY <1>1, <1>3, Recursion
  <2> QED  BY <2>1 DEF Iterations
<1>5. ASSUME NEW i \in 1..c
      PROVE  f[i] = f[i - 1] \o <<st[i]>> \o checkers(i)
  <2>1. i - 1 \in 0..c
    BY <1>1
  <2>2. <<i, f[i - 1]>> \in (1..c) \X T
    BY <2>1
  <2> QED  BY <1>4, <2>2
<1>6. f = Body(f)
  <2>1. f = [i \in 0..c |-> f[i]]
    BY <1>4
  <2>2. \A i \in 0..c : f[i] = IF i = 0 THEN <<>> ELSE f[i - 1] \o <<st[i]>> \o checkers(i)
    BY <1>1, <1>4, <1>5
  <2> QED  BY <2>1, <2>2
<1> DEFINE after == CHOOSE g : g = Body(g)
<1>7. SubtasksWithCheckers(b) = after[c]
  BY Zenon DEF SubtasksWithCheckers, c, checkers
<1>8. after = Body(after)
  <2>1. \E g : g = Body(g)
    BY <1>6, Zenon
  <2> QED  BY <2>1, Zenon
<1> HIDE DEF after, step
<1>9. after[0] = <<>> /\ \A i \in 1..c : after[i] = after[i - 1] \o <<st[i]>> \o checkers(i)
  <2>1. \A i \in 0..c : after[i] = IF i = 0 THEN <<>> ELSE after[i - 1] \o <<st[i]>> \o checkers(i)
    BY <1>8, Zenon
  <2>2. 0 \in 0..c /\ \A i \in 1..c : i \in 0..c /\ i # 0
    BY <1>1
  <2> QED  BY <2>1, <2>2, Zenon
<1> QED  BY <1>7, <1>9, <1>10, Zenon DEF c

\* The subtasks are all still there when checkers are put in between.
LEMMA CheckersFacts ==
  ASSUME NEW b, b.subtasks \in Seq(LiftedHead)
  PROVE  SubtasksWithCheckers(b) \in Seq(LiftedHead) /\ Elems(b.subtasks) \subseteq Elems(SubtasksWithCheckers(b))
<1> DEFINE st == b.subtasks
           c  == Len(st)
           T  == Seq(LiftedHead)
<1>1. c \in Nat /\ <<>> \in T /\ \A i \in 1..c : st[i] \in LiftedHead
  OBVIOUS
<1>2. ASSUME NEW i \in 1..c, NEW s \in T
      PROVE  LET r == s \o <<st[i]>> \o CheckersAfter(b, i)
             IN  r \in T /\ Elems(s) \subseteq Elems(r) /\ st[i] \in Elems(r)
  <2> DEFINE mid == s \o <<st[i]>>
  <2>1. <<st[i]>> \in T /\ Elems(<<st[i]>>) = {st[i]}
    BY <1>1 DEF Elems
  <2>2. mid \in T /\ Elems(s) \subseteq Elems(mid) /\ st[i] \in Elems(mid)
    BY <2>1, ElemsOfConcat
  <2>3. CheckersAfter(b, i) \in T
    BY CheckersAfterType
  <2> HIDE DEF mid
  <2>4. mid \o CheckersAfter(b, i) \in T /\ Elems(mid) \subseteq Elems(mid \o CheckersAfter(b, i))
    BY <2>2, <2>3, ElemsOfConcat
  <2> QED  BY <2>2, <2>4 DEF mid
<1> HIDE DEF T, c
<1>3. PICK after :
        /\ SubtasksWithCheckers(b) = after[c] /\ after[0] = <<>>
        /\ \A i \in 1..c : after[i] = after[i - 1] \o <<st[i]>> \o CheckersAfter(b, i)
  BY CheckersRecursion DEF c
<1> DEFINE S == {i \in Nat : i <= c => after[i] \in T /\ \A j \in 1..i : st[j] \in Elems(after[i])}
<1>4. 0 \in S
  BY <1>1, <1>3
<1>5. ASSUME NEW i \in Nat, i \in S
      PROVE  i + 1 \in S
  <2> SUFFICES ASSUME i + 1 <= c PROVE after[i + 1] \in T /\ \A j \in 1..(i + 1) : st[j] \in Elems(after[i + 1])
    OBVIOUS
  <2>1. i + 1 \in 1..c /\ i + 1 - 1 = i /\ after[i] \in T /\ \A j \in 1..i : st[j] \in Elems(after[i])
    BY <1>1, <1>5
  <2>2. after[i + 1] = after[i] \o <<st[i + 1]>> \o CheckersAfter(b, i + 1)
    <3> DEFINE next(s, j) == s \o <<st[j]>> \o CheckersAfter(b, j)
    <3>1. \A j \in 1..c : after[j] = next(after[j - 1], j)
      BY <1>3
    <3> HIDE DEF next
    <3>2. after[i + 1] = next(after[i], i + 1)
      BY <2>1, <3>1
    <3> QED  BY <3>2 DEF next
  <2>3. after[i + 1] \in T /\ Elems(after[i]) \subseteq Elems(after[i + 1]) /\ st[i + 1] \in Elems(after[i + 1])
    BY <1>2, <2>1, <2>2
  <2> QED  BY <2>1, <2>3
<1>6. Nat \subseteq S
  <2> HIDE DEF S
  <2> QED  BY <1>4, <1>5, Induction
<1>7. after[c] \in T /\ \A j \in 1..c : st[j] \in Elems(after[c])
  BY <1>1, <1>6
<1> QED  BY <1>3, <1>7 DEF T, c, Elems

\* Checkers change nothing else of a method.
LEMMA WithCheckers ==
  ASSUME NEW b, NEW p, MadeOf(b, p)
  PROVE  MadeOf(WithNdCheckers(b), p)
<1> DEFINE st == SubtasksWithCheckers(b)
           subtasks == IF b.name \in CheckNames /\ Last(st) # HeadOf(b) THEN Append(st, HeadOf(b)) ELSE st
           c == WithNdCheckers(b)
<1>1. /\ b \in AnyBody /\ b.name \in Compound /\ Len(b.params) = Arity[b.name] /\ Usable(b)
  BY DEF MadeOf, Usable
<1>2. b.subtasks \in Seq(LiftedHead) /\ b.params \in Seq(Variable)
  BY <1>1 DEF AnyBody, Usable
<1>3. st \in Seq(LiftedHead) /\ Elems(b.subtasks) \subseteq Elems(st)
  BY <1>2, CheckersFacts
<1>4. HeadOf(b) \in LiftedHead
  <2>1. b.params \in Seq(Term)
    BY <1>2 DEF Term
  <2> QED  BY <1>1, <1>2, <2>1 DEF HeadOf, LiftedHead, TaskHead, WithArity, TaskName
<1> HIDE DEF st
<1>5. Append(st, HeadOf(b)) \in Seq(LiftedHead) /\ Elems(st) \subseteq Elems(Append(st, HeadOf(b)))
  <2>1. Append(st, HeadOf(b)) \in Seq(LiftedHead) /\ Len(Append(st, HeadOf(b))) = Len(st) + 1
    BY <1>3, <1>4
  <2>2. Len(st) \in Nat /\ \A i \in 1..Len(st) : Append(st, HeadOf(b))[i] = st[i]
    BY <1>3, <1>4
  <2> QED  BY <2>1, <2>2 DEF Elems
<1>6. subtasks \in Seq(LiftedHead) /\ Elems(b.subtasks) \subseteq Elems(subtasks)
  BY <1>3, <1>5
<1>7. c = [b EXCEPT !.subtasks = subtasks]
  BY DEF WithNdCheckers, st
<1> HIDE DEF subtasks, c
<1>11. subtasks \in Seq(TaskHead)
  <2>1. LiftedHead \subseteq TaskHead
    BY DEF LiftedHead
  <2> HIDE DEF LiftedHead
  <2> QED  BY <1>6, <2>1
<1>8. c \in AnyBody /\ c.name = b.name /\ c.params = b.params /\ c.precs = b.precs /\ c.subtasks = subtasks
  BY <1>1, <1>7, <1>11 DEF AnyBody
<1>9. Usable(c)
  BY <1>1, <1>6, <1>8 DEF Usable
<1>10. MadeOf(c, p)
  BY <1>6, <1>8, <1>9 DEF MadeOf
<1> QED  BY <1>10 DEF c

LEMMA ActualEffectsType ==
  ASSUME NEW p, NEW n, PartOK(p, n)
  PROVE  ActualEffects(p) \in SUBSET Over(Variable)
<1>1. ASSUME NEW i \in 1..Len(p.pieces)
      PROVE  FormulaAfter(p.pieces[i].effects, p.pieces[i].sub) \in SUBSET Over(Variable)
  <2>1. p.pieces \in Seq(PieceType)
    BY DEF PartOK, PartType
  <2>2. p.pieces[i] \in PieceType
    BY <2>1
  <2>3. p.pieces[i].effects \in SUBSET Over(Variable) /\ p.pieces[i].sub \in Subst(Variable)
    BY <2>2 DEF PieceType
  <2>4. Into(p.pieces[i].sub, Variable) /\ Variable \ DOMAIN p.pieces[i].sub \subseteq Variable
    BY <2>3, SubstFacts
  <2> QED  BY <2>3, <2>4, PartialAfterType
<1> QED  BY <1>1 DEF ActualEffects

----------------------------------------------------------------------------
(* Tasks and the partial methods for them                                  *)

LEMMA TaskFacts ==
  ASSUME NEW j \in 1..Len(Tasks)
  PROVE  LET t == Tasks[j] IN
         /\ t \in TaskType /\ t.name \in Compound /\ t.name \notin CheckNames /\ Len(t.params) = Arity[t.name]
         /\ t.params \in Seq(Variable) /\ t.params \in Seq(Elems(t.params))
         /\ t.precs \in SUBSET Over(Elems(t.params)) /\ IsFiniteSet(t.precs) /\ Positive(t.precs)
         /\ t.effects \in SUBSET Over(Elems(t.params)) /\ IsFiniteSet(t.effects) /\ Positive(t.effects)
         /\ IsFiniteSet(Elems(t.params)) /\ Elems(t.params) \subseteq Variable
         /\ VerifierOf[t.name] \in Compound /\ Arity[VerifierOf[t.name]] = Arity[t.name]
<1> DEFINE t == Tasks[j]
<1>1. /\ t \in TaskDescr /\ Len(t.params) = Arity[t.name] /\ Regressible(t.precs) /\ Regressible(t.effects)
      /\ VariablesOf(t.precs \cup t.effects) \subseteq Elems(t.params)
      /\ t.name \notin CheckNames
      /\ VerifierOf[t.name] \in Compound /\ Arity[VerifierOf[t.name]] = Arity[t.name]
  <2>1. Tasks \in Seq(TaskDescr)
    BY MakerAssumption
  <2>2. t \in TaskDescr
    BY <2>1
  <2>3. /\ Len(t.params) = Arity[t.name] /\ Regressible(t.precs) /\ Regressible(t.effects)
        /\ VariablesOf(t.precs \cup t.effects) \subseteq Elems(t.params)
        /\ t.name \notin CheckNames
        /\ VerifierOf[t.name] \in Compound /\ Arity[VerifierOf[t.name]] = Arity[t.name]
    BY MakerAssumption
  <2> QED  BY <2>2, <2>3
<1> HIDE DEF t
<1>2. /\ t.name \in Compound /\ t.params \in Seq(Variable)
      /\ t = [name |-> t.name, params |-> t.params, precs |-> t.precs, effects |-> t.effects]
  BY <1>1 DEF TaskDescr
<1>3. Elems(t.params) \subseteq Variable /\ IsFiniteSet(Elems(t.params)) /\ t.params \in Seq(Elems(t.params))
  <2>1. Elems(t.params) \subseteq Variable /\ \A i \in 1..Len(t.params) : t.params[i] \in Elems(t.params)
    BY <1>2, ElemsType
  <2>2. t.params \in Seq(Elems(t.params))
    BY <1>2, <2>1
  <2> QED  BY <1>2, <2>1, <2>2, ElemsFinite
<1>4. ASSUME NEW form, Regressible(form), VariablesOf(form) \subseteq Elems(t.params)
      PROVE  form \in SUBSET Over(Elems(t.params)) /\ IsFiniteSet(form) /\ Positive(form)
  <2>1. form \in SUBSET Literal /\ (\A l \in form : l.args \in Seq(Variable)) /\ IsFiniteSet(form) /\ Positive(form)
    BY <1>4 DEF Regressible, Lifted, Positive
  <2> QED  BY <1>4, <2>1, OverVariables
<1>5. VariablesOf(t.precs) \subseteq Elems(t.params) /\ VariablesOf(t.effects) \subseteq Elems(t.params)
  BY <1>1 DEF VariablesOf
<1>6. /\ t.precs \in SUBSET Over(Elems(t.params)) /\ IsFiniteSet(t.precs) /\ Positive(t.precs)
      /\ t.effects \in SUBSET Over(Elems(t.params)) /\ IsFiniteSet(t.effects) /\ Positive(t.effects)
  BY <1>1, <1>4, <1>5
<1>7. t \in TaskType
  <2>1. t.precs \in SUBSET Over(Variable) /\ t.effects \in SUBSET Over(Variable)
    BY <1>3, <1>6, OverLiteral
  <2> QED  BY <1>2, <2>1 DEF TaskType
<1> QED  BY <1>1, <1>2, <1>3, <1>6, <1>7 DEF t

\* The instances of task j that become true, and those of any task that are.
PartialsOf(j, i) == {[task |-> Tasks[j], ground |-> g] : g \in JustAchieved(Tasks[j], i)}
TrueTasks(state) ==
  UNION {{[task |-> Tasks[j], ground |-> g] :
            g \in {f \in [Elems(Tasks[j].params) -> Object] : IsConsistent(Tasks[j].effects, f, state)}} :
         j \in 1..Len(Tasks)}

LEMMA StateConstants ==
  ASSUME trace \in Traces, NEW i \in 0..Len(trace.steps)
  PROVE  StateAt(i) \in SUBSET Atom /\ ConstantsOf(StateAt(i)) \subseteq Object
<1>1. trace.states[i + 1] \in SUBSET Atom
  BY TraceType
<1>2. \A a \in StateAt(i) : Elems(a.args) \subseteq Object
  BY <1>1, ElemsType DEF StateAt, Atom
<1> QED  BY <1>1, <1>2 DEF StateAt, ConstantsOf

LEMMA PartialsOfFacts ==
  ASSUME trace \in Traces, NEW i \in 1..Len(trace.steps), NEW j \in 1..Len(Tasks)
  PROVE  /\ IsFiniteSet(PartialsOf(j, i))
         /\ PartialsOf(j, i) \subseteq TrueTasks(StateAt(i))
<1> DEFINE V == Elems(Tasks[j].params)
           G == JustAchieved(Tasks[j], i)
<1>1. IsFiniteSet(V)
  BY TaskFacts
<1>2. ConstantsOf(StateAt(i)) \subseteq Object
  BY StateConstants, TraceType
<1>3. G \subseteq [V -> Object] /\ \A g \in G : IsConsistent(Tasks[j].effects, g, StateAt(i))
  BY <1>2 DEF JustAchieved
<1>4. IsFiniteSet(G)
  <2>1. IsFiniteSet([V -> Object])
    BY <1>1, FinitelyMany
  <2> HIDE DEF G
  <2> QED  BY <1>3, <2>1, FS_Subset
<1> DEFINE f == [g \in G |-> [task |-> Tasks[j], ground |-> g]]
<1>5. f \in [G -> PartialsOf(j, i)] /\ PartialsOf(j, i) = {f[g] : g \in G}
  BY DEF PartialsOf
<1> HIDE DEF f, G
<1>6. IsFiniteSet(PartialsOf(j, i))
  BY <1>4, <1>5, FiniteImage
<1>7. \A t \in PartialsOf(j, i) : \E g \in G : t = [task |-> Tasks[j], ground |-> g]
  BY DEF PartialsOf, G
<1>8. PartialsOf(j, i) \subseteq TrueTasks(StateAt(i))
  BY <1>3, <1>7 DEF TrueTasks
<1> QED  BY <1>6, <1>8

LEMMA JoinedFacts ==
  ASSUME NEW S, NEW R, NEW e \in Joined(S, R)
  PROVE  \E x \in S, r \in R : e = x \o r
<1> QED  BY DEF Joined

\* The list that NextFinalState makes holds only such instances.
LEMMA PartialsFacts ==
  ASSUME trace \in Traces, NEW i \in 1..Len(trace.steps), NEW s \in Partials(i)
  PROVE  s \in Seq(TrueTasks(StateAt(i)))
<1> DEFINE of(j) == {[task |-> Tasks[j], ground |-> g] : g \in JustAchieved(Tasks[j], i)}
           next(A, j) == Joined(A, SetToSeqs(of(j)))
           c == Len(Tasks)
           Q == Seq(TrueTasks(StateAt(i)))
           T == SUBSET Q
           step == [p \in (1..c) \X T |-> next(p[2], p[1])]
           Body(f) == [j \in 0..c |-> IF j = 0 THEN {<<>>} ELSE next(f[j - 1], j)]
<1>1. c \in Nat /\ {<<>>} \in T
  <2>1. Tasks \in Seq(TaskDescr)
    BY MakerAssumption
  <2> QED  BY <2>1
<1>2. ASSUME NEW j \in 1..c, NEW S \in T
      PROVE  next(S, j) \in T
  <2> SUFFICES ASSUME NEW e \in next(S, j)
               PROVE  e \in Q
    OBVIOUS
  <2>6. PICK x \in S, r \in SetToSeqs(of(j)) : e = x \o r
    <3>1. e \in Joined(S, SetToSeqs(of(j)))
      OBVIOUS
    <3> DEFINE R == SetToSeqs(of(j))
    <3> HIDE DEF of, next, R
    <3>2. \E x \in S, r \in R : e = x \o r
      BY <3>1, JoinedFacts DEF R
    <3> QED  BY <3>2 DEF R
  <2>7. x \in Q
    OBVIOUS
  <2>1. of(j) = PartialsOf(j, i)
    BY DEF PartialsOf
  <2>2. Cardinality(PartialsOf(j, i)) \in Nat
    BY PartialsOfFacts, FS_CardinalityType
  <2>3. r \in [1..Cardinality(PartialsOf(j, i)) -> PartialsOf(j, i)]
    BY <2>1 DEF SetToSeqs
  <2>4. PartialsOf(j, i) \subseteq TrueTasks(StateAt(i))
    BY PartialsOfFacts
  <2>5. r \in Seq(TrueTasks(StateAt(i)))
    BY <2>2, <2>3, <2>4
  <2> HIDE DEF of
  <2> QED  BY <2>5, <2>6, <2>7, ElemsOfConcat
<1> HIDE DEF c, Q, of, next
<1>3. step \in [(1..c) \X T -> T]
  BY <1>2
<1>4. PICK f \in [0..c -> T] : f[0] = {<<>>} /\ \A j \in 1..c : f[j] = step[<<j, f[j - 1]>>]
  <2> HIDE DEF step, T
  <2>1. Iterations(T, {<<>>}, c, step) # {}
    BY <1>1, <1>3, Recursion
  <2> QED  BY <2>1 DEF Iterations
<1>5. ASSUME NEW j \in 1..c
      PROVE  f[j] = next(f[j - 1], j)
  <2>1. j - 1 \in 0..c
    BY <1>1
  <2>2. <<j, f[j - 1]>> \in (1..c) \X T
    BY <2>1
  <2> QED  BY <1>4, <2>2
<1>6. f = Body(f)
  <2>1. f = [j \in 0..c |-> f[j]]
    BY <1>4
  <2>2. \A j \in 0..c : f[j] = IF j = 0 THEN {<<>>} ELSE next(f[j - 1], j)
    BY <1>1, <1>4, <1>5
  <2> QED  BY <2>1, <2>2
<1> DEFINE inOrder == CHOOSE g : g = Body(g)
<1>7. Partials(i) = inOrder[c]
  BY Zenon DEF Partials, c, of, next
<1>8. inOrder = Body(inOrder)
  <2>1. \E g : g = Body(g)
    BY <1>6, Zenon
  <2> QED  BY <2>1, Zenon
<1> HIDE DEF inOrder, step, T
<1>9. inOrder[0] = {<<>>} /\ \A j \in 1..c : inOrder[j] = next(inOrder[j - 1], j)
  <2> DEFINE g == inOrder
  <2>1. inOrder = [j \in 0..c |-> IF j = 0 THEN {<<>>} ELSE next(g[j - 1], j)]
    BY <1>8, Zenon
  <2> HIDE DEF g
  <2>2. inOrder[0] = {<<>>} /\ \A j \in 1..c : inOrder[j] = next(g[j - 1], j)
    BY <1>1, <2>1
  <2> QED  BY <2>2 DEF g
<1> DEFINE S == {j \in Nat : j <= c => inOrder[j] \in T}
<1>10. 0 \in S
  BY <1>1, <1>9
<1>11. ASSUME NEW j \in Nat, j \in S
       PROVE  j + 1 \in S
  <2> SUFFICES ASSUME j + 1 <= c PROVE inOrder[j + 1] \in T
    OBVIOUS
  <2>1. j + 1 \in 1..c /\ j + 1 - 1 = j /\ inOrder[j] \in T
    BY <1>1, <1>11
  <2> QED  BY <1>2, <1>9, <2>1
<1>12. Nat \subseteq S
  <2> HIDE DEF S
  <2> QED  BY <1>10, <1>11, Induction
<1>13. inOrder[c] \in T
  BY <1>1, <1>12
<1> QED  BY <1>7, <1>13 DEF T, Q

\* The fields of a new partial method.
LEMMA NewPartialFields ==
  ASSUME NEW task, NEW ground, NEW vs, DOMAIN vs = DOMAIN ground, NEW last
  PROVE  NewPartial(task, ground, vs, last) =
           [task |-> task, taskSub |-> vs, master |-> ValuesOf(vs, ground),
            adds |-> WithNew({}, FormulaAfter(task.effects, vs)), precs |-> {}, pieces |-> <<>>,
            init |-> 0, final |-> last, current |-> last, cost |-> 0]
<1> DEFINE F(D) == [v \in Range(vs) |-> ground[CHOOSE x \in D : vs[x] = v]]
           D1 == DOMAIN vs
           D2 == DOMAIN ground
<1>1. F(D1) = F(D2)
  <2> HIDE DEF F
  <2> QED  OBVIOUS
<1>2. ValuesOf(vs, ground) = F(D2)
  BY Zenon DEF ValuesOf
<1>3. NewPartial(task, ground, vs, last) =
           [task |-> task, taskSub |-> vs, master |-> F(D1),
            adds |-> WithNew({}, FormulaAfter(task.effects, vs)), precs |-> {}, pieces |-> <<>>,
            init |-> 0, final |-> last, current |-> last, cost |-> 0]
  BY Zenon DEF NewPartial
<1> HIDE DEF F
<1> QED  BY <1>1, <1>2, <1>3

LEMMA NewPartialFacts ==
  ASSUME FreshNames, NEW task \in TaskType, Len(task.params) = Arity[task.name],
         NEW ground \in Subst(Object), IsFiniteSet(DOMAIN ground), task.params \in Seq(DOMAIN ground),
         task.precs \in SUBSET Over(DOMAIN ground), IsFiniteSet(task.precs), Positive(task.precs),
         task.effects \in SUBSET Over(DOMAIN ground), IsFiniteSet(task.effects), Positive(task.effects),
         NEW n \in Nat, NEW first \in Nat, NEW last \in Nat, first <= last
  PROVE  LET p == [NewPartial(task, ground, NewVars(DOMAIN ground, n), last) EXCEPT !.init = first]
             c == n + Cardinality(DOMAIN ground)
         IN  /\ c \in Nat /\ PartOK(p, c) /\ p.task = task /\ p.init = first /\ p.final = last
             /\ p.current = last /\ p.pieces = <<>> /\ GroundGoals(p) \subseteq FormulaAfter(task.effects, ground)
<1> DEFINE vs == NewVars(DOMAIN ground, n)
           master == ValuesOf(vs, ground)
           adds == WithNew({}, FormulaAfter(task.effects, vs))
           c == n + Cardinality(DOMAIN ground)
           q == NewPartial(task, ground, vs, last)
           p == [q EXCEPT !.init = first]
<1>1. /\ Cardinality(DOMAIN ground) \in Nat /\ DOMAIN vs = DOMAIN ground /\ IsInjective(vs)
      /\ Into(vs, Names(n, c)) /\ vs \in [DOMAIN ground -> Variable]
  BY NewVarsFacts
<1>2. q = [task |-> task, taskSub |-> vs, master |-> master, adds |-> adds, precs |-> {}, pieces |-> <<>>,
           init |-> 0, final |-> last, current |-> last, cost |-> 0]
  <2> HIDE DEF vs
  <2> QED  BY <1>1, NewPartialFields
<1> HIDE DEF vs
<1>3. Into(vs, Variable) /\ DOMAIN ground \subseteq Variable
  BY <1>1, SubstFacts DEF Into
<1>4. /\ master \in Subst(Object) /\ DOMAIN master = Range(vs) /\ Into(vs, DOMAIN master)
      /\ Composed(vs, master) = ground /\ IsFiniteSet(DOMAIN master)
  BY <1>1, <1>3, RenamedSubstitution
<1> HIDE DEF master
<1>5. adds \subseteq FormulaAfter(task.effects, vs)
  BY WithNewFacts
<1> HIDE DEF adds, q
<1>6. FormulaAfter(task.effects, vs) \in SUBSET Over(DOMAIN master) /\ IsFiniteSet(adds)
  <2>1. FormulaAfter(task.effects, vs) \in SUBSET Over(DOMAIN master)
    BY <1>1, <1>4, FormulaAfterType
  <2>2. IsFiniteSet(FormulaAfter(task.effects, vs))
    BY FormulaFinite
  <2> QED  BY <1>5, <2>1, <2>2, FS_Subset
<1>7. FormulaAfter(FormulaAfter(task.effects, vs), master) = FormulaAfter(task.effects, ground)
  <2>1. FormulaAfter(FormulaAfter(task.effects, vs), master) = FormulaAfter(task.effects, Composed(vs, master))
    BY <1>1, <1>4, FormulaComposed
  <2> QED  BY <1>4, <2>1
<1>8. DOMAIN master \subseteq Names(0, c)
  <2>1. Names(n, c) \subseteq Names(0, c)
    BY <1>1, NamesFacts
  <2> QED  BY <1>1, <1>4, <2>1 DEF Into, Range
<1>9. adds \in SUBSET Over(Variable)
  <2>1. DOMAIN master \subseteq Variable
    BY <1>4, SubstFacts
  <2> QED  BY <1>5, <1>6, <2>1, OverLiteral
<1>10. vs \in Subst(Variable)
  BY <1>1, <1>3 DEF Subst
<1>11. <<>> \in Seq(PieceType) /\ Len(<<>>) = 0
  OBVIOUS
<1>12. /\ p \in PartType /\ p.task = task /\ p.taskSub = vs /\ p.master = master /\ p.adds = adds /\ p.precs = {}
       /\ p.pieces = <<>> /\ p.init = first /\ p.final = last /\ p.current = last
  <2>1. /\ q.task = task /\ q.taskSub = vs /\ q.master = master /\ q.adds = adds /\ q.precs = {}
        /\ q.pieces = <<>> /\ q.final = last /\ q.current = last
    BY <1>2
  <2>2. q \in PartType
    <3>1. {} \in SUBSET Over(Variable) /\ 0 \in Nat /\ master \in Subst(Object)
      BY <1>4
    <3> QED  BY <1>2, <1>9, <1>10, <1>11, <3>1 DEF PartType
  <2> QED  BY <2>1, <2>2 DEF PartType
<1> HIDE DEF p
<1>13. GroundGoals(p) \subseteq FormulaAfter(task.effects, ground) /\ Goals(p) \subseteq FormulaAfter(task.effects, vs)
  <2>1. Goals(p) = adds
    BY <1>12 DEF Goals
  <2> QED  BY <1>5, <1>7, <1>12, <2>1, FormulaParts DEF GroundGoals
<1>14. GoalsOK(p)
  <2>1. Positive(FormulaAfter(task.effects, ground))
    BY PositiveAfter
  <2>2. Positive(GroundGoals(p))
    BY <1>13, <2>1 DEF Positive
  <2>3. IsFiniteSet(p.adds) /\ IsFiniteSet(p.precs)
    BY <1>6, <1>12, FS_EmptySet
  <2> QED  BY <1>6, <1>12, <1>13, <2>2, <2>3 DEF GoalsOK
<1>15. TaskOK(p)
  BY <1>1, <1>12 DEF TaskOK
<1>16. Keeps(p, p)
  <2>1. Same(p.taskSub, p.master, p.taskSub, p.master)
    BY <1>4, <1>12 DEF Same, Into
  <2>2. Len(p.pieces) = 0
    BY <1>11, <1>12
  <2> QED  BY <2>1, <2>2 DEF Keeps
<1>17. PartOK(p, c)
  <2>1. Len(p.pieces) = 0
    BY <1>11, <1>12
  <2> QED  BY <1>4, <1>8, <1>12, <1>14, <1>15, <1>16, <2>1 DEF PartOK
<1> QED  BY <1>1, <1>12, <1>13, <1>17 DEF p, q, vs

\* A substitution that satisfies the preconditions of a method.
LEMMA SatisfyingFacts ==
  ASSUME NEW b, Usable(b), b.name \notin CheckNames, NEW task, NEW state, NEW sub \in Satisfying(b, task, state)
  PROVE  Bound(b, sub) /\ \A g \in FormulaAfter(b.precs, sub) : True(g, state)
<1>1. sub \in [BoundVariables(b) -> Object] /\ IsConsistent(b.precs, sub, state)
  BY DEF Satisfying, Grounding
<1>2. b.params \in Seq(Variable) /\ Lifted(b.precs)
  BY DEF Usable, AnyBody
<1>3. /\ b.precs \in SUBSET Literal /\ IsFiniteSet(b.precs) /\ \A l \in b.precs : l.args \in Seq(Variable)
  BY <1>2 DEF Lifted
<1>4. /\ Elems(b.params) \subseteq Variable /\ IsFiniteSet(Elems(b.params))
      /\ \A i \in 1..Len(b.params) : b.params[i] \in Elems(b.params)
  BY <1>2, ElemsType, ElemsFinite
<1>5. VariablesOf(b.precs) \subseteq Variable /\ IsFiniteSet(VariablesOf(b.precs))
  BY <1>3, VariablesOfFormula, VariablesFinite
<1>6. BoundVariables(b) \in SUBSET Variable /\ IsFiniteSet(BoundVariables(b))
  BY <1>4, <1>5, FS_Union DEF BoundVariables
<1>7. sub \in Subst(Object) /\ DOMAIN sub = BoundVariables(b)
  BY <1>1, <1>6 DEF Subst
<1>8. b.params \in Seq(BoundVariables(b))
  <2>1. \A i \in 1..Len(b.params) : b.params[i] \in BoundVariables(b)
    BY <1>4 DEF BoundVariables
  <2> QED  BY <1>2, <2>1
<1>9. b.precs \in SUBSET Over(BoundVariables(b))
  <2>1. VariablesOf(b.precs) \subseteq BoundVariables(b)
    BY DEF BoundVariables
  <2> QED  BY <1>3, <2>1, OverVariables
<1>10. \A g \in FormulaAfter(b.precs, sub) : True(g, state)
  BY <1>1, <1>9, ConsistentAfter
<1> QED  BY <1>6, <1>7, <1>8, <1>9, <1>10 DEF Bound

----------------------------------------------------------------------------
(* What is chosen exists                                                   *)

LEMMA SmallestFacts ==
  ASSUME NEW S, S \subseteq Nat, S # {}
  PROVE  SmallestOf(S) \in S /\ \A y \in S : SmallestOf(S) <= y
<1>1. \E x \in S : \A y \in S : x <= y
  BY Least
<1> QED  BY <1>1 DEF SmallestOf

LEMMA LargestFacts ==
  ASSUME NEW n \in Nat, NEW S, S \subseteq 0..n, S # {}
  PROVE  LargestOf(S) \in S
<1> DEFINE R == {n - x : x \in S}
<1>1. R \subseteq Nat /\ R # {}
  OBVIOUS
<1>2. PICK r \in R : \A q \in R : r <= q
  BY <1>1, Least
<1>3. PICK x \in S : r = n - x
  OBVIOUS
<1>4. \A y \in S : y <= x
  <2> TAKE y \in S
  <2>1. n - y \in R
    OBVIOUS
  <2>2. r <= n - y /\ x \in Int /\ y \in Int
    BY <1>2, <2>1
  <2> QED  BY <1>3, <2>2
<1>5. \E z \in S : \A y \in S : y <= z
  BY <1>4
<1> QED  BY <1>5 DEF LargestOf

LEMMA BestMethodFacts ==
  ASSUME insts \in Seq(InstType), Candidates # {}
  PROVE  BestMethod \in Candidates
<1> DEFINE C == Candidates
           b(x) == insts[x].before
           s(x) == Len(insts[x].method.subtasks)
<1>1. \A x \in C : x \in 1..Len(insts) /\ b(x) \in Nat /\ s(x) \in Nat
  <2> TAKE x \in C
  <2>1. x \in 1..Len(insts)
    BY DEF Candidates
  <2>2. insts[x] \in InstType
    BY <2>1
  <2>3. insts[x].method.subtasks \in Seq(TaskHead)
    BY <2>2 DEF InstType, AnyBody
  <2> QED  BY <2>1, <2>2, <2>3 DEF InstType
<1> DEFINE better(i, j) == b(i) < b(j) \/ (b(i) = b(j) /\ (s(i) < s(j) \/ (s(i) = s(j) /\ i < j)))
<1>2. BestMethod = CHOOSE i \in C : \A j \in C \ {i} : better(i, j)
  BY DEF BestMethod
<1> HIDE DEF C, b, s
<1>3. PICK x1 \in C : \A y \in C : b(x1) <= b(y)
  <2> DEFINE B == {b(x) : x \in C}
  <2>1. B \subseteq Nat /\ B # {}
    BY <1>1 DEF C
  <2>2. PICK z \in B : \A y \in B : z <= y
    BY <2>1, Least
  <2> QED  BY <2>2
<1> DEFINE C2 == {x \in C : b(x) = b(x1)}
<1>4. PICK x2 \in C2 : \A y \in C2 : s(x2) <= s(y)
  <2> DEFINE B == {s(x) : x \in C2}
  <2>1. B \subseteq Nat /\ B # {}
    BY <1>1
  <2>2. PICK z \in B : \A y \in B : z <= y
    BY <2>1, Least
  <2> QED  BY <2>2
<1> DEFINE C3 == {x \in C2 : s(x) = s(x2)}
<1>5. PICK x3 \in C3 : \A y \in C3 : x3 <= y
  <2>1. C3 \subseteq Nat /\ C3 # {}
    BY <1>1
  <2> HIDE DEF C3
  <2> QED  BY <2>1, Least
<1>6. \A j \in C \ {x3} : better(x3, j)
  <2> TAKE j \in C \ {x3}
  <2>1. /\ b(x3) = b(x1) /\ s(x3) = s(x2) /\ b(x1) <= b(j)
        /\ b(j) \in Nat /\ s(j) \in Nat /\ b(x1) \in Nat /\ s(x2) \in Nat /\ j \in Int /\ x3 \in Int
    BY <1>1, <1>3
  <2>2. CASE b(j) # b(x1)
    BY <2>1, <2>2
  <2>3. CASE b(j) = b(x1)
    <3>1. j \in C2 /\ s(x2) <= s(j)
      BY <1>4, <2>3
    <3>2. CASE s(j) # s(x2)
      BY <2>1, <2>3, <3>1, <3>2
    <3>3. CASE s(j) = s(x2)
      <4>1. x3 <= j /\ j # x3
        BY <1>5, <3>1, <3>3
      <4> QED  BY <2>1, <2>3, <3>3, <4>1
    <3> QED  BY <3>2, <3>3
  <2> QED  BY <2>2, <2>3
<1>7. x3 \in C /\ \E i \in C : \A j \in C \ {i} : better(i, j)
  BY <1>6
<1> HIDE DEF better
<1>8. BestMethod \in C
  BY <1>2, <1>7, Zenon
<1> QED  BY <1>8 DEF C

----------------------------------------------------------------------------
(* The inductive invariant                                                 *)

LibOK ==
  /\ lib \in Seq(Lib!Entry) /\ (\A i \in 1..Len(lib) : Usable(lib[i].body))
  /\ cand \in Lib!Entry /\ (libPc # "idle" => Usable(cand.body))
  /\ maxId \in Nat /\ m \in Nat \ {0} /\ inserted \in BOOLEAN /\ offered \in 0..MaxMethods
  /\ libPc \in {"idle", "find", "replace", "update"}

InstsOK ==
  /\ insts \in Seq(InstType) /\ made \in Nat
  /\ \A i \in 1..Len(insts) : InstOK(insts[i]) /\ insts[i].after <= final

\* Where the program is in its loops.
LoopsOK ==
  /\ flags \in FlagChoices /\ trace \in Traces
  /\ final \in 0..Len(trace.steps) /\ init \in 0..final /\ k \in Nat \ {0} /\ helped \in BOOLEAN
  /\ pc \in Ends \cup {"verifiers", "trivial", "partials", "pick", "regress", "checkers", "check"}
  /\ pc \in {"pick", "regress"} => init < final /\ todo \in Seq(TrueTasks(StateAt(final)))
  /\ pc \in {"checkers", "check"} => final # 0

PartialOK ==
  pc \in {"regress", "check"} =>
    /\ PartOK(part, made) /\ part.init = init /\ part.final <= Len(trace.steps)
    /\ pc = "regress" => part.final = final /\ \E j \in 1..Len(Tasks) : part.task = Tasks[j]

TypeInv == LibOK /\ InstsOK /\ LoopsOK /\ PartialOK

\* A step that some added method stands for supplies g.
Supplied(p, g) ==
  \E i \in 1..Len(p.pieces) :
    p.pieces[i].head.name \in Compound /\ AddsWithin(p.pieces[i].before, p.pieces[i].after, g)

AllDistinct == \A i \in 1..Len(insts) : Distinct(insts[i].sub)

\* OutstandingHold also says something of the state the regression ends in, but
\* not if it has gone there at once since the last step is of no use.
GoalsHold ==
  /\ pc \in {"regress", "check"} /\ (part.current > init \/ helped)
  /\ Distinct(part.master) /\ AllDistinct
  => \A g \in GroundGoals(part) : True(g, StateAt(part.current)) \/ Supplied(part, g)

\* The call that a piece is, with the constants of the plan.
CallOf(p, i) == TaskAfter(p.pieces[i].head, Composed(p.pieces[i].sub, p.master))

\* The methods that were added are annotations, which take the same steps.
PiecesAnnotated ==
  pc = "regress" =>
    \A i \in 1..Len(part.pieces) : part.pieces[i].head.name \in Compound =>
      \E j \in 1..Len(insts) :
        /\ insts[j].before = part.pieces[i].before /\ insts[j].after = part.pieces[i].after
        /\ TaskAfter(HeadOf(insts[j].method), insts[j].sub) = CallOf(part, i)

\* What AnnotationsHold says of instance number i.
NeedsHold(i) ==
  (\A j \in 1..i : Distinct(insts[j].sub))
  => \A g \in Needs(insts[i]) :
       \/ True(g, StateAt(insts[i].before))
       \/ \E j \in 1..(i - 1) :
            /\ insts[i].before <= insts[j].before /\ insts[j].after <= insts[i].after
            /\ TaskAfter(HeadOf(insts[j].method), insts[j].sub) \in Calls(insts[i])
            /\ AddsWithin(insts[j].before, insts[j].after, g)

IInv == TypeInv /\ GoalsHold /\ PiecesAnnotated /\ AnnotationsHold

LEMMA AnnotationsHoldParts ==
  AnnotationsHold <=> \A i \in 1..Len(insts) : NeedsHold(i)
<1> QED  BY DEF AnnotationsHold, NeedsHold, Needs, Calls, True

----------------------------------------------------------------------------
(* The library                                                             *)

\* RemoveAt drops one element and moves the later ones down.
LEMMA RemoveAtProperties ==
  ASSUME NEW S, NEW s \in Seq(S), NEW j \in 1..Len(s)
  PROVE  /\ RemoveAt(s, j) \in Seq(S)
         /\ Len(RemoveAt(s, j)) = Len(s) - 1
         /\ \A i \in 1..(Len(s) - 1) :
              RemoveAt(s, j)[i] = IF i < j THEN s[i] ELSE s[i + 1]
<1> DEFINE a == SubSeq(s, 1, j - 1)
           b == SubSeq(s, j + 1, Len(s))
<1>1. a \in Seq(S) /\ Len(a) = j - 1 /\ \A i \in 1..(j - 1) : a[i] = s[i]
  OBVIOUS
<1>2. b \in Seq(S) /\ Len(b) = Len(s) - j /\ \A i \in 1..(Len(s) - j) : b[i] = s[i + j]
  OBVIOUS
<1> HIDE DEF a, b
<1>3. /\ a \o b \in Seq(S) /\ Len(a \o b) = Len(a) + Len(b)
      /\ \A i \in 1..(Len(a) + Len(b)) :
           (a \o b)[i] = IF i <= Len(a) THEN a[i] ELSE b[i - Len(a)]
  BY <1>1, <1>2, ConcatProperties
<1>4. Len(s) \in Nat /\ Len(a) + Len(b) = Len(s) - 1
  BY <1>1, <1>2
<1>6. \A i \in 1..(Len(s) - 1) : (a \o b)[i] = IF i < j THEN s[i] ELSE s[i + 1]
  <2> TAKE i \in 1..(Len(s) - 1)
  <2>1. CASE i < j
    BY <2>1, <1>1, <1>3, <1>4
  <2>2. CASE i >= j
    <3>1. i - (j - 1) \in 1..(Len(s) - j) /\ (i - (j - 1)) + j = i + 1
      BY <2>2, <1>4
    <3>2. b[i - (j - 1)] = s[i + 1]
      BY <3>1, <1>2
    <3> QED  BY <2>2, <3>2, <1>1, <1>3, <1>4
  <2> QED  BY <2>1, <2>2, <1>4
<1>5. RemoveAt(s, j) = a \o b
  BY DEF RemoveAt, a, b
<1> QED  BY <1>3, <1>4, <1>5, <1>6

LEMMA NewEntryFacts ==
  ASSUME LibOK, NEW b, Usable(b), NEW count \in Nat, NEW total \in Nat, NEW learned \in BOOLEAN
  PROVE  /\ Lib!NextId \in Nat
         /\ Lib!NewEntry(b, count, total, learned) \in Lib!Entry
         /\ Lib!NewEntry(b, count, total, learned).body = b
<1>1. maxId \in Nat /\ b \in AnyBody
  BY DEF LibOK, Usable
<1>2. Lib!NextId \in Nat
  BY <1>1 DEF Lib!NextId
<1>3. ASSUME NEW n \in Nat
      PROVE  Lib!PrintedId(n) \in Nat
  BY <1>3 DEF Lib!PrintedId, Lib!LongId
<1> QED  BY <1>1, <1>2, <1>3 DEF Lib!NewEntry, Lib!Entry

LEMMA AppendUsable ==
  ASSUME NEW l \in Seq(Lib!Entry), \A i \in 1..Len(l) : Usable(l[i].body), NEW e \in Lib!Entry, Usable(e.body)
  PROVE  Append(l, e) \in Seq(Lib!Entry) /\ \A i \in 1..Len(Append(l, e)) : Usable(Append(l, e)[i].body)
<1> HIDE DEF Lib!Entry
<1>1. Append(l, e) \in Seq(Lib!Entry) /\ Len(Append(l, e)) = Len(l) + 1
  OBVIOUS
<1>2. \A i \in 1..Len(l) + 1 : Append(l, e)[i] = IF i <= Len(l) THEN l[i] ELSE e
  OBVIOUS
<1> QED  BY <1>1, <1>2

LEMMA UpdateFacts ==
  ASSUME NEW e \in Lib!Entry, NEW f \in Lib!Entry
  PROVE  LET u == Lib!UpdateQValue(e, f.total) IN u \in Lib!Entry /\ u.body = e.body
<1>1. f.total \in Nat /\ e.total \in Nat /\ e.count \in Nat
  BY DEF Lib!Entry
<1>2. e.count + 1 \in Nat /\ e.total + f.total \in Nat
  BY <1>1
<1> QED  BY <1>2 DEF Lib!Entry, Lib!UpdateQValue

LEMMA LibAdds ==
  ASSUME LibOK, NEW b, Usable(b), Lib!AddBeforeLearning(b)
  PROVE  LibOK' /\ libPc = "idle" /\ libPc' = "idle" /\ flags' = flags
<1> DEFINE e == Lib!NewEntry(b, 0, 0, FALSE)
<1>1. Lib!NextId \in Nat /\ e \in Lib!Entry /\ e.body = b
  BY NewEntryFacts
<1>2. /\ lib' = Append(lib, e) /\ maxId' = Lib!NextId /\ libPc = "idle"
      /\ UNCHANGED <<flags, libPc, cand, m, inserted, offered>>
  BY DEF Lib!AddBeforeLearning
<1> HIDE DEF e, Lib!Entry, Lib!NextId
<1>3. lib' \in Seq(Lib!Entry) /\ \A i \in 1..Len(lib') : Usable(lib'[i].body)
  BY <1>1, <1>2, AppendUsable DEF LibOK
<1> QED  BY <1>1, <1>2, <1>3 DEF LibOK

LEMMA LibOffers ==
  ASSUME LibOK, NEW b, Usable(b), NEW count \in Nat, NEW total \in Nat,
         NEW route \in {"idle", "find", "update"}, Lib!Offer(Lib!NewEntry(b, count, total, TRUE), route)
  PROVE  LibOK' /\ flags' = flags
<1> DEFINE e == Lib!NewEntry(b, count, total, TRUE)
<1>1. Lib!NextId \in Nat /\ e \in Lib!Entry /\ e.body = b
  BY NewEntryFacts
<1>2. /\ lib' = (IF route = "idle" THEN Append(lib, e) ELSE lib) /\ maxId' = Lib!NextId /\ libPc = "idle"
      /\ offered < MaxMethods /\ offered' = offered + 1 /\ cand' = e /\ m' = 1 /\ inserted' = FALSE
      /\ libPc' = route /\ flags' = flags
  BY DEF Lib!Offer
<1> HIDE DEF e, Lib!Entry, Lib!NextId
<1>3. lib' \in Seq(Lib!Entry) /\ \A i \in 1..Len(lib') : Usable(lib'[i].body)
  BY <1>1, <1>2, AppendUsable DEF LibOK
<1>4. MaxMethods \in Nat
  BY MakerAssumption
<1>5. offered' \in 0..MaxMethods
  BY <1>2, <1>4 DEF LibOK
<1>6. cand' \in Lib!Entry /\ (libPc' # "idle" => Usable(cand'.body))
  BY <1>1, <1>2
<1>7. /\ m' \in Nat \ {0} /\ inserted' \in BOOLEAN
      /\ libPc' \in {"idle", "find", "replace", "update"} /\ maxId' \in Nat
  <2>1. m' = 1 /\ inserted' = FALSE /\ libPc' = route
    BY <1>2
  <2>2. maxId' \in Nat
    BY <1>1, <1>2
  <2>3. libPc' \in {"idle", "find", "replace", "update"}
    BY <2>1
  <2>4. inserted' \in BOOLEAN
    BY <2>1
  <2> QED  BY <2>1, <2>2, <2>3, <2>4
<1> QED  BY <1>2, <1>3, <1>5, <1>6, <1>7 DEF LibOK

LEMMA LibDrops ==
  ASSUME LibOK, Lib!DropSelfLoop
  PROVE  LibOK' /\ flags' = flags
<1>1. maxId \in Nat
  BY DEF LibOK
<1>2. /\ maxId' = Lib!NextId /\ offered < MaxMethods /\ offered' = offered + 1
      /\ flags' = flags /\ lib' = lib /\ libPc' = libPc /\ cand' = cand /\ m' = m /\ inserted' = inserted
  BY DEF Lib!DropSelfLoop
<1>3. Lib!NextId \in Nat
  BY <1>1 DEF Lib!NextId
<1>4. MaxMethods \in Nat
  BY MakerAssumption
<1>5. offered' \in 0..MaxMethods
  BY <1>2, <1>4 DEF LibOK
<1> HIDE DEF Lib!Entry, Lib!NextId
<1>6. /\ lib' \in Seq(Lib!Entry) /\ (\A i \in 1..Len(lib') : Usable(lib'[i].body))
      /\ cand' \in Lib!Entry /\ (libPc' # "idle" => Usable(cand'.body))
  BY <1>2 DEF LibOK
<1>7. /\ m' \in Nat \ {0} /\ inserted' \in BOOLEAN
      /\ libPc' \in {"idle", "find", "replace", "update"} /\ maxId' \in Nat
  BY <1>2, <1>3 DEF LibOK
<1> QED  BY <1>2, <1>5, <1>6, <1>7 DEF LibOK

LEMMA LibSteps ==
  ASSUME LibOK, Lib!Step
  PROVE  LibOK' /\ flags' = flags /\ libPc # "idle"
<1> USE DEF LibOK
<1>1. CASE Lib!Find
  <2> HIDE DEF Lib!Entry
  <2> QED  BY <1>1 DEF Lib!Find
<1>2. CASE Lib!Keep
  <2> HIDE DEF Lib!Entry
  <2> QED  BY <1>2 DEF Lib!Keep
<1>3. CASE Lib!ReplaceMethod
  <2> HIDE DEF Lib!Entry
  <2>1. /\ m \in 1..Len(lib) /\ lib' = [lib EXCEPT ![m] = cand] /\ m' = m + 1 /\ inserted' = TRUE
        /\ UNCHANGED <<flags, maxId, libPc, cand, offered>> /\ libPc = "replace"
    BY <1>3 DEF Lib!ReplaceMethod
  <2>2. lib' \in Seq(Lib!Entry) /\ Len(lib') = Len(lib)
        /\ \A i \in 1..Len(lib) : lib'[i] = IF i = m THEN cand ELSE lib[i]
    BY <2>1
  <2> QED  BY <2>1, <2>2
<1>4. CASE Lib!RemoveMethod
  <2> HIDE DEF Lib!Entry
  <2>1. /\ m \in 1..Len(lib) /\ lib' = RemoveAt(lib, m) /\ m' = m
        /\ UNCHANGED <<flags, maxId, libPc, cand, inserted, offered>> /\ libPc = "replace"
    BY <1>4 DEF Lib!RemoveMethod, Lib!RemoveAt, RemoveAt
  <2>2. lib' \in Seq(Lib!Entry) /\ Len(lib') = Len(lib) - 1
        /\ \A i \in 1..Len(lib) - 1 : lib'[i] = IF i < m THEN lib[i] ELSE lib[i + 1]
    <3> DEFINE S == Lib!Entry
    <3>1. lib \in Seq(S)
      OBVIOUS
    <3> HIDE DEF S
    <3> QED  BY <2>1, <3>1, RemoveAtProperties DEF S
  <2> QED  BY <2>1, <2>2
<1>5. CASE Lib!EndReplace
  <2>1. /\ lib' = (IF inserted THEN lib ELSE Append(lib, cand)) /\ libPc = "replace" /\ libPc' = "idle"
        /\ UNCHANGED <<flags, maxId, cand, m, inserted, offered>>
    BY <1>5 DEF Lib!EndReplace
  <2> HIDE DEF Lib!Entry
  <2>2. lib' \in Seq(Lib!Entry) /\ \A i \in 1..Len(lib') : Usable(lib'[i].body)
    BY <2>1, AppendUsable
  <2> QED  BY <2>1, <2>2
<1>6. CASE Lib!Update
  <2>1. /\ UNCHANGED <<flags, maxId, cand, inserted, offered>> /\ libPc = "update"
    BY <1>6 DEF Lib!Update
  <2>2. CASE m > Len(lib)
    <3>1. libPc' = "idle" /\ m' = m /\ lib' = Append(lib, cand)
      BY <1>6, <2>2 DEF Lib!Update
    <3> HIDE DEF Lib!Entry
    <3>2. lib' \in Seq(Lib!Entry) /\ \A i \in 1..Len(lib') : Usable(lib'[i].body)
      BY <2>1, <3>1, AppendUsable
    <3> QED  BY <2>1, <3>1, <3>2
  <2>3. CASE m <= Len(lib) /\ Lib!Equivalent(lib[m], cand)
    <3> DEFINE e == Lib!UpdateQValue(lib[m], cand.total)
    <3>1. libPc' = "idle" /\ m' = m /\ lib' = [lib EXCEPT ![m] = e] /\ m \in 1..Len(lib)
      BY <1>6, <2>3 DEF Lib!Update
    <3>2. e \in Lib!Entry /\ e.body = lib[m].body
      <4>1. lib[m] \in Lib!Entry /\ cand \in Lib!Entry
        BY <3>1
      <4> QED  BY <4>1, UpdateFacts
    <3> HIDE DEF e, Lib!Entry
    <3>3. lib' \in Seq(Lib!Entry) /\ Len(lib') = Len(lib)
          /\ \A i \in 1..Len(lib) : lib'[i] = IF i = m THEN e ELSE lib[i]
      BY <3>1, <3>2
    <3> QED  BY <2>1, <3>1, <3>2, <3>3
  <2>4. CASE m <= Len(lib) /\ ~Lib!Equivalent(lib[m], cand)
    <3>1. libPc' = libPc /\ m' = m + 1 /\ lib' = lib
      BY <1>6, <2>4 DEF Lib!Update
    <3> HIDE DEF Lib!Entry
    <3> QED  BY <2>1, <3>1
  <2>5. m \in Nat /\ Len(lib) \in Nat
    OBVIOUS
  <2> QED  BY <2>2, <2>3, <2>4, <2>5
<1> QED  BY <1>1, <1>2, <1>3, <1>4, <1>5, <1>6 DEF Lib!Step

----------------------------------------------------------------------------
(* Steps that add nothing to a partial method or to the annotations        *)

LEMMA AnnotationsKept ==
  ASSUME AnnotationsHold, insts' = insts, trace' = trace, flags' = flags
  PROVE  AnnotationsHold'
<1>1. \A n : StateAt(n)' = StateAt(n)
  BY DEF StateAt
<1>2. ASSUME NEW a, NEW b, NEW l
      PROVE  AddsWithin(a, b, l)' = AddsWithin(a, b, l)
  BY DEF AddsWithin, OperatorAt, SubAt
<1>3. ASSUME NEW s
      PROVE  Distinct(s)' = Distinct(s)
  BY DEF Distinct
<1> QED  BY <1>1, <1>2, <1>3 DEF AnnotationsHold

LEMMA QuietStep ==
  ASSUME IInv, LibOK', LoopsOK', insts' = insts, made' = made, final <= final', trace' = trace, flags' = flags,
         pc' \notin {"regress", "check"}
  PROVE  IInv'
<1>1. AnnotationsHold'
  BY AnnotationsKept DEF IInv
<1>2. InstsOK'
  <2>1. final \in Nat /\ final' \in Nat
    BY TraceType DEF IInv, TypeInv, LoopsOK
  <2>2. \A i \in 1..Len(insts) : insts[i].after \in Nat /\ insts[i].after <= final
    BY DEF IInv, TypeInv, InstsOK, InstOK, InstType
  <2> QED  BY <2>1, <2>2 DEF IInv, TypeInv, InstsOK
<1> QED  BY <1>1, <1>2 DEF IInv, TypeInv, PartialOK, GoalsHold, PiecesAnnotated

LEMMA VerifierUsable ==
  ASSUME NEW j \in 1..Len(Tasks)
  PROVE  Usable(VerifierBody(Tasks[j]))
<1> DEFINE t == Tasks[j]
           b == VerifierBody(t)
<1>1. t \in TaskDescr /\ VerifierOf[t.name] \in Compound /\ Arity[VerifierOf[t.name]] = Arity[t.name]
      /\ Len(t.params) = Arity[t.name] /\ Regressible(t.effects)
  <2>1. Tasks \in Seq(TaskDescr)
    BY MakerAssumption
  <2>2. t \in TaskDescr
    BY <2>1
  <2>3. VerifierOf[t.name] \in Compound /\ Arity[VerifierOf[t.name]] = Arity[t.name]
        /\ Len(t.params) = Arity[t.name] /\ Regressible(t.effects)
    BY MakerAssumption
  <2> QED  BY <2>2, <2>3
<1> HIDE DEF t
<1>2. <<>> \in Seq(TaskHead) /\ t.params \in Seq(Variable)
  BY <1>1 DEF TaskDescr
<1>3. /\ b.name = VerifierOf[t.name] /\ b.params = t.params /\ b.precs = t.effects /\ b.subtasks = <<>>
      /\ b = [name |-> b.name, params |-> b.params, precs |-> b.precs, subtasks |-> b.subtasks]
  BY DEF VerifierBody
<1> HIDE DEF b
<1>4. Lifted(b.precs) /\ b.precs \in SUBSET Literal
  BY <1>1, <1>3 DEF Regressible, Lifted
<1>5. b \in AnyBody
  BY <1>1, <1>2, <1>3, <1>4 DEF AnyBody, TaskName
<1>7. b.subtasks \in Seq(LiftedHead)
  BY <1>3
<1>6. Usable(b)
  BY <1>1, <1>3, <1>4, <1>5, <1>7 DEF Usable
<1> QED  BY <1>6 DEF b, t

LEMMA TrivialUsable ==
  ASSUME NEW j \in 1..Len(Operators), Operators[j].name \in DOMAIN CheckerOf
  PROVE  Usable(TrivialChecker(Operators[j]))
<1> DEFINE o == Operators[j]
           b == TrivialChecker(o)
<1>1. /\ o \in OperatorType /\ Len(o.params) = Arity[o.name] /\ o.name \in DOMAIN CheckerOf
  BY OperatorFacts
<1>2. Lifted(o.effects) /\ CheckerOf[o.name] \in Compound /\ Arity[CheckerOf[o.name]] = Arity[o.name]
      /\ CheckerOf[o.name] \in CheckNames
  BY MakerAssumption, CheckerAssumption DEF CheckNames
<1> HIDE DEF o
<1>3. <<>> \in Seq(TaskHead) /\ o.params \in Seq(Variable)
  BY <1>1 DEF OperatorType
<1>4. /\ b.name = CheckerOf[o.name] /\ b.params = o.params /\ b.precs = o.effects /\ b.subtasks = <<>>
      /\ b = [name |-> b.name, params |-> b.params, precs |-> b.precs, subtasks |-> b.subtasks]
  BY DEF TrivialChecker
<1> HIDE DEF b
<1>5. b \in AnyBody
  BY <1>2, <1>3, <1>4 DEF AnyBody, TaskName, Lifted
<1>7. b.subtasks \in Seq(LiftedHead)
  BY <1>4
<1>6. Usable(b)
  BY <1>1, <1>2, <1>4, <1>5, <1>7 DEF Usable
<1> QED  BY <1>6 DEF b, o

LEMMA LibKept ==
  ASSUME LibOK, UNCHANGED libVars
  PROVE  LibOK'
<1> QED  BY DEF LibOK, libVars

LEMMA MakeVerifierStep ==
  ASSUME IInv, MakeVerifier
  PROVE  IInv'
<1>1. LibOK' /\ flags' = flags /\ pc' \in {"verifiers", "trivial"} /\ k' \in Nat \ {0}
  <2>1. LibOK /\ k \in Nat \ {0} /\ Len(Tasks) \in Nat
    <3>1. Tasks \in Seq(TaskDescr)
      BY MakerAssumption
    <3> QED  BY <3>1 DEF IInv, TypeInv, LoopsOK
  <2>2. CASE UNCHANGED <<flags, libVars>>
    BY <2>1, <2>2, LibKept DEF MakeVerifier, At
  <2>3. CASE k \in 1..Len(Tasks) /\ Lib!AddBeforeLearning(VerifierBody(Tasks[k]))
    <3>1. LibOK' /\ flags' = flags
      BY <2>1, <2>3, VerifierUsable, LibAdds
    <3> QED  BY <2>1, <3>1 DEF MakeVerifier, At
  <2>4. (k \in 1..Len(Tasks) /\ Lib!AddBeforeLearning(VerifierBody(Tasks[k]))) \/ UNCHANGED <<flags, libVars>>
    BY <2>1 DEF MakeVerifier
  <2> QED  BY <2>2, <2>3, <2>4
<1>2. UNCHANGED <<trace, insts, final, todo, init, part, helped, made>>
  BY DEF MakeVerifier
<1>3. LoopsOK'
  BY <1>1, <1>2 DEF LoopsOK, IInv, TypeInv
<1>4. final \in Nat
  BY TraceType DEF LoopsOK, IInv, TypeInv
<1> QED  BY <1>1, <1>2, <1>3, <1>4, QuietStep

LEMMA MakeTrivialCheckerStep ==
  ASSUME IInv, MakeTrivialChecker
  PROVE  IInv'
<1>1. LibOK' /\ flags' = flags /\ pc' \in {"trivial", "partials"} /\ k' \in Nat \ {0}
  <2>1. LibOK /\ k \in Nat \ {0} /\ Len(Operators) \in Nat
    <3>1. Operators \in Seq(OperatorType)
      BY DomainAssumption
    <3> QED  BY <3>1 DEF IInv, TypeInv, LoopsOK
  <2> DEFINE adds == k \in 1..Len(Operators) /\ Operators[k].name \in DOMAIN CheckerOf
                     /\ Lib!AddBeforeLearning(TrivialChecker(Operators[k]))
  <2>2. CASE UNCHANGED <<flags, libVars>>
    BY <2>1, <2>2, LibKept DEF MakeTrivialChecker, At
  <2>3. CASE adds
    <3>1. LibOK' /\ flags' = flags
      BY <2>1, <2>3, TrivialUsable, LibAdds
    <3> QED  BY <2>1, <3>1 DEF MakeTrivialChecker, At
  <2>4. adds \/ UNCHANGED <<flags, libVars>>
    BY <2>1 DEF MakeTrivialChecker
  <2> QED  BY <2>2, <2>3, <2>4
<1>2. UNCHANGED <<trace, insts, final, todo, init, part, helped, made>>
  BY DEF MakeTrivialChecker
<1>3. LoopsOK'
  BY <1>1, <1>2 DEF LoopsOK, IInv, TypeInv
<1>4. final \in Nat
  BY TraceType DEF LoopsOK, IInv, TypeInv
<1> QED  BY <1>1, <1>2, <1>3, <1>4, QuietStep

LEMMA NextFinalStateStep ==
  ASSUME IInv, NextFinalState
  PROVE  IInv'
<1>1. /\ pc' = "pick" /\ final < Len(trace.steps) /\ final' = final + 1 /\ init' = final /\ k' = 1
      /\ todo' \in Partials(final + 1) /\ UNCHANGED <<flags, libVars, trace, insts, part, helped, made>>
  BY DEF NextFinalState
<1>2. /\ trace \in Traces /\ final \in Nat /\ final' \in 1..Len(trace.steps) /\ final <= final' /\ init' \in 0..final'
      /\ init' < final'
  <2>1. trace \in Traces /\ final \in 0..Len(trace.steps)
    BY DEF IInv, TypeInv, LoopsOK
  <2>2. Len(trace.steps) \in Nat
    BY <2>1, TraceType
  <2> QED  BY <1>1, <2>1, <2>2
<1>3. todo' \in Seq(TrueTasks(StateAt(final)'))
  <2>1. StateAt(final)' = StateAt(final + 1)
    BY <1>1 DEF StateAt
  <2>2. todo' \in Seq(TrueTasks(StateAt(final + 1)))
    BY <1>1, <1>2, PartialsFacts
  <2> QED  BY <2>1, <2>2
<1>4. LoopsOK'
  BY <1>1, <1>2, <1>3 DEF LoopsOK, IInv, TypeInv
<1>5. LibOK'
  BY <1>1, LibKept DEF IInv, TypeInv
<1> QED  BY <1>1, <1>2, <1>4, <1>5, QuietStep

LEMMA LoopsKept ==
  ASSUME LoopsOK, UNCHANGED <<flags, trace, final, todo>>
  PROVE  /\ flags' \in FlagChoices /\ trace' \in Traces /\ final' \in 0..Len(trace'.steps)
         /\ final \in Nat /\ init \in Nat /\ k \in Nat \ {0}
         /\ todo' = todo /\ StateAt(final)' = StateAt(final)
<1>1. StateAt(final)' = StateAt(final)
  BY DEF StateAt
<1>2. trace \in Traces /\ final \in 0..Len(trace.steps) /\ init \in 0..final
  BY DEF LoopsOK
<1>3. Len(trace.steps) \in Nat
  BY <1>2, TraceType
<1> QED  BY <1>1, <1>2, <1>3 DEF LoopsOK

LEMMA EndStep ==
  ASSUME IInv, End
  PROVE  IInv'
<1>1. pc' = "done" /\ UNCHANGED <<flags, libVars, trace, insts, final, todo, init, k, part, helped, made>>
  BY DEF End
<1>2. LibOK' /\ LoopsOK' /\ final \in Nat
  BY <1>1, LibKept, LoopsKept DEF IInv, TypeInv, LoopsOK, Ends
<1> QED  BY <1>1, <1>2, QuietStep

LEMMA NextInitialStateStep ==
  ASSUME IInv, NextInitialState
  PROVE  IInv'
<1>1. /\ pc = "pick" /\ UNCHANGED <<flags, libVars, trace, insts, final, todo, part, helped, made>>
      /\ \/ pc' = "checkers" /\ init' = init /\ k' = k
         \/ init # 0 /\ init' = init - 1 /\ k' = 1 /\ pc' = pc
  BY DEF NextInitialState, At
<1>2. LibOK' /\ final \in Nat /\ init \in 0..final /\ init < final /\ k \in Nat \ {0}
  BY <1>1, LibKept, LoopsKept DEF IInv, TypeInv, LoopsOK
<1>3. init' \in 0..final' /\ init' < final' /\ final' # 0 /\ k' \in Nat \ {0} /\ pc' \in {"checkers", "pick"}
  BY <1>1, <1>2
<1>4. LoopsOK'
  BY <1>1, <1>3, LoopsKept DEF IInv, TypeInv, LoopsOK
<1> QED  BY <1>1, <1>2, <1>3, <1>4, QuietStep

LEMMA GiveUpStep ==
  ASSUME IInv, GiveUp
  PROVE  IInv'
<1>1. /\ pc = "regress" /\ UNCHANGED <<flags, libVars, trace, insts, final, todo, init, part, helped, made>>
      /\ k' = k + 1 /\ pc' = "pick"
  BY DEF GiveUp, At
<1>2. LibOK' /\ final \in Nat
  BY <1>1, LibKept, LoopsKept DEF IInv, TypeInv, LoopsOK
<1>3. LoopsOK'
  BY <1>1, LoopsKept DEF IInv, TypeInv, LoopsOK
<1> QED  BY <1>1, <1>2, <1>3, QuietStep

LEMMA DiscardStep ==
  ASSUME IInv, Discard
  PROVE  IInv'
<1>1. pc = "regress" /\ UNCHANGED <<flags, libVars, trace, insts, final, todo, init, part, helped, made>>
  BY DEF Discard, At
<1>2. LibOK' /\ final \in Nat /\ k \in Nat \ {0}
  BY <1>1, LibKept, LoopsKept DEF IInv, TypeInv, LoopsOK
<1>3. (k' = k \/ k' = k + 1) /\ pc' \in {"not a predicate", "pick"}
  BY DEF Discard
<1>4. k' \in Nat \ {0} /\ pc' \in Ends \cup {"pick"} /\ pc' \notin {"regress", "check", "checkers"}
  <2>0. k + 1 \in Nat \ {0}
    BY <1>2
  <2>1. k' \in Nat \ {0}
    BY <1>2, <1>3, <2>0, Zenon
  <2>2. pc' \in Ends \cup {"pick"}
    BY <1>3 DEF Ends
  <2>3. pc' \notin {"regress", "check", "checkers"}
    BY <1>3
  <2> QED  BY <2>1, <2>2, <2>3
<1>5. LoopsOK'
  BY <1>1, <1>4, LoopsKept DEF IInv, TypeInv, LoopsOK
<1> QED  BY <1>1, <1>2, <1>4, <1>5, QuietStep

LEMMA NoCheckerStep ==
  ASSUME IInv, NoChecker
  PROVE  IInv'
<1>1. pc' = "partials" /\ UNCHANGED <<flags, libVars, trace, insts, final, todo, init, k, part, helped, made>>
  BY DEF NoChecker, At
<1>2. LibOK' /\ final \in Nat
  BY <1>1, LibKept, LoopsKept DEF IInv, TypeInv, LoopsOK
<1>3. LoopsOK'
  BY <1>1, LoopsKept DEF IInv, TypeInv, LoopsOK
<1> QED  BY <1>1, <1>2, <1>3, QuietStep

\* LearnOneNdChecker makes a method that the library can hold.
LEMMA CheckerMade ==
  ASSUME TypeInv, pc = "check"
  PROVE  Usable(WithNdCheckers(CreateMethod(part, <<>>, flags.partial_generalization)))
<1> DEFINE none == <<>>
           b == CreateMethod(part, none, flags.partial_generalization)
<1>1. PartOK(part, made)
  BY DEF TypeInv, PartialOK
<1>2. none \in Seq(Compound) /\ \A i \in 1..Len(none) : Arity[none[i]] = Arity[part.task.name]
  OBVIOUS
<1> HIDE DEF none
<1>3. MadeOf(b, part)
  BY <1>1, <1>2, CreateMethodFacts
<1> HIDE DEF b
<1>4. Usable(WithNdCheckers(b))
  BY <1>3, WithCheckers DEF MadeOf
<1> QED  BY <1>4, Zenon DEF b, none

LEMMA EndCheckerStep ==
  ASSUME IInv, EndChecker
  PROVE  IInv'
<1> DEFINE b == CreateMethod(part, <<>>, flags.partial_generalization)
           c == WithNdCheckers(b)
           route == IF flags.no_subsumption THEN "idle" ELSE "find"
<1>1. /\ pc = "check" /\ UNCHANGED <<trace, insts, final, todo, init, k, part, helped, made>>
      /\ \/ pc' \in {"partials", "undefined"} /\ UNCHANGED <<flags, libVars>>
         \/ pc' = "partials" /\ Lib!Offer(Lib!NewEntry(c, 0, 0, TRUE), route)
  BY DEF EndChecker, At
<1>2. LibOK' /\ flags' = flags /\ pc' \in {"partials", "undefined"}
  <2>1. LibOK
    BY DEF IInv, TypeInv
  <2>4. Usable(c)
    BY <1>1, CheckerMade DEF IInv
  <2>5. route \in {"idle", "find", "update"}
    OBVIOUS
  <2> HIDE DEF c, route
  <2>6. CASE UNCHANGED <<flags, libVars>>
    BY <1>1, <2>1, <2>6, LibKept
  <2>7. CASE Lib!Offer(Lib!NewEntry(c, 0, 0, TRUE), route)
    BY <1>1, <2>1, <2>4, <2>5, <2>7, LibOffers
  <2> QED  BY <1>1, <2>6, <2>7
<1>3. final \in Nat
  BY TraceType DEF IInv, TypeInv, LoopsOK
<1>4. LoopsOK'
  BY <1>1, <1>2, LoopsKept DEF IInv, TypeInv, LoopsOK, Ends
<1> QED  BY <1>1, <1>2, <1>3, <1>4, QuietStep

\* Nothing but the library is changed.
LEMMA LibraryKeeps ==
  ASSUME IInv, LibOK', UNCHANGED <<flags, makerVars>>
  PROVE  IInv'
<1>1. AnnotationsHold'
  BY AnnotationsKept DEF IInv, makerVars
<1>2. LoopsOK'
  BY LoopsKept DEF IInv, TypeInv, LoopsOK, makerVars
<1>3. InstsOK' /\ PartialOK'
  BY DEF IInv, TypeInv, InstsOK, PartialOK, makerVars
<1>4. \A n : StateAt(n)' = StateAt(n)
  BY DEF StateAt, makerVars
<1>5. ASSUME NEW a, NEW b, NEW l
      PROVE  AddsWithin(a, b, l)' = AddsWithin(a, b, l)
  BY DEF AddsWithin, OperatorAt, SubAt, makerVars
<1>6. ASSUME NEW s
      PROVE  Distinct(s)' = Distinct(s)
  BY DEF Distinct
<1>7. GoalsHold'
  BY <1>4, <1>5, <1>6 DEF IInv, GoalsHold, AllDistinct, Supplied, makerVars
<1>8. PiecesAnnotated'
  BY DEF IInv, PiecesAnnotated, makerVars
<1> QED  BY <1>1, <1>2, <1>3, <1>7, <1>8 DEF IInv, TypeInv

LEMMA LibraryStepStep ==
  ASSUME IInv, LibraryStep
  PROVE  IInv'
<1>1. LibOK' /\ flags' = flags
  BY LibSteps DEF IInv, TypeInv, LibraryStep
<1> QED  BY <1>1, LibraryKeeps DEF LibraryStep

----------------------------------------------------------------------------
(* Steps that annotate the plan                                            *)

\* What AnnotationsHold says of a new instance x.
NewNeedsHold(x, before, after) ==
  Distinct(x.sub) /\ AllDistinct
  => \A g \in Needs(x) :
       \/ True(g, StateAt(before))
       \/ \E j \in 1..Len(insts) :
            /\ before <= insts[j].before /\ insts[j].after <= after
            /\ TaskAfter(HeadOf(insts[j].method), insts[j].sub) \in Calls(x)
            /\ AddsWithin(insts[j].before, insts[j].after, g)

LEMMA MoreAnnotations ==
  ASSUME AnnotationsHold, insts \in Seq(InstType), insts' \in Seq(InstType), Len(insts') = Len(insts) + 1,
         \A i \in 1..Len(insts) : insts'[i] = insts[i], UNCHANGED <<flags, trace>>,
         NEW x, insts'[Len(insts) + 1] = x, NewNeedsHold(x, x.before, x.after)
  PROVE  AnnotationsHold'
<1>1. ASSUME NEW a, NEW b, NEW l
      PROVE  AddsWithin(a, b, l)' = AddsWithin(a, b, l)
  BY DEF AddsWithin, OperatorAt, SubAt
<1>2. ASSUME NEW s
      PROVE  Distinct(s)' = Distinct(s)
  BY DEF Distinct
<1>3. \A n : StateAt(n)' = StateAt(n)
  BY DEF StateAt
<1>4. ASSUME NEW i \in 1..Len(insts')
      PROVE  NeedsHold(i)'
  <2>1. Len(insts) \in Nat /\ i \in 1..(Len(insts) + 1)
    OBVIOUS
  <2>2. CASE i \in 1..Len(insts)
    <3>1. NeedsHold(i)
      BY <2>2, AnnotationsHoldParts
    <3>2. insts'[i] = insts[i] /\ \A j \in 1..i : insts'[j] = insts[j]
      BY <2>2
    <3>3. SUFFICES ASSUME \A j \in 1..i : Distinct(insts[j].sub), NEW g \in Needs(insts[i])
                   PROVE  \/ True(g, StateAt(insts[i].before))
                          \/ \E j \in 1..(i - 1) :
                               /\ insts[i].before <= insts[j].before /\ insts[j].after <= insts[i].after
                               /\ TaskAfter(HeadOf(insts[j].method), insts[j].sub) \in Calls(insts[i])
                               /\ AddsWithin(insts[j].before, insts[j].after, g)
      BY <1>1, <1>2, <1>3, <2>2, <3>2 DEF NeedsHold
    <3> QED  BY <3>1, <3>3 DEF NeedsHold
  <2>3. CASE i = Len(insts) + 1
    <3>1. insts'[i] = x /\ \A j \in 1..(i - 1) : insts'[j] = insts[j]
      BY <2>1, <2>3
    <3>2. 1..(i - 1) = 1..Len(insts) /\ i \in 1..i /\ 1..Len(insts) \subseteq 1..i
      BY <2>1, <2>3
    <3>3. SUFFICES ASSUME \A j \in 1..i : Distinct(insts'[j].sub), NEW g \in Needs(x)
                   PROVE  \/ True(g, StateAt(x.before))
                          \/ \E j \in 1..Len(insts) :
                               /\ x.before <= insts[j].before /\ insts[j].after <= x.after
                               /\ TaskAfter(HeadOf(insts[j].method), insts[j].sub) \in Calls(x)
                               /\ AddsWithin(insts[j].before, insts[j].after, g)
      BY <1>1, <1>2, <1>3, <3>1, <3>2 DEF NeedsHold
    <3>4. Distinct(x.sub) /\ AllDistinct
      BY <3>1, <3>2, <3>3 DEF AllDistinct
    <3> QED  BY <3>3, <3>4 DEF NewNeedsHold
  <2> QED  BY <2>1, <2>2, <2>3
<1> QED  BY <1>4 DEF AnnotationsHold, NeedsHold, Needs, Calls, True

LEMMA AnnotateStep ==
  ASSUME FreshNames, IInv, NEW body, NEW sub, Bound(body, sub), NEW before \in Nat, before < final,
         NEW task \in TaskType, NEW effects \in SUBSET Over(Variable), NEW cost \in Nat,
         AddMethodInst(body, sub, before, task, effects, cost),
         \A x : InstanceOf(x, body, sub, before, final, cost) => NewNeedsHold(x, before, final),
         LibOK', LoopsOK', UNCHANGED <<flags, trace, final>>, pc' \notin {"regress", "check"}
  PROVE  IInv'
<1>1. /\ made \in Nat /\ final \in Nat /\ insts \in Seq(InstType)
  BY LoopsKept DEF IInv, TypeInv, InstsOK, LoopsOK
<1>2. /\ made' \in Nat /\ insts' \in Seq(InstType) /\ Len(insts') = Len(insts) + 1
      /\ \A i \in 1..Len(insts) : insts'[i] = insts[i]
      /\ InstanceOf(insts'[Len(insts) + 1], body, sub, before, final, cost)
  BY <1>1, AddMethodInstFacts
<1> DEFINE x == insts'[Len(insts) + 1]
<1>3. InstOK(x) /\ x.before = before /\ x.after = final /\ NewNeedsHold(x, before, final)
  BY <1>2 DEF InstanceOf
<1>4. AnnotationsHold'
  <2> HIDE DEF x
  <2>1. insts'[Len(insts) + 1] = x
    BY DEF x
  <2> QED  BY <1>1, <1>2, <1>3, <2>1, MoreAnnotations DEF IInv
<1>5. InstsOK'
  <2>1. ASSUME NEW i \in 1..Len(insts')
        PROVE  InstOK(insts'[i]) /\ insts'[i].after <= final
    <3>1. i \in 1..Len(insts) \/ i = Len(insts) + 1
      BY <1>1, <1>2
    <3>2. CASE i \in 1..Len(insts)
      BY <1>2, <3>2 DEF IInv, TypeInv, InstsOK
    <3>3. CASE i = Len(insts) + 1
      BY <1>1, <1>3, <3>3
    <3> QED  BY <3>1, <3>2, <3>3
  <2> QED  BY <1>2, <2>1 DEF InstsOK
<1> QED  BY <1>4, <1>5 DEF IInv, TypeInv, PartialOK, GoalsHold, PiecesAnnotated

\* The partial method that is looked at.
LEMMA TodoFacts ==
  ASSUME LoopsOK, pc = "pick", k <= Len(todo)
  PROVE  /\ init \in Nat /\ final \in Nat /\ init < final /\ k \in Nat \ {0} /\ k + 1 \in Nat \ {0}
         /\ final \in 1..Len(trace.steps) /\ trace \in Traces
         /\ \E j \in 1..Len(Tasks) :
              /\ todo[k].task = Tasks[j] /\ todo[k].ground \in [Elems(Tasks[j].params) -> Object]
              /\ IsConsistent(Tasks[j].effects, todo[k].ground, StateAt(final))
<1>1. trace \in Traces /\ final \in 0..Len(trace.steps) /\ init \in 0..final /\ init < final /\ k \in Nat \ {0}
      /\ todo \in Seq(TrueTasks(StateAt(final)))
  BY DEF LoopsOK
<1>2. Len(trace.steps) \in Nat
  BY <1>1, TraceType
<1>3. k \in 1..Len(todo)
  BY <1>1
<1>4. todo[k] \in TrueTasks(StateAt(final))
  BY <1>1, <1>3
<1>5. PICK j \in 1..Len(Tasks) :
        todo[k] \in {[task |-> Tasks[j], ground |-> g] :
                       g \in {f \in [Elems(Tasks[j].params) -> Object] : IsConsistent(Tasks[j].effects, f, StateAt(final))}}
  BY <1>4 DEF TrueTasks
<1>6. PICK g \in [Elems(Tasks[j].params) -> Object] :
        IsConsistent(Tasks[j].effects, g, StateAt(final)) /\ todo[k] = [task |-> Tasks[j], ground |-> g]
  BY <1>5
<1>7. todo[k].task = Tasks[j] /\ todo[k].ground = g
  BY <1>6
<1> QED  BY <1>1, <1>2, <1>6, <1>7

\* What the steps that annotate the plan with a method that is there have in common.
LEMMA KnownMethodStep ==
  ASSUME FreshNames, IInv, NEW body, Usable(body), body.name \notin CheckNames,
         NEW before \in Nat, before < final, NEW args, NEW sub \in Satisfying(body, [args |-> args], StateAt(before)),
         NEW task \in TaskType, NEW effects \in SUBSET Over(Variable), NEW cost \in Nat,
         AddMethodInst(body, sub, before, task, effects, cost),
         LibOK', LoopsOK', UNCHANGED <<flags, trace, final>>, pc' \notin {"regress", "check"}
  PROVE  IInv'
<1> DEFINE state == StateAt(before)
           call == [args |-> args]
<1>1. Bound(body, sub) /\ \A g \in FormulaAfter(body.precs, sub) : True(g, state)
  <2>1. sub \in Satisfying(body, call, state)
    OBVIOUS
  <2> HIDE DEF state, call
  <2> QED  BY <2>1, SatisfyingFacts
<1>2. ASSUME NEW x, InstanceOf(x, body, sub, before, final, cost)
      PROVE  NewNeedsHold(x, before, final)
  <2>1. Needs(x) = FormulaAfter(body.precs, sub)
    BY <1>2 DEF InstanceOf
  <2> QED  BY <1>1, <2>1 DEF NewNeedsHold
<1> QED  BY <1>1, <1>2, AnnotateStep

LEMMA LastQValue ==
  ASSUME NEW e \in Lib!Entry
  PROVE  QValue(e) \in Nat
<1>1. e.count \in Nat /\ e.total \in Nat
  BY DEF Lib!Entry
<1>2. ASSUME e.count # 0 PROVE e.total \div e.count \in Nat
  <2>1. e.count > 0 /\ e.count \in Nat /\ e.total \in Nat
    BY <1>1, <1>2
  <2> HIDE DEF Lib!Entry
  <2> QED  BY <2>1
<1> QED  BY <1>1, <1>2 DEF QValue, Unrated

LEMMA SquelchStep ==
  ASSUME FreshNames, IInv, Squelch
  PROVE  IInv'
<1> DEFINE t == todo[k]
           j == SmallestOf(SolvedFrom(t))
           I == {i \in 1..Len(lib) : Applies(lib[i].body, t, StateAt(j))}
           e == lib[SmallestOf(I)]
           fromTask == [v \in Elems(t.task.params) |-> e.body.params[CHOOSE i \in 1..Len(t.task.params) : t.task.params[i] = v]]
           descr == DescrAfter(t.task, fromTask)
           effects == FormulaAfter(t.task.effects, fromTask)
           args == ArgsOf(t)
<1>1. /\ pc = "pick" /\ k <= Len(todo) /\ SolvedFrom(t) # {}
      /\ UNCHANGED <<flags, libVars, trace, final, todo, init, part, helped>>
      /\ \/ pc' = "double variable" /\ insts' = insts /\ made' = made /\ k' = k
         \/ /\ \E sub \in Satisfying(e.body, [args |-> args], StateAt(j)) :
                 AddMethodInst(e.body, sub, j, descr, effects, QValue(e))
            /\ k' = k + 1 /\ pc' = pc
  BY DEF Squelch, At
<1> HIDE DEF t
<1>2. /\ LibOK /\ LoopsOK
  BY DEF IInv, TypeInv
<1>3. /\ init \in Nat /\ final \in Nat /\ init < final /\ k \in Nat \ {0} /\ k + 1 \in Nat \ {0}
      /\ \E i \in 1..Len(Tasks) : t.task = Tasks[i]
  BY <1>1, <1>2, TodoFacts DEF t
<1>4. PICK i1 \in 1..Len(Tasks) : t.task = Tasks[i1]
  BY <1>3
<1>5. j \in SolvedFrom(t) /\ j \in Nat /\ j < final
  <2>1. SolvedFrom(t) \subseteq 0..init /\ 0..init \subseteq Nat
    BY <1>3 DEF SolvedFrom
  <2>2. j \in SolvedFrom(t)
    BY <1>1, <2>1, SmallestFacts
  <2> QED  BY <1>3, <2>1, <2>2
<1> HIDE DEF j
<1>6. SmallestOf(I) \in I
  <2>1. I # {} /\ I \subseteq Nat
    BY <1>5 DEF SolvedFrom
  <2> HIDE DEF I
  <2> QED  BY <2>1, SmallestFacts
<1>7. e \in Lib!Entry /\ Usable(e.body) /\ e.body.name = t.task.name
  <2>1. SmallestOf(I) \in 1..Len(lib) /\ Applies(e.body, t, StateAt(j))
    BY <1>6
  <2> HIDE DEF I, Lib!Entry
  <2> QED  BY <1>2, <2>1 DEF LibOK, Applies
<1> HIDE DEF I, e
<1>8. /\ t.task \in TaskType /\ t.task.name \notin CheckNames /\ t.task.params \in Seq(Variable)
      /\ t.task.effects \in SUBSET Over(Variable) /\ Len(t.task.params) = Arity[t.task.name]
  <2>1. t.task \in TaskType /\ t.task.name \notin CheckNames /\ Len(t.task.params) = Arity[t.task.name]
    BY <1>4, TaskFacts
  <2> QED  BY <2>1 DEF TaskType
<1>9. Into(fromTask, Variable)
  <2>1. /\ e.body.params \in Seq(Variable) /\ Len(e.body.params) = Len(t.task.params)
    BY <1>7, <1>8 DEF Usable, AnyBody
  <2>2. ASSUME NEW v \in Elems(t.task.params)
        PROVE  e.body.params[CHOOSE i \in 1..Len(t.task.params) : t.task.params[i] = v] \in Variable
    <3>1. \E i \in 1..Len(t.task.params) : t.task.params[i] = v
      BY DEF Elems
    <3>2. (CHOOSE i \in 1..Len(t.task.params) : t.task.params[i] = v) \in 1..Len(t.task.params)
      BY <3>1
    <3> QED  BY <2>1, <3>2
  <2> QED  BY <2>2 DEF Into
<1> HIDE DEF fromTask
<1>10. descr \in TaskType /\ effects \in SUBSET Over(Variable)
  <2>1. descr \in TaskType
    BY <1>8, <1>9, DescrAfterType
  <2>2. Variable \ DOMAIN fromTask \subseteq Variable
    OBVIOUS
  <2>3. effects \in SUBSET Over(Variable)
    BY <1>8, <1>9, <2>2, PartialAfterType
  <2> QED  BY <2>1, <2>3
<1> HIDE DEF descr, effects, args
<1>11. LibOK' /\ k' \in Nat \ {0} /\ pc' \in Ends \cup {"pick"} /\ pc' \notin {"regress", "check", "checkers"}
  <2>1. LibOK'
    BY <1>1, <1>2, LibKept
  <2>2. k' \in Nat \ {0}
    BY <1>1, <1>3, Zenon
  <2>3. pc' = "double variable" \/ pc' = "pick"
    BY <1>1
  <2> QED  BY <2>1, <2>2, <2>3 DEF Ends
<1>12. LoopsOK'
  BY <1>1, <1>2, <1>3, <1>11, LoopsKept DEF LoopsOK
<1>13. CASE insts' = insts /\ made' = made
  <2>2. flags' = flags /\ trace' = trace /\ final' = final
    BY <1>1
  <2>3. final <= final
    BY <1>3
  <2>1. flags' = flags /\ trace' = trace /\ final <= final'
    BY <2>2, <2>3, Zenon
  <2> QED  BY <1>11, <1>12, <1>13, <2>1, QuietStep
<1>14. CASE \E sub \in Satisfying(e.body, [args |-> args], StateAt(j)) :
              AddMethodInst(e.body, sub, j, descr, effects, QValue(e))
  <2>1. PICK sub \in Satisfying(e.body, [args |-> args], StateAt(j)) :
          AddMethodInst(e.body, sub, j, descr, effects, QValue(e))
    BY <1>14
  <2>2. QValue(e) \in Nat
    BY <1>7, LastQValue
  <2> DEFINE body == e.body
             q == QValue(e)
  <2>3. Usable(body) /\ body.name \notin CheckNames /\ q \in Nat
    BY <1>7, <1>8, <2>2
  <2>4. sub \in Satisfying(body, [args |-> args], StateAt(j)) /\ AddMethodInst(body, sub, j, descr, effects, q)
    BY <2>1
  <2> HIDE DEF body, q
  <2> QED  BY <1>1, <1>5, <1>10, <1>11, <1>12, <2>3, <2>4, KnownMethodStep
<1> QED  BY <1>1, <1>13, <1>14

LEMMA DropStep ==
  ASSUME FreshNames, IInv, Drop
  PROVE  IInv'
<1> DEFINE t == todo[k]
           i == insts[LargestOf(Unneeded(t))]
           args == ArgsOf(t)
<1>1. /\ pc = "pick" /\ k <= Len(todo) /\ Unneeded(t) # {}
      /\ UNCHANGED <<flags, libVars, trace, final, todo, init, part, helped>>
      /\ \/ pc' = "double variable" /\ insts' = insts /\ made' = made /\ k' = k
         \/ /\ \E sub \in Satisfying(i.method, [args |-> args], StateAt(init)) :
                 AddMethodInst(i.method, sub, init, i.task, i.effects, i.cost)
            /\ k' = k + 1 /\ pc' = pc
  BY DEF Drop, At
<1> HIDE DEF t, args
<1>2. /\ LibOK /\ LoopsOK /\ insts \in Seq(InstType)
  BY DEF IInv, TypeInv, InstsOK
<1>3. /\ init \in Nat /\ final \in Nat /\ init < final /\ k \in Nat \ {0} /\ k + 1 \in Nat \ {0}
  BY <1>1, <1>2, TodoFacts
<1>4. LargestOf(Unneeded(t)) \in 1..Len(insts)
  <2>1. Unneeded(t) \subseteq 1..Len(insts) /\ 1..Len(insts) \subseteq 0..Len(insts) /\ Len(insts) \in Nat
    BY <1>2 DEF Unneeded
  <2> DEFINE U == Unneeded(t)
             n == Len(insts)
  <2>2. n \in Nat /\ U \subseteq 0..n /\ U # {}
    BY <1>1, <2>1
  <2> HIDE DEF U, n
  <2>3. LargestOf(U) \in U
    BY <2>2, LargestFacts
  <2> QED  BY <2>1, <2>3 DEF U
<1>5. InstOK(i)
  BY <1>4 DEF IInv, TypeInv, InstsOK
<1> HIDE DEF i
<1>6. /\ Usable(i.method) /\ i.method.name \notin CheckNames
      /\ i.task \in TaskType /\ i.effects \in SUBSET Over(Variable) /\ i.cost \in Nat
  BY <1>5 DEF InstOK, InstType, Bound
<1>11. LibOK' /\ k' \in Nat \ {0} /\ pc' \in Ends \cup {"pick"} /\ pc' \notin {"regress", "check", "checkers"}
  <2>1. LibOK'
    BY <1>1, <1>2, LibKept
  <2>2. k' \in Nat \ {0}
    BY <1>1, <1>3, Zenon
  <2>3. pc' = "double variable" \/ pc' = "pick"
    BY <1>1
  <2> QED  BY <2>1, <2>2, <2>3 DEF Ends
<1>12. LoopsOK'
  BY <1>1, <1>2, <1>3, <1>11, LoopsKept DEF LoopsOK
<1>15. flags' = flags /\ trace' = trace /\ final' = final /\ final <= final'
  <2>1. flags' = flags /\ trace' = trace /\ final' = final
    BY <1>1
  <2>2. final <= final
    BY <1>3
  <2> QED  BY <2>1, <2>2, Zenon
<1>13. CASE insts' = insts /\ made' = made
  BY <1>11, <1>12, <1>13, <1>15, QuietStep
<1>14. CASE \E sub \in Satisfying(i.method, [args |-> args], StateAt(init)) :
              AddMethodInst(i.method, sub, init, i.task, i.effects, i.cost)
  <2> DEFINE body == i.method
             task == i.task
             effects == i.effects
             cost == i.cost
             before == init
  <2>1. PICK sub \in Satisfying(body, [args |-> args], StateAt(before)) :
          AddMethodInst(body, sub, before, task, effects, cost)
    BY <1>14
  <2>2. /\ Usable(body) /\ body.name \notin CheckNames /\ cost \in Nat /\ task \in TaskType
        /\ effects \in SUBSET Over(Variable) /\ before \in Nat /\ before < final
    BY <1>3, <1>6
  <2> HIDE DEF body, task, effects, cost, before
  <2> QED  BY <1>11, <1>12, <1>15, <2>1, <2>2, KnownMethodStep
<1> QED  BY <1>1, <1>13, <1>14

----------------------------------------------------------------------------
(* A method is made                                                        *)

LEMMA GoalsType ==
  ASSUME NEW p, NEW n, PartOK(p, n), NEW form, form \subseteq Goals(p)
  PROVE  /\ form \in SUBSET Over(DOMAIN p.master) /\ FormulaAfter(form, p.master) \in SUBSET Over(Object)
         /\ FormulaAfter(form, p.master) \subseteq GroundGoals(p)
<1>1. Goals(p) \in SUBSET Over(DOMAIN p.master) /\ p.master \in Subst(Object)
  BY DEF PartOK, GoalsOK, PartType
<1>2. Into(p.master, Object)
  BY <1>1, SubstFacts
<1>3. form \in SUBSET Over(DOMAIN p.master)
  BY <1>1
<1> QED  BY <1>2, <1>3, FormulaAfterType, FormulaParts DEF GroundGoals

\* What NewMethod is made of.
LEMMA NewMethodSubtasks ==
  ASSUME TypeInv, pc = "regress"
  PROVE  \E verifier \in Seq(Looks) :
           LET b == CreateMethod(part, verifier, flags.partial_generalization)
           IN  MadeOf(b, part) /\ NewMethod = IF flags.nd_checkers THEN WithNdCheckers(b) ELSE b
<1> DEFINE v == VerifierOf[part.task.name]
           verifier == IF flags.soundness_check THEN <<v>> ELSE <<>>
           b == CreateMethod(part, verifier, flags.partial_generalization)
<1>1. PartOK(part, made) /\ \E j \in 1..Len(Tasks) : part.task = Tasks[j]
  BY DEF TypeInv, PartialOK
<1>2. v \in Compound /\ v \in Looks /\ Arity[v] = Arity[part.task.name]
  BY <1>1, TaskFacts DEF Looks
<1>3. NewMethod = IF flags.nd_checkers THEN WithNdCheckers(b) ELSE b
  BY Zenon DEF NewMethod
<1> HIDE DEF v
<1>4. /\ verifier \in Seq(Compound) /\ verifier \in Seq(Looks)
      /\ \A i \in 1..Len(verifier) : Arity[verifier[i]] = Arity[part.task.name]
  <2>1. /\ <<v>> \in Seq(Compound) /\ <<v>> \in Seq(Looks) /\ Len(<<v>>) = 1 /\ <<v>>[1] = v
        /\ <<>> \in Seq(Compound) /\ <<>> \in Seq(Looks) /\ Len(<<>>) = 0
    BY <1>2
  <2>2. verifier = <<v>> \/ verifier = <<>>
    BY Zenon
  <2> HIDE DEF verifier
  <2>3. CASE verifier = <<v>>
    BY <1>2, <2>1, <2>3
  <2>4. CASE verifier = <<>>
    BY <2>1, <2>4
  <2> QED  BY <2>2, <2>3, <2>4
<1> HIDE DEF verifier
<1>5. MadeOf(b, part)
  BY <1>1, <1>4, CreateMethodFacts
<1> QED  BY <1>3, <1>4, <1>5

LEMMA NewMethodMade ==
  ASSUME TypeInv, pc = "regress"
  PROVE  MadeOf(NewMethod, part) /\ NewMethod.name \notin CheckNames
<1>1. PICK verifier \in Seq(Looks) :
        LET b == CreateMethod(part, verifier, flags.partial_generalization)
        IN  MadeOf(b, part) /\ NewMethod = IF flags.nd_checkers THEN WithNdCheckers(b) ELSE b
  BY NewMethodSubtasks
<1> DEFINE b == CreateMethod(part, verifier, flags.partial_generalization)
<1>2. MadeOf(b, part) /\ NewMethod = IF flags.nd_checkers THEN WithNdCheckers(b) ELSE b
  BY <1>1
<1> HIDE DEF b
<1>3. MadeOf(NewMethod, part)
  BY <1>2, WithCheckers
<1>4. part.task.name \notin CheckNames
  BY TaskFacts DEF TypeInv, PartialOK
<1> QED  BY <1>3, <1>4 DEF MadeOf

\* What a method needs is true where its annotation starts, or supplied by a
\* step that one of its subtasks stands for.
LEMMA NeedsOfNewMethod ==
  ASSUME IInv, pc = "regress", part.current = init, MakesMethod, NEW b, MadeOf(b, part),
         NEW x, InstanceOf(x, b, part.master, init, final, x.cost)
  PROVE  NewNeedsHold(x, init, final)
<1> DEFINE M == part.master
<1>1. SUFFICES ASSUME Distinct(x.sub), AllDistinct, NEW g \in Needs(x)
               PROVE  \/ True(g, StateAt(init))
                      \/ \E j \in 1..Len(insts) :
                           /\ init <= insts[j].before /\ insts[j].after <= final
                           /\ TaskAfter(HeadOf(insts[j].method), insts[j].sub) \in Calls(x)
                           /\ AddsWithin(insts[j].before, insts[j].after, g)
  BY DEF NewNeedsHold
<1>2. PartOK(part, made) /\ part.init = init /\ part.final = final
  BY DEF IInv, TypeInv, PartialOK
<1>3. /\ helped /\ IsConsistent(LiftedPrecs(part), M, StateAt(init)) /\ IsConsistent(part.adds, M, StateAt(init))
  BY DEF MakesMethod, RemainingAddListSatisfied
<1>4. Distinct(M)
  BY <1>1 DEF InstanceOf, Distinct
<1>5. PICK l \in b.precs : g = LiteralAfter(l, M)
  <2>1. Needs(x) = FormulaAfter(b.precs, M)
    BY DEF InstanceOf
  <2> QED  BY <2>1 DEF FormulaAfter
<1> HIDE DEF M
<1>6. CASE l \in LiftedPrecs(part)
  <2>1. LiftedPrecs(part) \in SUBSET Over(DOMAIN M)
    BY <1>2, MethodPrecsFacts DEF M
  <2>2. g \in FormulaAfter(LiftedPrecs(part), M)
    BY <1>5, <1>6 DEF FormulaAfter
  <2> QED  BY <1>3, <2>1, <2>2, ConsistentAfter
<1>7. CASE l \in part.adds
  <2>1. part.adds \in SUBSET Over(DOMAIN M)
    BY <1>2, GoalsType DEF M, Goals
  <2>2. g \in FormulaAfter(part.adds, M)
    BY <1>5, <1>7 DEF FormulaAfter
  <2> QED  BY <1>3, <2>1, <2>2, ConsistentAfter
<1>8. CASE l \in part.precs
  <2>1. g \in GroundGoals(part)
    BY <1>5, <1>8 DEF GroundGoals, Goals, FormulaAfter, M
  <2>2. True(g, StateAt(init)) \/ Supplied(part, g)
    BY <1>1, <1>3, <1>4, <2>1 DEF IInv, GoalsHold, M
  <2>3. ASSUME Supplied(part, g)
        PROVE  \E j \in 1..Len(insts) :
                 /\ init <= insts[j].before /\ insts[j].after <= final
                 /\ TaskAfter(HeadOf(insts[j].method), insts[j].sub) \in Calls(x)
                 /\ AddsWithin(insts[j].before, insts[j].after, g)
    <3>1. PICK i \in 1..Len(part.pieces) :
            part.pieces[i].head.name \in Compound /\ AddsWithin(part.pieces[i].before, part.pieces[i].after, g)
      BY <2>3 DEF Supplied
    <3>2. PICK j \in 1..Len(insts) :
            /\ insts[j].before = part.pieces[i].before /\ insts[j].after = part.pieces[i].after
            /\ TaskAfter(HeadOf(insts[j].method), insts[j].sub) = CallOf(part, i)
      BY <3>1 DEF IInv, PiecesAnnotated
    <3>3. PieceOK(part.pieces[i], part) /\ Keeps(part, part)
      BY <1>2 DEF PartOK
    <3>4. init <= insts[j].before /\ insts[j].after <= final
      BY <1>2, <3>2, <3>3 DEF PieceOK
    <3> DEFINE piece == part.pieces[i]
               h == TaskAfter(piece.head, piece.sub)
    <3>5. TaskAfter(h, M) = CallOf(part, i)
      <4>1. Into(piece.sub, DOMAIN M)
        BY <3>3 DEF Keeps, Same, Into, M
      <4>2. piece.head.args \in Seq(DOMAIN piece.sub)
        BY <3>3 DEF PieceOK
      <4>3. TaskAfter(TaskAfter(piece.head, piece.sub), M) = TaskAfter(piece.head, Composed(piece.sub, M))
        BY <4>1, <4>2, HeadComposed
      <4> QED  BY <4>3 DEF CallOf, M
    <3>6. TaskAfter(h, M) \in Calls(x)
      <4>1. h \in Elems(b.subtasks)
        BY DEF MadeOf, Called
      <4>2. h.args \in Seq(DOMAIN M)
        BY <1>2, SubtaskOfPiece DEF M
      <4> HIDE DEF h
      <4> QED  BY <4>1, <4>2 DEF InstanceOf, M
    <3> QED  BY <3>1, <3>2, <3>4, <3>5, <3>6
  <2> QED  BY <2>2, <2>3
<1>9. CASE /\ flags.partial_generalization /\ l.pred = "=" /\ ~l.pos /\ Len(l.args) = 2
           /\ l.args[1] \in DOMAIN M /\ l.args[2] \in DOMAIN M /\ l.args[1] # l.args[2]
  <2>1. M[l.args[1]] # M[l.args[2]]
    BY <1>4, <1>9 DEF Distinct, IsInjective
  <2>2. b.precs \in SUBSET Over(DOMAIN M) /\ Regressible(b.precs)
    BY DEF MadeOf, M
  <2>3. l \in Over(DOMAIN M)
    BY <2>2
  <2>4. Holds(l, M, StateAt(init))
    <3>1. l.args \in Seq(DOMAIN M)
      BY <2>3 DEF Over
    <3>2. AtomAfter(l, M).args[1] = M[l.args[1]] /\ AtomAfter(l, M).args[2] = M[l.args[2]]
      <4>1. AtomAfter(l, M).args = AfterSubstitution(l.args, M)
        BY DEF AtomAfter
      <4>2. 1 \in 1..Len(l.args) /\ 2 \in 1..Len(l.args)
        BY <1>9
      <4> QED  BY <3>1, <4>1, <4>2, ArgsAfter
    <3> QED  BY <1>9, <2>1, <3>2 DEF Holds
  <2> QED  BY <1>5, <2>3, <2>4, TrueAfter
<1> QED  BY <1>5, <1>6, <1>7, <1>8, <1>9 DEF MadeOf, M

LEMMA BoundMaster ==
  ASSUME NEW p, NEW n, PartOK(p, n), NEW b, MadeOf(b, p), b.name \notin CheckNames
  PROVE  Bound(b, p.master)
<1> QED  BY DEF Bound, MadeOf, PartOK, PartType

LEMMA CreateStep ==
  ASSUME FreshNames, IInv, Create
  PROVE  IInv'
<1> DEFINE b == NewMethod
           task == DescrAfter(part.task, part.taskSub)
           effects == ActualEffects(part)
           cost == IF flags.qvalues THEN part.cost ELSE Unrated
           count == IF flags.qvalues THEN 1 ELSE 0
           total == IF flags.qvalues THEN part.cost ELSE 0
           M == part.master
           before == part.init
           route == RouteOfMethod
<1>1. /\ pc = "regress" /\ part.current = init /\ MakesMethod
      /\ pc' = "pick" /\ k' = k + 1 /\ UNCHANGED <<trace, final, todo, init, part, helped>>
      /\ AddMethodInst(b, M, before, task, effects, cost)
  BY DEF Create, At
<1>2. Lib!DropSelfLoop \/ Lib!Offer(Lib!NewEntry(b, count, total, TRUE), route)
  BY DEF Create
<1>3. LibOK /\ LoopsOK /\ PartOK(part, made) /\ part.init = init /\ part.final = final
  BY <1>1 DEF IInv, TypeInv, PartialOK
<1>4. MadeOf(b, part) /\ b.name \notin CheckNames
  BY <1>1, NewMethodMade DEF IInv
<1> HIDE DEF b
<1>5. part \in PartType /\ part.cost \in Nat /\ part.master \in Subst(Object)
  BY <1>3 DEF PartOK, PartType
<1>6. Bound(b, M)
  BY <1>3, <1>4, BoundMaster
<1>7. task \in TaskType /\ effects \in SUBSET Over(Variable)
  <2>1. part.task \in TaskType /\ Into(part.taskSub, Variable)
    BY <1>5, SubstFacts DEF PartType
  <2>2. task \in TaskType
    BY <2>1, DescrAfterType
  <2> QED  BY <1>3, <2>2, ActualEffectsType
<1>8. cost \in Nat /\ count \in Nat /\ total \in Nat
  BY <1>5 DEF Unrated
<1>9. route \in {"idle", "find", "update"}
  BY DEF RouteOfMethod
<1>10. before \in Nat /\ before < final /\ final \in Nat /\ k \in Nat \ {0}
  <2>1. final \in 0..Len(trace.steps) /\ init \in 0..final /\ init < final /\ k \in Nat \ {0} /\ trace \in Traces
    BY <1>1, <1>3 DEF LoopsOK
  <2>2. Len(trace.steps) \in Nat
    BY <2>1, TraceType
  <2> QED  BY <1>3, <2>1, <2>2
<1> HIDE DEF task, effects, cost, count, total, route
<1>11. LibOK' /\ flags' = flags
  BY <1>2, <1>3, <1>4, <1>8, <1>9, LibOffers, LibDrops DEF MadeOf
<1>12. LoopsOK'
  <2>1. k' \in Nat \ {0}
    BY <1>1, <1>10
  <2> QED  BY <1>1, <1>3, <1>11, <2>1, LoopsKept DEF LoopsOK
<1>13. ASSUME NEW x, InstanceOf(x, b, M, before, final, cost)
       PROVE  NewNeedsHold(x, before, final)
  <2>1. InstanceOf(x, b, M, before, final, x.cost)
    BY <1>13 DEF InstanceOf
  <2> HIDE DEF M
  <2>2. NewNeedsHold(x, init, final)
    BY <1>1, <1>3, <1>4, <2>1, NeedsOfNewMethod DEF M
  <2> QED  BY <1>3, <2>2
<1>14. trace' = trace /\ final' = final /\ pc' \notin {"regress", "check"}
  BY <1>1
<1> HIDE DEF M, before
<1> QED  BY <1>1, <1>6, <1>7, <1>8, <1>10, <1>11, <1>12, <1>13, <1>14, AnnotateStep

----------------------------------------------------------------------------
(* A partial method is begun                                               *)

\* What NewPartialFacts asks of a ground task.
Ground(task, ground) ==
  /\ task \in TaskType /\ Len(task.params) = Arity[task.name]
  /\ ground \in Subst(Object) /\ IsFiniteSet(DOMAIN ground) /\ task.params \in Seq(DOMAIN ground)
  /\ task.precs \in SUBSET Over(DOMAIN ground) /\ IsFiniteSet(task.precs) /\ Positive(task.precs)
  /\ task.effects \in SUBSET Over(DOMAIN ground) /\ IsFiniteSet(task.effects) /\ Positive(task.effects)

LEMMA BegunStep ==
  ASSUME FreshNames, IInv, NEW task, NEW ground, Ground(task, ground),
         NEW first \in Nat, NEW last \in Nat, first <= last, last <= Len(trace.steps),
         IsConsistent(task.effects, ground, StateAt(last)),
         part' = [NewPartial(task, ground, NewVars(DOMAIN ground, made), last) EXCEPT !.init = first],
         made' = made + Cardinality(DOMAIN ground), init' = first,
         UNCHANGED <<flags, libVars, trace, insts, final>>,
         pc' = "regress" => last = final /\ \E j \in 1..Len(Tasks) : task = Tasks[j],
         LoopsOK'
  PROVE  IInv'
<1>1. LibOK /\ LibOK' /\ made \in Nat /\ InstsOK
  BY LibKept DEF IInv, TypeInv, InstsOK
<1> DEFINE p == [NewPartial(task, ground, NewVars(DOMAIN ground, made), last) EXCEPT !.init = first]
           c == made + Cardinality(DOMAIN ground)
<1>2. /\ c \in Nat /\ PartOK(p, c) /\ p.task = task /\ p.init = first /\ p.final = last
      /\ p.current = last /\ p.pieces = <<>> /\ GroundGoals(p) \subseteq FormulaAfter(task.effects, ground)
  BY <1>1, NewPartialFacts DEF Ground
<1>3. part' = p /\ made' = c
  OBVIOUS
<1> HIDE DEF p, c
<1>4. \A g \in GroundGoals(p) : True(g, StateAt(last))
  <2>1. task.effects \in SUBSET Over(DOMAIN ground)
    BY DEF Ground
  <2>2. \A g \in FormulaAfter(task.effects, ground) : True(g, StateAt(last))
    BY <2>1, ConsistentAfter
  <2> QED  BY <1>2, <2>2
<1>5. InstsOK'
  BY <1>1, <1>2, <1>3 DEF InstsOK
<1>6. PartialOK'
  <2>1. PartOK(part', made') /\ part'.init = init' /\ part'.final <= Len(trace'.steps)
    BY <1>2, <1>3
  <2>2. pc' = "regress" => part'.final = final' /\ \E j \in 1..Len(Tasks) : part'.task = Tasks[j]
    BY <1>2, <1>3
  <2> QED  BY <2>1, <2>2 DEF PartialOK
<1>7. GoalsHold'
  <2>1. StateAt(part.current)' = StateAt(last)
    BY <1>2, <1>3 DEF StateAt
  <2>2. GroundGoals(part)' = GroundGoals(p)
    BY <1>3 DEF GroundGoals, Goals
  <2> QED  BY <1>4, <2>1, <2>2 DEF GoalsHold
<1>8. PiecesAnnotated'
  <2>1. part'.pieces = <<>> /\ Len(<<>>) = 0
    BY <1>2, <1>3
  <2>2. 1..Len(part'.pieces) = {}
    BY <2>1
  <2> QED  BY <2>2 DEF PiecesAnnotated
<1>9. AnnotationsHold'
  BY AnnotationsKept DEF IInv
<1> QED  BY <1>1, <1>5, <1>6, <1>7, <1>8, <1>9 DEF IInv, TypeInv

LEMMA BeginStep ==
  ASSUME FreshNames, IInv, Begin
  PROVE  IInv'
<1> DEFINE task == todo[k].task
           ground == todo[k].ground
<1>1. /\ pc = "pick" /\ k <= Len(todo) /\ helped' = FALSE /\ pc' = "regress"
      /\ UNCHANGED <<flags, libVars, trace, insts, final, todo, init, k>>
      /\ part' = [NewPartial(task, ground, NewVars(DOMAIN ground, made), final) EXCEPT !.init = init]
      /\ made' = made + Cardinality(DOMAIN ground)
  BY DEF Begin, At
<1>2. LoopsOK
  BY DEF IInv, TypeInv
<1>3. /\ init \in Nat /\ final \in Nat /\ init < final /\ final \in 1..Len(trace.steps) /\ trace \in Traces
      /\ \E j \in 1..Len(Tasks) :
           /\ todo[k].task = Tasks[j] /\ todo[k].ground \in [Elems(Tasks[j].params) -> Object]
           /\ IsConsistent(Tasks[j].effects, todo[k].ground, StateAt(final))
  BY <1>1, <1>2, TodoFacts
<1>4. PICK j \in 1..Len(Tasks) : /\ task = Tasks[j] /\ ground \in [Elems(Tasks[j].params) -> Object]
                                 /\ IsConsistent(Tasks[j].effects, ground, StateAt(final))
  BY <1>3
<1> HIDE DEF task, ground
<1>5. Ground(task, ground)
  <2>1. DOMAIN ground = Elems(task.params) /\ Elems(task.params) \subseteq Variable /\ IsFiniteSet(Elems(task.params))
    BY <1>4, TaskFacts
  <2>2. ground \in Subst(Object)
    BY <1>4, <2>1 DEF Subst
  <2>3. /\ task \in TaskType /\ Len(task.params) = Arity[task.name] /\ task.params \in Seq(Elems(task.params))
        /\ task.precs \in SUBSET Over(Elems(task.params)) /\ IsFiniteSet(task.precs) /\ Positive(task.precs)
        /\ task.effects \in SUBSET Over(Elems(task.params)) /\ IsFiniteSet(task.effects) /\ Positive(task.effects)
    BY <1>4, TaskFacts
  <2> QED  BY <2>1, <2>2, <2>3 DEF Ground
<1>6. LoopsOK'
  BY <1>1, <1>2, LoopsKept DEF LoopsOK
<1>7. init <= final /\ final <= Len(trace.steps) /\ IsConsistent(task.effects, ground, StateAt(final))
      /\ \E i \in 1..Len(Tasks) : task = Tasks[i]
  <2>1. Len(trace.steps) \in Nat
    BY <1>3, TraceType
  <2> QED  BY <1>3, <1>4, <2>1
<1> DEFINE first == init
           last == final
<1>8. /\ part' = [NewPartial(task, ground, NewVars(DOMAIN ground, made), last) EXCEPT !.init = first]
      /\ first \in Nat /\ last \in Nat /\ first <= last /\ last <= Len(trace.steps) /\ init' = first /\ last = final
      /\ IsConsistent(task.effects, ground, StateAt(last))
  BY <1>1, <1>3, <1>7
<1> HIDE DEF first, last
<1> QED  BY <1>1, <1>5, <1>6, <1>7, <1>8, BegunStep

LEMMA NamedFacts ==
  ASSUME NEW n \in {Operators[i].name : i \in 1..Len(Operators)}
  PROVE  \E i \in 1..Len(Operators) : OperatorNamed(n) = Operators[i] /\ Operators[i].name = n
<1> DEFINE i == CHOOSE j \in 1..Len(Operators) : Operators[j].name = n
<1>1. \E j \in 1..Len(Operators) : Operators[j].name = n
  OBVIOUS
<1>2. i \in 1..Len(Operators) /\ Operators[i].name = n
  BY <1>1, Zenon
<1>3. OperatorNamed(n) = Operators[i]
  BY Zenon DEF OperatorNamed
<1> HIDE DEF i
<1> QED  BY <1>2, <1>3

LEMMA CheckerGround ==
  ASSUME trace \in Traces, NEW i \in 1..Len(trace.steps), OperatorAt(i).name \in DOMAIN DesiredOf
  PROVE  LET o == OperatorNamed(DesiredOf[OperatorAt(i).name])
         IN  /\ Ground(CheckTaskDescr(o), SubAt(i))
             /\ \A state : IsConsistent(o.effects, SubAt(i), state) => IsConsistent(CheckTaskDescr(o).effects, SubAt(i), state)
<1> DEFINE p == OperatorAt(i)
           n == DesiredOf[p.name]
           o == OperatorNamed(n)
           t == CheckTaskDescr(o)
           sub == SubAt(i)
<1>1. /\ p = Operators[trace.steps[i].oper] /\ trace.steps[i].oper \in 1..Len(Operators) /\ p \in OperatorType
      /\ DOMAIN sub = BoundVariables(p)
      /\ sub \in Subst(Object) /\ IsFiniteSet(DOMAIN sub) /\ p.params \in Seq(DOMAIN sub) /\ Len(p.params) = Arity[p.name]
  BY TraceFacts DEF CallOK
<1>2. /\ n \in {Operators[j].name : j \in 1..Len(Operators)} /\ n \in DOMAIN CheckerOf
      /\ o.params = p.params /\ VariablesOf(o.effects) \subseteq BoundVariables(p)
  BY <1>1, MakerAssumption
<1>3. PICK j \in 1..Len(Operators) : o = Operators[j] /\ o.name = n
  BY <1>2, NamedFacts
<1>4. o \in OperatorType /\ Len(o.params) = Arity[o.name] /\ Lifted(o.effects)
  BY <1>3, OperatorFacts, MakerAssumption
<1>5. CheckerOf[n] \in Compound /\ Arity[CheckerOf[n]] = Arity[n]
  BY <1>2, MakerAssumption, CheckerAssumption
<1> HIDE DEF o, p, sub
<1>6. /\ t = [name |-> CheckerOf[n], params |-> p.params, precs |-> {}, effects |-> Adds(o.effects)]
  BY <1>2, <1>3 DEF CheckTaskDescr
<1> HIDE DEF t, n
<1>7. /\ Adds(o.effects) \in SUBSET Over(DOMAIN sub) /\ IsFiniteSet(Adds(o.effects)) /\ Positive(Adds(o.effects))
  <2>1. Adds(o.effects) \subseteq o.effects /\ Positive(Adds(o.effects))
    BY DEF Adds, Positive
  <2>2. o.effects \in SUBSET Over(DOMAIN sub)
    BY <1>1, <1>2, <1>4, OverVariables DEF Lifted
  <2>3. IsFiniteSet(Adds(o.effects))
    BY <1>4, <2>1, FS_Subset DEF Lifted
  <2> QED  BY <2>1, <2>2, <2>3
<1>8. p.params \in Seq(Variable) /\ Len(p.params) = Arity[CheckerOf[n]]
  BY <1>1, <1>2, <1>3, <1>4, <1>5 DEF OperatorType
<1>9. {} \in SUBSET Over(DOMAIN sub) /\ IsFiniteSet({}) /\ Positive({}) /\ {} \in SUBSET Over(Variable)
  BY FS_EmptySet DEF Positive
<1>10. Adds(o.effects) \in SUBSET Over(Variable)
  <2>1. DOMAIN sub \subseteq Variable
    BY <1>1, SubstFacts
  <2> QED  BY <1>7, <2>1, OverLiteral
<1>11. Ground(t, sub)
  <2>1. t.name = CheckerOf[n] /\ t.params = p.params /\ t.precs = {} /\ t.effects = Adds(o.effects)
    BY <1>6
  <2>2. t \in TaskType
    BY <1>5, <1>6, <1>8, <1>9, <1>10 DEF TaskType
  <2> QED  BY <1>1, <1>7, <1>8, <1>9, <2>1, <2>2 DEF Ground
<1>12. ASSUME NEW state, IsConsistent(o.effects, sub, state)
       PROVE  IsConsistent(t.effects, sub, state)
  BY <1>6, <1>12 DEF IsConsistent, Adds
<1> QED  BY <1>11, <1>12 DEF t, o, n, p, sub

LEMMA BeginCheckerStep ==
  ASSUME FreshNames, IInv, BeginChecker
  PROVE  IInv'
<1> DEFINE o == OperatorNamed(DesiredOf[OperatorAt(final).name])
           task == CheckTaskDescr(o)
           ground == SubAt(final)
           last == SmallestOf(DesiredLater(o))
           first == final
<1>1. /\ pc = "checkers" /\ helped' = FALSE /\ pc' = "check" /\ init' = first
      /\ UNCHANGED <<flags, libVars, trace, insts, final, todo, k>>
      /\ part' = [NewPartial(task, ground, NewVars(DOMAIN ground, made), last) EXCEPT !.init = first]
      /\ made' = made + Cardinality(DOMAIN ground)
  BY DEF BeginChecker, At
<1>2. OperatorAt(final).name \in DOMAIN DesiredOf /\ DesiredLater(o) # {}
  BY DEF BeginChecker, HasChecker
<1>3. LoopsOK /\ trace \in Traces
  BY DEF IInv, TypeInv, LoopsOK
<1>4. Len(trace.steps) \in Nat /\ final \in 1..Len(trace.steps) /\ final \in Nat
  <2>1. Len(trace.steps) \in Nat
    BY <1>3, TraceType
  <2>2. final \in 0..Len(trace.steps) /\ final # 0
    BY <1>1, <1>3 DEF LoopsOK
  <2> QED  BY <2>1, <2>2
<1>5. /\ Ground(task, ground)
      /\ \A state : IsConsistent(o.effects, ground, state) => IsConsistent(task.effects, ground, state)
  BY <1>2, <1>3, <1>4, CheckerGround
<1> HIDE DEF o, task
<1>6. last \in DesiredLater(o) /\ last \in (final + 1)..Len(trace.steps)
  <2>1. DesiredLater(o) \subseteq (final + 1)..Len(trace.steps) /\ DesiredLater(o) \subseteq Nat
    BY <1>4 DEF DesiredLater
  <2>2. last \in DesiredLater(o)
    BY <1>2, <2>1, SmallestFacts
  <2> QED  BY <2>1, <2>2
<1>7. IsConsistent(task.effects, ground, StateAt(last))
  BY <1>5, <1>6 DEF DesiredLater
<1> HIDE DEF ground, last, first
<1>8. first \in Nat /\ last \in Nat /\ first <= last /\ last <= Len(trace.steps)
  <2>1. first = final
    BY DEF first
  <2> QED  BY <1>4, <1>6, <2>1
<1>9. LoopsOK'
  <2>1. final' # 0 /\ init' \in 0..final' /\ final' = final
    BY <1>1, <1>4 DEF first
  <2> QED  BY <1>1, <1>3, <2>1, LoopsKept DEF LoopsOK
<1> QED  BY <1>1, <1>5, <1>7, <1>8, <1>9, BegunStep

----------------------------------------------------------------------------
(* Regression                                                              *)

\* What changes when an operator or a method is added.
LEMMA CallsKept ==
  ASSUME NEW p, NEW q, Follows(q, p), NEW i \in 1..Len(p.pieces)
  PROVE  CallOf(q, i) = CallOf(p, i)
<1>1. /\ q.pieces[i].head = p.pieces[i].head /\ Same(q.pieces[i].sub, q.master, p.pieces[i].sub, p.master)
  BY DEF Follows
<1>2. Composed(q.pieces[i].sub, q.master) = Composed(p.pieces[i].sub, p.master)
  BY <1>1 DEF Same, Composed
<1> QED  BY <1>1, <1>2 DEF CallOf

LEMMA SuppliedKept ==
  ASSUME NEW p \in PartType, NEW q \in PartType, Follows(q, p), NEW g, Supplied(p, g)
  PROVE  Supplied(q, g)
<1>1. PICK i \in 1..Len(p.pieces) :
        p.pieces[i].head.name \in Compound /\ AddsWithin(p.pieces[i].before, p.pieces[i].after, g)
  BY DEF Supplied
<1>2. i \in 1..Len(q.pieces)
  <2>1. Len(p.pieces) \in Nat /\ Len(q.pieces) \in Nat
    BY DEF PartType
  <2> QED  BY <2>1 DEF Follows
<1> QED  BY <1>1, <1>2 DEF Supplied, Follows

\* A goal that held after some steps held before them, or one of them made it true.
LEMMA GoalBack ==
  ASSUME TypeInv, NEW n, PartOK(part, n), part.final <= Len(trace.steps), NEW before \in Nat, before <= part.current,
         NEW g \in GroundGoals(part), True(g, StateAt(part.current))
  PROVE  True(g, StateAt(before)) \/ AddsWithin(before, part.current, g)
<1>1. trace \in Traces
  BY DEF TypeInv, LoopsOK
<1>2. part.current \in Nat /\ part.final \in Nat /\ part.current <= part.final /\ Len(trace.steps) \in Nat
  BY <1>1, TraceType DEF PartOK, PartType
<1>3. g \in Over(Object) /\ (g.pos \/ g.pred = "=")
  BY GoalsType DEF PartOK, GoalsOK, Positive, GroundGoals
<1> QED  BY <1>1, <1>2, <1>3, StepsBack

\* If no step is left out, or not only the last one, what is outstanding is true.
LEMMA CallStep ==
  ASSUME FreshNames, IInv, pc \in {"regress", "check"}, part.current > init,
         NEW head, NEW precs, NEW effects, NEW real, CallOK(head, precs, effects, real),
         NEW before \in Nat, init <= before, before < part.current, NEW cost \in Nat,
         AddPiece(head, precs, effects, real, before, cost),
         UNCHANGED <<flags, libVars, trace, insts, final, todo, init, k>>,
         \* An annotation, or the step of an operator.
         \/ /\ head.name \in Compound /\ pc = "regress"
            /\ \E j \in 1..Len(insts) :
                 /\ insts[j].before = before /\ insts[j].after = part.current
                 /\ TaskAfter(HeadOf(insts[j].method), insts[j].sub) = TaskAfter(head, real)
         \/ head.name \notin Compound,
         AllDistinct => \A g \in FormulaAfter(precs, real) :
           \/ True(g, StateAt(before))
           \/ head.name \in Compound /\ AddsWithin(before, part.current, g),
         head.name \notin Compound =>
           /\ effects \in SUBSET Over(DOMAIN real)
           /\ \A g \in GroundGoals(part) :
                True(g, StateAt(part.current)) /\ g \notin FormulaAfter(Adds(effects), real) => True(g, StateAt(before))
  PROVE  IInv'
<1>1. /\ LibOK' /\ LibOK /\ LoopsOK /\ InstsOK /\ PartOK(part, made) /\ made \in Nat
      /\ part.init = init /\ part.final <= Len(trace.steps)
  BY LibKept DEF IInv, TypeInv, InstsOK, PartialOK
<1>2. /\ made' \in Nat /\ helped' = TRUE
      /\ \/ pc' \in {"overlap", "substitution recurses"} /\ part' = part
         \/ /\ pc' = pc /\ PartOK(part', made')
            /\ WithCall(part', part, head, precs, effects, real, before, cost)
            /\ Distinct(part'.master) => Distinct(part.master)
            /\ Distinct(part'.master) /\ effects \in SUBSET Over(DOMAIN real) =>
                 GroundGoals(part') \subseteq
                   (GroundGoals(part) \ FormulaAfter(Adds(effects), real)) \cup FormulaAfter(precs, real)
  BY <1>1, AddPieceFacts
<1>3. LoopsOK' /\ InstsOK' /\ AnnotationsHold'
  <2>1. AnnotationsHold'
    BY AnnotationsKept DEF IInv
  <2>2. InstsOK'
    BY <1>1, <1>2 DEF InstsOK
  <2>3. pc' \in {"overlap", "substitution recurses"} \/ pc' = pc
    BY <1>2
  <2>4. /\ helped' \in BOOLEAN /\ k' = k /\ init' = init /\ final' = final
        /\ UNCHANGED <<flags, trace, final, todo>>
    <3>1. helped' = TRUE
      BY <1>2
    <3> QED  BY <3>1
  <2>5. /\ flags' \in FlagChoices /\ trace' \in Traces /\ final' \in 0..Len(trace'.steps)
        /\ init' \in 0..final' /\ k' \in Nat \ {0}
        /\ StateAt(final)' = StateAt(final) /\ todo' = todo
    BY <1>1, <2>4, LoopsKept DEF LoopsOK
  <2>6. CASE pc' = pc
    <3>1. /\ pc \in Ends \cup {"verifiers", "trivial", "partials", "pick", "regress", "checkers", "check"}
          /\ pc \in {"pick", "regress"} => init < final /\ todo \in Seq(TrueTasks(StateAt(final)))
          /\ pc \in {"checkers", "check"} => final # 0
      BY <1>1 DEF LoopsOK
    <3>2. /\ pc' \in Ends \cup {"verifiers", "trivial", "partials", "pick", "regress", "checkers", "check"}
          /\ pc' \in {"pick", "regress"} => init' < final' /\ todo' \in Seq(TrueTasks(StateAt(final)'))
          /\ pc' \in {"checkers", "check"} => final' # 0
      BY <2>4, <2>5, <2>6, <3>1
    <3>3. LoopsOK'
      BY <2>4, <2>5, <3>2 DEF LoopsOK
    <3> QED  BY <2>1, <2>2, <3>3
  <2>7. CASE pc' \in {"overlap", "substitution recurses"}
    <3>1. pc' \in Ends /\ pc' \notin {"pick", "regress", "checkers", "check"}
      BY <2>7 DEF Ends
    <3>2. LoopsOK'
      BY <2>4, <2>5, <3>1 DEF LoopsOK
    <3> QED  BY <2>1, <2>2, <3>2
  <2> QED  BY <2>1, <2>2, <2>3, <2>6, <2>7
<1>4. CASE pc' \in {"overlap", "substitution recurses"}
  <2>1. pc' \notin {"regress", "check"}
    BY <1>4
  <2> QED  BY <1>1, <1>3, <2>1 DEF IInv, TypeInv, PartialOK, GoalsHold, PiecesAnnotated
<1>5. CASE /\ pc' = pc /\ PartOK(part', made')
           /\ WithCall(part', part, head, precs, effects, real, before, cost)
           /\ Distinct(part'.master) => Distinct(part.master)
           /\ Distinct(part'.master) /\ effects \in SUBSET Over(DOMAIN real) =>
                GroundGoals(part') \subseteq
                  (GroundGoals(part) \ FormulaAfter(Adds(effects), real)) \cup FormulaAfter(precs, real)
  <2> DEFINE q == part'
             n == Len(part.pieces) + 1
  <2>1. /\ Follows(q, part) /\ q.current = before /\ Len(q.pieces) = n
        /\ q.pieces[n].head = head /\ q.pieces[n].before = before /\ q.pieces[n].after = part.current
        /\ StandsFor(q.pieces[n].sub, q, real)
        /\ GroundGoals(q) \subseteq GroundGoals(part) \cup FormulaAfter(precs, real)
    BY <1>5 DEF WithCall
  <2>2. /\ part \in PartType /\ q \in PartType /\ Len(part.pieces) \in Nat /\ n \in 1..Len(q.pieces)
    BY <1>1, <1>5, <2>1 DEF PartOK, PartType
  <2>3. PartialOK'
    <3>1. q.init = part.init /\ q.final = part.final /\ q.task = part.task
      BY <2>1 DEF Follows
    <3>2. PartOK(part', made')
      BY <1>5
    <3> HIDE DEF q
    <3>3. part' = q
      BY DEF q
    <3> QED  BY <1>1, <1>5, <3>1, <3>2, <3>3 DEF IInv, TypeInv, PartialOK
  <2>4. ASSUME NEW g, head.name \in Compound, AddsWithin(before, part.current, g)
        PROVE  Supplied(q, g)
    BY <2>1, <2>2, <2>4 DEF Supplied
  <2>5. ASSUME Distinct(part'.master), AllDistinct, NEW g \in GroundGoals(q)
        PROVE  True(g, StateAt(before)) \/ Supplied(q, g)
    <3>1. CASE g \in FormulaAfter(precs, real)
      BY <2>4, <2>5, <3>1
    <3>2. CASE g \in GroundGoals(part) /\ g \notin FormulaAfter(precs, real)
      <4>1. True(g, StateAt(part.current)) \/ Supplied(part, g)
        BY <1>5, <2>5, <3>2 DEF IInv, GoalsHold
      <4>2. CASE Supplied(part, g)
        BY <2>1, <2>2, <4>2, SuppliedKept
      <4>3. CASE True(g, StateAt(part.current)) /\ head.name \in Compound
        <5>1. True(g, StateAt(before)) \/ AddsWithin(before, part.current, g)
          <6>1. before <= part.current
            BY <2>2 DEF PartType
          <6> QED  BY <1>1, <3>2, <4>3, <6>1, GoalBack DEF IInv
        <5> QED  BY <2>4, <4>3, <5>1
      <4>4. CASE True(g, StateAt(part.current)) /\ head.name \notin Compound
        BY <1>5, <2>5, <3>2, <4>4
      <4> QED  BY <4>1, <4>2, <4>3, <4>4
    <3> QED  BY <2>1, <2>5, <3>1, <3>2
  <2>6. GoalsHold'
    <3>1. \A i : StateAt(i)' = StateAt(i)
      BY DEF StateAt
    <3>2. \A s : Distinct(s)' = Distinct(s)
      BY DEF Distinct
    <3>3. AllDistinct' <=> AllDistinct
      BY <3>2 DEF AllDistinct
    <3>4. \A g : Supplied(part, g)' = Supplied(q, g)
      <4>1. ASSUME NEW a, NEW b, NEW g
            PROVE  AddsWithin(a, b, g)' = AddsWithin(a, b, g)
        BY DEF AddsWithin, OperatorAt, SubAt
      <4> QED  BY <4>1 DEF Supplied
    <3>5. GroundGoals(part)' = GroundGoals(q)
      BY DEF GroundGoals, Goals
    <3>6. StateAt(part.current)' = StateAt(before)
      BY <2>1 DEF StateAt
    <3> QED  BY <2>5, <3>2, <3>3, <3>4, <3>5, <3>6 DEF GoalsHold, Distinct
  <2>7. PiecesAnnotated'
    <3>1. SUFFICES ASSUME pc = "regress", NEW i \in 1..Len(q.pieces), q.pieces[i].head.name \in Compound
                   PROVE  \E j \in 1..Len(insts) :
                            /\ insts[j].before = q.pieces[i].before /\ insts[j].after = q.pieces[i].after
                            /\ TaskAfter(HeadOf(insts[j].method), insts[j].sub) = CallOf(q, i)
      BY <1>5 DEF PiecesAnnotated, CallOf
    <3>2. CASE i = n
      <4>1. Composed(q.pieces[n].sub, q.master) = real
        <5>1. real = [v \in DOMAIN real |-> real[v]]
          BY SubstFacts DEF CallOK
        <5> QED  BY <2>1, <5>1 DEF Composed, StandsFor
      <4>2. CallOf(q, i) = TaskAfter(head, real)
        BY <2>1, <3>2, <4>1 DEF CallOf
      <4> QED  BY <2>1, <3>1, <3>2, <4>2
    <3>3. CASE i # n
      <4>1. i \in 1..Len(part.pieces)
        BY <2>1, <2>2, <3>3
      <4>2. CallOf(q, i) = CallOf(part, i)
        BY <2>1, <4>1, CallsKept
      <4>3. /\ q.pieces[i].head = part.pieces[i].head /\ q.pieces[i].before = part.pieces[i].before
            /\ q.pieces[i].after = part.pieces[i].after
        BY <2>1, <4>1 DEF Follows
      <4> QED  BY <3>1, <4>1, <4>2, <4>3 DEF IInv, PiecesAnnotated
    <3> QED  BY <3>2, <3>3
  <2> QED  BY <1>1, <1>3, <2>3, <2>6, <2>7 DEF IInv, TypeInv
<1> QED  BY <1>2, <1>4, <1>5

\* An annotation can be added wherever it ends.
LEMMA AnnotationCall ==
  ASSUME NEW x, InstOK(x), NEW effects \in SUBSET Over(Variable)
  PROVE  /\ CallOK(HeadOf(x.method), x.method.precs, effects, x.sub)
         /\ HeadOf(x.method).name \in Compound /\ x.before \in Nat /\ x.cost \in Nat
<1> DEFINE b == x.method
<1>1. /\ Usable(b) /\ b.name \notin CheckNames /\ x.sub \in Subst(Object) /\ IsFiniteSet(DOMAIN x.sub)
      /\ b.params \in Seq(DOMAIN x.sub) /\ b.precs \in SUBSET Over(DOMAIN x.sub)
      /\ x.before \in Nat /\ x.cost \in Nat
  BY DEF InstOK, Bound, InstType
<1>2. b \in AnyBody /\ b.name \in Compound /\ Len(b.params) = Arity[b.name] /\ Regressible(b.precs)
  BY <1>1 DEF Usable
<1>3. IsFiniteSet(b.precs) /\ Positive(b.precs)
  BY <1>2 DEF Regressible, Lifted, Positive
<1>4. HeadOf(b).name = b.name /\ HeadOf(b).args = b.params /\ HeadOf(b) \in HeadType
  BY <1>2 DEF HeadOf, HeadType, AnyBody, TaskName
<1> HIDE DEF b
<1>5. CallOK(HeadOf(b), b.precs, effects, x.sub)
  BY <1>1, <1>2, <1>3, <1>4 DEF CallOK
<1> QED  BY <1>1, <1>2, <1>4, <1>5 DEF b

LEMMA AddMethodStep ==
  ASSUME FreshNames, IInv, AddMethod
  PROVE  IInv'
<1> DEFINE B == BestMethod
           i == insts[B]
           effects == IF flags.only_task_effects THEN i.task.effects ELSE i.effects
           head == HeadOf(i.method)
           precs == i.method.precs
<1>1. /\ pc = "regress" /\ part.current > init /\ Candidates # {}
      /\ AddPiece(head, precs, effects, i.sub, i.before, i.cost)
      /\ UNCHANGED <<flags, libVars, trace, insts, final, todo, init, k>>
  BY DEF AddMethod, At
<1>2. insts \in Seq(InstType) /\ (\A j \in 1..Len(insts) : InstOK(insts[j])) /\ init \in Nat /\ part.current \in Nat
  <2>1. LoopsOK /\ InstsOK /\ PartOK(part, made)
    BY <1>1 DEF IInv, TypeInv, PartialOK
  <2>2. trace \in Traces /\ final \in 0..Len(trace.steps) /\ init \in 0..final
    BY <2>1 DEF LoopsOK
  <2> QED  BY <2>1, <2>2, TraceType DEF InstsOK, PartOK, PartType
<1>3. B \in 1..Len(insts) /\ i.after = part.current /\ init <= i.before
  <2>1. B \in Candidates
    BY <1>1, <1>2, BestMethodFacts
  <2>2. B \in 1..Len(insts) /\ i.after = part.current /\ i.before >= init + (IF flags.force_ops_first THEN 1 ELSE 0)
    BY <2>1 DEF Candidates
  <2>3. i.before \in Nat
    BY <1>2, <2>2 DEF InstOK, InstType
  <2> QED  BY <1>2, <2>2, <2>3
<1>4. InstOK(i) /\ effects \in SUBSET Over(Variable)
  <2>1. InstOK(i)
    BY <1>2, <1>3
  <2>2. i.task.effects \in SUBSET Over(Variable) /\ i.effects \in SUBSET Over(Variable)
    BY <2>1 DEF InstOK, InstType, TaskType
  <2> QED  BY <2>1, <2>2
<1>5. CallOK(head, precs, effects, i.sub) /\ head.name \in Compound /\ i.before \in Nat /\ i.cost \in Nat
  <2> HIDE DEF effects, i
  <2> QED  BY <1>4, AnnotationCall
<1>6. i.before < part.current
  BY <1>3, <1>4 DEF InstOK
<1>7. \E j \in 1..Len(insts) :
        /\ insts[j].before = i.before /\ insts[j].after = part.current
        /\ TaskAfter(HeadOf(insts[j].method), insts[j].sub) = TaskAfter(head, i.sub)
  BY <1>3
<1>8. ASSUME AllDistinct, NEW g \in FormulaAfter(precs, i.sub)
      PROVE  True(g, StateAt(i.before)) \/ (head.name \in Compound /\ AddsWithin(i.before, part.current, g))
  <2>1. NeedsHold(B) /\ g \in Needs(insts[B])
    BY <1>3, <1>8, AnnotationsHoldParts DEF IInv, Needs
  <2>2. \A j \in 1..B : Distinct(insts[j].sub)
    BY <1>2, <1>3, <1>8 DEF AllDistinct
  <2>3. CASE True(g, StateAt(i.before))
    BY <2>3
  <2>4. CASE ~True(g, StateAt(i.before))
    <3>1. PICK j \in 1..(B - 1) :
            /\ i.before <= insts[j].before /\ insts[j].after <= i.after
            /\ AddsWithin(insts[j].before, insts[j].after, g)
      BY <2>1, <2>2, <2>4 DEF NeedsHold
    <3>2. insts[j].before \in Nat /\ insts[j].after \in Nat
      <4>1. j \in 1..Len(insts)
        BY <1>2, <1>3
      <4> QED  BY <1>2, <4>1 DEF InstOK, InstType
    <3>3. AddsWithin(i.before, part.current, g)
      BY <1>2, <1>3, <1>5, <3>1, <3>2 DEF AddsWithin
    <3> QED  BY <1>5, <3>3
  <2> QED  BY <2>3, <2>4
<1> HIDE DEF i, B, effects, head, precs
<1>9. head.name \notin Compound =>
        /\ effects \in SUBSET Over(DOMAIN i.sub)
        /\ \A g \in GroundGoals(part) :
             True(g, StateAt(part.current)) /\ g \notin FormulaAfter(Adds(effects), i.sub) => True(g, StateAt(i.before))
  BY <1>5
<1>10. pc \in {"regress", "check"} /\ part.current > init /\ init <= i.before
  BY <1>1, <1>3
<1> DEFINE real == i.sub
           before == i.before
           cost == i.cost
<1> HIDE DEF real, before, cost
<1>11. /\ CallOK(head, precs, effects, real) /\ before \in Nat /\ init <= before /\ before < part.current
       /\ cost \in Nat /\ AddPiece(head, precs, effects, real, before, cost)
       /\ \E j \in 1..Len(insts) :
            /\ insts[j].before = before /\ insts[j].after = part.current
            /\ TaskAfter(HeadOf(insts[j].method), insts[j].sub) = TaskAfter(head, real)
  BY <1>1, <1>3, <1>5, <1>6, <1>7 DEF real, before, cost
<1>12. AllDistinct => \A g \in FormulaAfter(precs, real) :
         True(g, StateAt(before)) \/ (head.name \in Compound /\ AddsWithin(before, part.current, g))
  BY <1>8 DEF real, before
<1>13. head.name \notin Compound =>
         /\ effects \in SUBSET Over(DOMAIN real)
         /\ \A g \in GroundGoals(part) :
              True(g, StateAt(part.current)) /\ g \notin FormulaAfter(Adds(effects), real) => True(g, StateAt(before))
  BY <1>9 DEF real, before
<1>14. head.name \in Compound /\ pc = "regress"
  BY <1>1, <1>5
<1> QED  BY <1>1, <1>10, <1>11, <1>12, <1>13, <1>14, CallStep

LEMMA AddOperatorStep ==
  ASSUME FreshNames, IInv, AddOperator
  PROVE  IInv'
<1> DEFINE x == part.current
           o == OperatorAt(x)
           head == [name |-> o.name, args |-> o.params]
<1>1. /\ pc \in {"regress", "check"} /\ part.current > init
      /\ AddPiece(head, o.precs, o.effects, SubAt(x), x - 1, o.cost)
      /\ UNCHANGED <<flags, libVars, trace, insts, final, todo, init, k>>
  BY DEF AddOperator, At
<1>2. /\ PartOK(part, made) /\ part.final <= Len(trace.steps) /\ trace \in Traces
      /\ init \in Nat /\ x \in Nat /\ part.final \in Nat /\ x <= part.final
  <2>1. LoopsOK /\ PartOK(part, made) /\ part.init = init /\ part.final <= Len(trace.steps)
    BY <1>1 DEF IInv, TypeInv, PartialOK
  <2>2. trace \in Traces
    BY <2>1 DEF LoopsOK
  <2> QED  BY <2>1, <2>2 DEF PartOK, PartType
<1>3. x \in 1..Len(trace.steps)
  BY <1>1, <1>2, TraceType
<1>4. /\ o \in OperatorType /\ \A e \in o.effects : e \in Literal /\ e.pred # "="
      /\ CallOK(head, o.precs, o.effects, SubAt(x)) /\ o.effects \in SUBSET Over(DOMAIN SubAt(x))
      /\ IsConsistent(o.precs, SubAt(x), StateAt(x - 1)) /\ StateAt(x) = NextState(o, SubAt(x), StateAt(x - 1))
  BY <1>2, <1>3, TraceFacts
<1>5. head.name \notin Compound /\ o.cost \in Nat
  BY <1>4, DomainAssumption DEF OperatorType
<1>6. \A g \in FormulaAfter(o.precs, SubAt(x)) : True(g, StateAt(x - 1))
  <2> DEFINE S == DOMAIN SubAt(x)
  <2>1. o.precs \in SUBSET Over(S)
    BY <1>4 DEF CallOK
  <2> HIDE DEF S, o
  <2> QED  BY <1>4, <2>1, ConsistentAfter
<1>7. ASSUME NEW g \in GroundGoals(part), True(g, StateAt(x)), g \notin FormulaAfter(Adds(o.effects), SubAt(x))
      PROVE  True(g, StateAt(x - 1))
  <2>1. g \in Over(Object) /\ (g.pos \/ g.pred = "=")
    BY <1>2, GoalsType DEF PartOK, GoalsOK, Positive, GroundGoals
  <2> DEFINE before == StateAt(x - 1)
             sub == SubAt(x)
  <2> HIDE DEF o, before, sub
  <2>2. True(g, NextState(o, sub, before)) /\ g \notin FormulaAfter(Adds(o.effects), sub)
    BY <1>4, <1>7 DEF before, sub
  <2>3. True(g, before)
    BY <1>4, <2>1, <2>2, StepBack
  <2> QED  BY <2>3 DEF before
<1> DEFINE before == x - 1
           real == SubAt(x)
           precs == o.precs
           effects == o.effects
           cost == o.cost
<1>8. before \in Nat /\ init <= before /\ before < part.current
  BY <1>1, <1>2
<1>9. /\ CallOK(head, precs, effects, real) /\ AddPiece(head, precs, effects, real, before, cost)
      /\ cost \in Nat /\ head.name \notin Compound
  BY <1>1, <1>4, <1>5
<1>10. /\ AllDistinct => \A g \in FormulaAfter(precs, real) :
            True(g, StateAt(before)) \/ (head.name \in Compound /\ AddsWithin(before, part.current, g))
       /\ head.name \notin Compound =>
            /\ effects \in SUBSET Over(DOMAIN real)
            /\ \A g \in GroundGoals(part) :
                 True(g, StateAt(part.current)) /\ g \notin FormulaAfter(Adds(effects), real) => True(g, StateAt(before))
  BY <1>4, <1>6, <1>7
<1> HIDE DEF before, real, precs, effects, cost, head, o, x
<1> QED  BY <1>1, <1>8, <1>9, <1>10, CallStep

\* A step is left out, or all are.
LEMMA AdvanceStep ==
  ASSUME IInv, Advance
  PROVE  IInv'
<1> DEFINE x == part.current
           before == IF x = part.final THEN init ELSE x - 1
<1>1. /\ pc \in {"regress", "check"} /\ part.current > init /\ ~OperatorUseful
      /\ part' = [part EXCEPT !.current = before] /\ helped' = FALSE
      /\ UNCHANGED <<flags, libVars, trace, insts, final, todo, init, k, made, pc>>
  BY DEF Advance, At
<1>2. /\ PartOK(part, made) /\ part.final <= Len(trace.steps) /\ trace \in Traces /\ part.init = init
      /\ init \in Nat /\ x \in Nat /\ part.final \in Nat /\ x <= part.final /\ part \in PartType
  <2>1. LoopsOK /\ PartOK(part, made) /\ part.init = init /\ part.final <= Len(trace.steps)
    BY <1>1 DEF IInv, TypeInv, PartialOK
  <2>2. trace \in Traces
    BY <2>1 DEF LoopsOK
  <2> QED  BY <2>1, <2>2 DEF PartOK, PartType
<1>3. before \in Nat /\ init <= before /\ before <= part.final
  BY <1>1, <1>2
<1>4. /\ part' \in PartType /\ part'.current = before
      /\ part'.task = part.task /\ part'.taskSub = part.taskSub /\ part'.master = part.master
      /\ part'.adds = part.adds /\ part'.precs = part.precs /\ part'.pieces = part.pieces
      /\ part'.init = part.init /\ part'.final = part.final
  <2> HIDE DEF before
  <2> QED  BY <1>1, <1>2, <1>3 DEF PartType
<1>5. PartOK(part', made)
  <2> DEFINE q == part'
  <2> HIDE DEF q, before
  <2>1. /\ q \in PartType /\ q.current = before
        /\ q.task = part.task /\ q.taskSub = part.taskSub /\ q.master = part.master
        /\ q.adds = part.adds /\ q.precs = part.precs /\ q.pieces = part.pieces
        /\ q.init = part.init /\ q.final = part.final
    BY <1>4 DEF q
  <2>2. Keeps(q, q) /\ TaskOK(q)
    BY <1>2, <2>1 DEF PartOK, Keeps, TaskOK
  <2>3. GoalsOK(q)
    BY <1>2, <2>1 DEF PartOK, GoalsOK, Goals, GroundGoals
  <2>4. \A i \in 1..Len(q.pieces) : PieceOK(q.pieces[i], q)
    BY <1>2, <2>1 DEF PartOK, PieceOK
  <2>5. PartOK(q, made)
    BY <1>2, <1>3, <2>1, <2>2, <2>3, <2>4 DEF PartOK
  <2> QED  BY <2>5 DEF q
<1>6. LibOK' /\ LoopsOK' /\ InstsOK' /\ AnnotationsHold'
  <2>1. LibOK' /\ AnnotationsHold'
    BY <1>1, LibKept, AnnotationsKept DEF IInv, TypeInv
  <2>2. LoopsOK /\ InstsOK /\ init' = init /\ k' = k /\ pc' = pc /\ helped' \in BOOLEAN
    BY <1>1 DEF IInv, TypeInv
  <2>3. LoopsOK'
    BY <1>1, <2>2, LoopsKept DEF LoopsOK
  <2>4. InstsOK'
    BY <1>1, <2>2 DEF InstsOK
  <2> QED  BY <2>1, <2>3, <2>4
<1>7. PartialOK'
  BY <1>1, <1>4, <1>5 DEF IInv, TypeInv, PartialOK
<1>8. GoalsHold'
  <2>1. \A i : StateAt(i)' = StateAt(i)
    BY <1>1 DEF StateAt
  <2>2. \A s : Distinct(s)' = Distinct(s)
    BY <1>1 DEF Distinct
  <2>3. AllDistinct' <=> AllDistinct
    BY <1>1, <2>2 DEF AllDistinct
  <2>4. \A g : Supplied(part, g)' <=> Supplied(part, g)
    <3>1. ASSUME NEW a, NEW b, NEW g
          PROVE  AddsWithin(a, b, g)' = AddsWithin(a, b, g)
      BY <1>1 DEF AddsWithin, OperatorAt, SubAt
    <3> QED  BY <1>4, <3>1 DEF Supplied
  <2>5. GroundGoals(part)' = GroundGoals(part)
    BY <1>4 DEF GroundGoals, Goals
  <2>6. SUFFICES ASSUME part'.current > init, Distinct(part.master), AllDistinct, NEW g \in GroundGoals(part)
                 PROVE  True(g, StateAt(part'.current)) \/ Supplied(part, g)
    <3>1. Distinct(part.master)' <=> Distinct(part.master)
      BY <1>4, <2>2 DEF Distinct
    <3>2. StateAt(part.current)' = StateAt(part'.current)
      BY <2>1 DEF StateAt
    <3>3. helped' = FALSE /\ init' = init
      BY <1>1
    <3> QED  BY <2>3, <2>4, <2>5, <2>6, <3>1, <3>2, <3>3 DEF GoalsHold
  <2>7. part'.current = x - 1 /\ x \in 1..Len(trace.steps)
    BY <1>1, <1>2, <1>3, <1>4, <2>6, TraceType
  <2>8. True(g, StateAt(x)) \/ Supplied(part, g)
    BY <1>1, <2>6 DEF IInv, GoalsHold
  <2>9. CASE True(g, StateAt(x))
    <3> DEFINE o == OperatorAt(x)
               sub == SubAt(x)
               early == StateAt(x - 1)
    <3>1. (\A e \in o.effects : e \in Literal /\ e.pred # "=") /\ StateAt(x) = NextState(o, sub, early)
      BY <1>2, <2>7, TraceFacts
    <3>2. g \notin FormulaAfter(Adds(o.effects), sub)
      <4>1. ~ImpliesLiteral(FormulaAfter(o.effects, sub), g)
        BY <1>1, <2>6 DEF OperatorUseful, Supplies, GroundAfter, GroundGoals, Goals
      <4>2. g \notin FormulaAfter(o.effects, sub)
        BY <4>1 DEF ImpliesLiteral, SameLiteral
      <4> QED  BY <4>2 DEF FormulaAfter, Adds
    <3>3. g \in Over(Object) /\ (g.pos \/ g.pred = "=")
      BY <1>2, <2>6, GoalsType DEF PartOK, GoalsOK, Positive, GroundGoals
    <3> HIDE DEF o, sub, early
    <3>4. True(g, NextState(o, sub, early))
      BY <2>9, <3>1
    <3>5. True(g, early)
      BY <3>1, <3>2, <3>3, <3>4, StepBack
    <3> QED  BY <2>7, <3>5 DEF early
  <2> QED  BY <2>8, <2>9
<1>9. PiecesAnnotated'
  <2>1. \A i : CallOf(part, i)' = CallOf(part, i)
    BY <1>4 DEF CallOf
  <2> QED  BY <1>1, <1>4, <2>1 DEF IInv, PiecesAnnotated
<1> QED  BY <1>6, <1>7, <1>8, <1>9 DEF IInv, TypeInv

----------------------------------------------------------------------------
(* The theorems                                                            *)

LEMMA StartFacts ==
  ASSUME Init
  PROVE  IInv
<1>1. /\ flags \in FlagChoices /\ trace \in Traces /\ lib \in Libraries /\ maxId \in Lib!IdsIn(lib)
      /\ libPc = "idle" /\ cand = NoEntry /\ m = 1 /\ inserted = FALSE /\ offered = 0
      /\ insts = <<>> /\ final = 0 /\ init = 0 /\ k = 1 /\ helped = FALSE /\ made = 0 /\ pc = "verifiers"
  BY DEF Init
<1> DEFINE E == [body : AnyBody, id : Nat, count : Nat, total : Nat, learned : {FALSE}]
<1>2. /\ lib \in Seq(E) /\ \A i \in 1..Len(lib) : Usable(lib[i].body)
  BY <1>1, MakerAssumption
<1>3. E \subseteq Lib!Entry
  BY DEF Lib!Entry
<1>4. lib \in Seq(Lib!Entry)
  <2> HIDE DEF E, Lib!Entry
  <2> QED  BY <1>2, <1>3
<1>5. maxId \in Nat
  <2>1. ASSUME NEW i \in 1..Len(lib) PROVE lib[i].id \in Nat
    <3> DEFINE e == lib[i]
    <3>1. e \in E
      <4> HIDE DEF E
      <4> QED  BY <1>2
    <3> HIDE DEF e
    <3>2. e.id \in Nat
      BY <3>1
    <3> QED  BY <3>2 DEF e
  <2>2. Lib!IdsIn(lib) = {0} \cup IF DeclaresIds THEN {lib[i].id : i \in 1..Len(lib)} ELSE {}
    BY DEF Lib!IdsIn
  <2> QED  BY <1>1, <2>1, <2>2
<1>6. cand \in Lib!Entry
  <2>1. NoEntry.body \in AnyBody
    BY DEF NoEntry, AnyBody
  <2> QED  BY <1>1, <2>1 DEF NoEntry, Lib!Entry
<1>7. LibOK
  <2>1. MaxMethods \in Nat /\ m = 1 /\ offered = 0
    BY <1>1, MakerAssumption
  <2>2. m \in Nat \ {0} /\ offered \in 0..MaxMethods
    BY <2>1
  <2>3. inserted = FALSE
    BY <1>1
  <2>4. inserted \in BOOLEAN
    BY <2>3, Zenon
  <2> QED  BY <1>1, <1>2, <1>4, <1>5, <1>6, <2>2, <2>4 DEF LibOK
<1>8. InstsOK /\ AnnotationsHold /\ Len(insts) = 0
  <2>1. insts \in Seq(InstType) /\ Len(insts) = 0
    BY <1>1
  <2> QED  BY <1>1, <2>1 DEF InstsOK, AnnotationsHold
<1>9. LoopsOK
  <2>1. Len(trace.steps) \in Nat
    BY <1>1, TraceType
  <2>2. final = 0 /\ init = 0 /\ k = 1
    BY <1>1
  <2>3. helped = FALSE
    BY <1>1
  <2>4. helped \in BOOLEAN
    BY <2>3, Zenon
  <2>5. final \in 0..Len(trace.steps) /\ init \in 0..final /\ k \in Nat \ {0}
    BY <2>1, <2>2
  <2> QED  BY <1>1, <2>4, <2>5 DEF LoopsOK
<1>10. PartialOK /\ GoalsHold /\ PiecesAnnotated
  BY <1>1 DEF PartialOK, GoalsHold, PiecesAnnotated
<1> QED  BY <1>7, <1>8, <1>9, <1>10 DEF IInv, TypeInv

LEMMA StutterStep ==
  ASSUME IInv, UNCHANGED vars
  PROVE  IInv'
<1>1. LibOK' /\ UNCHANGED <<flags, makerVars>>
  BY LibKept DEF IInv, TypeInv, vars
<1> QED  BY <1>1, LibraryKeeps

\* The invariant is inductive.
LEMMA NextKeepsInvariant ==
  ASSUME FreshNames, IInv, [Next]_vars
  PROVE  IInv'
<1>1. CASE MakeVerifier
  BY <1>1, MakeVerifierStep
<1>2. CASE MakeTrivialChecker
  BY <1>2, MakeTrivialCheckerStep
<1>3. CASE NextFinalState
  BY <1>3, NextFinalStateStep
<1>4. CASE End
  BY <1>4, EndStep
<1>5. CASE NextInitialState
  BY <1>5, NextInitialStateStep
<1>6. CASE Squelch
  BY <1>6, SquelchStep
<1>7. CASE Drop
  BY <1>7, DropStep
<1>8. CASE Begin
  BY <1>8, BeginStep
<1>9. CASE AddMethod
  BY <1>9, AddMethodStep
<1>10. CASE AddOperator
  BY <1>10, AddOperatorStep
<1>11. CASE Advance
  BY <1>11, AdvanceStep
<1>12. CASE GiveUp
  BY <1>12, GiveUpStep
<1>13. CASE Discard
  BY <1>13, DiscardStep
<1>14. CASE Create
  BY <1>14, CreateStep
<1>15. CASE NoChecker
  BY <1>15, NoCheckerStep
<1>16. CASE BeginChecker
  BY <1>16, BeginCheckerStep
<1>17. CASE EndChecker
  BY <1>17, EndCheckerStep
<1>18. CASE LibraryStep
  BY <1>18, LibraryStepStep
<1>19. CASE Stop \/ UNCHANGED vars
  BY <1>19, StutterStep DEF Stop
<1> QED
  BY <1>1, <1>2, <1>3, <1>4, <1>5, <1>6, <1>7, <1>8, <1>9, <1>10, <1>11, <1>12, <1>13, <1>14, <1>15,
     <1>16, <1>17, <1>18, <1>19 DEF Next

\* What the invariant says of types.
LEMMA InvariantTyped ==
  ASSUME IInv
  PROVE  TypeOK
<1>1. LibOK /\ InstsOK /\ LoopsOK /\ PartialOK
  BY DEF IInv, TypeInv
<1>2. /\ flags \in FlagChoices /\ trace \in Traces /\ lib \in Seq(Lib!Entry) /\ cand \in Lib!Entry
      /\ libPc \in {"idle", "find", "replace", "update"} /\ offered \in 0..MaxMethods
      /\ final \in 0..Len(trace.steps) /\ init \in 0..final /\ made \in Nat /\ helped \in BOOLEAN
  BY <1>1 DEF LibOK, LoopsOK, InstsOK
<1>3. pc \in Ends \cup {"verifiers", "trivial", "partials", "pick", "regress", "checkers", "check"}
  BY <1>1 DEF LoopsOK
<1>4. ASSUME pc \in {"regress", "check"}
      PROVE  /\ part.init = init /\ part.current \in init..part.final
             /\ \A l \in part.adds \cup part.precs : Elems(l.args) \subseteq DOMAIN part.master
  <2>1. PartOK(part, made) /\ part.init = init
    BY <1>1, <1>4 DEF PartialOK
  <2>2. part.current \in init..part.final
    BY <2>1 DEF PartOK, PartType
  <2>3. part.adds \cup part.precs \in SUBSET Over(DOMAIN part.master)
    BY <2>1 DEF PartOK, GoalsOK, Goals
  <2>4. ASSUME NEW l \in part.adds \cup part.precs PROVE Elems(l.args) \subseteq DOMAIN part.master
    <3>1. l.args \in Seq(DOMAIN part.master)
      BY <2>3 DEF Over
    <3> QED  BY <3>1 DEF Elems
  <2> QED  BY <2>1, <2>2, <2>4
<1>5. ASSUME NEW i \in 1..Len(insts)
      PROVE  insts[i].before \in 0..(insts[i].after - 1) /\ insts[i].after <= final
  <2>1. InstOK(insts[i]) /\ insts[i].after <= final
    BY <1>1 DEF InstsOK
  <2> QED  BY <2>1 DEF InstOK, InstType
<1> QED  BY <1>2, <1>3, <1>4, <1>5 DEF TypeOK

\* What the invariant says of the regression.
LEMMA InvariantOutstanding ==
  ASSUME IInv
  PROVE  OutstandingHold
<1> SUFFICES ASSUME pc \in {"regress", "check"}, part.current > part.init, Distinct(part.master), AllDistinct,
                    NEW g \in GroundAfter(part.precs \cup part.adds, part)
             PROVE  \/ IsConsistent({g}, <<>>, StateAt(part.current))
                    \/ \E i \in 1..Len(part.pieces) :
                         /\ part.pieces[i].head.name \in Compound
                         /\ AddsWithin(part.pieces[i].before, part.pieces[i].after, g)
  BY DEF OutstandingHold, AllDistinct
<1>1. g \in GroundGoals(part)
  BY DEF GroundAfter, GroundGoals, Goals
<1>2. part.current > init
  BY DEF IInv, TypeInv, PartialOK
<1>3. True(g, StateAt(part.current)) \/ Supplied(part, g)
  BY <1>1, <1>2 DEF IInv, GoalsHold
<1> QED  BY <1>3 DEF True, Supplied

THEOREM Invariance == ASSUME FreshNames PROVE Spec => []IInv
<1>1. Init => IInv
  BY StartFacts
<1>2. IInv /\ [Next]_vars => IInv'
  BY NextKeepsInvariant
<1> QED  BY <1>1, <1>2, PTL DEF Spec

\* A partial method lies within the plan and all its variables stand for
\* constants, in LearnFromExactSequence and in LearnOneNdChecker.
THEOREM Typing == ASSUME FreshNames PROVE Spec => []TypeOK
<1> QED  BY InvariantTyped, Invariance, PTL

\* The regression is right: what is outstanding is true in the state it has
\* come to, or a step supplies it that an added method stands for.
THEOREM OutstandingAreTrue == ASSUME FreshNames PROVE Spec => []OutstandingHold
<1> QED  BY InvariantOutstanding, Invariance, PTL

\* The preconditions of an annotation are true where it starts, or a step of
\* one of its subtasks supplies them.
THEOREM AnnotationsAreTrue == ASSUME FreshNames PROVE Spec => []AnnotationsHold
<1>1. IInv => AnnotationsHold
  BY DEF IInv
<1> QED  BY <1>1, Invariance, PTL

----------------------------------------------------------------------------
(* Subsumption                                                             *)

\* s turns one method into what another one is or asks for.
Turns(s, a, b) ==
  /\ SameShape(a, b) /\ AfterSubstitution(a.params, s) = b.params
  /\ \A i \in 1..Len(a.subtasks) : AfterSubstitution(a.subtasks[i].args, s) = b.subtasks[i].args
  /\ \A l \in a.precs : ImpliesLiteral(b.precs, LiteralAfter(l, s))

LEMMA WithinElems ==
  ASSUME NEW T, NEW args \in Seq(T), NEW S, Elems(args) \subseteq S
  PROVE  args \in Seq(S)
<1>1. Len(args) \in Nat /\ args = [i \in 1..Len(args) |-> args[i]] /\ \A i \in 1..Len(args) : args[i] \in S
  BY DEF Elems
<1> QED  BY <1>1, SequenceFrom

LEMMA VariablesFacts ==
  ASSUME NEW b, Usable(b)
  PROVE  /\ b \in AnyBody /\ MethodVariables(b) \subseteq Variable
         /\ b.params \in Seq(MethodVariables(b)) /\ b.subtasks \in Seq(LiftedHead)
         /\ \A i \in 1..Len(b.subtasks) : b.subtasks[i].args \in Seq(MethodVariables(b))
         /\ b.precs \in SUBSET Over(MethodVariables(b))
<1> DEFINE V == MethodVariables(b)
<1>1. /\ b \in AnyBody /\ b.params \in Seq(Variable) /\ b.subtasks \in Seq(LiftedHead)
      /\ b.precs \in SUBSET Literal /\ \A l \in b.precs : l.args \in Seq(Variable)
  BY DEF Usable, AnyBody, Lifted
<1>2. \A i \in 1..Len(b.subtasks) : b.subtasks[i].args \in Seq(Variable)
  BY <1>1 DEF LiftedHead
<1>3. Elems(b.params) \subseteq Variable
  BY <1>1 DEF Elems
<1>4. \A i \in 1..Len(b.subtasks) : Elems(b.subtasks[i].args) \subseteq Variable
  BY <1>2 DEF Elems
<1>5. \A l \in b.precs : Elems(l.args) \subseteq Variable
  BY <1>1 DEF Elems
<1>6. V \subseteq Variable /\ Elems(b.params) \subseteq V
  BY <1>3 DEF MethodVariables, RelevantVariables, VariablesOf
<1>7. \A i \in 1..Len(b.subtasks) : Elems(b.subtasks[i].args) \subseteq V
  BY <1>4 DEF MethodVariables, RelevantVariables
<1>8. \A l \in b.precs : Elems(l.args) \subseteq V
  BY <1>5 DEF MethodVariables, VariablesOf
<1> HIDE DEF V
<1>9. b.params \in Seq(V)
  BY <1>1, <1>6, WithinElems
<1>10. \A i \in 1..Len(b.subtasks) : b.subtasks[i].args \in Seq(V)
  BY <1>2, <1>7, WithinElems
<1>11. ASSUME NEW l \in b.precs
       PROVE  l \in Over(V)
  <2>1. l.args \in Seq(V)
    BY <1>1, <1>8, WithinElems
  <2>2. l \in Literal
    BY <1>1
  <2> QED  BY <2>1, <2>2 DEF Literal, Over
<1> QED  BY <1>1, <1>6, <1>9, <1>10, <1>11 DEF V

LEMMA SameShapeArgs ==
  ASSUME NEW a, Usable(a), NEW b, Usable(b), SameShape(a, b)
  PROVE  \A i \in 1..Len(a.subtasks) : Len(a.subtasks[i].args) = Len(b.subtasks[i].args) /\ i \in 1..Len(b.subtasks)
<1>1. a.subtasks \in Seq(LiftedHead) /\ b.subtasks \in Seq(LiftedHead)
  BY DEF Usable
<1>2. \A h \in LiftedHead : Len(h.args) = Arity[h.name]
  BY DEF LiftedHead, TaskHead, WithArity
<1>3. \A i \in 1..Len(a.subtasks) : a.subtasks[i] \in LiftedHead /\ b.subtasks[i] \in LiftedHead
  <2> HIDE DEF LiftedHead
  <2> QED  BY <1>1 DEF SameShape
<1> QED  BY <1>2, <1>3 DEF SameShape

\* The pairs that must match are those of one substitution.
LEMMA MustMatchFacts ==
  ASSUME NEW a, Usable(a), NEW b, Usable(b), SameShape(a, b),
         NEW s, MethodVariables(a) \subseteq DOMAIN s
  PROVE  (\A q \in MustMatch(a, b) : q[1] \in MethodVariables(a) /\ q[2] \in MethodVariables(b))
         /\ ((\A q \in MustMatch(a, b) : s[q[1]] = q[2])
             <=> /\ AfterSubstitution(a.params, s) = b.params
                 /\ \A i \in 1..Len(a.subtasks) : AfterSubstitution(a.subtasks[i].args, s) = b.subtasks[i].args)
<1> DEFINE A == MethodVariables(a)
           B == MethodVariables(b)
<1>1. /\ a.params \in Seq(A) /\ b.params \in Seq(B) /\ Len(a.params) = Len(b.params)
      /\ \A i \in 1..Len(a.subtasks) : /\ a.subtasks[i].args \in Seq(A) /\ b.subtasks[i].args \in Seq(B)
                                       /\ Len(a.subtasks[i].args) = Len(b.subtasks[i].args)
  <2>1. /\ a.params \in Seq(A) /\ b.params \in Seq(B) /\ \A i \in 1..Len(a.subtasks) : a.subtasks[i].args \in Seq(A)
        /\ \A i \in 1..Len(b.subtasks) : b.subtasks[i].args \in Seq(B)
    BY VariablesFacts
  <2>2. \A i \in 1..Len(a.subtasks) : Len(a.subtasks[i].args) = Len(b.subtasks[i].args) /\ i \in 1..Len(b.subtasks)
    BY SameShapeArgs
  <2>3. Len(a.params) = Len(b.params)
    BY DEF SameShape
  <2> HIDE DEF A, B
  <2> QED  BY <2>1, <2>2, <2>3
<1>2. A \subseteq DOMAIN s
  OBVIOUS
<1> HIDE DEF A, B
<1>3. ASSUME NEW x \in Seq(A), NEW y \in Seq(B), Len(x) = Len(y)
      PROVE  (AfterSubstitution(x, s) = y <=> \A j \in 1..Len(x) : s[x[j]] = y[j])
             /\ \A j \in 1..Len(x) : x[j] \in A /\ y[j] \in B
  <2>1. x \in Seq(DOMAIN s)
    BY <1>2
  <2>2. AfterSubstitution(x, s) = [j \in 1..Len(x) |-> Substituted(x[j], s)]
    BY DEF AfterSubstitution
  <2>3. \A j \in 1..Len(x) : Substituted(x[j], s) = s[x[j]]
    BY <2>1 DEF Substituted
  <2>4. y = [j \in 1..Len(x) |-> y[j]]
    BY <1>3
  <2>5. \A j \in 1..Len(x) : x[j] \in A /\ y[j] \in B
    BY <1>3
  <2>6. ASSUME \A j \in 1..Len(x) : s[x[j]] = y[j]
        PROVE  AfterSubstitution(x, s) = y
    BY <2>2, <2>3, <2>4, <2>6
  <2>7. ASSUME AfterSubstitution(x, s) = y, NEW j \in 1..Len(x)
        PROVE  s[x[j]] = y[j]
    BY <2>2, <2>3, <2>7
  <2> QED  BY <2>5, <2>6, <2>7
<1>4. \A q \in MustMatch(a, b) :
        \/ \E i \in 1..Len(a.params) : q = <<a.params[i], b.params[i]>>
        \/ \E i \in 1..Len(a.subtasks) : \E j \in 1..Len(a.subtasks[i].args) :
             q = <<a.subtasks[i].args[j], b.subtasks[i].args[j]>>
  BY DEF MustMatch
<1>5. /\ \A i \in 1..Len(a.params) : <<a.params[i], b.params[i]>> \in MustMatch(a, b)
      /\ \A i \in 1..Len(a.subtasks) : \A j \in 1..Len(a.subtasks[i].args) :
           <<a.subtasks[i].args[j], b.subtasks[i].args[j]>> \in MustMatch(a, b)
  BY DEF MustMatch
<1>6. ASSUME NEW q \in MustMatch(a, b)
      PROVE  q[1] \in A /\ q[2] \in B
  <2>1. CASE \E i \in 1..Len(a.params) : q = <<a.params[i], b.params[i]>>
    BY <1>1, <1>3, <2>1
  <2>2. CASE \E i \in 1..Len(a.subtasks) : \E j \in 1..Len(a.subtasks[i].args) :
               q = <<a.subtasks[i].args[j], b.subtasks[i].args[j]>>
    <3> PICK i \in 1..Len(a.subtasks) : \E j \in 1..Len(a.subtasks[i].args) :
               q = <<a.subtasks[i].args[j], b.subtasks[i].args[j]>>
      BY <2>2
    <3> PICK j \in 1..Len(a.subtasks[i].args) : q = <<a.subtasks[i].args[j], b.subtasks[i].args[j]>>
      OBVIOUS
    <3> QED  BY <1>1, <1>3
  <2> QED  BY <1>4, <2>1, <2>2
<1>7. ASSUME \A q \in MustMatch(a, b) : s[q[1]] = q[2]
      PROVE  /\ AfterSubstitution(a.params, s) = b.params
             /\ \A i \in 1..Len(a.subtasks) : AfterSubstitution(a.subtasks[i].args, s) = b.subtasks[i].args
  <2>1. \A i \in 1..Len(a.params) : s[a.params[i]] = b.params[i]
    BY <1>5, <1>7
  <2>2. \A i \in 1..Len(a.subtasks) : \A j \in 1..Len(a.subtasks[i].args) :
          s[a.subtasks[i].args[j]] = b.subtasks[i].args[j]
    BY <1>5, <1>7
  <2>3. AfterSubstitution(a.params, s) = b.params
    BY <1>1, <1>3, <2>1
  <2>4. \A i \in 1..Len(a.subtasks) : AfterSubstitution(a.subtasks[i].args, s) = b.subtasks[i].args
    BY <1>1, <1>3, <2>2
  <2> QED  BY <2>3, <2>4
<1>8. ASSUME AfterSubstitution(a.params, s) = b.params,
             \A i \in 1..Len(a.subtasks) : AfterSubstitution(a.subtasks[i].args, s) = b.subtasks[i].args,
             NEW q \in MustMatch(a, b)
      PROVE  s[q[1]] = q[2]
  <2>1. CASE \E i \in 1..Len(a.params) : q = <<a.params[i], b.params[i]>>
    BY <1>1, <1>3, <1>8, <2>1
  <2>2. CASE \E i \in 1..Len(a.subtasks) : \E j \in 1..Len(a.subtasks[i].args) :
               q = <<a.subtasks[i].args[j], b.subtasks[i].args[j]>>
    <3> PICK i \in 1..Len(a.subtasks) : \E j \in 1..Len(a.subtasks[i].args) :
               q = <<a.subtasks[i].args[j], b.subtasks[i].args[j]>>
      BY <2>2
    <3> PICK j \in 1..Len(a.subtasks[i].args) : q = <<a.subtasks[i].args[j], b.subtasks[i].args[j]>>
      OBVIOUS
    <3> QED  BY <1>1, <1>3, <1>8
  <2> QED  BY <1>4, <2>1, <2>2
<1> QED  BY <1>6, <1>7, <1>8 DEF A, B

LEMMA SubsumptionMeans ==
  ASSUME NEW a, Usable(a), NEW b, Usable(b)
  PROVE  SubsumesByDefinition(a, b) <=> \E s \in [MethodVariables(a) -> MethodVariables(b)] : Turns(s, a, b)
<1> DEFINE A == MethodVariables(a)
           B == MethodVariables(b)
           P == MustMatch(a, b)
           fixed == MatchOf(P)
           free  == A \ DOMAIN fixed
<1>1. DOMAIN fixed = {q[1] : q \in P} /\ \A v \in DOMAIN fixed : fixed[v] = (CHOOSE q \in P : q[1] = v)[2]
  BY DEF MatchOf
<1>2. \A v \in DOMAIN fixed : \E q \in P : q[1] = v /\ fixed[v] = q[2]
  <2> TAKE v \in DOMAIN fixed
  <2>1. \E q \in P : q[1] = v
    BY <1>1
  <2> HIDE DEF P
  <2> QED  BY <1>1, <2>1, Zenon
<1>3. SubsumesByDefinition(a, b) <=>
        SameShape(a, b) /\ IsFunctional(P) /\ \E f \in [free -> B] :
          \A l \in a.precs : ImpliesLiteral(b.precs, LiteralAfter(l, Joint(f, fixed)))
  BY DEF SubsumesByDefinition
<1> HIDE DEF fixed, free, P
<1>4. ASSUME SubsumesByDefinition(a, b)
      PROVE  \E s \in [A -> B] : Turns(s, a, b)
  <2>1. SameShape(a, b) /\ IsFunctional(P)
    BY <1>3, <1>4
  <2>2. PICK f \in [free -> B] : \A l \in a.precs : ImpliesLiteral(b.precs, LiteralAfter(l, Joint(f, fixed)))
    BY <1>3, <1>4
  <2> DEFINE s == Joint(f, fixed)
  <2>3. \A q \in P : q[1] \in A /\ q[2] \in B
    <3>1. A \subseteq DOMAIN [v \in A |-> v]
      OBVIOUS
    <3> QED  BY <2>1, <3>1, MustMatchFacts DEF P
  <2>4. DOMAIN fixed \subseteq A /\ \A v \in DOMAIN fixed : fixed[v] \in B
    BY <1>1, <1>2, <2>3
  <2>5. /\ s = [v \in free \cup DOMAIN fixed |-> IF v \in free THEN f[v] ELSE fixed[v]]
        /\ free \cup DOMAIN fixed = A
    BY <2>4 DEF Joint, free
  <2>6. s \in [A -> B]
    BY <2>4, <2>5
  <2>7. \A q \in P : s[q[1]] = q[2]
    <3> TAKE q \in P
    <3>1. q[1] \in DOMAIN fixed /\ q[1] \in A
      BY <1>1, <2>3
    <3>2. PICK r \in P : r[1] = q[1] /\ fixed[q[1]] = r[2]
      BY <1>2, <3>1
    <3>3. r[2] = q[2]
      BY <2>1, <3>2 DEF IsFunctional
    <3>4. s[q[1]] = fixed[q[1]]
      BY <2>5, <3>1 DEF free
    <3> QED  BY <3>2, <3>3, <3>4
  <2> HIDE DEF s
  <2>8. /\ AfterSubstitution(a.params, s) = b.params
        /\ \A i \in 1..Len(a.subtasks) : AfterSubstitution(a.subtasks[i].args, s) = b.subtasks[i].args
    <3>1. MethodVariables(a) \subseteq DOMAIN s
      BY <2>6
    <3> QED  BY <2>1, <2>7, <3>1, MustMatchFacts DEF P
  <2>9. Turns(s, a, b)
    BY <2>1, <2>2, <2>8 DEF Turns, s
  <2> QED  BY <2>6, <2>9
<1>5. ASSUME NEW s \in [A -> B], Turns(s, a, b)
      PROVE  SubsumesByDefinition(a, b)
  <2>1. SameShape(a, b) /\ \A l \in a.precs : ImpliesLiteral(b.precs, LiteralAfter(l, s))
    BY <1>5 DEF Turns
  <2>2. (\A q \in P : q[1] \in A /\ q[2] \in B) /\ \A q \in P : s[q[1]] = q[2]
    <3>1. MethodVariables(a) \subseteq DOMAIN s
      OBVIOUS
    <3> QED  BY <1>5, <2>1, <3>1, MustMatchFacts DEF P, Turns
  <2>3. IsFunctional(P)
    BY <2>2 DEF IsFunctional
  <2> DEFINE f == [v \in free |-> s[v]]
  <2>4. free \subseteq A /\ f \in [free -> B]
    BY DEF free
  <2>5. DOMAIN fixed \subseteq A /\ \A v \in DOMAIN fixed : fixed[v] = s[v]
    BY <1>1, <1>2, <2>2
  <2>6. free \cup DOMAIN fixed = A
    BY <2>5 DEF free
  <2>7. Joint(f, fixed) = s
    <3>1. Joint(f, fixed) = [v \in A |-> IF v \in free THEN f[v] ELSE fixed[v]]
      BY <2>4, <2>6 DEF Joint
    <3>2. \A v \in A : (IF v \in free THEN f[v] ELSE fixed[v]) = s[v]
      BY <2>5 DEF free
    <3> QED  BY <3>1, <3>2
  <2> HIDE DEF f
  <2> QED  BY <1>3, <2>1, <2>3, <2>4, <2>7
<1> QED  BY <1>4, <1>5

\* Equal literals stay equal.
LEMMA SameLiteralAfter ==
  ASSUME NEW S, NEW l0 \in Over(S), NEW l \in Over(S), SameLiteral(l0, l), NEW sub
  PROVE  SameLiteral(LiteralAfter(l0, sub), LiteralAfter(l, sub))
<1>1. CASE l0 = l
  BY <1>1 DEF SameLiteral
<1>2. CASE l0.pred = "=" /\ l.pred = "=" /\ l0.pos = l.pos /\ l0.args = Reverse(l.args)
  <2>1. /\ Len(l.args) \in Nat /\ Len(Reverse(l.args)) = Len(l.args)
        /\ \A i \in 1..Len(l.args) : Reverse(l.args)[i] = l.args[Len(l.args) - i + 1] /\ Len(l.args) - i + 1 \in 1..Len(l.args)
    BY DEF Over, Reverse
  <2>2. AfterSubstitution(l0.args, sub) = [i \in 1..Len(l.args) |-> Substituted(l.args[Len(l.args) - i + 1], sub)]
    BY <1>2, <2>1 DEF AfterSubstitution
  <2>3. Len(AfterSubstitution(l.args, sub)) = Len(l.args)
        /\ \A i \in 1..Len(l.args) : AfterSubstitution(l.args, sub)[i] = Substituted(l.args[i], sub)
    BY <2>1 DEF AfterSubstitution
  <2>4. Reverse(AfterSubstitution(l.args, sub)) = [i \in 1..Len(l.args) |-> AfterSubstitution(l.args, sub)[Len(l.args) - i + 1]]
    BY <2>3 DEF Reverse
  <2>5. AfterSubstitution(l0.args, sub) = Reverse(AfterSubstitution(l.args, sub))
    BY <2>1, <2>2, <2>3, <2>4
  <2> QED  BY <1>2, <2>5, LiteralAfterRecord DEF SameLiteral
<1> QED  BY <1>1, <1>2 DEF SameLiteral

LEMMA SameLiteralTransitive ==
  ASSUME NEW S, NEW l0 \in Over(S), NEW l \in Over(S), NEW n \in Over(S), SameLiteral(l0, l), SameLiteral(l, n)
  PROVE  SameLiteral(l0, n)
<1>1. CASE l0 = l \/ l = n
  BY <1>1 DEF SameLiteral
<1>2. CASE l0 # l /\ l # n
  <2>1. /\ l0.pred = "=" /\ l.pred = "=" /\ n.pred = "=" /\ l0.pos = n.pos
        /\ l0.args = Reverse(l.args) /\ l.args = Reverse(n.args)
    BY <1>2 DEF SameLiteral
  <2>2. l0.args = n.args
    <3> DEFINE c == Len(n.args)
    <3>1. c \in Nat /\ n.args = [i \in 1..c |-> n.args[i]] /\ l0.args \in Seq(S)
      BY DEF Over
    <3>2. Reverse(n.args) = [i \in 1..c |-> n.args[c - i + 1]]
      BY DEF Reverse
    <3>3. Len(l.args) = c /\ \A i \in 1..c : l.args[i] = n.args[c - i + 1]
      BY <2>1, <3>1, <3>2
    <3>4. Reverse(l.args) = [i \in 1..c |-> l.args[c - i + 1]]
      BY <3>3 DEF Reverse
    <3>5. \A i \in 1..c : c - i + 1 \in 1..c /\ c - (c - i + 1) + 1 = i
      BY <3>1
    <3>6. \A i \in 1..c : l.args[c - i + 1] = n.args[i]
      BY <3>3, <3>5
    <3> HIDE DEF c
    <3> QED  BY <2>1, <3>1, <3>4, <3>6
  <2>3. l0 = [pos |-> l0.pos, pred |-> l0.pred, args |-> l0.args] /\ n = [pos |-> n.pos, pred |-> n.pred, args |-> n.args]
    BY DEF Over
  <2>4. l0 = n
    BY <2>1, <2>2, <2>3
  <2> QED  BY <2>4 DEF SameLiteral
<1> QED  BY <1>1, <1>2

LEMMA SubsumptionTransitive ==
  ASSUME NEW a, Usable(a), NEW b, Usable(b), NEW c, Usable(c), SubsumesByDefinition(a, b), SubsumesByDefinition(b, c)
  PROVE  SubsumesByDefinition(a, c)
<1> DEFINE A == MethodVariables(a)
           B == MethodVariables(b)
           C == MethodVariables(c)
<1>1. PICK s \in [A -> B] : Turns(s, a, b)
  BY SubsumptionMeans
<1>2. PICK s2 \in [B -> C] : Turns(s2, b, c)
  BY SubsumptionMeans
<1> DEFINE r == Composed(s, s2)
<1>3. Into(s, B) /\ DOMAIN s = A /\ Into(s2, C) /\ DOMAIN s2 = B
  BY DEF Into
<1>4. r \in [A -> C]
  BY <1>3 DEF Composed, Into
<1>5. /\ a.params \in Seq(A) /\ (\A i \in 1..Len(a.subtasks) : a.subtasks[i].args \in Seq(A))
      /\ a.precs \in SUBSET Over(A) /\ b.precs \in SUBSET Over(B) /\ c.precs \in SUBSET Over(C)
  BY VariablesFacts
<1> HIDE DEF A, B, C, r
<1>6. SameShape(a, b) /\ SameShape(b, c)
  BY <1>1, <1>2 DEF Turns
<1>7. SameShape(a, c)
  BY <1>6 DEF SameShape
<1>8. AfterSubstitution(a.params, r) = c.params
  <2>1. AfterSubstitution(AfterSubstitution(a.params, s), s2) = AfterSubstitution(a.params, r)
    BY <1>3, <1>5, ArgsComposed DEF r
  <2> QED  BY <1>1, <1>2, <2>1 DEF Turns
<1>9. ASSUME NEW i \in 1..Len(a.subtasks)
      PROVE  AfterSubstitution(a.subtasks[i].args, r) = c.subtasks[i].args
  <2>1. AfterSubstitution(AfterSubstitution(a.subtasks[i].args, s), s2) = AfterSubstitution(a.subtasks[i].args, r)
    BY <1>3, <1>5, ArgsComposed DEF r
  <2>2. AfterSubstitution(a.subtasks[i].args, s) = b.subtasks[i].args
    BY <1>1 DEF Turns
  <2>3. i \in 1..Len(b.subtasks)
    BY <1>6 DEF SameShape
  <2>4. AfterSubstitution(b.subtasks[i].args, s2) = c.subtasks[i].args
    BY <1>2, <2>3 DEF Turns
  <2> QED  BY <2>1, <2>2, <2>4
<1>10. ASSUME NEW l \in a.precs
       PROVE  ImpliesLiteral(c.precs, LiteralAfter(l, r))
  <2>1. PICK k1 \in b.precs : SameLiteral(k1, LiteralAfter(l, s))
    BY <1>1 DEF Turns, ImpliesLiteral
  <2>2. PICK k2 \in c.precs : SameLiteral(k2, LiteralAfter(k1, s2))
    BY <1>2 DEF Turns, ImpliesLiteral
  <2>3. LiteralAfter(l, s) \in Over(B) /\ k1 \in Over(B) /\ l \in Over(DOMAIN s)
    BY <1>3, <1>5, LiteralAfterType
  <2>4. LiteralAfter(k1, s2) \in Over(C) /\ LiteralAfter(LiteralAfter(l, s), s2) \in Over(C) /\ k2 \in Over(C)
    BY <1>3, <1>5, <2>3, LiteralAfterType
  <2>5. SameLiteral(LiteralAfter(k1, s2), LiteralAfter(LiteralAfter(l, s), s2))
    BY <2>1, <2>3, SameLiteralAfter
  <2>6. SameLiteral(k2, LiteralAfter(LiteralAfter(l, s), s2))
    BY <2>2, <2>4, <2>5, SameLiteralTransitive
  <2>7. LiteralAfter(LiteralAfter(l, s), s2) = LiteralAfter(l, r)
    BY <1>3, <2>3, LiteralComposed DEF r
  <2> QED  BY <2>6, <2>7 DEF ImpliesLiteral
<1>11. Turns(r, a, c)
  BY <1>7, <1>8, <1>9, <1>10 DEF Turns
<1> QED  BY <1>4, <1>11, SubsumptionMeans DEF A, C

\* A method subsumes what it becomes under a substitution.
LEMMA SubsumesRenamed ==
  ASSUME NEW b, Usable(b), NEW change, Into(change, Variable), NEW c, Usable(c), c = MethodAfter(b, change)
  PROVE  SubsumesByDefinition(b, c)
<1> DEFINE B == MethodVariables(b)
           C == MethodVariables(c)
           s == [v \in B |-> Substituted(v, change)]
<1>1. /\ b \in AnyBody /\ b.params \in Seq(B) /\ b.precs \in SUBSET Over(B)
      /\ \A i \in 1..Len(b.subtasks) : b.subtasks[i].args \in Seq(B)
  BY VariablesFacts
<1>2. /\ c.name = b.name /\ c.params = AfterSubstitution(b.params, change) /\ Len(c.params) = Len(b.params)
      /\ c.precs = FormulaAfter(b.precs, change) /\ Len(c.subtasks) = Len(b.subtasks)
      /\ \A i \in 1..Len(b.subtasks) : c.subtasks[i] = TaskAfter(b.subtasks[i], change)
  BY <1>1, MethodAfterFields
<1>3. DOMAIN s = B /\ \A v \in B : s[v] = Substituted(v, change)
  OBVIOUS
<1> HIDE DEF s
<1>4. ASSUME NEW args \in Seq(B)
      PROVE  AfterSubstitution(args, s) = AfterSubstitution(args, change)
  <2>1. \A i \in 1..Len(args) : Substituted(args[i], s) = Substituted(args[i], change)
    BY <1>3 DEF Substituted
  <2> QED  BY <2>1 DEF AfterSubstitution
<1> HIDE DEF B, C
<1>12. \A h : TaskAfter(h, change).name = h.name /\ TaskAfter(h, change).args = AfterSubstitution(h.args, change)
  BY DEF TaskAfter
<1>13. \A i \in 1..Len(b.subtasks) : /\ c.subtasks[i].name = b.subtasks[i].name
                                    /\ c.subtasks[i].args = AfterSubstitution(b.subtasks[i].args, change)
  BY <1>2, <1>12
<1>5. SameShape(b, c)
  BY <1>2, <1>13 DEF SameShape
<1>6. AfterSubstitution(b.params, s) = c.params
  BY <1>1, <1>2, <1>4
<1>7. ASSUME NEW i \in 1..Len(b.subtasks)
      PROVE  AfterSubstitution(b.subtasks[i].args, s) = c.subtasks[i].args
  BY <1>1, <1>4, <1>13
<1>8. ASSUME NEW l \in b.precs
      PROVE  LiteralAfter(l, s) \in c.precs
  <2>1. LiteralAfter(l, s) = LiteralAfter(l, change)
    <3>1. l \in Over(B) /\ l.args \in Seq(B)
      BY <1>1 DEF Over
    <3> QED  BY <1>4, <3>1, LiteralAfterRecord
  <2> QED  BY <1>2, <2>1 DEF FormulaAfter
<1>9. \A l \in b.precs : ImpliesLiteral(c.precs, LiteralAfter(l, s))
  BY <1>8 DEF ImpliesLiteral, SameLiteral
<1>10. Turns(s, b, c)
  BY <1>5, <1>6, <1>7, <1>9 DEF Turns
<1>11. s \in [B -> C]
  <2> USE DEF B, C
  <2>1. \A v \in B : s[v] \in C
    <3> TAKE v \in B
    <3>1. Elems(c.params) \subseteq C /\ (\A i \in 1..Len(c.subtasks) : Elems(c.subtasks[i].args) \subseteq C)
          /\ \A l \in c.precs : Elems(l.args) \subseteq C
      <4>1. /\ c.params \in Seq(C) /\ (\A i \in 1..Len(c.subtasks) : c.subtasks[i].args \in Seq(C))
            /\ c.precs \in SUBSET Over(C)
        BY VariablesFacts
      <4> HIDE DEF C
      <4>2. \A l \in c.precs : l.args \in Seq(C)
        BY <4>1 DEF Over
      <4> QED  BY <4>1, <4>2 DEF Elems
    <3>2. ASSUME NEW args \in Seq(B), v \in Elems(args), Elems(AfterSubstitution(args, s)) \subseteq C
          PROVE  s[v] \in C
      <4>1. PICK i \in 1..Len(args) : v = args[i]
        BY <3>2 DEF Elems
      <4>2. AfterSubstitution(args, s)[i] = s[v] /\ i \in 1..Len(AfterSubstitution(args, s))
        BY <1>3, <4>1, ArgsAfter
      <4> QED  BY <3>2, <4>2 DEF Elems
    <3>3. CASE v \in Elems(b.params)
      BY <1>1, <1>6, <3>1, <3>2, <3>3
    <3>4. CASE \E i \in 1..Len(b.subtasks) : v \in Elems(b.subtasks[i].args)
      BY <1>1, <1>2, <1>7, <3>1, <3>2, <3>4
    <3>5. CASE \E l \in b.precs : v \in Elems(l.args)
      <4>1. PICK l \in b.precs : v \in Elems(l.args)
        BY <3>5
      <4>2. l \in Over(B) /\ l.args \in Seq(B)
        BY <1>1 DEF Over
      <4>3. LiteralAfter(l, s).args = AfterSubstitution(l.args, s)
        BY <4>2, LiteralAfterRecord
      <4>4. Elems(AfterSubstitution(l.args, s)) \subseteq C
        BY <1>8, <3>1, <4>3
      <4> QED  BY <3>2, <4>1, <4>2, <4>4
    <3>6. v \in Elems(b.params) \/ (\E i \in 1..Len(b.subtasks) : v \in Elems(b.subtasks[i].args))
          \/ \E l \in b.precs : v \in Elems(l.args)
      BY DEF MethodVariables, RelevantVariables, VariablesOf
    <3> QED  BY <3>3, <3>4, <3>5, <3>6
  <2> QED  BY <1>3, <2>1 DEF s
<1> QED  BY <1>10, <1>11, SubsumptionMeans DEF B, C

LEMMA SubsumptionReflexive ==
  ASSUME NEW b, Usable(b)
  PROVE  SubsumesByDefinition(b, b)
<1> DEFINE B == MethodVariables(b)
           s == [v \in B |-> v]
<1>1. /\ b.params \in Seq(B) /\ b.precs \in SUBSET Over(B)
      /\ \A i \in 1..Len(b.subtasks) : b.subtasks[i].args \in Seq(B)
  BY VariablesFacts
<1>2. s \in [B -> B] /\ DOMAIN s = B /\ \A v \in B : s[v] = v
  OBVIOUS
<1> HIDE DEF B, s
<1>3. ASSUME NEW args \in Seq(B)
      PROVE  AfterSubstitution(args, s) = args
  <2>1. \A i \in 1..Len(args) : Substituted(args[i], s) = args[i]
    BY <1>2 DEF Substituted
  <2> QED  BY <2>1 DEF AfterSubstitution
<1>4. ASSUME NEW l \in b.precs
      PROVE  LiteralAfter(l, s) = l
  <2>1. l \in Over(B) /\ l.args \in Seq(B) /\ l = [pos |-> l.pos, pred |-> l.pred, args |-> l.args]
    BY <1>1 DEF Over
  <2> QED  BY <1>3, <2>1, LiteralAfterRecord
<1>5. Turns(s, b, b)
  BY <1>1, <1>3, <1>4 DEF Turns, SameShape, ImpliesLiteral, SameLiteral
<1> QED  BY <1>2, <1>5, SubsumptionMeans DEF B

----------------------------------------------------------------------------
(* What the library can do is kept                                         *)

Covered(l, b) == \E j \in 1..Len(l) : SubsumesByDefinition(l[j].body, b)

\* A method that subsumes b is in the library, or the one being put there does.
Kept(l, new, p, b) == Covered(l, b) \/ (p # "idle" /\ SubsumesByDefinition(new.body, b))

\* DoSubsumption has put the new method before the ones it still looks at.
InFront ==
  /\ libPc = "find" => ~inserted
  /\ libPc = "replace" /\ inserted => \E j \in 1..Len(lib) : j < m /\ lib[j].body = cand.body

LEMMA CoveredByMore ==
  ASSUME NEW l \in Seq(Lib!Entry), NEW e \in Lib!Entry, NEW b
  PROVE  /\ Covered(l, b) => Covered(Append(l, e), b)
         /\ SubsumesByDefinition(e.body, b) => Covered(Append(l, e), b)
<1> HIDE DEF Lib!Entry
<1>1. /\ Append(l, e) \in Seq(Lib!Entry) /\ Len(Append(l, e)) = Len(l) + 1 /\ Len(l) \in Nat
      /\ \A i \in 1..Len(l) : Append(l, e)[i] = l[i]
      /\ Append(l, e)[Len(l) + 1] = e
  OBVIOUS
<1>2. Len(l) + 1 \in 1..Len(Append(l, e)) /\ 1..Len(l) \subseteq 1..Len(Append(l, e))
  BY <1>1
<1> QED  BY <1>1, <1>2 DEF Covered

\* One step of the loops of DoSubsumption and DoQValueUpdate.
LEMMA LibraryKeepsMethods ==
  ASSUME LibOK, InFront, Lib!Step, NEW b, Usable(b), Kept(lib, cand, libPc, b)
  PROVE  Kept(lib', cand', libPc', b)
<1>1. /\ lib \in Seq(Lib!Entry) /\ Len(lib) \in Nat /\ (\A i \in 1..Len(lib) : Usable(lib[i].body)) /\ cand \in Lib!Entry
      /\ m \in Nat \ {0} /\ inserted \in BOOLEAN /\ libPc # "idle" /\ Usable(cand.body)
  BY LibSteps DEF LibOK
<1>2. \A i \in 1..Len(lib) : lib[i] \in Lib!Entry
  BY <1>1
<1>3. Covered(lib, b) \/ SubsumesByDefinition(cand.body, b)
  BY DEF Kept
<1> HIDE DEF Lib!Entry
<1>4. \A i \in 1..Len(lib) : Lib!Covers(cand, lib[i]) <=> SubsumesByDefinition(cand.body, lib[i].body)
  BY DEF Lib!Covers
<1>5. \A i \in 1..Len(lib) : Lib!Covers(lib[i], cand) <=> SubsumesByDefinition(lib[i].body, cand.body)
  BY DEF Lib!Covers
<1>6. ASSUME cand' = cand, libPc' # "idle", Covered(lib, b) => Covered(lib', b) \/ SubsumesByDefinition(cand.body, b)
      PROVE  Kept(lib', cand', libPc', b)
  BY <1>3, <1>6 DEF Kept
<1>7. CASE Lib!Find
  <2>1. cand' = cand /\ lib' = lib
    BY <1>7 DEF Lib!Find
  <2>2. CASE libPc' # "idle"
    BY <1>6, <2>1, <2>2
  <2>3. CASE libPc' = "idle"
    <3>1. m \in 1..Len(lib) /\ Lib!Covers(lib[m], cand)
      BY <1>1, <1>7, <2>3 DEF Lib!Find
    <3>2. SubsumesByDefinition(lib[m].body, cand.body)
      BY <1>5, <3>1
    <3>3. SubsumesByDefinition(cand.body, b) => SubsumesByDefinition(lib[m].body, b)
      BY <1>1, <3>1, <3>2, SubsumptionTransitive
    <3>4. Covered(lib, b)
      BY <1>3, <3>1, <3>3 DEF Covered
    <3> QED  BY <2>1, <3>4 DEF Kept
  <2> QED  BY <2>2, <2>3
<1>8. CASE Lib!Keep
  BY <1>1, <1>6, <1>8 DEF Lib!Keep
<1>9. CASE Lib!ReplaceMethod
  <2>1. m \in 1..Len(lib) /\ Lib!Covers(cand, lib[m]) /\ lib' = [lib EXCEPT ![m] = cand] /\ libPc' = libPc /\ cand' = cand
    BY <1>1, <1>9 DEF Lib!ReplaceMethod
  <2>2. Len(lib') = Len(lib) /\ \A i \in 1..Len(lib) : i # m => lib'[i] = lib[i]
    BY <1>1, <2>1
  <2>3. ASSUME Covered(lib, b)
        PROVE  Covered(lib', b) \/ SubsumesByDefinition(cand.body, b)
    <3>1. PICK j \in 1..Len(lib) : SubsumesByDefinition(lib[j].body, b)
      BY <2>3 DEF Covered
    <3>2. CASE j = m
      BY <1>1, <1>4, <2>1, <3>1, <3>2, SubsumptionTransitive
    <3>3. CASE j # m
      BY <2>2, <3>1, <3>3 DEF Covered
    <3> QED  BY <3>2, <3>3
  <2> QED  BY <1>1, <1>6, <2>1, <2>3
<1>10. CASE Lib!RemoveMethod
  <2>1. m \in 1..Len(lib) /\ Lib!Covers(cand, lib[m]) /\ lib' = RemoveAt(lib, m) /\ libPc' = libPc /\ cand' = cand
    BY <1>1, <1>10 DEF Lib!RemoveMethod, Lib!RemoveAt, RemoveAt
  <2>2. Len(lib') = Len(lib) - 1 /\ \A i \in 1..(Len(lib) - 1) : lib'[i] = IF i < m THEN lib[i] ELSE lib[i + 1]
    BY <1>1, <2>1, RemoveAtProperties
  <2>3. ASSUME Covered(lib, b)
        PROVE  Covered(lib', b) \/ SubsumesByDefinition(cand.body, b)
    <3>1. PICK j \in 1..Len(lib) : SubsumesByDefinition(lib[j].body, b)
      BY <2>3 DEF Covered
    <3>2. CASE j = m
      BY <1>1, <1>4, <2>1, <3>1, <3>2, SubsumptionTransitive
    <3>3. CASE j < m
      <4>1. j \in 1..Len(lib') /\ lib'[j] = lib[j]
        BY <1>1, <2>1, <2>2, <3>3
      <4> QED  BY <3>1, <4>1 DEF Covered
    <3>4. CASE j > m
      <4>1. j - 1 \in 1..Len(lib') /\ lib'[j - 1] = lib[j]
        BY <1>1, <2>1, <2>2, <3>4
      <4> QED  BY <3>1, <4>1 DEF Covered
    <3> QED  BY <2>1, <3>2, <3>3, <3>4
  <2> QED  BY <1>1, <1>6, <2>1, <2>3
<1>11. CASE Lib!EndReplace
  <2>1. libPc = "replace" /\ m > Len(lib) /\ lib' = IF inserted THEN lib ELSE Append(lib, cand)
    BY <1>11 DEF Lib!EndReplace
  <2>2. CASE inserted
    <3>1. PICK j \in 1..Len(lib) : lib[j].body = cand.body
      BY <2>1, <2>2 DEF InFront
    <3> QED  BY <1>3, <2>1, <2>2, <3>1 DEF Kept, Covered
  <2>3. CASE ~inserted
    BY <1>1, <1>3, <2>1, <2>3, CoveredByMore DEF Kept
  <2> QED  BY <2>2, <2>3
<1>12. CASE Lib!Update
  <2>1. CASE m > Len(lib)
    <3>1. lib' = Append(lib, cand)
      BY <1>12, <2>1 DEF Lib!Update
    <3> QED  BY <1>1, <1>3, <3>1, CoveredByMore DEF Kept
  <2>2. CASE m <= Len(lib) /\ Lib!Equivalent(lib[m], cand)
    <3> DEFINE e == Lib!UpdateQValue(lib[m], cand.total)
    <3>1. lib' = [lib EXCEPT ![m] = e] /\ m \in 1..Len(lib)
      BY <1>1, <1>12, <2>2 DEF Lib!Update, LibOK
    <3>2. e.body = lib[m].body
      BY <1>1, <1>2, <3>1, UpdateFacts
    <3> HIDE DEF e
    <3>3. Len(lib') = Len(lib) /\ \A i \in 1..Len(lib) : lib'[i].body = lib[i].body
      BY <1>1, <3>1, <3>2
    <3>4. SubsumesByDefinition(lib[m].body, cand.body)
      BY <1>5, <2>2, <3>1 DEF Lib!Equivalent
    <3>5. SubsumesByDefinition(cand.body, b) => SubsumesByDefinition(lib[m].body, b)
      BY <1>1, <3>1, <3>4, SubsumptionTransitive
    <3> QED  BY <1>3, <3>1, <3>3, <3>5 DEF Kept, Covered
  <2>3. CASE m <= Len(lib) /\ ~Lib!Equivalent(lib[m], cand)
    <3>1. libPc' = libPc /\ lib' = lib /\ cand' = cand
      BY <1>1, <1>12, <2>3 DEF Lib!Update
    <3> QED  BY <1>1, <1>6, <3>1
  <2> QED  BY <1>1, <2>1, <2>2, <2>3
<1> QED  BY <1>7, <1>8, <1>9, <1>10, <1>11, <1>12 DEF Lib!Step

LEMMA StaysInFront ==
  ASSUME LibOK, InFront, Lib!Step
  PROVE  InFront'
<1>1. lib \in Seq(Lib!Entry) /\ Len(lib) \in Nat /\ m \in Nat \ {0} /\ inserted \in BOOLEAN
  BY DEF LibOK
<1> HIDE DEF Lib!Entry
<1>2. CASE Lib!Find
  <2>1. libPc = "find" /\ inserted' = inserted
    BY <1>2 DEF Lib!Find
  <2>2. ~inserted'
    BY <1>1, <2>1 DEF InFront
  <2> QED  BY <2>2 DEF InFront
<1>3. CASE Lib!Keep
  BY <1>1, <1>3 DEF Lib!Keep, InFront
<1>4. CASE Lib!ReplaceMethod
  <2>1. m \in 1..Len(lib) /\ lib' = [lib EXCEPT ![m] = cand] /\ m' = m + 1 /\ cand' = cand /\ libPc' = "replace"
    BY <1>1, <1>4 DEF Lib!ReplaceMethod
  <2>2. m \in 1..Len(lib') /\ m < m' /\ lib'[m] = cand'
    BY <1>1, <2>1
  <2> QED  BY <2>1, <2>2 DEF InFront
<1>5. CASE Lib!RemoveMethod
  <2>1. m \in 1..Len(lib) /\ lib' = RemoveAt(lib, m) /\ m' = m /\ cand' = cand /\ inserted
        /\ libPc = "replace" /\ libPc' = "replace"
    BY <1>1, <1>5 DEF Lib!RemoveMethod, Lib!RemoveAt, RemoveAt
  <2>2. Len(lib') = Len(lib) - 1 /\ \A i \in 1..(Len(lib) - 1) : lib'[i] = IF i < m THEN lib[i] ELSE lib[i + 1]
    BY <1>1, <2>1, RemoveAtProperties
  <2>3. PICK j \in 1..Len(lib) : j < m /\ lib[j].body = cand.body
    BY <2>1 DEF InFront
  <2>4. j \in 1..Len(lib') /\ lib'[j] = lib[j]
    BY <1>1, <2>1, <2>2, <2>3
  <2> QED  BY <2>1, <2>3, <2>4 DEF InFront
<1>6. CASE Lib!EndReplace
  BY <1>6 DEF Lib!EndReplace, InFront
<1>7. CASE Lib!Update
  <2>1. libPc' \notin {"find", "replace"}
    BY <1>7 DEF Lib!Update
  <2> QED  BY <2>1 DEF InFront
<1> QED  BY <1>2, <1>3, <1>4, <1>5, <1>6, <1>7 DEF Lib!Step

----------------------------------------------------------------------------
(* What the annotations and the checkers refer to is kept                  *)

SelfLoop(b) == b.subtasks = <<HeadOf(b)>>

KeptNow(b) == Kept(lib, cand, libPc, b)

AnnotationsKeptInv == \A i \in 1..Len(insts) : SelfLoop(insts[i].method) \/ KeptNow(insts[i].method)

\* Operators that MakeTrivialNdCheckers makes a checker for.
Checked == {i \in 1..Len(Operators) : Operators[i].name \in DOMAIN CheckerOf \ DOMAIN DesiredOf}

CheckersKeptInv ==
  flags.nd_checkers /\ pc # "verifiers" =>
    \A i \in Checked : (pc = "trivial" => i < k) => KeptNow(TrivialChecker(Operators[i]))

KeptInv == InFront /\ AnnotationsKeptInv /\ CheckersKeptInv /\ (pc = "done" => libPc = "idle")

\* While no method is being put into the library it only grows.
Grows == libPc = "idle" /\ (lib' = lib \/ \E e \in Lib!Entry : lib' = Append(lib, e))

LEMMA GrowthKeeps ==
  ASSUME LibOK, Grows, NEW b, KeptNow(b)
  PROVE  Kept(lib', cand', libPc', b)
<1>1. lib \in Seq(Lib!Entry) /\ Covered(lib, b)
  BY DEF LibOK, KeptNow, Kept, Grows
<1>2. CASE lib' = lib
  BY <1>1, <1>2 DEF Kept
<1>3. CASE \E e \in Lib!Entry : lib' = Append(lib, e)
  BY <1>1, <1>3, CoveredByMore DEF Kept
<1> QED  BY <1>2, <1>3 DEF Grows

\* A step that leaves the library alone or adds a method to it or offers it one.
LEMMA GrowingStep ==
  ASSUME IInv, KeptInv, Grows, flags' = flags, insts' = insts, pc \notin {"verifiers", "trivial"},
         pc' \notin {"verifiers", "trivial"}, libPc' \in {"find", "replace"} => ~inserted', pc' = "done" => libPc' = "idle"
  PROVE  KeptInv'
<1>1. LibOK
  BY DEF IInv, TypeInv
<1>2. AnnotationsKeptInv'
  BY <1>1, GrowthKeeps DEF KeptInv, AnnotationsKeptInv, KeptNow
<1>3. CheckersKeptInv'
  BY <1>1, GrowthKeeps DEF KeptInv, CheckersKeptInv, KeptNow
<1>4. InFront'
  BY DEF InFront
<1> QED  BY <1>2, <1>3, <1>4 DEF KeptInv

LEMMA UnchangedStep ==
  ASSUME IInv, KeptInv, libPc = "idle", UNCHANGED <<flags, libVars>>, insts' = insts, pc \notin {"verifiers", "trivial"},
         pc' \notin {"verifiers", "trivial"}
  PROVE  KeptInv'
<1>1. Grows /\ flags' = flags /\ libPc' = "idle"
  BY DEF Grows, libVars
<1> QED  BY <1>1, GrowingStep

LEMMA MakeVerifierKeeps ==
  ASSUME IInv, KeptInv, MakeVerifier
  PROVE  KeptInv'
<1>1. LibOK /\ k \in Nat \ {0} /\ Len(Tasks) \in Nat
  <2>1. Tasks \in Seq(TaskDescr)
    BY MakerAssumption
  <2> QED  BY <2>1 DEF IInv, TypeInv, LoopsOK
<1>2. /\ pc = "verifiers" /\ libPc = "idle" /\ insts' = insts
      /\ (pc' = "verifiers" \/ (pc' = "trivial" /\ k' = 1))
  BY DEF MakeVerifier, At
<1>3. Grows /\ flags' = flags /\ libPc' = "idle"
  <2>1. CASE UNCHANGED <<flags, libVars>>
    BY <1>2, <2>1 DEF Grows, libVars
  <2>2. CASE k \in 1..Len(Tasks) /\ Lib!AddBeforeLearning(VerifierBody(Tasks[k]))
    <3> DEFINE e == Lib!NewEntry(VerifierBody(Tasks[k]), 0, 0, FALSE)
    <3>1. lib' = Append(lib, e) /\ libPc' = libPc /\ flags' = flags
      BY <2>2 DEF Lib!AddBeforeLearning
    <3>2. e \in Lib!Entry
      BY <1>1, <2>2, VerifierUsable, NewEntryFacts
    <3> HIDE DEF e
    <3> QED  BY <1>2, <3>1, <3>2 DEF Grows
  <2>3. (k \in 1..Len(Tasks) /\ Lib!AddBeforeLearning(VerifierBody(Tasks[k]))) \/ UNCHANGED <<flags, libVars>>
    BY <1>1 DEF MakeVerifier
  <2> QED  BY <2>1, <2>2, <2>3
<1>4. AnnotationsKeptInv'
  BY <1>1, <1>2, <1>3, GrowthKeeps DEF KeptInv, AnnotationsKeptInv, KeptNow
<1>5. CheckersKeptInv'
  <2>1. Operators \in Seq(OperatorType)
    BY DomainAssumption
  <2>2. \A i \in Checked : i \in Nat /\ ~(i < 1)
    BY <2>1 DEF Checked
  <2> QED  BY <1>2, <2>2 DEF CheckersKeptInv
<1>6. InFront'
  BY <1>3 DEF InFront
<1> QED  BY <1>2, <1>3, <1>4, <1>5, <1>6 DEF KeptInv

LEMMA MakeTrivialCheckerKeeps ==
  ASSUME IInv, KeptInv, MakeTrivialChecker
  PROVE  KeptInv'
<1> DEFINE b == TrivialChecker(Operators[k])
           e == Lib!NewEntry(b, 0, 0, FALSE)
           adds == k \in Checked /\ lib' = Append(lib, e) /\ UNCHANGED <<flags, libPc, cand, inserted, m>>
           there == k \in Checked => Covered(lib, b)
<1>1. LibOK /\ k \in Nat \ {0} /\ Len(Operators) \in Nat
  <2>1. Operators \in Seq(OperatorType)
    BY DomainAssumption
  <2> QED  BY <2>1 DEF IInv, TypeInv, LoopsOK
<1>2. /\ pc = "trivial" /\ libPc = "idle" /\ insts' = insts
      /\ \/ /\ flags.nd_checkers /\ k <= Len(Operators) /\ pc' = "trivial" /\ k' = k + 1
            /\ adds \/ (there /\ UNCHANGED <<flags, libVars>>)
         \/ ~(flags.nd_checkers /\ k <= Len(Operators)) /\ pc' = "partials" /\ UNCHANGED <<flags, libVars>>
  <2>1. pc = "trivial" /\ libPc = "idle" /\ insts' = insts
    BY DEF MakeTrivialChecker, At
  <2>2. CASE flags.nd_checkers /\ k <= Len(Operators)
    <3>1. pc' = pc /\ k' = k + 1
      BY <2>2 DEF MakeTrivialChecker
    <3>2. CASE Operators[k].name \in DOMAIN CheckerOf \ DOMAIN DesiredOf /\
               \A i \in 1..Len(lib) : ~(SubsumesByDefinition(lib[i].body, b) /\ SubsumesByDefinition(b, lib[i].body))
      <4>1. Lib!AddBeforeLearning(b)
        BY <2>2, <3>2 DEF MakeTrivialChecker
      <4>2. lib' = Append(lib, e) /\ UNCHANGED <<flags, libPc, cand, inserted, m>>
        BY <4>1 DEF Lib!AddBeforeLearning
      <4>3. k \in Checked
        BY <1>1, <2>2, <3>2 DEF Checked
      <4> HIDE DEF e, b
      <4> QED  BY <2>1, <2>2, <3>1, <4>2, <4>3
    <3>3. CASE ~(Operators[k].name \in DOMAIN CheckerOf \ DOMAIN DesiredOf /\
                 \A i \in 1..Len(lib) : ~(SubsumesByDefinition(lib[i].body, b) /\ SubsumesByDefinition(b, lib[i].body)))
      <4>1. UNCHANGED <<flags, libVars>>
        BY <2>2, <3>3 DEF MakeTrivialChecker
      <4> HIDE DEF b, e
      <4>2. there
        BY <3>3 DEF Checked, Covered
      <4> QED  BY <2>1, <2>2, <3>1, <4>1, <4>2
    <3> HIDE DEF b, e
    <3> QED  BY <3>2, <3>3
  <2>3. CASE ~(flags.nd_checkers /\ k <= Len(Operators))
    BY <2>1, <2>3 DEF MakeTrivialChecker
  <2> HIDE DEF adds, there
  <2> QED  BY <2>2, <2>3
<1>3. k \in Checked => Usable(b) /\ e \in Lib!Entry /\ e.body = b
  BY <1>1, TrivialUsable, NewEntryFacts DEF Checked
<1> HIDE DEF e, b
<1>4. Grows /\ flags' = flags /\ libPc' = "idle"
  BY <1>2, <1>3 DEF Grows, libVars
<1>5. AnnotationsKeptInv'
  BY <1>1, <1>2, <1>4, GrowthKeeps DEF KeptInv, AnnotationsKeptInv, KeptNow
<1>6. ASSUME NEW i \in Checked, i < k, flags.nd_checkers
      PROVE  Kept(lib', cand', libPc', TrivialChecker(Operators[i]))
  BY <1>1, <1>2, <1>4, <1>6, GrowthKeeps DEF KeptInv, CheckersKeptInv
<1>7. ASSUME k \in Checked, flags.nd_checkers
      PROVE  Kept(lib', cand', libPc', b)
  <2>1. Len(Operators) >= k /\ lib \in Seq(Lib!Entry)
    BY <1>1, <1>7 DEF Checked, LibOK
  <2>2. CASE adds
    <3>1. SubsumesByDefinition(b, b)
      BY <1>3, <1>7, SubsumptionReflexive
    <3> QED  BY <1>3, <1>7, <2>1, <2>2, <3>1, CoveredByMore DEF Kept
  <2>3. CASE there /\ UNCHANGED <<flags, libVars>>
    BY <1>7, <2>3 DEF Kept, libVars
  <2> HIDE DEF adds, there
  <2> QED  BY <1>2, <1>7, <2>1, <2>2, <2>3
<1>8. CheckersKeptInv'
  <2>1. ASSUME flags.nd_checkers, NEW i \in Checked, pc' = "trivial" => i < k'
        PROVE  Kept(lib', cand', libPc', TrivialChecker(Operators[i]))
    <3>1. i \in Nat /\ i <= Len(Operators)
      BY <1>1 DEF Checked
    <3>2. i < k \/ i = k
      BY <1>1, <1>2, <2>1, <3>1
    <3> QED  BY <1>6, <1>7, <2>1, <3>2 DEF b
  <2> QED  BY <1>4, <2>1 DEF CheckersKeptInv, KeptNow
<1>9. InFront'
  BY <1>4 DEF InFront
<1> QED  BY <1>2, <1>4, <1>5, <1>8, <1>9 DEF KeptInv

\* The new method has room in the library or is on its way there.
LEMMA OfferedIsKept ==
  ASSUME LibOK, NEW b, Usable(b), NEW count \in Nat, NEW total \in Nat,
         NEW route \in {"idle", "find", "update"}, Lib!Offer(Lib!NewEntry(b, count, total, TRUE), route)
  PROVE  /\ Grows /\ flags' = flags /\ (libPc' \in {"find", "replace"} => ~inserted')
         /\ \A x : SubsumesByDefinition(b, x) => Kept(lib', cand', libPc', x)
<1> DEFINE e == Lib!NewEntry(b, count, total, TRUE)
<1>1. e \in Lib!Entry /\ e.body = b
  BY NewEntryFacts
<1>2. /\ lib' = (IF route = "idle" THEN Append(lib, e) ELSE lib) /\ libPc = "idle" /\ cand' = e
      /\ libPc' = route /\ flags' = flags /\ inserted' = FALSE
  BY DEF Lib!Offer
<1> HIDE DEF e, Lib!Entry
<1>3. lib \in Seq(Lib!Entry)
  BY DEF LibOK
<1>4. Grows
  BY <1>1, <1>2 DEF Grows
<1>5. ASSUME NEW x, SubsumesByDefinition(b, x)
      PROVE  Kept(lib', cand', libPc', x)
  <2>1. CASE route = "idle"
    BY <1>1, <1>2, <1>3, <1>5, <2>1, CoveredByMore DEF Kept
  <2>2. CASE route # "idle"
    BY <1>1, <1>2, <1>5, <2>2 DEF Kept
  <2> QED  BY <2>1, <2>2
<1> QED  BY <1>2, <1>4, <1>5

\* An instance is of a method that the renamed one comes from.
LEMMA AnnotateKeeps ==
  ASSUME FreshNames, IInv, IInv', KeptInv, Grows, flags' = flags, pc \notin {"verifiers", "trivial"},
         pc' \notin {"verifiers", "trivial", "done"}, libPc' \in {"find", "replace"} => ~inserted',
         NEW body, NEW sub, Bound(body, sub), NEW before, NEW task, NEW effects, NEW cost,
         AddMethodInst(body, sub, before, task, effects, cost),
         SelfLoop(body) \/ \A x : Usable(x) /\ SubsumesByDefinition(body, x) => Kept(lib', cand', libPc', x)
  PROVE  KeptInv'
<1> DEFINE change == NewVars(DOMAIN sub, made)
           c == MethodAfter(body, change)
           n == Len(insts)
<1>1. LibOK /\ insts \in Seq(InstType) /\ n \in Nat /\ made \in Nat /\ (\A i \in 1..Len(insts') : InstOK(insts'[i]))
  BY DEF IInv, TypeInv, InstsOK
<1>2. PICK y : insts' = Append(insts, y) /\ y.method = c
  BY DEF AddMethodInst
<1>3. Len(insts') = n + 1 /\ (\A i \in 1..n : insts'[i] = insts[i]) /\ insts'[n + 1] = y
  BY <1>1, <1>2
<1>4. Usable(body) /\ body \in AnyBody /\ sub \in Subst(Object) /\ IsFiniteSet(DOMAIN sub)
  BY DEF Bound, Usable
<1>5. Into(change, Variable)
  BY <1>1, <1>4, NewVarsFacts DEF Into
<1>6. Usable(c)
  <2>1. InstOK(insts'[n + 1])
    BY <1>1, <1>3
  <2> QED  BY <1>2, <1>3, <2>1 DEF InstOK, Bound
<1> HIDE DEF change
<1>7. SelfLoop(body) => SelfLoop(c)
  <2>1. /\ c.name = body.name /\ c.params = AfterSubstitution(body.params, change) /\ Len(c.subtasks) = Len(body.subtasks)
        /\ \A i \in 1..Len(body.subtasks) : c.subtasks[i] = TaskAfter(body.subtasks[i], change)
        /\ c.subtasks \in Seq(TaskHead)
    BY <1>4, <1>5, MethodAfterFields
  <2> HIDE DEF c
  <2>2. TaskAfter(HeadOf(body), change) = HeadOf(c)
    BY <2>1 DEF HeadOf, TaskAfter
  <2>3. ASSUME SelfLoop(body)
        PROVE  SelfLoop(c)
    <3>1. Len(body.subtasks) = 1 /\ body.subtasks[1] = HeadOf(body)
      BY <2>3 DEF SelfLoop
    <3>2. Len(c.subtasks) = 1 /\ c.subtasks[1] = HeadOf(c)
      BY <2>1, <2>2, <3>1
    <3> QED  BY <2>1, <3>2 DEF SelfLoop
  <2> QED  BY <2>3
<1>8. SubsumesByDefinition(body, c)
  BY <1>4, <1>5, <1>6, SubsumesRenamed
<1> HIDE DEF c
<1>9. SelfLoop(c) \/ Kept(lib', cand', libPc', c)
  BY <1>6, <1>7, <1>8
<1>10. AnnotationsKeptInv'
  <2>1. ASSUME NEW i \in 1..Len(insts')
        PROVE  SelfLoop(insts'[i].method) \/ Kept(lib', cand', libPc', insts'[i].method)
    <3>1. CASE i = n + 1
      BY <1>2, <1>3, <1>9, <3>1
    <3>2. CASE i \in 1..n
      BY <1>1, <1>3, <3>2, GrowthKeeps DEF KeptInv, AnnotationsKeptInv
    <3> QED  BY <1>1, <1>3, <3>1, <3>2
  <2> QED  BY <2>1 DEF AnnotationsKeptInv, KeptNow
<1>11. CheckersKeptInv'
  BY <1>1, GrowthKeeps DEF KeptInv, CheckersKeptInv, KeptNow
<1>12. InFront'
  BY DEF InFront
<1> QED  BY <1>10, <1>11, <1>12 DEF KeptInv

LEMMA SquelchKeeps ==
  ASSUME FreshNames, IInv, IInv', KeptInv, Squelch
  PROVE  KeptInv'
<1> DEFINE t == todo[k]
           j == SmallestOf(SolvedFrom(t))
           I == {i \in 1..Len(lib) : Applies(lib[i].body, t, StateAt(j))}
           e == lib[SmallestOf(I)]
           fromTask == [v \in Elems(t.task.params) |-> e.body.params[CHOOSE i \in 1..Len(t.task.params) : t.task.params[i] = v]]
           descr == DescrAfter(t.task, fromTask)
           effects == FormulaAfter(t.task.effects, fromTask)
           args == ArgsOf(t)
           state == StateAt(j)
           q == QValue(e)
<1>1. /\ pc = "pick" /\ libPc = "idle" /\ k <= Len(todo) /\ SolvedFrom(t) # {} /\ UNCHANGED <<flags, libVars>>
      /\ \/ pc' = "double variable" /\ insts' = insts
         \/ /\ \E sub \in Satisfying(e.body, [args |-> args], state) : AddMethodInst(e.body, sub, j, descr, effects, q)
            /\ pc' = pc
  BY DEF Squelch, At
<1>2. LibOK /\ init \in Nat
  BY <1>1, TodoFacts DEF IInv, TypeInv
<1>3. SmallestOf(I) \in I
  <2>1. SolvedFrom(t) \subseteq 0..init /\ 0..init \subseteq Nat
    BY <1>2 DEF SolvedFrom
  <2>2. j \in SolvedFrom(t)
    BY <1>1, <2>1, SmallestFacts
  <2> HIDE DEF j, t
  <2>3. I # {} /\ I \subseteq Nat
    BY <2>2 DEF SolvedFrom
  <2> HIDE DEF I
  <2> QED  BY <2>3, SmallestFacts
<1>4. SmallestOf(I) \in 1..Len(lib) /\ e.body.name = t.task.name
  <2> HIDE DEF t, j
  <2> QED  BY <1>3 DEF Applies
<1> HIDE DEF I
<1>5. Usable(e.body) /\ e \in Lib!Entry
  <2> HIDE DEF Lib!Entry
  <2> QED  BY <1>2, <1>4 DEF LibOK
<1>6. e.body.name \notin CheckNames
  <2>1. PICK i1 \in 1..Len(Tasks) : t.task = Tasks[i1]
    BY <1>1, TodoFacts DEF IInv, TypeInv
  <2> QED  BY <1>4, <2>1, TaskFacts
<1>7. \A x : SubsumesByDefinition(e.body, x) => Kept(lib', cand', libPc', x)
  BY <1>1, <1>4 DEF Kept, Covered, libVars
<1> HIDE DEF e, t, j, fromTask, descr, effects, args, state, q
<1>8. CASE insts' = insts /\ pc' = "double variable"
  BY <1>1, <1>8, UnchangedStep
<1>9. CASE (\E sub \in Satisfying(e.body, [args |-> args], state) : AddMethodInst(e.body, sub, j, descr, effects, q)) /\ pc' = pc
  <2> DEFINE body == e.body
             call == [args |-> args]
  <2>1. PICK sub \in Satisfying(body, call, state) : AddMethodInst(body, sub, j, descr, effects, q)
    BY <1>9
  <2>2. Usable(body) /\ body.name \notin CheckNames /\ \A x : SubsumesByDefinition(body, x) => Kept(lib', cand', libPc', x)
    BY <1>5, <1>6, <1>7
  <2>3. Grows /\ flags' = flags /\ libPc' = "idle"
    BY <1>1 DEF Grows, libVars
  <2> HIDE DEF body, call
  <2>4. Bound(body, sub)
    BY <2>1, <2>2, SatisfyingFacts
  <2>5. pc \notin {"verifiers", "trivial"} /\ pc' \notin {"verifiers", "trivial", "done"}
    BY <1>1, <1>9
  <2> QED  BY <2>1, <2>2, <2>3, <2>4, <2>5, AnnotateKeeps
<1> QED  BY <1>1, <1>8, <1>9

LEMMA DropKeeps ==
  ASSUME FreshNames, IInv, IInv', KeptInv, Drop
  PROVE  KeptInv'
<1> DEFINE t == todo[k]
           n == LargestOf(Unneeded(t))
           body == insts[n].method
           task == insts[n].task
           effects == insts[n].effects
           cost == insts[n].cost
           call == [args |-> ArgsOf(t)]
           before == init
           state == StateAt(before)
<1>1. /\ pc = "pick" /\ libPc = "idle" /\ Unneeded(t) # {} /\ UNCHANGED <<flags, libVars>>
      /\ \/ pc' = "double variable" /\ insts' = insts
         \/ /\ \E sub \in Satisfying(body, call, state) : AddMethodInst(body, sub, before, task, effects, cost)
            /\ pc' = pc
  BY DEF Drop, At
<1> HIDE DEF t
<1>2. n \in 1..Len(insts)
  <2>1. Unneeded(t) \subseteq 1..Len(insts) /\ 1..Len(insts) \subseteq 0..Len(insts) /\ Len(insts) \in Nat
    BY DEF Unneeded, IInv, TypeInv, InstsOK
  <2> DEFINE U == Unneeded(t)
             z == Len(insts)
  <2>2. z \in Nat /\ U \subseteq 0..z /\ U # {}
    BY <1>1, <2>1
  <2> HIDE DEF U, z
  <2>3. LargestOf(U) \in U
    BY <2>2, LargestFacts
  <2> QED  BY <2>1, <2>3 DEF U
<1> HIDE DEF n
<1>3. Usable(body) /\ body.name \notin CheckNames
  BY <1>2 DEF IInv, TypeInv, InstsOK, InstOK, Bound
<1>4. SelfLoop(body) \/ KeptNow(body)
  BY <1>2 DEF KeptInv, AnnotationsKeptInv
<1> HIDE DEF body, task, effects, cost, call, before, state
<1>5. CASE insts' = insts /\ pc' = "double variable"
  BY <1>1, <1>5, UnchangedStep
<1>6. CASE (\E sub \in Satisfying(body, call, state) : AddMethodInst(body, sub, before, task, effects, cost)) /\ pc' = pc
  <2>1. PICK sub \in Satisfying(body, call, state) : AddMethodInst(body, sub, before, task, effects, cost)
    BY <1>6
  <2>2. Bound(body, sub)
    BY <1>3, <2>1, SatisfyingFacts DEF call, state
  <2>3. Grows /\ flags' = flags /\ libPc' = "idle" /\ lib' = lib
    BY <1>1 DEF Grows, libVars
  <2>4. ASSUME NEW x, Usable(x), SubsumesByDefinition(body, x), KeptNow(body)
        PROVE  Kept(lib', cand', libPc', x)
    <3>1. PICK i \in 1..Len(lib) : SubsumesByDefinition(lib[i].body, body)
      BY <1>1, <2>4 DEF KeptNow, Kept, Covered
    <3>2. Usable(lib[i].body)
      <4> HIDE DEF Lib!Entry
      <4> QED  BY DEF IInv, TypeInv, LibOK
    <3>3. SubsumesByDefinition(lib[i].body, x)
      BY <1>3, <2>4, <3>1, <3>2, SubsumptionTransitive
    <3> QED  BY <2>3, <3>3 DEF Kept, Covered
  <2>5. pc \notin {"verifiers", "trivial"} /\ pc' \notin {"verifiers", "trivial", "done"}
    BY <1>1, <1>6
  <2>6. SelfLoop(body) \/ \A x : Usable(x) /\ SubsumesByDefinition(body, x) => Kept(lib', cand', libPc', x)
    BY <1>4, <2>4
  <2> QED  BY <2>1, <2>2, <2>3, <2>5, <2>6, AnnotateKeeps
<1> QED  BY <1>1, <1>5, <1>6

LEMMA CreateKeeps ==
  ASSUME FreshNames, IInv, IInv', KeptInv, Create
  PROVE  KeptInv'
<1> DEFINE b == NewMethod
           task == DescrAfter(part.task, part.taskSub)
           effects == ActualEffects(part)
           cost == IF flags.qvalues THEN part.cost ELSE Unrated
           count == IF flags.qvalues THEN 1 ELSE 0
           total == IF flags.qvalues THEN part.cost ELSE 0
           M == part.master
           before == part.init
           route == RouteOfMethod
<1>1. pc = "regress" /\ libPc = "idle" /\ pc' = "pick" /\ AddMethodInst(b, M, before, task, effects, cost)
  BY DEF Create, At
<1>2. IF SelfLoop(b) THEN Lib!DropSelfLoop ELSE Lib!Offer(Lib!NewEntry(b, count, total, TRUE), route)
  BY DEF Create, SelfLoop
<1>3. LibOK /\ PartOK(part, made)
  BY <1>1 DEF IInv, TypeInv, PartialOK
<1>4. MadeOf(b, part) /\ b.name \notin CheckNames
  BY <1>1, NewMethodMade DEF IInv
<1> HIDE DEF b
<1>5. Bound(b, M)
  BY <1>3, <1>4, BoundMaster
<1>6. count \in Nat /\ total \in Nat /\ route \in {"idle", "find", "update"}
  BY <1>3 DEF PartOK, PartType, RouteOfMethod
<1> HIDE DEF M, before, task, effects, cost, count, total, route
<1>7. /\ Grows /\ flags' = flags /\ (libPc' \in {"find", "replace"} => ~inserted')
      /\ SelfLoop(b) \/ \A x : SubsumesByDefinition(b, x) => Kept(lib', cand', libPc', x)
  <2>1. CASE SelfLoop(b)
    <3>1. Lib!DropSelfLoop
      BY <1>2, <2>1
    <3>2. flags' = flags /\ lib' = lib /\ libPc' = libPc
      BY <3>1 DEF Lib!DropSelfLoop
    <3> QED  BY <1>1, <2>1, <3>2 DEF Grows
  <2>2. CASE ~SelfLoop(b)
    <3>1. Lib!Offer(Lib!NewEntry(b, count, total, TRUE), route)
      BY <1>2, <2>2
    <3> QED  BY <1>3, <1>4, <1>6, <3>1, OfferedIsKept DEF MadeOf
  <2> QED  BY <2>1, <2>2
<1> QED  BY <1>1, <1>5, <1>7, AnnotateKeeps

LEMMA EndCheckerKeeps ==
  ASSUME IInv, KeptInv, EndChecker
  PROVE  KeptInv'
<1> DEFINE c == WithNdCheckers(CreateMethod(part, <<>>, flags.partial_generalization))
           route == IF flags.no_subsumption THEN "idle" ELSE "find"
<1>1. /\ pc = "check" /\ libPc = "idle" /\ insts' = insts
      /\ \/ pc' \in {"partials", "undefined"} /\ UNCHANGED <<flags, libVars>>
         \/ pc' = "partials" /\ Lib!Offer(Lib!NewEntry(c, 0, 0, TRUE), route)
  BY DEF EndChecker, At
<1>2. LibOK /\ Usable(c) /\ route \in {"idle", "find", "update"}
  BY <1>1, CheckerMade DEF IInv, TypeInv
<1> HIDE DEF c, route
<1>3. CASE pc' \in {"partials", "undefined"} /\ UNCHANGED <<flags, libVars>>
  BY <1>1, <1>3, UnchangedStep
<1>4. CASE pc' = "partials" /\ Lib!Offer(Lib!NewEntry(c, 0, 0, TRUE), route)
  <2>1. Grows /\ flags' = flags /\ (libPc' \in {"find", "replace"} => ~inserted')
    BY <1>2, <1>4, OfferedIsKept
  <2> QED  BY <1>1, <1>4, <2>1, GrowingStep
<1> QED  BY <1>1, <1>3, <1>4

LEMMA LibraryStepKeeps ==
  ASSUME IInv, KeptInv, LibraryStep
  PROVE  KeptInv'
<1>1. LibOK /\ Lib!Step /\ UNCHANGED makerVars /\ libPc # "idle" /\ flags' = flags
  BY LibSteps DEF LibraryStep, IInv, TypeInv
<1>2. InFront'
  BY <1>1, StaysInFront DEF KeptInv
<1>3. ASSUME NEW b, Usable(b), KeptNow(b)
      PROVE  Kept(lib', cand', libPc', b)
  BY <1>1, <1>3, LibraryKeepsMethods DEF KeptInv, KeptNow
<1>4. \A i \in 1..Len(insts) : Usable(insts[i].method)
  BY DEF IInv, TypeInv, InstsOK, InstOK, Bound
<1>5. \A i \in Checked : Usable(TrivialChecker(Operators[i]))
  BY TrivialUsable DEF Checked
<1>6. AnnotationsKeptInv'
  BY <1>1, <1>3, <1>4 DEF KeptInv, AnnotationsKeptInv, KeptNow, makerVars
<1>7. CheckersKeptInv'
  BY <1>1, <1>3, <1>5 DEF KeptInv, CheckersKeptInv, KeptNow, makerVars
<1> QED  BY <1>1, <1>2, <1>6, <1>7 DEF KeptInv, makerVars

LEMMA NextKeepsMethods ==
  ASSUME FreshNames, IInv, IInv', KeptInv, [Next]_vars
  PROVE  KeptInv'
<1>1. CASE MakeVerifier
  BY <1>1, MakeVerifierKeeps
<1>2. CASE MakeTrivialChecker
  BY <1>2, MakeTrivialCheckerKeeps
<1>3. CASE NextFinalState
  BY <1>3, UnchangedStep DEF NextFinalState, At
<1>4. CASE End
  BY <1>4, UnchangedStep DEF End, At
<1>5. CASE NextInitialState
  BY <1>5, UnchangedStep DEF NextInitialState, At
<1>6. CASE Squelch
  BY <1>6, SquelchKeeps
<1>7. CASE Drop
  BY <1>7, DropKeeps
<1>8. CASE Begin
  BY <1>8, UnchangedStep DEF Begin, At
<1>9. CASE AddMethod
  <2>1. libPc = "idle" /\ UNCHANGED <<flags, libVars>> /\ insts' = insts /\ pc = "regress"
    BY <1>9 DEF AddMethod, At
  <2>2. pc' \in {"overlap", "substitution recurses", pc}
    BY <1>9 DEF AddMethod, AddPiece
  <2> QED  BY <2>1, <2>2, UnchangedStep
<1>10. CASE AddOperator
  <2>1. libPc = "idle" /\ UNCHANGED <<flags, libVars>> /\ insts' = insts /\ pc \in {"regress", "check"}
    BY <1>10 DEF AddOperator, At
  <2>2. pc' \in {"overlap", "substitution recurses", pc}
    BY <1>10 DEF AddOperator, AddPiece
  <2> QED  BY <2>1, <2>2, UnchangedStep
<1>11. CASE Advance
  BY <1>11, UnchangedStep DEF Advance, At
<1>12. CASE GiveUp
  BY <1>12, UnchangedStep DEF GiveUp, At
<1>13. CASE Discard
  <2>1. libPc = "idle" /\ UNCHANGED <<flags, libVars>> /\ insts' = insts /\ pc = "regress" /\ pc' \in {"not a predicate", "pick"}
    BY <1>13 DEF Discard, At
  <2> QED  BY <2>1, UnchangedStep
<1>14. CASE Create
  BY <1>14, CreateKeeps
<1>15. CASE NoChecker
  BY <1>15, UnchangedStep DEF NoChecker, At
<1>16. CASE BeginChecker
  BY <1>16, UnchangedStep DEF BeginChecker, At
<1>17. CASE EndChecker
  BY <1>17, EndCheckerKeeps
<1>18. CASE LibraryStep
  BY <1>18, LibraryStepKeeps
<1>19. CASE Stop \/ UNCHANGED vars
  BY <1>19 DEF Stop, vars, libVars, makerVars, KeptInv, InFront, AnnotationsKeptInv, CheckersKeptInv, KeptNow
<1> QED
  BY <1>1, <1>2, <1>3, <1>4, <1>5, <1>6, <1>7, <1>8, <1>9, <1>10, <1>11, <1>12, <1>13, <1>14, <1>15,
     <1>16, <1>17, <1>18, <1>19 DEF Next

LEMMA KeptAtStart ==
  ASSUME Init
  PROVE  KeptInv
<1>1. libPc = "idle" /\ insts = <<>> /\ pc = "verifiers"
  BY DEF Init
<1> QED  BY <1>1 DEF KeptInv, InFront, AnnotationsKeptInv, CheckersKeptInv

LEMMA InvariantCovered ==
  ASSUME KeptInv
  PROVE  AnnotationsCovered
<1> QED  BY DEF KeptInv, AnnotationsKeptInv, SelfLoop, KeptNow, Kept, Covered, AnnotationsCovered

LEMMA InvariantEnds ==
  ASSUME IInv, KeptInv
  PROVE  CheckersCanEnd
<1> SUFFICES ASSUME pc = "done", flags.nd_checkers, NEW name \in CheckNames
             PROVE  \E j \in 1..Len(lib) : lib[j].body.name = name /\ lib[j].body.subtasks = <<>>
  BY DEF CheckersCanEnd
<1>1. PICK n \in DOMAIN CheckerOf : name = CheckerOf[n]
  BY DEF CheckNames
<1>2. PICK i \in Checked : CheckerOf[Operators[i].name] = name
  BY <1>1, CheckersAssumption DEF Checked
<1> DEFINE c == TrivialChecker(Operators[i])
<1>3. c.name = name /\ c.subtasks = <<>>
  BY <1>2 DEF TrivialChecker
<1> HIDE DEF c
<1>4. Usable(c)
  BY TrivialUsable DEF c, Checked
<1>5. PICK j \in 1..Len(lib) : SubsumesByDefinition(lib[j].body, c)
  BY DEF KeptInv, CheckersKeptInv, KeptNow, Kept, Covered, c
<1>6. Usable(lib[j].body)
  <2> HIDE DEF Lib!Entry
  <2> QED  BY DEF IInv, TypeInv, LibOK
<1>7. SameShape(lib[j].body, c)
  BY <1>4, <1>5, <1>6, SubsumptionMeans DEF Turns
<1>8. lib[j].body.name = name /\ Len(lib[j].body.subtasks) = 0
  BY <1>3, <1>7 DEF SameShape
<1>9. lib[j].body.subtasks \in Seq(LiftedHead)
  BY <1>6 DEF Usable
<1> HIDE DEF LiftedHead
<1>10. lib[j].body.subtasks = <<>>
  BY <1>8, <1>9
<1> QED  BY <1>8, <1>10

\* No method that the library held or that was annotated is lost to
\* DoSubsumption: one that subsumes it stays.
THEOREM MethodsAreKept == ASSUME FreshNames PROVE Spec => []KeptInv
<1>1. Init => KeptInv
  BY KeptAtStart
<1>2. IInv /\ IInv' /\ KeptInv /\ [Next]_vars => KeptInv'
  BY NextKeepsMethods
<1> QED  BY <1>1, <1>2, Invariance, PTL DEF Spec

\* When learning ends the library holds a method that subsumes each annotated
\* one, whatever DoSubsumption replaced and removed since.
THEOREM AnnotationsStayCovered == ASSUME FreshNames PROVE Spec => []AnnotationsCovered
<1> QED  BY InvariantCovered, MethodsAreKept, PTL

\* When learning ends every check that a method calls can be done without
\* subtasks.
THEOREM CheckersEnd == ASSUME FreshNames PROVE Spec => []CheckersCanEnd
<1> QED  BY InvariantEnds, Invariance, MethodsAreKept, PTL

----------------------------------------------------------------------------
(* Where subtasks lead                                                     *)

\* Task h can lead from a state and a cost to the next ones.
LeadsOn(h, sub, known, here, next) ==
  IF h.name \in Looks THEN next = here
  ELSE /\ h.args \in Seq(DOMAIN sub)
       /\ \E t \in Leads(TaskAfter(h, sub), known, here[1]) : next = <<t[1], here[2] + t[2]>>

\* The states and costs that path goes through when tasks st are done.
Route(path, st, sub, known) == \A n \in 1..Len(st) : LeadsOn(st[n], sub, known, path[n - 1], path[n])

\* Tasks st can lead to state last, at that cost.
Reaches(st, sub, known, from, last, cost) ==
  \E path : path[0] = <<from, 0>> /\ path[Len(st)] = <<last, cost>> /\ Route(path, st, sub, known)

LEMMA StepLeads ==
  ASSUME trace \in Traces, NEW known, NEW x \in 1..Len(trace.steps), NEW from \in Nat, from < x,
         NEW h, h = TaskAfter([name |-> OperatorAt(x).name, args |-> OperatorAt(x).params], SubAt(x))
  PROVE  <<x, OperatorAt(x).cost>> \in Leads(h, known, from)
<1>1. x \in (from + 1)..Len(trace.steps)
  BY TraceType
<1> HIDE DEF OperatorAt, SubAt
<1> QED  BY <1>1 DEF Leads

LEMMA AnnotationLeads ==
  ASSUME NEW known, NEW j \in 1..Len(known), NEW from, from <= known[j].before,
         NEW h, h = TaskAfter(HeadOf(known[j].method), known[j].sub), from \in Nat, known[j].before \in Nat
  PROVE  <<known[j].after, known[j].cost>> \in Leads(h, known, from)
<1>1. known[j].before >= from
  OBVIOUS
<1> QED  BY <1>1 DEF Leads

LEMMA LeadsType ==
  ASSUME trace \in Traces, NEW known \in Seq(InstType), NEW h, NEW from \in Nat
  PROVE  Leads(h, known, from) \subseteq Nat \X Nat
<1> DEFINE S == {x \in (from + 1)..Len(trace.steps) :
                   h = TaskAfter([name |-> OperatorAt(x).name, args |-> OperatorAt(x).params], SubAt(x))}
           J == {x \in 1..Len(known) : known[x].before >= from /\ h = TaskAfter(HeadOf(known[x].method), known[x].sub)}
<1>1. ASSUME NEW s \in S
      PROVE  s \in Nat /\ OperatorAt(s).cost \in Nat
  <2>1. s \in 1..Len(trace.steps)
    BY TraceType
  <2>2. OperatorAt(s) \in OperatorType
    BY <2>1, TraceFacts
  <2> QED  BY <2>1, <2>2 DEF OperatorType
<1>2. ASSUME NEW j \in J
      PROVE  known[j].after \in Nat /\ known[j].cost \in Nat
  <2>1. known[j] \in InstType
    OBVIOUS
  <2> QED  BY <2>1 DEF InstType
<1>3. Leads(h, known, from) = {<<s, OperatorAt(s).cost>> : s \in S} \cup {<<known[j].after, known[j].cost>> : j \in J}
  BY Zenon DEF Leads
<1> HIDE DEF S, J
<1> QED  BY <1>1, <1>2, <1>3

\* What can be done later leads on from an earlier state too.
LEMMA LeadsFromEarlier ==
  ASSUME NEW known \in Seq(InstType), NEW h, NEW from \in Nat, NEW later \in Nat, from <= later
  PROVE  Leads(h, known, later) \subseteq Leads(h, known, from)
<1>1. (later + 1)..Len(trace.steps) \subseteq (from + 1)..Len(trace.steps)
  OBVIOUS
<1>2. ASSUME NEW x \in 1..Len(known), known[x].before >= later
      PROVE  known[x].before >= from
  <2>1. known[x] \in InstType
    OBVIOUS
  <2>2. known[x].before \in Nat
    BY <2>1 DEF InstType
  <2> QED  BY <1>2, <2>2
<1>3. ASSUME NEW t \in Leads(h, known, later)
      PROVE  t \in Leads(h, known, from)
  <2>1. CASE t \in {<<s, OperatorAt(s).cost>> : s \in {x \in (later + 1)..Len(trace.steps) :
                     h = TaskAfter([name |-> OperatorAt(x).name, args |-> OperatorAt(x).params], SubAt(x))}}
    BY <1>1, <2>1 DEF Leads
  <2>2. CASE t \in {<<known[j].after, known[j].cost>> : j \in {x \in 1..Len(known) :
                     known[x].before >= later /\ h = TaskAfter(HeadOf(known[x].method), known[x].sub)}}
    BY <1>2, <2>2 DEF Leads
  <2> QED  BY <2>1, <2>2 DEF Leads
<1> QED  BY <1>3

\* The recursion finds where a route ends.
LEMMA RouteIsFound ==
  ASSUME trace \in Traces, NEW known \in Seq(InstType), NEW st, Len(st) \in Nat, NEW sub, NEW from \in Nat,
         NEW last, NEW cost, Reaches(st, sub, known, from, last, cost)
  PROVE  <<last, cost>> \in Reached(st, sub, known, from)
<1> DEFINE c == Len(st)
           T == SUBSET (Nat \X Nat)
           next(n, R) ==
             IF st[n].name \in Looks THEN R
             ELSE UNION {{<<to[1], s[2] + to[2]>> : to \in Leads(TaskAfter(st[n], sub), known, s[1])} : s \in R}
           step == [p \in (1..c) \X T |-> next(p[1], p[2])]
           Body(f) ==
             [n \in 0..c |->
                IF n = 0 THEN {<<from, 0>>}
                ELSE IF st[n].name \in Looks THEN f[n - 1]
                ELSE UNION {{<<to[1], s[2] + to[2]>> : to \in Leads(TaskAfter(st[n], sub), known, s[1])} : s \in f[n - 1]}]
<1>1. c \in Nat /\ {<<from, 0>>} \in T
  OBVIOUS
<1>2. ASSUME NEW n \in 1..c, NEW R \in T
      PROVE  next(n, R) \in T
  <2>1. CASE st[n].name \in Looks
    BY <2>1
  <2>2. ASSUME NEW s \in R, NEW to \in Leads(TaskAfter(st[n], sub), known, s[1])
        PROVE  <<to[1], s[2] + to[2]>> \in Nat \X Nat
    <3>1. s[1] \in Nat /\ s[2] \in Nat
      OBVIOUS
    <3>2. to \in Nat \X Nat
      BY <3>1, LeadsType
    <3> QED  BY <3>1, <3>2
  <2>3. CASE st[n].name \notin Looks
    BY <2>2, <2>3
  <2> QED  BY <2>1, <2>3
<1> HIDE DEF T, c, next
<1>3. step \in [(1..c) \X T -> T]
  BY <1>2
<1>4. PICK f \in [0..c -> T] : f[0] = {<<from, 0>>} /\ \A n \in 1..c : f[n] = step[<<n, f[n - 1]>>]
  <2> HIDE DEF step
  <2>1. Iterations(T, {<<from, 0>>}, c, step) # {}
    BY <1>1, <1>3, Recursion
  <2> QED  BY <2>1 DEF Iterations
<1>5. ASSUME NEW n \in 1..c
      PROVE  f[n] = next(n, f[n - 1])
  <2>1. n - 1 \in 0..c
    BY <1>1
  <2>2. <<n, f[n - 1]>> \in (1..c) \X T
    BY <2>1
  <2> QED  BY <1>4, <2>2
<1>6. f = Body(f)
  <2>1. f = [n \in 0..c |-> f[n]]
    BY <1>4
  <2>2. \A n \in 0..c : f[n] = IF n = 0 THEN {<<from, 0>>} ELSE next(n, f[n - 1])
    BY <1>1, <1>4, <1>5
  <2>3. f = [n \in 0..c |-> IF n = 0 THEN {<<from, 0>>} ELSE next(n, f[n - 1])]
    BY <2>1, <2>2
  <2> QED  BY <2>3, Zenon DEF next
<1> DEFINE reached == CHOOSE g : g = Body(g)
<1>7. Reached(st, sub, known, from) = reached[c]
  BY Zenon DEF Reached, c
<1>8. reached = Body(reached)
  <2>1. \E g : g = Body(g)
    BY <1>6, Zenon
  <2> QED  BY <2>1, Zenon
<1>9. reached = [n \in 0..c |-> IF n = 0 THEN {<<from, 0>>} ELSE next(n, reached[n - 1])]
  BY <1>8, Zenon DEF next
<1> HIDE DEF reached, step
<1>10. reached[0] = {<<from, 0>>} /\ \A n \in 1..c : reached[n] = next(n, reached[n - 1])
  <2>1. \A n \in 0..c : reached[n] = IF n = 0 THEN {<<from, 0>>} ELSE next(n, reached[n - 1])
    BY <1>9, Zenon
  <2>2. 0 \in 0..c /\ \A n \in 1..c : n \in 0..c /\ n # 0
    BY <1>1
  <2> QED  BY <2>1, <2>2, Zenon
<1>11. PICK path : path[0] = <<from, 0>> /\ path[c] = <<last, cost>> /\ Route(path, st, sub, known)
  BY DEF Reaches, c
<1> DEFINE S == {n \in Nat : n <= c => path[n] \in reached[n]}
<1>12. 0 \in S
  BY <1>10, <1>11
<1>13. ASSUME NEW n \in Nat, n \in S
       PROVE  n + 1 \in S
  <2> SUFFICES ASSUME n + 1 <= c PROVE path[n + 1] \in reached[n + 1]
    OBVIOUS
  <2>1. n + 1 \in 1..c /\ n + 1 - 1 = n /\ path[n] \in reached[n]
    BY <1>1, <1>13
  <2>2. reached[n + 1] = next(n + 1, reached[n])
    BY <1>10, <2>1
  <2>3. IF st[n + 1].name \in Looks THEN path[n + 1] = path[n]
        ELSE \E t \in Leads(TaskAfter(st[n + 1], sub), known, path[n][1]) : path[n + 1] = <<t[1], path[n][2] + t[2]>>
    BY <1>11, <2>1 DEF Route, LeadsOn, c
  <2> DEFINE here == path[n]
             next1 == path[n + 1]
             R == reached[n]
             h == st[n + 1]
  <2>4. here \in R /\ IF h.name \in Looks THEN next1 = here
        ELSE \E t \in Leads(TaskAfter(h, sub), known, here[1]) : next1 = <<t[1], here[2] + t[2]>>
    BY <2>1, <2>3
  <2>5. next(n + 1, R) = IF h.name \in Looks THEN R
          ELSE UNION {{<<to[1], s[2] + to[2]>> : to \in Leads(TaskAfter(h, sub), known, s[1])} : s \in R}
    BY DEF next
  <2> HIDE DEF here, next1, R, h, next
  <2>6. next1 \in next(n + 1, R)
    BY <2>4, <2>5
  <2> QED  BY <2>2, <2>6 DEF next1, R
<1>14. Nat \subseteq S
  <2> HIDE DEF S
  <2> QED  BY <1>12, <1>13, Induction
<1>15. path[c] \in reached[c]
  BY <1>1, <1>14
<1> HIDE DEF S
<1> QED  BY <1>7, <1>11, <1>15

\* A route goes on with one task more.
LEMMA RouteExtended ==
  ASSUME NEW S, NEW s \in Seq(S), NEW path, NEW sub, NEW known, Route(path, s, sub, known), NEW h \in S, NEW next,
         LeadsOn(h, sub, known, path[Len(s)], next)
  PROVE  \E q : /\ q[0] = path[0] /\ q[Len(s \o <<h>>)] = next /\ Route(q, s \o <<h>>, sub, known)
                /\ s \o <<h>> \in Seq(S)
<1> DEFINE c == Len(s)
           r == s \o <<h>>
           q == [n \in 0..(c + 1) |-> IF n <= c THEN path[n] ELSE next]
<1>1. c \in Nat /\ r \in Seq(S) /\ Len(r) = c + 1 /\ r[c + 1] = h /\ \A n \in 1..c : r[n] = s[n]
  OBVIOUS
<1>2. q[c + 1] = next /\ \A n \in 0..c : q[n] = path[n]
  BY <1>1
<1> HIDE DEF q, c, r
<1>3. ASSUME NEW n \in 1..(c + 1)
      PROVE  LeadsOn(r[n], sub, known, q[n - 1], q[n])
  <2>1. CASE n \in 1..c
    <3>1. n \in 0..c /\ n - 1 \in 0..c /\ r[n] = s[n]
      BY <1>1, <2>1
    <3>2. q[n] = path[n] /\ q[n - 1] = path[n - 1]
      BY <1>2, <3>1
    <3>3. LeadsOn(s[n], sub, known, path[n - 1], path[n])
      BY <2>1 DEF Route, c
    <3> QED  BY <3>1, <3>2, <3>3
  <2>2. CASE n = c + 1
    <3>1. r[n] = h /\ n - 1 = c /\ q[n] = next /\ q[n - 1] = path[c]
      BY <1>1, <1>2, <2>2
    <3> QED  BY <3>1 DEF c
  <2> QED  BY <1>1, <2>1, <2>2
<1>4. Route(q, r, sub, known)
  BY <1>1, <1>3 DEF Route
<1>5. q[0] = path[0] /\ q[Len(r)] = next
  BY <1>1, <1>2
<1> QED  BY <1>1, <1>4, <1>5 DEF r

\* Checkers lead nowhere.
LEMMA CheckersReach ==
  ASSUME NEW b, b.subtasks \in Seq(LiftedHead), NEW sub, NEW known, NEW from, NEW last, NEW cost,
         Reaches(b.subtasks, sub, known, from, last, cost)
  PROVE  Reaches(SubtasksWithCheckers(b), sub, known, from, last, cost)
<1> DEFINE st == b.subtasks
           c  == Len(st)
           T  == Seq(LiftedHead)
<1>1. c \in Nat /\ <<>> \in T /\ \A i \in 1..c : st[i] \in LiftedHead
  OBVIOUS
<1>2. PICK path : path[0] = <<from, 0>> /\ path[c] = <<last, cost>> /\ Route(path, st, sub, known)
  BY DEF Reaches
<1> HIDE DEF c
<1>3. PICK after :
        /\ SubtasksWithCheckers(b) = after[c] /\ after[0] = <<>>
        /\ \A i \in 1..c : after[i] = after[i - 1] \o <<st[i]>> \o CheckersAfter(b, i)
  BY CheckersRecursion DEF c
<1> DEFINE Goes(s, i) == s \in T /\ \E q : q[0] = path[0] /\ q[Len(s)] = path[i] /\ Route(q, s, sub, known)
           S == {i \in Nat : i <= c => Goes(after[i], i)}
<1>4. 0 \in S
  <2>1. Route(path, <<>>, sub, known)
    BY DEF Route
  <2>2. Goes(<<>>, 0)
    BY <1>1, <2>1
  <2> HIDE DEF Goes
  <2> QED  BY <1>3, <2>2
<1>5. ASSUME NEW i \in Nat, i \in S
      PROVE  i + 1 \in S
  <2> SUFFICES ASSUME i + 1 <= c PROVE Goes(after[i + 1], i + 1)
    OBVIOUS
  <2> HIDE DEF Goes
  <2>1. i + 1 \in 1..c /\ i + 1 - 1 = i /\ Goes(after[i], i)
    BY <1>1, <1>5
  <2> DEFINE s == after[i]
             h == st[i + 1]
             mid == s \o <<h>>
             more == CheckersAfter(b, i + 1)
  <2>2. after[i + 1] = mid \o more
    <3> DEFINE next(r, j) == r \o <<st[j]>> \o CheckersAfter(b, j)
    <3>1. \A j \in 1..c : after[j] = next(after[j - 1], j)
      BY <1>3
    <3> HIDE DEF next
    <3>2. after[i + 1] = next(after[i], i + 1)
      BY <2>1, <3>1
    <3> QED  BY <3>2 DEF next
  <2>3. s \in T /\ h \in LiftedHead
    BY <1>1, <2>1 DEF Goes
  <2>4. PICK q : q[0] = path[0] /\ q[Len(s)] = path[i] /\ Route(q, s, sub, known)
    BY <2>1 DEF Goes
  <2>5. LeadsOn(h, sub, known, path[i], path[i + 1])
    BY <1>2, <2>1 DEF Route, c
  <2> HIDE DEF s, h
  <2>6. Goes(mid, i + 1)
    <3> HIDE DEF LiftedHead
    <3>1. LeadsOn(h, sub, known, q[Len(s)], path[i + 1])
      BY <2>4, <2>5
    <3>2. PICK r : r[0] = q[0] /\ r[Len(mid)] = path[i + 1] /\ Route(r, mid, sub, known) /\ mid \in Seq(LiftedHead)
      BY <2>3, <2>4, <3>1, RouteExtended
    <3> QED  BY <2>4, <3>2 DEF Goes
  <2> HIDE DEF mid
  <2>7. CASE more = <<>>
    <3>1. mid \o <<>> = mid
      BY <2>6 DEF Goes
    <3> QED  BY <2>2, <2>6, <2>7, <3>1
  <2>8. ASSUME NEW g \in LiftedHead, more = <<g>>, g.name \in CheckNames
        PROVE  Goes(after[i + 1], i + 1)
    <3> DEFINE all == mid \o <<g>>
    <3>1. PICK r : r[0] = path[0] /\ r[Len(mid)] = path[i + 1] /\ Route(r, mid, sub, known)
      BY <2>6 DEF Goes
    <3>2. LeadsOn(g, sub, known, r[Len(mid)], path[i + 1])
      <4>1. g.name \in Looks
        BY <2>8 DEF Looks
      <4> QED  BY <3>1, <4>1 DEF LeadsOn
    <3>3. mid \in Seq(LiftedHead)
      BY <2>6 DEF Goes
    <3> HIDE DEF LiftedHead
    <3>4. PICK u : u[0] = r[0] /\ u[Len(all)] = path[i + 1] /\ Route(u, all, sub, known) /\ all \in Seq(LiftedHead)
      BY <2>8, <3>1, <3>2, <3>3, RouteExtended
    <3>5. Goes(all, i + 1)
      BY <3>1, <3>4 DEF Goes
    <3> HIDE DEF all
    <3>6. after[i + 1] = all
      BY <2>2, <2>8 DEF all
    <3> QED  BY <3>5, <3>6
  <2>9. more = <<>> \/ \E g \in LiftedHead : more = <<g>> /\ g.name \in CheckNames
    BY <2>1, CheckersAfterType DEF c
  <2> QED  BY <2>7, <2>8, <2>9
<1>6. Nat \subseteq S
  <2> HIDE DEF S
  <2> QED  BY <1>4, <1>5, Induction
<1>7. Goes(after[c], c)
  BY <1>1, <1>6
<1> QED  BY <1>2, <1>3, <1>7 DEF Reaches

\* What the pieces of p cost so far, the latest first.
PiecesCost(p, known, spent) ==
  /\ spent \in [0..Len(p.pieces) -> Nat] /\ spent[0] = 0 /\ spent[Len(p.pieces)] = p.cost
  /\ \A j \in 1..Len(p.pieces) :
       /\ p.pieces[j].head.name \notin Looks
       /\ \E t \in Leads(CallOf(p, j), known, p.pieces[j].before) :
            t[1] = p.pieces[j].after /\ spent[j] = spent[j - 1] + t[2]

\* The pieces follow one another, up to the final state.
InOrder(p) ==
  /\ Len(p.pieces) = 0 => p.current \in {p.init, p.final}
  /\ Len(p.pieces) # 0 => p.pieces[1].after = p.final /\ p.current <= p.pieces[Len(p.pieces)].before
  /\ \A j \in 1..(Len(p.pieces) - 1) : p.pieces[j + 1].after <= p.pieces[j].before

\* The subtasks of a method lead where its pieces do.
LEMMA CreatedReaches ==
  ASSUME NEW p, NEW n, PartOK(p, n), NEW known \in Seq(InstType), NEW spent, PiecesCost(p, known, spent), InOrder(p),
         Len(p.pieces) # 0, p.current = p.init, NEW verifier \in Seq(Looks), NEW gen, trace \in Traces
  PROVE  Reaches(CreateMethod(p, verifier, gen).subtasks, p.master, known, p.init, p.final, p.cost)
<1> DEFINE c == Len(p.pieces)
           params == AfterSubstitution(p.task.params, p.taskSub)
           pieces == Reverse(p.pieces)
           subtasks == [i \in 1..Len(pieces) |-> TaskAfter(pieces[i].head, pieces[i].sub)]
           looks == [i \in 1..Len(verifier) |-> [name |-> verifier[i], args |-> params]]
           all == subtasks \o looks
           d == c + Len(verifier)
           at(i) == p.pieces[c - i + 1]
           path == [i \in 0..d |-> IF i = 0 THEN <<p.init, 0>>
                                   ELSE IF i <= c THEN <<at(i).after, p.cost - spent[c - i]>> ELSE <<p.final, p.cost>>]
<1>1. CreateMethod(p, verifier, gen).subtasks = all
  BY DEF CreateMethod
<1>2. /\ p \in PartType /\ Keeps(p, p) /\ (\A i \in 1..Len(p.pieces) : PieceOK(p.pieces[i], p)) /\ p.pieces \in Seq(PieceType)
      /\ c \in Nat /\ c >= 1 /\ p.init \in Nat /\ p.final \in Nat /\ p.cost \in Nat
  BY DEF PartOK, PartType
<1>3. Len(verifier) \in Nat /\ \A i \in 1..Len(verifier) : verifier[i] \in Looks
  OBVIOUS
<1>14. d \in Nat /\ c <= d
  BY <1>2, <1>3
<1>4. Len(pieces) = c /\ \A i \in 1..c : c - i + 1 \in 1..c /\ pieces[i] = at(i)
  BY <1>2 DEF Reverse
<1> HIDE DEF params, pieces
<1>5. /\ Len(all) = d /\ d \in Nat
      /\ \A i \in 1..c : all[i] = TaskAfter(at(i).head, at(i).sub)
      /\ \A i \in 1..d : i > c => all[i].name \in Looks
  <2>1. Len(subtasks) = c /\ \A i \in 1..c : subtasks[i] = TaskAfter(at(i).head, at(i).sub)
    BY <1>2, <1>4
  <2>2. Len(looks) = Len(verifier) /\ \A i \in 1..Len(verifier) : looks[i].name \in Looks
    BY <1>3
  <2>3. subtasks \in Seq(Range(subtasks) \cup Range(looks)) /\ looks \in Seq(Range(subtasks) \cup Range(looks))
    <3>1. DOMAIN subtasks = 1..c /\ DOMAIN looks = 1..Len(verifier)
      BY <1>4
    <3>2. subtasks = [i \in 1..c |-> subtasks[i]] /\ looks = [i \in 1..Len(verifier) |-> looks[i]]
      BY <1>4
    <3>3. (\A i \in 1..c : subtasks[i] \in Range(subtasks)) /\ \A i \in 1..Len(verifier) : looks[i] \in Range(looks)
      BY <3>1 DEF Range
    <3> HIDE DEF subtasks, looks
    <3> QED  BY <1>2, <1>3, <3>2, <3>3, SequenceFrom
  <2> HIDE DEF subtasks, looks
  <2>4. /\ Len(all) = Len(subtasks) + Len(looks)
        /\ \A i \in 1..Len(subtasks) + Len(looks) :
             all[i] = IF i <= Len(subtasks) THEN subtasks[i] ELSE looks[i - Len(subtasks)]
    BY <2>3, ConcatProperties, Zenon
  <2>5. \A i \in 1..c : all[i] = subtasks[i]
    BY <1>2, <1>3, <2>1, <2>2, <2>4
  <2>6. \A i \in 1..d : i > c => all[i] = looks[i - c] /\ i - c \in 1..Len(verifier)
    BY <1>2, <1>3, <2>1, <2>2, <2>4
  <2> QED  BY <1>2, <1>3, <2>1, <2>2, <2>4, <2>5, <2>6
<1>6. /\ path[0] = <<p.init, 0>>
      /\ \A i \in 1..c : path[i] = <<at(i).after, p.cost - spent[c - i]>>
      /\ \A i \in 1..d : i > c => path[i] = <<p.final, p.cost>>
  <2> HIDE DEF d, c, at
  <2>1. path[0] = <<p.init, 0>>
    BY <1>14
  <2>2. ASSUME NEW i \in 1..c
        PROVE  path[i] = <<at(i).after, p.cost - spent[c - i]>>
    BY <1>2, <1>14
  <2>3. ASSUME NEW i \in 1..d, i > c
        PROVE  path[i] = <<p.final, p.cost>>
    BY <1>2, <1>14, <2>3
  <2> QED  BY <2>1, <2>2, <2>3
<1> HIDE DEF all, path, subtasks, looks
<1>7. spent \in [0..c -> Nat] /\ spent[0] = 0 /\ spent[c] = p.cost
  BY DEF PiecesCost
<1>8. path[c] = <<p.final, p.cost>>
  <2>1. at(c) = p.pieces[1] /\ c - c = 0 /\ c \in 1..c
    BY <1>2
  <2>2. p.pieces[1].after = p.final
    BY DEF InOrder
  <2>3. path[c] = <<at(c).after, p.cost - spent[c - c]>>
    BY <1>6, <2>1
  <2>4. p.cost - spent[c - c] = p.cost
    BY <1>2, <1>7, <2>1
  <2> HIDE DEF c
  <2> QED  BY <2>1, <2>2, <2>3, <2>4
<1>9. path[d] = <<p.final, p.cost>>
  <2> HIDE DEF d, c
  <2>1. d = c \/ (d \in 1..d /\ d > c)
    BY <1>2, <1>14
  <2> QED  BY <1>6, <1>8, <2>1
<1>10. ASSUME NEW i \in 1..c
       PROVE  LeadsOn(all[i], p.master, known, path[i - 1], path[i])
  <2> DEFINE j == c - i + 1
  <2>1. j \in 1..c /\ j - 1 = c - i /\ at(i) = p.pieces[j] /\ j - 1 \in 0..c /\ j \in 0..c
    <3>1. at(i) = p.pieces[j]
      OBVIOUS
    <3> HIDE DEF at
    <3>2. j \in 1..c /\ j - 1 = c - i /\ j - 1 \in 0..c /\ j \in 0..c
      <4>1. c \in Nat
        BY <1>2
      <4> HIDE DEF c
      <4> QED  BY <4>1
    <3> QED  BY <3>1, <3>2
  <2> DEFINE piece == p.pieces[j]
             h == TaskAfter(piece.head, piece.sub)
  <2>2. /\ all[i] = h /\ h.name = piece.head.name /\ h.args \in Seq(DOMAIN p.master)
        /\ piece.head.args \in Seq(DOMAIN piece.sub) /\ Into(piece.sub, DOMAIN p.master)
    <3>1. all[i] = h
      BY <1>5, <2>1
    <3>2. h.args \in Seq(DOMAIN p.master)
      BY <2>1, SubtaskOfPiece
    <3>3. PieceOK(piece, p) /\ Same(piece.sub, p.master, piece.sub, p.master)
      BY <1>2, <2>1 DEF Keeps
    <3> QED  BY <3>1, <3>2, <3>3 DEF PieceOK, Same, Into, TaskAfter
  <2>3. TaskAfter(h, p.master) = CallOf(p, j)
    BY <2>2, HeadComposed DEF CallOf
  <2>4. PICK t \in Leads(CallOf(p, j), known, piece.before) : t[1] = piece.after /\ spent[j] = spent[j - 1] + t[2]
    BY <2>1 DEF PiecesCost
  <2>5. piece.head.name \notin Looks
    BY <2>1 DEF PiecesCost
  <2>6. piece \in PieceType /\ piece.before \in Nat /\ spent[j] \in Nat /\ spent[j - 1] \in Nat
    <3>1. piece \in PieceType
      BY <1>2, <2>1
    <3>2. spent[j] \in Nat /\ spent[j - 1] \in Nat
      <4> HIDE DEF c, j
      <4> QED  BY <1>7, <2>1
    <3> HIDE DEF piece
    <3> QED  BY <3>1, <3>2 DEF PieceType
  <2>7. t \in Nat \X Nat
    BY <2>4, <2>6, LeadsType
  <2> HIDE DEF h, piece, j
  <2>8. /\ path[i - 1][1] \in Nat /\ path[i - 1][1] <= piece.before /\ path[i - 1][2] = p.cost - spent[j]
    <3>1. CASE i = 1
      <4>1. j = c /\ path[i - 1] = <<p.init, 0>>
        BY <1>2, <1>6, <3>1 DEF j
      <4>2. p.init <= p.pieces[c].before
        BY DEF InOrder
      <4> QED  BY <1>2, <1>7, <4>1, <4>2 DEF piece
    <3>2. CASE i # 1
      <4>1. i - 1 \in 1..c /\ c - (i - 1) + 1 = j + 1 /\ c - (i - 1) = j /\ j \in 1..(c - 1) /\ j + 1 \in 1..c
        BY <1>2, <3>2 DEF j
      <4>2. path[i - 1] = <<p.pieces[j + 1].after, p.cost - spent[j]>>
        BY <1>6, <4>1
      <4>3. p.pieces[j + 1].after <= piece.before
        BY <4>1 DEF InOrder, piece
      <4>4. p.pieces[j + 1] \in PieceType
        BY <1>2, <4>1
      <4> QED  BY <4>2, <4>3, <4>4 DEF PieceType
    <3> QED  BY <3>1, <3>2
  <2>9. t \in Leads(CallOf(p, j), known, path[i - 1][1])
    BY <2>4, <2>6, <2>8, LeadsFromEarlier
  <2>10. path[i] = <<piece.after, p.cost - spent[j - 1]>>
    BY <1>6, <2>1 DEF piece
  <2>11. path[i] = <<t[1], path[i - 1][2] + t[2]>>
    <3>1. p.cost - spent[j - 1] = path[i - 1][2] + t[2]
      BY <1>2, <2>4, <2>6, <2>7, <2>8
    <3> QED  BY <2>4, <2>10, <3>1
  <2> QED  BY <2>2, <2>3, <2>5, <2>9, <2>11 DEF LeadsOn
<1>11. ASSUME NEW i \in 1..d, i > c
       PROVE  LeadsOn(all[i], p.master, known, path[i - 1], path[i])
  <2>1. i - 1 = c \/ (i - 1 \in 1..d /\ i - 1 > c)
    BY <1>2, <1>3, <1>11
  <2>2. all[i].name \in Looks /\ path[i] = path[i - 1]
    BY <1>5, <1>6, <1>8, <1>11, <2>1
  <2> QED  BY <2>2 DEF LeadsOn
<1>12. Route(path, all, p.master, known)
  <2>1. \A i \in 1..d : i \in 1..c \/ i > c
    BY <1>2
  <2> HIDE DEF c, d
  <2> QED  BY <1>5, <1>10, <1>11, <2>1 DEF Route
<1> HIDE DEF d
<1>13. Reaches(all, p.master, known, p.init, p.final, p.cost)
  BY <1>5, <1>6, <1>9, <1>12 DEF Reaches
<1> QED  BY <1>1, <1>13

----------------------------------------------------------------------------
(* What annotations consist of                                             *)

\* The subtasks of annotation x lead from its first state to its last, and with
\* --qvalues at its cost.
Decomposed(x, known) ==
  \E c \in Nat : Reaches(x.method.subtasks, x.sub, known, x.before, x.after, c) /\ (flags.qvalues => x.cost = c)

\* They are steps and earlier annotations.
AllDecomposed(is) ==
  \A i \in 1..Len(is) : is[i].method.name \notin Looks /\ Decomposed(is[i], SubSeq(is, 1, i - 1))

Assembled(p, known) == (\E spent : PiecesCost(p, known, spent)) /\ InOrder(p)

\* The pieces of the partial method lead from where it has come to to its final state.
DecomposeInv ==
  Regressed =>
    /\ AllDecomposed(insts)
    /\ pc = "regress" => Assembled(part, insts) /\ (helped => Len(part.pieces) # 0)

LEMMA LeadsKept ==
  ASSUME UNCHANGED <<flags, trace>>
  PROVE  /\ \A is : AllDecomposed(is)' = AllDecomposed(is)
         /\ \A p, known : Assembled(p, known)' = Assembled(p, known)
<1>1. \A h, known, from : Leads(h, known, from)' = Leads(h, known, from)
  BY DEF Leads, OperatorAt, SubAt
<1>2. \A h, sub, known, here, next : LeadsOn(h, sub, known, here, next)' = LeadsOn(h, sub, known, here, next)
  BY <1>1 DEF LeadsOn
<1>3. \A path, st, sub, known : Route(path, st, sub, known)' = Route(path, st, sub, known)
  BY <1>2 DEF Route
<1>4. \A st, sub, known, from, last, cost :
        Reaches(st, sub, known, from, last, cost)' = Reaches(st, sub, known, from, last, cost)
  BY <1>3 DEF Reaches
<1>5. \A x, known : Decomposed(x, known)' = Decomposed(x, known)
  BY <1>4 DEF Decomposed
<1>6. \A p, known, spent : PiecesCost(p, known, spent)' = PiecesCost(p, known, spent)
  <2> TAKE p, known, spent
  <2>1. \A j : Leads(CallOf(p, j), known, p.pieces[j].before)' = Leads(CallOf(p, j), known, p.pieces[j].before)
    BY <1>1
  <2>2. \A j : (\E t \in Leads(CallOf(p, j), known, p.pieces[j].before) :
                   t[1] = p.pieces[j].after /\ spent[j] = spent[j - 1] + t[2])'
                <=> \E t \in Leads(CallOf(p, j), known, p.pieces[j].before) :
                      t[1] = p.pieces[j].after /\ spent[j] = spent[j - 1] + t[2]
    BY <2>1, Zenon
  <2> QED  BY <2>2, Zenon DEF PiecesCost
<1> QED  BY <1>5, <1>6 DEF AllDecomposed, Assembled, InOrder

\* No piece is added.
LEMMA QuietDecomposition ==
  ASSUME DecomposeInv, UNCHANGED <<flags, trace, insts>>,
         pc' = "regress" /\ Regressed => Assembled(part', insts) /\ (helped' => Len(part'.pieces) # 0)
  PROVE  DecomposeInv'
<1>1. Regressed' = Regressed
  BY DEF Regressed
<1>2. AllDecomposed(insts)' = AllDecomposed(insts) /\ Assembled(part, insts)' = Assembled(part', insts)
  BY LeadsKept
<1> QED  BY <1>1, <1>2 DEF DecomposeInv

\* A step is left out, or all are.
LEMMA AdvanceAssembles ==
  ASSUME NEW p, NEW n, PartOK(p, n), p.current > p.init, NEW known, Assembled(p, known), NEW q,
         q = [p EXCEPT !.current = IF @ = p.final THEN p.init ELSE @ - 1]
  PROVE  Assembled(q, known)
<1>1. /\ p \in PartType /\ p.pieces \in Seq(PieceType) /\ p.init \in Nat /\ p.final \in Nat /\ p.current \in Nat
      /\ p.current <= p.final /\ \A i \in 1..Len(p.pieces) : PieceOK(p.pieces[i], p)
  BY DEF PartOK, PartType
<1>2. /\ q.pieces = p.pieces /\ q.cost = p.cost /\ q.master = p.master /\ q.init = p.init /\ q.final = p.final
      /\ q.current = IF p.current = p.final THEN p.init ELSE p.current - 1
  BY <1>1 DEF PartType
<1>3. \A spent : PiecesCost(q, known, spent) <=> PiecesCost(p, known, spent)
  BY <1>2 DEF PiecesCost, CallOf
<1>4. CASE Len(p.pieces) = 0
  <2>1. p.current \in {p.init, p.final}
    BY <1>4 DEF Assembled, InOrder
  <2>2. q.current = q.init
    BY <1>1, <1>2, <2>1
  <2>3. InOrder(q)
    BY <1>2, <1>4, <2>2 DEF InOrder
  <2> QED  BY <1>3, <2>3 DEF Assembled
<1>5. CASE Len(p.pieces) # 0
  <2> DEFINE last == p.pieces[Len(p.pieces)]
  <2>1. Len(p.pieces) \in 1..Len(p.pieces)
    BY <1>1, <1>5
  <2>2. last \in PieceType /\ PieceOK(last, p) /\ p.current <= last.before
    BY <1>1, <1>5, <2>1 DEF Assembled, InOrder
  <2> HIDE DEF last
  <2>3. q.current <= last.before
    BY <1>1, <1>2, <2>2 DEF PieceOK, PieceType
  <2> QED  BY <1>2, <1>3, <1>5, <2>3 DEF Assembled, InOrder, last
<1> QED  BY <1>3, <1>4, <1>5 DEF Assembled

\* A step or an annotation is added that leads to where the partial method is.
LEMMA CallAssembles ==
  ASSUME NEW p, NEW n, PartOK(p, n), NEW q, NEW n2, PartOK(q, n2), p.current > p.init,
         NEW head, NEW precs, NEW effects, NEW real, CallOK(head, precs, effects, real), head.name \notin Looks,
         NEW before, NEW cost \in Nat, WithCall(q, p, head, precs, effects, real, before, cost),
         NEW known, Assembled(p, known), <<p.current, cost>> \in Leads(TaskAfter(head, real), known, before)
  PROVE  Assembled(q, known) /\ Len(q.pieces) # 0
<1> DEFINE c == Len(p.pieces)
<1>1. /\ Len(q.pieces) = c + 1 /\ c \in Nat /\ p.cost \in Nat /\ q.cost = p.cost + cost /\ q.cost \in Nat
      /\ q.init = p.init /\ q.final = p.final /\ q.current = before /\ p.init \in Nat /\ p.current \in Nat
      /\ before \in Nat
  BY DEF WithCall, Follows, PartOK, PartType
<1>2. /\ Follows(q, p) /\ q.pieces[c + 1].head = head /\ q.pieces[c + 1].before = before
      /\ q.pieces[c + 1].after = p.current /\ StandsFor(q.pieces[c + 1].sub, q, real)
  BY <1>1 DEF WithCall
<1>3. PICK spent : PiecesCost(p, known, spent)
  BY DEF Assembled
<1> HIDE DEF c
<1> DEFINE more == [j \in 0..(c + 1) |-> IF j <= c THEN spent[j] ELSE q.cost]
<1>4. more \in [0..(c + 1) -> Nat] /\ more[c + 1] = q.cost /\ more[0] = 0 /\ \A j \in 0..c : more[j] = spent[j]
  <2>1. spent \in [0..c -> Nat] /\ spent[0] = 0
    BY <1>3 DEF PiecesCost, c
  <2> QED  BY <1>1, <2>1
<1> HIDE DEF more
<1>5. ASSUME NEW j \in 1..(c + 1)
      PROVE  /\ q.pieces[j].head.name \notin Looks
             /\ \E t \in Leads(CallOf(q, j), known, q.pieces[j].before) :
                  t[1] = q.pieces[j].after /\ more[j] = more[j - 1] + t[2]
  <2>1. CASE j \in 1..c
    <3>1. j \in 1..Len(p.pieces) /\ j \in 0..c /\ j - 1 \in 0..c
      BY <1>1, <2>1 DEF c
    <3>2. CallOf(q, j) = CallOf(p, j)
      BY <1>2, <3>1, CallsKept
    <3>3. /\ q.pieces[j].head = p.pieces[j].head /\ q.pieces[j].before = p.pieces[j].before
          /\ q.pieces[j].after = p.pieces[j].after
      BY <1>2, <3>1 DEF Follows
    <3>4. more[j] = spent[j] /\ more[j - 1] = spent[j - 1]
      BY <1>4, <3>1
    <3>5. /\ p.pieces[j].head.name \notin Looks
          /\ \E t \in Leads(CallOf(p, j), known, p.pieces[j].before) :
               t[1] = p.pieces[j].after /\ spent[j] = spent[j - 1] + t[2]
      BY <1>3, <3>1 DEF PiecesCost
    <3> QED  BY <3>2, <3>3, <3>4, <3>5
  <2>2. CASE j = c + 1
    <3>1. Composed(q.pieces[j].sub, q.master) = real
      <4>1. real = [v \in DOMAIN real |-> real[v]]
        BY SubstFacts DEF CallOK
      <4> QED  BY <1>2, <2>2, <4>1 DEF Composed, StandsFor
    <3>2. CallOf(q, j) = TaskAfter(head, real)
      BY <1>2, <2>2, <3>1 DEF CallOf
    <3>3. more[j - 1] = p.cost
      <4>1. j - 1 = c /\ c \in 0..c
        BY <1>1, <2>2
      <4>2. spent[c] = p.cost
        BY <1>3 DEF PiecesCost, c
      <4> QED  BY <1>4, <4>1, <4>2
    <3>4. more[j] = more[j - 1] + cost
      BY <1>1, <1>4, <2>2, <3>3
    <3> DEFINE t == <<p.current, cost>>
    <3>5. t \in Leads(CallOf(q, j), known, q.pieces[j].before) /\ t[1] = q.pieces[j].after /\ t[2] = cost
      BY <1>2, <2>2, <3>2
    <3> HIDE DEF t
    <3> QED  BY <1>2, <2>2, <3>4, <3>5
  <2> QED  BY <1>1, <2>1, <2>2
<1>6. PiecesCost(q, known, more)
  BY <1>1, <1>4, <1>5 DEF PiecesCost
<1>7. \A j \in 1..c : q.pieces[j].before = p.pieces[j].before /\ q.pieces[j].after = p.pieces[j].after
  BY <1>2 DEF Follows, c
<1>8. InOrder(q)
  <2>1. InOrder(p)
    BY DEF Assembled
  <2>2. CASE c = 0
    <3>1. p.current = p.final
      BY <1>1, <2>1, <2>2 DEF InOrder, c
    <3> QED  BY <1>1, <1>2, <2>2, <3>1 DEF InOrder
  <2>3. CASE c # 0
    <3>1. /\ p.pieces[1].after = p.final /\ p.current <= p.pieces[c].before
          /\ \A j \in 1..(c - 1) : p.pieces[j + 1].after <= p.pieces[j].before
      BY <2>1, <2>3 DEF InOrder, c
    <3>2. q.pieces[1].after = q.final
      BY <1>1, <1>7, <2>3, <3>1
    <3>3. ASSUME NEW j \in 1..c
          PROVE  q.pieces[j + 1].after <= q.pieces[j].before
      <4>1. CASE j \in 1..(c - 1)
        <5>1. j + 1 \in 1..c /\ j \in 1..c
          BY <1>1, <4>1
        <5> QED  BY <1>7, <3>1, <4>1, <5>1
      <4>2. CASE j = c
        BY <1>2, <1>7, <3>1, <4>2
      <4> QED  BY <1>1, <4>1, <4>2
    <3> QED  BY <1>1, <1>2, <3>2, <3>3 DEF InOrder
  <2> QED  BY <2>2, <2>3
<1> QED  BY <1>1, <1>6, <1>8 DEF Assembled

\* Renaming the variables of a method leaves the constants that its tasks are over.
LEMMA ReachesRenamed ==
  ASSUME NEW b \in AnyBody, NEW sub \in Subst(Object), NEW change, DOMAIN change = DOMAIN sub,
         Into(change, Variable), IsInjective(change),
         NEW known, NEW from, NEW last, NEW cost, Reaches(b.subtasks, sub, known, from, last, cost)
  PROVE  Reaches(MethodAfter(b, change).subtasks, ValuesOf(change, sub), known, from, last, cost)
<1> DEFINE new == ValuesOf(change, sub)
           st  == b.subtasks
           re  == MethodAfter(b, change).subtasks
<1>1. Into(change, DOMAIN new) /\ Composed(change, new) = sub
  BY RenamedSubstitution
<1>2. Len(re) = Len(st) /\ \A i \in 1..Len(st) : re[i] = TaskAfter(st[i], change)
  BY MethodAfterFields
<1>3. PICK path : path[0] = <<from, 0>> /\ path[Len(st)] = <<last, cost>> /\ Route(path, st, sub, known)
  BY DEF Reaches
<1> HIDE DEF new, re, st
<1>4. ASSUME NEW i \in 1..Len(st)
      PROVE  LeadsOn(re[i], new, known, path[i - 1], path[i])
  <2> DEFINE h == st[i]
             here == path[i - 1]
             next == path[i]
  <2>1. LeadsOn(h, sub, known, here, next)
    BY <1>3 DEF Route
  <2>2. re[i] = TaskAfter(h, change) /\ TaskAfter(h, change).name = h.name
        /\ TaskAfter(h, change).args = AfterSubstitution(h.args, change)
    BY <1>2 DEF TaskAfter
  <2> HIDE DEF h, here, next
  <2>3. CASE h.name \in Looks
    BY <2>1, <2>2, <2>3 DEF LeadsOn, here, next
  <2>4. CASE h.name \notin Looks
    <3>1. h.args \in Seq(DOMAIN change)
      BY <2>1, <2>4 DEF LeadsOn
    <3>2. AfterSubstitution(h.args, change) \in Seq(DOMAIN new)
      BY <1>1, <3>1, ArgsType
    <3>3. TaskAfter(TaskAfter(h, change), new) = TaskAfter(h, sub)
      BY <1>1, <3>1, HeadComposed
    <3> QED  BY <2>1, <2>2, <2>4, <3>2, <3>3 DEF LeadsOn, here, next
  <2> QED  BY <2>3, <2>4
<1>5. Route(path, re, new, known)
  BY <1>2, <1>4 DEF Route
<1> QED  BY <1>2, <1>3, <1>5 DEF Reaches, new, re

\* An annotation is added whose method leads through it.
LEMMA AnnotationDecomposes ==
  ASSUME FreshNames, made \in Nat, insts \in Seq(InstType), AllDecomposed(insts),
         NEW body, NEW sub, Bound(body, sub), body.name \notin Looks,
         NEW before, NEW task, NEW effects, NEW cost, AddMethodInst(body, sub, before, task, effects, cost),
         NEW c \in Nat, Reaches(body.subtasks, sub, insts, before, final, c), flags.qvalues => cost = c
  PROVE  AllDecomposed(insts')
<1> DEFINE change == NewVars(DOMAIN sub, made)
           new    == ValuesOf(change, sub)
           b      == MethodAfter(body, change)
           descr  == DescrAfter(task, change)
           effs   == FormulaAfter(effects, change)
           x      == [method |-> b, before |-> before, after |-> final, cost |-> cost,
                      sub |-> new, task |-> descr, effects |-> effs]
           n      == Len(insts)
<1>1. body \in AnyBody /\ sub \in Subst(Object) /\ IsFiniteSet(DOMAIN sub)
  BY DEF Bound, Usable
<1>2. insts' = Append(insts, x)
  BY DEF AddMethodInst, ValuesOf
<1>3. DOMAIN change = DOMAIN sub /\ IsInjective(change) /\ Into(change, Variable)
  BY <1>1, NewVarsFacts DEF Into
<1> HIDE DEF change
<1>4. b.name = body.name
  BY <1>1, <1>3, MethodAfterFields
<1>5. Reaches(b.subtasks, new, insts, before, final, c)
  BY <1>1, <1>3, ReachesRenamed
<1> HIDE DEF b, new, descr, effs
<1>6. x.method = b /\ x.sub = new /\ x.before = before /\ x.after = final /\ x.cost = cost
  OBVIOUS
<1> HIDE DEF x
<1>7. Decomposed(x, insts) /\ x.method.name \notin Looks
  BY <1>4, <1>5, <1>6 DEF Decomposed
<1>8. /\ n \in Nat /\ Len(insts') = n + 1 /\ insts'[n + 1] = x
      /\ \A i \in 1..n : insts'[i] = insts[i]
  BY <1>2
<1>9. \A i \in 1..(n + 1) : SubSeq(insts', 1, i - 1) = SubSeq(insts, 1, i - 1)
  <2>1. ASSUME NEW i \in 1..(n + 1)
        PROVE  SubSeq(insts', 1, i - 1) = SubSeq(insts, 1, i - 1)
    <3>1. \A j \in 1..(i - 1) : insts'[j] = insts[j]
      BY <1>8
    <3> QED  BY <1>8, <3>1
  <2> QED  BY <2>1
<1>10. SubSeq(insts, 1, n) = insts
  BY <1>8
<1>11. ASSUME NEW i \in 1..(n + 1)
       PROVE  insts'[i].method.name \notin Looks /\ Decomposed(insts'[i], SubSeq(insts', 1, i - 1))
  <2>1. CASE i \in 1..n
    BY <1>8, <1>9, <2>1 DEF AllDecomposed
  <2>2. CASE i = n + 1
    <3>1. i - 1 = n
      BY <1>8, <2>2
    <3> QED  BY <1>7, <1>8, <1>9, <1>10, <2>2, <3>1
  <2> QED  BY <1>8, <2>1, <2>2
<1> QED  BY <1>8, <1>11 DEF AllDecomposed

LEMMA SquelchOrDropDecomposes ==
  ASSUME Squelch \/ Drop
  PROVE  DecomposeInv'
<1>1. flags' = flags /\ ~Regressed
  BY DEF Squelch, Drop, Regressed
<1> QED  BY <1>1 DEF DecomposeInv, Regressed

LEMMA BeginDecomposes ==
  ASSUME FreshNames, IInv, IInv', DecomposeInv, Begin
  PROVE  DecomposeInv'
<1>1. /\ UNCHANGED <<flags, trace, insts>> /\ helped' = FALSE
      /\ part' = [NewPartial(todo[k].task, todo[k].ground, NewVars(DOMAIN todo[k].ground, made), final) EXCEPT !.init = init]
  BY DEF Begin
<1>2. part'.pieces = <<>> /\ part'.cost = 0 /\ part'.current = final /\ part'.final = final
  BY <1>1 DEF NewPartial
<1>3. Len(part'.pieces) = 0 /\ 1..Len(part'.pieces) = {} /\ 1..(Len(part'.pieces) - 1) = {}
  BY <1>2
<1>4. Assembled(part', insts)
  <2> DEFINE spent == [j \in {0} |-> 0]
  <2>1. spent \in [0..0 -> Nat] /\ spent[0] = 0
    OBVIOUS
  <2> HIDE DEF spent
  <2>2. PiecesCost(part', insts, spent)
    BY <1>2, <1>3, <2>1 DEF PiecesCost
  <2>3. InOrder(part')
    BY <1>2, <1>3 DEF InOrder
  <2> QED  BY <2>2, <2>3 DEF Assembled
<1> QED  BY <1>1, <1>4, QuietDecomposition

LEMMA AdvanceDecomposes ==
  ASSUME IInv, DecomposeInv, Advance
  PROVE  DecomposeInv'
<1>1. /\ UNCHANGED <<flags, trace, insts, pc>> /\ pc \in {"regress", "check"} /\ part.current > init /\ helped' = FALSE
      /\ part' = [part EXCEPT !.current = IF @ = part.final THEN init ELSE @ - 1]
  BY DEF Advance, At
<1>2. PartOK(part, made) /\ part.init = init
  BY <1>1 DEF IInv, TypeInv, PartialOK
<1>3. ASSUME pc = "regress", Regressed
      PROVE  Assembled(part', insts)
  <2>1. Assembled(part, insts)
    BY <1>3 DEF DecomposeInv
  <2> QED  BY <1>1, <1>2, <2>1, AdvanceAssembles
<1> QED  BY <1>1, <1>3, QuietDecomposition

\* AddPiece adds what leads to where the partial method is.
LEMMA AddPieceDecomposes ==
  ASSUME FreshNames, IInv, DecomposeInv, pc = "regress", part.current > init, UNCHANGED <<flags, trace, insts>>,
         NEW head, NEW precs, NEW effects, NEW real, CallOK(head, precs, effects, real), head.name \notin Looks,
         NEW before \in Nat, init <= before, before < part.current, NEW cost \in Nat,
         AddPiece(head, precs, effects, real, before, cost),
         <<part.current, cost>> \in Leads(TaskAfter(head, real), insts, before)
  PROVE  DecomposeInv'
<1>1. PartOK(part, made) /\ part.init = init /\ made \in Nat
  BY DEF IInv, TypeInv, PartialOK, InstsOK
<1>2. \/ pc' \in {"overlap", "substitution recurses"}
      \/ PartOK(part', made') /\ WithCall(part', part, head, precs, effects, real, before, cost)
  BY <1>1, AddPieceFacts
<1>3. ASSUME pc' = "regress", Regressed
      PROVE  Assembled(part', insts) /\ Len(part'.pieces) # 0
  <2>1. Assembled(part, insts)
    BY <1>3 DEF DecomposeInv
  <2>2. PartOK(part', made') /\ WithCall(part', part, head, precs, effects, real, before, cost)
    BY <1>2, <1>3
  <2> QED  BY <1>1, <2>1, <2>2, CallAssembles
<1> QED  BY <1>3, QuietDecomposition

LEMMA AddMethodDecomposes ==
  ASSUME FreshNames, IInv, DecomposeInv, AddMethod
  PROVE  DecomposeInv'
<1> DEFINE B == BestMethod
           x == insts[B]
           effects == IF flags.only_task_effects THEN x.task.effects ELSE x.effects
           head == HeadOf(x.method)
           precs == x.method.precs
           real == x.sub
           before == x.before
           cost == x.cost
<1>1. /\ pc = "regress" /\ part.current > init /\ Candidates # {}
      /\ AddPiece(head, precs, effects, real, before, cost) /\ UNCHANGED <<flags, trace, insts>>
  BY DEF AddMethod, At
<1>2. insts \in Seq(InstType) /\ (\A j \in 1..Len(insts) : InstOK(insts[j])) /\ init \in Nat
  <2>1. LoopsOK /\ InstsOK
    BY DEF IInv, TypeInv
  <2>2. trace \in Traces /\ final \in 0..Len(trace.steps) /\ init \in 0..final
    BY <2>1 DEF LoopsOK
  <2> QED  BY <2>1, <2>2, TraceType DEF InstsOK
<1>3. B \in 1..Len(insts) /\ x.after = part.current /\ init <= before
  <2>1. B \in Candidates
    BY <1>1, <1>2, BestMethodFacts
  <2>2. B \in 1..Len(insts) /\ x.after = part.current /\ x.before >= init + (IF flags.force_ops_first THEN 1 ELSE 0)
    BY <2>1 DEF Candidates
  <2>3. x.before \in Nat
    BY <1>2, <2>2 DEF InstOK, InstType
  <2> QED  BY <1>2, <2>2, <2>3
<1>4. InstOK(x) /\ effects \in SUBSET Over(Variable)
  <2>1. InstOK(x)
    BY <1>2, <1>3
  <2>2. x.task.effects \in SUBSET Over(Variable) /\ x.effects \in SUBSET Over(Variable)
    BY <2>1 DEF InstOK, InstType, TaskType
  <2> QED  BY <2>1, <2>2
<1> HIDE DEF effects, B
<1>5. CallOK(head, precs, effects, real) /\ before \in Nat /\ cost \in Nat /\ before < part.current
  <2>1. CallOK(HeadOf(x.method), x.method.precs, effects, x.sub) /\ x.before \in Nat /\ x.cost \in Nat
    <3> HIDE DEF x
    <3> QED  BY <1>4, AnnotationCall
  <2> QED  BY <1>3, <1>4, <2>1 DEF InstOK
<1>6. <<part.current, cost>> \in Leads(TaskAfter(head, real), insts, before)
  BY <1>3, <1>5, AnnotationLeads
<1>7. Regressed => head.name \notin Looks
  BY <1>3 DEF DecomposeInv, AllDecomposed, HeadOf
<1> HIDE DEF x, head, precs, real, before, cost
<1>8. CASE Regressed
  BY <1>1, <1>3, <1>5, <1>6, <1>7, <1>8, AddPieceDecomposes
<1>9. CASE ~Regressed
  BY <1>1, <1>9 DEF DecomposeInv, Regressed
<1> QED  BY <1>8, <1>9

LEMMA AddOperatorDecomposes ==
  ASSUME FreshNames, IInv, DecomposeInv, AddOperator
  PROVE  DecomposeInv'
<1> DEFINE x == part.current
           o == OperatorAt(x)
           head == [name |-> o.name, args |-> o.params]
           real == SubAt(x)
           before == x - 1
<1>1. /\ pc \in {"regress", "check"} /\ x > init /\ UNCHANGED <<flags, trace, insts>>
      /\ AddPiece(head, o.precs, o.effects, real, before, o.cost)
  BY DEF AddOperator, At
<1>2. CASE pc = "check"
  <2>1. pc' # "regress"
    BY <1>1, <1>2 DEF AddPiece
  <2> QED  BY <1>1, <2>1, QuietDecomposition
<1>3. CASE pc = "regress"
  <2>1. LoopsOK /\ PartOK(part, made) /\ part.init = init /\ part.final <= Len(trace.steps)
    BY <1>3 DEF IInv, TypeInv, PartialOK
  <2>2. trace \in Traces /\ init \in Nat /\ x \in Nat /\ part.final \in Nat /\ x <= part.final
    BY <2>1 DEF LoopsOK, PartOK, PartType
  <2>3. x \in 1..Len(trace.steps) /\ before \in Nat /\ init <= before /\ before < x
    BY <1>1, <2>1, <2>2, TraceType
  <2>4. CallOK(head, o.precs, o.effects, real) /\ o \in OperatorType
    BY <2>2, <2>3, TraceFacts
  <2>5. o.cost \in Nat /\ head.name \notin Looks
    <3>1. Looks \subseteq Compound
      <4>1. \A i \in 1..Len(Tasks) : VerifierOf[Tasks[i].name] \in Compound
        BY TaskFacts
      <4>2. CheckNames \subseteq Compound
        BY CheckerAssumption DEF CheckNames
      <4> QED  BY <4>1, <4>2 DEF Looks
    <3>2. o.cost \in Nat /\ o.name \in Primitive
      BY <2>4 DEF OperatorType
    <3> QED  BY <3>1, <3>2, DomainAssumption
  <2>6. <<x, o.cost>> \in Leads(TaskAfter(head, real), insts, before)
    BY <2>2, <2>3, StepLeads
  <2> DEFINE precs == o.precs
             effects == o.effects
             cost == o.cost
  <2>7. /\ AddPiece(head, precs, effects, real, before, cost) /\ CallOK(head, precs, effects, real)
        /\ cost \in Nat /\ <<part.current, cost>> \in Leads(TaskAfter(head, real), insts, before)
        /\ part.current > init /\ before < part.current
    BY <1>1, <2>3, <2>4, <2>5, <2>6
  <2> HIDE DEF precs, effects, cost, head, real, before, o, x
  <2> QED  BY <1>1, <1>3, <2>3, <2>5, <2>7, AddPieceDecomposes
<1> QED  BY <1>1, <1>2, <1>3

\* The method that was made calls what its pieces are.
LEMMA NewMethodReaches ==
  ASSUME IInv, DecomposeInv, Regressed, pc = "regress", part.current = init, MakesMethod
  PROVE  /\ NewMethod.name \notin Looks
         /\ Reaches(NewMethod.subtasks, part.master, insts, part.init, final, part.cost)
<1>1. /\ PartOK(part, made) /\ part.init = init /\ part.final = final /\ insts \in Seq(InstType) /\ trace \in Traces
      /\ \E j \in 1..Len(Tasks) : part.task = Tasks[j]
  BY DEF IInv, TypeInv, PartialOK, InstsOK, LoopsOK
<1>2. Assembled(part, insts) /\ Len(part.pieces) # 0
  BY DEF DecomposeInv, MakesMethod
<1>3. PICK spent : PiecesCost(part, insts, spent)
  BY <1>2 DEF Assembled
<1>4. PICK verifier \in Seq(Looks) :
        LET b == CreateMethod(part, verifier, flags.partial_generalization)
        IN  MadeOf(b, part) /\ NewMethod = IF flags.nd_checkers THEN WithNdCheckers(b) ELSE b
  BY NewMethodSubtasks DEF IInv, TypeInv
<1> DEFINE b == CreateMethod(part, verifier, flags.partial_generalization)
<1>5. MadeOf(b, part) /\ NewMethod = IF flags.nd_checkers THEN WithNdCheckers(b) ELSE b
  BY <1>4
<1>6. Reaches(b.subtasks, part.master, insts, part.init, part.final, part.cost)
  BY <1>1, <1>2, <1>3, CreatedReaches DEF Assembled
<1> HIDE DEF b
<1>7. b.name = part.task.name /\ b \in AnyBody /\ b.subtasks \in Seq(LiftedHead)
  BY <1>5 DEF MadeOf, Usable
<1>8. b.name \notin Looks
  BY <1>1, <1>7, LooksAssumption
<1>9. CASE ~flags.nd_checkers
  BY <1>1, <1>5, <1>6, <1>8, <1>9
<1>10. CASE flags.nd_checkers
  <2>1. b.name \notin CheckNames
    BY <1>8 DEF Looks
  <2>2. WithNdCheckers(b).name = b.name /\ WithNdCheckers(b).subtasks = SubtasksWithCheckers(b)
    BY <1>7, <2>1 DEF WithNdCheckers, AnyBody
  <2>3. Reaches(SubtasksWithCheckers(b), part.master, insts, part.init, part.final, part.cost)
    BY <1>6, <1>7, CheckersReach
  <2> QED  BY <1>1, <1>5, <1>8, <1>10, <2>2, <2>3
<1> QED  BY <1>9, <1>10

LEMMA CreateDecomposes ==
  ASSUME FreshNames, IInv, DecomposeInv, Create
  PROVE  DecomposeInv'
<1> DEFINE b == NewMethod
           task == DescrAfter(part.task, part.taskSub)
           effects == ActualEffects(part)
           cost == IF flags.qvalues THEN part.cost ELSE Unrated
           M == part.master
           before == part.init
<1>1. /\ pc = "regress" /\ part.current = init /\ MakesMethod /\ pc' = "pick" /\ trace' = trace
      /\ AddMethodInst(b, M, before, task, effects, cost)
  BY DEF Create, At
<1>2. flags' = flags
  BY DEF Create, Lib!DropSelfLoop, Lib!Offer
<1>3. PartOK(part, made) /\ made \in Nat /\ insts \in Seq(InstType) /\ part.cost \in Nat
  BY <1>1 DEF IInv, TypeInv, PartialOK, InstsOK, PartOK, PartType
<1>4. MadeOf(b, part) /\ b.name \notin CheckNames
  BY <1>1, NewMethodMade DEF IInv
<1>5. Bound(b, M)
  <2> HIDE DEF b
  <2> QED  BY <1>3, <1>4, BoundMaster
<1>6. ASSUME Regressed
      PROVE  AllDecomposed(insts')
  <2>1. b.name \notin Looks /\ Reaches(b.subtasks, M, insts, before, final, part.cost)
    BY <1>1, <1>6, NewMethodReaches
  <2>2. AllDecomposed(insts) /\ (flags.qvalues => cost = part.cost)
    BY <1>6 DEF DecomposeInv
  <2> HIDE DEF b, task, effects, cost, M, before
  <2> QED  BY <1>1, <1>3, <1>5, <2>1, <2>2, AnnotationDecomposes
<1>7. AllDecomposed(insts)' = AllDecomposed(insts') /\ Regressed' = Regressed
  BY <1>1, <1>2, LeadsKept DEF Regressed
<1> QED  BY <1>1, <1>6, <1>7 DEF DecomposeInv

LEMMA NextDecomposes ==
  ASSUME FreshNames, IInv, IInv', DecomposeInv, [Next]_vars
  PROVE  DecomposeInv'
<1>1. CASE MakeVerifier
  <2>1. UNCHANGED <<flags, trace, insts>> /\ pc' # "regress"
    BY <1>1 DEF MakeVerifier, At, Lib!AddBeforeLearning
  <2> QED  BY <2>1, QuietDecomposition
<1>2. CASE MakeTrivialChecker
  <2>1. UNCHANGED <<flags, trace, insts>> /\ pc' # "regress"
    BY <1>2 DEF MakeTrivialChecker, At, Lib!AddBeforeLearning
  <2> QED  BY <2>1, QuietDecomposition
<1>3. CASE NextFinalState \/ End \/ NextInitialState
  <2>1. UNCHANGED <<flags, trace, insts>> /\ pc' # "regress"
    BY <1>3 DEF NextFinalState, End, NextInitialState, At
  <2> QED  BY <2>1, QuietDecomposition
<1>4. CASE Squelch \/ Drop
  BY <1>4, SquelchOrDropDecomposes
<1>5. CASE Begin
  BY <1>5, BeginDecomposes
<1>6. CASE AddMethod
  BY <1>6, AddMethodDecomposes
<1>7. CASE AddOperator
  BY <1>7, AddOperatorDecomposes
<1>8. CASE Advance
  BY <1>8, AdvanceDecomposes
<1>9. CASE GiveUp \/ Discard
  <2>1. UNCHANGED <<flags, trace, insts>> /\ pc' # "regress"
    BY <1>9 DEF GiveUp, Discard
  <2> QED  BY <2>1, QuietDecomposition
<1>10. CASE Create
  BY <1>10, CreateDecomposes
<1>11. CASE NoChecker \/ BeginChecker
  <2>1. UNCHANGED <<flags, trace, insts>> /\ pc' # "regress"
    BY <1>11 DEF NoChecker, BeginChecker
  <2> QED  BY <2>1, QuietDecomposition
<1>12. CASE EndChecker
  <2>1. UNCHANGED <<trace, insts>> /\ pc' # "regress"
    BY <1>12 DEF EndChecker
  <2>2. flags' = flags
    BY <1>12 DEF EndChecker, Lib!Offer
  <2> QED  BY <2>1, <2>2, QuietDecomposition
<1>13. CASE LibraryStep
  <2>1. flags' = flags /\ UNCHANGED <<trace, insts, part, helped, pc>>
    BY <1>13, LibSteps DEF LibraryStep, makerVars, IInv, TypeInv
  <2> QED  BY <2>1, QuietDecomposition DEF DecomposeInv
<1>14. CASE Stop \/ UNCHANGED vars
  <2>1. UNCHANGED <<flags, trace, insts, part, helped, pc>>
    BY <1>14 DEF Stop, vars, makerVars
  <2> QED  BY <2>1, QuietDecomposition DEF DecomposeInv
<1> QED
  BY <1>1, <1>2, <1>3, <1>4, <1>5, <1>6, <1>7, <1>8, <1>9, <1>10, <1>11, <1>12, <1>13, <1>14 DEF Next

\* What the recursion of Reached finds.
LEMMA InvariantDecomposes ==
  ASSUME IInv, DecomposeInv
  PROVE  AnnotationsDecompose /\ CostsAddUp
<1>1. insts \in Seq(InstType) /\ trace \in Traces
  BY DEF IInv, TypeInv, InstsOK, LoopsOK
<1>2. ASSUME Regressed, NEW i \in 1..Len(insts)
      PROVE  \E c \in Nat : <<insts[i].after, c>> \in EndsOf(i) /\ (flags.qvalues => insts[i].cost = c)
  <2> DEFINE x == insts[i]
             known == SubSeq(insts, 1, i - 1)
             st == x.method.subtasks
  <2>1. x \in InstType /\ known \in Seq(InstType)
    BY <1>1
  <2>2. x.before \in Nat /\ Len(st) \in Nat
    <3>1. x.before \in Nat /\ x.method \in AnyBody
      BY <2>1 DEF InstType
    <3> HIDE DEF x
    <3>2. st \in Seq(TaskHead)
      BY <3>1 DEF AnyBody
    <3> QED  BY <3>1, <3>2
  <2>3. PICK c \in Nat : Reaches(st, x.sub, known, x.before, x.after, c) /\ (flags.qvalues => x.cost = c)
    BY <1>2 DEF DecomposeInv, AllDecomposed, Decomposed
  <2> HIDE DEF x, known, st
  <2>4. <<x.after, c>> \in Reached(st, x.sub, known, x.before)
    BY <1>1, <2>1, <2>2, <2>3, RouteIsFound
  <2> QED  BY <2>3, <2>4 DEF EndsOf, x, known, st
<1>3. AnnotationsDecompose
  <2> SUFFICES ASSUME Regressed, NEW i \in 1..Len(insts)
               PROVE  \E e \in EndsOf(i) : e[1] = insts[i].after
    BY DEF AnnotationsDecompose
  <2>1. PICK c \in Nat : <<insts[i].after, c>> \in EndsOf(i)
    BY <1>2
  <2> DEFINE e == <<insts[i].after, c>>
  <2>2. e[1] = insts[i].after /\ e \in EndsOf(i)
    BY <2>1
  <2> HIDE DEF e
  <2> QED  BY <2>2
<1>4. CostsAddUp
  BY <1>2 DEF CostsAddUp
<1> QED  BY <1>3, <1>4

\* The subtasks of every annotation, and the pieces of a partial method, lead
\* through the plan with the constants it has.
THEOREM Decomposition == ASSUME FreshNames PROVE Spec => []DecomposeInv
<1>1. Init => DecomposeInv
  BY DEF Init, DecomposeInv, AllDecomposed
<1>2. IInv /\ IInv' /\ DecomposeInv /\ [Next]_vars => DecomposeInv'
  BY NextDecomposes
<1> QED  BY <1>1, <1>2, Invariance, PTL DEF Spec

\* The subtasks of an annotation are steps and earlier annotations, in order and
\* without overlap, from its first state to its last.
THEOREM AnnotationsAreDecomposed == ASSUME FreshNames PROVE Spec => []AnnotationsDecompose
<1> QED  BY InvariantDecomposes, Invariance, Decomposition, PTL

\* With --qvalues the cost of an annotation is that of the steps and earlier
\* annotations it consists of.
THEOREM CostsAreAdded == ASSUME FreshNames PROVE Spec => []CostsAddUp
<1> QED  BY InvariantDecomposes, Invariance, Decomposition, PTL
=============================================================================
