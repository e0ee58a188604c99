--------------------------- MODULE HtnSolverProofs ---------------------------
(***************************************************************************)
(* htn-solver for every domain whose steps a search can list, every limit  *)
(* and every search strategy: without early_stop it gives up only when     *)
(* there is no plan, and breadth first it finds one with the fewest steps  *)
(* of work, although duplicates are dropped.                               *)
(***************************************************************************)
EXTENDS HtnSolver, HtnDomainProofs

----------------------------------------------------------------------------
(* Ways to complete a solution                                             *)

Solutions == {s \in SolutionType : WellFormed(s)}

\* n steps of work that complete s, every solution before within the limit.
Runs(max, s, n) ==
  {w \in [0..n -> Solutions] :
     /\ w[0] = s /\ IsComplete(w[n])
     /\ \A k \in 1..n : Explorable(w[k - 1], max) /\ w[k] \in Successors(w[k - 1])}

Completes(max, s, n) == Runs(max, s, n) # {}

LEMMA SolutionFacts ==
  ASSUME NEW s \in Solutions
  PROVE  /\ s \in SolutionType /\ WellFormed(s) /\ Len(s.tree) \in Nat /\ s.numDecomps \in Nat
         /\ s.tasks \in Seq(Task) /\ s.state \in SUBSET Atom
         /\ ~IsComplete(s) =>
              \A t \in Successors(s) : t \in Solutions /\ Len(t.tree) = Len(s.tree) + 1
<1>1. s \in SolutionType /\ WellFormed(s)
  BY DEF Solutions
<1>2. s.tree \in Seq(NodeType)
  BY <1>1, SolutionFields
<1> QED  BY <1>1, <1>2, SolutionFields, SuccessorFacts DEF Solutions

LEMMA RunNone ==
  ASSUME NEW max, NEW s \in Solutions
  PROVE  Completes(max, s, 0) <=> IsComplete(s)
<1>1. ASSUME IsComplete(s)
      PROVE  Completes(max, s, 0)
  <2>1. [k \in 0..0 |-> s] \in Runs(max, s, 0)
    BY <1>1 DEF Runs
  <2> QED  BY <2>1 DEF Completes
<1>2. ASSUME Completes(max, s, 0)
      PROVE  IsComplete(s)
  BY <1>2 DEF Completes, Runs
<1> QED  BY <1>1, <1>2

LEMMA RunOn ==
  ASSUME NEW max, NEW s, NEW n \in Nat, Completes(max, s, n + 1)
  PROVE  /\ s \in Solutions /\ Explorable(s, max)
         /\ \E t \in Successors(s) : t \in Solutions /\ Completes(max, t, n)
<1>1. PICK w \in Runs(max, s, n + 1) : TRUE
  BY DEF Completes
<1> DEFINE v == [k \in 0..n |-> w[k + 1]]
<1>2. /\ w \in [0..(n + 1) -> Solutions] /\ w[0] = s /\ IsComplete(w[n + 1])
      /\ \A k \in 1..(n + 1) : Explorable(w[k - 1], max) /\ w[k] \in Successors(w[k - 1])
  BY DEF Runs
<1>3. v \in [0..n -> Solutions] /\ v[0] = w[1] /\ v[n] = w[n + 1] /\ \A k \in 0..n : v[k] = w[k + 1]
  BY <1>2
<1> HIDE DEF v
<1>4. ASSUME NEW k \in 1..n
      PROVE  Explorable(v[k - 1], max) /\ v[k] \in Successors(v[k - 1])
  <2>1. v[k] = w[k + 1] /\ v[k - 1] = w[k] /\ k + 1 \in 1..(n + 1) /\ (k + 1) - 1 = k
    BY <1>3
  <2>2. Explorable(w[(k + 1) - 1], max) /\ w[k + 1] \in Successors(w[(k + 1) - 1])
    BY <1>2, <2>1
  <2> QED  BY <2>1, <2>2
<1>5. v \in Runs(max, w[1], n)
  BY <1>2, <1>3, <1>4 DEF Runs
<1>6. w[1] \in Successors(s) /\ Explorable(s, max) /\ w[1] \in Solutions /\ s \in Solutions
  <2>1. 1 \in 1..(n + 1) /\ 1 - 1 = 0 /\ 1 \in 0..(n + 1) /\ 0 \in 0..(n + 1)
    OBVIOUS
  <2> QED  BY <1>2, <2>1
<1> QED  BY <1>5, <1>6 DEF Completes

LEMMA RunBack ==
  ASSUME NEW max, NEW s \in Solutions, Explorable(s, max), NEW t \in Successors(s), NEW n \in Nat, Completes(max, t, n)
  PROVE  Completes(max, s, n + 1)
<1>1. PICK w \in Runs(max, t, n) : TRUE
  BY DEF Completes
<1> DEFINE v == [k \in 0..(n + 1) |-> IF k = 0 THEN s ELSE w[k - 1]]
<1>2. /\ w \in [0..n -> Solutions] /\ w[0] = t /\ IsComplete(w[n])
      /\ \A k \in 1..n : Explorable(w[k - 1], max) /\ w[k] \in Successors(w[k - 1])
  BY DEF Runs
<1>3. v \in [0..(n + 1) -> Solutions] /\ v[0] = s /\ \A k \in 1..(n + 1) : v[k] = w[k - 1]
  BY <1>2
<1> HIDE DEF v
<1>4. ASSUME NEW k \in 1..(n + 1)
      PROVE  Explorable(v[k - 1], max) /\ v[k] \in Successors(v[k - 1])
  <2>1. CASE k = 1
    BY <1>2, <1>3, <2>1
  <2>2. CASE k # 1
    <3>1. k - 1 \in 1..n /\ v[k] = w[k - 1] /\ v[k - 1] = w[(k - 1) - 1]
      BY <1>3, <2>2
    <3>2. Explorable(w[(k - 1) - 1], max) /\ w[k - 1] \in Successors(w[(k - 1) - 1])
      BY <1>2, <3>1
    <3> QED  BY <3>1, <3>2
  <2> QED  BY <2>1, <2>2
<1>5. v[n + 1] = w[n]
  BY <1>3
<1>6. v \in Runs(max, s, n + 1)
  BY <1>2, <1>3, <1>4, <1>5 DEF Runs
<1> QED  BY <1>6 DEF Completes

\* As far in the same place, with no more decompositions.
NoWorse(t, s) == Alike(s, t) /\ t.numDecomps <= s.numDecomps

LEMMA NoWorseCompletes ==
  ASSUME NEW max \in Int, NEW n \in Nat, NEW s \in Solutions, NEW t \in Solutions, NoWorse(t, s), Completes(max, s, n)
  PROVE  Completes(max, t, n)
<1> DEFINE S == {k \in Nat : \A x, y \in Solutions : NoWorse(y, x) /\ Completes(max, x, k) => Completes(max, y, k)}
<1>1. 0 \in S
  BY RunNone DEF NoWorse, Alike, IsComplete
<1>2. ASSUME NEW k \in Nat, k \in S
      PROVE  k + 1 \in S
  <2> SUFFICES ASSUME NEW x \in Solutions, NEW y \in Solutions, NoWorse(y, x), Completes(max, x, k + 1)
               PROVE  Completes(max, y, k + 1)
    OBVIOUS
  <2>1. PICK new \in Successors(x) : new \in Solutions /\ Completes(max, new, k)
    BY RunOn
  <2>2. Explorable(x, max)
    BY RunOn
  <2>3. x.numDecomps \in Nat /\ y.numDecomps \in Nat /\ y.numDecomps <= x.numDecomps
    BY SolutionFacts DEF NoWorse
  <2>4. ~IsComplete(x) /\ Alike(x, y)
    BY <2>2 DEF Explorable, NoWorse
  <2>5. PICK other \in Successors(y) : Alike(new, other) /\ CountAlike(x, new, y, other)
    BY <2>4, AlikeSuccessors
  <2>6. ~IsComplete(y) /\ other \in Solutions
    BY <2>4, AlikeSuccessors, SolutionFacts
  <2>7. Explorable(y, max)
    BY <2>2, <2>3, <2>6 DEF Explorable
  <2>8. NoWorse(other, new)
    BY <2>3, <2>5 DEF NoWorse, CountAlike
  <2>9. Completes(max, other, k)
    BY <1>2, <2>1, <2>6, <2>8
  <2> QED  BY <2>7, <2>9, RunBack
<1> HIDE DEF S
<1>3. n \in S
  BY <1>1, <1>2, Induction
<1> QED  BY <1>3 DEF S

----------------------------------------------------------------------------
(* What the search has in hand serves for what it does not                 *)

\* Whatever completes s, something in S is completed by no more steps of work,
\* and breadth first by no more in all.
Serves(o, S, s) ==
  \A n \in Nat : Completes(o.maxDecomps, s, n) =>
    \E t \in S : \E j \in 0..n :
      Completes(o.maxDecomps, t, j) /\ (o.b => Len(t.tree) + j <= Len(s.tree) + n)

\* The same by fewer steps: s has been extended.
ServesFurther(o, S, s) ==
  \A n \in Nat : Completes(o.maxDecomps, s, n) =>
    \E t \in S : \E j \in 0..n : j # n
      /\ Completes(o.maxDecomps, t, j) /\ (o.b => Len(t.tree) + j <= Len(s.tree) + n)

LEMMA ServesItself ==
  ASSUME NEW o, NEW S, NEW s \in S, s \in Solutions
  PROVE  Serves(o, S, s)
<1>1. Len(s.tree) \in Nat
  BY SolutionFacts
<1>2. ASSUME NEW n \in Nat, Completes(o.maxDecomps, s, n)
      PROVE  \E t \in S : \E j \in 0..n :
               Completes(o.maxDecomps, t, j) /\ (o.b => Len(t.tree) + j <= Len(s.tree) + n)
  <2>1. n \in 0..n /\ Len(s.tree) + n <= Len(s.tree) + n
    BY <1>1
  <2> QED  BY <1>2, <2>1
<1> QED  BY <1>2 DEF Serves

LEMMA ServesThrough ==
  ASSUME NEW o, NEW S \in SUBSET Solutions, NEW T \in SUBSET Solutions, \A t \in S : Serves(o, T, t), NEW s \in Solutions
  PROVE  /\ Serves(o, S, s) => Serves(o, T, s)
         /\ ServesFurther(o, S, s) => ServesFurther(o, T, s)
<1>1. \A x \in Solutions : Len(x.tree) \in Nat
  BY SolutionFacts
<1>2. ASSUME NEW n \in Nat, NEW t \in S, NEW j \in 0..n,
             Completes(o.maxDecomps, t, j), o.b => Len(t.tree) + j <= Len(s.tree) + n
      PROVE  \E u \in T : \E i \in 0..j :
               Completes(o.maxDecomps, u, i) /\ (o.b => Len(u.tree) + i <= Len(s.tree) + n)
  <2>1. Serves(o, T, t) /\ j \in Nat
    OBVIOUS
  <2>2. PICK u \in T : \E i \in 0..j :
          Completes(o.maxDecomps, u, i) /\ (o.b => Len(u.tree) + i <= Len(t.tree) + j)
    BY <1>2, <2>1 DEF Serves
  <2>3. PICK i \in 0..j : Completes(o.maxDecomps, u, i) /\ (o.b => Len(u.tree) + i <= Len(t.tree) + j)
    BY <2>2
  <2>4. Len(u.tree) \in Nat /\ Len(t.tree) \in Nat /\ Len(s.tree) \in Nat
    BY <1>1
  <2>5. o.b => Len(u.tree) + i <= Len(s.tree) + n
    BY <1>2, <2>3, <2>4
  <2> QED  BY <2>3, <2>5
<1>3. ASSUME Serves(o, S, s)
      PROVE  Serves(o, T, s)
  <2> SUFFICES ASSUME NEW n \in Nat, Completes(o.maxDecomps, s, n)
               PROVE  \E u \in T : \E i \in 0..n :
                        Completes(o.maxDecomps, u, i) /\ (o.b => Len(u.tree) + i <= Len(s.tree) + n)
    BY DEF Serves
  <2>1. PICK t \in S, j \in 0..n : Completes(o.maxDecomps, t, j) /\ (o.b => Len(t.tree) + j <= Len(s.tree) + n)
    BY <1>3 DEF Serves
  <2>2. PICK u \in T, i \in 0..j : Completes(o.maxDecomps, u, i) /\ (o.b => Len(u.tree) + i <= Len(s.tree) + n)
    BY <1>2, <2>1
  <2>3. i \in 0..n
    OBVIOUS
  <2> QED  BY <2>2, <2>3
<1>4. ASSUME ServesFurther(o, S, s)
      PROVE  ServesFurther(o, T, s)
  <2> SUFFICES ASSUME NEW n \in Nat, Completes(o.maxDecomps, s, n)
               PROVE  \E u \in T : \E i \in 0..n : i # n
                        /\ Completes(o.maxDecomps, u, i) /\ (o.b => Len(u.tree) + i <= Len(s.tree) + n)
    BY DEF ServesFurther
  <2>1. PICK t \in S, j \in 0..n : j # n /\ Completes(o.maxDecomps, t, j) /\ (o.b => Len(t.tree) + j <= Len(s.tree) + n)
    BY <1>4 DEF ServesFurther
  <2>2. PICK u \in T, i \in 0..j : Completes(o.maxDecomps, u, i) /\ (o.b => Len(u.tree) + i <= Len(s.tree) + n)
    BY <1>2, <2>1
  <2>3. i \in 0..n /\ i # n
    BY <2>1
  <2> QED  BY <2>2, <2>3
<1> QED  BY <1>3, <1>4

\* A solution no worse than s serves for it.
LEMMA NoWorseServes ==
  ASSUME NEW o, o.maxDecomps \in Int, NEW S, NEW t \in S, t \in Solutions, NEW s \in Solutions, NoWorse(t, s),
         o.b => Len(t.tree) <= Len(s.tree)
  PROVE  Serves(o, S, s)
<1>1. Len(t.tree) \in Nat /\ Len(s.tree) \in Nat
  BY SolutionFacts
<1>2. ASSUME NEW n \in Nat, Completes(o.maxDecomps, s, n)
      PROVE  \E x \in S : \E j \in 0..n :
               Completes(o.maxDecomps, x, j) /\ (o.b => Len(x.tree) + j <= Len(s.tree) + n)
  <2>1. Completes(o.maxDecomps, t, n)
    BY <1>2, NoWorseCompletes
  <2>2. n \in 0..n /\ (o.b => Len(t.tree) + n <= Len(s.tree) + n)
    BY <1>1
  <2> QED  BY <2>1, <2>2
<1> QED  BY <1>2 DEF Serves

\* What can be made of a solution that is not complete is served for by what
\* serves for its successors.
LEMMA SuccessorsServe ==
  ASSUME NEW o, NEW S, NEW s \in Solutions, ~IsComplete(s), \A t \in Successors(s) : Serves(o, S, t)
  PROVE  Serves(o, S, s) /\ ServesFurther(o, S, s)
<1>1. ASSUME NEW n \in Nat, Completes(o.maxDecomps, s, n)
      PROVE  \E u \in S : \E j \in 0..n : j # n
               /\ Completes(o.maxDecomps, u, j) /\ (o.b => Len(u.tree) + j <= Len(s.tree) + n)
  <2>1. n # 0
    BY <1>1, RunNone
  <2>2. n - 1 \in Nat /\ (n - 1) + 1 = n
    BY <2>1
  <2>3. PICK t \in Successors(s) : t \in Solutions /\ Completes(o.maxDecomps, t, n - 1)
    BY <1>1, <2>2, RunOn
  <2>4. Len(t.tree) = Len(s.tree) + 1 /\ Len(s.tree) \in Nat
    BY SolutionFacts
  <2>5. PICK u \in S : \E j \in 0..(n - 1) :
          Completes(o.maxDecomps, u, j) /\ (o.b => Len(u.tree) + j <= Len(t.tree) + (n - 1))
    BY <2>2, <2>3 DEF Serves
  <2>6. PICK j \in 0..(n - 1) :
          Completes(o.maxDecomps, u, j) /\ (o.b => Len(u.tree) + j <= Len(t.tree) + (n - 1))
    BY <2>5
  <2>7. j \in 0..n /\ j # n
    BY <2>2
  <2>8. Len(t.tree) + (n - 1) = Len(s.tree) + n
    BY <2>4
  <2> QED  BY <2>6, <2>7, <2>8
<1> QED  BY <1>1 DEF Serves, ServesFurther

----------------------------------------------------------------------------
(* The steps that plans take                                               *)

LEMMA BriefProblem == FromProblem = Brief(FromProblem)
<1>1. Len(FromProblem.tasks) = Len(InitTasks)
  BY ProblemAssumption, BackwardsType DEF FromProblem
<1> QED  BY <1>1 DEF FromProblem, Brief

LEMMA BriefSuccessors ==
  ASSUME NEW s \in Solutions, ~IsComplete(Brief(s)), NEW t \in Successors(Brief(s))
  PROVE  ~IsComplete(s) /\ \E other \in Successors(s) : other \in Solutions /\ Brief(t) = Brief(other)
<1>1. Alike(Brief(s), s) /\ Brief(s).numDecomps = s.numDecomps
  BY DEF Alike, Brief
<1>2. ~IsComplete(s) /\ \E other \in Successors(s) : Alike(t, other) /\ CountAlike(Brief(s), t, s, other)
  BY <1>1, AlikeSuccessors
<1>3. PICK other \in Successors(s) : Alike(t, other) /\ CountAlike(Brief(s), t, s, other)
  BY <1>2
<1>4. t.numDecomps = other.numDecomps /\ t.state = other.state /\ t.tasks = other.tasks
  BY <1>1, <1>3 DEF Alike, CountAlike
<1>5. Brief(t) = Brief(other)
  BY <1>4 DEF Brief
<1> QED  BY <1>2, <1>5, SolutionFacts

\* What Reached is, for it is defined by recursion.
LEMMA ReachedFacts ==
  ASSUME NEW max
  PROVE  /\ Reached(max)[0] = {FromProblem}
         /\ \A n \in Nat :
              /\ \A b \in Reached(max)[n] : \E s \in Solutions : b = Brief(s)
              /\ Reached(max)[n + 1] =
                   UNION {{Brief(t) : t \in Successors(s)} : s \in {x \in Reached(max)[n] : Explorable(x, max)}}
<1> DEFINE T == SUBSET {Brief(s) : s \in Solutions}
           start == {FromProblem}
           more(S) == UNION {{Brief(t) : t \in Successors(s)} : s \in {x \in S : Explorable(x, max)}}
           step == [q \in Nat \X T |-> more(q[2])]
           Body(f) == [n \in Nat |-> IF n = 0 THEN start ELSE more(f[n - 1])]
<1>1. start \in T
  <2>1. FromProblem \in Solutions
    BY FromProblemType, FromProblemWellFormed DEF Solutions
  <2> QED  BY <2>1, BriefProblem
<1>2. ASSUME NEW S \in T
      PROVE  more(S) \in T
  <2> SUFFICES ASSUME NEW b \in more(S)
               PROVE  \E s \in Solutions : b = Brief(s)
    OBVIOUS
  <2>1. PICK x \in S : Explorable(x, max) /\ \E t \in Successors(x) : b = Brief(t)
    OBVIOUS
  <2>2. PICK s \in Solutions : x = Brief(s)
    OBVIOUS
  <2> QED  BY <2>1, <2>2, BriefSuccessors DEF Explorable
<1> HIDE DEF start, more
<1>3. step \in [Nat \X T -> T]
  <2> HIDE DEF T
  <2> QED  BY <1>2
<1>4. PICK f \in [Nat -> T] : f[0] = start /\ \A k \in Nat : f[k + 1] = step[<<k + 1, f[k]>>]
  <2> HIDE DEF T, step
  <2>1. EndlessIterations(T, start, step) # {}
    BY <1>1, <1>3, EndlessRecursion
  <2> QED  BY <2>1 DEF EndlessIterations
<1>5. ASSUME NEW k \in Nat
      PROVE  f[k + 1] = more(f[k])
  <2> HIDE DEF T
  <2>1. f[k + 1] = step[<<k + 1, f[k]>>] /\ f[k] \in T /\ k + 1 \in Nat
    <3> HIDE DEF step
    <3> QED  BY <1>4
  <2> QED  BY <2>1
<1>6. f = Body(f)
  <2> HIDE DEF T, step
  <2>1. \A n \in Nat : f[n] = IF n = 0 THEN start ELSE more(f[n - 1])
    <3> TAKE n \in Nat
    <3>1. CASE n = 0
      BY <1>4, <3>1
    <3>2. CASE n # 0
      <4>1. n - 1 \in Nat /\ n - 1 + 1 = n
        BY <3>2
      <4>2. f[n - 1 + 1] = more(f[n - 1])
        BY <1>5, <4>1
      <4> QED  BY <3>2, <4>1, <4>2
    <3> QED  BY <3>1, <3>2
  <2> QED  BY <1>4, <2>1
<1>7. Reached(max) = Body(Reached(max))
  <2>1. Reached(max) = CHOOSE g : g = Body(g)
    BY Zenon DEF Reached, start, more
  <2>2. \E g : g = Body(g)
    BY <1>6, Zenon
  <2> QED  BY <2>1, <2>2, Zenon
<1> DEFINE g == Reached(max)
<1> HIDE DEF g, T, step
<1>8. g[0] = start /\ \A n \in Nat : g[n + 1] = more(g[n])
  <2>1. g = Body(g)
    BY <1>7 DEF g
  <2>2. g[0] = start
    BY <2>1
  <2>3. ASSUME NEW n \in Nat
        PROVE  g[n + 1] = more(g[n])
    <3>1. n + 1 \in Nat /\ n + 1 # 0 /\ n + 1 - 1 = n
      OBVIOUS
    <3>2. g[n + 1] = Body(g)[n + 1]
      BY <2>1
    <3>3. Body(g)[n + 1] = more(g[n + 1 - 1])
      BY <3>1
    <3> QED  BY <3>1, <3>2, <3>3
  <2> QED  BY <2>2, <2>3
<1>9. \A n \in Nat : g[n] \in T
  <2> DEFINE S == {n \in Nat : g[n] \in T}
  <2>1. 0 \in S
    BY <1>1, <1>8
  <2>2. \A n \in Nat : n \in S => n + 1 \in S
    BY <1>2, <1>8
  <2> HIDE DEF S
  <2>3. Nat \subseteq S
    BY <2>1, <2>2, Induction
  <2> QED  BY <2>3 DEF S
<1>10. \A n \in Nat : \A b \in g[n] : \E s \in Solutions : b = Brief(s)
  BY <1>9 DEF T
<1> QED  BY <1>8, <1>10 DEF g, start, more

\* A complete solution that n steps reach completes the problem.
LEMMA ReachedCompletes ==
  ASSUME NEW max \in Int, NEW n \in Nat, NEW b \in Reached(max)[n], IsComplete(b)
  PROVE  Completes(max, FromProblem, n)
<1> DEFINE S == {m \in Nat : \A x \in Reached(max)[m] : \E s \in Solutions :
                   /\ x = Brief(s)
                   /\ \A j \in Nat : Completes(max, s, j) => Completes(max, FromProblem, j + m)}
<1>1. 0 \in S
  <2>1. FromProblem \in Solutions
    BY FromProblemType, FromProblemWellFormed DEF Solutions
  <2>2. \A x \in Reached(max)[0] : x = Brief(FromProblem)
    BY ReachedFacts, BriefProblem
  <2> QED  BY <2>1, <2>2
<1>2. ASSUME NEW m \in Nat, m \in S
      PROVE  m + 1 \in S
  <2> SUFFICES ASSUME NEW x \in Reached(max)[m + 1]
               PROVE  \E s \in Solutions :
                        /\ x = Brief(s)
                        /\ \A j \in Nat : Completes(max, s, j) => Completes(max, FromProblem, j + (m + 1))
    OBVIOUS
  <2>1. PICK y \in Reached(max)[m] : Explorable(y, max) /\ \E t \in Successors(y) : x = Brief(t)
    BY ReachedFacts
  <2>2. PICK s \in Solutions :
          y = Brief(s) /\ \A j \in Nat : Completes(max, s, j) => Completes(max, FromProblem, j + m)
    BY <1>2
  <2>3. PICK other \in Successors(s) : other \in Solutions /\ x = Brief(other)
    BY <2>1, <2>2, BriefSuccessors DEF Explorable
  <2>4. Explorable(s, max)
    BY <2>1, <2>2 DEF Explorable, Brief, IsComplete
  <2>5. ASSUME NEW j \in Nat, Completes(max, other, j)
        PROVE  Completes(max, FromProblem, j + (m + 1))
    <3>1. Completes(max, s, j + 1) /\ j + 1 \in Nat
      BY <2>3, <2>4, <2>5, RunBack
    <3>2. Completes(max, FromProblem, (j + 1) + m)
      BY <2>2, <3>1
    <3>3. (j + 1) + m = j + (m + 1)
      OBVIOUS
    <3> QED  BY <3>2, <3>3
  <2> QED  BY <2>3, <2>5
<1> HIDE DEF S
<1>3. n \in S
  BY <1>1, <1>2, Induction
<1>4. PICK s \in Solutions :
        b = Brief(s) /\ \A j \in Nat : Completes(max, s, j) => Completes(max, FromProblem, j + n)
  BY <1>3 DEF S
<1>5. IsComplete(s)
  BY <1>4 DEF Brief, IsComplete
<1>6. Completes(max, FromProblem, 0 + n) /\ 0 + n = n
  BY <1>4, <1>5, RunNone
<1> QED  BY <1>6

----------------------------------------------------------------------------
(* The search                                                              *)

Item == [oper : BOOLEAN, index : Nat]

\* An item of the work on sol, its instances, the steps it stands for, and the
\* step one instance makes.
ItemOK(sol, item) ==
  /\ item \in Item
  /\ IF item.oper THEN item.index \in 1..Len(Operators) /\ Operators[item.index].name = TopTask(sol).name
                  ELSE item.index \in 1..Len(Methods)

Instances(sol, item) ==
  IF item.oper THEN OperatorInstances(Operators[item.index], TopTask(sol), sol.state)
               ELSE MethodInstances(Methods[item.index], TopTask(sol), sol.state)

StepsBy(sol, item) == IF item.oper THEN ByOperator(sol, item.index) ELSE ByMethod(sol, item.index)

Made(sol, item, sub) ==
  IF item.oper THEN ApplyOperator(sol, item.index, sub) ELSE ApplyMethod(sol, item.index, sub)

\* What is still to be made of the solution at work.
ToTry(p, sol, w, u) ==
  CASE p = "seek"   -> Successors(sol)
    [] p = "list"   -> UNION {StepsBy(sol, w[k]) : k \in 1..Len(w)}
    [] p = "extend" -> {Made(sol, w[1], sub) : sub \in u} \cup UNION {StepsBy(sol, w[k]) : k \in 2..Len(w)}
    [] OTHER        -> {}

InHand(p, q, sol, w, u) == Elems(q) \cup ToTry(p, sol, w, u)

LEMMA StepIsSuccessor ==
  ASSUME NEW sol, NEW item, ItemOK(sol, item)
  PROVE  StepsBy(sol, item) \subseteq Successors(sol)
<1>1. CASE item.oper
  BY <1>1 DEF ItemOK, StepsBy, Successors
<1>2. CASE ~item.oper
  BY <1>2 DEF ItemOK, StepsBy, Successors
<1> QED  BY <1>1, <1>2

LEMMA MadeIsSuccessor ==
  ASSUME NEW sol \in Solutions, ~IsComplete(sol), NEW item, ItemOK(sol, item), NEW sub \in Instances(sol, item)
  PROVE  Made(sol, item, sub) \in Successors(sol)
<1>1. CASE item.oper
  BY <1>1, OperatorInstance DEF ItemOK, Instances, Made, Solutions
<1>2. CASE ~item.oper
  BY <1>2, MethodInstance DEF ItemOK, Instances, Made, Solutions
<1> QED  BY <1>1, <1>2

\* Two instances for one task agree on the parameters.
LEMMA ParametersAgree ==
  ASSUME NEW a, NEW task, NEW state, NEW f \in Satisfying(a, task, state), NEW g \in Satisfying(a, task, state)
  PROVE  SameOn(f, g, Elems(a.params))
  BY DEF Satisfying, SameOn, Elems

\* A listing of the instances has one that does as well as any legal step.
LEMMA ListingServes ==
  ASSUME Listable, NEW sol \in Solutions, ~IsComplete(sol), NEW item, ItemOK(sol, item),
         NEW list \in IF item.oper THEN Listings(Instances(sol, item), {})
                                   ELSE Listings(Instances(sol, item), FreeRelVars(Methods[item.index])),
         NEW new \in StepsBy(sol, item)
  PROVE  \E sub \in list : NoWorse(Made(sol, item, sub), new)
<1>1. CASE item.oper
  <2> DEFINE o == item.index
  <2>1. /\ o \in 1..Len(Operators) /\ Operators[o].name = TopTask(sol).name /\ new \in ByOperator(sol, o)
        /\ sol \in SolutionType /\ WellFormed(sol) /\ sol.numDecomps \in Nat
        /\ list \in Listings(OperatorInstances(Operators[o], TopTask(sol), sol.state), {})
    BY <1>1, SolutionFacts DEF ItemOK, StepsBy, Instances
  <2> HIDE DEF o
  <2>2. PICK best \in OperatorInstances(Operators[o], TopTask(sol), sol.state) :
          \A other \in Grounding(Operators[o]) :
            SameOn(other, best, Elems(Operators[o].params)) => Alike(new, ApplyOperator(sol, o, other))
    BY <2>1, OperatorCovered
  <2>3. PICK sub \in list : sub \in OperatorInstances(Operators[o], TopTask(sol), sol.state)
    BY <2>1, <2>2 DEF Listings
  <2>4. SameOn(sub, best, Elems(Operators[o].params))
    BY <2>2, <2>3, ParametersAgree DEF OperatorInstances
  <2>5. sub \in Grounding(Operators[o])
    BY <2>1, <2>3, OperatorInstance
  <2>6. Alike(new, ApplyOperator(sol, o, sub))
    BY <2>2, <2>4, <2>5
  <2>7. new.numDecomps = sol.numDecomps /\ ApplyOperator(sol, o, sub).numDecomps = sol.numDecomps
    <3>1. PICK g \in Grounding(Operators[o]) : new = ApplyOperator(sol, o, g)
      BY <2>1 DEF ByOperator
    <3> QED  BY <3>1 DEF ApplyOperator
  <2>8. Made(sol, item, sub) = ApplyOperator(sol, o, sub)
    BY <1>1 DEF Made, o
  <2> QED  BY <2>1, <2>3, <2>6, <2>7, <2>8 DEF NoWorse
<1>2. CASE ~item.oper
  <2> DEFINE m == item.index
  <2>1. /\ m \in 1..Len(Methods) /\ new \in ByMethod(sol, m)
        /\ sol \in SolutionType /\ WellFormed(sol) /\ sol.numDecomps \in Nat
        /\ list \in Listings(MethodInstances(Methods[m], TopTask(sol), sol.state), FreeRelVars(Methods[m]))
    BY <1>2, SolutionFacts DEF ItemOK, StepsBy, Instances
  <2> HIDE DEF m
  <2>2. PICK best \in MethodInstances(Methods[m], TopTask(sol), sol.state) :
          \A other \in Grounding(Methods[m]) :
            SameOn(other, best, RelevantVariables(Methods[m])) => Alike(new, ApplyMethod(sol, m, other))
    BY <2>1, MethodCovered
  <2>3. PICK sub \in list : sub \in MethodInstances(Methods[m], TopTask(sol), sol.state)
                           /\ SameOn(best, sub, FreeRelVars(Methods[m]))
    BY <2>1, <2>2 DEF Listings
  <2>4. SameOn(sub, best, Elems(Methods[m].params))
    <3>1. \A f \in MethodInstances(Methods[m], TopTask(sol), sol.state) :
            f \in Satisfying(Methods[m], TopTask(sol), sol.state)
      BY DEF MethodInstances
    <3> QED  BY <2>2, <2>3, <3>1, ParametersAgree
  <2>5. SameOn(sub, best, RelevantVariables(Methods[m]))
    BY <2>3, <2>4 DEF SameOn, FreeRelVars
  <2>6. sub \in Grounding(Methods[m])
    BY <2>1, <2>3, MethodInstance
  <2>7. Alike(new, ApplyMethod(sol, m, sub))
    BY <2>2, <2>5, <2>6
  <2>8. new.numDecomps = sol.numDecomps + 1 /\ ApplyMethod(sol, m, sub).numDecomps = sol.numDecomps + 1
    <3>1. PICK g \in Grounding(Methods[m]) : new = ApplyMethod(sol, m, g)
      BY <2>1 DEF ByMethod
    <3> QED  BY <3>1 DEF ApplyMethod
  <2>9. Made(sol, item, sub) = ApplyMethod(sol, m, sub)
    BY <1>2 DEF Made, m
  <2> QED  BY <2>1, <2>3, <2>7, <2>8, <2>9 DEF NoWorse
<1> QED  BY <1>1, <1>2

LEMMA AllOrdered ==
  ASSUME NEW S \in SUBSET (1..Len(Methods)), NEW order \in SetToSeqs(S)
  PROVE  order \in Seq(S) /\ Elems(order) = S
<1>1. IsFiniteSet(S) /\ Len(Methods) \in Nat
  <2>1. Len(Methods) \in Nat
    BY DomainAssumption
  <2>2. IsFiniteSet(1..Len(Methods))
    BY <2>1, FS_Interval
  <2> QED  BY <2>1, <2>2, FS_Subset
<1> DEFINE n == Cardinality(S)
<1>2. n \in Nat /\ IsFiniteSet(1..n) /\ Cardinality(1..n) = n
  BY <1>1, FS_CardinalityType, FS_Interval
<1>3. order \in [1..n -> S] /\ \A i, j \in 1..n : i # j => order[i] # order[j]
  BY DEF SetToSeqs
<1> HIDE DEF n
<1>4. order \in Injection(1..n, S)
  BY <1>3 DEF Injection, IsInjective
<1>5. order \in Surjection(1..n, S)
  BY <1>1, <1>2, <1>4, FS_Injection DEF n
<1>6. order \in Seq(S) /\ Len(order) = n
  BY <1>2, <1>3
<1>7. \A m \in S : \E k \in 1..n : order[k] = m
  BY <1>5 DEF Surjection
<1>8. \A m \in S : m \in Elems(order)
  BY <1>6, <1>7 DEF Elems
<1>9. \A m \in Elems(order) : m \in S
  BY <1>3, <1>6 DEF Elems
<1> QED  BY <1>6, <1>8, <1>9

\* The work on a solution stands for every legal step.
LEMMA WorkFacts ==
  ASSUME NEW sol \in Solutions, ~IsComplete(sol),
         NEW w \in IF TopTask(sol).name \in Primitive THEN OperatorWork(TopTask(sol))
                                                     ELSE MethodWork(TopTask(sol), sol.state)
  PROVE  /\ w \in Seq(Item) /\ \A k \in 1..Len(w) : ItemOK(sol, w[k])
         /\ Listable /\ ~opts.e => Successors(sol) \subseteq UNION {StepsBy(sol, w[k]) : k \in 1..Len(w)}
<1>0. sol \in SolutionType /\ Len(Methods) \in Nat /\ Len(Operators) \in Nat
  BY DomainAssumption DEF Solutions
<1>1. CASE TopTask(sol).name \in Primitive
  <2> DEFINE I == {i \in 1..Len(Operators) : Operators[i].name = TopTask(sol).name}
             o == SelectInSeq(Operators, LAMBDA op : op.name = TopTask(sol).name)
  <2>1. o = IF I # {} THEN Min(I) ELSE 0
    BY DEF SelectInSeq
  <2>2. w = IF o = 0 THEN <<>> ELSE <<[oper |-> TRUE, index |-> o]>>
    BY <1>1 DEF OperatorWork
  <2>3. I # {} => o \in I
    <3> SUFFICES ASSUME I # {}
                 PROVE  Min(I) \in I
      BY <2>1
    <3>1. I \subseteq Nat
      OBVIOUS
    <3>2. \E i \in I : \A j \in I : i <= j
      BY <3>1, Least
    <3> HIDE DEF I
    <3> QED  BY <3>2, Zenon DEF Min
  <2> HIDE DEF o
  <2>4. CASE I = {}
    <3>1. w = <<>>
      BY <2>1, <2>2, <2>4
    <3>2. Successors(sol) = {}
      BY <1>0, <1>1, <2>4, StepOfItsKind
    <3> QED  BY <3>1, <3>2
  <2>5. CASE I # {}
    <3>1. o \in 1..Len(Operators) /\ Operators[o].name = TopTask(sol).name /\ o # 0 /\ o \in Nat
      BY <1>0, <2>3, <2>5
    <3>2. w = <<[oper |-> TRUE, index |-> o]>>
      BY <2>2, <3>1
    <3>3. w \in Seq(Item) /\ Len(w) = 1 /\ w[1] = [oper |-> TRUE, index |-> o]
      BY <3>1, <3>2 DEF Item
    <3>4. \A k \in 1..Len(w) : ItemOK(sol, w[k])
      BY <3>1, <3>3 DEF ItemOK, Item
    <3>5. ASSUME Listable, NEW t \in Successors(sol)
          PROVE  t \in StepsBy(sol, w[1])
      <4>1. PICK p \in 1..Len(Operators) : Operators[p].name = TopTask(sol).name /\ t \in ByOperator(sol, p)
        BY <1>0, <1>1, StepOfItsKind
      <4>2. p = o
        BY <3>1, <3>5, <4>1 DEF Listable
      <4> QED  BY <3>3, <4>1, <4>2 DEF StepsBy
    <3>6. 1 \in 1..Len(w)
      BY <3>3
    <3>7. ASSUME Listable, NEW t \in Successors(sol)
          PROVE  t \in UNION {StepsBy(sol, w[k]) : k \in 1..Len(w)}
      BY <3>5, <3>6, <3>7
    <3> QED  BY <3>3, <3>4, <3>7
  <2> QED  BY <2>4, <2>5
<1>2. CASE TopTask(sol).name \notin Primitive
  <2> DEFINE S == Decomposable(TopTask(sol), sol.state)
  <2>1. PICK order \in SetToSeqs(S) : w = [k \in 1..Len(order) |-> [oper |-> FALSE, index |-> order[k]]]
    BY <1>2 DEF MethodWork
  <2>2. S \in SUBSET (1..Len(Methods))
    BY DEF Decomposable
  <2>3. ~opts.e => S = {m \in 1..Len(Methods) : MethodInstances(Methods[m], TopTask(sol), sol.state) # {}}
    BY DEF Decomposable
  <2> HIDE DEF S
  <2>4. order \in Seq(S) /\ Elems(order) = S
    BY <2>1, <2>2, AllOrdered
  <2>5. Len(order) \in Nat /\ \A k \in 1..Len(order) : order[k] \in 1..Len(Methods) /\ order[k] \in Nat
    <3>1. Len(order) \in Nat /\ \A k \in 1..Len(order) : order[k] \in S
      BY <2>4
    <3>2. \A m \in S : m \in 1..Len(Methods) /\ m \in Nat
      BY <1>0, <2>2
    <3> QED  BY <3>1, <3>2
  <2>6. w \in Seq(Item) /\ Len(w) = Len(order) /\ \A k \in 1..Len(order) : w[k] = [oper |-> FALSE, index |-> order[k]]
    BY <2>1, <2>5 DEF Item
  <2>7. \A k \in 1..Len(w) : w[k].oper = FALSE /\ w[k].index = order[k] /\ ItemOK(sol, w[k])
    <3> TAKE k \in 1..Len(w)
    <3>1. k \in 1..Len(order)
      BY <2>6
    <3>2. w[k] = [oper |-> FALSE, index |-> order[k]] /\ order[k] \in 1..Len(Methods) /\ order[k] \in Nat
      BY <2>5, <2>6, <3>1
    <3>3. w[k].oper = FALSE /\ w[k].index = order[k] /\ w[k] \in Item
      BY <3>2 DEF Item
    <3> QED  BY <3>2, <3>3 DEF ItemOK
  <2>8. ASSUME Listable, ~opts.e, NEW t \in Successors(sol)
        PROVE  \E k \in 1..Len(w) : t \in StepsBy(sol, w[k])
    <3>1. PICK m \in 1..Len(Methods) : t \in ByMethod(sol, m)
      BY <1>0, <1>2, StepOfItsKind
    <3>2. MethodInstances(Methods[m], TopTask(sol), sol.state) # {}
      BY <1>0, <2>8, <3>1, MethodCovered
    <3>3. m \in Elems(order)
      BY <2>3, <2>4, <2>8, <3>2
    <3>4. PICK k \in 1..Len(order) : order[k] = m
      BY <3>3 DEF Elems
    <3>5. k \in 1..Len(w) /\ w[k].oper = FALSE /\ w[k].index = m
      BY <2>6, <2>7, <3>4
    <3> QED  BY <3>1, <3>5 DEF StepsBy
  <2>9. ASSUME Listable, ~opts.e, NEW t \in Successors(sol)
        PROVE  t \in UNION {StepsBy(sol, w[k]) : k \in 1..Len(w)}
    BY <2>8, <2>9
  <2> QED  BY <2>6, <2>7, <2>9
<1> QED  BY <1>1, <1>2

----------------------------------------------------------------------------
(* The inductive invariant                                                 *)

\* A problem without tasks is searched in vain.
Idle ==
  IsComplete(FromProblem) =>
    /\ pc \in {"start", "search", "seek", "exception"}
    /\ pc = "search" => queue = <<FromProblem>>
    /\ pc = "seek" => current = FromProblem

\* What is queued and at work is not complete.
InHandOK ==
  /\ pc \in {"start", "search", "seek", "list", "extend"} \cup Ends
  /\ queue \in Seq(Solutions) /\ dead \in SUBSET Solutions /\ current \in Solutions
  /\ \A s \in Elems(queue) : ~IsComplete(s)
  /\ pc \in {"seek", "list", "extend"} => ~IsComplete(current)
  /\ pc \in {"list", "extend"} => work \in Seq(Item) /\ \A k \in 1..Len(work) : ItemOK(current, work[k])
  /\ pc = "extend" => work # <<>> /\ untried \subseteq Instances(current, work[1])
  /\ pc = "start" => current = FromProblem /\ dead = {}

\* Breadth first, the queue holds the solutions at the depth of the one at work
\* and then those one step deeper.
Level ==
  opts.b =>
    /\ \A i \in 1..Len(queue) :
         Len(current.tree) <= Len(queue[i].tree) /\ Len(queue[i].tree) <= Len(current.tree) + 1
    /\ \A i, j \in 1..Len(queue) : i <= j => Len(queue[i].tree) <= Len(queue[j].tree)
    /\ \A d \in dead : Len(d.tree) <= Len(current.tree)

Open == InHand(pc, queue, current, work, untried)

\* What is in hand serves for the problem, and for all that has been extended by
\* fewer steps of work.
NoneLost ==
  pc \in {"search", "seek", "list", "extend"} =>
    /\ Serves(opts, Open, FromProblem)
    /\ \A d \in dead : ServesFurther(opts, Open, d)
    /\ pc \in {"list", "extend"} => ServesFurther(opts, Open, current)

Verdict ==
  /\ pc = "no plans" => \A n \in Nat : ~Completes(opts.maxDecomps, FromProblem, n)
  /\ pc = "found" /\ opts.b =>
       \A n \in Nat : Completes(opts.maxDecomps, FromProblem, n) => Len(answer[1].tree) <= n

IInv ==
  /\ opts \in CommandLines
  /\ Idle
  /\ ~IsComplete(FromProblem) =>
       /\ InHandOK /\ Level
       /\ Listable /\ ~opts.e => NoneLost /\ Verdict

LEMMA OptionsType ==
  ASSUME opts \in CommandLines
  PROVE  opts \in Options /\ opts.maxDecomps \in Int /\ opts.b \in BOOLEAN
  BY CommandLineAssumption DEF Options

LEMMA FromProblemIsSolution == FromProblem \in Solutions /\ FromProblem.tree = <<>>
  BY FromProblemType, FromProblemWellFormed DEF Solutions, FromProblem

\* Everything in hand is a solution.
LEMMA ToTryType ==
  ASSUME InHandOK
  PROVE  ToTry(pc, current, work, untried) \subseteq Successors(current)
<1>1. CASE pc = "seek"
  BY <1>1 DEF ToTry
<1>2. CASE pc = "list"
  <2>1. ToTry(pc, current, work, untried) = UNION {StepsBy(current, work[k]) : k \in 1..Len(work)}
    BY <1>2 DEF ToTry
  <2>2. \A k \in 1..Len(work) : StepsBy(current, work[k]) \subseteq Successors(current)
    BY <1>2, StepIsSuccessor DEF InHandOK
  <2> QED  BY <2>1, <2>2
<1>3. CASE pc = "extend"
  <2>1. ToTry(pc, current, work, untried) =
          {Made(current, work[1], sub) : sub \in untried} \cup UNION {StepsBy(current, work[k]) : k \in 2..Len(work)}
    BY <1>3 DEF ToTry
  <2>2. /\ current \in Solutions /\ ~IsComplete(current) /\ Len(work) \in Nat /\ Len(work) # 0
        /\ \A k \in 1..Len(work) : ItemOK(current, work[k])
        /\ untried \subseteq Instances(current, work[1])
    BY <1>3 DEF InHandOK
  <2>3. 1 \in 1..Len(work) /\ \A k \in 2..Len(work) : k \in 1..Len(work)
    BY <2>2
  <2>4. \A k \in 2..Len(work) : StepsBy(current, work[k]) \subseteq Successors(current)
    BY <2>2, <2>3, StepIsSuccessor
  <2>5. \A sub \in untried : Made(current, work[1], sub) \in Successors(current)
    BY <2>2, <2>3, MadeIsSuccessor
  <2> QED  BY <2>1, <2>4, <2>5
<1>4. CASE pc \notin {"seek", "list", "extend"}
  BY <1>4 DEF ToTry
<1> QED  BY <1>1, <1>2, <1>3, <1>4

LEMMA OpenType ==
  ASSUME InHandOK
  PROVE  Open \in SUBSET Solutions
<1>1. Elems(queue) \subseteq Solutions
  BY ElemsType DEF InHandOK
<1>2. ToTry(pc, current, work, untried) \subseteq Solutions
  <2>1. CASE pc \in {"seek", "list", "extend"}
    BY <2>1, ToTryType, SolutionFacts DEF InHandOK
  <2>2. CASE pc \notin {"seek", "list", "extend"}
    BY <2>2 DEF ToTry
  <2> QED  BY <2>1, <2>2
<1> QED  BY <1>1, <1>2 DEF Open, InHand

\* A step after which what is in hand serves for what was loses nothing.
LEMMA StillServes ==
  ASSUME InHandOK, NEW S \in SUBSET Solutions, \A t \in Open : Serves(opts, S, t), NEW s \in Solutions
  PROVE  /\ Serves(opts, Open, s) => Serves(opts, S, s)
         /\ ServesFurther(opts, Open, s) => ServesFurther(opts, S, s)
  BY OpenType, ServesThrough

----------------------------------------------------------------------------
(* The steps of the search                                                 *)

Live == opts \in CommandLines /\ ~IsComplete(FromProblem) /\ InHandOK /\ Level

Losing == Listable /\ ~opts.e /\ NoneLost

LEMMA StartKeeps ==
  ASSUME Live, Start
  PROVE  Live'
<1>1. pc' = "search" /\ queue' = <<FromProblem>> /\ opts' = opts /\ dead' = {} /\ current' = FromProblem
  BY DEF Start, Live, InHandOK
<1> DEFINE q == <<FromProblem>>
<1>2. q \in Seq(Solutions) /\ Len(q) = 1 /\ q[1] = FromProblem /\ Elems(q) = {FromProblem}
  BY FromProblemIsSolution DEF Elems
<1> HIDE DEF q
<1>3. Len(FromProblem.tree) = 0
  BY FromProblemIsSolution
<1>4. InHandOK'
  BY <1>1, <1>2, FromProblemIsSolution DEF InHandOK, Live, q
<1>5. Level'
  <2>1. queue' = q
    BY <1>1 DEF q
  <2> QED  BY <1>1, <1>2, <1>3, <2>1 DEF Level
<1> QED  BY <1>1, <1>4, <1>5 DEF Live

LEMMA StartLosesNone ==
  ASSUME Live, Start
  PROVE  NoneLost' /\ Verdict'
<1>1. pc' = "search" /\ queue' = <<FromProblem>> /\ opts' = opts /\ dead' = {}
  BY DEF Start, Live, InHandOK
<1>2. FromProblem \in Elems(queue')
  <2>1. Len(queue') = 1 /\ queue'[1] = FromProblem
    BY <1>1
  <2> QED  BY <2>1 DEF Elems
<1>3. FromProblem \in Open'
  BY <1>2 DEF Open, InHand
<1>4. Serves(opts', Open', FromProblem)
  BY <1>3, FromProblemIsSolution, ServesItself
<1> QED  BY <1>1, <1>4 DEF NoneLost, Verdict

LEMMA HeadTaken ==
  ASSUME NEW q \in Seq(Solutions), q # <<>>
  PROVE  /\ Tail(q) \in Seq(Solutions) /\ Head(q) = q[1] /\ Len(q) \in Nat \ {0} /\ Len(Tail(q)) = Len(q) - 1
         /\ \A i \in 1..Len(Tail(q)) : Tail(q)[i] = q[i + 1] /\ i + 1 \in 1..Len(q)
         /\ \A x \in Elems(q) : x = Head(q) \/ x \in Elems(Tail(q))
         /\ Head(q) \in Elems(q) /\ Elems(Tail(q)) \subseteq Elems(q)
<1>1. /\ Tail(q) \in Seq(Solutions) /\ Head(q) = q[1] /\ Len(q) \in Nat \ {0} /\ Len(Tail(q)) = Len(q) - 1
      /\ \A i \in 1..Len(Tail(q)) : Tail(q)[i] = q[i + 1] /\ i + 1 \in 1..Len(q)
  OBVIOUS
<1>2. ASSUME NEW x \in Elems(q), x # Head(q)
      PROVE  x \in Elems(Tail(q))
  <2>1. PICK i \in 1..Len(q) : x = q[i]
    BY DEF Elems
  <2>2. i # 1
    BY <1>1, <1>2, <2>1
  <2>3. i - 1 \in 1..Len(Tail(q)) /\ (i - 1) + 1 = i
    BY <1>1, <2>1, <2>2
  <2>4. Tail(q)[i - 1] = x
    BY <1>1, <2>1, <2>3
  <2> QED  BY <2>3, <2>4 DEF Elems
<1>3. Head(q) \in Elems(q)
  <2>1. 1 \in 1..Len(q)
    BY <1>1
  <2> QED  BY <1>1, <2>1 DEF Elems
<1>4. Elems(Tail(q)) \subseteq Elems(q)
  BY <1>1 DEF Elems
<1> QED  BY <1>1, <1>2, <1>3, <1>4

LEMMA LastTaken ==
  ASSUME NEW q \in Seq(Solutions), q # <<>>
  PROVE  /\ Front(q) \in Seq(Solutions)
         /\ \A x \in Elems(q) : x = Last(q) \/ x \in Elems(Front(q))
         /\ Last(q) \in Elems(q) /\ Elems(Front(q)) \subseteq Elems(q)
<1>1. /\ Len(q) \in Nat \ {0} /\ Last(q) = q[Len(q)] /\ Front(q) = SubSeq(q, 1, Len(q) - 1)
  BY DEF Last, Front
<1>2. /\ Front(q) \in Seq(Solutions) /\ Len(Front(q)) = Len(q) - 1
      /\ \A i \in 1..(Len(q) - 1) : Front(q)[i] = q[i] /\ i \in 1..Len(q)
  BY <1>1, PoppedType DEF Popped
<1>3. ASSUME NEW x \in Elems(q), x # Last(q)
      PROVE  x \in Elems(Front(q))
  <2>1. PICK i \in 1..Len(q) : x = q[i]
    BY DEF Elems
  <2>2. i \in 1..Len(Front(q)) /\ i \in 1..(Len(q) - 1)
    BY <1>1, <1>2, <1>3, <2>1
  <2>3. Front(q)[i] = x
    BY <1>2, <2>1, <2>2
  <2> QED  BY <2>2, <2>3 DEF Elems
<1>4. Last(q) \in Elems(q)
  <2>1. Len(q) \in 1..Len(q)
    BY <1>1
  <2> QED  BY <1>1, <2>1 DEF Elems
<1>5. Elems(Front(q)) \subseteq Elems(q)
  BY <1>2 DEF Elems
<1> QED  BY <1>2, <1>3, <1>4, <1>5

LEMMA Enqueued ==
  ASSUME NEW q \in Seq(Solutions), NEW x \in Solutions
  PROVE  /\ Append(q, x) \in Seq(Solutions) /\ Len(Append(q, x)) = Len(q) + 1 /\ Len(q) \in Nat
         /\ \A i \in 1..Len(q) : Append(q, x)[i] = q[i]
         /\ Append(q, x)[Len(q) + 1] = x
         /\ Elems(Append(q, x)) = Elems(q) \cup {x}
<1> DEFINE r == Append(q, x)
<1>1. /\ r \in Seq(Solutions) /\ Len(r) = Len(q) + 1 /\ Len(q) \in Nat
      /\ \A i \in 1..Len(q) : r[i] = q[i]
      /\ r[Len(q) + 1] = x
  OBVIOUS
<1> HIDE DEF r
<1>2. ASSUME NEW y \in Elems(r)
      PROVE  y \in Elems(q) \cup {x}
  <2>1. PICK i \in 1..Len(r) : y = r[i]
    BY DEF Elems
  <2>2. i \in 1..Len(q) \/ i = Len(q) + 1
    BY <1>1
  <2> QED  BY <1>1, <2>1, <2>2 DEF Elems
<1>3. ASSUME NEW y \in Elems(q) \cup {x}
      PROVE  y \in Elems(r)
  <2>1. CASE y = x
    <3>1. Len(q) + 1 \in 1..Len(r)
      BY <1>1
    <3> QED  BY <1>1, <2>1, <3>1 DEF Elems
  <2>2. CASE y \in Elems(q)
    <3>1. PICK i \in 1..Len(q) : y = q[i]
      BY <2>2 DEF Elems
    <3>2. i \in 1..Len(r) /\ r[i] = y
      BY <1>1, <3>1
    <3> QED  BY <3>2 DEF Elems
  <2> QED  BY <2>1, <2>2
<1>4. Elems(r) = Elems(q) \cup {x}
  BY <1>2, <1>3
<1> QED  BY <1>1, <1>4 DEF r

LEMMA TakeFacts ==
  ASSUME Live, Take
  PROVE  /\ pc' = "seek" /\ opts' = opts /\ dead' = dead /\ current' \in Elems(queue) /\ queue' \in Seq(Solutions)
         /\ Elems(queue') \subseteq Elems(queue)
         /\ \A x \in Elems(queue) : x = current' \/ x \in Elems(queue')
         /\ queue \in Seq(Solutions) /\ queue # <<>>
         /\ opts.b => current' = Head(queue) /\ queue' = Tail(queue)
<1>1. /\ queue \in Seq(Solutions) /\ queue # <<>> /\ pc' = "seek" /\ opts' = opts /\ dead' = dead
      /\ IF opts.b THEN current' = Head(queue) /\ queue' = Tail(queue)
                   ELSE current' = Last(queue) /\ queue' = Front(queue)
  BY DEF Live, InHandOK, Take
<1>2. CASE opts.b
  BY <1>1, <1>2, HeadTaken
<1>3. CASE ~opts.b
  BY <1>1, <1>3, LastTaken
<1> QED  BY <1>2, <1>3

LEMMA TakeKeeps ==
  ASSUME Live, Take
  PROVE  Live'
<1>1. InHandOK'
  <2>1. Elems(queue) \subseteq Solutions
    BY TakeFacts, ElemsType
  <2> QED  BY <2>1, TakeFacts DEF Live, InHandOK
<1>2. Level'
  <2> SUFFICES ASSUME opts.b
               PROVE  /\ \A i \in 1..Len(queue') :
                           Len(current'.tree) <= Len(queue'[i].tree) /\ Len(queue'[i].tree) <= Len(current'.tree) + 1
                      /\ \A i, j \in 1..Len(queue') : i <= j => Len(queue'[i].tree) <= Len(queue'[j].tree)
                      /\ \A d \in dead' : Len(d.tree) <= Len(current'.tree)
    BY TakeFacts DEF Level
  <2> DEFINE size(x) == Len(x.tree)
  <2>1. /\ \A i \in 1..Len(queue) : size(current) <= size(queue[i]) /\ size(queue[i]) <= size(current) + 1
        /\ \A i, j \in 1..Len(queue) : i <= j => size(queue[i]) <= size(queue[j])
        /\ \A d \in dead : size(d) <= size(current)
    BY DEF Live, Level
  <2>2. /\ queue' = Tail(queue) /\ current' = queue[1] /\ Len(queue) \in Nat \ {0} /\ Len(queue') = Len(queue) - 1
        /\ \A i \in 1..Len(queue') : queue'[i] = queue[i + 1] /\ i + 1 \in 1..Len(queue)
        /\ dead' = dead
    BY TakeFacts, HeadTaken
  <2>3. \A x \in Solutions : size(x) \in Nat
    BY SolutionFacts
  <2>4. current \in Solutions /\ dead \in SUBSET Solutions /\ \A i \in 1..Len(queue) : queue[i] \in Solutions
    BY DEF Live, InHandOK
  <2> HIDE DEF size
  <2>5. 1 \in 1..Len(queue) /\ current' \in Solutions /\ size(current) <= size(current')
    BY <2>1, <2>2, <2>4
  <2>6. ASSUME NEW i \in 1..Len(queue')
        PROVE  size(current') <= size(queue'[i]) /\ size(queue'[i]) <= size(current') + 1
    <3>1. i + 1 \in 1..Len(queue) /\ queue'[i] = queue[i + 1] /\ 1 <= i + 1
      BY <2>2
    <3>2. size(queue[1]) <= size(queue[i + 1]) /\ size(queue[i + 1]) <= size(current) + 1
      BY <2>1, <2>5, <3>1
    <3> QED  BY <2>2, <2>3, <2>4, <2>5, <3>1, <3>2
  <2>7. ASSUME NEW i \in 1..Len(queue'), NEW j \in 1..Len(queue'), i <= j
        PROVE  size(queue'[i]) <= size(queue'[j])
    <3>1. /\ i + 1 \in 1..Len(queue) /\ queue'[i] = queue[i + 1]
          /\ j + 1 \in 1..Len(queue) /\ queue'[j] = queue[j + 1] /\ i + 1 <= j + 1
      BY <2>2, <2>7
    <3> QED  BY <2>1, <3>1
  <2>8. ASSUME NEW d \in dead'
        PROVE  size(d) <= size(current')
    <3>1. d \in dead /\ size(d) \in Nat
      BY <2>2, <2>3, <2>4
    <3> QED  BY <2>1, <2>3, <2>4, <2>5, <3>1
  <2> QED  BY <2>6, <2>7, <2>8 DEF size
<1> QED  BY <1>1, <1>2, TakeFacts DEF Live

\* A solution taken from the queue has every step still to be made of it.
LEMMA TakeLosesNone ==
  ASSUME Live, Losing, Take
  PROVE  NoneLost' /\ Verdict'
<1>1. /\ InHandOK /\ InHandOK' /\ Elems(queue) \subseteq Solutions /\ pc = "search"
  BY TakeKeeps, TakeFacts, ElemsType DEF Live, Take
<1>2. Open' = Elems(queue') \cup Successors(current')
  BY TakeFacts DEF Open, InHand, ToTry
<1>3. current' \in Solutions /\ ~IsComplete(current')
  BY <1>1, TakeFacts DEF InHandOK
<1>4. Open = Elems(queue)
  BY <1>1 DEF Open, InHand, ToTry
<1>5. \A t \in Open : Serves(opts, Open', t)
  <2> SUFFICES ASSUME NEW t \in Elems(queue)
               PROVE  Serves(opts, Open', t)
    BY <1>4
  <2>1. CASE t \in Elems(queue')
    BY <1>1, <1>2, <2>1, ServesItself
  <2>2. CASE t = current'
    <3>1. \A u \in Successors(current') : Serves(opts, Open', u)
      BY <1>2, <1>3, SolutionFacts, ServesItself
    <3> QED  BY <1>3, <2>2, <3>1, SuccessorsServe
  <2> QED  BY <2>1, <2>2, TakeFacts
<1>6. Open' \in SUBSET Solutions
  <2>1. (Open \in SUBSET Solutions)'
    BY <1>1, OpenType, PTL
  <2> QED  BY <2>1
<1>7. Serves(opts, Open', FromProblem) /\ \A d \in dead : ServesFurther(opts, Open', d)
  BY <1>1, <1>5, <1>6, StillServes, FromProblemIsSolution DEF Losing, NoneLost, InHandOK
<1> QED  BY <1>7, TakeFacts DEF NoneLost, Verdict

LEMMA NothingDropped ==
  ASSUME InHandOK, NEW S \in SUBSET Solutions, Open \subseteq S
  PROVE  \A t \in Open : Serves(opts, S, t)
  BY OpenType, ServesItself

\* What serves for all in hand serves for all that it served for.
LEMMA Carried ==
  ASSUME InHandOK, Losing, pc \in {"search", "seek", "list", "extend"},
         NEW S \in SUBSET Solutions, \A t \in Open : Serves(opts, S, t)
  PROVE  /\ Serves(opts, S, FromProblem)
         /\ \A d \in dead : ServesFurther(opts, S, d)
         /\ pc \in {"list", "extend"} => ServesFurther(opts, S, current)
  BY StillServes, FromProblemIsSolution DEF Losing, NoneLost, InHandOK

LEMMA SeekFacts ==
  ASSUME Live, Seek
  PROVE  /\ pc = "seek" /\ pc' = "list" /\ UNCHANGED <<opts, queue, dead, current, untried, answer>>
         /\ current \in Solutions /\ ~IsComplete(current)
         /\ work' \in Seq(Item) /\ \A k \in 1..Len(work') : ItemOK(current, work'[k])
         /\ Listable /\ ~opts.e => Successors(current) \subseteq UNION {StepsBy(current, work'[k]) : k \in 1..Len(work')}
<1>1. pc = "seek" /\ current \in Solutions /\ ~IsComplete(current)
  BY DEF Live, InHandOK, Seek
<1>2. /\ pc' = "list" /\ UNCHANGED <<opts, queue, dead, current, untried, answer>>
      /\ work' \in IF TopTask(current).name \in Primitive
                    THEN OperatorWork(TopTask(current)) ELSE MethodWork(TopTask(current), current.state)
  BY <1>1 DEF Seek
<1> QED  BY <1>1, <1>2, WorkFacts

LEMMA SeekKeeps ==
  ASSUME Live, Seek
  PROVE  Live'
<1>1. InHandOK'
  BY SeekFacts DEF Live, InHandOK
<1>2. Level'
  BY SeekFacts DEF Live, Level
<1> QED  BY <1>1, <1>2, SeekFacts DEF Live

\* Every legal step is one of an operator or a method that is worked through.
LEMMA SeekLosesNone ==
  ASSUME Live, Losing, Seek
  PROVE  NoneLost' /\ Verdict'
<1>1. InHandOK /\ InHandOK'
  BY SeekKeeps DEF Live
<1>2. (Open \in SUBSET Solutions)'
  BY <1>1, OpenType, PTL
<1>3. Open = Elems(queue) \cup Successors(current)
  BY SeekFacts DEF Open, InHand, ToTry
<1>4. Open' = Elems(queue) \cup UNION {StepsBy(current, work'[k]) : k \in 1..Len(work')}
  BY SeekFacts DEF Open, InHand, ToTry
<1>5. Successors(current) \subseteq Open'
  BY <1>4, SeekFacts DEF Losing
<1>6. \A t \in Open : Serves(opts, Open', t)
  <2>1. Open \subseteq Open'
    BY <1>3, <1>4, <1>5
  <2> QED  BY <1>1, <1>2, <2>1, NothingDropped
<1>7. ServesFurther(opts, Open', current)
  <2>1. \A u \in Successors(current) : Serves(opts, Open', u)
    BY <1>3, <1>6
  <2> QED  BY <2>1, SeekFacts, SuccessorsServe
<1>8. Serves(opts, Open', FromProblem) /\ \A d \in dead : ServesFurther(opts, Open', d)
  BY <1>1, <1>2, <1>6, Carried, SeekFacts
<1> QED  BY <1>7, <1>8, SeekFacts DEF NoneLost, Verdict

LEMMA ListFacts ==
  ASSUME Live, List
  PROVE  /\ pc = "list" /\ pc' = "extend" /\ UNCHANGED <<opts, queue, dead, current, work, answer>>
         /\ current \in Solutions /\ ~IsComplete(current)
         /\ work \in Seq(Item) /\ work # <<>> /\ \A k \in 1..Len(work) : ItemOK(current, work[k])
         /\ Len(work) \in Nat \ {0} /\ ItemOK(current, work[1])
         /\ untried' \in IF work[1].oper THEN Listings(Instances(current, work[1]), {})
                          ELSE Listings(Instances(current, work[1]), FreeRelVars(Methods[work[1].index]))
         /\ untried' \subseteq Instances(current, work[1])
<1>1. /\ pc = "list" /\ pc' = "extend" /\ UNCHANGED <<opts, queue, dead, current, work, answer>>
      /\ work # <<>> /\ untried' \in InstanceLists(work[1])
  BY DEF List
<1>2. /\ current \in Solutions /\ ~IsComplete(current)
      /\ work \in Seq(Item) /\ \A k \in 1..Len(work) : ItemOK(current, work[k])
  BY <1>1 DEF Live, InHandOK
<1>3. Len(work) \in Nat \ {0} /\ ItemOK(current, work[1])
  BY <1>1, <1>2
<1>4. untried' \in IF work[1].oper THEN Listings(Instances(current, work[1]), {})
                    ELSE Listings(Instances(current, work[1]), FreeRelVars(Methods[work[1].index]))
  BY <1>1 DEF InstanceLists, Instances
<1>5. untried' \subseteq Instances(current, work[1])
  BY <1>4 DEF Listings
<1> QED  BY <1>1, <1>2, <1>3, <1>4, <1>5

LEMMA ListKeeps ==
  ASSUME Live, List
  PROVE  Live'
<1>1. InHandOK'
  BY ListFacts DEF Live, InHandOK
<1>2. Level'
  BY ListFacts DEF Live, Level
<1> QED  BY <1>1, <1>2, ListFacts DEF Live

\* Every step of the operator or method is as good as that of an instance listed.
LEMMA ListLosesNone ==
  ASSUME Live, Losing, List
  PROVE  NoneLost' /\ Verdict'
<1>1. InHandOK /\ InHandOK' /\ opts.maxDecomps \in Int
  BY ListKeeps, OptionsType DEF Live
<1>2. (Open \in SUBSET Solutions)'
  BY <1>1, OpenType, PTL
<1>3. Open = Elems(queue) \cup UNION {StepsBy(current, work[k]) : k \in 1..Len(work)}
  BY ListFacts DEF Open, InHand, ToTry
<1>4. Open' = Elems(queue) \cup {Made(current, work[1], sub) : sub \in untried'}
                \cup UNION {StepsBy(current, work[k]) : k \in 2..Len(work)}
  BY ListFacts DEF Open, InHand, ToTry
<1>5. ASSUME NEW t \in StepsBy(current, work[1])
      PROVE  Serves(opts, Open', t)
  <2>1. PICK sub \in untried' : NoWorse(Made(current, work[1], sub), t)
    BY ListFacts, ListingServes DEF Losing
  <2>2. Made(current, work[1], sub) \in Successors(current) /\ t \in Successors(current)
    BY ListFacts, MadeIsSuccessor, StepIsSuccessor
  <2>3. /\ Made(current, work[1], sub) \in Solutions /\ t \in Solutions
        /\ Len(Made(current, work[1], sub).tree) = Len(t.tree) /\ Len(t.tree) \in Nat
    <3>1. /\ Made(current, work[1], sub) \in Solutions /\ t \in Solutions
          /\ Len(Made(current, work[1], sub).tree) = Len(current.tree) + 1
          /\ Len(t.tree) = Len(current.tree) + 1
      BY <2>2, ListFacts, SolutionFacts
    <3> QED  BY <3>1, SolutionFacts
  <2>4. Made(current, work[1], sub) \in Open'
    BY <1>4
  <2>5. opts.b => Len(Made(current, work[1], sub).tree) <= Len(t.tree)
    BY <2>3
  <2> QED  BY <1>1, <2>1, <2>3, <2>4, <2>5, NoWorseServes
<1>6. ASSUME NEW t \in Open
      PROVE  Serves(opts, Open', t)
  <2>1. CASE t \in Open'
    BY <1>2, <2>1, ServesItself
  <2>2. CASE t \notin Open'
    <3>1. PICK k \in 1..Len(work) : t \in StepsBy(current, work[k])
      BY <1>3, <1>4, <2>2
    <3>2. k \notin 2..Len(work)
      BY <1>4, <2>2, <3>1
    <3>3. k = 1
      BY <3>1, <3>2, ListFacts
    <3> QED  BY <1>5, <3>1, <3>3
  <2> QED  BY <2>1, <2>2
<1>7. /\ Serves(opts, Open', FromProblem) /\ \A d \in dead : ServesFurther(opts, Open', d)
      /\ ServesFurther(opts, Open', current)
  BY <1>1, <1>2, <1>6, Carried, ListFacts
<1> QED  BY <1>7, ListFacts DEF NoneLost, Verdict

LEMMA EndInstancesFacts ==
  ASSUME Live, EndInstances
  PROVE  /\ pc = "extend" /\ pc' = "list" /\ UNCHANGED <<opts, queue, dead, current, untried, answer>> /\ untried = {}
         /\ work' \in Seq(Item) /\ Len(work') = Len(work) - 1 /\ Len(work) \in Nat \ {0}
         /\ \A k \in 1..Len(work') : work'[k] = work[k + 1] /\ k + 1 \in 2..Len(work)
         /\ \A k \in 1..Len(work) : ItemOK(current, work[k])
<1>1. /\ pc = "extend" /\ pc' = "list" /\ UNCHANGED <<opts, queue, dead, current, untried, answer>> /\ untried = {}
      /\ work' = Tail(work) /\ work \in Seq(Item) /\ work # <<>>
      /\ \A k \in 1..Len(work) : ItemOK(current, work[k])
  BY DEF EndInstances, Live, InHandOK
<1>2. /\ Tail(work) \in Seq(Item) /\ Len(Tail(work)) = Len(work) - 1 /\ Len(work) \in Nat \ {0}
      /\ \A k \in 1..Len(Tail(work)) : Tail(work)[k] = work[k + 1] /\ k + 1 \in 2..Len(work)
  BY <1>1
<1> QED  BY <1>1, <1>2

LEMMA EndInstancesKeeps ==
  ASSUME Live, EndInstances
  PROVE  Live'
<1>1. \A k \in 1..Len(work') : ItemOK(current, work'[k])
  BY EndInstancesFacts
<1>2. InHandOK'
  BY <1>1, EndInstancesFacts DEF Live, InHandOK
<1>3. Level'
  BY EndInstancesFacts DEF Live, Level
<1> QED  BY <1>2, <1>3, EndInstancesFacts DEF Live

LEMMA EndInstancesLosesNone ==
  ASSUME Live, Losing, EndInstances
  PROVE  NoneLost' /\ Verdict'
<1>1. InHandOK /\ InHandOK'
  BY EndInstancesKeeps DEF Live
<1>2. (Open \in SUBSET Solutions)'
  BY <1>1, OpenType, PTL
<1>3. Open = Elems(queue) \cup UNION {StepsBy(current, work[k]) : k \in 2..Len(work)}
  BY EndInstancesFacts DEF Open, InHand, ToTry
<1>4. Open' = Elems(queue) \cup UNION {StepsBy(current, work'[k]) : k \in 1..Len(work')}
  BY EndInstancesFacts DEF Open, InHand, ToTry
<1>5. ASSUME NEW k \in 2..Len(work)
      PROVE  StepsBy(current, work[k]) \subseteq Open'
  <2>1. k - 1 \in 1..Len(work') /\ (k - 1) + 1 = k
    BY EndInstancesFacts
  <2>2. work'[k - 1] = work[k]
    BY <2>1, EndInstancesFacts
  <2> QED  BY <1>4, <2>1, <2>2
<1>6. \A t \in Open : Serves(opts, Open', t)
  <2>1. Open \subseteq Open'
    BY <1>3, <1>4, <1>5
  <2> QED  BY <1>1, <1>2, <2>1, NothingDropped
<1>7. /\ Serves(opts, Open', FromProblem) /\ \A d \in dead : ServesFurther(opts, Open', d)
      /\ ServesFurther(opts, Open', current)
  BY <1>1, <1>2, <1>6, Carried, EndInstancesFacts
<1> QED  BY <1>7, EndInstancesFacts DEF NoneLost, Verdict

LEMMA EndExtensionFacts ==
  ASSUME Live, EndExtension
  PROVE  /\ pc = "list" /\ pc' = "search" /\ work = <<>> /\ UNCHANGED <<opts, queue, current, answer>>
         /\ dead' \subseteq dead \cup {current} /\ current \in Solutions /\ dead \in SUBSET Solutions
  BY DEF EndExtension, Live, InHandOK

LEMMA EndExtensionKeeps ==
  ASSUME Live, EndExtension
  PROVE  Live'
<1>1. InHandOK'
  BY EndExtensionFacts DEF Live, InHandOK
<1>2. Level'
  <2>1. Len(current.tree) \in Nat
    BY EndExtensionFacts, SolutionFacts
  <2> QED  BY <2>1, EndExtensionFacts DEF Live, Level
<1> QED  BY <1>1, <1>2, EndExtensionFacts DEF Live

LEMMA EndExtensionLosesNone ==
  ASSUME Live, Losing, EndExtension
  PROVE  NoneLost' /\ Verdict'
<1>1. InHandOK /\ InHandOK'
  BY EndExtensionKeeps DEF Live
<1>2. (Open \in SUBSET Solutions)'
  BY <1>1, OpenType, PTL
<1>3. Open = Elems(queue) \cup UNION {StepsBy(current, work[k]) : k \in 1..Len(work)}
  BY EndExtensionFacts DEF Open, InHand, ToTry
<1>4. Len(work) = 0
  BY EndExtensionFacts
<1>5. Open = Elems(queue) /\ Open' = Elems(queue)
  BY <1>3, <1>4, EndExtensionFacts DEF Open, InHand, ToTry
<1>6. \A t \in Open : Serves(opts, Open', t)
  BY <1>1, <1>2, <1>5, NothingDropped
<1>7. /\ Serves(opts, Open', FromProblem) /\ \A d \in dead : ServesFurther(opts, Open', d)
      /\ ServesFurther(opts, Open', current)
  BY <1>1, <1>2, <1>6, Carried, EndExtensionFacts
<1> QED  BY <1>7, EndExtensionFacts DEF NoneLost, Verdict

LEMMA GiveUpKeeps ==
  ASSUME Live, GiveUp
  PROVE  Live'
<1>1. pc' = "no plans" /\ UNCHANGED <<opts, queue, dead, current, work, untried, answer>>
  BY DEF GiveUp
<1>2. InHandOK'
  BY <1>1 DEF Live, InHandOK, Ends
<1>3. Level'
  BY <1>1 DEF Live, Level
<1> QED  BY <1>1, <1>2, <1>3 DEF Live

\* With nothing in hand there is nothing that could serve.
LEMMA GiveUpLosesNone ==
  ASSUME Live, Losing, GiveUp
  PROVE  NoneLost' /\ Verdict'
<1>1. pc = "search" /\ queue = <<>> /\ pc' = "no plans" /\ opts' = opts
  BY DEF GiveUp
<1>2. Open = {}
  <2>1. Elems(queue) = {}
    <3>1. Len(queue) = 0
      BY <1>1
    <3> QED  BY <3>1 DEF Elems
  <2> QED  BY <1>1, <2>1 DEF Open, InHand, ToTry
<1>3. Serves(opts, {}, FromProblem)
  BY <1>1, <1>2 DEF Losing, NoneLost
<1>4. \A n \in Nat : ~Completes(opts.maxDecomps, FromProblem, n)
  BY <1>3 DEF Serves
<1> QED  BY <1>1, <1>4 DEF NoneLost, Verdict

LEMMA ExtendFacts ==
  ASSUME Live, Extend
  PROVE  \E sub \in untried : \E new \in Solutions :
           /\ new = Made(current, work[1], sub) /\ new \in Successors(current) /\ Judge(new) /\ untried' = untried \ {sub}
           /\ Len(new.tree) = Len(current.tree) + 1 /\ Len(current.tree) \in Nat
<1>1. PICK sub \in untried : Judge(Applied(work[1], sub)) /\ untried' = untried \ {sub}
  BY DEF Extend
<1>2. /\ pc = "extend" /\ current \in Solutions /\ ~IsComplete(current) /\ work # <<>> /\ work \in Seq(Item)
      /\ \A k \in 1..Len(work) : ItemOK(current, work[k])
      /\ sub \in Instances(current, work[1])
  BY DEF Extend, Live, InHandOK
<1>3. Made(current, work[1], sub) \in Successors(current)
  <2>1. 1 \in 1..Len(work)
    BY <1>2
  <2> QED  BY <1>2, <2>1, MadeIsSuccessor
<1>4. Applied(work[1], sub) = Made(current, work[1], sub)
  BY Zenon DEF Applied, Made
<1>5. /\ Made(current, work[1], sub) \in Solutions /\ Len(current.tree) \in Nat
      /\ Len(Made(current, work[1], sub).tree) = Len(current.tree) + 1
  BY <1>2, <1>3, SolutionFacts
<1> QED  BY <1>1, <1>3, <1>4, <1>5

\* A new solution is an answer, or queued, or dropped.
Queued(new)  == ~IsComplete(new) /\ pc' = pc /\ answer' = answer /\ queue' = Append(queue, new)
Dropped(new) ==
  /\ ~IsComplete(new) /\ pc' = pc /\ answer' = answer /\ queue' = queue
  /\ (opts.maxDecomps >= 0 /\ new.numDecomps >= opts.maxDecomps) \/ IsDuplicate(new)

LEMMA Judged ==
  ASSUME NEW new, Judge(new)
  PROVE  \/ IsComplete(new) /\ pc' = "found" /\ answer' = <<new>> /\ queue' = queue
         \/ Queued(new) \/ Dropped(new)
  BY DEF Judge, Queued, Dropped

LEMMA ExtendKeeps ==
  ASSUME Live, Extend
  PROVE  Live'
<1>1. PICK sub \in untried, new \in Solutions :
        /\ new \in Successors(current) /\ Judge(new) /\ untried' = untried \ {sub}
        /\ Len(new.tree) = Len(current.tree) + 1 /\ Len(current.tree) \in Nat
  BY ExtendFacts
<1>2. pc = "extend" /\ UNCHANGED <<opts, dead, current, work>>
  BY DEF Extend
<1>3. (queue' = queue /\ pc' \in {"found", "extend"}) \/ Queued(new)
  BY <1>1, <1>2, Judged DEF Dropped
<1>4. CASE queue' = queue /\ pc' \in {"found", "extend"}
  <2>1. InHandOK'
    BY <1>1, <1>2, <1>4 DEF Live, InHandOK, Ends
  <2>2. Level'
    BY <1>2, <1>4 DEF Live, Level
  <2> QED  BY <1>2, <2>1, <2>2 DEF Live
<1>5. CASE Queued(new)
  <2>1. queue \in Seq(Solutions) /\ queue' = Append(queue, new) /\ ~IsComplete(new) /\ pc' = pc
    BY <1>5 DEF Live, InHandOK, Queued
  <2>2. /\ queue' \in Seq(Solutions) /\ Len(queue') = Len(queue) + 1 /\ Len(queue) \in Nat
        /\ \A i \in 1..Len(queue) : queue'[i] = queue[i]
        /\ queue'[Len(queue) + 1] = new
        /\ Elems(queue') = Elems(queue) \cup {new}
    BY <2>1, Enqueued
  <2>3. InHandOK'
    BY <1>1, <1>2, <2>1, <2>2 DEF Live, InHandOK
  <2>4. Level'
    <3> SUFFICES ASSUME opts.b
                 PROVE  /\ \A i \in 1..Len(queue') :
                             Len(current.tree) <= Len(queue'[i].tree) /\ Len(queue'[i].tree) <= Len(current.tree) + 1
                        /\ \A i, j \in 1..Len(queue') : i <= j => Len(queue'[i].tree) <= Len(queue'[j].tree)
      BY <1>2 DEF Level, Live
    <3> DEFINE size(x) == Len(x.tree)
    <3>1. /\ \A i \in 1..Len(queue) : size(current) <= size(queue[i]) /\ size(queue[i]) <= size(current) + 1
          /\ \A i, j \in 1..Len(queue) : i <= j => size(queue[i]) <= size(queue[j])
      BY DEF Live, Level
    <3>2. size(new) = size(current) + 1 /\ size(current) \in Nat
      BY <1>1
    <3>3. \A i \in 1..Len(queue') : i \in 1..Len(queue) \/ i = Len(queue) + 1
      BY <2>2
    <3> HIDE DEF size
    <3>4. ASSUME NEW i \in 1..Len(queue')
          PROVE  size(current) <= size(queue'[i]) /\ size(queue'[i]) <= size(current) + 1
      <4>1. CASE i \in 1..Len(queue)
        BY <2>2, <3>1, <4>1
      <4>2. CASE i = Len(queue) + 1
        BY <2>2, <3>2, <4>2
      <4> QED  BY <3>3, <4>1, <4>2
    <3>5. ASSUME NEW i \in 1..Len(queue'), NEW j \in 1..Len(queue'), i <= j
          PROVE  size(queue'[i]) <= size(queue'[j])
      <4>1. CASE j \in 1..Len(queue)
        <5>1. i \in 1..Len(queue)
          BY <2>2, <3>5, <4>1
        <5> QED  BY <2>2, <3>1, <3>5, <4>1, <5>1
      <4>2. CASE j = Len(queue) + 1
        BY <2>2, <3>2, <3>4, <4>2
      <4> QED  BY <3>3, <4>1, <4>2
    <3> QED  BY <3>4, <3>5 DEF size
  <2> QED  BY <1>2, <2>3, <2>4 DEF Live
<1> QED  BY <1>3, <1>4, <1>5

\* A solution at the limit cannot be completed, so nothing need serve for it.
LEMMA LimitServes ==
  ASSUME NEW o \in Options, NEW S, NEW new \in Solutions, ~IsComplete(new),
         o.maxDecomps >= 0, new.numDecomps >= o.maxDecomps
  PROVE  Serves(o, S, new)
<1>1. o.maxDecomps \in Int /\ new.numDecomps \in Nat
  BY SolutionFacts DEF Options
<1>2. ASSUME NEW n \in Nat, Completes(o.maxDecomps, new, n)
      PROVE  FALSE
  <2>1. n # 0
    BY <1>2, RunNone
  <2>2. n - 1 \in Nat /\ (n - 1) + 1 = n
    BY <2>1
  <2>3. Explorable(new, o.maxDecomps)
    BY <1>2, <2>2, RunOn
  <2> QED  BY <1>1, <2>3 DEF Explorable
<1> QED  BY <1>2 DEF Serves

\* Nor need anything serve for a duplicate: what serves by fewer steps for the
\* solution already extended is not the duplicate itself.
LEMMA ExtendedServes ==
  ASSUME NEW o \in Options, NEW S, NEW new \in Solutions, NEW old \in Solutions, NoWorse(old, new),
         o.b => Len(old.tree) <= Len(new.tree), ServesFurther(o, S, old), S \in SUBSET Solutions
  PROVE  Serves(o, S \ {new}, new)
<1> SUFFICES ASSUME NEW n \in Nat, Completes(o.maxDecomps, new, n)
             PROVE  \E t \in S \ {new} : \E j \in 0..n :
                      Completes(o.maxDecomps, t, j) /\ (o.b => Len(t.tree) + j <= Len(new.tree) + n)
  BY DEF Serves
<1>0. o.maxDecomps \in Int /\ Len(old.tree) \in Nat /\ Len(new.tree) \in Nat
  BY SolutionFacts DEF Options
<1> DEFINE M == {k \in Nat : Completes(o.maxDecomps, old, k)}
<1>1. n \in M
  BY <1>0, NoWorseCompletes
<1>2. PICK m \in M : \A k \in M : m <= k
  <2>1. M \in SUBSET Nat /\ M # {}
    BY <1>1
  <2> HIDE DEF M
  <2> QED  BY <2>1, Least
<1>3. PICK t \in S : \E j \in 0..m : j # m
        /\ Completes(o.maxDecomps, t, j) /\ (o.b => Len(t.tree) + j <= Len(old.tree) + m)
  BY <1>2 DEF ServesFurther
<1>4. PICK j \in 0..m : j # m
        /\ Completes(o.maxDecomps, t, j) /\ (o.b => Len(t.tree) + j <= Len(old.tree) + m)
  BY <1>3
<1>5. m \in Nat /\ m <= n /\ j < m /\ j \in Nat
  BY <1>1, <1>2, <1>4
<1>6. t # new
  <2>1. ~Completes(o.maxDecomps, old, j)
    BY <1>2, <1>5
  <2> QED  BY <1>0, <1>4, <1>5, <2>1, NoWorseCompletes
<1>7. o.b => Len(t.tree) + j <= Len(new.tree) + n
  <2>1. Len(t.tree) \in Nat
    BY SolutionFacts
  <2> QED  BY <1>0, <1>4, <1>5, <2>1
<1>8. j \in 0..n
  BY <1>5
<1> QED  BY <1>4, <1>6, <1>7, <1>8

LEMMA ExtendLosesNone ==
  ASSUME Live, Losing, Extend
  PROVE  NoneLost' /\ Verdict'
<1>1. PICK sub \in untried, new \in Solutions :
        /\ new = Made(current, work[1], sub) /\ new \in Successors(current) /\ Judge(new) /\ untried' = untried \ {sub}
        /\ Len(new.tree) = Len(current.tree) + 1 /\ Len(current.tree) \in Nat
  BY ExtendFacts
<1>2. pc = "extend" /\ UNCHANGED <<opts, dead, current, work>>
  BY DEF Extend
<1>3. /\ InHandOK /\ InHandOK' /\ opts \in Options /\ opts.maxDecomps \in Int /\ current \in Solutions
      /\ dead \in SUBSET Solutions /\ queue \in Seq(Solutions)
      /\ \A s \in Elems(queue) : s \in Solutions /\ ~IsComplete(s)
      /\ ~IsComplete(current)
  BY <1>2, ExtendKeeps, OptionsType, ElemsType DEF Live, InHandOK
<1>4. /\ Serves(opts, Open, FromProblem)
      /\ \A d \in dead : ServesFurther(opts, Open, d)
  BY <1>2 DEF Losing, NoneLost
<1>5. (Open \in SUBSET Solutions)' /\ Open \in SUBSET Solutions
  BY <1>3, OpenType, PTL
<1>6. Open = Elems(queue) \cup {Made(current, work[1], s) : s \in untried}
                \cup UNION {StepsBy(current, work[k]) : k \in 2..Len(work)}
  BY <1>2 DEF Open, InHand, ToTry
<1>7. opts.b => \A s \in Elems(queue) : Len(current.tree) <= Len(s.tree) /\ Len(s.tree) <= Len(current.tree) + 1
  BY DEF Live, Level, Elems
<1>8. opts.b => \A d \in dead : Len(d.tree) <= Len(current.tree)
  BY DEF Live, Level
<1>9. CASE IsComplete(new)
  <2>1. pc' = "found" /\ answer' = <<new>>
    BY <1>1, <1>9, Judged DEF Queued, Dropped
  <2>2. ASSUME opts.b, NEW n \in Nat, Completes(opts.maxDecomps, FromProblem, n)
        PROVE  Len(new.tree) <= n
    <3>1. PICK t \in Open : \E j \in 0..n :
            Completes(opts.maxDecomps, t, j) /\ Len(t.tree) + j <= Len(FromProblem.tree) + n
      BY <1>4, <2>2 DEF Serves
    <3>2. PICK j \in 0..n : Completes(opts.maxDecomps, t, j) /\ Len(t.tree) + j <= Len(FromProblem.tree) + n
      BY <3>1
    <3>3. Len(FromProblem.tree) = 0 /\ t \in Solutions /\ Len(t.tree) \in Nat
      BY <1>5, FromProblemIsSolution, SolutionFacts
    <3>4. CASE t \in Elems(queue)
      <4>1. ~IsComplete(t)
        BY <1>3, <3>4
      <4>2. j # 0
        BY <3>2, <3>3, <4>1, RunNone
      <4>3. Len(current.tree) <= Len(t.tree)
        BY <1>7, <2>2, <3>4
      <4> QED  BY <1>1, <3>2, <3>3, <4>2, <4>3
    <3>5. CASE t \notin Elems(queue)
      <4>1. t \in Successors(current)
        BY <1>3, <3>5, ToTryType DEF Open, InHand
      <4>2. Len(t.tree) = Len(current.tree) + 1
        BY <1>3, <4>1, SolutionFacts
      <4> QED  BY <1>1, <3>2, <3>3, <4>2
    <3> QED  BY <3>4, <3>5
  <2>3. answer'[1] = new
    BY <2>1
  <2> QED  BY <1>2, <2>1, <2>2, <2>3 DEF NoneLost, Verdict
<1>10. CASE ~IsComplete(new)
  <2>1. Queued(new) \/ Dropped(new)
    BY <1>1, <1>10, Judged
  <2>2. pc' = pc /\ Elems(queue) \subseteq Elems(queue')
    <3>1. CASE Queued(new)
      BY <1>3, <3>1, Enqueued DEF Queued
    <3>2. CASE Dropped(new)
      BY <3>2 DEF Dropped
    <3> QED  BY <2>1, <3>1, <3>2
  <2>3. Open' = Elems(queue') \cup {Made(current, work[1], s) : s \in untried \ {sub}}
                  \cup UNION {StepsBy(current, work[k]) : k \in 2..Len(work)}
    BY <1>1, <1>2, <2>2 DEF Open, InHand, ToTry
  <2>4. Open \ {new} \subseteq Open'
    BY <1>1, <1>6, <2>2, <2>3
  <2>5. Serves(opts, Open', new)
    <3>1. CASE new \in Open'
      BY <3>1, ServesItself
    <3>2. CASE new \notin Open'
      <4>1. Dropped(new)
        <5>1. Queued(new) => new \in Elems(queue')
          BY <1>3, Enqueued DEF Queued
        <5> QED  BY <2>1, <2>3, <3>2, <5>1
      <4>2. CASE opts.maxDecomps >= 0 /\ new.numDecomps >= opts.maxDecomps
        BY <1>3, <1>10, <4>2, LimitServes
      <4>3. CASE IsDuplicate(new)
        <5>1. PICK s \in Elems(queue) \cup dead : Equivalent(s, new) /\ s.numDecomps <= new.numDecomps
          BY <4>3 DEF IsDuplicate
        <5>2. NoWorse(s, new) /\ s \in Solutions
          BY <1>3, <5>1 DEF NoWorse, Alike, Equivalent
        <5>3. CASE s \in Elems(queue)
          <6>1. s \in Open'
            BY <2>2, <2>3, <5>3
          <6>2. opts.b => Len(s.tree) <= Len(new.tree)
            BY <1>1, <1>7, <5>3
          <6> QED  BY <1>3, <5>2, <6>1, <6>2, NoWorseServes
        <5>4. CASE s \in dead
          <6>1. opts.b => Len(s.tree) <= Len(new.tree)
            <7>1. Len(s.tree) \in Nat
              BY <5>2, SolutionFacts
            <7> QED  BY <1>1, <1>8, <5>4, <7>1
          <6>2. Serves(opts, Open \ {new}, new)
            BY <1>3, <1>4, <1>5, <5>2, <5>4, <6>1, ExtendedServes
          <6>3. Serves(opts, Open', new)
            BY <2>4, <6>2 DEF Serves
          <6> QED  BY <6>3
        <5> QED  BY <5>1, <5>3, <5>4
      <4> QED  BY <4>1, <4>2, <4>3 DEF Dropped
    <3> QED  BY <3>1, <3>2
  <2>6. \A t \in Open : Serves(opts, Open', t)
    BY <1>5, <2>4, <2>5, ServesItself
  <2>7. /\ Serves(opts, Open', FromProblem) /\ \A d \in dead : ServesFurther(opts, Open', d)
        /\ ServesFurther(opts, Open', current)
    BY <1>2, <1>3, <1>5, <2>6, Carried
  <2> QED  BY <1>2, <2>2, <2>7 DEF NoneLost, Verdict
<1> QED  BY <1>9, <1>10

LEMMA EmptyIsIdle ==
  ASSUME IsComplete(FromProblem), Idle, [Next]_vars
  PROVE  Idle'
<1> SUFFICES ASSUME Next
             PROVE  Idle'
  BY DEF Idle, vars
<1>1. CASE Start
  BY <1>1 DEF Idle, Start
<1>2. CASE Take
  <2>1. pc = "search" /\ queue = <<FromProblem>> /\ pc' = "seek"
        /\ IF opts.b THEN current' = Head(queue) ELSE current' = Last(queue)
    BY <1>2 DEF Take, Idle
  <2>2. current' = FromProblem
    BY <2>1 DEF Last
  <2> QED  BY <2>1, <2>2 DEF Idle
<1>3. CASE Seek
  BY <1>3 DEF Seek, Idle
<1>4. CASE GiveUp
  <2>1. queue = <<FromProblem>> /\ queue = <<>>
    BY <1>4 DEF GiveUp, Idle
  <2>2. Len(<<FromProblem>>) = 1 /\ Len(<<>>) = 0
    OBVIOUS
  <2>3. Len(queue) = 1 /\ Len(queue) = 0
    BY <2>1, <2>2
  <2> QED  BY <2>3
<1>5. CASE List \/ Extend \/ EndInstances \/ EndExtension
  <2>1. pc \in {"list", "extend"}
    BY <1>5 DEF List, Extend, EndInstances, EndExtension
  <2>2. pc \in {"start", "search", "seek", "exception"}
    BY DEF Idle
  <2> QED  BY <2>1, <2>2
<1> QED  BY <1>1, <1>2, <1>3, <1>4, <1>5 DEF Next

LEMMA Started == Init => IInv
<1> SUFFICES ASSUME Init
             PROVE  IInv
  OBVIOUS
<1>1. /\ pc = "start" /\ opts \in CommandLines /\ queue = <<>> /\ dead = {} /\ current = FromProblem
  BY DEF Init
<1> DEFINE q == <<>>
<1>2. q \in Seq(Solutions) /\ Len(q) = 0 /\ Elems(q) = {}
  <2>1. q \in Seq(Solutions) /\ Len(q) = 0
    OBVIOUS
  <2> QED  BY <2>1 DEF Elems
<1>3. queue = q
  BY <1>1
<1> HIDE DEF q
<1>4. InHandOK
  BY <1>1, <1>2, <1>3, FromProblemIsSolution DEF InHandOK, Ends
<1>5. Level
  BY <1>1, <1>2, <1>3 DEF Level
<1> QED  BY <1>1, <1>4, <1>5 DEF IInv, Idle, NoneLost, Verdict

LEMMA Kept == IInv /\ [Next]_vars => IInv'
<1> SUFFICES ASSUME IInv, [Next]_vars
             PROVE  IInv'
  OBVIOUS
<1>1. opts' = opts
  BY DEF Next, vars, Start, Take, Seek, List, Extend, EndInstances, EndExtension, GiveUp
<1>2. CASE IsComplete(FromProblem)
  <2>1. Idle'
    BY <1>2, EmptyIsIdle DEF IInv
  <2> QED  BY <1>1, <1>2, <2>1 DEF IInv
<1>3. CASE ~IsComplete(FromProblem)
  <2>1. Live
    BY <1>3 DEF IInv, Live
  <2>2. CASE UNCHANGED vars
    <3>1. InHandOK' /\ Level' /\ (NoneLost => NoneLost') /\ (Verdict => Verdict')
      BY <2>1, <2>2 DEF Live, vars, InHandOK, Level, NoneLost, Verdict, Open
    <3> QED  BY <1>1, <1>3, <3>1 DEF IInv, Idle
  <2>3. CASE Next
    <3>1. Live'
      BY <2>1, <2>3, StartKeeps, TakeKeeps, SeekKeeps, ListKeeps, ExtendKeeps, EndInstancesKeeps,
         EndExtensionKeeps, GiveUpKeeps DEF Next
    <3>2. ASSUME Listable, ~opts.e
          PROVE  NoneLost' /\ Verdict'
      <4>1. Losing
        BY <1>3, <3>2 DEF IInv, Losing
      <4> QED  BY <2>1, <2>3, <4>1, StartLosesNone, TakeLosesNone, SeekLosesNone, ListLosesNone, ExtendLosesNone,
                  EndInstancesLosesNone, EndExtensionLosesNone, GiveUpLosesNone DEF Next
    <3> QED  BY <1>1, <1>3, <3>1, <3>2 DEF IInv, Live, Idle
  <2> QED  BY <2>2, <2>3
<1> QED  BY <1>2, <1>3

LEMMA Invariance == Spec => []IInv
<1> QED  BY Started, Kept, PTL DEF Spec

LEMMA StepsOfPlansComplete ==
  ASSUME opts \in CommandLines, NEW n \in StepsOfPlans[opts.maxDecomps]
  PROVE  n \in Nat /\ Completes(opts.maxDecomps, FromProblem, n)
<1>1. opts.maxDecomps \in {o.maxDecomps : o \in CommandLines} /\ opts.maxDecomps \in Int
  BY OptionsType
<1>2. StepsOfPlans[opts.maxDecomps] =
        {k \in 0..Horizon : \E s \in Reached(opts.maxDecomps)[k] : IsComplete(s)}
  BY <1>1, Zenon DEF StepsOfPlans
<1>3. n \in 0..Horizon /\ \E s \in Reached(opts.maxDecomps)[n] : IsComplete(s)
  BY <1>2
<1>4. n \in Nat
  BY <1>3, CommandLineAssumption
<1> QED  BY <1>1, <1>3, <1>4, ReachedCompletes

\* Whatever the order of methods and instances, whatever the limit and whatever
\* is dropped as a duplicate: "No legal plans." is said only if there is none.
THEOREM NoPlanIsMissed == Spec => []NoPlanMissed
<1>1. IInv => NoPlanMissed
  <2> SUFFICES ASSUME IInv, pc = "no plans", ~opts.e, Listable, NEW n \in StepsOfPlans[opts.maxDecomps]
               PROVE  FALSE
    BY DEF NoPlanMissed
  <2>1. opts \in CommandLines
    BY DEF IInv
  <2>2. n \in Nat /\ Completes(opts.maxDecomps, FromProblem, n)
    BY <2>1, StepsOfPlansComplete
  <2>3. ~IsComplete(FromProblem)
    BY DEF IInv, Idle
  <2>4. Verdict
    BY <2>3 DEF IInv
  <2> QED  BY <2>2, <2>4 DEF Verdict
<1> QED  BY <1>1, Invariance, PTL

\* Breadth first, the plan found takes the fewest steps of work there are.
THEOREM PlansTakeFewestSteps == Spec => []FewestSteps
<1>1. IInv => FewestSteps
  <2> SUFFICES ASSUME IInv, pc = "found", opts.b, ~opts.e, Listable, NEW n \in StepsOfPlans[opts.maxDecomps]
               PROVE  n >= Len(answer[1].tree)
    BY DEF FewestSteps
  <2>1. opts \in CommandLines
    BY DEF IInv
  <2>2. n \in Nat /\ Completes(opts.maxDecomps, FromProblem, n)
    BY <2>1, StepsOfPlansComplete
  <2>3. ~IsComplete(FromProblem)
    BY DEF IInv, Idle
  <2>4. Verdict
    BY <2>3 DEF IInv
  <2>5. Len(answer[1].tree) <= n
    BY <2>2, <2>4 DEF Verdict
  <2> QED  BY <2>5
<1> QED  BY <1>1, Invariance, PTL
==============================================================================
