--------------------------- MODULE MethodLibrary ---------------------------
(***************************************************************************)
(* The library of methods htn-maker learns into: HtnDomain::m_vMethods     *)
(* under DoSubsumption, DoQValueUpdate and AddMethod.  The two loops are   *)
(* modelled one iteration at a time, because they erase from the vector    *)
(* they walk.  What a method says is its body; only the subsumption        *)
(* relation between bodies matters here.                                   *)
(***************************************************************************)
EXTENDS Integers, Sequences, FiniteSets, SequencesExt

CONSTANTS Body,            \* heads, preconditions and subtasks of methods
          CheckBody,       \* those of a "check-..." task: ND checkers
          VerifyBody,      \* those MakeSoundnessCheckMethods makes
          NameOf(_),       \* the name of the task a body is for
          Subsumes(_, _),  \* HtnMethod::Subsumes
          Libraries,       \* the libraries the domain file may hold
          DeclaresIds,     \* whether the domain requires :method-ids
          Costs,           \* bound: the costs of learned methods
          MaxOffers        \* bound: how many methods are offered

\* learned: the method was made by LearnFromExactSequence or LearnOneNdChecker.
\* An id is the number it was printed from, 0 for the empty string.
Entry == [body : Body, id : Nat, count : Nat, total : Nat, learned : BOOLEAN]

\* The ids of a library are distinct, where there are ids.
IdsDistinct(l) ==
  \A i, j \in 1..Len(l) : l[i].id = l[j].id /\ l[i].id # 0 => i = j

ASSUME LibraryAssumption ==
  /\ \A a \in Body : Subsumes(a, a)
  /\ Body # {} /\ CheckBody \cup VerifyBody \subseteq Body /\ Costs \subseteq Nat /\ DeclaresIds \in BOOLEAN
  /\ MaxOffers \in Nat
  /\ \A l \in Libraries :
       l \in Seq(Entry) /\ IdsDistinct(l) /\ \A i \in 1..Len(l) : ~l[i].learned

VARIABLES flags,     \* qvalues and no_subsumption of g_iFlags
          lib,       \* m_vMethods
          maxId,     \* g_iMaxMethodId
          pc,        \* the loop being run, or "idle" between methods
          cand,      \* the new method, p_pNewMethod
          m,         \* the loop's index (from 1)
          inserted,  \* l_bInserted
          offered    \* how many methods were offered

vars == <<flags, lib, maxId, pc, cand, m, inserted, offered>>

Flags == [qvalues : BOOLEAN, no_subsumption : BOOLEAN]

Covers(a, b)     == Subsumes(a.body, b.body)
Equivalent(a, b) == Covers(a, b) /\ Covers(b, a)

\* snprintf( g_cMethodIdStr, 8, "%d", n ) keeps the first seven digits of n.
LongId == 10000000

PrintedId(n) ==
  CASE n < LongId -> n
    [] LongId <= n /\ n < 10 * LongId -> n \div 10
    [] 10 * LongId <= n /\ n < 100 * LongId -> n \div 100
    [] OTHER -> n \div 1000

\* Slip: the id is printed before the counter is raised.
NextIdStale == maxId

NextId == IF DeclaresIds THEN maxId + 1 ELSE maxId

NewEntry(body, count, total, learned) ==
  [body |-> body, id |-> IF DeclaresIds THEN PrintedId(NextId) ELSE 0,
   count |-> count, total |-> total, learned |-> learned]

\* Slip: the cost is added and the count is left.
UpdateQValueUncounted(e, cost) == [e EXCEPT !.total = @ + cost]

\* HtnMethod::UpdateQValue keeps the running mean, here the sum, of the costs.
UpdateQValue(e, cost) == [e EXCEPT !.count = @ + 1, !.total = @ + cost]

\* The ids main scans for the highest one.
IdsIn(l) == {0} \cup IF DeclaresIds THEN {l[i].id : i \in 1..Len(l)} ELSE {}

----------------------------------------------------------------------------
Init ==
  /\ flags \in Flags /\ lib \in Libraries
  /\ maxId \in IdsIn(lib) /\ \A n \in IdsIn(lib) : n <= maxId
  /\ pc = "idle" /\ cand = NewEntry(CHOOSE b \in Body : TRUE, 0, 0, FALSE)
  /\ m = 1 /\ inserted = FALSE /\ offered = 0

\* Methods made for the user's flags, before any learning.
AddBeforeLearning(b) ==
  /\ pc = "idle" /\ offered = 0
  /\ lib' = Append(lib, NewEntry(b, 0, 0, FALSE)) /\ maxId' = NextId
  /\ UNCHANGED <<flags, pc, cand, m, inserted, offered>>

\* MakeSoundnessCheckMethods: unless the library has a method of that name.
AddVerifier ==
  \E b \in VerifyBody :
    (\A i \in 1..Len(lib) : NameOf(lib[i].body) # NameOf(b)) /\ AddBeforeLearning(b)

\* MakeTrivialNdCheckers: unless the library has an equivalent method.
AddTrivialChecker ==
  \E b \in CheckBody :
    /\ \A i \in 1..Len(lib) : ~(Subsumes(lib[i].body, b) /\ Subsumes(b, lib[i].body))
    /\ AddBeforeLearning(b)

\* A method is made and given its id, and takes the route its flags say.
Offer(e, route) ==
  /\ pc = "idle" /\ offered < MaxOffers /\ offered' = offered + 1
  /\ cand' = e /\ maxId' = NextId /\ m' = 1 /\ inserted' = FALSE
  /\ pc' = route
  /\ lib' = IF route = "idle" THEN Append(lib, e) ELSE lib
  /\ UNCHANGED flags

\* The end of LearnFromExactSequence, for a task of the task list.
LearnMethod ==
  \E b \in Body \ (CheckBody \cup VerifyBody), c \in Costs :
    Offer(NewEntry(b, IF flags.qvalues THEN 1 ELSE 0, IF flags.qvalues THEN c ELSE 0, TRUE),
          IF flags.qvalues THEN "update" ELSE IF flags.no_subsumption THEN "idle" ELSE "find")

\* The end of LearnOneNdChecker.
LearnNdChecker ==
  \E b \in CheckBody :
    Offer(NewEntry(b, 0, 0, TRUE), IF flags.no_subsumption THEN "idle" ELSE "find")

\* A method whose only subtask is its own head takes an id and is deleted.
DropSelfLoop ==
  /\ pc = "idle" /\ offered < MaxOffers /\ offered' = offered + 1 /\ maxId' = NextId
  /\ UNCHANGED <<flags, lib, pc, cand, m, inserted>>

\* Slip: the index of the second loop starts from 0.
FindFromZero ==
  /\ pc = "find"
  /\ IF m > Len(lib) THEN pc' = "replace" /\ m' = 0
     ELSE IF Covers(lib[m], cand) THEN pc' = "idle" /\ m' = m
     ELSE pc' = pc /\ m' = m + 1
  /\ UNCHANGED <<flags, lib, maxId, cand, inserted, offered>>

\* Slip: subsumption is asked the wrong way round.
FindTurned ==
  /\ pc = "find"
  /\ IF m > Len(lib) THEN pc' = "replace" /\ m' = 1
     ELSE IF Covers(cand, lib[m]) THEN pc' = "idle" /\ m' = m
     ELSE pc' = pc /\ m' = m + 1
  /\ UNCHANGED <<flags, lib, maxId, cand, inserted, offered>>

\* DoSubsumption, first loop: is the new method subsumed?
Find ==
  /\ pc = "find"
  /\ IF m > Len(lib) THEN pc' = "replace" /\ m' = 1
     ELSE IF Covers(lib[m], cand) THEN pc' = "idle" /\ m' = m
     ELSE pc' = pc /\ m' = m + 1
  /\ UNCHANGED <<flags, lib, maxId, cand, inserted, offered>>

\* Slip: the index stays where it is.
KeepStill ==
  /\ pc = "replace" /\ m <= Len(lib) /\ ~Covers(cand, lib[m])
  /\ m' = m /\ UNCHANGED <<flags, lib, maxId, pc, cand, inserted, offered>>

\* DoSubsumption, second loop: the new method takes the place of the first one
\* it subsumes, and the others are removed.
Keep ==
  /\ pc = "replace" /\ m <= Len(lib) /\ ~Covers(cand, lib[m])
  /\ m' = m + 1 /\ UNCHANGED <<flags, lib, maxId, pc, cand, inserted, offered>>

ReplaceMethod ==
  /\ pc = "replace" /\ m <= Len(lib) /\ Covers(cand, lib[m]) /\ ~inserted
  /\ inserted' = TRUE /\ lib' = [lib EXCEPT ![m] = cand] /\ m' = m + 1
  /\ UNCHANGED <<flags, maxId, pc, cand, offered>>

\* Slip: the index is not stepped back after the removal.
RemoveMethodAndSkip ==
  /\ pc = "replace" /\ m <= Len(lib) /\ Covers(cand, lib[m]) /\ inserted
  /\ lib' = RemoveAt(lib, m) /\ m' = m + 1
  /\ UNCHANGED <<flags, maxId, pc, cand, inserted, offered>>

\* RemoveMethod( m ), then m--, then the loop's m++.
RemoveMethod ==
  /\ pc = "replace" /\ m <= Len(lib) /\ Covers(cand, lib[m]) /\ inserted
  /\ lib' = RemoveAt(lib, m) /\ m' = m
  /\ UNCHANGED <<flags, maxId, pc, cand, inserted, offered>>

EndReplace ==
  /\ pc = "replace" /\ m > Len(lib) /\ pc' = "idle"
  /\ lib' = IF inserted THEN lib ELSE Append(lib, cand)
  /\ UNCHANGED <<flags, maxId, cand, m, inserted, offered>>

\* Slip: the last method is never compared.
UpdateButLast ==
  /\ pc = "update"
  /\ IF m >= Len(lib) THEN pc' = "idle" /\ m' = m /\ lib' = Append(lib, cand)
     ELSE IF Equivalent(lib[m], cand)
       THEN /\ pc' = "idle" /\ m' = m
            /\ lib' = [lib EXCEPT ![m] = UpdateQValue(@, cand.total)]
     ELSE pc' = pc /\ m' = m + 1 /\ lib' = lib
  /\ UNCHANGED <<flags, maxId, cand, inserted, offered>>

\* DoQValueUpdate: the first equivalent method learns the new one's cost.
Update ==
  /\ pc = "update"
  /\ IF m > Len(lib) THEN pc' = "idle" /\ m' = m /\ lib' = Append(lib, cand)
     ELSE IF Equivalent(lib[m], cand)
       THEN /\ pc' = "idle" /\ m' = m
            /\ lib' = [lib EXCEPT ![m] = UpdateQValue(@, cand.total)]
     ELSE pc' = pc /\ m' = m + 1 /\ lib' = lib
  /\ UNCHANGED <<flags, maxId, cand, inserted, offered>>

Step == Find \/ Keep \/ ReplaceMethod \/ RemoveMethod \/ EndReplace \/ Update

Next == AddVerifier \/ AddTrivialChecker \/ LearnMethod \/ LearnNdChecker \/ DropSelfLoop \/ Step

Spec == Init /\ [][Next]_vars /\ WF_vars(Step)

----------------------------------------------------------------------------
(* Correctness                                                             *)

TypeOK ==
  /\ flags \in Flags /\ lib \in Seq(Entry) /\ maxId \in Nat
  /\ pc \in {"idle", "find", "replace", "update"} /\ cand \in Entry
  /\ m \in Nat \ {0} /\ inserted \in BOOLEAN /\ offered \in Nat

Pruning == ~flags.qvalues /\ ~flags.no_subsumption

\* Between methods, no learned method is subsumed by another method or subsumes
\* one, whatever redundancy the file came with.
NoRedundantMethod ==
  pc = "idle" /\ Pruning =>
    \A i, j \in 1..Len(lib) :
      i # j /\ Covers(lib[i], lib[j]) => ~lib[i].learned /\ ~lib[j].learned

\* With --qvalues the library keeps subsumed methods, but the observations of
\* one method are never split over two: no learned method has an equivalent.
NoTwins ==
  pc = "idle" /\ ~flags.no_subsumption =>
    \A i, j \in 1..Len(lib) :
      i # j /\ Equivalent(lib[i], lib[j]) => ~lib[i].learned /\ ~lib[j].learned

\* No step of the loops loses what a method of the library could do: one that
\* covers it is still there.  When the new method is done with, so is one that
\* covers it.
Forgotten ==
  \/ \E i \in 1..Len(lib) : \A j \in 1..Len(lib') : ~Covers(lib'[j], lib[i])
  \/ pc # "idle" /\ pc' = "idle" /\ \A j \in 1..Len(lib') : ~Covers(lib'[j], cand)

NothingForgotten == [][~Forgotten]_vars

\* How often the first methods of l were observed, for any number of them.
Tally(l) ==
  LET sum[i \in 0..Len(l)] == IF i = 0 THEN 0 ELSE sum[i - 1] + l[i].count
  IN  sum

Observations(l) == Tally(l)[Len(l)]

\* With --qvalues every method learned is one more observation and none is
\* lost, except to DoSubsumption, which LearnOneNdChecker uses in any mode.
ObservationsCounted ==
  [][flags.qvalues /\ pc # "replace" =>
       Observations(lib') = Observations(lib) + (IF pc = "update" /\ pc' = "idle" THEN 1 ELSE 0)]_vars

\* Ids stay unique, across replacement and removal, as long as they fit the
\* buffer they are printed to.
IdsUnique == maxId < LongId => IdsDistinct(lib)

\* What htn_solution.cpp:40 relies on, "the concept of a unique name for each
\* method", and DoThisQValue in looking a method up by its id.
IdIsUniqueName == IdsDistinct(lib)

\* The loops of DoSubsumption and DoQValueUpdate end although one of them
\* steps its index back.
LoopsEnd == pc # "idle" ~> pc = "idle"
============================================================================
