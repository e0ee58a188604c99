------------------------ MODULE MethodLibraryProofs ------------------------
(***************************************************************************)
(* Theorems about the method library, for every subsumption relation that  *)
(* is reflexive and every library the file may hold.                       *)
(***************************************************************************)
EXTENDS MethodLibrary, SequenceTheorems, WellFoundedInduction, TLAPS

----------------------------------------------------------------------------
(* Sequences                                                               *)

\* RemoveAt drops one element and moves the later ones down.
LEMMA RemoveAtProperties ==
  ASSUME NEW S, NEW s \in Seq(S), NEW k \in 1..Len(s)
  PROVE  /\ RemoveAt(s, k) \in Seq(S)
         /\ Len(RemoveAt(s, k)) = Len(s) - 1
         /\ \A i \in 1..(Len(s) - 1) :
              RemoveAt(s, k)[i] = IF i < k THEN s[i] ELSE s[i + 1]
<1> DEFINE a == SubSeq(s, 1, k - 1)
           b == SubSeq(s, k + 1, Len(s))
<1>1. a \in Seq(S) /\ Len(a) = k - 1 /\ \A i \in 1..(k - 1) : a[i] = s[i]
  OBVIOUS
<1>2. b \in Seq(S) /\ Len(b) = Len(s) - k /\ \A i \in 1..(Len(s) - k) : b[i] = s[i + k]
  OBVIOUS
<1> HIDE DEF a, b
<1>3. /\ a \o b \in Seq(S) /\ Len(a \o b) = Len(a) + Len(b)
      /\ \A i \in 1..(Len(a) + Len(b)) :
           (a \o b)[i] = IF i <= Len(a) THEN a[i] ELSE b[i - Len(a)]
  BY <1>1, <1>2, ConcatProperties
<1>4. Len(s) \in Nat /\ Len(a) + Len(b) = Len(s) - 1
  BY <1>1, <1>2
<1>6. \A i \in 1..(Len(s) - 1) : (a \o b)[i] = IF i < k THEN s[i] ELSE s[i + 1]
  <2> TAKE i \in 1..(Len(s) - 1)
  <2>1. CASE i < k
    BY <2>1, <1>1, <1>3, <1>4
  <2>2. CASE i >= k
    <3>1. i - (k - 1) \in 1..(Len(s) - k) /\ (i - (k - 1)) + k = i + 1
      BY <2>2, <1>4
    <3>2. b[i - (k - 1)] = s[i + 1]
      BY <3>1, <1>2
    <3> QED  BY <2>2, <3>2, <1>1, <1>3, <1>4
  <2> QED  BY <2>1, <2>2, <1>4
<1>5. RemoveAt(s, k) = a \o b
  BY DEF RemoveAt, a, b
<1> QED  BY <1>3, <1>4, <1>5, <1>6

----------------------------------------------------------------------------
(* Types                                                                   *)

\* An id that was printed is a natural number, no longer than the counter.
LEMMA PrintedIdType ==
  ASSUME NEW n \in Nat
  PROVE  PrintedId(n) \in Nat /\ (n < LongId => PrintedId(n) = n)
<1> QED  BY DEF PrintedId, LongId

LEMMA NextIdType ==
  ASSUME TypeOK
  PROVE  NextId \in Nat /\ NextId >= maxId
<1> QED  BY LibraryAssumption DEF TypeOK, NextId

LEMMA NewEntryType ==
  ASSUME TypeOK, NEW b \in Body, NEW c \in Nat, NEW t \in Nat, NEW l \in BOOLEAN
  PROVE  NewEntry(b, c, t, l) \in Entry
<1> QED  BY NextIdType, PrintedIdType DEF NewEntry, Entry

LEMMA UpdateQValueType ==
  ASSUME NEW e \in Entry, NEW cost \in Nat
  PROVE  UpdateQValue(e, cost) \in Entry
<1>1. e.count + 1 \in Nat /\ e.total + cost \in Nat
  BY DEF Entry
<1> QED  BY <1>1 DEF UpdateQValue, Entry

LEMMA InitialTypes == Init => TypeOK
<1> SUFFICES ASSUME Init PROVE TypeOK
  OBVIOUS
<1>1. lib \in Seq(Entry)
  BY LibraryAssumption DEF Init
<1>2. maxId \in Nat
  <2>1. \A i \in 1..Len(lib) : lib[i].id \in Nat
    <3>1. \A i \in 1..Len(lib) : lib[i] \in Entry
      BY <1>1, ElementOfSeq
    <3> QED  BY <3>1 DEF Entry
  <2>2. {lib[i].id : i \in 1..Len(lib)} \subseteq Nat
    BY <2>1
  <2>3. maxId \in {0} \cup IF DeclaresIds THEN {lib[i].id : i \in 1..Len(lib)} ELSE {}
    BY DEF Init, IdsIn
  <2> QED  BY <2>2, <2>3
<1>3. cand \in Entry
  <2>1. (CHOOSE b \in Body : TRUE) \in Body
    BY LibraryAssumption
  <2>2. NextId \in Nat
    BY <1>2 DEF NextId
  <2> QED  BY <2>1, <2>2, PrintedIdType DEF Init, NewEntry, Entry
<1>4. m \in Nat \ {0} /\ offered \in Nat
  BY DEF Init
<1>5. inserted \in BOOLEAN
  BY DEF Init
<1> QED  BY <1>1, <1>2, <1>3, <1>4, <1>5 DEF Init, TypeOK

LEMMA TypesPreserved == TypeOK /\ [Next]_vars => TypeOK'
<1> SUFFICES ASSUME TypeOK, [Next]_vars PROVE TypeOK'
  OBVIOUS
<1> USE DEF TypeOK
<1>1. CASE AddVerifier \/ AddTrivialChecker
  <2>1. PICK b \in Body : lib' = Append(lib, NewEntry(b, 0, 0, FALSE))
    BY <1>1, LibraryAssumption DEF AddVerifier, AddTrivialChecker, AddBeforeLearning
  <2>2. NewEntry(b, 0, 0, FALSE) \in Entry
    BY NewEntryType
  <2>3. lib' \in Seq(Entry)
    BY <2>1, <2>2, AppendProperties
  <2> QED  BY <1>1, <2>3, NextIdType DEF AddVerifier, AddTrivialChecker, AddBeforeLearning
<1>2. ASSUME NEW e \in Entry, NEW r \in {"idle", "find", "update"}, Offer(e, r)
      PROVE  TypeOK'
  <2>1. lib' \in Seq(Entry) /\ pc' \in {"idle", "find", "replace", "update"}
    BY <1>2 DEF Offer
  <2>2. maxId' \in Nat /\ offered' \in Nat
    BY <1>2, NextIdType DEF Offer
  <2>3. inserted' \in BOOLEAN
    BY <1>2 DEF Offer
  <2>4. cand' \in Entry /\ m' \in Nat \ {0} /\ flags' = flags
    BY <1>2 DEF Offer
  <2> QED  BY <2>1, <2>2, <2>3, <2>4
<1>3. CASE LearnMethod
  <2>1. PICK b \in Body, c \in Costs :
          Offer(NewEntry(b, IF flags.qvalues THEN 1 ELSE 0, IF flags.qvalues THEN c ELSE 0, TRUE),
                IF flags.qvalues THEN "update" ELSE IF flags.no_subsumption THEN "idle" ELSE "find")
    BY <1>3 DEF LearnMethod
  <2>2. c \in Nat
    BY LibraryAssumption
  <2> QED  BY <1>2, <2>1, <2>2, NewEntryType
<1>4. CASE LearnNdChecker
  BY <1>2, <1>4, NewEntryType, LibraryAssumption DEF LearnNdChecker
<1>5. CASE DropSelfLoop
  BY <1>5, NextIdType DEF DropSelfLoop
<1>6. CASE Find
  BY <1>6 DEF Find
<1>7. CASE Keep
  BY <1>7 DEF Keep
<1>8. CASE ReplaceMethod
  BY <1>8 DEF ReplaceMethod
<1>9. CASE RemoveMethod
  BY <1>9, RemoveAtProperties DEF RemoveMethod
<1>10. CASE EndReplace
  BY <1>10 DEF EndReplace
<1>11. CASE Update
  <2>1. ASSUME m <= Len(lib)
        PROVE  [lib EXCEPT ![m] = UpdateQValue(@, cand.total)] \in Seq(Entry)
    <3>1. m \in 1..Len(lib) /\ lib[m] \in Entry
      BY <2>1
    <3>3. cand.total \in Nat
      BY DEF Entry
    <3>2. UpdateQValue(lib[m], cand.total) \in Entry
      BY <3>1, <3>3, UpdateQValueType
    <3> QED  BY <3>1, <3>2, ExceptSeq
  <2>2. lib' \in Seq(Entry)
    BY <1>11, <2>1, AppendProperties DEF Update
  <2>3. m' \in Nat \ {0} /\ pc' \in {"idle", "find", "replace", "update"}
    BY <1>11 DEF Update
  <2> QED  BY <1>11, <2>2, <2>3 DEF Update
<1>12. CASE UNCHANGED vars
  BY <1>12 DEF vars
<1> QED  BY <1>1, <1>3, <1>4, <1>5, <1>6, <1>7, <1>8, <1>9, <1>10, <1>11, <1>12 DEF Next, Step

\* The type invariant, for every library and any number of offers.
THEOREM Typing == Spec => []TypeOK
<1> QED  BY InitialTypes, TypesPreserved, PTL DEF Spec

----------------------------------------------------------------------------
(* The loops                                                               *)

\* What the mode in force prunes: with --qvalues the equivalent methods, and
\* otherwise the subsumed ones.
Redundant(a, b) == Covers(a, b) /\ (flags.qvalues => Covers(b, a))

Clean(l, Positions) ==
  \A i, j \in Positions :
    i # j /\ Redundant(l[i], l[j]) => ~l[i].learned /\ ~l[j].learned

\* Nothing has been learned before the first method is offered.
UntilOffered == offered = 0 => pc = "idle" /\ \A i \in 1..Len(lib) : ~lib[i].learned

\* The loops of DoSubsumption run only where it is called.
OnlyIfCalled == pc \in {"find", "replace"} => ~flags.no_subsumption

NotYetInserted == pc \in {"find", "update"} => ~inserted

AtRest == pc \in {"idle", "find"} /\ ~flags.no_subsumption => Clean(lib, 1..Len(lib))

Updating ==
  pc = "update" =>
    /\ flags.qvalues
    /\ ~flags.no_subsumption => Clean(lib, 1..Len(lib))
    /\ \A i \in 1..Len(lib) : i < m => ~Equivalent(lib[i], cand)

\* The methods of the first loop that do not subsume the new one.
Finding == pc = "find" => \A i \in 1..Len(lib) : i < m => ~Covers(lib[i], cand)

\* No other method at Positions subsumes the new one, and the new one subsumes
\* none that the second loop has passed.
Passed(Positions) ==
  \A i \in Positions : ~Covers(lib[i], cand) /\ (i < m => ~Covers(cand, lib[i]))

Replacing ==
  pc = "replace" /\ ~inserted => Clean(lib, 1..Len(lib)) /\ Passed(1..Len(lib))

Replaced ==
  pc = "replace" /\ inserted =>
    \E p \in 1..Len(lib) :
      /\ p < m /\ lib[p] = cand
      /\ Clean(lib, 1..Len(lib) \ {p}) /\ Passed(1..Len(lib) \ {p})

\* The inductive invariant of the loops.
LoopInv ==
  /\ TypeOK /\ UntilOffered /\ OnlyIfCalled /\ NotYetInserted
  /\ AtRest /\ Updating /\ Finding /\ Replacing /\ Replaced

\* A method is in its own place, or it is the last one of a longer library.
LEMMA Appended ==
  ASSUME NEW S, NEW s \in Seq(S), NEW e \in S
  PROVE  /\ Len(Append(s, e)) = Len(s) + 1
         /\ \A i \in 1..Len(Append(s, e)) :
              \/ i \in 1..Len(s) /\ Append(s, e)[i] = s[i]
              \/ i = Len(s) + 1 /\ Append(s, e)[i] = e
<1> QED  BY AppendProperties

\* Appending a method that nothing subsumes and that subsumes nothing.
LEMMA AppendKeepsClean ==
  ASSUME TypeOK, NEW e \in Entry, Clean(lib, 1..Len(lib)),
         \A i \in 1..Len(lib) : ~Redundant(lib[i], e) /\ ~Redundant(e, lib[i])
  PROVE  Clean(Append(lib, e), 1..Len(Append(lib, e)))
<1> DEFINE new == Append(lib, e)
<1> SUFFICES ASSUME NEW i \in 1..Len(new), NEW j \in 1..Len(new),
                    i # j, Redundant(new[i], new[j])
             PROVE  ~new[i].learned /\ ~new[j].learned
  BY DEF Clean
<1>1. lib \in Seq(Entry)
  BY DEF TypeOK
<1> HIDE DEF new
<1>2. \A k \in 1..Len(new) : \/ k \in 1..Len(lib) /\ new[k] = lib[k]
                             \/ k = Len(lib) + 1 /\ new[k] = e
  BY <1>1, Appended, Zenon DEF new
<1>3. i \in 1..Len(lib) /\ new[i] = lib[i] /\ j \in 1..Len(lib) /\ new[j] = lib[j]
  BY <1>2
<1> QED  BY <1>3 DEF Clean

LEMMA InitialLoop == Init => LoopInv
<1> SUFFICES ASSUME Init PROVE LoopInv
  OBVIOUS
<1>1. TypeOK
  BY InitialTypes
<1>2. \A i \in 1..Len(lib) : ~lib[i].learned
  BY LibraryAssumption DEF Init
<1>3. pc = "idle"
  BY DEF Init
<1> QED  BY <1>1, <1>2, <1>3 DEF LoopInv, UntilOffered, OnlyIfCalled, NotYetInserted, AtRest, Updating,
           Finding, Replacing, Replaced, Clean

LEMMA LoopInvPreserved == LoopInv /\ [Next]_vars => LoopInv'
<1> SUFFICES ASSUME LoopInv, [Next]_vars PROVE LoopInv'
  OBVIOUS
<1>0. TypeOK /\ TypeOK' /\ lib \in Seq(Entry) /\ m \in Nat \ {0} /\ cand \in Entry
  BY TypesPreserved DEF LoopInv, TypeOK
<1>1. CASE AddVerifier \/ AddTrivialChecker
  <2>1. PICK b \in Body : lib' = Append(lib, NewEntry(b, 0, 0, FALSE))
    BY <1>1, LibraryAssumption DEF AddVerifier, AddTrivialChecker, AddBeforeLearning
  <2>2. NewEntry(b, 0, 0, FALSE) \in Entry /\ ~NewEntry(b, 0, 0, FALSE).learned
    BY <1>0, NewEntryType DEF NewEntry
  <2>3. \A i \in 1..Len(lib) : ~lib[i].learned
    BY <1>1 DEF AddVerifier, AddTrivialChecker, AddBeforeLearning, LoopInv, UntilOffered
  <2>4. \A i \in 1..Len(lib') : ~lib'[i].learned
    <3>1. PICK e \in Entry : lib' = Append(lib, e) /\ ~e.learned
      BY <2>1, <2>2
    <3>2. \A i \in 1..Len(lib') : (i \in 1..Len(lib) /\ lib'[i] = lib[i]) \/ lib'[i] = e
      BY <3>1, <1>0, Appended
    <3> QED  BY <3>1, <3>2, <2>3
  <2>5. pc' = "idle"
    BY <1>1 DEF AddVerifier, AddTrivialChecker, AddBeforeLearning
  <2> QED  BY <1>0, <2>4, <2>5 DEF LoopInv, UntilOffered, OnlyIfCalled, NotYetInserted, AtRest, Updating,
             Finding, Replacing, Replaced, Clean
<1>2. ASSUME NEW e \in Entry, NEW r \in {"idle", "find", "update"}, Offer(e, r),
             r = "find" => ~flags.no_subsumption,
             r = "idle" => flags.no_subsumption,
             r = "update" => flags.qvalues
      PROVE  LoopInv'
  <2>1. pc = "idle" /\ pc' = r /\ m' = 1 /\ flags' = flags /\ offered' = offered + 1
    BY <1>2 DEF Offer
  <2>2. (r # "idle" => lib' = lib) /\ inserted' = FALSE
    BY <1>2 DEF Offer
  <2>3. ~flags.no_subsumption => Clean(lib, 1..Len(lib))
    BY <2>1 DEF LoopInv, AtRest
  <2>4. offered' # 0
    BY <2>1, <1>0 DEF TypeOK
  <2>5. r # "idle" /\ ~flags.no_subsumption => Clean(lib, 1..Len(lib))'
    BY <2>1, <2>2, <2>3 DEF Clean, Redundant
  <2>6. \A i \in 1..Len(lib') : ~(i < m')
    BY <2>1
  <2> QED  BY <1>0, <1>2, <2>1, <2>2, <2>4, <2>5, <2>6
           DEF LoopInv, UntilOffered, OnlyIfCalled, NotYetInserted, AtRest, Updating, Finding, Replacing, Replaced
<1>3. CASE LearnMethod
  <2>1. PICK b \in Body, c \in Costs :
          Offer(NewEntry(b, IF flags.qvalues THEN 1 ELSE 0, IF flags.qvalues THEN c ELSE 0, TRUE),
                IF flags.qvalues THEN "update" ELSE IF flags.no_subsumption THEN "idle" ELSE "find")
    BY <1>3 DEF LearnMethod
  <2>2. c \in Nat
    BY LibraryAssumption
  <2> QED  BY <1>0, <1>2, <2>1, <2>2, NewEntryType
<1>4. CASE LearnNdChecker
  BY <1>0, <1>2, <1>4, NewEntryType, LibraryAssumption DEF LearnNdChecker
<1>5. CASE DropSelfLoop
  <2>1. pc = "idle" /\ pc' = "idle" /\ lib' = lib /\ flags' = flags /\ offered' = offered + 1
    BY <1>5 DEF DropSelfLoop
  <2>2. offered' # 0
    BY <2>1, <1>0 DEF TypeOK
  <2> QED  BY <1>0, <2>1, <2>2 DEF LoopInv, UntilOffered, OnlyIfCalled, NotYetInserted, AtRest, Updating,
             Finding, Replacing, Replaced, Clean, Redundant
<1>6. CASE Find
  <2>1. pc = "find" /\ lib' = lib /\ flags' = flags /\ cand' = cand /\ inserted' = inserted
        /\ offered' = offered
    BY <1>6 DEF Find
  <2>2. offered # 0 /\ ~inserted /\ ~flags.no_subsumption /\ Clean(lib, 1..Len(lib))
        /\ \A i \in 1..Len(lib) : i < m => ~Covers(lib[i], cand)
    BY <2>1 DEF LoopInv, UntilOffered, OnlyIfCalled, NotYetInserted, AtRest, Finding
  <2>3. Clean(lib, 1..Len(lib))'
    BY <2>1, <2>2 DEF Clean, Redundant
  <2>4. CASE m > Len(lib)
    <3>1. pc' = "replace" /\ m' = 1
      BY <1>6, <2>4 DEF Find
    <3>2. Passed(1..Len(lib))'
      BY <2>1, <2>2, <2>4, <3>1, <1>0 DEF Passed, Covers
    <3> QED  BY <1>0, <2>1, <2>2, <2>3, <3>1, <3>2 DEF LoopInv, UntilOffered, OnlyIfCalled,
               NotYetInserted, AtRest, Updating, Finding, Replacing, Replaced
  <2>5. CASE m <= Len(lib) /\ Covers(lib[m], cand)
    <3>1. pc' = "idle"
      BY <1>6, <2>5, <1>0 DEF Find
    <3> QED  BY <1>0, <2>1, <2>2, <2>3, <3>1 DEF LoopInv, UntilOffered, OnlyIfCalled,
               NotYetInserted, AtRest, Updating, Finding, Replacing, Replaced
  <2>6. CASE m <= Len(lib) /\ ~Covers(lib[m], cand)
    <3>1. pc' = "find" /\ m' = m + 1
      BY <1>6, <2>1, <2>6, <1>0 DEF Find
    <3>2. \A i \in 1..Len(lib') : i < m' => ~Covers(lib'[i], cand')
      BY <2>1, <2>2, <2>6, <3>1, <1>0 DEF Covers
    <3> QED  BY <1>0, <2>1, <2>2, <2>3, <3>1, <3>2 DEF LoopInv, UntilOffered, OnlyIfCalled,
               NotYetInserted, AtRest, Updating, Finding, Replacing, Replaced
  <2> QED  BY <2>4, <2>5, <2>6, <1>0
<1>7. CASE Keep
  <2>1. /\ pc = "replace" /\ pc' = "replace" /\ lib' = lib /\ flags' = flags /\ cand' = cand
        /\ inserted' = inserted /\ offered' = offered
        /\ m <= Len(lib) /\ ~Covers(cand, lib[m]) /\ m' = m + 1
    BY <1>7 DEF Keep
  <2>2. offered # 0 /\ ~flags.no_subsumption
    BY <2>1 DEF LoopInv, UntilOffered, OnlyIfCalled
  <2>5. Replacing'
    BY <2>1, <1>0 DEF LoopInv, Replacing, Clean, Redundant, Passed, Covers
  <2>6. Replaced'
    <3> SUFFICES ASSUME inserted PROVE Replaced'
      BY <2>1 DEF Replaced
    <3>1. PICK p \in 1..Len(lib) :
            /\ p < m /\ lib[p] = cand
            /\ Clean(lib, 1..Len(lib) \ {p}) /\ Passed(1..Len(lib) \ {p})
      BY <2>1 DEF LoopInv, Replaced
    <3>2. Clean(lib, 1..Len(lib) \ {p})' /\ Passed(1..Len(lib) \ {p})'
      BY <3>1, <2>1, <1>0 DEF Clean, Redundant, Passed, Covers
    <3>3. p < m'
      BY <3>1, <2>1, <1>0
    <3> QED  BY <2>1, <3>1, <3>2, <3>3 DEF Replaced
  <2> QED  BY <1>0, <2>1, <2>2, <2>5, <2>6 DEF LoopInv, UntilOffered, OnlyIfCalled,
             NotYetInserted, AtRest, Updating, Finding
<1>8. CASE ReplaceMethod
  <2>1. /\ pc = "replace" /\ pc' = "replace" /\ flags' = flags /\ cand' = cand
        /\ ~inserted /\ inserted' /\ offered' = offered
        /\ m <= Len(lib) /\ m' = m + 1 /\ lib' = [lib EXCEPT ![m] = cand]
    BY <1>8 DEF ReplaceMethod
  <2>2. offered # 0 /\ ~flags.no_subsumption /\ Clean(lib, 1..Len(lib)) /\ Passed(1..Len(lib))
    BY <2>1 DEF LoopInv, UntilOffered, OnlyIfCalled, Replacing
  <2>3. PICK p \in 1..Len(lib) :
          /\ p = m /\ Len(lib') = Len(lib) /\ lib'[p] = cand
          /\ \A i \in 1..Len(lib) \ {p} : lib'[i] = lib[i]
    BY <2>1, <1>0
  <2>4. Clean(lib, 1..Len(lib) \ {p})'
    BY <2>1, <2>2, <2>3 DEF Clean, Redundant
  <2>6. Passed(1..Len(lib) \ {p})'
    BY <2>1, <2>2, <2>3, <1>0 DEF Passed, Covers
  <2>7. p \in 1..Len(lib') /\ p < m' /\ lib'[p] = cand'
    BY <2>1, <2>3, <1>0
  <2>5. Replaced'
    BY <2>4, <2>6, <2>7 DEF Replaced
  <2> QED  BY <1>0, <2>1, <2>2, <2>5 DEF LoopInv, UntilOffered, OnlyIfCalled,
             NotYetInserted, AtRest, Updating, Finding, Replacing
<1>9. CASE RemoveMethod
  <2>1. /\ pc = "replace" /\ pc' = "replace" /\ flags' = flags /\ cand' = cand
        /\ inserted /\ inserted' = inserted /\ offered' = offered
        /\ m <= Len(lib) /\ m' = m /\ lib' = RemoveAt(lib, m)
    BY <1>9 DEF RemoveMethod
  <2>2. offered # 0 /\ ~flags.no_subsumption
    BY <2>1 DEF LoopInv, UntilOffered, OnlyIfCalled
  <2>3. PICK p \in 1..Len(lib) :
          /\ p < m /\ lib[p] = cand
          /\ Clean(lib, 1..Len(lib) \ {p}) /\ Passed(1..Len(lib) \ {p})
    BY <2>1 DEF LoopInv, Replaced
  <2>4. /\ Len(lib') = Len(lib) - 1
        /\ \A i \in 1..Len(lib') : lib'[i] = IF i < m THEN lib[i] ELSE lib[i + 1]
    <3>1. m \in 1..Len(lib)
      BY <2>1, <1>0
    <3> QED  BY <2>1, <3>1, <1>0, RemoveAtProperties
  <2>5. p \in 1..Len(lib') /\ p < m' /\ lib'[p] = cand'
    BY <2>1, <2>3, <2>4, <1>0
  \* Where each remaining method was.
  <2>6. \A i \in 1..Len(lib') \ {p} : \E k \in 1..Len(lib) \ {p} :
          lib'[i] = lib[k] /\ k = IF i < m THEN i ELSE i + 1
    <3> TAKE i \in 1..Len(lib') \ {p}
    <3> DEFINE k == IF i < m THEN i ELSE i + 1
    <3>1. k \in 1..Len(lib) \ {p} /\ lib'[i] = lib[k]
      BY <2>3, <2>4, <1>0
    <3> QED  BY <3>1
  <2>7. Clean(lib, 1..Len(lib) \ {p})'
    <3> SUFFICES ASSUME NEW i \in 1..Len(lib') \ {p}, NEW j \in 1..Len(lib') \ {p},
                        i # j, Redundant(lib'[i], lib'[j])
                 PROVE  ~lib'[i].learned /\ ~lib'[j].learned
      BY <2>1 DEF Clean, Redundant, Covers
    <3>1. PICK k \in 1..Len(lib) \ {p} : lib'[i] = lib[k] /\ k = IF i < m THEN i ELSE i + 1
      BY <2>6
    <3>2. PICK l \in 1..Len(lib) \ {p} : lib'[j] = lib[l] /\ l = IF j < m THEN j ELSE j + 1
      BY <2>6
    <3>3. k # l
      BY <3>1, <3>2, <1>0, <2>4
    <3> QED  BY <3>1, <3>2, <3>3, <2>1, <2>3 DEF Clean, Redundant
  <2>8. Passed(1..Len(lib) \ {p})'
    <3> SUFFICES ASSUME NEW i \in 1..Len(lib') \ {p}
                 PROVE  ~Covers(lib'[i], cand) /\ (i < m => ~Covers(cand, lib'[i]))
      BY <2>1 DEF Passed, Covers
    <3>1. PICK k \in 1..Len(lib) \ {p} : lib'[i] = lib[k] /\ k = IF i < m THEN i ELSE i + 1
      BY <2>6
    <3> QED  BY <3>1, <2>3 DEF Passed
  <2>9. Replaced'
    BY <2>5, <2>7, <2>8 DEF Replaced
  <2> QED  BY <1>0, <2>1, <2>2, <2>9 DEF LoopInv, UntilOffered, OnlyIfCalled,
             NotYetInserted, AtRest, Updating, Finding, Replacing
<1>10. CASE EndReplace
  <2>1. /\ pc = "replace" /\ pc' = "idle" /\ flags' = flags /\ offered' = offered
        /\ m > Len(lib) /\ lib' = IF inserted THEN lib ELSE Append(lib, cand)
    BY <1>10 DEF EndReplace
  <2>2. offered # 0 /\ ~flags.no_subsumption
    BY <2>1 DEF LoopInv, UntilOffered, OnlyIfCalled
  <2>3. CASE inserted
    <3>1. PICK p \in 1..Len(lib) :
            /\ p < m /\ lib[p] = cand
            /\ Clean(lib, 1..Len(lib) \ {p}) /\ Passed(1..Len(lib) \ {p})
      BY <2>1, <2>3 DEF LoopInv, Replaced
    <3>2. \A i \in 1..Len(lib) \ {p} : ~Redundant(lib[i], lib[p]) /\ ~Redundant(lib[p], lib[i])
      BY <2>1, <3>1, <1>0 DEF Passed, Redundant
    <3>3. Clean(lib, 1..Len(lib))
      BY <3>1, <3>2 DEF Clean
    <3>4. Clean(lib, 1..Len(lib))'
      BY <2>1, <2>3, <3>3 DEF Clean, Redundant
    <3> QED  BY <1>0, <2>1, <2>2, <3>4 DEF LoopInv, UntilOffered, OnlyIfCalled,
               NotYetInserted, AtRest, Updating, Finding, Replacing, Replaced
  <2>4. CASE ~inserted
    <3>1. Clean(lib, 1..Len(lib)) /\ Passed(1..Len(lib))
      BY <2>1, <2>4 DEF LoopInv, Replacing
    <3>2. \A i \in 1..Len(lib) : ~Redundant(lib[i], cand) /\ ~Redundant(cand, lib[i])
      BY <2>1, <3>1, <1>0 DEF Passed, Redundant
    <3>3. Clean(Append(lib, cand), 1..Len(Append(lib, cand)))
      BY <3>1, <3>2, <1>0, AppendKeepsClean
    <3>4. Clean(lib, 1..Len(lib))'
      BY <2>1, <2>4, <3>3 DEF Clean, Redundant
    <3> QED  BY <1>0, <2>1, <2>2, <3>4 DEF LoopInv, UntilOffered, OnlyIfCalled,
               NotYetInserted, AtRest, Updating, Finding, Replacing, Replaced
  <2> QED  BY <2>3, <2>4
<1>11. CASE Update
  <2>1. /\ pc = "update" /\ flags' = flags /\ cand' = cand /\ inserted' = inserted
        /\ offered' = offered
    BY <1>11 DEF Update
  <2>2. /\ offered # 0 /\ ~inserted /\ flags.qvalues
        /\ ~flags.no_subsumption => Clean(lib, 1..Len(lib))
        /\ \A i \in 1..Len(lib) : i < m => ~Equivalent(lib[i], cand)
    BY <2>1 DEF LoopInv, UntilOffered, NotYetInserted, Updating
  <2>3. CASE m > Len(lib)
    <3>1. pc' = "idle" /\ lib' = Append(lib, cand)
      BY <1>11, <2>3 DEF Update
    <3>2. \A i \in 1..Len(lib) : ~Redundant(lib[i], cand) /\ ~Redundant(cand, lib[i])
      BY <2>2, <2>3, <1>0 DEF Equivalent, Redundant
    <3>3. ~flags.no_subsumption => Clean(Append(lib, cand), 1..Len(Append(lib, cand)))
      BY <2>2, <3>2, <1>0, AppendKeepsClean
    <3>4. ~flags.no_subsumption => Clean(lib, 1..Len(lib))'
      BY <2>1, <3>1, <3>3 DEF Clean, Redundant
    <3> QED  BY <1>0, <2>1, <2>2, <3>1, <3>4 DEF LoopInv, UntilOffered, OnlyIfCalled,
               NotYetInserted, AtRest, Updating, Finding, Replacing, Replaced
  <2>4. CASE m <= Len(lib) /\ Equivalent(lib[m], cand)
    <3>1. pc' = "idle" /\ lib' = [lib EXCEPT ![m] = UpdateQValue(@, cand.total)]
      BY <1>11, <2>4, <1>0 DEF Update
    <3>2. m \in 1..Len(lib) /\ lib[m] \in Entry
      BY <2>4, <1>0
    <3>3. /\ UpdateQValue(lib[m], cand.total).body = lib[m].body
          /\ UpdateQValue(lib[m], cand.total).learned = lib[m].learned
      BY <3>2 DEF UpdateQValue, Entry
    <3>4. Len(lib') = Len(lib)
          /\ \A i \in 1..Len(lib) : lib'[i].body = lib[i].body /\ lib'[i].learned = lib[i].learned
      BY <3>1, <3>2, <3>3, <1>0
    <3>5. ~flags.no_subsumption => Clean(lib, 1..Len(lib))'
      BY <2>1, <2>2, <3>4 DEF Clean, Redundant, Covers
    <3> QED  BY <1>0, <2>1, <2>2, <3>1, <3>5 DEF LoopInv, UntilOffered, OnlyIfCalled,
               NotYetInserted, AtRest, Updating, Finding, Replacing, Replaced
  <2>5. CASE m <= Len(lib) /\ ~Equivalent(lib[m], cand)
    <3>1. pc' = "update" /\ m' = m + 1 /\ lib' = lib
      BY <1>11, <2>1, <2>5, <1>0 DEF Update
    <3>2. \A i \in 1..Len(lib') : i < m' => ~Equivalent(lib'[i], cand')
      BY <2>1, <2>2, <2>5, <3>1, <1>0 DEF Equivalent, Covers
    <3>3. ~flags.no_subsumption => Clean(lib, 1..Len(lib))'
      BY <2>1, <2>2, <3>1 DEF Clean, Redundant
    <3> QED  BY <1>0, <2>1, <2>2, <3>1, <3>2, <3>3 DEF LoopInv, UntilOffered, OnlyIfCalled,
               NotYetInserted, AtRest, Updating, Finding, Replacing, Replaced
  <2> QED  BY <2>3, <2>4, <2>5, <1>0
<1>12. CASE UNCHANGED vars
  BY <1>0, <1>12 DEF vars, LoopInv, UntilOffered, OnlyIfCalled, NotYetInserted, AtRest, Updating,
     Finding, Replacing, Replaced, Clean, Redundant, Passed, Covers, Equivalent
<1> QED  BY <1>1, <1>3, <1>4, <1>5, <1>6, <1>7, <1>8, <1>9, <1>10, <1>11, <1>12 DEF Next, Step

LEMMA LoopInvariant == Spec => []LoopInv
<1> QED  BY InitialLoop, LoopInvPreserved, PTL DEF Spec

\* Without --qvalues and --no_subsumption, no learned method is redundant once
\* the loops are done, for every library and subsumption relation.
THEOREM LibraryIsPruned == Spec => []NoRedundantMethod
<1>1. LoopInv => NoRedundantMethod
  BY DEF LoopInv, AtRest, NoRedundantMethod, Pruning, Clean, Redundant
<1> QED  BY <1>1, LoopInvariant, PTL

\* The observations of equivalent methods are never split.
THEOREM LibraryHasNoTwins == Spec => []NoTwins
<1>1. LoopInv => NoTwins
  BY DEF LoopInv, AtRest, NoTwins, Clean, Redundant, Equivalent
<1> QED  BY <1>1, LoopInvariant, PTL

----------------------------------------------------------------------------
(* What the library can do                                                 *)

\* Every method is at least its own cover.
LEMMA CoversItself ==
  ASSUME NEW e \in Entry
  PROVE  Covers(e, e)
<1> QED  BY LibraryAssumption DEF Covers, Entry

LEMMA UnchangedForgetsNothing ==
  ASSUME TypeOK, lib' = lib
  PROVE  \A i \in 1..Len(lib) : \E j \in 1..Len(lib') : Covers(lib'[j], lib[i])
<1> QED  BY CoversItself DEF TypeOK

LEMMA AppendForgetsNothing ==
  ASSUME TypeOK, NEW e \in Entry, lib' = Append(lib, e)
  PROVE  /\ \A i \in 1..Len(lib) : \E j \in 1..Len(lib') : Covers(lib'[j], lib[i])
         /\ \E j \in 1..Len(lib') : Covers(lib'[j], e)
<1>1. lib \in Seq(Entry) /\ Len(lib) \in Nat
  BY DEF TypeOK
<1>2. Len(lib') = Len(lib) + 1 /\ lib'[Len(lib) + 1] = e /\ \A i \in 1..Len(lib) : lib'[i] = lib[i]
  BY <1>1, AppendProperties
<1> QED  BY <1>1, <1>2, CoversItself

\* No step of the loops forgets a method, whatever happened before.
THEOREM LibraryForgetsNothing == Spec => NothingForgotten
<1>1. LoopInv /\ [Next]_vars => [~Forgotten]_vars
  <2> SUFFICES ASSUME LoopInv, Next
               PROVE  /\ \A i \in 1..Len(lib) : \E j \in 1..Len(lib') : Covers(lib'[j], lib[i])
                      /\ pc # "idle" /\ pc' = "idle" => \E j \in 1..Len(lib') : Covers(lib'[j], cand)
    BY DEF Forgotten
  <2>0. TypeOK /\ lib \in Seq(Entry) /\ m \in Nat \ {0} /\ cand \in Entry
    BY DEF LoopInv, TypeOK
  <2>1. CASE AddVerifier \/ AddTrivialChecker
    <3>1. PICK b \in Body : lib' = Append(lib, NewEntry(b, 0, 0, FALSE))
      BY <2>1, LibraryAssumption DEF AddVerifier, AddTrivialChecker, AddBeforeLearning
    <3> QED  BY <2>0, <2>1, <3>1, NewEntryType, AppendForgetsNothing DEF AddVerifier, AddTrivialChecker, AddBeforeLearning
  <2>2. ASSUME NEW e \in Entry, NEW r, Offer(e, r)
        PROVE  /\ \A i \in 1..Len(lib) : \E j \in 1..Len(lib') : Covers(lib'[j], lib[i])
               /\ pc = "idle"
    BY <2>0, <2>2, AppendForgetsNothing, UnchangedForgetsNothing DEF Offer
  <2>3. CASE LearnMethod
    <3>1. PICK b \in Body, c \in Costs :
            Offer(NewEntry(b, IF flags.qvalues THEN 1 ELSE 0, IF flags.qvalues THEN c ELSE 0, TRUE),
                  IF flags.qvalues THEN "update" ELSE IF flags.no_subsumption THEN "idle" ELSE "find")
      BY <2>3 DEF LearnMethod
    <3>2. c \in Nat
      BY LibraryAssumption
    <3> QED  BY <2>0, <2>2, <3>1, <3>2, NewEntryType
  <2>4. CASE LearnNdChecker
    BY <2>0, <2>2, <2>4, NewEntryType, LibraryAssumption DEF LearnNdChecker
  <2>5. CASE DropSelfLoop \/ Keep
    BY <2>0, <2>5, UnchangedForgetsNothing DEF DropSelfLoop, Keep
  <2>6. CASE Find
    <3>1. lib' = lib
      BY <2>6 DEF Find
    <3>2. pc' = "idle" => m \in 1..Len(lib) /\ Covers(lib[m], cand)
      BY <2>0, <2>6 DEF Find
    <3> QED  BY <2>0, <3>1, <3>2, UnchangedForgetsNothing
  <2>7. CASE ReplaceMethod
    <3>1. /\ m \in 1..Len(lib) /\ Covers(cand, lib[m]) /\ pc' = pc
          /\ Len(lib') = Len(lib) /\ \A i \in 1..Len(lib) : lib'[i] = IF i = m THEN cand ELSE lib[i]
      BY <2>0, <2>7 DEF ReplaceMethod
    <3> QED  BY <2>0, <3>1, CoversItself
  <2>8. CASE RemoveMethod
    <3>1. /\ m \in 1..Len(lib) /\ Covers(cand, lib[m]) /\ pc = "replace" /\ pc' = pc /\ inserted
      BY <2>0, <2>8 DEF RemoveMethod
    <3>2. /\ Len(lib') = Len(lib) - 1
          /\ \A i \in 1..Len(lib') : lib'[i] = IF i < m THEN lib[i] ELSE lib[i + 1]
      BY <2>0, <2>8, <3>1, RemoveAtProperties DEF RemoveMethod
    <3>3. PICK p \in 1..Len(lib) : p < m /\ lib[p] = cand
      BY <3>1 DEF LoopInv, Replaced
    <3>4. p \in 1..Len(lib') /\ lib'[p] = cand
      BY <2>0, <3>1, <3>2, <3>3
    <3>5. ASSUME NEW i \in 1..Len(lib)
          PROVE  \E j \in 1..Len(lib') : Covers(lib'[j], lib[i])
      <4>1. CASE i < m
        BY <2>0, <3>1, <3>2, <4>1, CoversItself
      <4>2. CASE i = m
        BY <3>1, <3>4, <4>2
      <4>3. CASE i > m
        <5>1. i - 1 \in 1..Len(lib') /\ lib'[i - 1] = lib[i]
          BY <2>0, <3>1, <3>2, <4>3
        <5> QED  BY <2>0, <5>1, CoversItself
      <4> QED  BY <2>0, <4>1, <4>2, <4>3
    <3> QED  BY <3>1, <3>5
  <2>9. CASE EndReplace
    <3>1. CASE inserted
      <4>1. lib' = lib /\ pc = "replace"
        BY <2>9, <3>1 DEF EndReplace
      <4>2. PICK p \in 1..Len(lib) : lib[p] = cand
        BY <3>1, <4>1 DEF LoopInv, Replaced
      <4> QED  BY <2>0, <4>1, <4>2, UnchangedForgetsNothing, CoversItself
    <3>2. CASE ~inserted
      BY <2>0, <2>9, <3>2, AppendForgetsNothing DEF EndReplace
    <3> QED  BY <3>1, <3>2
  <2>10. CASE Update
    <3>1. CASE m > Len(lib)
      BY <2>0, <2>10, <3>1, AppendForgetsNothing DEF Update
    <3>2. CASE m <= Len(lib) /\ Equivalent(lib[m], cand)
      <4>1. m \in 1..Len(lib) /\ lib' = [lib EXCEPT ![m] = UpdateQValue(@, cand.total)]
        BY <2>0, <2>10, <3>2 DEF Update
      <4>2. UpdateQValue(lib[m], cand.total).body = lib[m].body
        BY <2>0, <4>1 DEF UpdateQValue, Entry
      <4>3. Len(lib') = Len(lib) /\ \A i \in 1..Len(lib) : lib'[i].body = lib[i].body
        BY <2>0, <4>1, <4>2
      <4> QED  BY <2>0, <3>2, <4>1, <4>3, CoversItself DEF Equivalent, Covers
    <3>3. CASE m <= Len(lib) /\ ~Equivalent(lib[m], cand)
      BY <2>0, <2>10, <3>3, UnchangedForgetsNothing DEF Update
    <3> QED  BY <2>0, <3>1, <3>2, <3>3
  <2> QED  BY <2>1, <2>3, <2>4, <2>5, <2>6, <2>7, <2>8, <2>9, <2>10 DEF Next, Step
<1> QED  BY <1>1, LoopInvariant, PTL DEF Spec, NothingForgotten

----------------------------------------------------------------------------
(* Ids, as long as they fit their buffer                                   *)

\* No method of l has the id of e.
FreshId(l, e) == \A i \in 1..Len(l) : l[i].id = e.id => e.id = 0

BoundedIds(l, n) == DeclaresIds => \A i \in 1..Len(l) : l[i].id <= n

IdInv ==
  maxId < LongId =>
    /\ IdsDistinct(lib) /\ BoundedIds(lib, maxId)
    /\ pc # "idle" => cand.id <= maxId \/ ~DeclaresIds
    /\ pc # "idle" /\ ~inserted => FreshId(lib, cand)

LEMMA IdType ==
  ASSUME TypeOK
  PROVE  \A i \in 1..Len(lib) : lib[i].id \in Nat
<1>1. \A e \in Entry : e.id \in Nat
  BY DEF Entry
<1>2. \A i \in 1..Len(lib) : lib[i] \in Entry
  BY DEF TypeOK
<1> QED  BY <1>1, <1>2

LEMMA NewIdIsFresh ==
  ASSUME TypeOK, maxId' = NextId, maxId' < LongId, BoundedIds(lib, maxId),
         NEW b \in Body, NEW c \in Nat, NEW t \in Nat, NEW l \in BOOLEAN
  PROVE  /\ FreshId(lib, NewEntry(b, c, t, l))
         /\ NewEntry(b, c, t, l).id <= maxId' \/ ~DeclaresIds
         /\ maxId <= maxId'
<1>1. lib \in Seq(Entry) /\ maxId \in Nat /\ NextId \in Nat
  BY NextIdType DEF TypeOK
<1>2. CASE DeclaresIds
  <2>1. NextId = maxId + 1
    BY <1>2 DEF NextId
  <2>2. NewEntry(b, c, t, l).id = maxId + 1
    BY <1>1, <1>2, <2>1, PrintedIdType DEF NewEntry
  <2>3. \A i \in 1..Len(lib) : lib[i].id <= maxId /\ lib[i].id \in Nat
    BY <1>2, IdType DEF BoundedIds
  <2> QED  BY <1>1, <2>1, <2>2, <2>3 DEF FreshId
<1>3. CASE ~DeclaresIds
  <2>1. NextId = maxId /\ NewEntry(b, c, t, l).id = 0
    BY <1>3 DEF NextId, NewEntry
  <2> QED  BY <1>1, <1>3, <2>1 DEF FreshId
<1> QED  BY <1>2, <1>3

LEMMA AppendKeepsIds ==
  ASSUME TypeOK, NEW e \in Entry, NEW n \in Nat, maxId <= n,
         IdsDistinct(lib), BoundedIds(lib, maxId), FreshId(lib, e), e.id <= n \/ ~DeclaresIds
  PROVE  IdsDistinct(Append(lib, e)) /\ BoundedIds(Append(lib, e), n)
<1> DEFINE new == Append(lib, e)
<1>1. lib \in Seq(Entry) /\ maxId \in Nat /\ Len(lib) \in Nat
  BY DEF TypeOK
<1>2. e.id \in Nat /\ \A i \in 1..Len(lib) : lib[i].id \in Nat
  <2>1. e.id \in Nat
    BY DEF Entry
  <2> QED  BY <2>1, IdType
<1>3. \A k \in 1..Len(new) : \/ k \in 1..Len(lib) /\ new[k] = lib[k]
                             \/ k = Len(lib) + 1 /\ new[k] = e
  BY <1>1, Appended, Zenon
<1> HIDE DEF new
<1>4. IdsDistinct(new)
  <2> SUFFICES ASSUME NEW i \in 1..Len(new), NEW j \in 1..Len(new), new[i].id = new[j].id, new[i].id # 0
               PROVE  i = j
    BY DEF IdsDistinct
  <2>1. CASE i \in 1..Len(lib) /\ new[i] = lib[i] /\ j \in 1..Len(lib) /\ new[j] = lib[j]
    BY <2>1 DEF IdsDistinct
  <2> QED  BY <1>3, <2>1 DEF FreshId
<1>5. BoundedIds(new, n)
  <2> SUFFICES ASSUME DeclaresIds, NEW i \in 1..Len(new) PROVE new[i].id <= n
    BY DEF BoundedIds
  <2>1. CASE i \in 1..Len(lib) /\ new[i] = lib[i]
    <3>1. lib[i].id <= maxId
      BY <2>1 DEF BoundedIds
    <3> QED  BY <1>1, <1>2, <2>1, <3>1
  <2>2. CASE new[i] = e
    BY <2>2
  <2> QED  BY <1>3, <2>1, <2>2
<1> QED  BY <1>4, <1>5 DEF new

\* Below the limit no two methods have the same id, whatever is learned,
\* replaced or removed: the id a plan's node carries names one method.
THEOREM IdsStayUnique == Spec => []IdsUnique
<1>1. Init => IdInv
  BY LibraryAssumption DEF Init, IdInv, BoundedIds, IdsIn
<1>2. LoopInv /\ IdInv /\ [Next]_vars => IdInv'
  <2> SUFFICES ASSUME LoopInv, IdInv, [Next]_vars, maxId' < LongId PROVE IdInv'
    BY DEF IdInv
  <2>0. TypeOK /\ lib \in Seq(Entry) /\ m \in Nat \ {0} /\ cand \in Entry /\ maxId \in Nat
    BY DEF LoopInv, TypeOK
  <2>1. ASSUME maxId' = maxId
        PROVE  /\ IdsDistinct(lib) /\ BoundedIds(lib, maxId)
               /\ pc # "idle" => cand.id <= maxId \/ ~DeclaresIds
               /\ pc # "idle" /\ ~inserted => FreshId(lib, cand)
    BY <2>1 DEF IdInv
  <2>2. ASSUME maxId' = NextId
        PROVE  maxId < LongId /\ IdsDistinct(lib) /\ BoundedIds(lib, maxId) /\ maxId <= maxId'
    <3>1. NextId \in Nat /\ NextId >= maxId
      BY <2>0, NextIdType
    <3>2. maxId < LongId
      BY <2>0, <2>2, <3>1 DEF LongId
    <3> QED  BY <2>0, <2>2, <3>1, <3>2 DEF IdInv
  <2>3. CASE AddVerifier \/ AddTrivialChecker
    <3>1. PICK b \in Body : lib' = Append(lib, NewEntry(b, 0, 0, FALSE))
      BY <2>3, LibraryAssumption DEF AddVerifier, AddTrivialChecker, AddBeforeLearning
    <3>2. maxId' = NextId /\ pc' = "idle"
      BY <2>3 DEF AddVerifier, AddTrivialChecker, AddBeforeLearning
    <3>3. FreshId(lib, NewEntry(b, 0, 0, FALSE)) /\ (NewEntry(b, 0, 0, FALSE).id <= maxId' \/ ~DeclaresIds)
      BY <2>0, <2>2, <3>2, NewIdIsFresh
    <3>4. maxId' \in Nat /\ NewEntry(b, 0, 0, FALSE) \in Entry
      BY <2>0, <3>2, NextIdType, NewEntryType
    <3>5. IdsDistinct(lib') /\ BoundedIds(lib', maxId')
      BY <2>0, <2>2, <3>1, <3>2, <3>3, <3>4, AppendKeepsIds
    <3> QED  BY <3>2, <3>5 DEF IdInv
  <2>4. ASSUME NEW b \in Body, NEW c \in Nat, NEW t \in Nat, NEW r,
               Offer(NewEntry(b, c, t, TRUE), r)
        PROVE  IdInv'
    <3> DEFINE e == NewEntry(b, c, t, TRUE)
    <3>1. maxId' = NextId /\ cand' = e /\ lib' = (IF r = "idle" THEN Append(lib, e) ELSE lib) /\ pc' = r
      BY <2>4 DEF Offer
    <3>2. FreshId(lib, e) /\ (e.id <= maxId' \/ ~DeclaresIds)
      BY <2>0, <2>2, <3>1, NewIdIsFresh
    <3>3. maxId' \in Nat /\ e \in Entry
      BY <2>0, <3>1, NextIdType, NewEntryType
    <3> HIDE DEF e
    <3>4. CASE r = "idle"
      <4>1. IdsDistinct(lib') /\ BoundedIds(lib', maxId')
        BY <2>0, <2>2, <3>1, <3>2, <3>3, <3>4, AppendKeepsIds
      <4> QED  BY <3>1, <3>4, <4>1 DEF IdInv
    <3>5. CASE r # "idle"
      <4>1. BoundedIds(lib, maxId')
        BY <2>0, <2>2, <3>1, <3>3, IdType DEF BoundedIds
      <4> QED  BY <2>2, <3>1, <3>2, <3>5, <4>1 DEF IdInv, FreshId, BoundedIds, IdsDistinct
    <3> QED  BY <3>4, <3>5
  <2>5. CASE LearnMethod
    <3>1. PICK b \in Body, c \in Costs :
            Offer(NewEntry(b, IF flags.qvalues THEN 1 ELSE 0, IF flags.qvalues THEN c ELSE 0, TRUE),
                  IF flags.qvalues THEN "update" ELSE IF flags.no_subsumption THEN "idle" ELSE "find")
      BY <2>5 DEF LearnMethod
    <3>2. c \in Nat
      BY LibraryAssumption
    <3> QED  BY <2>4, <3>1, <3>2
  <2>6. CASE LearnNdChecker
    BY <2>4, <2>6, LibraryAssumption DEF LearnNdChecker
  <2>7. CASE DropSelfLoop
    <3>1. maxId' = NextId /\ lib' = lib /\ pc' = "idle"
      BY <2>7 DEF DropSelfLoop
    <3>2. maxId' \in Nat
      BY <2>0, <3>1, NextIdType
    <3>3. BoundedIds(lib, maxId')
      BY <2>0, <2>2, <3>1, <3>2, IdType DEF BoundedIds
    <3> QED  BY <2>2, <3>1, <3>3 DEF IdInv
  <2>8. CASE Find \/ Keep \/ UNCHANGED vars
    <3>1. maxId' = maxId /\ lib' = lib /\ cand' = cand /\ inserted' = inserted
      BY <2>8 DEF Find, Keep, vars
    <3>2. pc' # "idle" => pc # "idle"
      BY <2>8 DEF Find, Keep, vars
    <3> QED  BY <2>1, <3>1, <3>2 DEF IdInv, BoundedIds, FreshId, IdsDistinct
  <2>9. CASE ReplaceMethod
    <3>1. /\ m \in 1..Len(lib) /\ pc # "idle" /\ ~inserted /\ inserted'
          /\ maxId' = maxId /\ cand' = cand /\ lib' = [lib EXCEPT ![m] = cand]
      BY <2>0, <2>9 DEF ReplaceMethod
    <3>2. Len(lib') = Len(lib) /\ \A i \in 1..Len(lib) : lib'[i] = IF i = m THEN cand ELSE lib[i]
      BY <2>0, <3>1
    <3>3. IdsDistinct(lib')
      BY <2>0, <2>1, <3>1, <3>2 DEF IdsDistinct, FreshId
    <3>4. BoundedIds(lib', maxId')
      BY <2>0, <2>1, <3>1, <3>2 DEF BoundedIds
    <3> QED  BY <2>1, <3>1, <3>3, <3>4 DEF IdInv
  <2>10. CASE RemoveMethod
    <3>1. /\ m \in 1..Len(lib) /\ pc # "idle" /\ inserted /\ inserted' = inserted
          /\ maxId' = maxId /\ cand' = cand /\ lib' = RemoveAt(lib, m)
      BY <2>0, <2>10 DEF RemoveMethod
    <3>2. /\ Len(lib') = Len(lib) - 1
          /\ \A i \in 1..Len(lib') : lib'[i] = IF i < m THEN lib[i] ELSE lib[i + 1]
      BY <2>0, <3>1, RemoveAtProperties
    <3>3. IdsDistinct(lib')
      BY <2>0, <2>1, <3>1, <3>2 DEF IdsDistinct
    <3>4. BoundedIds(lib', maxId')
      BY <2>0, <2>1, <3>1, <3>2 DEF BoundedIds
    <3> QED  BY <2>1, <3>1, <3>3, <3>4 DEF IdInv
  <2>11. CASE EndReplace
    <3>1. /\ pc # "idle" /\ pc' = "idle" /\ maxId' = maxId
          /\ lib' = IF inserted THEN lib ELSE Append(lib, cand)
      BY <2>11 DEF EndReplace
    <3>2. ~inserted => IdsDistinct(Append(lib, cand)) /\ BoundedIds(Append(lib, cand), maxId)
      BY <2>0, <2>1, <3>1, AppendKeepsIds
    <3> QED  BY <2>1, <3>1, <3>2 DEF IdInv
  <2>12. CASE Update
    <3>1. pc = "update" /\ maxId' = maxId /\ cand' = cand /\ inserted' = inserted /\ ~inserted
      BY <2>12 DEF Update, LoopInv, NotYetInserted
    <3>2. CASE m > Len(lib)
      <4>1. pc' = "idle" /\ lib' = Append(lib, cand)
        BY <2>12, <3>2 DEF Update
      <4>2. IdsDistinct(lib') /\ BoundedIds(lib', maxId)
        BY <2>0, <2>1, <3>1, <4>1, AppendKeepsIds
      <4> QED  BY <3>1, <4>1, <4>2 DEF IdInv
    <3>3. CASE m <= Len(lib) /\ Equivalent(lib[m], cand)
      <4>1. /\ m \in 1..Len(lib) /\ pc' = "idle"
            /\ lib' = [lib EXCEPT ![m] = UpdateQValue(@, cand.total)]
        BY <2>0, <2>12, <3>3 DEF Update
      <4>2. UpdateQValue(lib[m], cand.total).id = lib[m].id
        BY <2>0, <4>1 DEF UpdateQValue, Entry
      <4>3. Len(lib') = Len(lib) /\ \A i \in 1..Len(lib) : lib'[i].id = lib[i].id
        BY <2>0, <4>1, <4>2
      <4>4. IdsDistinct(lib') /\ BoundedIds(lib', maxId')
        BY <2>1, <3>1, <4>3 DEF IdsDistinct, BoundedIds
      <4> QED  BY <4>1, <4>4 DEF IdInv
    <3>4. CASE m <= Len(lib) /\ ~Equivalent(lib[m], cand)
      <4>1. lib' = lib
        BY <2>0, <2>12, <3>4 DEF Update
      <4> QED  BY <2>1, <3>1, <4>1 DEF IdInv, BoundedIds, FreshId, IdsDistinct
    <3> QED  BY <2>0, <3>2, <3>3, <3>4
  <2> QED  BY <2>3, <2>5, <2>6, <2>7, <2>8, <2>9, <2>10, <2>11, <2>12 DEF Next, Step
<1>3. IdInv => IdsUnique
  BY DEF IdInv, IdsUnique
<1> QED  BY <1>1, <1>2, <1>3, LoopInvariant, PTL DEF Spec

----------------------------------------------------------------------------
(* The observations of the methods                                         *)

\* A set that holds 0, and with every number up to n the next, holds them all.
LEMMA InductionUpTo ==
  ASSUME NEW n \in Nat, NEW S, 0 \in S, \A k \in 1..n : k - 1 \in S => k \in S
  PROVE  0..n \subseteq S
<1> DEFINE Rest == (0..n) \ S
<1> SUFFICES ASSUME Rest # {} PROVE FALSE
  OBVIOUS
<1>1. IsWellFoundedOn(OpToRel(<, Nat), Nat)
  BY NatLessThanWellFounded
<1>2. Rest \subseteq Nat
  OBVIOUS
<1>3. PICK x \in Rest : \A y \in Rest : ~ (<<y, x>> \in OpToRel(<, Nat))
  <2> HIDE DEF Rest
  <2> QED  BY <1>1, <1>2, WFMin
<1>4. x # 0 /\ x \in 1..n /\ x - 1 \in 0..n
  OBVIOUS
<1>5. \A y \in Rest : ~(y < x)
  BY <1>2, <1>3 DEF OpToRel
<1>6. x - 1 \notin Rest
  BY <1>4, <1>5
<1> QED  BY <1>4, <1>6

\* f counts the observations of the first methods of l.
Counts(f, l, n) ==
  /\ f \in [0..n -> Nat] /\ f[0] = 0
  /\ \A i \in 1..n : f[i] = f[i - 1] + l[i].count

LEMMA CountType ==
  ASSUME NEW l \in Seq(Entry)
  PROVE  Len(l) \in Nat /\ \A i \in 1..Len(l) : l[i].count \in Nat
<1>1. \A i \in 1..Len(l) : l[i] \in Entry
  BY ElementOfSeq
<1>2. \A e \in Entry : e.count \in Nat
  BY DEF Entry
<1> QED  BY <1>1, <1>2

\* The tally is defined, and is what its equation says.
LEMMA TallyCounts ==
  ASSUME NEW l \in Seq(Entry)
  PROVE  Counts(Tally(l), l, Len(l))
<1>1. Len(l) \in Nat /\ \A i \in 1..Len(l) : l[i].count \in Nat
  BY CountType
<1> DEFINE n == Len(l)
           S == {k \in 0..n : \E f : Counts(f, l, k)}
           Sum(f) == [i \in 0..n |-> IF i = 0 THEN 0 ELSE f[i - 1] + l[i].count]
<1>2. 0 \in S
  <2>1. Counts([i \in 0..0 |-> 0], l, 0)
    BY DEF Counts
  <2> QED  BY <1>1, <2>1
<1>3. ASSUME NEW k \in 1..n, k - 1 \in S
      PROVE  k \in S
  <2>1. PICK f : Counts(f, l, k - 1)
    BY <1>3
  <2> DEFINE c == l[k].count
             g == [i \in 0..k |-> IF i = k THEN f[k - 1] + c ELSE f[i]]
  <2>2. c \in Nat /\ k \in Nat \ {0}
    BY <1>1
  <2>3. g \in [0..k -> Nat] /\ g[0] = 0
    BY <2>1, <2>2 DEF Counts
  <2>4. ASSUME NEW i \in 1..k
        PROVE  g[i] = g[i - 1] + l[i].count
    BY <2>1, <2>2 DEF Counts
  <2>5. Counts(g, l, k)
    BY <2>3, <2>4 DEF Counts
  <2> QED  BY <2>5
<1>4. PICK f : Counts(f, l, n)
  <2> HIDE DEF S
  <2>1. 0..n \subseteq S
    BY <1>1, <1>2, <1>3, InductionUpTo
  <2>2. n \in S
    BY <1>1, <2>1
  <2> QED  BY <2>2 DEF S
<1>5. f = Sum(f)
  BY <1>1, <1>4 DEF Counts
<1>6. Tally(l) = Sum(Tally(l))
  <2>1. Tally(l) = CHOOSE g : g = Sum(g)
    BY Zenon DEF Tally
  <2>2. \E g : g = Sum(g)
    BY <1>5, Zenon
  <2> QED  BY <2>1, <2>2, Zenon
<1> DEFINE t == Tally(l)
<1> HIDE DEF t
<1>7. t = Sum(t)
  BY <1>6 DEF t
<1>8. t[0] = 0 /\ \A i \in 1..n : t[i] = t[i - 1] + l[i].count
  <2>1. t[0] = 0
    BY <1>1, <1>7
  <2>2. ASSUME NEW i \in 1..n
        PROVE  t[i] = t[i - 1] + l[i].count
    <3>1. i # 0 /\ i \in 0..n
      BY <1>1
    <3>2. t[i] = Sum(t)[i]
      BY <1>7
    <3> QED  BY <3>1, <3>2
  <2> QED  BY <2>1, <2>2
<1>9. 0..n \subseteq {i \in 0..n : t[i] \in Nat}
  <2> DEFINE R == {i \in 0..n : t[i] \in Nat}
  <2>1. 0 \in R
    BY <1>1, <1>8
  <2>2. ASSUME NEW i \in 1..n, i - 1 \in R
        PROVE  i \in R
    BY <1>1, <1>8, <2>2
  <2> HIDE DEF R
  <2>3. 0..n \subseteq R
    BY <1>1, <2>1, <2>2, InductionUpTo
  <2> QED  BY <2>3 DEF R
<1>10. t \in [0..n -> Nat]
  BY <1>7, <1>9
<1> QED  BY <1>8, <1>10 DEF Counts, t

\* Another method adds its own observations.
LEMMA AppendedObservations ==
  ASSUME NEW l \in Seq(Entry), NEW e \in Entry
  PROVE  Observations(Append(l, e)) = Observations(l) + e.count
<1> DEFINE new == Append(l, e)
<1>1. new \in Seq(Entry) /\ Len(new) = Len(l) + 1 /\ new[Len(l) + 1] = e /\ \A i \in 1..Len(l) : new[i] = l[i]
  BY AppendProperties
<1> HIDE DEF new
<1>2. Len(l) \in Nat /\ Counts(Tally(l), l, Len(l)) /\ Counts(Tally(new), new, Len(new))
  BY <1>1, CountType, TallyCounts
<1>3. Tally(l)[Len(l)] = Tally(new)[Len(l)]
  <2> DEFINE f == Tally(l)
             g == Tally(new)
             n == Len(l)
             S == {i \in 0..n : f[i] = g[i]}
  <2>1. n \in Nat /\ Counts(f, l, n) /\ Counts(g, new, n + 1)
    BY <1>1, <1>2
  <2> HIDE DEF f, g
  <2>2. 0 \in S
    BY <2>1 DEF Counts
  <2>3. ASSUME NEW i \in 1..n, i - 1 \in S
        PROVE  i \in S
    <3>1. i \in 1..(n + 1) /\ f[i - 1] = g[i - 1] /\ new[i] = l[i]
      BY <1>1, <2>1, <2>3
    <3>2. f[i] = f[i - 1] + l[i].count /\ g[i] = g[i - 1] + new[i].count
      BY <2>1, <3>1 DEF Counts
    <3> QED  BY <3>1, <3>2
  <2> HIDE DEF S
  <2>4. 0..n \subseteq S
    BY <2>1, <2>2, <2>3, InductionUpTo
  <2>5. n \in S
    BY <2>1, <2>4
  <2> QED  BY <2>5 DEF S, f, g
<1>4. Tally(new)[Len(new)] = Tally(new)[Len(new) - 1] + new[Len(new)].count
  BY <1>1, <1>2 DEF Counts
<1> QED  BY <1>1, <1>2, <1>3, <1>4 DEF Observations, new

\* One more observation of one of the methods is one more in all.
LEMMA UpdatedObservations ==
  ASSUME NEW l \in Seq(Entry), NEW k \in 1..Len(l), NEW e \in Entry, e.count = l[k].count + 1
  PROVE  Observations([l EXCEPT ![k] = e]) = Observations(l) + 1
<1> DEFINE new == [l EXCEPT ![k] = e]
<1>1. new \in Seq(Entry) /\ Len(new) = Len(l) /\ new[k] = e /\ \A i \in 1..Len(l) : i # k => new[i] = l[i]
  BY ExceptSeq
<1> HIDE DEF new
<1>2. /\ Len(l) \in Nat /\ Counts(Tally(l), l, Len(l)) /\ Counts(Tally(new), new, Len(l))
      /\ \A i \in 1..Len(l) : l[i].count \in Nat
  BY <1>1, CountType, TallyCounts
<1> DEFINE f == Tally(l)
           g == Tally(new)
           n == Len(l)
           S == {i \in 0..n : g[i] = IF i < k THEN f[i] ELSE f[i] + 1}
<1>3. Counts(f, l, n) /\ Counts(g, new, n)
  BY <1>2
<1> HIDE DEF f, g
<1>4. 0 \in S
  BY <1>2, <1>3 DEF Counts
<1>5. ASSUME NEW i \in 1..n, i - 1 \in S
      PROVE  i \in S
  <2>0. i - 1 \in 0..n /\ l[i].count \in Nat
    BY <1>2
  <2>1. f[i] = f[i - 1] + l[i].count /\ g[i] = g[i - 1] + new[i].count /\ f[i - 1] \in Nat
    BY <1>3, <2>0 DEF Counts
  <2>2. g[i - 1] = IF i - 1 < k THEN f[i - 1] ELSE f[i - 1] + 1
    BY <1>5
  <2>3. CASE i < k
    BY <1>1, <1>2, <2>0, <2>1, <2>2, <2>3
  <2>4. CASE i = k
    BY <1>1, <1>2, <2>0, <2>1, <2>2, <2>4
  <2>5. CASE i > k
    <3>1. new[i].count = l[i].count /\ ~(i - 1 < k) /\ ~(i < k)
      BY <1>1, <1>2, <2>5
    <3>2. g[i] = f[i] + 1
      BY <2>0, <2>1, <2>2, <3>1
    <3> QED  BY <1>2, <3>1, <3>2
  <2> QED  BY <1>2, <2>3, <2>4, <2>5
<1> HIDE DEF S
<1>6. 0..n \subseteq S
  BY <1>2, <1>4, <1>5, InductionUpTo
<1>7. n \in S
  BY <1>2, <1>6
<1>8. g[n] = f[n] + 1
  BY <1>2, <1>7 DEF S
<1> QED  BY <1>8 DEF Observations, f, g, new, n

\* A learned method comes with the one observation it was learned from.
OneObservation == pc = "update" => cand.count = 1

LEMMA OneObservationPreserved == OneObservation /\ [Next]_vars => OneObservation'
<1> SUFFICES ASSUME OneObservation, [Next]_vars PROVE OneObservation'
  OBVIOUS
<1>1. CASE cand' = cand /\ (pc' = "update" => pc = "update")
  BY <1>1 DEF OneObservation
<1>2. CASE LearnMethod
  <2>1. PICK b \in Body, c \in Costs :
          Offer(NewEntry(b, IF flags.qvalues THEN 1 ELSE 0, IF flags.qvalues THEN c ELSE 0, TRUE),
                IF flags.qvalues THEN "update" ELSE IF flags.no_subsumption THEN "idle" ELSE "find")
    BY <1>2 DEF LearnMethod
  <2> QED  BY <2>1 DEF Offer, NewEntry, OneObservation
<1>3. CASE LearnNdChecker
  <2>1. pc' # "update"
    BY <1>3 DEF LearnNdChecker, Offer
  <2> QED  BY <2>1 DEF OneObservation
<1> QED  BY <1>1, <1>2, <1>3 DEF Next, Step, AddVerifier, AddTrivialChecker, AddBeforeLearning, DropSelfLoop,
           Find, Keep, ReplaceMethod, RemoveMethod, EndReplace, Update, vars

\* With --qvalues the library has as many observations as methods were learned,
\* besides what it came with: no cost that was paid is left out of a rating.
THEOREM RatingsCountEveryObservation == Spec => ObservationsCounted
<1> DEFINE Expected == Observations(lib) + (IF pc = "update" /\ pc' = "idle" THEN 1 ELSE 0)
<1>1. Init => OneObservation
  BY DEF Init, OneObservation
<1>2. TypeOK /\ OneObservation /\ [Next]_vars =>
        [flags.qvalues /\ pc # "replace" => Observations(lib') = Expected]_vars
  <2> SUFFICES ASSUME TypeOK, OneObservation, Next, flags.qvalues, pc # "replace"
               PROVE  Observations(lib') = Expected
    OBVIOUS
  <2>0. lib \in Seq(Entry) /\ m \in Nat \ {0} /\ cand \in Entry
    BY DEF TypeOK
  <2>1. Observations(lib) \in Nat
    BY <2>0, CountType, TallyCounts DEF Observations, Counts
  <2>2. ASSUME lib' = lib, ~(pc = "update" /\ pc' = "idle")
        PROVE  Observations(lib') = Expected
    BY <2>1, <2>2
  <2>3. CASE AddVerifier \/ AddTrivialChecker
    <3>1. PICK b \in Body : lib' = Append(lib, NewEntry(b, 0, 0, FALSE))
      BY <2>3, LibraryAssumption DEF AddVerifier, AddTrivialChecker, AddBeforeLearning
    <3>2. NewEntry(b, 0, 0, FALSE) \in Entry /\ NewEntry(b, 0, 0, FALSE).count = 0
      BY NewEntryType DEF NewEntry
    <3>3. pc = "idle"
      BY <2>3 DEF AddVerifier, AddTrivialChecker, AddBeforeLearning
    <3> QED  BY <2>0, <2>1, <3>1, <3>2, <3>3, AppendedObservations
  <2>4. CASE LearnMethod
    <3>1. lib' = lib /\ pc = "idle"
      BY <2>4 DEF LearnMethod, Offer
    <3> QED  BY <2>2, <3>1
  <2>5. CASE LearnNdChecker
    <3>1. PICK b \in Body, r \in {"idle", "find"} : Offer(NewEntry(b, 0, 0, TRUE), r)
      BY <2>5, LibraryAssumption DEF LearnNdChecker
    <3>2. NewEntry(b, 0, 0, TRUE) \in Entry /\ NewEntry(b, 0, 0, TRUE).count = 0
      BY NewEntryType DEF NewEntry
    <3>3. pc = "idle" /\ (lib' = lib \/ lib' = Append(lib, NewEntry(b, 0, 0, TRUE)))
      BY <3>1 DEF Offer
    <3> QED  BY <2>0, <2>1, <2>2, <3>2, <3>3, AppendedObservations
  <2>6. CASE DropSelfLoop \/ Find
    <3>1. lib' = lib /\ pc # "update"
      BY <2>6 DEF DropSelfLoop, Find
    <3> QED  BY <2>2, <3>1
  <2>7. CASE Keep \/ ReplaceMethod \/ RemoveMethod \/ EndReplace
    BY <2>7 DEF Keep, ReplaceMethod, RemoveMethod, EndReplace
  <2>8. CASE Update
    <3>1. pc = "update" /\ cand.count = 1
      BY <2>8 DEF Update, OneObservation
    <3>2. CASE m > Len(lib)
      BY <2>0, <2>1, <2>8, <3>1, <3>2, AppendedObservations DEF Update
    <3>3. CASE m <= Len(lib) /\ Equivalent(lib[m], cand)
      <4> DEFINE e == UpdateQValue(lib[m], cand.total)
      <4>1. m \in 1..Len(lib) /\ lib' = [lib EXCEPT ![m] = e] /\ pc' = "idle"
        BY <2>0, <2>8, <3>3 DEF Update
      <4>2. lib[m] \in Entry /\ cand.total \in Nat
        <5>1. cand.total \in Nat
          BY <2>0 DEF Entry
        <5> QED  BY <2>0, <4>1, <5>1
      <4>3. e \in Entry /\ e.count = lib[m].count + 1
        <5>1. e.count = lib[m].count + 1
          BY <4>2 DEF UpdateQValue, Entry
        <5> QED  BY <4>2, <5>1, UpdateQValueType
      <4> HIDE DEF e
      <4> QED  BY <2>0, <3>1, <4>1, <4>3, UpdatedObservations
    <3>4. CASE m <= Len(lib) /\ ~Equivalent(lib[m], cand)
      BY <2>0, <2>2, <2>8, <3>1, <3>4 DEF Update
    <3> QED  BY <2>0, <3>2, <3>3, <3>4
  <2> QED  BY <2>3, <2>4, <2>5, <2>6, <2>7, <2>8 DEF Next, Step
<1> QED  BY <1>1, <1>2, OneObservationPreserved, Typing, PTL DEF Spec, ObservationsCounted
============================================================================
