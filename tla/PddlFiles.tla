----------------------------- MODULE PddlFiles -----------------------------
(***************************************************************************)
(* The domain and problem files, from one program to the next.  add-ids,   *)
(* htn-solver2 --update_qvalues and htn-maker read an HTN domain and write *)
(* it again, and what they write is the input of the next program; htn-    *)
(* maker reads a STRIPS domain and problem first, htn-solver2 a problem    *)
(* afterwards.  A text is a sequence of blocks, a block has the words and  *)
(* the parts the readers tell apart.  Each process has one table of terms, *)
(* shared by all the texts it reads, in which a name has one type.         *)
(*                                                                         *)
(* "=" and "not" are left out of formulas: their terms are read like those *)
(* of a predicate.  Names are compared up to case, as interned names are.  *)
(* The plan and the task list of htn-maker are not read here, nor is what  *)
(* a program does with its domain between reading and writing it: the      *)
(* other modules model that.                                               *)
(***************************************************************************)
EXTENDS Naturals, FiniteSets, Sequences, SequencesExt, TLC

CONSTANTS
  Variable,      \* the names that begin with "?"
  DomainFiles,   \* HTN domains: [name, blocks]
  ProblemFiles,  \* HTN problems: [domain, blocks]
  StripsFiles,   \* pairs of a STRIPS domain and a STRIPS problem
  MaxRuns        \* bound on the number of programs run one after the other

VARIABLES
  file,     \* the HTN domain file
  problem,  \* the HTN problem file
  strips,   \* the STRIPS domain and problem files given to htn-maker
  program,  \* the program that runs, or ran last
  pc,       \* what it is doing, or how it ended
  stages,   \* the readers it still has to call, the one at work first
  todo,     \* the blocks of the text that reader has not reached
  seen,     \* its flags l_bHasRequirements, l_bHasTypes, ...
  dom,      \* the domain, as far as it is read
  prob,     \* the problem, as far as it is read
  terms,    \* g_TermTable: the type of each name looked up, "" if untyped
  written,  \* ghost: the domains written so far, oldest first
  solved,   \* ghost: the problems read so far, oldest first
  runs      \* how many programs were started

inputs == <<problem, strips>>
texts == <<stages, todo, seen, dom, prob, terms>>
ghosts == <<written, solved>>
vars == <<file, problem, strips, program, pc, texts, ghosts, runs>>

-----------------------------------------------------------------------------
(* Words and terms                                                         *)

Empty == [n \in {} |-> ""]
Default == [id |-> "", q |-> 999999, count |-> 0]

\* A list of declarations: "name - type" if typing is in use, else names.  The
\* last type may be missing, which reads as an empty one.
WellFormedList(words, typed) ==
  typed => /\ Len(words) % 3 # 1
           /\ \A i \in DOMAIN words : i % 3 = 2 => words[i] = "-"

Pairs(words, typed) ==
  IF typed
  THEN [i \in 1..((Len(words) + 1) \div 3) |->
          [name |-> words[3 * i - 2],
           type |-> IF 3 * i \in DOMAIN words THEN words[3 * i] ELSE ""]]
  ELSE [i \in DOMAIN words |-> [name |-> words[i], type |-> ""]]

Names(pairs) == {pairs[i].name : i \in DOMAIN pairs}
Distinct(pairs) == \A i, j \in DOMAIN pairs : pairs[i].name = pairs[j].name => i = j

FirstType(pairs, n) ==
  pairs[CHOOSE i \in DOMAIN pairs : /\ pairs[i].name = n
                                    /\ \A j \in 1..(i - 1) : pairs[j].name # n].type

LastTypes(pairs) == [n \in Names(pairs) |-> FirstType(Reverse(pairs), n)]

\* TermTable::Lookup( name, type ) by way of ReadTerm.  A non-empty table of
\* types admits only its own names; a name without a type in it is looked up
\* whatever type it has, one with a type must have that type.
TypeIn(table, n) == IF n \in DOMAIN table THEN table[n] ELSE ""

ReadTerm(n, table, known) ==
  /\ DOMAIN table = {} \/ n \in DOMAIN table
  /\ \/ n \notin DOMAIN known
     \/ TypeIn(table, n) \in {"", known[n]}

ReadTerms(names, table, known) == \A n \in names : ReadTerm(n, table, known)

\* The table of terms after the names were looked up.
Known(names, table, known) == known @@ [n \in names |-> TypeIn(table, n)]

ArgsOf(atoms) == UNION {ToSet(atoms[i].args) : i \in DOMAIN atoms}

\* FormulaPred against the declared predicates: declared, with as many terms,
\* of the same types or, like there, of none.
Declared(atom, preds, known) ==
  preds = <<>> \/
  \E i \in DOMAIN preds :
    /\ preds[i].name = atom.pred
    /\ Len(preds[i].params) = Len(atom.args)
    /\ \A j \in DOMAIN atom.args : preds[i].params[j].type = known[atom.args[j]]

ReadFormula(atoms, table, known, preds) ==
  /\ ReadTerms(ArgsOf(atoms), table, known)
  /\ \A i \in DOMAIN atoms :
       Declared(atoms[i], preds, Known(ArgsOf(atoms), table, known))

-----------------------------------------------------------------------------
(* ParseRequirements and the blocks of a domain                            *)

StripsRequirements == {":strips", ":typing", ":equality"}
HtnRequirements == {":htn", ":method-ids", ":q-values"}

\* The other requirements of PDDL are known, and refused.
ParseRequirements(words, allowHtn) ==
  words \subseteq StripsRequirements \cup (IF allowHtn THEN HtnRequirements ELSE {})

Typing(d) == ":typing" \in d.reqs

\* The type of a parameter must be declared.  A parameter named twice is refused
\* if the types are the same; if they differ, the first one holds.
DeclareTerms(table, pairs, types) ==
  \A i \in DOMAIN pairs :
    LET n == pairs[i].name
        earlier == Names(SubSeq(pairs, 1, i - 1)) IN
    /\ pairs[i].type \in types
    /\ n \in DOMAIN table => table[n] # pairs[i].type
    /\ n \in earlier \ DOMAIN table => FirstType(pairs, n) # pairs[i].type

WithTerms(table, pairs) == table @@ [n \in Names(pairs) |-> FirstType(pairs, n)]

\* One part of an action or of a method.  r is what was read so far, and r.ok
\* becomes FALSE where the reader throws.
Threw(r) == [r EXCEPT !.ok = FALSE]

ReadParameters(r, part, typed, d) ==
  LET pairs == Pairs(part.words, typed) IN
  IF /\ part.kind \notin r.has
     /\ part.kind = ":vars" => r.has \cap {":precondition", ":subtasks"} = {}
     /\ WellFormedList(part.words, typed)
     /\ typed => DeclareTerms(r.table, pairs, d.types)
  THEN [r EXCEPT !.has = @ \cup {part.kind},
                 !.table = IF typed THEN WithTerms(@, pairs) ELSE @,
                 !.params = IF part.kind = ":vars" THEN @
                            ELSE [i \in DOMAIN pairs |-> pairs[i].name]]
  ELSE Threw(r)

ReadAtoms(r, part, preds) ==
  IF /\ part.kind \notin r.has
     /\ ReadFormula(part.atoms, r.table, r.terms, preds)
  THEN [r EXCEPT !.has = @ \cup {part.kind},
                 !.formulas = (part.kind :> part.atoms) @@ @,
                 !.terms = Known(ArgsOf(part.atoms), r.table, @)]
  ELSE Threw(r)

ReadActionPart(r, part, d) ==
  CASE ~r.ok -> r
    [] part.kind = ":parameters" -> ReadParameters(r, part, d.types # {}, d)
    [] part.kind \in {":precondition", ":effect"} -> ReadAtoms(r, part, d.preds)
    [] part.kind = ":cost" -> [r EXCEPT !.cost = part.value]
    [] OTHER -> Threw(r)

ReadMethodPart(r, part, d) ==
  CASE ~r.ok -> r
    [] part.kind \in {":parameters", ":vars"} -> ReadParameters(r, part, Typing(d), d)
    [] part.kind = ":precondition" -> ReadAtoms(r, part, d.preds)
    [] part.kind = ":subtasks" -> ReadAtoms(r, part, <<>>)
    [] part.kind = ":id" /\ ":id" \notin r.has /\ ":method-ids" \in d.reqs ->
         [r EXCEPT !.has = @ \cup {":id"}, !.id = part.value]
    [] part.kind = ":q-value" /\ ":q-values" \in d.reqs -> [r EXCEPT !.q = part.value]
    [] part.kind = ":q-count" /\ ":q-values" \in d.reqs -> [r EXCEPT !.count = part.value]
    [] OTHER -> Threw(r)

\* The head is looked up last.  A method without parameters throws there, an
\* action that lacks a part does; a method may lack its precondition.
EndSchema(r, name, needs) ==
  IF r.ok /\ needs \subseteq r.has /\ ReadTerms(ToSet(r.params), r.table, r.terms)
  THEN LET known == Known(ToSet(r.params), r.table, r.terms)
           mentioned == ToSet(r.params) \cup UNION {ArgsOf(r.formulas[k]) :
                                                      k \in DOMAIN r.formulas} IN
       [r EXCEPT !.terms = known] @@
       [schema |-> [name |-> name, params |-> r.params, formulas |-> r.formulas,
                    type |-> [n \in mentioned |-> known[n]], cost |-> r.cost,
                    id |-> r.id, q |-> r.q, count |-> r.count]]
  ELSE Threw(r)

Unread(known) ==
  [ok |-> TRUE, has |-> {}, table |-> Empty, terms |-> known, params |-> <<>>,
   formulas |-> Empty, cost |-> 0] @@ Default

ReadOperator(b, d, known) ==
  EndSchema(FoldLeft(LAMBDA r, part : ReadActionPart(r, part, d), Unread(known), b.parts),
            b.name, {":parameters", ":precondition", ":effect"})

ReadMethod(b, d, known) ==
  EndSchema(FoldLeft(LAMBDA r, part : ReadMethodPart(r, part, d), Unread(known), b.parts),
            b.name, {":parameters"})

\* One declaration of the predicates block.
ReadPredicate(r, p, d) ==
  LET pairs == Pairs(p.words, Typing(d))
      table == IF Typing(d) THEN LastTypes(pairs) ELSE Empty
      known == Known(Names(pairs), table, r.terms) IN
  IF /\ r.ok
     /\ WellFormedList(p.words, Typing(d))
     /\ Typing(d) /\ d.types # {} => \A i \in DOMAIN pairs : pairs[i].type \in d.types
     /\ \A i \in DOMAIN r.preds : r.preds[i].name # p.name
     /\ ReadTerms(Names(pairs), table, r.terms)
  THEN [r EXCEPT !.terms = known,
                 !.preds = Append(@, [name |-> p.name,
                             params |-> [i \in DOMAIN pairs |->
                               [name |-> pairs[i].name, type |-> known[pairs[i].name]]]])]
  ELSE Threw(r)

ReadPredicates(b, d, known) ==
  FoldLeft(LAMBDA r, p : ReadPredicate(r, p, d),
           [ok |-> TRUE, preds |-> <<>>, terms |-> known], b.preds)

-----------------------------------------------------------------------------
(* Printing a domain                                                       *)

\* A term as ToStr prints it: with its type, if it has one.
Words(names, type) ==
  FlattenSeq([i \in DOMAIN names |->
    IF type[names[i]] = "" THEN <<names[i]>> ELSE <<names[i], "-", type[names[i]]>>])

\* Slip: the types are left out.
PrintConstantsUntyped(constants) == SetToSeq(DOMAIN constants)

\* Constants are printed with a dash, whether they have a type or not.
PrintConstants(constants) ==
  FlattenSeq([i \in 1..Cardinality(DOMAIN constants) |->
    LET n == SetToSeq(DOMAIN constants)[i] IN
    IF constants[n] = "" THEN <<n, "-">> ELSE <<n, "-", constants[n]>>])

Atoms(m, kind) == IF kind \in DOMAIN m.formulas THEN m.formulas[kind] ELSE <<>>

\* The :vars of a method: variables of the precondition and all terms of the
\* subtasks, without those of the head.
VarsOf(m) ==
  ((ArgsOf(Atoms(m, ":precondition")) \cap Variable) \cup ArgsOf(Atoms(m, ":subtasks")))
    \ ToSet(m.params)

\* HtnMethod::ToPddl takes each of those terms for a variable, and the
\* precondition for given.
Printable(d) ==
  \A i \in DOMAIN d.methods : /\ VarsOf(d.methods[i]) \subseteq Variable
                              /\ ":precondition" \in DOMAIN d.methods[i].formulas

PrintOperator(o) ==
  [kind |-> ":action", name |-> o.name, parts |->
     <<[kind |-> ":parameters", words |-> Words(o.params, o.type)],
       [kind |-> ":precondition", atoms |-> Atoms(o, ":precondition")],
       [kind |-> ":effect", atoms |-> Atoms(o, ":effect")]>>
     \o IF o.cost # 0 THEN <<[kind |-> ":cost", value |-> o.cost]>> ELSE <<>>]

PrintMethod(m, reqs) ==
  [kind |-> ":method", name |-> m.name, parts |->
     <<[kind |-> ":parameters", words |-> Words(m.params, m.type)]>>
     \o (IF VarsOf(m) = {} THEN <<>>
         ELSE <<[kind |-> ":vars", words |-> Words(SetToSeq(VarsOf(m)), m.type)]>>)
     \o <<[kind |-> ":precondition", atoms |-> Atoms(m, ":precondition")],
          [kind |-> ":subtasks", atoms |-> Atoms(m, ":subtasks")]>>
     \o (IF ":method-ids" \in reqs THEN <<[kind |-> ":id", value |-> m.id]>> ELSE <<>>)
     \o (IF ":q-values" \in reqs THEN <<[kind |-> ":q-value", value |-> m.q],
                                        [kind |-> ":q-count", value |-> m.count]>>
         ELSE <<>>)]

PrintPredicates(preds) ==
  [i \in DOMAIN preds |->
     [name |-> preds[i].name,
      words |-> FlattenSeq([j \in DOMAIN preds[i].params |->
                  LET p == preds[i].params[j] IN Words(<<p.name>>, p.name :> p.type)])]]

PrintRequirements(reqs) ==
  [kind |-> ":requirements", words |-> reqs \cap (StripsRequirements \cup HtnRequirements)]

\* HtnDomain::ToPddl.
PrintDomain(d) ==
  [name |-> d.name, blocks |->
     <<PrintRequirements(d.reqs)>>
     \o (IF Typing(d) THEN <<[kind |-> ":types", words |-> d.types]>> ELSE <<>>)
     \o (IF DOMAIN d.constants = {} THEN <<>>
         ELSE <<[kind |-> ":constants", words |-> PrintConstants(d.constants)]>>)
     \o (IF d.preds = <<>> THEN <<>>
         ELSE <<[kind |-> ":predicates", preds |-> PrintPredicates(d.preds)]>>)
     \o [i \in DOMAIN d.ops |-> PrintOperator(d.ops[i])]
     \o [i \in DOMAIN d.methods |-> PrintMethod(d.methods[i], d.reqs)]]

-----------------------------------------------------------------------------
(* The programs                                                            *)

Programs == {"add-ids", "htn-solver2", "htn-maker"}

Readers(p) ==
  CASE p = "add-ids" -> <<"HtnDomain">>
    [] p = "htn-solver2" -> <<"HtnDomain", "HtnProblem">>
    [] p = "htn-maker" -> <<"StripsDomain", "StripsProblem", "HtnDomain">>

Text(reader, pair) ==
  CASE reader = "HtnDomain" -> file
    [] reader = "HtnProblem" -> problem
    [] reader = "StripsDomain" -> pair[1]
    [] reader = "StripsProblem" -> pair[2]

NewDomain(name, reqs) ==
  [name |-> name, reqs |-> reqs, types |-> {}, constants |-> Empty,
   preds |-> <<>>, ops |-> <<>>, methods |-> <<>>]
NoProblem == [objects |-> Empty, init |-> {}, goal |-> <<>>]

Reader == IF stages = <<>> THEN "none" ELSE Head(stages)
ReadsDomain == Reader \in {"HtnDomain", "StripsDomain"}
AllowsHtn == Reader \in {"HtnDomain", "HtnProblem"}

\* Entering a reader: its flags are clear, its requirements those of no block.
\* A domain is read from nothing; a problem must name the domain.
Enter(readers, pair) ==
  /\ stages' = readers
  /\ todo' = Text(Head(readers), pair).blocks
  /\ seen' = {}
  /\ CASE Head(readers) = "HtnDomain" ->
            /\ dom' = NewDomain(file.name, {":strips", ":htn"})
            /\ prob' = NoProblem
            /\ pc' = "reading"
       [] Head(readers) = "StripsDomain" ->
            /\ dom' = NewDomain(pair[1].name, {":strips"})
            /\ prob' = NoProblem
            /\ pc' = "reading"
       [] OTHER ->
            /\ prob' = NoProblem
            /\ pc' = IF Text(Head(readers), pair).domain = dom.name THEN "reading" ELSE "threw"
            /\ UNCHANGED dom

Init ==
  /\ file \in DomainFiles
  /\ problem \in ProblemFiles
  /\ strips = <<>>
  /\ program = "none"
  /\ pc = "done"
  /\ stages = <<>> /\ todo = <<>> /\ seen = {}
  /\ dom = NewDomain("", {}) /\ prob = NoProblem
  /\ terms = Empty
  /\ written = <<>> /\ solved = <<>>
  /\ runs = 0

\* A program is started, with an empty table of terms.
Start ==
  /\ pc = "done" /\ runs < MaxRuns
  /\ runs' = runs + 1
  /\ program' \in Programs
  /\ strips' \in (IF program' = "htn-maker" THEN StripsFiles ELSE {<<>>})
  /\ terms' = Empty
  /\ Enter(Readers(program'), strips')
  /\ UNCHANGED <<file, problem, ghosts>>

At(kind) == pc = "reading" /\ todo # <<>> /\ Head(todo).kind = kind

\* A block is read, or the reader throws.  It must not come after a block of the
\* same or of a later kind.
Order(kind) ==
  CASE kind = ":requirements" -> 1
    [] kind \in {":types", ":objects"} -> 2
    [] kind \in {":constants", ":init"} -> 3
    [] kind \in {":predicates", ":goal", ":tasks"} -> 4
    [] kind \in {":action", ":method"} -> 5

InOrder(kind) == \A k \in seen : Order(k) < Order(kind)

Throw == pc' = "threw" /\ UNCHANGED <<file, inputs, program, texts, ghosts, runs>>

Pass == /\ todo' = Tail(todo)
        /\ seen' = seen \cup {Head(todo).kind}
        /\ UNCHANGED <<file, inputs, program, pc, stages, ghosts, runs>>

ReadRequirements ==
  /\ At(":requirements")
  /\ IF InOrder(":requirements") /\ ParseRequirements(Head(todo).words, AllowsHtn)
     THEN /\ dom' = IF ReadsDomain THEN [dom EXCEPT !.reqs = Head(todo).words] ELSE dom
          /\ Pass
          /\ UNCHANGED <<prob, terms>>
     ELSE Throw

ReadTypes ==
  /\ ReadsDomain /\ At(":types")
  /\ IF InOrder(":types") /\ Typing(dom)
     THEN /\ dom' = [dom EXCEPT !.types = Head(todo).words]
          /\ Pass
          /\ UNCHANGED <<prob, terms>>
     ELSE Throw

ReadConstants ==
  LET words == Head(todo).words
      pairs == Pairs(words, Typing(dom)) IN
  /\ ReadsDomain /\ At(":constants")
  /\ IF InOrder(":constants") /\ WellFormedList(words, Typing(dom)) /\ Distinct(pairs)
     THEN /\ dom' = [dom EXCEPT !.constants = LastTypes(pairs)]
          /\ Pass
          /\ UNCHANGED <<prob, terms>>
     ELSE Throw

ReadPredicateBlock ==
  LET r == ReadPredicates(Head(todo), dom, terms) IN
  /\ ReadsDomain /\ At(":predicates")
  /\ IF InOrder(":predicates") /\ r.ok
     THEN /\ dom' = [dom EXCEPT !.preds = r.preds]
          /\ terms' = r.terms
          /\ Pass
          /\ UNCHANGED prob
     ELSE Throw

ReadAction ==
  LET r == ReadOperator(Head(todo), dom, terms) IN
  /\ ReadsDomain /\ At(":action")
  /\ IF r.ok
     THEN /\ dom' = [dom EXCEPT !.ops = Append(@, r.schema)]
          /\ terms' = r.terms
          /\ Pass
          /\ UNCHANGED prob
     ELSE Throw

ReadMethodBlock ==
  LET r == ReadMethod(Head(todo), dom, terms) IN
  /\ Reader = "HtnDomain" /\ At(":method")
  /\ IF r.ok
     THEN /\ dom' = [dom EXCEPT !.methods = Append(@, r.schema)]
          /\ terms' = r.terms
          /\ Pass
          /\ UNCHANGED prob
     ELSE Throw

\* The terms a problem may use: its objects, or the constants of the domain.
Usable == IF DOMAIN prob.objects # {} THEN prob.objects ELSE dom.constants

\* Objects, if the domain has constants, are some of them.
ReadObjects ==
  LET words == Head(todo).words
      pairs == Pairs(words, Typing(dom)) IN
  /\ ~ReadsDomain /\ At(":objects")
  /\ IF /\ InOrder(":objects") /\ WellFormedList(words, Typing(dom)) /\ Distinct(pairs)
        /\ DOMAIN dom.constants # {} =>
             \A i \in DOMAIN pairs : /\ pairs[i].name \in DOMAIN dom.constants
                                     /\ dom.constants[pairs[i].name] = pairs[i].type
     THEN /\ prob' = [prob EXCEPT !.objects = LastTypes(pairs)]
          /\ Pass
          /\ UNCHANGED <<dom, terms>>
     ELSE Throw

ReadInit ==
  LET atoms == Head(todo).atoms IN
  /\ ~ReadsDomain /\ At(":init")
  /\ IF /\ InOrder(":init") /\ ReadFormula(atoms, Usable, terms, dom.preds)
        /\ ArgsOf(atoms) \cap Variable = {}
     THEN /\ prob' = [prob EXCEPT !.init = ToSet(atoms)]
          /\ terms' = Known(ArgsOf(atoms), Usable, terms)
          /\ Pass
          /\ UNCHANGED dom
     ELSE Throw

\* The tasks of an HTN problem, the goal of a STRIPS problem.  Predicates are
\* checked in the goal only.
ReadGoal ==
  LET atoms == Head(todo).atoms IN
  /\ \/ Reader = "HtnProblem" /\ At(":tasks")
     \/ Reader = "StripsProblem" /\ At(":goal")
  /\ IF /\ InOrder(Head(todo).kind)
        /\ ReadFormula(atoms, Usable, terms,
                       IF Reader = "StripsProblem" THEN dom.preds ELSE <<>>)
     THEN /\ prob' = [prob EXCEPT !.goal = atoms]
          /\ terms' = Known(ArgsOf(atoms), Usable, terms)
          /\ Pass
          /\ UNCHANGED dom
     ELSE Throw

KnownBlocks(reader) ==
  CASE reader = "HtnDomain" -> {":requirements", ":types", ":constants",
                                ":predicates", ":action", ":method"}
    [] reader = "StripsDomain" -> {":requirements", ":types", ":constants",
                                   ":predicates", ":action"}
    [] reader = "HtnProblem" -> {":requirements", ":objects", ":init", ":tasks"}
    [] reader = "StripsProblem" -> {":requirements", ":objects", ":init", ":goal"}

\* What a reader does not know it throws at.  StripsDomain throws a pointer,
\* which main does not catch.
RefuseBlock ==
  /\ pc = "reading" /\ todo # <<>> /\ Head(todo).kind \notin KnownBlocks(Reader)
  /\ pc' = IF Reader = "StripsDomain" THEN "terminated" ELSE "threw"
  /\ UNCHANGED <<file, inputs, program, texts, ghosts, runs>>

\* The end of a text: typing needs types, a problem needs a state and a goal.
EndText ==
  LET complete == IF ReadsDomain THEN Typing(dom) => ":types" \in seen
                  ELSE ":init" \in seen /\ seen \cap {":goal", ":tasks"} # {} IN
  /\ pc = "reading" /\ todo = <<>>
  /\ IF complete
     THEN /\ IF Len(stages) > 1
             THEN Enter(Tail(stages), strips)
             ELSE pc' = "read" /\ UNCHANGED <<stages, todo, seen, dom, prob>>
          /\ solved' = IF Reader = "HtnProblem" THEN Append(solved, prob) ELSE solved
          /\ UNCHANGED <<file, inputs, program, terms, written, runs>>
     ELSE Throw

\* add-ids: SetMethodId refuses to replace an id.
WithIds(d) ==
  [d EXCEPT !.methods = [i \in DOMAIN @ |-> [@[i] EXCEPT !.id = ToString(99 + i)]],
            !.reqs = @ \cup {":method-ids"}]

\* The domain is written.  htn-solver2 has truncated the file by then, the
\* others print to what becomes the file: a crash in ToPddl leaves it empty.
Write(d) ==
  IF Printable(d)
  THEN /\ file' = PrintDomain(d)
       /\ written' = Append(written, d)
       /\ pc' = "done"
       /\ UNCHANGED <<inputs, program, texts, solved, runs>>
  ELSE /\ file' = [file EXCEPT !.blocks = <<>>]
       /\ pc' = "crashed"
       /\ UNCHANGED <<inputs, program, texts, ghosts, runs>>

WriteDomain ==
  /\ pc = "read"
  /\ IF program # "add-ids" THEN Write(dom)
     ELSE IF \A i \in DOMAIN dom.methods : dom.methods[i].id = "" THEN Write(WithIds(dom))
     ELSE Throw

Next ==
  \/ Start \/ ReadRequirements \/ ReadTypes \/ ReadConstants \/ ReadPredicateBlock
  \/ ReadAction \/ ReadMethodBlock \/ ReadObjects \/ ReadInit \/ ReadGoal
  \/ RefuseBlock \/ EndText \/ WriteDomain

Spec == Init /\ [][Next]_vars

-----------------------------------------------------------------------------
(* Properties                                                              *)

\* The terms an operator or method declares when it is printed.
DeclaredTerms(m) == ToSet(m.params) \cup (VarsOf(m) \cap Variable)

\* A domain whose declarations carry types exactly if it requires typing, whose
\* other terms have none, and that names no parameter twice.  Other domains are
\* accepted too, and printed as something else than they are: constants of an
\* untyped domain, and terms that have a type, or lack one, because of what the
\* process read before.
Regular(d) ==
  /\ Typing(d) => d.types # {}
  /\ \A n \in DOMAIN d.constants : Typing(d) /\ d.constants[n] # ""
  /\ \A i \in DOMAIN d.preds : \A p \in ToSet(d.preds[i].params) :
       (p.type # "") = Typing(d)
  /\ \A m \in ToSet(d.ops) \cup ToSet(d.methods) :
       /\ \A n \in DOMAIN m.type :
            (m.type[n] # "") = (Typing(d) /\ n \in DeclaredTerms(m))
       /\ Typing(d) => IsInjective(m.params)

\* What a domain says.  The type of a term it does not declare, such as a constant
\* in a precondition, may have come from another text.
Content(d) ==
  LET declared(m) == [m EXCEPT !.type = [n \in DeclaredTerms(m) |-> @[n]]] IN
  [d EXCEPT !.ops = [i \in DOMAIN @ |-> declared(@[i])],
            !.methods = [i \in DOMAIN @ |-> declared(@[i])]]

AtDomain == program # "htn-maker" /\ written # <<>> /\ Reader = "HtnDomain"

\* A domain that one program wrote is read by the next, and is the domain that
\* was meant: same requirements, types, constants, predicates, operators and
\* methods, with their ids and Q-values.  A problem that could be read with it
\* before still can, and is the same problem.  (HtnDomain::ToPddl and FromPddl.)
RewritesAreHarmless ==
  (\A i \in DOMAIN written : Regular(written[i])) =>
    /\ AtDomain /\ pc \in {"threw", "terminated", "read"} => Content(dom) = Content(Last(written))
    /\ program = "htn-solver2" /\ Len(written) > 0 /\ Len(solved) > 0 =>
         /\ Reader = "HtnProblem" => pc # "threw"
         /\ \A i \in DOMAIN solved : solved[i] = solved[1]

\* "Retrieve a string containing the PDDL representation of this domain."
\* (htn_domain.cpp, at ToPddl): what is written is read as the same domain.
WritesThePddlOfTheDomain ==
  AtDomain /\ pc \in {"threw", "terminated", "read"} => Content(dom) = Content(Last(written))

=============================================================================
