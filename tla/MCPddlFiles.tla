---------------------------- MODULE MCPddlFiles ----------------------------
(***************************************************************************)
(* Domains of boxes and places, typed and untyped, with blocks and parts   *)
(* left out, doubled or out of order, and problems over them.              *)
(***************************************************************************)
EXTENDS PddlFiles

MCVariable == {"?b", "?p", "?q"}

Block(kind, words) == [kind |-> kind, words |-> words]
Requirements(reqs) == Block(":requirements", reqs)
Untyped == {":strips", ":htn"}
Typed == Untyped \cup {":typing"}

Types == Block(":types", {"box", "place"})
TypedConstants == Block(":constants", <<"home", "-", "place", "crate", "-", "box">>)
UntypedConstants == Block(":constants", <<"home", "crate">>)

Predicates(words) ==
  [kind |-> ":predicates", preds |-> <<[name |-> "at", words |-> words]>>]
TypedPredicates == Predicates(<<"?b", "-", "box", "?p", "-", "place">>)
UntypedPredicates == Predicates(<<"?b", "?p">>)

Formula(kind, args) == [kind |-> kind, atoms |-> <<[pred |-> "at", args |-> args]>>]
Drop(words) ==
  [kind |-> ":action", name |-> "!drop", parts |->
     <<Block(":parameters", words), Formula(":precondition", <<"?b", "?p">>),
       Formula(":effect", <<"?b", "?p">>), [kind |-> ":cost", value |-> 3]>>]
TypedDrop == Drop(<<"?b", "-", "box", "?p", "-", "place">>)
UntypedDrop == Drop(<<"?b", "?p">>)
\* Out of order, and without an effect.
Backwards(a) == [a EXCEPT !.parts = <<@[2], @[1], @[3]>>]
WithoutEffect(a) == [a EXCEPT !.parts = <<@[1], @[2]>>]

Method(parts) == [kind |-> ":method", name |-> "bring", parts |-> parts]
Subtasks(args) ==
  [kind |-> ":subtasks", atoms |-> <<[pred |-> "!drop", args |-> args]>>]
TypedBring ==
  Method(<<Block(":parameters", <<"?b", "-", "box">>), Block(":vars", <<"?p", "-", "place">>),
           Formula(":precondition", <<"?b", "?p">>), Subtasks(<<"?b", "?p">>)>>)
UntypedBring ==
  Method(<<Block(":parameters", <<"?b">>), Formula(":precondition", <<"?b", "?p">>),
           Subtasks(<<"?b", "?q">>)>>)
\* Without parameters nothing is declared, and any term may be used.
Anything == Method(<<Block(":parameters", <<>>), Formula(":precondition", <<"?b", "?p">>),
                     Subtasks(<<"?b", "?p">>)>>)
Tidy(args) == Method(<<Block(":parameters", <<>>), Formula(":precondition", args),
                       Subtasks(<<>>)>>)
NoPrecondition == Method(<<Block(":parameters", <<>>), Subtasks(<<>>)>>)
Rated(m) == [m EXCEPT !.parts = @ \o <<[kind |-> ":id", value |-> "7"],
                                       [kind |-> ":q-value", value |-> 4],
                                       [kind |-> ":q-count", value |-> 2]>>]
NamesConstant == Method(<<Block(":parameters", <<>>), Formula(":precondition", <<"?b", "?p">>),
                          Subtasks(<<"?b", "home">>)>>)
Doubled == [TypedDrop EXCEPT !.parts[1].words = @ \o <<"?b", "-", "place">>]

Optional(b) == {<<>>, <<b>>}
Domain(blocks) == [name |-> "boxes", blocks |-> blocks]
Concat(S, T) == {s \o t : s \in S, t \in T}

TypedFiles ==
  Concat(Optional(Requirements(Typed)), Concat(Optional(Types), Concat(Optional(TypedConstants),
    Concat(Optional(TypedPredicates),
      {<<TypedDrop, TypedBring>>, <<TypedDrop, Anything>>, <<Anything, TypedDrop>>,
       <<Backwards(TypedDrop)>>, <<Doubled>>, <<TypedDrop, NoPrecondition>>,
       <<TypedBring, TypedDrop, Tidy(<<"crate", "home">>)>>}))))
UntypedFiles ==
  Concat({<<>>, <<Requirements(Untyped)>>, <<Requirements(Untyped), Requirements(Untyped)>>},
    Concat(Optional(UntypedConstants), Concat(Optional(UntypedPredicates),
      {<<UntypedDrop, UntypedBring>>, <<WithoutEffect(UntypedDrop)>>,
       <<UntypedDrop, NamesConstant>>, <<UntypedBring, Tidy(<<"home", "crate">>)>>})))
OtherFiles ==
  {<<Requirements(Typed), Types, TypedDrop, TypedPredicates>>,
   <<Types, Requirements(Typed)>>,
   <<Requirements(Typed), TypedConstants, Types>>,
   <<Requirements(Untyped), [kind |-> ":functions"]>>,
   <<Requirements(Untyped \cup {":adl"})>>,
   <<Requirements(Untyped), UntypedDrop, Rated(UntypedBring)>>,
   <<Requirements(Untyped \cup HtnRequirements), UntypedDrop, Rated(UntypedBring), UntypedBring>>,
   <<Requirements(Typed \cup HtnRequirements), Types, TypedConstants, TypedPredicates,
     TypedDrop, Rated(TypedBring)>>}
MCDomainFiles == {Domain(f) : f \in TypedFiles \cup UntypedFiles \cup OtherFiles}

\* Of these a program can write the domain and none can read it again.
MCUntypedConstants ==
  {Domain(<<Requirements(Untyped), UntypedConstants, UntypedPredicates, UntypedDrop,
            UntypedBring>>)}

Problem(blocks) == [domain |-> "boxes", blocks |-> blocks]
At1(kind) == Formula(kind, <<"crate", "home">>)
Tasks == [kind |-> ":tasks", atoms |-> <<[pred |-> "bring", args |-> <<"crate">>]>>]
TypedObjects == Block(":objects", <<"crate", "-", "box", "home", "-", "place">>)
UntypedObjects == Block(":objects", <<"crate", "home">>)
MCProblemFiles ==
  {Problem(<<At1(":init"), Tasks>>),
   Problem(<<TypedObjects, At1(":init"), Tasks>>),
   Problem(<<Requirements(Untyped), UntypedObjects, At1(":init"), Tasks>>),
   Problem(<<TypedObjects, Tasks, At1(":init")>>),
   [domain |-> "trucks", blocks |-> <<>>]}

StripsTyped == Requirements({":strips", ":typing"})
MCStripsFiles ==
  {<<Domain(<<StripsTyped, Types, TypedPredicates, TypedDrop>>),
     Problem(<<TypedObjects, At1(":init"), At1(":goal")>>)>>,
   <<Domain(<<UntypedPredicates, UntypedDrop>>),
     Problem(<<UntypedObjects, At1(":init"), At1(":goal")>>)>>,
   <<Domain(<<UntypedDrop, UntypedBring>>), Problem(<<At1(":init"), Tasks>>)>>,
   <<Domain(<<UntypedDrop>>), Problem(<<At1(":init"), Tasks>>)>>}

=============================================================================
