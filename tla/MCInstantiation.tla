--------------------------- MODULE MCInstantiation ---------------------------
(***************************************************************************)
(* GetInstantiations of up to three formulas of each kind, with and        *)
(* without parameters, in states with atoms that share constants.          *)
(***************************************************************************)
EXTENDS Instantiation

MCObject    == {"a", "b", "c"}
MCVariable  == {"?x", "?y", "?z"}
MCPredicate == {"p", "q"}
MCTypeOf    == [t \in MCObject \cup MCVariable |-> IF t \in {"c", "?z"} THEN "place" ELSE "block"]
MCNone      == <<>>
MCNoNames   == {}

Lit(pred, args)  == [pos |-> TRUE, pred |-> pred, args |-> args]
Not(pred, args)  == [pos |-> FALSE, pred |-> pred, args |-> args]
Fact(pred, args) == [pred |-> pred, args |-> args]

Formulas ==
  {Lit("p", <<"?x", "?y">>), Lit("p", <<"?y", "?x">>), Lit("p", <<"?x", "?x">>), Lit("q", <<"?x">>),
   Lit("q", <<"?z">>), Lit("=", <<"?x", "a">>), Lit("=", <<"?x", "?y">>), Not("=", <<"?x", "?y">>),
   Not("=", <<"b", "?y">>), Not("q", <<"?x">>)}

States ==
  {{Fact("p", <<"a", "b">>), Fact("p", <<"b", "a">>), Fact("p", <<"b", "b">>), Fact("q", <<"a">>)},
   {Fact("p", <<"a", "b">>), Fact("q", <<"b">>), Fact("q", <<"c">>)}}

Binding == {<<>>, "?x" :> "a", "?y" :> "b"}

MCCalls ==
  LET forms == UNION {kSubset(n, Formulas) : n \in 0..3}
  IN  [params : {<<>>}, precs : forms, sub : Binding, rel : {{}, {"?x"}, {"?y", "?z"}}, state : States]
        \cup [params : {<<"?x", "?z">>}, precs : forms, sub : Binding, rel : {{"?x", "?z"}}, state : States]
===============================================================================
