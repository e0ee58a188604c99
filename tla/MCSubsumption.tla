--------------------------- MODULE MCSubsumption ---------------------------
(* Methods for one task h(?x), with and without a subtask, whose             *)
(* preconditions are up to three formulas over ?x and two free variables.    *)
EXTENDS Subsumption

MCObject    == {}
MCVariable  == {"x", "y", "z"}
MCPredicate == {"p", "q"}
MCArity     == [h |-> 1, s |-> 2]
NoSchemas   == <<>>
NoCheckers  == [o \in {} |-> "h"]

Lit(pred, args) == [pos |-> TRUE, pred |-> pred, args |-> args]
NotEq(s, t)     == [pos |-> FALSE, pred |-> "=", args |-> <<s, t>>]

Method(precs, subtasks) ==
  [name |-> "h", params |-> <<"x">>, precs |-> precs, subtasks |-> subtasks]

Subtask(s, t) == [name |-> "s", args |-> <<s, t>>]

Formulas ==
  {Lit("p", <<"x", "y">>), Lit("p", <<"y", "z">>), Lit("p", <<"y", "y">>), Lit("q", <<"y">>), Lit("q", <<"z">>),
   NotEq("x", "y"), NotEq("z", "y"), Lit("=", <<"x", "y">>)}

UpTo(n) == {s \in SUBSET Formulas : Cardinality(s) <= n}

MCPairs ==
  {<<Method(f, <<>>), Method(g, <<>>)>> : f \in UpTo(3), g \in UpTo(3)}
    \cup {<<Method(f, <<Subtask("x", t)>>), Method(g, <<Subtask("x", u)>>)>> :
            f \in UpTo(1), g \in UpTo(2), t \in MCVariable, u \in {"x", "y"}}
============================================================================
