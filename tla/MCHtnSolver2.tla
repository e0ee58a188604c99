---------------------------- MODULE MCHtnSolver2 ----------------------------
(***************************************************************************)
(* htn-solver2 on an errand domain: buy a thing where it is sold, then go  *)
(* back.  It has a recursive method, a method without subtasks, methods    *)
(* with several instances, a precondition variable that is no parameter,   *)
(* dead ends, and Q-values that disagree with the order of the file.       *)
(***************************************************************************)
EXTENDS HtnSolver2

Lit(p, as)   == [pos |-> TRUE, pred |-> p, args |-> as]
NotEq(x, y)  == [pos |-> FALSE, pred |-> "=", args |-> <<x, y>>]
Del(p, as)   == [pos |-> FALSE, pred |-> p, args |-> as]
Task1(n, as) == [name |-> n, args |-> as]
Fact(p, as)  == [pred |-> p, args |-> as]

MCObject    == {"home", "shop", "mall", "milk"}
MCVariable  == {"?a", "?b", "?c", "?x"}
MCPredicate == {"at", "road", "sells", "have"}
MCPrimitive == {"!go", "!buy", "!fly"}
MCCompound  == {"travel", "fetch"}
MCArity     == [n \in MCPrimitive \cup MCCompound |-> IF n \in {"!go", "!fly"} THEN 2 ELSE 1]

MCOperators == <<
  [name |-> "!go", params |-> <<"?a", "?b">>, cost |-> 1,
   precs |-> {Lit("at", <<"?a">>), Lit("road", <<"?a", "?b">>)},
   effects |-> {Del("at", <<"?a">>), Lit("at", <<"?b">>)}],
  [name |-> "!buy", params |-> <<"?x">>, cost |-> 2,
   precs |-> {Lit("at", <<"?a">>), Lit("sells", <<"?a", "?x">>)},
   effects |-> {Lit("have", <<"?x">>)}] >>

MCMethods == <<
  [name |-> "travel", id |-> "M1", params |-> <<"?b">>,
   precs |-> {Lit("at", <<"?a">>), Lit("road", <<"?a", "?c">>)},
   subtasks |-> <<Task1("!go", <<"?a", "?c">>), Task1("travel", <<"?b">>)>>],
  [name |-> "travel", id |-> "M2", params |-> <<"?b">>,
   precs |-> {Lit("at", <<"?b">>)}, subtasks |-> <<>>],
  [name |-> "fetch", id |-> "M3", params |-> <<"?x">>,
   precs |-> {Lit("sells", <<"?a", "?x">>)},
   subtasks |-> <<Task1("travel", <<"?a">>), Task1("!buy", <<"?x">>)>>],
  [name |-> "travel", id |-> "M4", params |-> <<"?b">>,
   precs |-> {Lit("at", <<"?a">>), Lit("road", <<"?a", "?b">>), NotEq("?a", "?b")},
   subtasks |-> <<Task1("!go", <<"?a", "?b">>)>>] >>

\* The same methods, the second one without an id, and in place of the last one
\* that asks for an operator the domain does not have.
MCAnonymous ==
  <<MCMethods[1], [MCMethods[2] EXCEPT !.id = ""], MCMethods[3],
    [name |-> "travel", id |-> "M5", params |-> <<"?b">>, precs |-> {},
     subtasks |-> <<Task1("!fly", <<"?b", "?b">>)>>]>>

MCInitQ == [m \in 1..Len(Methods) |->
              CASE m = 1 -> [count |-> 1, total |-> 9, prior |-> 0]
                [] m = 2 -> [count |-> 2, total |-> 5, prior |-> 0]
                [] m = 3 -> [count |-> 0, total |-> 0, prior |-> 3]
                [] m = 4 -> [count |-> 1, total |-> 2, prior |-> 0]
                [] OTHER -> Unrated]

MCInitState == {Fact("at", <<"home">>), Fact("road", <<"home", "shop">>),
                Fact("road", <<"home", "mall">>), Fact("road", <<"shop", "home">>),
                Fact("sells", <<"shop", "milk">>), Fact("sells", <<"mall", "milk">>)}
MCInitTasks == <<Task1("fetch", <<"milk">>), Task1("travel", <<"home">>)>>

MCInOrder  == [q : BOOLEAN, u : BOOLEAN, r : {FALSE}, maxDepth : {4, 7}]
MCShuffled == [q : {FALSE}, u : {TRUE}, r : {TRUE}, maxDepth : {4, 5}]
MCShopping == <<Task1("fetch", <<"milk">>)>>

\* One of the two places that sell milk is out of reach.
MCClosedRoad == MCInitState \ {Fact("road", <<"home", "mall">>)}
=============================================================================
