---------------------------- MODULE MCHtnSolver ----------------------------
(***************************************************************************)
(* htn-solver on a round trip: roads that lead in a circle, a detour that  *)
(* ends in the same place, a method without subtasks, one with a variable  *)
(* its subtasks do not mention, and one that asks for an operator the      *)
(* domain does not have.                                                   *)
(***************************************************************************)
EXTENDS HtnSolver

Lit(p, as)   == [pos |-> TRUE, pred |-> p, args |-> as]
Del(p, as)   == [pos |-> FALSE, pred |-> p, args |-> as]
Task1(n, as) == [name |-> n, args |-> as]
Fact(p, as)  == [pred |-> p, args |-> as]

MCObject    == {"home", "park", "shop"}
MCVariable  == {"?a", "?b", "?c"}
MCPredicate == {"at", "road"}
MCPrimitive == {"!go", "!fly"}
MCCompound  == {"travel"}
MCArity     == [n \in MCPrimitive \cup MCCompound |-> IF n = "!go" THEN 2 ELSE 1]

MCOperators == <<
  [name |-> "!go", params |-> <<"?a", "?b">>, cost |-> 1,
   precs |-> {Lit("at", <<"?a">>), Lit("road", <<"?a", "?b">>)},
   effects |-> {Del("at", <<"?a">>), Lit("at", <<"?b">>)}] >>

MCMethods == <<
  [name |-> "travel", id |-> "M1", params |-> <<"?b">>,
   precs |-> {Lit("at", <<"?a">>), Lit("road", <<"?a", "?c">>)},
   subtasks |-> <<Task1("!go", <<"?a", "?c">>), Task1("travel", <<"?b">>)>>],
  [name |-> "travel", id |-> "M2", params |-> <<"?b">>,
   precs |-> {Lit("at", <<"?b">>)}, subtasks |-> <<>>],
  [name |-> "travel", id |-> "M3", params |-> <<"?b">>,
   precs |-> {Lit("at", <<"?a">>), Lit("road", <<"?a", "?b">>)},
   subtasks |-> <<Task1("!go", <<"?a", "?b">>)>>],
  [name |-> "travel", id |-> "M4", params |-> <<"?b">>,
   precs |-> {Lit("road", <<"?a", "?b">>)}, subtasks |-> <<Task1("!fly", <<"?b">>)>>] >>

MCInitState == {Fact("at", <<"home">>), Fact("road", <<"home", "park">>), Fact("road", <<"home", "shop">>),
                Fact("road", <<"park", "shop">>), Fact("road", <<"shop", "home">>)}
MCInitTasks == <<Task1("travel", <<"shop">>), Task1("travel", <<"home">>)>>

MCCommandLines ==
  {o \in [b : BOOLEAN, l : BOOLEAN, e : BOOLEAN, r : BOOLEAN,
          maxDecomps : {-1, 2, 3}, keepLevel : {50, 100}] :
     (o.maxDecomps = -1 => o.l) /\ (o.keepLevel = 50 => o.l /\ ~o.e /\ o.maxDecomps = 3)}
============================================================================
