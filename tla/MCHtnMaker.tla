----------------------------- MODULE MCHtnMaker -----------------------------
(***************************************************************************)
(* A walker on a path from a to d, who lights lamps, and a gate whose push *)
(* may jam it instead ("!push-02").                                        *)
(***************************************************************************)
EXTENDS HtnMaker

MCObject    == {"a", "b", "c", "d"}
MCVariable  == {"?x", "?y"} \cup {CreatedVar(n) : n \in 1..MaxMethods * 20}
MCPredicate == {"at", "link", "lit", "open", "jam"}
MCArity ==
  [n \in {"!move", "both", "both-verify"} |-> 2] @@
  [n \in {"!light", "!push-01", "!push-02", "!clear", "go", "go-verify", "repair", "repair-verify", "check-push"} |-> 1]

Lit(pred, args) == [pos |-> TRUE, pred |-> pred, args |-> args]
Not(pred, args) == [pos |-> FALSE, pred |-> pred, args |-> args]
Oper(name, params, precs, effects, cost) ==
  [name |-> name, params |-> params, precs |-> precs, effects |-> effects, cost |-> cost]

MCOperators ==
  << Oper("!move", <<"?x", "?y">>, {Lit("at", <<"?x">>), Lit("link", <<"?x", "?y">>)},
          {Not("at", <<"?x">>), Lit("at", <<"?y">>)}, 2),
     Oper("!light", <<"?x">>, {Lit("at", <<"?x">>), Lit("open", <<"?x">>)}, {Lit("lit", <<"?x">>)}, 3),
     Oper("!push-01", <<"?x">>, {Lit("at", <<"?x">>)}, {Lit("open", <<"?x">>), Not("jam", <<"?x">>)}, 1),
     Oper("!push-02", <<"?x">>, {Lit("at", <<"?x">>)}, {Lit("jam", <<"?x">>)}, 1),
     Oper("!clear", <<"?x">>, {Lit("jam", <<"?x">>)}, {Not("jam", <<"?x">>)}, 1) >>
MCMethods == <<>>

MCCheckerOf  == [o \in {"!push-01", "!push-02"} |-> "check-push"]
MCDesiredOf  == [o \in {"!push-02"} |-> "!push-01"]
MCVerifierOf == ("go" :> "go-verify") @@ ("both" :> "both-verify") @@ ("repair" :> "repair-verify")

MCTasks ==
  << [name |-> "go", params |-> <<"?x">>, precs |-> {}, effects |-> {Lit("at", <<"?x">>)}],
     [name |-> "both", params |-> <<"?x", "?y">>, precs |-> {},
      effects |-> {Lit("lit", <<"?x">>), Lit("lit", <<"?y">>)}],
     [name |-> "repair", params |-> <<"?x">>, precs |-> {Lit("jam", <<"?x">>)}, effects |-> {Lit("lit", <<"?x">>)}] >>

Fact(pred, args) == [pred |-> pred, args |-> args]
Path == {Fact("link", <<"a", "b">>), Fact("link", <<"b", "c">>), Fact("link", <<"c", "d">>)}

Step(o, args) ==
  [oper |-> o, sub |-> [v \in Elems(MCOperators[o].params) |->
                          args[CHOOSE i \in 1..Len(args) : MCOperators[o].params[i] = v]]]

PlanFrom(start, steps) ==
  LET states[n \in 0..Len(steps)] ==
        IF n = 0 THEN start ELSE NextState(MCOperators[steps[n].oper], steps[n].sub, states[n - 1])
  IN  [states |-> [i \in 1..(Len(steps) + 1) |-> states[i - 1]], steps |-> steps]

AtA == Path \cup {Fact("at", <<"a">>)}

Walk   == PlanFrom(AtA, <<Step(1, <<"a", "b">>), Step(1, <<"b", "c">>), Step(1, <<"c", "d">>)>>)
Lights == PlanFrom(AtA, <<Step(3, <<"a">>), Step(2, <<"a">>), Step(1, <<"a", "b">>), Step(3, <<"b">>), Step(2, <<"b">>)>>)
Jam    == PlanFrom(AtA, <<Step(4, <<"a">>), Step(3, <<"a">>), Step(2, <<"a">>), Step(1, <<"a", "b">>)>>)
Opened == PlanFrom(AtA \cup {Fact("open", <<"a">>)}, <<Step(4, <<"a">>), Step(5, <<"a">>)>>)

\* The way to b, from b and back is learned as one method, which leaves out the push.
Detour == PlanFrom(AtA \cup {Fact("link", <<"c", "b">>), Fact("jam", <<"b">>)},
                   <<Step(1, <<"a", "b">>), Step(5, <<"b">>), Step(3, <<"b">>), Step(1, <<"b", "c">>), Step(1, <<"c", "b">>), Step(2, <<"b">>)>>)

MCTraces == {Walk, Lights, Jam, Opened, Detour}

FlagNames == {"require_new", "var_linkage", "drop_unneeded", "force_ops_first", "hard_squelch", "no_subsumption",
              "partial_generalization", "only_task_effects", "soundness_check", "nd_checkers", "qvalues"}
With(set) == [f \in FlagNames |-> f \in set]

MCFlagChoices ==
  {With(s) : s \in {{}, {"require_new"}, {"drop_unneeded"}, {"hard_squelch"}, {"partial_generalization"},
     {"partial_generalization", "var_linkage"}, {"force_ops_first", "no_subsumption"},
     {"nd_checkers"}, {"nd_checkers", "soundness_check", "partial_generalization"}, {"qvalues"},
     {"qvalues", "force_ops_first"},
     {"drop_unneeded", "force_ops_first", "only_task_effects", "require_new", "soundness_check"}}}

MCLibraries == {<<>>}
=============================================================================
