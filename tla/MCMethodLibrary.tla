-------------------------- MODULE MCMethodLibrary --------------------------
(***************************************************************************)
(* Eight methods: "any" covers "left", "right" and "right2", the last two  *)
(* are equivalent, "check" covers "check2", two verifiers share a name.    *)
(***************************************************************************)
EXTENDS MethodLibrary

MCBody == {"any", "left", "right", "right2", "check", "check2", "verify", "verify2"}
MCCheckBody == {"check", "check2"}
MCVerifyBody == {"verify", "verify2"}
MCNameOf(b) == IF b \in MCVerifyBody THEN "move-verify"
               ELSE IF b \in MCCheckBody THEN "check-push" ELSE "move"
MCSubsumes(a, b) ==
  \/ a = b
  \/ a = "any" /\ b \in {"left", "right", "right2"}
  \/ a \in {"right", "right2"} /\ b \in {"right", "right2"}
  \/ a = "check" /\ b = "check2"

Given(b, n, c) == [body |-> b, id |-> n, count |-> c, total |-> 2 * c, learned |-> FALSE]

\* Empty; with a redundant pair; with the subsumed methods apart.
MCLibraries ==
  { <<>>,
    <<Given("right", 1, 0), Given("left", 3, 1), Given("right2", 2, 0)>>,
    <<Given("check2", 2, 2), Given("any", 1, 1), Given("left", 4, 0)>> }

\* Ids up to the last one of seven digits.
MCFullLibrary == { <<Given("left", 1000000, 0), Given("right", 9999999, 0)>> }
=============================================================================
