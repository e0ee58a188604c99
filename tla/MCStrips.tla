------------------------------ MODULE MCStrips ------------------------------
(***************************************************************************)
(* Problems for vanilla_ice: a robot with a door and a key, with a goal    *)
(* that two orders of the actions reach in different lengths, one that is  *)
(* out of reach, one that holds at once, and a domain whose operators have *)
(* variables that are no parameters.                                       *)
(***************************************************************************)
EXTENDS Strips

Lit(p, as)  == [pos |-> TRUE, pred |-> p, args |-> as]
Not(p, as)  == [pos |-> FALSE, pred |-> p, args |-> as]
Fact(p, as) == [pred |-> p, args |-> as]

MCObject    == {"hall", "lab", "yard", "attic", "key"}
MCVariable  == {"?a", "?b"}
MCPredicate == {"at", "path", "door", "in", "has"}
MCPrimitive == {"!walk", "!take", "!open", "!drop"}
MCArity     == [n \in MCPrimitive |-> IF n = "!walk" THEN 2 ELSE 1]
MCNone      == <<>>

Walk == [name |-> "!walk", params |-> <<"?a", "?b">>, cost |-> 1,
         precs |-> {Lit("at", <<"?a">>), Lit("path", <<"?a", "?b">>)},
         effects |-> {Not("at", <<"?a">>), Lit("at", <<"?b">>)}]
Take == [name |-> "!take", params |-> <<"?a">>, cost |-> 1,
         precs |-> {Lit("at", <<"?a">>), Lit("in", <<"?a">>)},
         effects |-> {Not("in", <<"?a">>), Lit("has", <<"key">>)}]
Open == [name |-> "!open", params |-> <<"?b">>, cost |-> 1,
         precs |-> {Lit("has", <<"key">>), Lit("at", <<"lab">>), Lit("door", <<"?b">>)},
         effects |-> {Not("door", <<"?b">>), Lit("path", <<"lab", "?b">>)}]
Drop == [name |-> "!drop", params |-> <<"?a">>, cost |-> 1,
         precs |-> {Lit("at", <<"?a">>), Lit("has", <<"key">>)},
         effects |-> {Not("has", <<"key">>), Lit("in", <<"?a">>)}]

\* The place it starts from is no parameter, and in the second one two places
\* may be meant, of which the state decides.
Leave == [Walk EXCEPT !.params = <<"?b">>]
Call  == [name |-> "!open", params |-> <<"?b">>, cost |-> 1,
          precs |-> {Lit("path", <<"?a", "?b">>)}, effects |-> {Lit("at", <<"?b">>)}]

House == {Fact("at", <<"hall">>), Fact("in", <<"hall">>), Fact("door", <<"attic">>),
          Fact("path", <<"hall", "lab">>), Fact("path", <<"lab", "hall">>),
          Fact("path", <<"hall", "yard">>), Fact("path", <<"yard", "hall">>),
          Fact("path", <<"yard", "lab">>)}
OneWay == House \ {Fact("path", <<"lab", "hall">>)}

MCProblems ==
  { [opers |-> <<Walk, Take, Open>>, init |-> House, goals |-> {Lit("at", <<"attic">>)}],
    [opers |-> <<Walk, Take, Drop>>, init |-> House,
     goals |-> {Lit("in", <<"yard">>)}],
    [opers |-> <<Walk, Take>>, init |-> OneWay, goals |-> {Lit("at", <<"attic">>)}],
    [opers |-> <<Walk, Open>>, init |-> House, goals |-> {Lit("at", <<"hall">>), Not("has", <<"key">>)}],
    [opers |-> <<Leave, Take, Call>>, init |-> OneWay, goals |-> {Not("at", <<"hall">>), Lit("has", <<"key">>)}] }
=============================================================================
