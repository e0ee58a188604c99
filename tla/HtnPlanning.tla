---------------------------- MODULE HtnPlanning ----------------------------
(***************************************************************************)
(* What an HTN planner promises: a plan it reports is the end of a legal   *)
(* derivation from the problem, each step of which carries out the next    *)
(* task by an applicable operator or decomposes it by an applicable        *)
(* method; and it says there is none only after it gave up every step it   *)
(* had taken.  How the steps are found, ordered or bounded is left open.   *)
(***************************************************************************)
EXTENDS Integers, Sequences

CONSTANTS Problem,        \* the partial solution nothing has been done on
          Successors(_),  \* the partial solutions one legal step further
          Complete(_)     \* whether every task has been done

VARIABLES path,    \* the partial solutions from the problem to the current one
          verdict  \* "open", "plan" (the last solution of path) or "none"

End(s)       == s[Len(s)]
WithoutEnd(s) == SubSeq(s, 1, Len(s) - 1)

Init == path = <<Problem>> /\ verdict = "open"

\* A complete solution is reported as soon as it is reached.
Extend ==
  /\ verdict = "open" /\ path # <<>> /\ ~Complete(End(path))
  /\ Len(path') = Len(path) + 1 /\ WithoutEnd(path') = path
  /\ End(path') \in Successors(End(path))
  /\ verdict' = IF Complete(End(path')) THEN "plan" ELSE "open"

Retract ==
  verdict = "open" /\ path # <<>> /\ path' = WithoutEnd(path) /\ verdict' = verdict

NothingToDo ==
  /\ verdict = "open" /\ path = <<Problem>> /\ Complete(Problem)
  /\ path' = path /\ verdict' = "plan"

GiveUp == verdict = "open" /\ path = <<>> /\ verdict' = "none" /\ path' = path

PlanAgain == verdict # "open" /\ path' = <<Problem>> /\ verdict' = "open"

Next == Extend \/ Retract \/ NothingToDo \/ GiveUp \/ PlanAgain

Spec == Init /\ [][Next]_<<path, verdict>>
============================================================================
