----------------------------- MODULE MCRunners -----------------------------
(* Model-checking instance of Runners.                                     *)
EXTENDS Runners

CONSTANTS p1, p2, p3

Job(kind) ==
  [kind |-> kind, enabled |-> TRUE, latest |-> kind \in Chained, stamped |-> TRUE,
   orchestrated |-> FALSE, cycles |-> 1]
Shared(kind) == [Job(kind) EXCEPT !.stamped = FALSE]
Pipeline(kind) == [Shared(kind) EXCEPT !.latest = FALSE, !.orchestrated = TRUE]

Team(a, b, c) == (p1 :> a) @@ (p2 :> b) @@ (p3 :> c)

\* The three stages in a row, a stage with two producers, three paper sessions
\* over one directory, pipelines of the scheduler with a polling live runner, a
\* dry run.
AllSchedules ==
  {Team(Job("scanner"), Job("monitoring"), Job("decision")),
   Team(Job("scanner"), Job("scanner"), Job("monitoring")),
   Team(Shared("paper"), Shared("paper"), Shared("paper")),
   Team(Pipeline("paper"), Pipeline("live"), [Shared("paper") EXCEPT !.enabled = FALSE]),
   Team([Shared("dry") EXCEPT !.cycles = 3], [Shared("live") EXCEPT !.cycles = 2],
        [Shared("decision") EXCEPT !.latest = FALSE])}
=============================================================================
