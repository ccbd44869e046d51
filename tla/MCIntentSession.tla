--------------------------- MODULE MCIntentSession ---------------------------
(* Bounded instances of IntentSession for TLC: what planners propose.       *)
EXTENDS IntentSession
CONSTANTS s1, s2, p1, p2

Writing == [Nothing EXCEPT !.declared = "confirm", !.ticket = TRUE]

\* One path for the ticket, all of them for another intent, one plan of each
\* kind that the policy denies, a dry run.
SomePlans ==
    {[Writing EXCEPT !.writes = {p1}],
     [Writing EXCEPT !.writes = Paths, !.ticket = FALSE],
     [Writing EXCEPT !.escapes = TRUE],
     [Writing EXCEPT !.declared = "grant"],
     [Writing EXCEPT !.writes = Paths, !.dry = TRUE]}

=============================================================================
