---------------------------- MODULE MCWorkflows ------------------------------
(* TLC instance of Workflows. *)
EXTENDS Workflows

Level(n, secs) == [level |-> n, sla |-> secs]

\* Level numbers as the documentation of EscalationLevel has them; nothing
\* keeps an operator from a policy without levels, with one number twice, or
\* with the numbers the other way round.
Chains == {<<Level(1, 2), Level(2, 0), Level(3, 1)>>,
           <<Level(1, 0), Level(3, 1)>>,
           <<Level(1, 0), Level(1, 1)>>,
           <<Level(3, 1), Level(1, 0)>>,
           <<>>}

Work(s) == [id |-> s, kind |-> "work"]
Gate(s) == [id |-> s, kind |-> "gate"]

\* Two orders of the work between the same gates, and a definition without the
\* second gate.
Steps == {"g1", "g2", "a", "b", "c", "d"}
Gated == {<<Work("a"), Gate("g1"), Work("b"), Work("c"), Gate("g2"), Work("d")>>,
             <<Work("a"), Gate("g1"), Work("c"), Work("b"), Gate("g2"), Work("d")>>,
             <<Work("a"), Gate("g1"), Work("b"), Work("c"), Work("d")>>}
=============================================================================
