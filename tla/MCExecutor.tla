----------------------------- MODULE MCExecutor -----------------------------
(***************************************************************************)
(* A small daemon for Executor: an orphaned volume whose data cannot be    *)
(* brought back, and a network that happens to have the volume's name.     *)
(* Two items make every pair of stages meet: the removal of the first may  *)
(* still be in flight while the second is checked, and an interrupt may    *)
(* come before, between and after them.                                    *)
(***************************************************************************)
EXTENDS Executor, MCReclaim

CONSTANTS precious, net

MCRes == {precious, net}
MCOrder == <<precious, net>>
MCVolumes == {precious}
MCFacts == {"quiet", "held"}

\* An orphan stays one while a stopped container of its dead project holds
\* it; a network with an endpoint is protected.
MCTierOf ==
    [r \in MCRes |-> [f \in MCFacts |->
        IF r = precious THEN "orphan"
        ELSE IF f = "quiet" THEN "free" ELSE "protected"]]

MCNameOf == [r \in MCRes |-> "db"]

Default == [apply |-> TRUE, tiers |-> {"free", "orphan"}, label |-> FALSE,
            fenced |-> FALSE, ticked |-> {}, vault |-> TRUE,
            configured |-> TRUE]

\* What the command line can ask for: --apply with the vault, --apply without
\* it and behind the label fence, the default preview, and one ticked row.
MCRuns == {Default,
           [Default EXCEPT !.apply = FALSE],
           [Default EXCEPT !.vault = FALSE, !.label = TRUE],
           [Default EXCEPT !.fenced = TRUE, !.ticked = {precious}]}
=============================================================================
