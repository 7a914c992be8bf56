------------------------------- MODULE MCTui -------------------------------
(***************************************************************************)
(* Two containers, a volume with the name of the first, and an image both  *)
(* containers hold as long as they are there.                              *)
(***************************************************************************)
EXTENDS Tui

CONSTANTS con, other, vol, img, db, job, repo

MCItems == {con, other, vol, img}
MCNameOf == [i \in MCItems |-> IF i = img THEN repo ELSE IF i = other THEN job ELSE db]
MCSizeOf == [i \in MCItems |-> IF i = img THEN 9 ELSE IF i = vol THEN 5
                              ELSE IF i = con THEN 1 ELSE 0]
MCBlockersOf == [i \in MCItems |-> IF i = img THEN {con, other} ELSE {}]

Planned(c, o, v, i) ==
    [x \in MCItems |->
        IF x = con THEN c ELSE IF x = other THEN o ELSE IF x = vol THEN v ELSE i]

\* Namesakes and another in one tier, a reclaim that unlocks the image and one
\* that does not, rows in both groups, and nothing left to do.
MCPlans == {Planned("stale", "stale", "stale", "protected"),
            Planned("free", "free", "protected", "protected"),
            Planned("free", "protected", "orphan", "protected"),
            Planned("gone", "gone", "orphan", "repullable"),
            Planned("gone", "gone", "gone", "gone")}
=============================================================================
