---------------------------- MODULE MCProvenance ----------------------------
(***************************************************************************)
(* Two projects, one with a directory its containers do and do not name.   *)
(* Of the volumes one has the path of a directory on its labels and is     *)
(* mounted by containers of both projects, one has its label only, and one *)
(* has nothing but its name.                                               *)
(***************************************************************************)
EXTENDS Provenance

CONSTANTS here, there, project, other, located, unlocated, elsewhere, dev, bare, lab

\* One scanner, of two projects.
MCPathOf == [c \in {located, elsewhere} |-> IF c = located THEN here ELSE there]
MCProjectOf == [c \in {located, elsewhere} |-> IF c = located THEN project ELSE other]
MCVolOrder == <<dev, lab>>
MCMountsOf == [c \in {located, elsewhere} |-> {dev}]
MCLabelOf == [v \in {dev, lab} |-> project]
MCDirectOf == [v \in {dev, lab} |-> IF v = dev THEN there ELSE NoPath]
MCPrefixOf == [v \in {dev, lab} |-> NoProject]

\* Two scanners, of one.
MCPathOfTwo == [c \in {located, unlocated} |-> IF c = located THEN here ELSE NoPath]
MCProjectOfTwo == [c \in {located, unlocated} |-> project]
MCVolOrderTwo == <<bare, lab>>
MCMountsOfTwo == [c \in {located, unlocated} |-> {bare}]
MCLabelOfTwo == [v \in {bare, lab} |-> IF v = bare THEN NoProject ELSE project]
MCDirectOfTwo == [v \in {bare, lab} |-> NoPath]
MCPrefixOfTwo == [v \in {bare, lab} |-> IF v = bare THEN project ELSE NoProject]
=============================================================================
