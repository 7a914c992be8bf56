---------------------- MODULE MCProvenanceCorroborated ----------------------
(***************************************************************************)
(* The same with a history of what each look at a directory found, to      *)
(* compare the counts with what is said of them.  The code counts a disk   *)
(* that is not mounted as a miss (index/mod.rs:316).                       *)
(***************************************************************************)
EXTENDS MCProvenance

VARIABLE streak     \* how many scans in a row saw its parent without it

Looks(s) ==
    /\ RecordsProjects(s)
    /\ streak' = [p \in Paths |->
           IF p \notin Observed(s) THEN streak[p]
           ELSE IF fs[p] = "absent" THEN Capped(streak[p] + 1) ELSE 0]

LooksElsewhere ==
    /\ Next /\ ~\E s \in Scanners : RecordsProjects(s)
    /\ UNCHANGED streak

SpecWithStreak ==
    /\ Init /\ streak = [p \in Paths |-> 0]
    /\ [][(\E s \in Scanners : Looks(s)) \/ LooksElsewhere]_<<vars, streak>>

\* "absent across at least two consecutive scans ... A missing parent
\* directory makes the project unverifiable instead."
AbsenceIsCorroborated ==
    [][\A v \in Vols : \A p \in orphans'[v] \ orphans[v] :
           streak'[p] >= MinAbsentScans]_<<vars, streak>>
=============================================================================
