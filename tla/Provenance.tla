---------------------------- MODULE Provenance -----------------------------
(***************************************************************************)
(* Whose is a volume, and is its project gone?  Scanner::scan's attribution *)
(* with the index that remembers what removed containers said.             *)
(*                                                                         *)
(* A scan lists containers, writes their mounts and paths to the index,    *)
(* counts for every project it can locate whether its directory is there,  *)
(* reads back what the index remembers, and only then judges.  Containers  *)
(* come and go and directories disappear, go offline with their disk and   *)
(* return between any two of those steps, and other processes scan too.    *)
(*                                                                         *)
(* A claim is abstracted to its confidence and the path it rests on.       *)
(***************************************************************************)
EXTENDS Integers, Sequences

CONSTANTS
    Scanners,   \* the processes that scan one daemon
    Paths,      \* project directories
    Projects,   \* project names
    Cons,       \* containers
    VolOrder,   \* volumes, in the order of their names
    ProjectOf,  \* a container's project label: [Cons -> Projects]
    PathOf,     \* its working_dir or approot: [Cons -> Paths \union {NoPath}]
    MountsOf,   \* the volumes it mounts: [Cons -> SUBSET Vols]
    LabelOf,    \* a volume's project label, or NoProject
    DirectOf,   \* the path on a volume's own labels, or NoPath
    PrefixOf,   \* the project a volume's name starts with, or NoProject
    MinAbsentScans,         \* MIN_ABSENT_SCANS
    NoPath, NoProject, NoRow, Nobody

Vols == {VolOrder[i] : i \in 1..Len(VolOrder)}

\* A directory is there, is gone from a parent that is there, or cannot be
\* told because the parent is not there either.
Conditions == {"present", "absent", "offline"}

\* Bound: counts past the threshold are all alike.
Counts == 0..MinAbsentScans

Confidences == {"weak", "guess", "strong"}

Claims == [confidence : Confidences, path : Paths \union {NoPath}]

ASSUME ProvenanceAssumption ==
    /\ VolOrder \in Seq(Vols)
    /\ ProjectOf \in [Cons -> Projects]
    /\ PathOf \in [Cons -> Paths \union {NoPath}]
    /\ MountsOf \in [Cons -> SUBSET Vols]
    /\ LabelOf \in [Vols -> Projects \union {NoProject}]
    /\ DirectOf \in [Vols -> Paths \union {NoPath}]
    /\ PrefixOf \in [Vols -> Projects \union {NoProject}]
    /\ MinAbsentScans \in Nat \ {0, 1}  \* with 1, no row would be confirmation
    /\ NoPath \notin Paths /\ NoProject \notin Projects
    /\ NoRow \notin Nat /\ Nobody \notin Cons \union Paths

VARIABLES
    fs,         \* the condition of each project directory
    cons,       \* the containers that exist
    absent,     \* index, project: absent_scans per path, or NoRow
    newest,     \* index, edge: the container last seen holding each volume
    stage,      \* where each scanner is
    catalog,    \* its projects: [Projects -> Paths, NoPath, or Nobody]
    seen,       \* the containers it listed
    absences,   \* project_absences: the count it read for each path, or NoRow
    owners,     \* remembered: the container it recalls for each volume
    orphans,    \* the last report: the paths each volume is an orphan for
    missed,     \* history: scans that looked for a path and did not find it
    told        \* history: the containers that were ever listed

world == <<fs, cons>>
index == <<absent, newest>>
scan == <<catalog, seen, absences, owners>>
history == <<missed, told>>
vars == <<world, index, stage, scan, orphans, history>>

Capped(n) == IF n > MinAbsentScans THEN MinAbsentScans ELSE n

Init ==
    /\ fs \in [Paths -> Conditions]
    /\ cons \in SUBSET Cons
    /\ absent = [p \in Paths |-> NoRow]
    /\ newest = [v \in Vols |-> Nobody]
    /\ stage = [s \in Scanners |-> "idle"]
    /\ catalog = [s \in Scanners |-> [j \in Projects |-> Nobody]]
    /\ seen = [s \in Scanners |-> {}]
    /\ absences = [s \in Scanners |-> [p \in Paths |-> NoRow]]
    /\ owners = [s \in Scanners |-> [v \in Vols |-> Nobody]]
    /\ orphans = [v \in Vols |-> {}]
    /\ missed = [p \in Paths |-> 0]
    /\ told = {}
-----------------------------------------------------------------------------
(* A scan.                                                                 *)

\* What harvest may make of project j: a container with a path beats one
\* without, and of several with a path the last listed wins.
Harvests(j) ==
    LET of == {c \in cons : ProjectOf[c] = j}
        roots == {PathOf[c] : c \in of} \ {NoPath}
    IN  IF of = {} THEN {Nobody} ELSE IF roots = {} THEN {NoPath} ELSE roots

Lists(s) ==
    /\ stage[s] = "idle"
    /\ stage' = [stage EXCEPT ![s] = "listed"]
    /\ seen' = [seen EXCEPT ![s] = cons]
    /\ \E cat \in [Projects -> Paths \union {NoPath, Nobody}] :
           /\ \A j \in Projects : cat[j] \in Harvests(j)
           /\ catalog' = [catalog EXCEPT ![s] = cat]
    /\ told' = told \union cons
    /\ UNCHANGED <<world, index, absences, owners, orphans, missed>>

\* record_scan: one transaction over every mount of every container seen.
RecordsScan(s) ==
    /\ stage[s] = "listed"
    /\ stage' = [stage EXCEPT ![s] = "recorded"]
    /\ \E n \in [Vols -> Cons \union {Nobody}] :
           /\ \A v \in Vols :
                  LET holders == {c \in seen[s] : v \in MountsOf[c]}
                  IN  IF holders = {} THEN n[v] = newest[v] ELSE n[v] \in holders
           /\ newest' = n
    /\ UNCHANGED <<world, absent, scan, orphans, history>>

\* The paths this scan looks for: those of projects its containers locate.
Observed(s) == {catalog[s][j] : j \in Projects} \intersect Paths

\* Mutation: the row is replaced, not updated.
StartsOver(n, p) == IF fs[p] = "present" THEN 0 ELSE 1

\* A sighting resets the count; anything else, a disk that is not mounted
\* included, is a miss.
NextCount(n, p) ==
    IF fs[p] = "present" THEN 0 ELSE Capped((IF n = NoRow THEN 0 ELSE n) + 1)

\* record_projects: one transaction, after every directory was looked at.
RecordsProjects(s) ==
    /\ stage[s] = "recorded"
    /\ stage' = [stage EXCEPT ![s] = "counted"]
    /\ absent' = [p \in Paths |->
           IF p \in Observed(s) THEN NextCount(absent[p], p) ELSE absent[p]]
    /\ missed' = [p \in Paths |->
           IF p \in Observed(s) /\ fs[p] # "present" THEN Capped(missed[p] + 1)
                                                    ELSE missed[p]]
    /\ UNCHANGED <<world, newest, scan, orphans, told>>

\* The index is busy or broken: the scan goes on with a warning.
RecordingFails(s) ==
    /\ \/ stage[s] = "listed" /\ stage' = [stage EXCEPT ![s] = "recorded"]
       \/ stage[s] = "recorded" /\ stage' = [stage EXCEPT ![s] = "counted"]
    /\ UNCHANGED <<world, index, scan, orphans, history>>

RememberedPaths == {PathOf[newest[v]] : v \in {w \in Vols : newest[w] # Nobody}} \ {NoPath}

\* Counts are read for the paths observed and for those only the index knows.
Recalls(s) ==
    /\ stage[s] = "counted"
    /\ stage' = [stage EXCEPT ![s] = "recalled"]
    /\ absences' = [absences EXCEPT ![s] =
           [p \in Paths |-> IF p \in Observed(s) \union RememberedPaths THEN absent[p]
                                                                       ELSE NoRow]]
    /\ owners' = [owners EXCEPT ![s] = newest]
    /\ UNCHANGED <<world, index, catalog, seen, orphans, history>>
-----------------------------------------------------------------------------
(* Judging, from what was listed and recalled and from the disk as it is.  *)

\* Mutation: the first path remembered is taken for any project's.
RecallsAnybody(s, j, v) ==
    LET Says(w) == owners[s][w] # Nobody /\ PathOf[owners[s][w]] # NoPath
        first == {i \in 1..Len(VolOrder) :
                      /\ Says(VolOrder[i])
                      /\ \A k \in 1..(i - 1) : ~Says(VolOrder[k])}
    IN  IF first # {} THEN PathOf[owners[s][VolOrder[CHOOSE i \in first : TRUE]]]
        ELSE NoPath

\* recalled_paths: a project is where the first volume remembered with it
\* says; failing that a volume is where its own owner says.
RecalledPath(s, j, v) ==
    LET Says(w) == /\ owners[s][w] # Nobody
                   /\ ProjectOf[owners[s][w]] = j
                   /\ PathOf[owners[s][w]] # NoPath
        first == {i \in 1..Len(VolOrder) :
                      /\ Says(VolOrder[i])
                      /\ \A k \in 1..(i - 1) : ~Says(VolOrder[k])}
    IN  IF first # {} THEN PathOf[owners[s][VolOrder[CHOOSE i \in first : TRUE]]]
        ELSE IF owners[s][v] # Nobody THEN PathOf[owners[s][v]] ELSE NoPath

\* A claim that names its project and does not know where that is gets the
\* recalled path, and with it the confidence of a located one.
Located(s, j, v, claim) ==
    IF claim.path # NoPath \/ RecalledPath(s, j, v) = NoPath THEN claim
    ELSE [confidence |-> "strong", path |-> RecalledPath(s, j, v)]

RootOf(s, j) == IF catalog[s][j] = Nobody THEN NoPath ELSE catalog[s][j]

\* A path on the volume's own labels: devcontainer, ddev.
DirectClaims(v) ==
    {[confidence |-> "strong", path |-> p] : p \in {DirectOf[v]} \ {NoPath}}

\* A project label, located by the catalog or else by the index.
LabelClaims(s, v) ==
    {Located(s, j, v,
             [confidence |-> IF RootOf(s, j) = NoPath THEN "weak" ELSE "strong",
              path |-> RootOf(s, j)])
        : j \in {LabelOf[v]} \ {NoProject}}

\* No label: the name of a project in the catalog.
GuessClaims(s, v) ==
    {Located(s, j, v, [confidence |-> "guess", path |-> RootOf(s, j)])
        : j \in {k \in {PrefixOf[v]} \ {NoProject} : catalog[s][k] # Nobody}}

\* Nothing at all: the memory of a container that mounted it, at its word.
MemoryClaims(s, v) ==
    {[confidence |-> "weak", path |-> PathOf[c]] : c \in {owners[s][v]} \ {Nobody}}

\* Mutation: a remembered owner is as good as a label.
StrongMemories(s, v) ==
    LET labels == DirectClaims(v) \union LabelClaims(s, v)
        named == labels \union IF labels = {} THEN GuessClaims(s, v) ELSE {}
    IN  IF named # {} THEN named
        ELSE {[confidence |-> "strong", path |-> c.path] : c \in MemoryClaims(s, v)}

ClaimsFor(s, v) ==
    LET labels == DirectClaims(v) \union LabelClaims(s, v)
        named == labels \union IF labels = {} THEN GuessClaims(s, v) ELSE {}
    IN  IF named # {} THEN named ELSE MemoryClaims(s, v)

\* An absence the index has no count for is the one just observed.
Scans(s, p) == IF absences[s][p] = NoRow THEN 1 ELSE absences[s][p]

\* Mutation: the first miss is enough.
HastyPaths(s, v) ==
    IF \E c \in ClaimsFor(s, v) : c.path # NoPath /\ fs[c.path] = "present" THEN {}
    ELSE {p \in Paths : /\ [confidence |-> "strong", path |-> p] \in ClaimsFor(s, v)
                        /\ fs[p] = "absent"}

\* is_orphan_candidate: the absent projects that license the verdict.  A
\* claim of any strength on a project that is there vetoes it.
OrphanPaths(s, v) ==
    IF \E c \in ClaimsFor(s, v) : c.path # NoPath /\ fs[c.path] = "present" THEN {}
    ELSE {p \in Paths : /\ [confidence |-> "strong", path |-> p] \in ClaimsFor(s, v)
                        /\ fs[p] = "absent"
                        /\ Scans(s, p) >= MinAbsentScans}

\* The report is made, and the scanner forgets what it had in hand.
Judges(s) ==
    /\ stage[s] = "recalled"
    /\ stage' = [stage EXCEPT ![s] = "idle"]
    /\ orphans' = [v \in Vols |-> OrphanPaths(s, v)]
    /\ catalog' = [catalog EXCEPT ![s] = [j \in Projects |-> Nobody]]
    /\ seen' = [seen EXCEPT ![s] = {}]
    /\ absences' = [absences EXCEPT ![s] = [p \in Paths |-> NoRow]]
    /\ owners' = [owners EXCEPT ![s] = [v \in Vols |-> Nobody]]
    /\ UNCHANGED <<world, index, history>>

\* A scan is cancelled, or killed.
Abandons(s) ==
    /\ stage[s] # "idle"
    /\ stage' = [stage EXCEPT ![s] = "idle"]
    /\ catalog' = [catalog EXCEPT ![s] = [j \in Projects |-> Nobody]]
    /\ seen' = [seen EXCEPT ![s] = {}]
    /\ absences' = [absences EXCEPT ![s] = [p \in Paths |-> NoRow]]
    /\ owners' = [owners EXCEPT ![s] = [v \in Vols |-> Nobody]]
    /\ UNCHANGED <<world, index, orphans, history>>
-----------------------------------------------------------------------------
(* Everyone else.                                                          *)

\* A project is deleted or cloned, its disk unplugged or plugged in.
DirectoryChanges(p) ==
    /\ \E c \in Conditions \ {fs[p]} : fs' = [fs EXCEPT ![p] = c]
    /\ UNCHANGED <<cons, index, stage, scan, orphans, history>>

ContainerComes(c) ==
    /\ c \notin cons
    /\ cons' = cons \union {c}
    /\ UNCHANGED <<fs, index, stage, scan, orphans, history>>

\* Pruned by this program or removed by anybody else.
ContainerGoes(c) ==
    /\ c \in cons
    /\ cons' = cons \ {c}
    /\ UNCHANGED <<fs, index, stage, scan, orphans, history>>

ScanStep(s) ==
    \/ Lists(s) \/ RecordsScan(s) \/ RecordsProjects(s) \/ RecordingFails(s)
    \/ Recalls(s) \/ Judges(s)

Next ==
    \/ \E s \in Scanners : ScanStep(s) \/ Abandons(s)
    \/ \E p \in Paths : DirectoryChanges(p)
    \/ \E c \in Cons : ContainerComes(c) \/ ContainerGoes(c)

\* "Run again to confirm": people scan again, scans are not abandoned for
\* ever, and the index is not busy for ever.
Spec ==
    /\ Init /\ [][Next]_vars
    /\ \A s \in Scanners :
           /\ WF_vars(ScanStep(s))
           /\ SF_vars(RecordsScan(s)) /\ SF_vars(RecordsProjects(s))
           /\ SF_vars(Recalls(s)) /\ SF_vars(Judges(s))
-----------------------------------------------------------------------------
\* The shape of the index and of a scan (Index, Catalog, ScanReport).
TypeOK ==
    /\ fs \in [Paths -> Conditions]
    /\ cons \in SUBSET Cons
    /\ absent \in [Paths -> Counts \union {NoRow}]
    /\ newest \in [Vols -> Cons \union {Nobody}]
    /\ stage \in [Scanners -> {"idle", "listed", "recorded", "counted", "recalled"}]
    /\ catalog \in [Scanners -> [Projects -> Paths \union {NoPath, Nobody}]]
    /\ seen \in [Scanners -> SUBSET Cons]
    /\ absences \in [Scanners -> [Paths -> Counts \union {NoRow}]]
    /\ owners \in [Scanners -> [Vols -> Cons \union {Nobody}]]
    /\ orphans \in [Vols -> SUBSET Paths]
    /\ missed \in [Paths -> Counts]
    /\ told \in SUBSET Cons

\* "One observation is never enough": a directory a volume is an orphan for
\* was looked for and not found by at least MinAbsentScans scans, whatever
\* was removed or recorded by whom in between.
OneMissIsNeverEnough ==
    \A v \in Vols : \A p \in orphans[v] : missed[p] >= MinAbsentScans

\* A memory is Weak, and Weak never justifies a deletion: without a label a
\* volume is an orphan only while a container of its namesake project is seen.
MemoryNeverLicenses ==
    [][\A s \in Scanners : \A v \in Vols :
           Judges(s) /\ LabelOf[v] = NoProject /\ DirectOf[v] = NoPath /\ orphans'[v] # {}
               => \E c \in seen[s] : ProjectOf[c] = PrefixOf[v]]_vars

\* A volume is an orphan for the absence of a directory that was told of it:
\* by its own labels, by a container of its project or by one that mounted it,
\* however long ago, whichever volume's memory the project was located by and
\* whatever was recorded, overwritten or not recorded since (scan/mod.rs:677).
OwnProject(v) == IF LabelOf[v] # NoProject THEN LabelOf[v] ELSE PrefixOf[v]

AbsenceIsOfItsOwn ==
    \A v \in Vols : \A p \in orphans[v] :
        \/ p = DirectOf[v]
        \/ \E c \in told :
               PathOf[c] = p /\ (ProjectOf[c] = OwnProject(v) \/ v \in MountsOf[c])

\* As long as a container still says where the project was, scanning again
\* does confirm that it is gone, and the verdict stays ("Run again to confirm").
AbsenceIsConfirmed ==
    \A v \in {w \in Vols : LabelOf[w] # NoProject /\ DirectOf[w] = NoPath} :
    \A p \in {PathOf[c] : c \in {d \in Cons : ProjectOf[d] = LabelOf[v]}} \ {NoPath} :
        LET Namesakes == {c \in cons : ProjectOf[c] = LabelOf[v]}
            Witnessed == /\ fs[p] = "absent"
                         /\ \E c \in Namesakes : PathOf[c] = p
                         /\ \A c \in Namesakes : PathOf[c] \in {p, NoPath}
        IN  <>[]Witnessed => <>[](p \in orphans[v])

\* "A guess may raise a question but may never justify a deletion."
GuessNeverLicenses ==
    \A v \in Vols : LabelOf[v] = NoProject /\ DirectOf[v] = NoPath => orphans[v] = {}
=============================================================================
