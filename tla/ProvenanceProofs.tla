-------------------------- MODULE ProvenanceProofs --------------------------
(***************************************************************************)
(* What a scan's verdicts rest on, proved for any number of scanners,      *)
(* containers, volumes and projects, and whatever disappears, returns or   *)
(* is recorded by another process between any two steps of a scan.         *)
(***************************************************************************)
EXTENDS Provenance, TLAPS

LEMMA CappedCount ==
    ASSUME NEW n \in Nat
    PROVE  /\ Capped(n) \in Counts
           /\ Capped(n) <= n
           /\ n >= MinAbsentScans => Capped(n) = MinAbsentScans
  BY ProvenanceAssumption DEF Capped, Counts

\* The history of misses counts no less than the index can.
LEMMA CappedIsMonotone ==
    ASSUME NEW m \in Nat, NEW n \in Nat, m <= n
    PROVE  Capped(m) <= Capped(n)
  BY ProvenanceAssumption DEF Capped

LEMMA NextCountIsCount ==
    ASSUME TypeOK, NEW p \in Paths
    PROVE  NextCount(absent[p], p) \in Counts
  BY CappedCount, ProvenanceAssumption DEF TypeOK, NextCount, Counts

-----------------------------------------------------------------------------
(* The types.                                                              *)

LEMMA TypeInit == Init => TypeOK
  BY ProvenanceAssumption DEF Init, TypeOK, Counts, Conditions

LEMMA TypeStep == TypeOK /\ [Next]_vars => TypeOK'
  <1> SUFFICES ASSUME TypeOK, [Next]_vars PROVE TypeOK'
    OBVIOUS
  <1> USE DEF world, index, scan, history
  <1>1. ASSUME NEW s \in Scanners, Lists(s) PROVE TypeOK'
    BY <1>1 DEF Lists, TypeOK
  <1>2. ASSUME NEW s \in Scanners, RecordsScan(s) PROVE TypeOK'
    BY <1>2 DEF RecordsScan, TypeOK
  <1>3. ASSUME NEW s \in Scanners, RecordsProjects(s) PROVE TypeOK'
    <2>1. absent' \in [Paths -> Counts \union {NoRow}]
      BY <1>3, NextCountIsCount DEF RecordsProjects, TypeOK
    <2>2. ASSUME NEW p \in Paths
          PROVE  Capped(missed[p] + 1) \in Counts
      BY CappedCount DEF TypeOK, Counts
    <2>3. missed' \in [Paths -> Counts]
      BY <1>3, <2>2, ProvenanceAssumption DEF RecordsProjects, TypeOK, Counts
    <2> QED
      BY <1>3, <2>1, <2>3 DEF RecordsProjects, TypeOK
  <1>4. ASSUME NEW s \in Scanners, RecordingFails(s) PROVE TypeOK'
    BY <1>4 DEF RecordingFails, TypeOK
  <1>5. ASSUME NEW s \in Scanners, Recalls(s) PROVE TypeOK'
    BY <1>5 DEF Recalls, TypeOK
  <1>6. ASSUME NEW s \in Scanners, Judges(s) PROVE TypeOK'
    <2>1. ASSUME NEW v \in Vols PROVE OrphanPaths(s, v) \in SUBSET Paths
      BY DEF OrphanPaths
    <2> QED
      BY <1>6, <2>1 DEF Judges, TypeOK
  <1>7. ASSUME NEW s \in Scanners, Abandons(s) PROVE TypeOK'
    BY <1>7 DEF Abandons, TypeOK
  <1>8. ASSUME NEW p \in Paths, DirectoryChanges(p) PROVE TypeOK'
    BY <1>8 DEF DirectoryChanges, TypeOK, Conditions
  <1>9. ASSUME NEW c \in Cons, ContainerComes(c) \/ ContainerGoes(c) PROVE TypeOK'
    BY <1>9 DEF ContainerComes, ContainerGoes, TypeOK
  <1>10. CASE UNCHANGED vars
    BY <1>10 DEF vars, TypeOK
  <1> QED
    BY <1>1, <1>2, <1>3, <1>4, <1>5, <1>6, <1>7, <1>8, <1>9, <1>10 DEF Next, ScanStep

\* The index, the scans in progress and the report keep their shape
\* (Index, Catalog, ScanReport).
THEOREM TypeCorrect == Spec => []TypeOK
  BY TypeInit, TypeStep, PTL DEF Spec

-----------------------------------------------------------------------------
(* Misses.                                                                 *)

\* A count, in the index or in a scanner's hands, is never more than the
\* misses there were: a sighting resets the index, nothing resets history.
CountsInv ==
    \A p \in Paths :
        /\ absent[p] # NoRow => absent[p] <= missed[p]
        /\ \A s \in Scanners : absences[s][p] # NoRow => absences[s][p] <= missed[p]

MissInv == CountsInv /\ OneMissIsNeverEnough

LEMMA MissInit == Init => MissInv
  BY DEF Init, MissInv, CountsInv, OneMissIsNeverEnough

\* No step takes a miss back.
LEMMA MissesGrow ==
    ASSUME TypeOK, [Next]_vars, NEW p \in Paths
    PROVE  missed'[p] >= missed[p]
  <1> USE DEF world, index, scan, history
  <1>0. missed[p] \in Nat /\ missed[p] <= MinAbsentScans /\ MinAbsentScans \in Nat
    BY ProvenanceAssumption DEF TypeOK, Counts
  <1>1. ASSUME NEW s \in Scanners, RecordsProjects(s) PROVE missed'[p] >= missed[p]
    <2>1. Capped(missed[p] + 1) >= missed[p]
      BY <1>0 DEF Capped
    <2> QED
      BY <1>0, <1>1, <2>1 DEF RecordsProjects
  <1>2. ASSUME UNCHANGED missed PROVE missed'[p] >= missed[p]
    BY <1>0, <1>2
  <1> QED
    BY <1>1, <1>2
       DEF Next, ScanStep, vars, Lists, RecordsScan, RecordingFails, Recalls, Judges,
           Abandons, DirectoryChanges, ContainerComes, ContainerGoes

\* A verdict rests on a count that was read, which is at least the threshold.
LEMMA VerdictsAreCounted ==
    ASSUME NEW s \in Scanners, NEW v \in Vols, NEW p \in OrphanPaths(s, v)
    PROVE  p \in Paths /\ absences[s][p] # NoRow /\ absences[s][p] >= MinAbsentScans
  BY ProvenanceAssumption DEF OrphanPaths, Scans

LEMMA MissStep == TypeOK /\ MissInv /\ [Next]_vars => MissInv'
  <1> SUFFICES ASSUME TypeOK, MissInv, [Next]_vars PROVE MissInv'
    OBVIOUS
  <1> USE DEF world, index, scan, history
  <1> TypeOK'
    BY TypeStep
  <1>1. ASSUME NEW p \in Paths
        PROVE  /\ missed[p] \in Nat /\ missed'[p] \in Nat /\ missed'[p] >= missed[p]
               /\ absent[p] # NoRow => absent[p] \in Nat
               /\ \A s \in Scanners : absences[s][p] # NoRow => absences[s][p] \in Nat
               /\ MinAbsentScans \in Nat
    BY MissesGrow, ProvenanceAssumption DEF TypeOK, Counts
  \* What is copied or forgotten stays below a history that only grows.
  <1>2. ASSUME UNCHANGED absent PROVE \A p \in Paths : absent'[p] # NoRow => absent'[p] <= missed'[p]
    BY <1>1, <1>2 DEF MissInv, CountsInv
  <1>3. ASSUME UNCHANGED absences
        PROVE  \A p \in Paths : \A s \in Scanners :
                   absences'[s][p] # NoRow => absences'[s][p] <= missed'[p]
    BY <1>1, <1>3 DEF MissInv, CountsInv
  <1>4. ASSUME UNCHANGED orphans PROVE OneMissIsNeverEnough'
    <2>1. \A v \in Vols : orphans[v] \subseteq Paths
      BY DEF TypeOK
    <2> QED
      BY <1>1, <1>4, <2>1 DEF MissInv, OneMissIsNeverEnough
  <1>5. ASSUME NEW s \in Scanners, RecordsProjects(s) PROVE MissInv'
    <2>1. ASSUME NEW p \in Paths, absent'[p] # NoRow PROVE absent'[p] <= missed'[p]
      <3>1. CASE p \notin Observed(s)
        BY <1>1, <1>5, <2>1, <3>1 DEF RecordsProjects, MissInv, CountsInv
      <3>2. CASE p \in Observed(s) /\ fs[p] = "present"
        BY <1>1, <1>5, <3>2 DEF RecordsProjects, NextCount
      <3>3. CASE p \in Observed(s) /\ fs[p] # "present"
        <4> DEFINE n == IF absent[p] = NoRow THEN 0 ELSE absent[p]
        <4>1. n + 1 \in Nat /\ missed[p] + 1 \in Nat /\ n + 1 <= missed[p] + 1
          BY <1>1 DEF MissInv, CountsInv
        <4>2. absent'[p] = Capped(n + 1) /\ missed'[p] = Capped(missed[p] + 1)
          BY <1>5, <3>3 DEF RecordsProjects, NextCount
        <4> QED
          BY <4>1, <4>2, CappedIsMonotone
      <3> QED
        BY <3>1, <3>2, <3>3
    <2> QED
      BY <1>3, <1>4, <1>5, <2>1 DEF RecordsProjects, MissInv, CountsInv
  <1>6. ASSUME NEW s \in Scanners, Recalls(s) PROVE MissInv'
    <2>1. ASSUME NEW p \in Paths, NEW t \in Scanners, absences'[t][p] # NoRow
          PROVE  absences'[t][p] <= missed'[p]
      <3>1. CASE t = s
        BY <1>1, <1>6, <2>1, <3>1 DEF Recalls, TypeOK, MissInv, CountsInv
      <3>2. CASE t # s
        BY <1>1, <1>6, <2>1, <3>2 DEF Recalls, TypeOK, MissInv, CountsInv
      <3> QED
        BY <3>1, <3>2
    <2> QED
      BY <1>2, <1>4, <1>6, <2>1 DEF Recalls, MissInv, CountsInv
  <1>7. ASSUME NEW s \in Scanners, Judges(s) \/ Abandons(s)
        PROVE  CountsInv'
    <2>1. ASSUME NEW p \in Paths, NEW t \in Scanners, absences'[t][p] # NoRow
          PROVE  absences'[t][p] = absences[t][p]
      <3>1. absences' = [absences EXCEPT ![s] = [q \in Paths |-> NoRow]]
        BY <1>7 DEF Judges, Abandons
      <3>2. t # s
        BY <2>1, <3>1 DEF TypeOK
      <3> QED
        BY <3>1, <3>2 DEF TypeOK
    <2>2. UNCHANGED <<absent, missed>>
      BY <1>7 DEF Judges, Abandons
    <2> QED
      BY <2>1, <2>2 DEF MissInv, CountsInv
  <1>8. ASSUME NEW s \in Scanners, Judges(s) PROVE OneMissIsNeverEnough'
    <2> SUFFICES ASSUME NEW v \in Vols, NEW p \in orphans'[v]
                 PROVE  missed'[p] >= MinAbsentScans
      BY DEF OneMissIsNeverEnough
    <2>1. p \in OrphanPaths(s, v) /\ UNCHANGED missed
      BY <1>8 DEF Judges
    <2>2. p \in Paths /\ absences[s][p] # NoRow /\ absences[s][p] >= MinAbsentScans
      BY <2>1, VerdictsAreCounted
    <2>3. absences[s][p] <= missed[p]
      BY <2>2 DEF MissInv, CountsInv
    <2> QED
      BY <1>1, <2>1, <2>2, <2>3
  <1>9. ASSUME NEW s \in Scanners, Abandons(s) PROVE MissInv'
    BY <1>4, <1>7, <1>9 DEF Abandons, MissInv
  <1>10. ASSUME UNCHANGED <<absent, absences, orphans>> PROVE MissInv'
    BY <1>2, <1>3, <1>4, <1>10 DEF MissInv, CountsInv
  <1> QED
    BY <1>5, <1>6, <1>7, <1>8, <1>9, <1>10
       DEF Next, ScanStep, vars, MissInv, Lists, RecordsScan, RecordingFails,
           DirectoryChanges, ContainerComes, ContainerGoes

\* "One observation is never enough" (is_orphan_candidate): whoever scans,
\* whatever fails to be recorded and however often the directory comes and
\* goes, a verdict names only directories MinAbsentScans scans did not find.
THEOREM MissesAreConfirmed == Spec => []OneMissIsNeverEnough
  <1>1. MissInv => OneMissIsNeverEnough
    BY DEF MissInv
  <1> QED
    BY MissInit, MissStep, TypeCorrect, <1>1, PTL DEF Spec

-----------------------------------------------------------------------------
(* Claims.                                                                 *)

\* Every project a scanner has in its catalog has a container it listed.
CatalogInv ==
    \A s \in Scanners : \A j \in Projects :
        catalog[s][j] # Nobody => \E c \in seen[s] : ProjectOf[c] = j

LEMMA CatalogStep == TypeOK /\ CatalogInv /\ [Next]_vars => CatalogInv'
  <1> SUFFICES ASSUME TypeOK, CatalogInv, [Next]_vars,
                      NEW t \in Scanners, NEW j \in Projects, catalog'[t][j] # Nobody
               PROVE  \E c \in seen'[t] : ProjectOf[c] = j
    BY DEF CatalogInv
  <1> USE DEF world, index, scan, history
  <1>1. ASSUME NEW s \in Scanners, Lists(s) PROVE \E c \in seen'[t] : ProjectOf[c] = j
    <2>1. CASE s = t
      <3>1. catalog'[t][j] \in Harvests(j) /\ seen'[t] = cons
        BY <1>1, <2>1 DEF Lists, TypeOK
      <3> QED
        BY <3>1 DEF Harvests
    <2>2. CASE s # t
      BY <1>1, <2>2 DEF Lists, TypeOK, CatalogInv
    <2> QED
      BY <2>1, <2>2
  <1>2. ASSUME NEW s \in Scanners, Judges(s) \/ Abandons(s)
        PROVE  \E c \in seen'[t] : ProjectOf[c] = j
    <2>1. s # t
      BY <1>2 DEF Judges, Abandons, TypeOK
    <2> QED
      BY <1>2, <2>1 DEF Judges, Abandons, TypeOK, CatalogInv
  <1>3. ASSUME UNCHANGED <<catalog, seen>> PROVE \E c \in seen'[t] : ProjectOf[c] = j
    BY <1>3 DEF CatalogInv
  <1> QED
    BY <1>1, <1>2, <1>3
       DEF Next, ScanStep, vars, RecordsScan, RecordsProjects, RecordingFails, Recalls,
           DirectoryChanges, ContainerComes, ContainerGoes

\* What a volume without labels is an orphan for, a guess said.
LEMMA UnlabelledAreGuessed ==
    ASSUME NEW s \in Scanners, NEW v \in Vols,
           LabelOf[v] = NoProject, DirectOf[v] = NoPath, OrphanPaths(s, v) # {}
    PROVE  PrefixOf[v] # NoProject /\ catalog[s][PrefixOf[v]] # Nobody
  <1>1. PICK p \in Paths : [confidence |-> "strong", path |-> p] \in ClaimsFor(s, v)
    BY DEF OrphanPaths
  <1>2. DirectClaims(v) = {} /\ LabelClaims(s, v) = {}
    BY DEF DirectClaims, LabelClaims
  <1>3. [confidence |-> "strong", path |-> p] \notin MemoryClaims(s, v)
    BY DEF MemoryClaims
  <1>4. GuessClaims(s, v) # {}
    BY <1>1, <1>2, <1>3 DEF ClaimsFor
  <1> QED
    BY <1>4 DEF GuessClaims

\* A memory never licenses a deletion: whatever other scanners wrote to the
\* index, a volume with no labels is an orphan only of a project of which
\* this scan saw a container (owners_from_index is Weak).
THEOREM MemoriesLicenseNothing == Spec => MemoryNeverLicenses
  <1>1. Init => CatalogInv
    BY DEF Init, CatalogInv
  <1>2. TypeOK /\ CatalogInv /\ [Next]_vars
            => [\A s \in Scanners : \A v \in Vols :
                    Judges(s) /\ LabelOf[v] = NoProject /\ DirectOf[v] = NoPath
                        /\ orphans'[v] # {}
                    => \E c \in seen[s] : ProjectOf[c] = PrefixOf[v]]_vars
    <2> SUFFICES ASSUME TypeOK, CatalogInv, NEW s \in Scanners, NEW v \in Vols,
                        Judges(s), LabelOf[v] = NoProject, DirectOf[v] = NoPath,
                        orphans'[v] # {}
                 PROVE  \E c \in seen[s] : ProjectOf[c] = PrefixOf[v]
      OBVIOUS
    <2>1. OrphanPaths(s, v) # {}
      BY DEF Judges
    <2>2. PrefixOf[v] \in Projects /\ catalog[s][PrefixOf[v]] # Nobody
      BY <2>1, UnlabelledAreGuessed, ProvenanceAssumption
    <2> QED
      BY <2>2 DEF CatalogInv
  <1> QED
    BY <1>1, <1>2, CatalogStep, TypeCorrect, PTL DEF Spec, MemoryNeverLicenses

-----------------------------------------------------------------------------
(* Where a verdict's directory comes from.                                 *)

\* What is held of containers, in the index or by a scan, was listed once,
\* and what is remembered of a volume is of one that mounted it.
ToldInv ==
    /\ \A v \in Vols : newest[v] # Nobody => newest[v] \in told /\ v \in MountsOf[newest[v]]
    /\ \A s \in Scanners :
           /\ seen[s] \subseteq told
           /\ \A v \in Vols : owners[s][v] # Nobody =>
                  owners[s][v] \in told /\ v \in MountsOf[owners[s][v]]
           /\ \A j \in Projects : catalog[s][j] \in Paths =>
                  \E c \in told : ProjectOf[c] = j /\ PathOf[c] = catalog[s][j]

LEMMA ToldInit == Init => ToldInv /\ AbsenceIsOfItsOwn
  <1> SUFFICES ASSUME Init PROVE ToldInv /\ AbsenceIsOfItsOwn
    OBVIOUS
  <1>1. \A s \in Scanners : \A j \in Projects : catalog[s][j] = Nobody
    BY DEF Init
  <1>2. \A s \in Scanners : \A v \in Vols : owners[s][v] = Nobody /\ newest[v] = Nobody
    BY DEF Init
  <1>3. ASSUME NEW s \in Scanners, NEW j \in Projects PROVE catalog[s][j] \notin Paths
    BY <1>1, ProvenanceAssumption
  <1> QED
    BY <1>2, <1>3 DEF Init, ToldInv, AbsenceIsOfItsOwn

\* A path recalled for a project was told by a container of it, or by the one
\* the volume itself is remembered with.
LEMMA RecalledIsTold ==
    ASSUME TypeOK, ToldInv, NEW s \in Scanners, NEW j \in Projects, NEW v \in Vols,
           RecalledPath(s, j, v) # NoPath
    PROVE  \E c \in told : /\ PathOf[c] = RecalledPath(s, j, v)
                           /\ ProjectOf[c] = j \/ v \in MountsOf[c]
  <1> DEFINE Says(w) == /\ owners[s][w] # Nobody
                        /\ ProjectOf[owners[s][w]] = j
                        /\ PathOf[owners[s][w]] # NoPath
             first == {i \in 1..Len(VolOrder) :
                           /\ Says(VolOrder[i])
                           /\ \A k \in 1..(i - 1) : ~Says(VolOrder[k])}
             at == CHOOSE i \in first : TRUE
  <1>1. CASE first # {}
    <2>1. at \in first
      BY <1>1
    <2>2. VolOrder[at] \in Vols /\ Says(VolOrder[at])
      BY <2>1 DEF Vols
    <2>3. RecalledPath(s, j, v) = PathOf[owners[s][VolOrder[at]]]
      BY <1>1 DEF RecalledPath
    <2>4. owners[s][VolOrder[at]] \in told
      BY <2>2 DEF ToldInv
    <2> QED
      BY <2>2, <2>3, <2>4
  <1>2. CASE first = {}
    <2>1. owners[s][v] # Nobody /\ RecalledPath(s, j, v) = PathOf[owners[s][v]]
      BY <1>2 DEF RecalledPath
    <2> QED
      BY <2>1 DEF ToldInv
  <1> QED
    BY <1>1, <1>2

LEMMA VerdictsAreTold ==
    ASSUME TypeOK, ToldInv, NEW s \in Scanners, NEW v \in Vols, NEW p \in OrphanPaths(s, v)
    PROVE  \/ p = DirectOf[v]
           \/ \E c \in told : /\ PathOf[c] = p
                              /\ ProjectOf[c] = OwnProject(v) \/ v \in MountsOf[c]
  <1> DEFINE claim == [confidence |-> "strong", path |-> p]
  <1>1. p \in Paths /\ claim \in ClaimsFor(s, v) /\ p # NoPath
    BY ProvenanceAssumption DEF OrphanPaths
  <1>2. claim \notin MemoryClaims(s, v)
    BY DEF MemoryClaims
  \* What a claim on project j says of a place.
  <1>3. ASSUME NEW j \in Projects, NEW of,
               of.path = RootOf(s, j), claim = Located(s, j, v, of)
        PROVE  \E c \in told : PathOf[c] = p /\ (ProjectOf[c] = j \/ v \in MountsOf[c])
    <2>1. CASE of.path # NoPath \/ RecalledPath(s, j, v) = NoPath
      <3>1. RootOf(s, j) = p
        BY <1>3, <2>1 DEF Located
      <3>2. catalog[s][j] \in Paths /\ catalog[s][j] = p
        BY <1>1, <3>1 DEF RootOf
      <3> QED
        BY <3>2 DEF ToldInv
    <2>2. CASE ~(of.path # NoPath \/ RecalledPath(s, j, v) = NoPath)
      <3>1. RecalledPath(s, j, v) = p /\ RecalledPath(s, j, v) # NoPath
        BY <1>3, <2>2 DEF Located
      <3> QED
        BY <3>1, RecalledIsTold
    <2> QED
      BY <2>1, <2>2
  <1>4. CASE claim \in DirectClaims(v)
    BY <1>4 DEF DirectClaims
  <1>5. CASE claim \in LabelClaims(s, v)
    <2>1. LabelOf[v] # NoProject /\ LabelOf[v] \in Projects
      BY <1>5, ProvenanceAssumption DEF LabelClaims
    <2> DEFINE of == [confidence |-> IF RootOf(s, LabelOf[v]) = NoPath THEN "weak"
                                     ELSE "strong",
                      path |-> RootOf(s, LabelOf[v])]
    <2>2. claim = Located(s, LabelOf[v], v, of) /\ of.path = RootOf(s, LabelOf[v])
      BY <1>5 DEF LabelClaims
    <2>3. \E c \in told : PathOf[c] = p /\ (ProjectOf[c] = LabelOf[v] \/ v \in MountsOf[c])
      BY <1>3, <2>1, <2>2
    <2> QED
      BY <2>1, <2>3 DEF OwnProject
  <1>6. CASE claim \in GuessClaims(s, v) /\ LabelClaims(s, v) = {}
    <2>1. LabelOf[v] = NoProject
      BY <1>6 DEF LabelClaims
    <2>2. PrefixOf[v] # NoProject /\ PrefixOf[v] \in Projects
      BY <1>6, ProvenanceAssumption DEF GuessClaims
    <2> DEFINE of == [confidence |-> "guess", path |-> RootOf(s, PrefixOf[v])]
    <2>3. claim = Located(s, PrefixOf[v], v, of) /\ of.path = RootOf(s, PrefixOf[v])
      BY <1>6 DEF GuessClaims
    <2>4. \E c \in told : PathOf[c] = p /\ (ProjectOf[c] = PrefixOf[v] \/ v \in MountsOf[c])
      BY <1>3, <2>2, <2>3
    <2> QED
      BY <2>1, <2>4 DEF OwnProject
  <1> QED
    BY <1>1, <1>2, <1>4, <1>5, <1>6 DEF ClaimsFor

LEMMA ToldStep ==
    TypeOK /\ ToldInv /\ AbsenceIsOfItsOwn /\ [Next]_vars => ToldInv' /\ AbsenceIsOfItsOwn'
  <1> SUFFICES ASSUME TypeOK, ToldInv, AbsenceIsOfItsOwn, [Next]_vars
               PROVE  ToldInv' /\ AbsenceIsOfItsOwn'
    OBVIOUS
  <1> USE DEF world, index, scan, history
  <1>1. ASSUME NEW s \in Scanners, Lists(s) PROVE ToldInv' /\ AbsenceIsOfItsOwn'
    <2>1. told' = told \union cons /\ UNCHANGED <<newest, owners, orphans>>
      BY <1>1 DEF Lists
    <2>2. ASSUME NEW t \in Scanners PROVE seen'[t] \subseteq told'
      BY <1>1, <2>1 DEF Lists, TypeOK, ToldInv
    <2>3. ASSUME NEW t \in Scanners, NEW j \in Projects, catalog'[t][j] \in Paths
          PROVE  \E c \in told' : ProjectOf[c] = j /\ PathOf[c] = catalog'[t][j]
      <3>1. CASE t = s
        <4>1. catalog'[s][j] \in Harvests(j)
          BY <1>1 DEF Lists, TypeOK
        <4>2. NoPath \notin Paths /\ catalog'[s][j] \in Paths
          BY <2>3, <3>1, ProvenanceAssumption
        <4>3. CASE catalog'[s][j] \in {PathOf[c] : c \in {d \in cons : ProjectOf[d] = j}}
          BY <2>1, <3>1, <4>3
        <4>4. CASE {d \in cons : ProjectOf[d] = j} = {} /\ catalog'[s][j] = Nobody
          BY <2>3, <3>1, <4>4, ProvenanceAssumption
        <4> QED
          BY <4>1, <4>2, <4>3, <4>4 DEF Harvests
      <3>2. CASE t # s
        <4>1. catalog'[t][j] = catalog[t][j]
          BY <1>1, <3>2 DEF Lists, TypeOK
        <4> QED
          BY <2>1, <2>3, <4>1 DEF ToldInv
      <3> QED
        BY <3>1, <3>2
    <2>4. ToldInv'
      BY <2>1, <2>2, <2>3 DEF ToldInv
    <2> QED
      BY <2>1, <2>4 DEF AbsenceIsOfItsOwn
  <1>2. ASSUME NEW s \in Scanners, RecordsScan(s) PROVE ToldInv' /\ AbsenceIsOfItsOwn'
    <2>1. UNCHANGED <<told, seen, owners, catalog, orphans>>
      BY <1>2 DEF RecordsScan
    <2>2. ASSUME NEW v \in Vols, newest'[v] # Nobody
          PROVE  newest'[v] \in told /\ v \in MountsOf[newest'[v]]
      <3> DEFINE holders == {c \in seen[s] : v \in MountsOf[c]}
      <3>1. IF holders = {} THEN newest'[v] = newest[v] ELSE newest'[v] \in holders
        BY <1>2 DEF RecordsScan
      <3> QED
        BY <2>2, <3>1 DEF ToldInv
    <2> QED
      BY <2>1, <2>2 DEF ToldInv, AbsenceIsOfItsOwn
  <1>3. ASSUME NEW s \in Scanners, Recalls(s) PROVE ToldInv' /\ AbsenceIsOfItsOwn'
    <2>1. UNCHANGED <<told, seen, newest, catalog, orphans>>
      BY <1>3 DEF Recalls
    <2>2. ASSUME NEW t \in Scanners, NEW v \in Vols, owners'[t][v] # Nobody
          PROVE  owners'[t][v] \in told /\ v \in MountsOf[owners'[t][v]]
      <3>1. owners'[t][v] \in {owners[t][v], newest[v]}
        BY <1>3 DEF Recalls, TypeOK
      <3> QED
        BY <2>2, <3>1 DEF ToldInv
    <2> QED
      BY <2>1, <2>2 DEF ToldInv, AbsenceIsOfItsOwn
  \* A scan forgets what it had in hand.
  <1>4. ASSUME NEW s \in Scanners, Judges(s) \/ Abandons(s) PROVE ToldInv'
    <2>1. UNCHANGED <<told, newest>>
      BY <1>4 DEF Judges, Abandons
    <2>2. ASSUME NEW t \in Scanners
          PROVE  /\ seen'[t] \subseteq seen[t]
                 /\ \A v \in Vols : owners'[t][v] \in {owners[t][v], Nobody}
                 /\ \A j \in Projects : catalog'[t][j] \in {catalog[t][j], Nobody}
      <3>1. /\ seen' = [seen EXCEPT ![s] = {}]
            /\ owners' = [owners EXCEPT ![s] = [v \in Vols |-> Nobody]]
            /\ catalog' = [catalog EXCEPT ![s] = [j \in Projects |-> Nobody]]
        BY <1>4 DEF Judges, Abandons
      <3>2. CASE t = s
        <4>1. /\ seen'[t] = {} /\ owners'[t] = [v \in Vols |-> Nobody]
              /\ catalog'[t] = [j \in Projects |-> Nobody]
          BY <3>1, <3>2 DEF TypeOK
        <4> QED
          BY <4>1
      <3>3. CASE t # s
        <4>1. seen'[t] = seen[t] /\ owners'[t] = owners[t] /\ catalog'[t] = catalog[t]
          BY <3>1, <3>3 DEF TypeOK
        <4> QED
          BY <4>1
      <3> QED
        BY <3>2, <3>3
    <2>3. ASSUME NEW t \in Scanners, NEW j \in Projects, catalog'[t][j] \in Paths
          PROVE  \E c \in told : ProjectOf[c] = j /\ PathOf[c] = catalog'[t][j]
      <3>1. catalog'[t][j] = catalog[t][j]
        BY <2>2, <2>3, ProvenanceAssumption
      <3> QED
        BY <2>3, <3>1 DEF ToldInv
    <2>4. ASSUME NEW t \in Scanners, NEW v \in Vols, owners'[t][v] # Nobody
          PROVE  owners'[t][v] \in told /\ v \in MountsOf[owners'[t][v]]
      BY <2>2, <2>4 DEF ToldInv
    <2> QED
      BY <2>1, <2>2, <2>3, <2>4 DEF ToldInv
  <1>5. ASSUME NEW s \in Scanners, Judges(s) PROVE AbsenceIsOfItsOwn'
    <2> SUFFICES ASSUME NEW v \in Vols, NEW p \in orphans'[v]
                 PROVE  \/ p = DirectOf[v]
                        \/ \E c \in told' : /\ PathOf[c] = p
                                            /\ \/ ProjectOf[c] = OwnProject(v)
                                               \/ v \in MountsOf[c]
      BY DEF AbsenceIsOfItsOwn
    <2>1. p \in OrphanPaths(s, v) /\ told' = told
      BY <1>5 DEF Judges
    <2> QED
      BY <2>1, VerdictsAreTold
  <1>6. ASSUME NEW s \in Scanners, Abandons(s) PROVE AbsenceIsOfItsOwn'
    BY <1>6 DEF Abandons, AbsenceIsOfItsOwn
  <1>7. ASSUME UNCHANGED <<told, seen, owners, catalog, newest, orphans>>
        PROVE  ToldInv' /\ AbsenceIsOfItsOwn'
    BY <1>7 DEF ToldInv, AbsenceIsOfItsOwn
  <1>8. \/ \E s \in Scanners : \/ Lists(s) \/ RecordsScan(s) \/ Recalls(s)
                              \/ Judges(s) \/ Abandons(s)
        \/ UNCHANGED <<told, seen, owners, catalog, newest, orphans>>
    BY DEF Next, ScanStep, vars, RecordsProjects, RecordingFails, DirectoryChanges,
           ContainerComes, ContainerGoes
  <1> QED
    BY <1>1, <1>2, <1>3, <1>4, <1>5, <1>6, <1>7, <1>8

\* No volume is condemned for a directory that only another project's
\* containers, or another volume's, ever spoke of: for any number of scanners,
\* however the index was overwritten or not written since.
THEOREM AbsencesAreOfTheirOwn == Spec => []AbsenceIsOfItsOwn
  BY ToldInit, ToldStep, TypeCorrect, PTL DEF Spec
=============================================================================
