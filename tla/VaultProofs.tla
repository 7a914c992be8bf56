---------------------------- MODULE VaultProofs ----------------------------
(***************************************************************************)
(* What the vault promises, for any processes, volumes, seconds and        *)
(* contents.  Stores may overlap, under one id too: what is said of an     *)
(* entry that two stores were at together (crossed) holds of any state,    *)
(* and the rest needs the entry never to have been crossed.                *)
(*                                                                         *)
(* First the shape of the state, whoever is at work on an entry.  Then     *)
(* what is true of the entries of one store: that a listed archive is      *)
(* whole is not inductive, so the invariant says of each step of a store   *)
(* what is true of its temporary file, its archive and its manifest, and   *)
(* of a restore and a forget that no store is under way at their entry.    *)
(* What is done to a crossed entry does not reach the others.              *)
(***************************************************************************)
EXTENDS Vault, TLAPS

Stages == {"idle"} \union StoreStages \union RestoreStages \union ForgetStages

\* A temporary file does not decay.
Temporary == [holds : Archived, synced : BOOLEAN]

\* What a manifest may be of.
Recorded == Archived \ {Partial}

\* A volume keeps its content under a dump.
DumpsKeep == /\ data' \in [Vols -> Archived \union {None}]
             /\ \A v \in Vols : Dumped(v) => data'[v] # None

-----------------------------------------------------------------------------
(* The shape of the state, whether stores overlap or not.  That nothing    *)
(* rotten is ever restored into a volume, and no manifest is of a rotten   *)
(* archive, rests on where each process is and what its descriptor is on.  *)

Shape ==
    /\ data \in [Vols -> Archived \union {None}]
    /\ part \in [Ids -> Temporary \union {NoFile}]
    /\ final \in [Ids -> File \union {NoFile}]
    /\ manifest \in [Ids -> Recorded \union {None}]
    /\ settled \in SUBSET Ids
    /\ pc \in [Procs -> Stages]
    /\ id \in [Procs -> Ids \union {None}]
    /\ fd \in [Procs -> {"part", "final", "gone"}]
    /\ digest \in [Procs -> Archived \union {None}]
    /\ tar \in [Procs -> Archived \union {None}]
    /\ relied \in SUBSET Ids
    /\ forgotten \in SUBSET Ids
    /\ crossed \in SUBSET Ids
    /\ outage \in BOOLEAN

\* What a process has in hand, by the stage it is at.
InHand(p) ==
    /\ pc[p] = "idle" <=> id[p] = None
    /\ fd[p] # "gone" => pc[p] # "idle"
    /\ fd[p] = "part" => part[id[p]] # NoFile
    /\ fd[p] = "final" => final[id[p]] # NoFile
    /\ pc[p] = "dump" => data[Vol(p)] # None
    /\ pc[p] \in {"count", "rename", "verify", "manifest", "check", "read"} =>
           digest[p] \in Archived
    /\ pc[p] = "manifest" => digest[p] # Partial
    /\ pc[p] = "read" => final[id[p]] = NoFile \/ final[id[p]].holds \in Archived
    /\ pc[p] \in {"list", "volume", "upload"} => tar[p] \in Recorded

ShapeInv == Shape /\ \A p \in Procs : InHand(p)

LEMMA ShapeInit == Init => ShapeInv
  <1> SUFFICES ASSUME Init PROVE ShapeInv
    OBVIOUS
  <1>1. Shape
    BY DEF Init, Shape, Archived, Stages
  <1>2. \A p \in Procs : InHand(p)
    BY DEF Init, InHand
  <1> QED
    BY <1>1, <1>2 DEF ShapeInv

\* A process that does not move keeps what it has, as long as nothing is
\* taken from under its descriptor and nothing rots that it has checked.
LEMMA KeepsInHand ==
    ASSUME ShapeInv, NEW q \in Procs,
           pc'[q] = pc[q], id'[q] = id[q], digest'[q] = digest[q], tar'[q] = tar[q],
           pc[q] # "idle" =>
               /\ fd'[q] = "part" => part'[id[q]] # NoFile
               /\ fd'[q] = "final" => final'[id[q]] # NoFile
               /\ pc[q] = "read" =>
                      final'[id[q]] = NoFile \/ final'[id[q]].holds \in Archived,
           pc[q] = "idle" => fd'[q] = fd[q],
           pc[q] = "dump" => data'[Vol(q)] # None
    PROVE  InHand(q)'
  BY DEF ShapeInv, InHand, Vol

LEMMA DumpsStand ==
    ASSUME ShapeInv, NEW q \in Procs, pc[q] = "dump", DumpsKeep \/ UNCHANGED data
    PROVE  data'[Vol(q)] # None
  <1>1. Vol(q) \in Vols /\ Dumped(Vol(q))
    <2>1. id[q] \in Ids
      BY DEF ShapeInv, Shape, InHand
    <2> QED
      BY <2>1 DEF Dumped, Vol, VolOf, Ids
  <1>2. data[Vol(q)] # None
    BY DEF ShapeInv, InHand
  <1> QED
    BY <1>1, <1>2 DEF DumpsKeep

\* The step of a process that leaves the directory as it is.
LEMMA OwnStep ==
    ASSUME ShapeInv, NEW p \in Procs,
           NEW stage \in Stages, pc' = [pc EXCEPT ![p] = stage],
           NEW i \in Ids \union {None}, id' = [id EXCEPT ![p] = i],
           NEW f \in {"part", "final", "gone"}, fd' = [fd EXCEPT ![p] = f],
           NEW d \in Archived \union {None}, digest' = [digest EXCEPT ![p] = d],
           NEW t \in Archived \union {None}, tar' = [tar EXCEPT ![p] = t],
           DumpsKeep \/ UNCHANGED data,
           UNCHANGED <<directory, outage>>,
           relied' \in SUBSET Ids, forgotten' \in SUBSET Ids, crossed' \in SUBSET Ids,
           InHand(p)'
    PROVE  ShapeInv'
  <1>1. Shape'
    BY DEF ShapeInv, Shape, directory, DumpsKeep
  <1>2. ASSUME NEW q \in Procs \ {p} PROVE InHand(q)'
    <2>1. /\ pc'[q] = pc[q] /\ id'[q] = id[q] /\ fd'[q] = fd[q]
          /\ digest'[q] = digest[q] /\ tar'[q] = tar[q]
      BY DEF ShapeInv, Shape
    <2>2. pc[q] = "dump" => data'[Vol(q)] # None
      BY DumpsStand
    <2>3. InHand(q)
      BY DEF ShapeInv
    <2> QED
      BY <2>1, <2>2, <2>3, KeepsInHand DEF directory, InHand
  <1> QED
    BY <1>1, <1>2 DEF ShapeInv

\* A process ends.
LEMMA EndShape ==
    ASSUME ShapeInv, NEW p \in Procs, Done(p),
           DumpsKeep \/ UNCHANGED data,
           UNCHANGED <<directory, outage>>,
           relied' \in SUBSET Ids, forgotten' \in SUBSET Ids, crossed' \in SUBSET Ids
    PROVE  ShapeInv'
  <1>1. /\ pc' = [pc EXCEPT ![p] = "idle"] /\ id' = [id EXCEPT ![p] = None]
        /\ fd' = [fd EXCEPT ![p] = "gone"]
        /\ digest' = [digest EXCEPT ![p] = None] /\ tar' = [tar EXCEPT ![p] = None]
    BY DEF Done, Finished
  <1>2. InHand(p)'
    <2>1. pc'[p] = "idle" /\ id'[p] = None /\ fd'[p] = "gone"
      BY <1>1 DEF ShapeInv, Shape
    <2> QED
      BY <2>1 DEF InHand
  <1>3. "idle" \in Stages
    BY DEF Stages
  <1> QED
    BY <1>1, <1>2, <1>3, OwnStep

LEMMA Unmoved ==
    ASSUME ShapeInv, NEW p \in Procs
    PROVE  /\ id = [id EXCEPT ![p] = id[p]] /\ fd = [fd EXCEPT ![p] = fd[p]]
           /\ digest = [digest EXCEPT ![p] = digest[p]] /\ tar = [tar EXCEPT ![p] = tar[p]]
           /\ id[p] \in Ids \union {None} /\ fd[p] \in {"part", "final", "gone"}
           /\ digest[p] \in Archived \union {None} /\ tar[p] \in Archived \union {None}
           /\ relied \in SUBSET Ids /\ forgotten \in SUBSET Ids /\ crossed \in SUBSET Ids
           /\ InHand(p) /\ (pc[p] # "idle" => id[p] \in Ids)
  BY DEF ShapeInv, Shape, InHand

LEMMA BeginShape == ASSUME ShapeInv, NEW p \in Procs, Begins(p) PROVE ShapeInv'
  <1>1. PICK i \in Ids, stage \in {"create", "check", "unlink"}, d \in Archived \union {None} :
            /\ pc[p] = "idle" /\ pc' = [pc EXCEPT ![p] = stage]
            /\ id' = [id EXCEPT ![p] = i] /\ UNCHANGED <<fd, tar>>
            /\ digest' = [digest EXCEPT ![p] = d]
            /\ stage = "check" => d \in Archived
            /\ UNCHANGED <<data, directory, relied, outage>>
            /\ forgotten' \in SUBSET Ids /\ crossed' \in SUBSET Ids
    <2>1. CASE StoreBegins(p)
      BY <2>1, Unmoved DEF StoreBegins, Goto, At, history
    <2>2. CASE RestoreBegins(p)
      <3>1. \A i \in Ids : manifest[i] # None => manifest[i] \in Archived
        BY DEF ShapeInv, Shape, Recorded
      <3> QED
        BY <2>2, <3>1, Unmoved DEF RestoreBegins, Goto, At, history
    <2>3. CASE ForgetBegins(p)
      <3>1. \A i \in Ids : forgotten \union {i} \in SUBSET Ids
        BY Unmoved
      <3> QED
        BY <2>3, <3>1, Unmoved DEF ForgetBegins, Goto, At
    <2> QED
      BY <2>1, <2>2, <2>3 DEF Begins
  <1>2. stage \in Stages /\ i # None
    BY VaultAssumption DEF Stages, StoreStages, RestoreStages, ForgetStages
  <1>3. pc'[p] = stage /\ id'[p] = i /\ digest'[p] = d /\ fd'[p] = "gone"
    BY <1>1, Unmoved DEF ShapeInv, Shape, InHand
  <1>4. InHand(p)'
    BY <1>1, <1>2, <1>3 DEF InHand
  <1> QED
    BY <1>1, <1>2, <1>4, Unmoved, OwnStep

\* It looks at files, at the daemon, or at nothing.
LEMMA LookShape ==
    ASSUME ShapeInv, NEW p \in Procs,
           Digests(p) \/ Counts(p) \/ Verifies(p) \/ Checks(p) \/ Reads(p) \/ FindsNoVolume(p)
    PROVE  ShapeInv'
  <1>0. /\ part[id[p]] # NoFile /\ pc[p] # "idle" => part[id[p]].holds \in Archived
        /\ pc \in [Procs -> Stages]
    BY Unmoved DEF ShapeInv, Shape, Temporary
  <1>1. PICK stage \in {"count", "rename", "manifest", "read", "list", "volume"},
             d \in Archived \union {None}, t \in Archived \union {None} :
            /\ stage = "manifest" => d # Partial
            /\ pc[p] # "idle" /\ pc' = [pc EXCEPT ![p] = stage]
            /\ digest' = [digest EXCEPT ![p] = d] /\ tar' = [tar EXCEPT ![p] = t]
            /\ UNCHANGED <<data, directory, id, fd, history>>
            /\ stage \in {"count", "rename", "manifest", "read"} => d \in Archived
            /\ stage = "read" => final[id[p]] # NoFile /\ final[id[p]].holds = d
            /\ stage \in {"list", "volume"} => t \in Recorded
    <2>1. CASE Digests(p)
      BY <1>0, <2>1, Unmoved DEF Digests, Goto, process
    <2>2. CASE Counts(p) \/ Verifies(p)
      BY <2>2, Unmoved DEF Counts, Verifies, Intact, Goto, process, InHand
    <2>3. CASE Checks(p)
      BY <2>3, Unmoved DEF Checks, Intact, Goto, process, InHand
    <2>4. CASE Reads(p)
      BY <2>4, Unmoved DEF Reads, Goto, process, InHand, Recorded
    <2>5. CASE FindsNoVolume(p)
      BY <2>5, Unmoved DEF FindsNoVolume, Goto, process, InHand
    <2> QED
      BY <2>1, <2>2, <2>3, <2>4, <2>5
  <1>2. stage \in Stages
    BY DEF Stages, StoreStages, RestoreStages, ForgetStages
  <1>3. /\ pc'[p] = stage /\ id'[p] = id[p] /\ digest'[p] = d /\ tar'[p] = t /\ fd'[p] = fd[p]
        /\ final' = final /\ part' = part /\ relied' = relied /\ forgotten' = forgotten
        /\ crossed' = crossed /\ outage' = outage
    BY <1>0, <1>1, Unmoved DEF ShapeInv, Shape, directory, history
  <1>4. InHand(p)'
    BY <1>1, <1>3, Unmoved DEF InHand
  <1> QED
    BY <1>1, <1>2, <1>3, <1>4, Unmoved, OwnStep

LEMMA VolumeShape == ASSUME ShapeInv, NEW p \in Procs, CreatesVolume(p) PROVE ShapeInv'
  <1>1. /\ pc[p] = "volume" /\ pc' = [pc EXCEPT ![p] = "upload"] /\ "upload" \in Stages
        /\ UNCHANGED <<directory, id, fd, digest, tar, relied, forgotten, crossed, outage>>
    BY DEF CreatesVolume, Goto, Stages, RestoreStages, process, history
  <1>2. DumpsKeep
    BY DEF CreatesVolume, DumpsKeep, ShapeInv, Shape, Archived, Dumped, InHand
  <1>3. pc'[p] = "upload" /\ final' = final /\ part' = part
    BY <1>1 DEF ShapeInv, Shape, directory
  <1>4. InHand(p)'
    BY <1>1, <1>3, Unmoved DEF InHand
  <1> QED
    BY <1>1, <1>2, <1>4, Unmoved, OwnStep

\* It ends, well or badly.
LEMMA EndsShape ==
    ASSUME ShapeInv, NEW p \in Procs,
           \/ StoreFails(p) \/ RemovesVolume(p) \/ LeavesVolume(p)
           \/ Uploads(p) \/ RestoreFails(p) \/ Killed(p)
    PROVE  ShapeInv'
  <1>1. CASE StoreFails(p) \/ LeavesVolume(p) \/ RestoreFails(p) \/ Killed(p)
    BY <1>1, Unmoved, EndShape DEF StoreFails, LeavesVolume, RestoreFails, Killed, history
  <1>2. CASE RemovesVolume(p)
    <2>1. DumpsKeep
      BY <1>2, DumpsStand DEF RemovesVolume, DumpsKeep, ShapeInv, Shape, Dumped, InHand
    <2>2. id[p] \in Ids
      BY <1>2, Unmoved DEF RemovesVolume
    <2> QED
      BY <1>2, <2>1, <2>2, Unmoved, EndShape DEF RemovesVolume
  <1>3. CASE Uploads(p)
    <2>1. tar[p] \in Archived /\ Mixed \in Archived /\ None \notin Archived
      BY <1>3, Unmoved, VaultAssumption DEF Uploads, InHand, Archived, Recorded
    <2>2. DumpsKeep
      BY <1>3, <2>1 DEF Uploads, DumpsKeep, ShapeInv, Shape, Dumped, InHand
    <2> QED
      BY <1>3, <2>2, Unmoved, EndShape DEF Uploads, history
  <1> QED
    BY <1>1, <1>2, <1>3

\* The step of a process that writes to, names or removes the files of its
\* entry, under others that may be at it too.
LEMMA FileStep ==
    ASSUME ShapeInv, NEW p \in Procs, pc[p] # "idle",
           NEW stage \in Stages, pc' = [pc EXCEPT ![p] = stage],
           NEW i \in Ids \union {None}, id' = [id EXCEPT ![p] = i],
           NEW d \in Archived \union {None}, digest' = [digest EXCEPT ![p] = d],
           NEW t \in Archived \union {None}, tar' = [tar EXCEPT ![p] = t],
           fd' \in [Procs -> {"part", "final", "gone"}],
           part' \in [Ids -> Temporary \union {NoFile}],
           final' \in [Ids -> File \union {NoFile}],
           manifest' \in [Ids -> Recorded \union {None}],
           settled' \in SUBSET Ids,
           \A j \in Ids \ {id[p]} : part'[j] = part[j] /\ final'[j] = final[j],
           \A q \in Procs \ {p} : id[q] # id[p] => fd'[q] = fd[q],
           \A q \in Procs \ {p} : id[q] = id[p] =>
               /\ fd'[q] = "part" => part'[id[p]] # NoFile
               /\ fd'[q] = "final" => final'[id[p]] # NoFile,
           \/ final'[id[p]] = NoFile
           \/ final'[id[p]].holds \in Archived
           \/ final[id[p]] # NoFile /\ final'[id[p]].holds = final[id[p]].holds,
           DumpsKeep \/ UNCHANGED data,
           UNCHANGED history,
           InHand(p)'
    PROVE  ShapeInv'
  <1>1. Shape'
    BY DEF ShapeInv, Shape, DumpsKeep, history
  <1>2. ASSUME NEW q \in Procs \ {p} PROVE InHand(q)'
    <2>1. pc'[q] = pc[q] /\ id'[q] = id[q] /\ digest'[q] = digest[q] /\ tar'[q] = tar[q]
      BY DEF ShapeInv, Shape
    <2>2. pc[q] = "dump" => data'[Vol(q)] # None
      BY DumpsStand
    <2>3. InHand(q) /\ (pc[q] # "idle" => id[q] \in Ids) /\ id[p] \in Ids
      BY Unmoved
    <2>4. pc[q] = "idle" => fd'[q] = fd[q]
      BY <2>3, VaultAssumption DEF InHand
    <2>5. CASE id[q] = id[p]
      BY <2>1, <2>2, <2>3, <2>4, <2>5, KeepsInHand DEF InHand
    <2>6. CASE id[q] # id[p]
      <3>1. /\ fd'[q] = fd[q]
            /\ pc[q] # "idle" => part'[id[q]] = part[id[q]] /\ final'[id[q]] = final[id[q]]
        BY <2>3, <2>6
      <3> QED
        BY <2>1, <2>2, <2>3, <3>1, KeepsInHand DEF InHand
    <2> QED
      BY <2>5, <2>6
  <1> QED
    BY <1>1, <1>2 DEF ShapeInv

\* What follows a descriptor.
LEMMA MovedTypes ==
    ASSUME ShapeInv, NEW p \in Procs, NEW to,
           \A f \in {"part", "final", "gone"} : to[f] \in {"part", "final", "gone"}
    PROVE  /\ Moved(id[p], to) \in [Procs -> {"part", "final", "gone"}]
           /\ \A q \in Procs : Moved(id[p], to)[q] = IF id[q] = id[p] THEN to[fd[q]] ELSE fd[q]
  BY DEF ShapeInv, Shape, Moved

LEMMA CreatesShape == ASSUME ShapeInv, NEW p \in Procs, CreatesPart(p) PROVE ShapeInv'
  <1>1. /\ pc[p] = "create" /\ pc' = [pc EXCEPT ![p] = "dump"] /\ "dump" \in Stages
        /\ fd' = [fd EXCEPT ![p] = "part"]
        /\ part' = [part EXCEPT ![id[p]] = [holds |-> Partial, synced |-> FALSE]]
        /\ data' = [data EXCEPT ![Vol(p)] = IF @ = None THEN Empty ELSE @]
        /\ UNCHANGED <<final, manifest, settled, id, digest, tar, history>>
    BY DEF CreatesPart, Goto, Stages, StoreStages
  <1>2. /\ [holds |-> Partial, synced |-> FALSE] \in Temporary
        /\ [holds |-> Partial, synced |-> FALSE] # NoFile
    <2>1. [holds |-> Partial, synced |-> FALSE] \in Temporary
      BY DEF Temporary, Archived
    <2>2. [holds |-> Partial, synced |-> FALSE] \in File
      BY DEF File, Archived
    <2> QED
      BY <2>1, <2>2, VaultAssumption
  <1>3. id[p] \in Ids /\ Vol(p) \in Vols
    BY <1>1, Unmoved DEF Vol, VolOf, Ids
  <1>4. DumpsKeep /\ data'[Vol(p)] # None
    <2>1. Empty \in Archived /\ Empty # None
      BY VaultAssumption DEF Archived
    <2>2. data' \in [Vols -> Archived \union {None}] /\ data'[Vol(p)] # None
      BY <1>1, <1>3, <2>1 DEF ShapeInv, Shape
    <2>3. \A v \in Vols : data[v] # None => data'[v] # None
      BY <1>1, <1>3, <2>1 DEF ShapeInv, Shape
    <2>4. \A v \in Vols : Dumped(v) => data[v] # None
      BY DEF ShapeInv, Dumped, InHand
    <2> QED
      BY <2>2, <2>3, <2>4 DEF DumpsKeep
  <1>5. /\ pc'[p] = "dump" /\ id'[p] = id[p] /\ fd'[p] = "part" /\ part'[id[p]] # NoFile
        /\ \A q \in Procs \ {p} : fd'[q] = fd[q]
        /\ fd' \in [Procs -> {"part", "final", "gone"}]
        /\ part' \in [Ids -> Temporary \union {NoFile}]
        /\ \A j \in Ids \ {id[p]} : part'[j] = part[j]
    BY <1>1, <1>2, <1>3 DEF ShapeInv, Shape
  <1>6. InHand(p)'
    BY <1>1, <1>3, <1>4, <1>5, VaultAssumption DEF InHand, Vol
  <1>7. /\ final \in [Ids -> File \union {NoFile}] /\ settled \in SUBSET Ids
        /\ manifest \in [Ids -> Recorded \union {None}]
        /\ final[id[p]] = NoFile \/ final[id[p]] # NoFile
        /\ \A q \in Procs \ {p} : id[q] = id[p] /\ fd[q] = "final" => final[id[p]] # NoFile
    BY <1>3 DEF ShapeInv, Shape, InHand
  <1> QED
    BY <1>1, <1>3, <1>4, <1>5, <1>6, <1>7, Unmoved, FileStep

LEMMA WritesShape ==
    ASSUME ShapeInv, NEW p \in Procs, Dumps(p) \/ Syncs(p)
    PROVE  ShapeInv'
  <1>0. id[p] \in Ids /\ pc[p] # "idle" /\ Vol(p) \in Vols
    BY Unmoved DEF Dumps, Syncs, Vol, VolOf, Ids
  <1>1. PICK stage \in {"sync", "digest"}, holds \in Archived \union {Rotten},
             synced \in BOOLEAN :
            /\ pc' = [pc EXCEPT ![p] = stage]
            /\ Writes(p, holds, synced)
            /\ fd[p] = "part" => holds \in Archived
            /\ fd[p] = "final" => holds \in Archived \/ holds = final[id[p]].holds
            /\ UNCHANGED <<data, manifest, settled, process, history>>
    <2>1. CASE Dumps(p)
      <3>1. data[Vol(p)] \in Archived
        BY <1>0, <2>1 DEF Dumps, ShapeInv, Shape, InHand
      <3>2. /\ pc' = [pc EXCEPT ![p] = "sync"] /\ Writes(p, data[Vol(p)], FALSE)
            /\ UNCHANGED <<data, manifest, settled, process, history>>
        BY <2>1 DEF Dumps, Goto
      <3> QED
        BY <3>1, <3>2
    <2>2. CASE Syncs(p)
      <3>1. /\ Written(p) \in Archived \union {Rotten}
            /\ fd[p] = "part" => Written(p) \in Archived
            /\ fd[p] = "final" => Written(p) = final[id[p]].holds
        BY <1>0 DEF Written, ShapeInv, Shape, InHand, Temporary, File, Archived
      <3>2. /\ pc' = [pc EXCEPT ![p] = "digest"] /\ Writes(p, Written(p), TRUE)
            /\ UNCHANGED <<data, manifest, settled, process, history>>
        BY <2>2 DEF Syncs, Goto
      <3> QED
        BY <3>1, <3>2
    <2> QED
      BY <2>1, <2>2
  <1>2. id[p] \in Ids /\ stage \in Stages
    BY <1>0, <1>1 DEF Stages, StoreStages
  <1> DEFINE file == [holds |-> holds, synced |-> synced]
  <1>3. /\ fd[p] = "part" => file \in Temporary /\ file # NoFile
        /\ fd[p] = "final" => file \in File /\ file # NoFile
        /\ file.holds = holds
    BY <1>1, VaultAssumption DEF Temporary, File
  <1>4. /\ part' = IF fd[p] = "part" THEN [part EXCEPT ![id[p]] = file] ELSE part
        /\ final' = IF fd[p] = "final" THEN [final EXCEPT ![id[p]] = file] ELSE final
    BY <1>1 DEF Writes
  <1>5. /\ part' \in [Ids -> Temporary \union {NoFile}]
        /\ final' \in [Ids -> File \union {NoFile}]
        /\ \A j \in Ids \ {id[p]} : part'[j] = part[j] /\ final'[j] = final[j]
        /\ part[id[p]] # NoFile => part'[id[p]] # NoFile
        /\ final[id[p]] # NoFile => final'[id[p]] # NoFile
        /\ \/ final'[id[p]] = NoFile
           \/ final'[id[p]].holds \in Archived
           \/ final[id[p]] # NoFile /\ final'[id[p]].holds = final[id[p]].holds
    <2>1. fd[p] = "final" => final[id[p]] # NoFile
      BY Unmoved DEF InHand
    <2> HIDE DEF file
    <2> QED
      BY <1>1, <1>2, <1>3, <1>4, <2>1 DEF ShapeInv, Shape
  <1>6. /\ pc'[p] = stage /\ UNCHANGED <<id, fd, digest, tar, data>>
        /\ fd' \in [Procs -> {"part", "final", "gone"}]
        /\ manifest' \in [Ids -> Recorded \union {None}] /\ settled' \in SUBSET Ids
    BY <1>1 DEF ShapeInv, Shape, process
  <1>7. InHand(p)'
    <2>1. stage \in {"sync", "digest"}
      BY <1>1
    <2> QED
      BY <1>0, <1>5, <1>6, <2>1, Unmoved DEF InHand
  <1>8. \A q \in Procs \ {p} : id[q] = id[p] =>
            /\ fd'[q] = "part" => part'[id[p]] # NoFile
            /\ fd'[q] = "final" => final'[id[p]] # NoFile
    BY <1>5, <1>6 DEF ShapeInv, InHand
  <1>9. /\ id' = [id EXCEPT ![p] = id[p]] /\ digest' = [digest EXCEPT ![p] = digest[p]]
        /\ tar' = [tar EXCEPT ![p] = tar[p]] /\ UNCHANGED <<data, history>>
        /\ \A q \in Procs \ {p} : fd'[q] = fd[q]
        /\ id[p] \in Ids \union {None} /\ digest[p] \in Archived \union {None}
        /\ tar[p] \in Archived \union {None} /\ pc' = [pc EXCEPT ![p] = stage]
    BY <1>1, <1>6, Unmoved
  <1> QED
    BY <1>0, <1>2, <1>5, <1>6, <1>7, <1>8, <1>9, FileStep

LEMMA RenamesShape == ASSUME ShapeInv, NEW p \in Procs, Renames(p) PROVE ShapeInv'
  <1> DEFINE to == [part |-> "final", final |-> "gone", gone |-> "gone"]
  <1>1. /\ pc[p] = "rename" /\ pc' = [pc EXCEPT ![p] = "verify"] /\ "verify" \in Stages
        /\ part[id[p]] # NoFile /\ id[p] \in Ids
        /\ final' = [final EXCEPT ![id[p]] = part[id[p]]]
        /\ part' = [part EXCEPT ![id[p]] = NoFile]
        /\ fd' = Moved(id[p], to) /\ settled' = settled \ {id[p]}
        /\ UNCHANGED <<data, manifest, id, digest, tar, history>>
    BY Unmoved DEF Renames, Goto, Stages, StoreStages
  <1>2. part[id[p]] \in Temporary /\ part[id[p]] \in File /\ part[id[p]].holds \in Archived
    BY <1>1 DEF ShapeInv, Shape, Temporary, File
  <1>3. /\ fd' \in [Procs -> {"part", "final", "gone"}]
        /\ \A q \in Procs : fd'[q] = IF id[q] = id[p] THEN to[fd[q]] ELSE fd[q]
    BY <1>1, MovedTypes
  <1>4. /\ part' \in [Ids -> Temporary \union {NoFile}]
        /\ final' \in [Ids -> File \union {NoFile}] /\ final'[id[p]] = part[id[p]]
        /\ \A j \in Ids \ {id[p]} : part'[j] = part[j] /\ final'[j] = final[j]
        /\ manifest' \in [Ids -> Recorded \union {None}] /\ settled' \in SUBSET Ids
    BY <1>1, <1>2 DEF ShapeInv, Shape
  <1>5. \A q \in Procs : id[q] = id[p] => fd'[q] \in {"final", "gone"}
    BY <1>3 DEF ShapeInv, Shape
  <1>6. pc'[p] = "verify" /\ id'[p] = id[p] /\ digest'[p] = digest[p]
    BY <1>1 DEF ShapeInv, Shape
  <1>7. InHand(p)'
    BY <1>1, <1>4, <1>5, <1>6, Unmoved DEF InHand
  <1>8. /\ \A q \in Procs \ {p} : id[q] # id[p] => fd'[q] = fd[q]
        /\ \A q \in Procs \ {p} : id[q] = id[p] =>
               /\ fd'[q] = "part" => part'[id[p]] # NoFile
               /\ fd'[q] = "final" => final'[id[p]] # NoFile
        /\ final'[id[p]].holds \in Archived
    BY <1>1, <1>2, <1>3, <1>4, <1>5
  <1>9. /\ id' = [id EXCEPT ![p] = id[p]] /\ digest' = [digest EXCEPT ![p] = digest[p]]
        /\ tar' = [tar EXCEPT ![p] = tar[p]] /\ UNCHANGED <<data, history>>
        /\ id[p] \in Ids \union {None} /\ digest[p] \in Archived \union {None}
        /\ tar[p] \in Archived \union {None} /\ pc[p] # "idle"
    BY <1>1, Unmoved
  <1> QED
    BY <1>1, <1>3, <1>4, <1>7, <1>8, <1>9, FileStep

LEMMA ListsShape == ASSUME ShapeInv, NEW p \in Procs, Lists(p) PROVE ShapeInv'
  <1>1. /\ pc[p] = "manifest" /\ pc' = [pc EXCEPT ![p] = "returned"] /\ "returned" \in Stages
        /\ manifest' = [manifest EXCEPT ![id[p]] = digest[p]] /\ settled' = settled \ {id[p]}
        /\ UNCHANGED <<data, part, final, id, fd, digest, tar, history>>
    BY DEF Lists, Goto, Stages, StoreStages, process
  <1>2. digest[p] \in Recorded /\ pc[p] # "idle"
    BY <1>1, Unmoved DEF InHand, Recorded
  <1>3. /\ manifest' \in [Ids -> Recorded \union {None}] /\ settled' \in SUBSET Ids
        /\ part' \in [Ids -> Temporary \union {NoFile}]
        /\ final' \in [Ids -> File \union {NoFile}]
        /\ fd' \in [Procs -> {"part", "final", "gone"}]
    BY <1>1, <1>2 DEF ShapeInv, Shape
  <1>4. pc'[p] = "returned" /\ id'[p] = id[p] /\ fd'[p] = fd[p]
    BY <1>1 DEF ShapeInv, Shape
  <1>5. InHand(p)'
    BY <1>1, <1>4, Unmoved DEF InHand
  <1>6. \A q \in Procs \ {p} : id[q] = id[p] =>
            /\ fd'[q] = "part" => part'[id[p]] # NoFile
            /\ fd'[q] = "final" => final'[id[p]] # NoFile
    BY <1>1 DEF ShapeInv, InHand
  <1>7. /\ id' = [id EXCEPT ![p] = id[p]] /\ digest' = [digest EXCEPT ![p] = digest[p]]
        /\ tar' = [tar EXCEPT ![p] = tar[p]] /\ UNCHANGED <<data, part, final, history>>
        /\ \A q \in Procs \ {p} : fd'[q] = fd[q]
        /\ \/ final'[id[p]] = NoFile
           \/ final[id[p]] # NoFile /\ final'[id[p]].holds = final[id[p]].holds
    BY <1>1, Unmoved
  <1> QED
    BY <1>1, <1>2, <1>3, <1>5, <1>6, <1>7, Unmoved, FileStep

\* A process that ends leaves its descriptor, and takes files from others.
LEMMA TakesShape ==
    ASSUME ShapeInv, NEW p \in Procs, StoreCleansUp(p) \/ Unlinks(p)
    PROVE  ShapeInv'
  <1>0. id[p] \in Ids /\ pc[p] # "idle" /\ InHand(p)
    BY Unmoved DEF StoreCleansUp, Unlinks
  <1>1. PICK to \in [{"part", "final", "gone"} -> {"part", "final", "gone"}] :
            /\ UNCHANGED <<data, manifest, settled, history>>
            /\ \/ /\ to = [part |-> "gone", final |-> "final", gone |-> "gone"]
                  /\ part' = [part EXCEPT ![id[p]] = NoFile] /\ UNCHANGED final
               \/ /\ to = [part |-> "part", final |-> "gone", gone |-> "gone"]
                  /\ final' = [final EXCEPT ![id[p]] = NoFile] /\ UNCHANGED part
            /\ \/ Finished(p, Moved(id[p], to))
               \/ /\ Goto(p, "unlist") /\ fd' = Moved(id[p], to)
                  /\ UNCHANGED <<id, digest, tar>>
    <2>1. CASE StoreCleansUp(p)
      <3>1. [part |-> "gone", final |-> "final", gone |-> "gone"]
                \in [{"part", "final", "gone"} -> {"part", "final", "gone"}]
        OBVIOUS
      <3> QED
        BY <2>1, <3>1 DEF StoreCleansUp
    <2>2. CASE Unlinks(p)
      <3>1. [part |-> "part", final |-> "gone", gone |-> "gone"]
                \in [{"part", "final", "gone"} -> {"part", "final", "gone"}]
        OBVIOUS
      <3> QED
        BY <2>2, <3>1 DEF Unlinks
    <2> QED
      BY <2>1, <2>2
  <1>2. /\ Moved(id[p], to) \in [Procs -> {"part", "final", "gone"}]
        /\ \A q \in Procs : Moved(id[p], to)[q] = IF id[q] = id[p] THEN to[fd[q]] ELSE fd[q]
    BY MovedTypes
  <1>3. /\ part' \in [Ids -> Temporary \union {NoFile}]
        /\ final' \in [Ids -> File \union {NoFile}]
        /\ \A j \in Ids \ {id[p]} : part'[j] = part[j] /\ final'[j] = final[j]
        /\ part'[id[p]] # part[id[p]] => part'[id[p]] = NoFile /\ to["part"] = "gone"
        /\ final'[id[p]] # final[id[p]] => final'[id[p]] = NoFile /\ to["final"] = "gone"
        /\ to["part"] \in {"part", "gone"} /\ to["final"] \in {"final", "gone"}
        /\ to["gone"] = "gone"
        /\ manifest' \in [Ids -> Recorded \union {None}] /\ settled' \in SUBSET Ids
    <2>1. /\ part \in [Ids -> Temporary \union {NoFile}]
          /\ final \in [Ids -> File \union {NoFile}]
          /\ manifest \in [Ids -> Recorded \union {None}] /\ settled \in SUBSET Ids
      BY DEF ShapeInv, Shape
    <2>2. CASE /\ to = [part |-> "gone", final |-> "final", gone |-> "gone"]
               /\ part' = [part EXCEPT ![id[p]] = NoFile] /\ UNCHANGED final
      BY <1>0, <1>1, <2>1, <2>2
    <2>3. CASE /\ to = [part |-> "part", final |-> "gone", gone |-> "gone"]
               /\ final' = [final EXCEPT ![id[p]] = NoFile] /\ UNCHANGED part
      BY <1>0, <1>1, <2>1, <2>3
    <2> QED
      BY <1>1, <2>2, <2>3
  <1>4. \A q \in Procs : id[q] = id[p] =>
            /\ to[fd[q]] = "part" => part'[id[p]] # NoFile
            /\ to[fd[q]] = "final" => final'[id[p]] # NoFile
    <2> SUFFICES ASSUME NEW q \in Procs, id[q] = id[p]
                 PROVE  /\ to[fd[q]] = "part" => part'[id[p]] # NoFile
                        /\ to[fd[q]] = "final" => final'[id[p]] # NoFile
      OBVIOUS
    <2>1. InHand(q) /\ fd[q] \in {"part", "final", "gone"}
      BY Unmoved
    <2> QED
      BY <1>3, <2>1 DEF InHand
  <1>5. CASE Finished(p, Moved(id[p], to))
    <2>1. /\ pc' = [pc EXCEPT ![p] = "idle"] /\ id' = [id EXCEPT ![p] = None]
          /\ fd' = [Moved(id[p], to) EXCEPT ![p] = "gone"]
          /\ digest' = [digest EXCEPT ![p] = None] /\ tar' = [tar EXCEPT ![p] = None]
          /\ "idle" \in Stages
      BY <1>5 DEF Finished, Stages
    <2>2. /\ pc'[p] = "idle" /\ id'[p] = None /\ fd'[p] = "gone"
          /\ fd' \in [Procs -> {"part", "final", "gone"}]
          /\ \A q \in Procs \ {p} : fd'[q] = Moved(id[p], to)[q]
      BY <1>2, <2>1 DEF ShapeInv, Shape
    <2>3. InHand(p)'
      BY <2>2 DEF InHand
    <2>4. /\ \A q \in Procs \ {p} : id[q] # id[p] => fd'[q] = fd[q]
          /\ \A q \in Procs \ {p} : id[q] = id[p] =>
                 /\ fd'[q] = "part" => part'[id[p]] # NoFile
                 /\ fd'[q] = "final" => final'[id[p]] # NoFile
      BY <1>2, <1>4, <2>2
    <2>5. \/ final'[id[p]] = NoFile
          \/ final[id[p]] # NoFile /\ final'[id[p]].holds = final[id[p]].holds
      BY <1>3
    <2>6. UNCHANGED <<data, history>>
      BY <1>1
    <2> QED
      BY <1>0, <1>3, <2>1, <2>2, <2>3, <2>4, <2>5, <2>6, FileStep
  <1>6. CASE Goto(p, "unlist") /\ fd' = Moved(id[p], to) /\ UNCHANGED <<id, digest, tar>>
    <2>1. /\ pc' = [pc EXCEPT ![p] = "unlist"] /\ "unlist" \in Stages
          /\ id' = [id EXCEPT ![p] = id[p]] /\ digest' = [digest EXCEPT ![p] = digest[p]]
          /\ tar' = [tar EXCEPT ![p] = tar[p]]
          /\ id[p] \in Ids \union {None} /\ digest[p] \in Archived \union {None}
          /\ tar[p] \in Archived \union {None}
          /\ fd' \in [Procs -> {"part", "final", "gone"}]
      BY <1>2, <1>6, Unmoved DEF Goto, Stages, ForgetStages
    <2>2. pc'[p] = "unlist" /\ id'[p] = id[p] /\ fd'[p] = to[fd[p]]
      BY <1>2, <1>6, <2>1 DEF ShapeInv, Shape
    <2>3. InHand(p)'
      BY <1>0, <1>4, <2>2 DEF InHand
    <2>4. /\ \A q \in Procs \ {p} : id[q] # id[p] => fd'[q] = fd[q]
          /\ \A q \in Procs \ {p} : id[q] = id[p] =>
                 /\ fd'[q] = "part" => part'[id[p]] # NoFile
                 /\ fd'[q] = "final" => final'[id[p]] # NoFile
      BY <1>2, <1>4, <1>6
    <2>5. \/ final'[id[p]] = NoFile
          \/ final[id[p]] # NoFile /\ final'[id[p]].holds = final[id[p]].holds
      BY <1>3
    <2>6. UNCHANGED <<data, history>>
      BY <1>1
    <2> QED
      BY <1>0, <1>3, <2>1, <2>2, <2>3, <2>4, <2>5, <2>6, FileStep
  <1> QED
    BY <1>1, <1>5, <1>6

LEMMA UnlistsShape == ASSUME ShapeInv, NEW p \in Procs, Unlists(p) PROVE ShapeInv'
  <1>1. /\ pc[p] # "idle" /\ pc' = [pc EXCEPT ![p] = "idle"] /\ id' = [id EXCEPT ![p] = None]
        /\ fd' = [fd EXCEPT ![p] = "gone"]
        /\ digest' = [digest EXCEPT ![p] = None] /\ tar' = [tar EXCEPT ![p] = None]
        /\ manifest' = [manifest EXCEPT ![id[p]] = None] /\ "idle" \in Stages
        /\ UNCHANGED <<data, part, final, settled, history>>
    BY DEF Unlists, Done, Finished, Stages
  <1>2. /\ pc'[p] = "idle" /\ id'[p] = None /\ fd'[p] = "gone"
        /\ \A q \in Procs \ {p} : fd'[q] = fd[q]
        /\ fd' \in [Procs -> {"part", "final", "gone"}]
        /\ part' \in [Ids -> Temporary \union {NoFile}]
        /\ final' \in [Ids -> File \union {NoFile}]
        /\ manifest' \in [Ids -> Recorded \union {None}] /\ settled' \in SUBSET Ids
    BY <1>1 DEF ShapeInv, Shape
  <1>3. InHand(p)'
    BY <1>2 DEF InHand
  <1>4. \A q \in Procs \ {p} : id[q] = id[p] =>
            /\ fd'[q] = "part" => part'[id[p]] # NoFile
            /\ fd'[q] = "final" => final'[id[p]] # NoFile
    BY <1>1, <1>2 DEF ShapeInv, InHand
  <1>5. \/ final'[id[p]] = NoFile
        \/ final[id[p]] # NoFile /\ final'[id[p]].holds = final[id[p]].holds
    BY <1>1
  <1> QED
    BY <1>1, <1>2, <1>3, <1>4, <1>5, FileStep

-----------------------------------------------------------------------------
(* What happens around the processes.                                      *)

LEMMA SettlesShape == ASSUME ShapeInv, Settles PROVE ShapeInv'
  <1>1. Shape'
    BY DEF Settles, ShapeInv, Shape, process, history
  <1>2. \A q \in Procs : InHand(q)'
    BY DEF Settles, ShapeInv, InHand, Vol, process
  <1> QED
    BY <1>1, <1>2 DEF ShapeInv

LEMMA PowerShape == ASSUME ShapeInv, PowerFails PROVE ShapeInv'
  <1> DEFINE Left(file) == IF file = NoFile \/ file.synced THEN file
                           ELSE [holds |-> Partial, synced |-> TRUE]
  <1>1. /\ \A file \in File \union {NoFile} : Left(file) \in File \union {NoFile}
        /\ \A file \in Temporary \union {NoFile} : Left(file) \in Temporary \union {NoFile}
    BY DEF File, Temporary, Archived
  <1>2. PICK unlisted \in SUBSET (Ids \ settled), unnamed \in SUBSET (Ids \ settled) :
            /\ manifest' = [i \in Ids |-> IF i \in unlisted THEN None ELSE manifest[i]]
            /\ final' = [i \in Ids |-> IF i \in unnamed THEN NoFile ELSE Left(final[i])]
    BY DEF PowerFails
  <1>3. part' = [i \in Ids |-> Left(part[i])]
    BY DEF PowerFails
  <1>4. /\ \A i \in Ids : Left(part[i]) \in Temporary \union {NoFile}
        /\ \A i \in Ids : Left(final[i]) \in File \union {NoFile}
    BY <1>1 DEF ShapeInv, Shape
  <1> HIDE DEF Left
  <1>5. /\ part' \in [Ids -> Temporary \union {NoFile}]
        /\ final' \in [Ids -> File \union {NoFile}]
        /\ manifest' \in [Ids -> Recorded \union {None}]
    BY <1>2, <1>3, <1>4 DEF ShapeInv, Shape
  <1>6. Shape'
    BY <1>5 DEF PowerFails, ShapeInv, Shape, Stages
  <1>7. \A q \in Procs : InHand(q)'
    BY DEF PowerFails, InHand
  <1> QED
    BY <1>6, <1>7 DEF ShapeInv

\* Nothing rots between a restore's check and its read.
LEMMA RotsShape == ASSUME ShapeInv, NEW i \in Ids, Rots(i) PROVE ShapeInv'
  <1>1. /\ final[i] # NoFile /\ final[i] \in File
        /\ \A p \in Procs : ~(pc[p] = "read" /\ id[p] = i)
        /\ final' = [final EXCEPT ![i].holds = Rotten]
        /\ UNCHANGED <<data, part, manifest, settled, pc, id, fd, digest, tar, history>>
    BY DEF Rots, ShapeInv, Shape, process
  <1>2. /\ final'[i] \in File /\ final' \in [Ids -> File \union {NoFile}]
        /\ \A j \in Ids \ {i} : final'[j] = final[j]
    BY <1>1 DEF ShapeInv, Shape, File
  <1>3. final'[i] # NoFile
    BY <1>2, VaultAssumption
  <1>4. Shape'
    BY <1>1, <1>2 DEF ShapeInv, Shape, history
  <1>5. ASSUME NEW q \in Procs PROVE InHand(q)'
    <2>1. InHand(q) /\ (pc[q] # "idle" => id[q] \in Ids)
      BY Unmoved
    <2> QED
      BY <1>1, <1>2, <1>3, <2>1, KeepsInHand DEF InHand, Vol
  <1> QED
    BY <1>4, <1>5 DEF ShapeInv

LEMMA OthersShape == ASSUME ShapeInv, NEW v \in Vols, OthersUse(v) PROVE ShapeInv'
  <1>1. UNCHANGED <<directory, pc, id, fd, digest, tar, history>> /\ DumpsKeep
    <2>1. PICK c \in Content \union {None} :
              /\ c = None => ~Dumped(v)
              /\ data' = [data EXCEPT ![v] = c]
      BY DEF OthersUse
    <2>2. \A w \in Vols : Dumped(w) => data[w] # None
      BY DEF ShapeInv, Dumped, InHand
    <2> QED
      BY <2>1, <2>2 DEF OthersUse, process, DumpsKeep, ShapeInv, Shape, Archived
  <1>2. Shape'
    BY <1>1 DEF ShapeInv, Shape, directory, history, DumpsKeep
  <1>3. ASSUME NEW q \in Procs PROVE InHand(q)'
    BY <1>1, DumpsStand, KeepsInHand, Unmoved DEF InHand, directory
  <1> QED
    BY <1>2, <1>3 DEF ShapeInv

LEMMA ShapeStep == ShapeInv /\ [Next]_vars => ShapeInv'
  <1> SUFFICES ASSUME ShapeInv, [Next]_vars PROVE ShapeInv'
    OBVIOUS
  <1>1. ASSUME NEW p \in Procs, Begins(p) \/ Continues(p) \/ Killed(p) PROVE ShapeInv'
    BY <1>1, BeginShape, LookShape, VolumeShape, EndsShape, CreatesShape, WritesShape,
       RenamesShape, ListsShape, TakesShape, UnlistsShape DEF Continues
  <1>2. CASE UNCHANGED vars
    BY <1>2 DEF vars, directory, process, history, ShapeInv, Shape, InHand, Vol
  <1> QED
    BY <1>1, <1>2, SettlesShape, PowerShape, RotsShape, OthersShape DEF Next

\* The state keeps its shape, whether or not stores under one id overlap: no
\* manifest is written of an archive that has decayed, nothing decayed is
\* unpacked into a volume, and a process is at an entry just while it is
\* doing something.
THEOREM TypeCorrect == Spec => []TypeOK
  <1>1. Spec => []ShapeInv
    BY ShapeInit, ShapeStep, PTL DEF Spec
  <1>2. ShapeInv => TypeOK
    BY DEF ShapeInv, Shape, InHand, TypeOK, Stages, Temporary, File, Recorded
  <1> QED
    BY <1>1, <1>2, PTL

-----------------------------------------------------------------------------
(* What is true of an entry that no two stores were at together.           *)

Typed == Shape /\ \A p \in Procs : pc[p] # "idle" => id[p] \in Ids

\* A store that has not returned yet, and one that has not named its archive.
Storing == StoreStages \ {"returned"}
Nameless == {"create", "dump", "sync", "digest", "count", "rename"}

\* What a store has done so far, by the stage it is at.
StoreSound(p) ==
    /\ pc[p] \in Storing => manifest[id[p]] = None /\ id[p] \notin forgotten
    /\ pc[p] \in Nameless => final[id[p]] = NoFile
    /\ pc[p] \in {"dump", "sync"} => fd[p] = "part" /\ part[id[p]] # NoFile
    /\ pc[p] \in {"digest", "count", "rename"} /\ part[id[p]] # NoFile => part[id[p]].synced
    /\ pc[p] \in {"count", "rename"} /\ part[id[p]] # NoFile => part[id[p]].holds = digest[p]
    /\ pc[p] \in {"rename", "verify", "manifest"} => digest[p] # Partial
    /\ pc[p] \in {"count", "rename", "verify", "manifest"} => digest[p] \in Archived
    /\ pc[p] \in {"verify", "manifest"} =>
           final[id[p]] # NoFile /\ final[id[p]].holds = digest[p] /\ final[id[p]].synced

\* An entry that was returned, that is restored or that is forgotten was
\* listed once, and nothing but a forget has taken it off the list since.
OnceListed(p) == id[p] \in forgotten \/ manifest[id[p]] # None

OtherSound(p) ==
    /\ pc[p] = "returned" => OnceListed(p)
    /\ pc[p] \in RestoreStages => OnceListed(p) /\ digest[p] \in Archived
    /\ pc[p] \in {"read", "list", "volume", "upload"} => digest[p] # Partial
    /\ pc[p] = "read" => final[id[p]] = NoFile \/ final[id[p]].holds = digest[p]
    /\ pc[p] \in {"list", "volume", "upload"} => tar[p] = digest[p]
    /\ pc[p] \in ForgetStages => id[p] \in forgotten

Sound(p) == StoreSound(p) /\ OtherSound(p)

\* No two stores are at one entry, unless that was noted.
Apart == \A p, q \in Procs :
             p # q /\ pc[p] \in StoreStages /\ pc[q] \in StoreStages /\ id[p] = id[q] =>
                 id[p] \in crossed

\* A listed archive is whole, and the power cannot take it away any more.
Listed(i) == manifest[i] # None /\ i \notin forgotten \union crossed =>
                 Whole(i) /\ final[i].synced

Relied == ~outage => \A i \in relied \ (forgotten \union crossed) : manifest[i] # None

Inv == /\ Typed /\ Apart /\ Relied
       /\ \A p \in Procs : id[p] \notin crossed => Sound(p)
       /\ \A i \in Ids : Listed(i)

LEMMA InvInit == Init => Inv
  <1> SUFFICES ASSUME Init PROVE Inv
    OBVIOUS
  <1>1. Typed
    BY ShapeInit DEF ShapeInv, Typed, Init
  <1>2. Apart /\ Relied /\ \A i \in Ids : Listed(i)
    BY DEF Init, Apart, Relied, Listed, StoreStages
  <1>3. \A p \in Procs : Sound(p)
    BY DEF Init, Sound, StoreSound, OtherSound, Storing, Nameless, StoreStages, RestoreStages,
           ForgetStages
  <1> QED
    BY <1>1, <1>2, <1>3 DEF Inv

-----------------------------------------------------------------------------
(* What a step of one process leaves to the others.                        *)

\* The entry of a store that has not returned is nobody else's, if no other
\* store came to it.
LEMMA StoresAlone ==
    ASSUME Inv, NEW p \in Procs, NEW q \in Procs, p # q, id[p] \notin crossed,
           pc[p] \in Storing, pc[q] # "idle"
    PROVE  id[q] # id[p]
  <1> SUFFICES ASSUME id[q] = id[p] PROVE FALSE
    OBVIOUS
  <1>1. manifest[id[p]] = None /\ id[p] \notin forgotten /\ pc[p] \in StoreStages
    BY DEF Inv, Sound, StoreSound, Storing
  <1>2. pc[q] \in StoreStages \union RestoreStages \union ForgetStages
    BY DEF Inv, Typed, Shape, Stages
  <1>3. CASE pc[q] \in StoreStages
    BY <1>1, <1>3 DEF Inv, Apart
  <1>4. CASE pc[q] \in RestoreStages \union ForgetStages
    BY <1>1, <1>4 DEF Inv, Sound, OtherSound, OnceListed
  <1> QED
    BY <1>2, <1>3, <1>4

\* What Sound says of a process that does not move is about its entry only,
\* and about its temporary file only if it stores.
LEMMA StaysSound ==
    ASSUME NEW q \in Procs, Sound(q),
           pc'[q] = pc[q], id'[q] = id[q], digest'[q] = digest[q], tar'[q] = tar[q],
           pc[q] # "idle" => /\ final'[id[q]] = final[id[q]]
                             /\ manifest'[id[q]] = manifest[id[q]]
                             /\ id[q] \in forgotten' <=> id[q] \in forgotten,
           pc[q] \in StoreStages => fd'[q] = fd[q] /\ part'[id[q]] = part[id[q]]
    PROVE  Sound(q)'
  <1>1. CASE pc[q] = "idle"
    BY <1>1 DEF Sound, StoreSound, OtherSound, Storing, Nameless, StoreStages, RestoreStages,
                ForgetStages
  <1>2. CASE pc[q] # "idle"
    <2>1. StoreSound(q)'
      BY <1>2 DEF Sound, StoreSound, Storing, Nameless, StoreStages
    <2>2. OtherSound(q)'
      BY <1>2 DEF Sound, OtherSound, OnceListed
    <2> QED
      BY <2>1, <2>2 DEF Sound
  <1> QED
    BY <1>1, <1>2

\* A process that does nothing is sound.
LEMMA IdleIsSound ==
    ASSUME NEW p \in Procs, pc'[p] = "idle"
    PROVE  Sound(p)'
  BY DEF Sound, StoreSound, OtherSound, Storing, Nameless, StoreStages, RestoreStages,
         ForgetStages

\* A step of one process that leaves the directory as it is.
LEMMA Beside ==
    ASSUME Inv, Typed', NEW p \in Procs, NEW stage \in Stages,
           pc' = [pc EXCEPT ![p] = stage],
           NEW i \in Ids \union {None}, id' = [id EXCEPT ![p] = i],
           \A q \in Procs \ {p} : fd'[q] = fd[q] /\ digest'[q] = digest[q] /\ tar'[q] = tar[q],
           UNCHANGED <<directory, forgotten, outage>>, crossed \subseteq crossed', Relied',
           stage \in StoreStages =>
               \A q \in Procs \ {p} : pc[q] \in StoreStages /\ id[q] = i => i \in crossed',
           i \notin crossed' => Sound(p)'
    PROVE  Inv'
  <1>1. /\ pc'[p] = stage /\ id'[p] = i
        /\ \A q \in Procs \ {p} : pc'[q] = pc[q] /\ id'[q] = id[q]
    BY DEF Inv, Typed, Shape
  <1>2. Apart'
    <2> SUFFICES ASSUME NEW q \in Procs, NEW r \in Procs, q # r,
                        pc'[q] \in StoreStages, pc'[r] \in StoreStages, id'[q] = id'[r]
                 PROVE  id'[q] \in crossed'
      BY DEF Apart
    <2> QED
      BY <1>1 DEF Inv, Apart
  <1>3. \A j \in Ids : Listed(j)'
    BY DEF Inv, Listed, Whole, directory
  <1>4. ASSUME NEW q \in Procs \ {p}, id'[q] \notin crossed' PROVE Sound(q)'
    <2>1. Sound(q)
      BY <1>1, <1>4 DEF Inv
    <2> QED
      BY <1>1, <2>1, StaysSound DEF directory
  <1> QED
    BY <1>1, <1>2, <1>3, <1>4 DEF Inv

\* A process ends.
LEMMA Ends ==
    ASSUME Inv, Typed', NEW p \in Procs, Done(p),
           UNCHANGED <<directory, forgotten, crossed, outage>>, Relied'
    PROVE  Inv'
  <1>1. /\ pc' = [pc EXCEPT ![p] = "idle"] /\ id' = [id EXCEPT ![p] = None]
        /\ \A q \in Procs \ {p} : fd'[q] = fd[q] /\ digest'[q] = digest[q] /\ tar'[q] = tar[q]
    BY DEF Done, Finished, Inv, Typed, Shape
  <1>2. Sound(p)'
    BY <1>1, IdleIsSound DEF Inv, Typed, Shape
  <1>3. "idle" \in Stages /\ "idle" \notin StoreStages
    BY DEF Stages, StoreStages
  <1> QED
    BY <1>1, <1>2, <1>3, Beside
-----------------------------------------------------------------------------
(* A store.                                                                *)

\* A step of a store that leaves the directory as it is.
LEMMA StoreMoves ==
    ASSUME Inv, Typed', NEW p \in Procs, pc[p] \in Storing,
           NEW stage \in StoreStages, Goto(p, stage),
           UNCHANGED <<directory, id, fd, tar, history>>,
           \A q \in Procs \ {p} : digest'[q] = digest[q],
           Sound(p)'
    PROVE  Inv'
  <1>1. /\ pc' = [pc EXCEPT ![p] = stage] /\ stage \in Stages
        /\ pc[p] \in StoreStages /\ id[p] \in Ids
    BY DEF Goto, Stages, Storing, StoreStages, Inv, Typed, Shape
  <1>2. /\ id' = [id EXCEPT ![p] = id[p]] /\ Relied'
        /\ UNCHANGED <<forgotten, crossed, outage>>
        /\ \A q \in Procs \ {p} : fd'[q] = fd[q] /\ tar'[q] = tar[q]
    BY DEF Inv, Typed, Shape, Relied, history, directory
  <1>3. \A q \in Procs \ {p} : pc[q] \in StoreStages /\ id[q] = id[p] => id[p] \in crossed'
    BY <1>1, <1>2 DEF Inv, Apart
  <1> QED
    BY <1>1, <1>2, <1>3, Beside

LEMMA StoreBeginsStep == ASSUME Inv, Typed', NEW p \in Procs, StoreBegins(p) PROVE Inv'
  <1>1. PICK i \in Ids \ forgotten :
            /\ final[i] = NoFile
            /\ At(p, i)
            /\ crossed' = crossed \union
                   {j \in {i} : \E q \in Procs : pc[q] \in StoreStages /\ id[q] = j}
    BY DEF StoreBegins
  <1>2. /\ pc[p] = "idle" /\ pc' = [pc EXCEPT ![p] = "create"]
        /\ id' = [id EXCEPT ![p] = i]
        /\ UNCHANGED <<directory, fd, digest, tar, relied, forgotten, outage>>
    BY <1>1 DEF StoreBegins, Goto, At
  <1>3. Sound(p)' \/ i \in crossed'
    <2>1. pc'[p] = "create" /\ id'[p] = i
      BY <1>2 DEF Inv, Typed, Shape
    <2>2. manifest[i] = None \/ i \in crossed
      BY <1>1 DEF Inv, Listed, Whole
    <2> QED
      BY <1>1, <1>2, <2>1, <2>2 DEF Sound, StoreSound, OtherSound, Storing, Nameless, StoreStages,
                                    RestoreStages, ForgetStages, directory
  <1>4. "create" \in Stages
    BY DEF Stages, StoreStages
  <1>5. Relied' /\ crossed \subseteq crossed'
    BY <1>1, <1>2 DEF Inv, Relied, directory
  <1>6. \A q \in Procs \ {p} : pc[q] \in StoreStages /\ id[q] = i => i \in crossed'
    BY <1>1
  <1>7. \A q \in Procs \ {p} : fd'[q] = fd[q] /\ digest'[q] = digest[q] /\ tar'[q] = tar[q]
    BY <1>2
  <1> QED
    BY <1>2, <1>3, <1>4, <1>5, <1>6, <1>7, Beside

LEMMA StoreLooks ==
    ASSUME Inv, Typed', NEW p \in Procs, id[p] \notin crossed,
           Digests(p) \/ Counts(p) \/ Verifies(p)
    PROVE  Inv'
  <1>0. Sound(p) /\ pc[p] \in Storing /\ id[p] \in Ids /\ part[id[p]] \in Temporary \union {NoFile}
    BY DEF Inv, Typed, Shape, Digests, Counts, Verifies, Storing, StoreStages
  <1>1. CASE Digests(p)
    <2>1. /\ pc[p] = "digest" /\ pc' = [pc EXCEPT ![p] = "count"]
          /\ digest' = [digest EXCEPT ![p] = part[id[p]].holds] /\ part[id[p]] # NoFile
          /\ UNCHANGED <<data, directory, id, fd, tar, history>>
      BY <1>1 DEF Digests, Goto
    <2>2. part[id[p]].holds \in Archived
      BY <1>0, <2>1 DEF Temporary
    <2>3. pc'[p] = "count" /\ digest'[p] = part[id[p]].holds
      BY <2>1 DEF Inv, Typed, Shape
    <2>4. Sound(p)'
      BY <1>0, <2>1, <2>2, <2>3 DEF Sound, StoreSound, OtherSound, Storing, Nameless, StoreStages,
                                    RestoreStages, ForgetStages, directory, history
    <2>5. \A q \in Procs \ {p} : digest'[q] = digest[q]
      BY <2>1
    <2> QED
      BY <1>0, <1>1, <2>1, <2>4, <2>5, StoreMoves DEF Digests, StoreStages
  <1>2. CASE Counts(p) \/ Verifies(p)
    <2>1. /\ \/ /\ pc[p] = "count" /\ part[id[p]] # NoFile /\ part[id[p]].holds # Partial
                /\ pc' = [pc EXCEPT ![p] = "rename"]
             \/ pc[p] = "verify" /\ pc' = [pc EXCEPT ![p] = "manifest"]
          /\ UNCHANGED <<data, directory, id, fd, digest, tar, history>>
      BY <1>2 DEF Counts, Verifies, Goto, process
    <2>2. \/ pc[p] = "count" /\ pc'[p] = "rename"
          \/ pc[p] = "verify" /\ pc'[p] = "manifest"
      BY <2>1 DEF Inv, Typed, Shape
    <2>3. Sound(p)'
      BY <1>0, <2>1, <2>2 DEF Sound, StoreSound, OtherSound, Storing, Nameless, StoreStages,
                              RestoreStages, ForgetStages, directory, history
    <2>4. \E stage \in StoreStages : Goto(p, stage)
      BY <1>2 DEF Counts, Verifies, StoreStages
    <2> QED
      BY <1>0, <2>1, <2>3, <2>4, StoreMoves
  <1> QED
    BY <1>1, <1>2

\* A step of a store that writes to the directory does so at its own entry,
\* where nobody else is.
LEMMA StoreWrites ==
    ASSUME Inv, Typed', NEW p \in Procs, id[p] \notin crossed, pc[p] \in Storing,
           NEW stage \in StoreStages \union {"idle"}, pc' = [pc EXCEPT ![p] = stage],
           UNCHANGED <<id, digest, tar>> \/ (stage = "idle" /\ id' = [id EXCEPT ![p] = None]
                                             /\ digest' = [digest EXCEPT ![p] = None]
                                             /\ tar' = [tar EXCEPT ![p] = None]),
           \A i \in Ids \ {id[p]} : /\ part'[i] = part[i] /\ final'[i] = final[i]
                                    /\ manifest'[i] = manifest[i],
           \A q \in Procs \ {p} : id[q] # id[p] => fd'[q] = fd[q],
           UNCHANGED history,
           Sound(p)', \A i \in Ids : i = id[p] => Listed(i)',
           manifest'[id[p]] # None \/ UNCHANGED manifest
    PROVE  Inv'
  <1>0. pc[p] # "idle" /\ pc[p] \in StoreStages /\ id[p] \in Ids
        /\ UNCHANGED <<relied, forgotten, crossed, outage>>
    BY DEF Inv, Typed, Shape, Storing, StoreStages, Stages, history
  <1>1. \A q \in Procs \ {p} : /\ pc'[q] = pc[q] /\ id'[q] = id[q]
                               /\ digest'[q] = digest[q] /\ tar'[q] = tar[q]
    BY DEF Inv, Typed, Shape
  <1>2. Apart'
    <2>1. \A q \in Procs : pc'[q] \in StoreStages => pc[q] \in StoreStages /\ id'[q] = id[q]
      <3>1. "idle" \notin StoreStages
        BY DEF StoreStages
      <3> QED
        BY <1>0, <1>1, <3>1 DEF Inv, Typed, Shape
    <2> QED
      BY <1>0, <2>1 DEF Inv, Apart
  <1>3. Relied'
    BY <1>0 DEF Inv, Typed, Shape, Relied
  <1>4. \A i \in Ids : Listed(i)'
    <2>1. ASSUME NEW i \in Ids \ {id[p]} PROVE Listed(i)'
      BY <1>0, <2>1 DEF Inv, Listed, Whole
    <2> QED
      BY <2>1
  <1>5. ASSUME NEW q \in Procs \ {p}, id'[q] \notin crossed' PROVE Sound(q)'
    <2>1. Sound(q)
      BY <1>0, <1>1, <1>5 DEF Inv
    <2>2. pc[q] # "idle" => id[q] # id[p] /\ id[q] \in Ids
      BY StoresAlone DEF Inv, Typed, Shape
    <2>3. pc[q] \in StoreStages => pc[q] # "idle"
      BY DEF StoreStages
    <2> QED
      BY <1>0, <1>1, <2>1, <2>2, <2>3, StaysSound
  <1> QED
    BY <1>2, <1>3, <1>4, <1>5 DEF Inv

LEMMA CreatesPartStep ==
    ASSUME Inv, Typed', NEW p \in Procs, id[p] \notin crossed, CreatesPart(p)
    PROVE  Inv'
  <1>0. Sound(p) /\ pc[p] = "create" /\ pc[p] \in Storing /\ id[p] \in Ids
    BY DEF Inv, Typed, Shape, CreatesPart, Storing, StoreStages
  <1>1. /\ part' = [part EXCEPT ![id[p]] = [holds |-> Partial, synced |-> FALSE]]
        /\ fd' = [fd EXCEPT ![p] = "part"]
        /\ data' = [data EXCEPT ![Vol(p)] = IF @ = None THEN Empty ELSE @]
        /\ pc' = [pc EXCEPT ![p] = "dump"]
        /\ UNCHANGED <<final, manifest, settled, id, digest, tar, history>>
    BY DEF CreatesPart, Goto
  <1>4. [holds |-> Partial, synced |-> FALSE] \in Temporary
        /\ [holds |-> Partial, synced |-> FALSE] # NoFile
    <2>1. [holds |-> Partial, synced |-> FALSE] \in Temporary
      BY DEF Temporary, Archived
    <2>2. Temporary \subseteq File
      BY DEF Temporary, File
    <2> QED
      BY <2>1, <2>2, VaultAssumption
  <1>6. pc'[p] = "dump" /\ fd'[p] = "part" /\ part'[id[p]] # NoFile
    BY <1>0, <1>1, <1>4 DEF Inv, Typed, Shape
  <1>7. Sound(p)'
    BY <1>0, <1>1, <1>6 DEF Sound, StoreSound, OtherSound, Storing, Nameless, StoreStages,
                                  RestoreStages, ForgetStages, history
  <1>8. \A i \in Ids : i = id[p] => Listed(i)'
    BY <1>0, <1>1 DEF Listed, Sound, StoreSound
  <1>9. "dump" \in StoreStages
    BY DEF StoreStages
  <1>10. /\ \A q \in Procs \ {p} : fd'[q] = fd[q]
         /\ \A i \in Ids \ {id[p]} : part'[i] = part[i] /\ final'[i] = final[i]
                                     /\ manifest'[i] = manifest[i]
    BY <1>1 DEF Inv, Typed, Shape
  <1> QED
    BY <1>0, <1>1, <1>7, <1>8, <1>9, <1>10, StoreWrites

\* A store writes to its temporary file, and to nothing else.
LEMMA PartWritten ==
    ASSUME Inv, NEW p \in Procs, id[p] \notin crossed, pc[p] \in {"dump", "sync"},
           NEW file \in Temporary, Writes(p, file.holds, file.synced)
    PROVE  part' = [part EXCEPT ![id[p]] = file] /\ UNCHANGED final
  <1>1. fd[p] = "part"
    BY DEF Inv, Sound, StoreSound
  <1>2. file = [holds |-> file.holds, synced |-> file.synced]
    BY DEF Temporary
  <1> QED
    BY <1>1, <1>2 DEF Writes

LEMMA WritesStep ==
    ASSUME Inv, Typed', ShapeInv, NEW p \in Procs, id[p] \notin crossed, Dumps(p) \/ Syncs(p)
    PROVE  Inv'
  <1>0. Sound(p) /\ pc[p] \in {"dump", "sync"} /\ pc[p] \in Storing /\ id[p] \in Ids
        /\ fd[p] = "part" /\ part[id[p]] \in Temporary
    BY DEF Inv, Typed, Shape, Dumps, Syncs, Storing, StoreStages, Sound, StoreSound
  <1>1. UNCHANGED <<data, manifest, settled, process, history>>
    BY DEF Dumps, Syncs
  <1>2. PICK file \in Temporary :
            /\ part' = [part EXCEPT ![id[p]] = file] /\ UNCHANGED final
            /\ \/ pc[p] = "dump" /\ pc' = [pc EXCEPT ![p] = "sync"]
               \/ pc[p] = "sync" /\ pc' = [pc EXCEPT ![p] = "digest"] /\ file.synced
    <2>1. CASE Dumps(p)
      <3>1. Vol(p) \in Vols /\ pc[p] = "dump"
        BY <1>0, <2>1 DEF Vol, VolOf, Ids, Dumps
      <3>2. data[Vol(p)] \in Archived
        BY <1>0, <3>1 DEF ShapeInv, Shape, InHand
      <3> DEFINE file == [holds |-> data[Vol(p)], synced |-> FALSE]
      <3>3. file \in Temporary /\ file.holds = data[Vol(p)] /\ file.synced = FALSE
        BY <3>2 DEF Temporary
      <3>4. Writes(p, file.holds, file.synced) /\ pc' = [pc EXCEPT ![p] = "sync"]
        BY <2>1, <3>3 DEF Dumps, Goto
      <3> QED
        BY <1>0, <3>1, <3>3, <3>4, PartWritten
    <2>2. CASE Syncs(p)
      <3>1. Written(p) = part[id[p]].holds /\ part[id[p]].holds \in Archived
        BY <1>0 DEF Written, Temporary
      <3> DEFINE file == [holds |-> Written(p), synced |-> TRUE]
      <3>2. file \in Temporary /\ file.holds = Written(p) /\ file.synced = TRUE
        BY <3>1 DEF Temporary
      <3>3. Writes(p, file.holds, file.synced) /\ pc[p] = "sync"
            /\ pc' = [pc EXCEPT ![p] = "digest"]
        BY <2>2, <3>2 DEF Syncs, Goto
      <3> QED
        BY <1>0, <3>2, <3>3, PartWritten
    <2> QED
      BY <2>1, <2>2
  <1>3. part'[id[p]] = file /\ file # NoFile
    <2>1. Temporary \subseteq File
      BY DEF Temporary, File
    <2> QED
      BY <1>0, <1>2, <2>1, VaultAssumption DEF Inv, Typed, Shape
  <1>4. \/ pc[p] = "dump" /\ pc'[p] = "sync"
        \/ pc[p] = "sync" /\ pc'[p] = "digest" /\ file.synced
    BY <1>2 DEF Inv, Typed, Shape
  <1>5. Sound(p)'
    BY <1>0, <1>1, <1>2, <1>3, <1>4 DEF Sound, StoreSound, OtherSound, Storing, Nameless,
           StoreStages, RestoreStages, ForgetStages, history, process
  <1>6. \A i \in Ids : i = id[p] => Listed(i)'
    BY <1>0, <1>1 DEF Listed, Sound, StoreSound
  <1>7. \E stage \in StoreStages : pc' = [pc EXCEPT ![p] = stage]
    BY <1>2 DEF StoreStages
  <1>8. /\ \A q \in Procs \ {p} : fd'[q] = fd[q]
        /\ \A i \in Ids \ {id[p]} : part'[i] = part[i] /\ final'[i] = final[i]
                                    /\ manifest'[i] = manifest[i]
        /\ UNCHANGED <<id, digest, tar>>
    BY <1>1, <1>2 DEF Inv, Typed, Shape, process
  <1> QED
    BY <1>0, <1>1, <1>3, <1>5, <1>6, <1>7, <1>8, StoreWrites

LEMMA RenamesStep ==
    ASSUME Inv, Typed', NEW p \in Procs, id[p] \notin crossed, Renames(p)
    PROVE  Inv'
  <1>0. Sound(p) /\ pc[p] = "rename" /\ pc[p] \in Storing /\ id[p] \in Ids
        /\ part[id[p]] \in Temporary
    BY DEF Inv, Typed, Shape, Renames, Storing, StoreStages
  <1>1. /\ final' = [final EXCEPT ![id[p]] = part[id[p]]]
        /\ part' = [part EXCEPT ![id[p]] = NoFile]
        /\ fd' = Moved(id[p], [part |-> "final", final |-> "gone", gone |-> "gone"])
        /\ pc' = [pc EXCEPT ![p] = "verify"]
        /\ UNCHANGED <<data, manifest, id, digest, tar, history>>
    BY DEF Renames, Goto
  <1>2. part[id[p]] \in File /\ part[id[p]] # NoFile
    BY <1>0, VaultAssumption DEF Temporary, File
  <1>3. \A q \in Procs \ {p} : id[q] # id[p] => fd'[q] = fd[q]
    BY <1>1 DEF Moved, Inv, Typed, Shape
  <1>4. pc'[p] = "verify" /\ final'[id[p]] = part[id[p]]
    BY <1>0, <1>1 DEF Inv, Typed, Shape
  <1>5. Sound(p)'
    BY <1>0, <1>1, <1>2, <1>4 DEF Sound, StoreSound, OtherSound, Storing, Nameless, StoreStages,
                                  RestoreStages, ForgetStages, history
  <1>6. \A i \in Ids : i = id[p] => Listed(i)'
    BY <1>0, <1>1 DEF Listed, Sound, StoreSound
  <1>7. \A i \in Ids \ {id[p]} : part'[i] = part[i] /\ final'[i] = final[i]
                                 /\ manifest'[i] = manifest[i]
    BY <1>1 DEF Inv, Typed, Shape
  <1>8. "verify" \in StoreStages
    BY DEF StoreStages
  <1> QED
    BY <1>0, <1>1, <1>3, <1>5, <1>6, <1>7, <1>8, StoreWrites

LEMMA ListsStep ==
    ASSUME Inv, Typed', NEW p \in Procs, id[p] \notin crossed, Lists(p)
    PROVE  Inv'
  <1>0. Sound(p) /\ pc[p] = "manifest" /\ pc[p] \in Storing /\ id[p] \in Ids
    BY DEF Inv, Typed, Shape, Lists, Storing, StoreStages
  <1>1. /\ manifest' = [manifest EXCEPT ![id[p]] = digest[p]]
        /\ pc' = [pc EXCEPT ![p] = "returned"]
        /\ UNCHANGED <<data, part, final, id, fd, digest, tar, history>>
    BY DEF Lists, Goto, process
  <1>2. digest[p] \in Archived /\ digest[p] # None
    BY <1>0, VaultAssumption DEF Sound, StoreSound
  <1>3. pc'[p] = "returned" /\ manifest'[id[p]] = digest[p]
    BY <1>0, <1>1 DEF Inv, Typed, Shape
  <1>4. Sound(p)'
    BY <1>0, <1>1, <1>2, <1>3 DEF Sound, StoreSound, OtherSound, OnceListed, Storing, Nameless,
                                  StoreStages, RestoreStages, ForgetStages, history
  <1>5. \A i \in Ids : i = id[p] => Listed(i)'
    BY <1>0, <1>1, <1>3 DEF Listed, Whole, Sound, StoreSound, history
  <1>6. /\ \A q \in Procs \ {p} : fd'[q] = fd[q]
        /\ \A i \in Ids \ {id[p]} : part'[i] = part[i] /\ final'[i] = final[i]
                                    /\ manifest'[i] = manifest[i]
    BY <1>1 DEF Inv, Typed, Shape
  <1>7. "returned" \in StoreStages
    BY DEF StoreStages
  <1> QED
    BY <1>0, <1>1, <1>2, <1>3, <1>4, <1>5, <1>6, <1>7, StoreWrites

LEMMA StoreCleansUpStep ==
    ASSUME Inv, Typed', NEW p \in Procs, id[p] \notin crossed, StoreCleansUp(p)
    PROVE  Inv'
  <1>0. Sound(p) /\ pc[p] \in Storing /\ id[p] \in Ids
    BY DEF Inv, Typed, Shape, StoreCleansUp, Storing, StoreStages
  <1> DEFINE to == [part |-> "gone", final |-> "final", gone |-> "gone"]
  <1>1. /\ part' = [part EXCEPT ![id[p]] = NoFile]
        /\ pc' = [pc EXCEPT ![p] = "idle"] /\ id' = [id EXCEPT ![p] = None]
        /\ fd' = [Moved(id[p], to) EXCEPT ![p] = "gone"]
        /\ digest' = [digest EXCEPT ![p] = None] /\ tar' = [tar EXCEPT ![p] = None]
        /\ UNCHANGED <<data, final, manifest, history>>
    BY DEF StoreCleansUp, Finished
  <1>2. \A q \in Procs \ {p} : id[q] # id[p] => fd'[q] = fd[q]
    BY <1>1 DEF Moved, Inv, Typed, Shape
  <1>3. Sound(p)'
    BY <1>1, IdleIsSound DEF Inv, Typed, Shape
  <1>4. \A i \in Ids : i = id[p] => Listed(i)'
    BY <1>0, <1>1 DEF Listed, Sound, StoreSound
  <1>5. \A i \in Ids \ {id[p]} : part'[i] = part[i] /\ final'[i] = final[i]
                                 /\ manifest'[i] = manifest[i]
    BY <1>1 DEF Inv, Typed, Shape
  <1> QED
    BY <1>0, <1>1, <1>2, <1>3, <1>4, <1>5, StoreWrites

\* What only a store that has returned may bring about: the entry is relied
\* on, and it is listed.
LEMMA RemovesVolumeStep ==
    ASSUME Inv, Typed', NEW p \in Procs, id[p] \notin crossed, RemovesVolume(p)
    PROVE  Inv'
  <1>1. /\ Done(p) /\ pc[p] = "returned" /\ UNCHANGED <<directory, forgotten, crossed, outage>>
        /\ relied' = relied \union {id[p]}
    BY DEF RemovesVolume
  <1>2. id[p] \in forgotten \/ manifest[id[p]] # None
    BY <1>1 DEF Inv, Sound, OtherSound, OnceListed
  <1>3. Relied'
    BY <1>1, <1>2 DEF Inv, Relied, directory
  <1> QED
    BY <1>1, <1>3, Ends

LEMMA EndsStep ==
    ASSUME Inv, Typed', NEW p \in Procs,
           StoreFails(p) \/ LeavesVolume(p) \/ RestoreFails(p) \/ Killed(p) \/ Uploads(p)
    PROVE  Inv'
  <1>1. Done(p) /\ UNCHANGED <<directory, history>>
    BY DEF StoreFails, LeavesVolume, RestoreFails, Killed, Uploads
  <1>2. Relied' /\ UNCHANGED <<forgotten, crossed, outage>>
    BY <1>1 DEF Inv, Relied, directory, history
  <1> QED
    BY <1>1, <1>2, Ends
-----------------------------------------------------------------------------
(* A restore and a forget.                                                 *)

\* A step of a restore leaves the directory as it is.
LEMMA RestoreMoves ==
    ASSUME Inv, Typed', NEW p \in Procs, NEW stage \in RestoreStages, Goto(p, stage),
           NEW i \in Ids, id' = [id EXCEPT ![p] = i],
           NEW d, digest' = [digest EXCEPT ![p] = d],
           NEW t, tar' = [tar EXCEPT ![p] = t],
           UNCHANGED <<directory, fd, history>>,
           i \notin crossed => Sound(p)'
    PROVE  Inv'
  <1>1. stage \in Stages /\ stage \notin StoreStages
    BY DEF Stages, RestoreStages, StoreStages
  <1>2. Relied' /\ UNCHANGED <<forgotten, crossed, outage>>
    BY DEF Inv, Relied, directory, history
  <1>3. \A q \in Procs \ {p} : fd'[q] = fd[q] /\ digest'[q] = digest[q] /\ tar'[q] = tar[q]
    BY DEF Inv, Typed, Shape
  <1> QED
    BY <1>1, <1>2, <1>3, Beside DEF Goto

LEMMA RestoreStep ==
    ASSUME Inv, Typed', NEW p \in Procs,
           \/ RestoreBegins(p) \/ Checks(p) \/ Reads(p) \/ FindsNoVolume(p)
           \/ CreatesVolume(p)
    PROVE  Inv'
  <1>0. /\ digest = [digest EXCEPT ![p] = digest[p]] /\ tar = [tar EXCEPT ![p] = tar[p]]
        /\ id = [id EXCEPT ![p] = id[p]]
        /\ pc[p] # "idle" => id[p] \in Ids
        /\ id[p] \notin crossed => Sound(p)
    BY DEF Inv, Typed, Shape
  <1>1. CASE RestoreBegins(p)
    <2>1. PICK i \in Ids : manifest[i] # None /\ At(p, i)
                           /\ digest' = [digest EXCEPT ![p] = manifest[i]]
      BY <1>1 DEF RestoreBegins
    <2>2. /\ pc[p] = "idle" /\ Goto(p, "check") /\ id' = [id EXCEPT ![p] = i]
          /\ UNCHANGED <<data, directory, fd, tar, history>>
      BY <1>1, <2>1 DEF RestoreBegins, At
    <2>3. manifest[i] \in Archived
      BY <2>1 DEF Inv, Typed, Shape, Recorded
    <2>4. pc'[p] = "check" /\ id'[p] = i /\ digest'[p] = manifest[i]
      BY <2>1, <2>2 DEF Goto, Inv, Typed, Shape
    <2>5. Sound(p)'
      BY <2>1, <2>2, <2>3, <2>4 DEF Sound, StoreSound, OtherSound, OnceListed, Storing, Nameless,
                                    StoreStages, RestoreStages, ForgetStages, directory, history
    <2>6. "check" \in RestoreStages
      BY DEF RestoreStages
    <2> QED
      BY <1>0, <2>1, <2>2, <2>5, <2>6, RestoreMoves
  <1>2. CASE Checks(p)
    <2>1. /\ pc[p] = "check" /\ Goto(p, "read") /\ Intact(p)
          /\ UNCHANGED <<data, directory, id, fd, digest, tar, history>>
      BY <1>2 DEF Checks, process
    <2>2. pc'[p] = "read"
      BY <2>1 DEF Goto, Inv, Typed, Shape
    <2>3. ASSUME id[p] \notin crossed PROVE Sound(p)'
      BY <1>0, <2>1, <2>2, <2>3 DEF Intact, Sound, StoreSound, OtherSound, OnceListed,
             Storing, Nameless, StoreStages, RestoreStages, ForgetStages, directory, history
    <2>4. "read" \in RestoreStages /\ pc[p] # "idle"
      BY <2>1 DEF RestoreStages
    <2> QED
      BY <1>0, <2>1, <2>3, <2>4, RestoreMoves
  <1>3. CASE Reads(p)
    <2>1. /\ pc[p] = "read" /\ Goto(p, "list") /\ final[id[p]] # NoFile
          /\ tar' = [tar EXCEPT ![p] = final[id[p]].holds]
          /\ UNCHANGED <<data, directory, id, fd, digest, history>>
      BY <1>3 DEF Reads
    <2>2. pc'[p] = "list" /\ tar'[p] = final[id[p]].holds
      BY <2>1 DEF Goto, Inv, Typed, Shape
    <2>3. ASSUME id[p] \notin crossed PROVE Sound(p)'
      BY <1>0, <2>1, <2>2, <2>3 DEF Sound, StoreSound, OtherSound, OnceListed, Storing, Nameless,
                        StoreStages, RestoreStages, ForgetStages, directory, history
    <2>4. "list" \in RestoreStages /\ pc[p] # "idle"
      BY <2>1 DEF RestoreStages
    <2> QED
      BY <1>0, <2>1, <2>3, <2>4, RestoreMoves
  <1>4. CASE FindsNoVolume(p) \/ CreatesVolume(p)
    <2>1. /\ \/ pc[p] = "list" /\ Goto(p, "volume")
             \/ pc[p] = "volume" /\ Goto(p, "upload")
          /\ UNCHANGED <<directory, id, fd, digest, tar, history>>
      BY <1>4 DEF FindsNoVolume, CreatesVolume, process
    <2>2. pc[p] \in {"list", "volume"} /\ pc'[p] \in {"volume", "upload"}
      BY <2>1 DEF Goto, Inv, Typed, Shape
    <2>3. ASSUME id[p] \notin crossed PROVE Sound(p)'
      BY <1>0, <2>1, <2>2, <2>3 DEF Sound, StoreSound, OtherSound, OnceListed, Storing, Nameless,
                        StoreStages, RestoreStages, ForgetStages, directory, history
    <2>4. pc[p] # "idle" /\ \E stage \in RestoreStages : Goto(p, stage)
      BY <2>1 DEF RestoreStages
    <2> QED
      BY <1>0, <2>1, <2>3, <2>4, RestoreMoves
  <1> QED
    BY <1>1, <1>2, <1>3, <1>4

LEMMA ForgetBeginsStep == ASSUME Inv, Typed', NEW p \in Procs, ForgetBegins(p) PROVE Inv'
  <1>1. PICK i \in Ids : /\ manifest[i] # None /\ At(p, i)
                         /\ forgotten' = forgotten \union {i}
    BY DEF ForgetBegins
  <1>2. /\ pc[p] = "idle" /\ pc' = [pc EXCEPT ![p] = "unlink"] /\ id' = [id EXCEPT ![p] = i]
        /\ UNCHANGED <<directory, fd, digest, tar, relied, crossed, outage>>
    BY <1>1 DEF ForgetBegins, Goto, At
  <1>3. Apart'
    BY <1>2 DEF Inv, Typed, Shape, Apart, StoreStages
  <1>4. Relied' /\ \A j \in Ids : Listed(j)'
    BY <1>1, <1>2 DEF Inv, Relied, Listed, Whole, directory
  <1>5. Sound(p)'
    <2>1. pc'[p] = "unlink" /\ id'[p] = i
      BY <1>2 DEF Inv, Typed, Shape
    <2> QED
      BY <1>1, <2>1 DEF Sound, StoreSound, OtherSound, Storing, Nameless, StoreStages,
                        RestoreStages, ForgetStages
  <1>6. ASSUME NEW q \in Procs \ {p}, id'[q] \notin crossed' PROVE Sound(q)'
    <2>1. pc'[q] = pc[q] /\ id'[q] = id[q] /\ UNCHANGED <<directory, fd, digest, tar>>
      BY <1>2 DEF Inv, Typed, Shape
    <2>2. Sound(q)
      BY <1>2, <1>6, <2>1 DEF Inv
    <2>3. pc[q] \in Storing => id[q] # i
      BY <1>1, <2>2 DEF Sound, StoreSound
    <2>4. StoreSound(q)'
      BY <1>1, <2>1, <2>2, <2>3 DEF Sound, StoreSound, directory
    <2>5. OtherSound(q)'
      BY <1>1, <2>1, <2>2 DEF Sound, OtherSound, OnceListed, directory
    <2> QED
      BY <2>4, <2>5 DEF Sound
  <1> QED
    BY <1>3, <1>4, <1>5, <1>6 DEF Inv

\* A forget takes away what is in nobody's store.
LEMMA ForgetStep ==
    ASSUME Inv, Typed', NEW p \in Procs, id[p] \notin crossed, Unlinks(p) \/ Unlists(p)
    PROVE  Inv'
  <1>0. pc[p] \in ForgetStages /\ id[p] \in Ids /\ id[p] \in forgotten
    BY DEF Unlinks, Unlists, ForgetStages, Inv, Typed, Shape, Sound, OtherSound
  <1>1. /\ \/ /\ pc' = [pc EXCEPT ![p] = "idle"] /\ id' = [id EXCEPT ![p] = None]
              /\ digest' = [digest EXCEPT ![p] = None] /\ tar' = [tar EXCEPT ![p] = None]
           \/ pc' = [pc EXCEPT ![p] = "unlist"] /\ UNCHANGED <<id, digest, tar>>
        /\ UNCHANGED <<part, history>>
    BY DEF Unlinks, Unlists, Done, Finished, Goto
  <1>2. /\ final' = [final EXCEPT ![id[p]] = NoFile] \/ UNCHANGED final
        /\ manifest' = [manifest EXCEPT ![id[p]] = None] \/ UNCHANGED manifest
    BY DEF Unlinks, Unlists
  <1>3. ASSUME NEW q \in Procs \ {p} PROVE fd'[q] = fd[q] \/ id[q] = id[p]
    <2>1. fd \in [Procs -> {"part", "final", "gone"}]
      BY DEF Inv, Typed, Shape
    <2>2. CASE Unlists(p)
      BY <2>1, <2>2 DEF Unlists, Done, Finished
    <2>3. CASE Unlinks(p)
      <3> DEFINE to == [part |-> "part", final |-> "gone", gone |-> "gone"]
      <3>1. fd' = Moved(id[p], to) \/ fd' = [Moved(id[p], to) EXCEPT ![p] = "gone"]
        BY <2>3 DEF Unlinks, Finished
      <3>2. fd'[q] = Moved(id[p], to)[q]
        BY <3>1 DEF Moved
      <3> QED
        BY <3>2 DEF Moved
    <2> QED
      BY <2>2, <2>3
  <1>4. Apart'
    BY <1>1 DEF Inv, Typed, Shape, Apart, StoreStages, history
  <1>5. Relied' /\ \A i \in Ids : Listed(i)'
    BY <1>0, <1>1, <1>2 DEF Inv, Typed, Shape, Relied, Listed, Whole, history
  <1>6. Sound(p)'
    <2>1. pc'[p] = "idle" \/ (pc'[p] = "unlist" /\ id'[p] = id[p])
      BY <1>1 DEF Inv, Typed, Shape
    <2> QED
      BY <1>0, <1>1, <2>1 DEF Sound, StoreSound, OtherSound, Storing, Nameless, StoreStages,
                              RestoreStages, ForgetStages, history
  <1>7. ASSUME NEW q \in Procs \ {p}, id'[q] \notin crossed' PROVE Sound(q)'
    <2>1. pc'[q] = pc[q] /\ id'[q] = id[q] /\ digest'[q] = digest[q] /\ tar'[q] = tar[q]
      BY <1>1 DEF Inv, Typed, Shape
    <2>2. UNCHANGED <<part, forgotten, crossed>>
      BY <1>1 DEF history
    <2>3. Sound(q)
      BY <1>7, <2>1, <2>2 DEF Inv
    <2>4. CASE id[q] # id[p] \/ pc[q] = "idle"
      <3>1. pc[q] # "idle" => /\ final'[id[q]] = final[id[q]] /\ manifest'[id[q]] = manifest[id[q]]
                              /\ fd'[q] = fd[q]
        BY <1>2, <1>3, <2>4 DEF Inv, Typed, Shape
      <3>2. pc[q] \in StoreStages => pc[q] # "idle"
        BY DEF StoreStages
      <3> QED
        BY <2>1, <2>2, <2>3, <3>1, <3>2, StaysSound
    <2>5. CASE id[q] = id[p] /\ pc[q] # "idle"
      <3>1. pc[q] \notin Storing
        BY <1>0, <2>3, <2>5 DEF Sound, StoreSound
      <3>2. StoreSound(q)'
        BY <2>1, <3>1 DEF StoreSound, Storing, Nameless, StoreStages
      <3>3. final'[id[q]] = NoFile \/ final'[id[q]] = final[id[q]]
        BY <1>0, <1>2, <2>5 DEF Inv, Typed, Shape
      <3>4. OtherSound(q)'
        BY <1>0, <2>1, <2>2, <2>3, <2>5, <3>3 DEF Sound, OtherSound, OnceListed
      <3> QED
        BY <3>2, <3>4 DEF Sound
    <2> QED
      BY <2>4, <2>5
  <1> QED
    BY <1>4, <1>5, <1>6, <1>7 DEF Inv
-----------------------------------------------------------------------------
(* What is done to an entry that two stores were at.                       *)

\* What a process that has begun reaches: the files and the manifest of its
\* entry, the descriptors on them, and itself.
Reaches(p) ==
    /\ \A q \in Procs \ {p} :
           /\ pc'[q] = pc[q] /\ id'[q] = id[q]
           /\ digest'[q] = digest[q] /\ tar'[q] = tar[q]
           /\ id[q] # id[p] => fd'[q] = fd[q]
    /\ \A i \in Ids \ {id[p]} :
           part'[i] = part[i] /\ final'[i] = final[i] /\ manifest'[i] = manifest[i]
    /\ pc'[p] = "idle" \/ id'[p] = id[p]
    /\ relied' \subseteq relied \union {id[p]}
    /\ UNCHANGED <<forgotten, crossed, outage>>

LEMMA ReachesItsOwn ==
    ASSUME Typed, NEW p \in Procs, Continues(p) \/ Killed(p)
    PROVE  Reaches(p)
  <1>0. /\ pc \in [Procs -> Stages] /\ id \in [Procs -> Ids \union {None}]
        /\ fd \in [Procs -> {"part", "final", "gone"}]
        /\ digest \in [Procs -> Archived \union {None}]
        /\ tar \in [Procs -> Archived \union {None}]
        /\ part \in [Ids -> Temporary \union {NoFile}]
        /\ final \in [Ids -> File \union {NoFile}]
        /\ manifest \in [Ids -> Recorded \union {None}]
    BY DEF Typed, Shape
  <1>1. CASE CreatesPart(p) \/ Renames(p) \/ Lists(p)
    BY <1>0, <1>1 DEF CreatesPart, Renames, Lists, Reaches, Goto, Moved, process, history
  <1>2. CASE Dumps(p) \/ Syncs(p)
    BY <1>0, <1>2 DEF Dumps, Syncs, Writes, Reaches, Goto, process, history
  <1>3. CASE Digests(p) \/ Counts(p) \/ Verifies(p) \/ Checks(p) \/ Reads(p)
    BY <1>0, <1>3 DEF Digests, Counts, Verifies, Checks, Reads, Reaches, Goto, process, history,
                      directory
  <1>4. CASE FindsNoVolume(p) \/ CreatesVolume(p)
    BY <1>0, <1>4 DEF FindsNoVolume, CreatesVolume, Reaches, Goto, process, history, directory
  <1>5. CASE \/ StoreFails(p) \/ LeavesVolume(p) \/ RemovesVolume(p) \/ RestoreFails(p)
             \/ Killed(p) \/ Uploads(p)
    <2>1. /\ Done(p) /\ UNCHANGED <<directory, forgotten, crossed, outage>>
          /\ relied' \subseteq relied \union {id[p]}
      BY <1>5 DEF StoreFails, LeavesVolume, RemovesVolume, RestoreFails, Killed, Uploads, history
    <2> QED
      BY <1>0, <2>1 DEF Done, Finished, Reaches, directory
  <1>6. CASE StoreCleansUp(p) \/ Unlinks(p) \/ Unlists(p)
    BY <1>0, <1>6 DEF StoreCleansUp, Unlinks, Unlists, Done, Finished, Moved, Reaches, Goto,
                      history
  <1> QED
    BY <1>1, <1>2, <1>3, <1>4, <1>5, <1>6 DEF Continues

\* So what holds of the other entries goes on holding.
LEMMA CrossedStep ==
    ASSUME Inv, Typed', NEW p \in Procs, id[p] \in crossed, Continues(p) \/ Killed(p)
    PROVE  Inv'
  <1>1. Reaches(p) /\ id[p] \in Ids
    BY ReachesItsOwn DEF Inv, Typed, Shape
  <1>2. "idle" \notin StoreStages
    BY DEF StoreStages
  <1>3. Apart'
    <2> SUFFICES ASSUME NEW q \in Procs, NEW r \in Procs, q # r,
                        pc'[q] \in StoreStages, pc'[r] \in StoreStages, id'[q] = id'[r]
                 PROVE  id'[q] \in crossed'
      BY DEF Apart
    <2>1. CASE q = p \/ r = p
      BY <1>1, <1>2, <2>1 DEF Reaches
    <2>2. CASE q # p /\ r # p
      BY <1>1, <2>2 DEF Reaches, Inv, Apart
    <2> QED
      BY <2>1, <2>2
  <1>4. Relied'
    BY <1>1 DEF Reaches, Inv, Typed, Shape, Relied
  <1>5. ASSUME NEW i \in Ids PROVE Listed(i)'
    BY <1>1 DEF Reaches, Inv, Listed, Whole
  <1>6. ASSUME NEW q \in Procs, id'[q] \notin crossed' PROVE Sound(q)'
    <2>1. CASE q = p
      <3>1. pc'[p] = "idle"
        BY <1>1, <1>6, <2>1 DEF Reaches
      <3> QED
        BY <2>1, <3>1, IdleIsSound
    <2>2. CASE q # p
      <3>1. Sound(q) /\ id[q] # id[p]
        BY <1>1, <1>6, <2>2 DEF Reaches, Inv
      <3>2. pc[q] # "idle" => id[q] \in Ids
        BY DEF Inv, Typed
      <3> QED
        BY <1>1, <1>2, <2>2, <3>1, <3>2, StaysSound DEF Reaches
    <2> QED
      BY <2>1, <2>2
  <1> QED
    BY <1>3, <1>4, <1>5, <1>6 DEF Inv
-----------------------------------------------------------------------------
(* What happens around the entries.                                        *)

LEMMA SettlesStep == ASSUME Inv, Typed', Settles PROVE Inv'
  <1>1. UNCHANGED <<part, final, manifest, pc, id, fd, digest, tar, relied, forgotten, crossed,
                    outage>>
    BY DEF Settles, process, history
  <1> QED
    BY <1>1 DEF Inv, Apart, Relied, Listed, Whole, Sound, StoreSound, OtherSound, OnceListed

\* What a listed entry needs is synced, so that an outage takes at most its
\* name away.
LEMMA PowerFailsStep == ASSUME Inv, Typed', PowerFails PROVE Inv'
  <1> DEFINE Left(file) == IF file = NoFile \/ file.synced THEN file
                           ELSE [holds |-> Partial, synced |-> TRUE]
  <1>1. PICK unlisted \in SUBSET (Ids \ settled), unnamed \in SUBSET (Ids \ settled) :
            /\ unnamed \subseteq unlisted
            /\ manifest' = [i \in Ids |-> IF i \in unlisted THEN None ELSE manifest[i]]
            /\ final' = [i \in Ids |-> IF i \in unnamed THEN NoFile ELSE Left(final[i])]
    BY DEF PowerFails
  <1>2. /\ outage' = TRUE /\ pc' = [p \in Procs |-> "idle"]
        /\ UNCHANGED <<relied, forgotten, crossed>>
    BY DEF PowerFails
  <1>3. Apart' /\ Relied'
    BY <1>2 DEF Apart, Relied, StoreStages
  <1>4. ASSUME NEW i \in Ids PROVE Listed(i)'
    <2> SUFFICES ASSUME manifest'[i] # None, i \notin forgotten' \union crossed'
                 PROVE  Whole(i)' /\ final'[i].synced
      BY DEF Listed
    <2>1. i \notin unlisted /\ manifest'[i] = manifest[i] /\ manifest[i] # None
      BY <1>1
    <2>2. Whole(i) /\ final[i].synced
      BY <1>2, <2>1 DEF Inv, Listed
    <2>3. final'[i] = final[i]
      BY <1>1, <2>1, <2>2
    <2> QED
      BY <2>1, <2>2, <2>3 DEF Whole
  <1>5. \A p \in Procs : Sound(p)'
    BY <1>2, IdleIsSound
  <1> QED
    BY <1>3, <1>4, <1>5 DEF Inv

\* An archive that decays is listed, so it is in nobody's store, and in no
\* restore between the check and the read.
LEMMA RotsStep == ASSUME Inv, Typed', NEW i \in Ids, Rots(i) PROVE Inv'
  <1>1. /\ manifest[i] # None /\ final[i] # NoFile
        /\ \A p \in Procs : ~(pc[p] = "read" /\ id[p] = i)
        /\ final' = [final EXCEPT ![i].holds = Rotten]
        /\ UNCHANGED <<part, manifest, pc, id, fd, digest, tar, relied, forgotten, crossed, outage>>
    BY DEF Rots, process, history
  <1>2. final[i] \in File
    BY <1>1 DEF Inv, Typed, Shape
  <1> DEFINE file == [final[i] EXCEPT !.holds = Rotten]
  <1>3. file # NoFile /\ file.holds = Rotten /\ file.synced = final[i].synced
    <2>1. file \in File /\ file.holds = Rotten /\ file.synced = final[i].synced
      BY <1>2 DEF File
    <2> QED
      BY <2>1, VaultAssumption
  <1>4. final' = [final EXCEPT ![i] = file]
    BY <1>1 DEF Inv, Typed, Shape
  <1> HIDE DEF file
  <1>5. Apart' /\ Relied'
    BY <1>1 DEF Inv, Apart, Relied
  <1>6. ASSUME NEW j \in Ids PROVE Listed(j)'
    <2>1. CASE j = i
      BY <1>1, <1>3, <1>4, <2>1 DEF Inv, Typed, Shape, Listed, Whole
    <2>2. CASE j # i
      BY <1>1, <1>4, <2>2 DEF Inv, Typed, Shape, Listed, Whole
    <2> QED
      BY <2>1, <2>2
  <1>7. ASSUME NEW q \in Procs, id'[q] \notin crossed' PROVE Sound(q)'
    <2>1. Sound(q)
      BY <1>1, <1>7 DEF Inv
    <2>2. CASE id[q] # i \/ pc[q] = "idle"
      <3>1. pc[q] # "idle" => final'[id[q]] = final[id[q]]
        BY <1>1, <1>4, <2>2 DEF Inv, Typed, Shape
      <3> QED
        BY <1>1, <2>1, <3>1, StaysSound
    <2>3. CASE id[q] = i
      <3>1. pc[q] \notin Storing /\ pc[q] # "read"
        BY <1>1, <2>1, <2>3 DEF Sound, StoreSound
      <3>2. StoreSound(q)'
        BY <1>1, <3>1 DEF StoreSound, Storing, Nameless, StoreStages
      <3>3. OtherSound(q)'
        BY <1>1, <2>1, <3>1 DEF Sound, OtherSound, OnceListed
      <3> QED
        BY <3>2, <3>3 DEF Sound
    <2> QED
      BY <2>2, <2>3
  <1> QED
    BY <1>5, <1>6, <1>7 DEF Inv

\* Nothing the invariant says is about what a volume holds.
LEMMA OthersUseStep == ASSUME Inv, Typed', NEW v \in Vols, OthersUse(v) PROVE Inv'
  <1>1. UNCHANGED <<part, final, manifest, pc, id, fd, digest, tar, relied, forgotten, crossed,
                    outage>>
    BY DEF OthersUse, directory, process, history
  <1> QED
    BY <1>1 DEF Inv, Apart, Relied, Listed, Whole, Sound, StoreSound, OtherSound, OnceListed
-----------------------------------------------------------------------------
(* The invariant, and what it says.                                        *)

LEMMA InvStep == ASSUME Inv, ShapeInv, ShapeInv', [Next]_vars PROVE Inv'
  <1>0. Typed'
    <2>1. ShapeInv'
      OBVIOUS
    <2> QED
      BY <2>1 DEF ShapeInv, Shape, InHand, Typed
  <1>1. CASE UNCHANGED vars
    <2>1. UNCHANGED <<part, final, manifest, pc, id, fd, digest, tar, relied, forgotten, crossed,
                      outage>>
      BY <1>1 DEF vars, directory, process, history
    <2> QED
      BY <1>0, <2>1 DEF Inv, Apart, Relied, Listed, Whole, Sound, StoreSound, OtherSound,
                        OnceListed
  <1>2. ASSUME NEW p \in Procs, Begins(p) PROVE Inv'
    BY <1>0, <1>2, StoreBeginsStep, RestoreStep, ForgetBeginsStep DEF Begins
  <1>3. ASSUME NEW p \in Procs, Continues(p), id[p] \notin crossed PROVE Inv'
    BY <1>0, <1>3, CreatesPartStep, WritesStep, StoreLooks, RenamesStep, ListsStep,
       StoreCleansUpStep, RemovesVolumeStep, EndsStep, RestoreStep, ForgetStep DEF Continues
  <1>4. ASSUME NEW p \in Procs, Continues(p), id[p] \in crossed PROVE Inv'
    BY <1>0, <1>4, CrossedStep
  <1>5. ASSUME NEW p \in Procs, Killed(p) PROVE Inv'
    BY <1>0, <1>5, EndsStep
  <1> QED
    BY <1>0, <1>1, <1>2, <1>3, <1>4, <1>5, SettlesStep, PowerFailsStep, RotsStep, OthersUseStep
       DEF Next

LEMMA Invariant == Spec => [](Inv /\ ShapeInv)
  <1>1. Init => Inv /\ ShapeInv
    BY InvInit, ShapeInit
  <1>2. Inv /\ ShapeInv /\ [Next]_vars => Inv' /\ ShapeInv'
    BY InvStep, ShapeStep
  <1> QED
    BY <1>1, <1>2, PTL DEF Spec

\* Whatever is killed, and even after an outage, no manifest Vault::list shows
\* is of half an archive, and what it shows can be restored, unless its archive
\* decayed, the user asked to forget it, or two stores were at it together.
THEOREM ListedStaysWhole == Spec => []ListedIsWhole
  <1>1. Inv => ListedIsWhole
    <2> SUFFICES ASSUME Inv, NEW i \in Ids
                 PROVE  /\ manifest[i] # Partial
                        /\ manifest[i] # None /\ i \notin forgotten \union crossed => Whole(i)
      BY DEF ListedIsWhole
    <2>1. manifest[i] \in Recorded \union {None} /\ Partial \in Archived
      BY DEF Inv, Typed, Shape, Archived
    <2> QED
      BY <2>1, VaultAssumption DEF Inv, Listed, Recorded
  <1> QED
    BY <1>1, Invariant, PTL

\* The entry Vault::store returned, on which a volume was removed, is kept as
\* long as the power is, unless another store was at it.
THEOREM ReliedEndures == Spec => []ReliedCopiesEndure
  <1>1. Inv => ReliedCopiesEndure
    BY DEF Inv, Typed, Shape, Relied, Listed, ReliedCopiesEndure
  <1> QED
    BY <1>1, Invariant, PTL

\* Vault::restore never unpacks half an archive or a decayed one, and unpacks
\* what the manifest promised unless two stores were at the entry together.
THEOREM RestoresAreExact == Spec => []RestoreIsExact
  <1>1. Inv /\ ShapeInv => RestoreIsExact
    <2> SUFFICES ASSUME Inv, ShapeInv, NEW p \in Procs, pc[p] \in {"list", "volume", "upload"}
                 PROVE  /\ tar[p] \notin {Partial, Rotten}
                        /\ id[p] \notin crossed => tar[p] = digest[p]
      BY DEF RestoreIsExact
    <2>1. tar[p] \in Recorded
      BY DEF ShapeInv, InHand
    <2> QED
      BY <2>1, VaultAssumption DEF Inv, Sound, OtherSound, Recorded
  <1> QED
    BY <1>1, Invariant, PTL
=============================================================================
