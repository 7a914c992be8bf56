--------------------------- MODULE CommandsProofs ---------------------------
(***************************************************************************)
(* What the command line promises, proved for any number of processes,     *)
(* contexts, engines, selectors and releases.                              *)
(***************************************************************************)
EXTENDS Commands, TLAPS

Steps == RunSteps \union Changing \union
             {"out", "locating", "fetching", "installing", "writing", "syncing", "testing",
              "renaming"}

\* The steps at which an update has a file of its own on the disk.
Staging == {"writing", "syncing", "testing", "renaming"}

-----------------------------------------------------------------------------
(* The executable.                                                         *)

ShapeInv ==
    /\ at \in [Procs -> Steps]
    /\ feed \in Versions
    /\ manifest \in [Procs -> Versions]
    /\ staged \in [Procs -> Versions \union {Broken, None}]
    /\ synced \in [Procs -> BOOLEAN]

\* What an update knows of its staged file at each step: that it may replace
\* the executable at all, that the file is the release of the manifest, that
\* its bytes are on the disk, and that it says which release it is.
StagedWell(p) ==
    /\ at[p] \in Staging => origin = "standalone"
    /\ at[p] \in Staging \ {"writing"} => staged[p] = manifest[p]
    /\ at[p] \in {"testing", "renaming"} => synced[p] = TRUE
    /\ at[p] = "renaming" => Says[manifest[p]] = manifest[p]

UpdateInv ==
    /\ ShapeInv
    /\ durable = TRUE
    /\ \A p \in Procs : StagedWell(p)
    /\ ExecutableIsWhole

LEMMA OneIsRelease == 1 \in Versions /\ Broken \notin Versions
  BY UpdateAssumption DEF Versions

LEMMA UpdateInvInit == Init => UpdateInv
  <1> SUFFICES ASSUME Init PROVE UpdateInv
    OBVIOUS
  <1>1. ShapeInv
    BY OneIsRelease DEF Init, UpdateInit, ShapeInv, Steps
  <1>2. \A p \in Procs : StagedWell(p)
    BY DEF Init, StagedWell, Staging
  <1>3. ExecutableIsWhole /\ durable = TRUE
    BY OneIsRelease DEF Init, UpdateInit, ExecutableIsWhole
  <1> QED
    BY <1>1, <1>2, <1>3 DEF UpdateInv

\* A process that is not updating when the step ends, and whose step leaves
\* the executable alone, can disturb nothing: what it has staged is its own.
LEMMA Elsewhere ==
    ASSUME UpdateInv, NEW p \in Procs,
           feed' \in Versions,
           at' \in [Procs -> Steps], at'[p] \notin Staging,
           manifest' \in [Procs -> Versions],
           staged' \in [Procs -> Versions \union {Broken, None}],
           synced' \in [Procs -> BOOLEAN],
           \A q \in Procs \ {p} : /\ at'[q] = at[q] /\ manifest'[q] = manifest[q]
                                  /\ staged'[q] = staged[q] /\ synced'[q] = synced[q],
           UNCHANGED disk
    PROVE  UpdateInv'
  <1>1. \A q \in Procs : StagedWell(q)'
    <2> SUFFICES ASSUME NEW q \in Procs PROVE StagedWell(q)'
      OBVIOUS
    <2>1. CASE q = p
      BY <2>1 DEF StagedWell, Staging
    <2>2. CASE q # p
      BY <2>2 DEF UpdateInv, StagedWell, disk
    <2> QED
      BY <2>1, <2>2
  <1> QED
    BY <1>1 DEF UpdateInv, ShapeInv, ExecutableIsWhole, disk

\* The commonest case: the process goes somewhere, or stays where it is.
LEMMA Moves ==
    ASSUME UpdateInv, NEW p \in Procs, NEW w \in Steps \ Staging,
           at' = [at EXCEPT ![p] = w] \/ (at' = at /\ at[p] \notin Staging),
           UNCHANGED <<feed, disk, install>>
    PROVE  UpdateInv'
  <1>1. at' \in [Procs -> Steps] /\ at'[p] \notin Staging
    BY DEF UpdateInv, ShapeInv
  <1>2. \A q \in Procs \ {p} : at'[q] = at[q]
    BY DEF UpdateInv, ShapeInv
  <1> QED
    BY <1>1, <1>2, Elsewhere DEF UpdateInv, ShapeInv, install

\* Nothing of an update changes.
LEMMA UpdateStutter ==
    ASSUME UpdateInv, UNCHANGED <<at, disk, install>>, feed' \in Versions
    PROVE  UpdateInv'
  BY DEF UpdateInv, ShapeInv, StagedWell, ExecutableIsWhole, disk, install

LEMMA FreshKeeps ==
    ASSUME UpdateInv, NEW p \in Procs, NEW v, NEW again, NEW w \in Steps \ Staging,
           Fresh(p, v, again), at' = [at EXCEPT ![p] = w],
           UNCHANGED <<feed, disk>>
    PROVE  UpdateInv'
  <1>1. /\ manifest' = [manifest EXCEPT ![p] = 1]
        /\ staged' = [staged EXCEPT ![p] = None]
        /\ synced' = [synced EXCEPT ![p] = FALSE]
    BY DEF Fresh
  <1>2. /\ at' \in [Procs -> Steps] /\ at'[p] \notin Staging
        /\ manifest' \in [Procs -> Versions]
        /\ staged' \in [Procs -> Versions \union {Broken, None}]
        /\ synced' \in [Procs -> BOOLEAN] /\ feed' \in Versions
    BY <1>1, OneIsRelease DEF UpdateInv, ShapeInv
  <1>3. \A q \in Procs \ {p} : /\ at'[q] = at[q] /\ manifest'[q] = manifest[q]
                               /\ staged'[q] = staged[q] /\ synced'[q] = synced[q]
    BY <1>1 DEF UpdateInv, ShapeInv
  <1> QED
    BY <1>2, <1>3, Elsewhere

\* An update, step by step.
LEMMA UpdateStepKeeps ==
    ASSUME UpdateInv, NEW p \in Procs, UpdateStep(p)
    PROVE  UpdateInv'
  <1> USE DEF UpdateInv, ShapeInv
  <1>0. CASE LocateExe(p)
    <2>1. PICK w \in {"out", "fetching"} : at' = [at EXCEPT ![p] = w]
      BY <1>0 DEF LocateExe, Exits, Goes
    <2>2. at' \in [Procs -> Steps] /\ at'[p] \notin Staging
      BY <2>1 DEF Steps, Staging
    <2>3. UNCHANGED <<feed, disk, manifest, staged, synced>>
      BY <1>0 DEF LocateExe
    <2> QED
      BY <2>1, <2>2, <2>3, Elsewhere
  <1>1. CASE FetchManifest(p)
    <2>1. PICK w \in Steps \ Staging : at' = [at EXCEPT ![p] = w]
      BY <1>1 DEF FetchManifest, Exits, Goes, Concludes, Steps, Staging, RunSteps
    <2>2. manifest' \in [Procs -> Versions] /\ \A q \in Procs \ {p} : manifest'[q] = manifest[q]
      BY <1>1 DEF FetchManifest
    <2> QED
      BY <1>1, <2>1, <2>2, Elsewhere DEF FetchManifest
  <1>2. CASE OnlyChecks(p)
    BY <1>2, Moves DEF OnlyChecks, Exits, update, Steps, Staging
  <1>3. CASE InstallFails(p)
    <2>1. at' = [at EXCEPT ![p] = "out"] /\ staged' = [staged EXCEPT ![p] = None]
      BY <1>3 DEF InstallFails, Abandon, Exits
    <2>2. at' \in [Procs -> Steps] /\ at'[p] \notin Staging
      BY <2>1 DEF Steps, Staging
    <2>3. staged' \in [Procs -> Versions \union {Broken, None}]
      BY <2>1
    <2> QED
      BY <1>3, <2>1, <2>2, <2>3, Elsewhere DEF InstallFails, Abandon
  <1>4. CASE Download(p)
    <2>1. /\ at' = [at EXCEPT ![p] = "writing"] /\ origin = "standalone"
          /\ staged' = [staged EXCEPT ![p] = Broken]
          /\ synced' = [synced EXCEPT ![p] = FALSE]
          /\ UNCHANGED <<feed, disk, manifest>>
      BY <1>4 DEF Download, Goes
    <2>2. \A q \in Procs : StagedWell(q)'
      BY <2>1 DEF StagedWell, Staging, disk
    <2>3. ShapeInv'
      BY <2>1 DEF Steps
    <2> QED
      BY <2>1, <2>2, <2>3 DEF ExecutableIsWhole, disk
  <1>5. CASE WriteStaged(p)
    <2>1. /\ at[p] = "writing" /\ at' = [at EXCEPT ![p] = "syncing"]
          /\ staged' = [staged EXCEPT ![p] = manifest[p]]
          /\ UNCHANGED <<feed, disk, manifest, synced>>
      BY <1>5 DEF WriteStaged, Goes
    <2>2. \A q \in Procs : StagedWell(q)'
      BY <2>1 DEF StagedWell, Staging, disk
    <2>3. ShapeInv'
      BY <2>1 DEF Steps
    <2> QED
      BY <2>1, <2>2, <2>3 DEF ExecutableIsWhole, disk
  <1>6. CASE Sync(p)
    <2>1. /\ at[p] = "syncing" /\ at' = [at EXCEPT ![p] = "testing"]
          /\ synced' = [synced EXCEPT ![p] = TRUE]
          /\ UNCHANGED <<feed, disk, manifest, staged>>
      BY <1>6 DEF Sync, Goes
    <2>2. \A q \in Procs : StagedWell(q)'
      BY <2>1 DEF StagedWell, Staging, disk
    <2>3. ShapeInv'
      BY <2>1 DEF Steps
    <2> QED
      BY <2>1, <2>2, <2>3 DEF ExecutableIsWhole, disk
  <1>7. CASE TestStaged(p)
    <2>1. /\ at[p] = "testing" /\ at' = [at EXCEPT ![p] = "renaming"]
          /\ Says[manifest[p]] = manifest[p]
          /\ UNCHANGED <<feed, disk, manifest, staged, synced>>
      BY <1>7 DEF TestStaged, Goes, update, install
    <2>2. \A q \in Procs : StagedWell(q)'
      BY <2>1 DEF StagedWell, Staging, disk
    <2>3. ShapeInv'
      BY <2>1 DEF Steps
    <2> QED
      BY <2>1, <2>2, <2>3 DEF ExecutableIsWhole, disk
  <1>8. CASE Rename(p)
    <2>1. /\ at[p] = "renaming" /\ UNCHANGED <<feed, origin, manifest, synced>>
          /\ staged' = [staged EXCEPT ![p] = None]
      BY <1>8 DEF Rename
    <2>2. PICK w \in Steps \ Staging : at' = [at EXCEPT ![p] = w]
      BY <1>8 DEF Rename, Concludes, Goes, Exits, Steps, Staging, RunSteps
    <2>3. /\ origin = "standalone" /\ staged[p] = manifest[p] /\ synced[p] = TRUE
          /\ Says[manifest[p]] = manifest[p]
      BY <2>1 DEF StagedWell, Staging
    <2>4. durable' = TRUE /\ (exe' = exe \/ exe' = manifest[p])
      BY <1>8, <2>3 DEF Rename
    <2>5. ExecutableIsWhole'
      BY <2>1, <2>3, <2>4, OneIsRelease DEF ExecutableIsWhole
    <2>6. \A q \in Procs : StagedWell(q)'
      BY <2>1, <2>2 DEF StagedWell, Staging
    <2> QED
      BY <2>1, <2>2, <2>4, <2>5, <2>6
  <1> QED
    BY <1>0, <1>1, <1>2, <1>3, <1>4, <1>5, <1>6, <1>7, <1>8 DEF UpdateStep

LEMMA WaiverStepKeepsExe ==
    ASSUME UpdateInv, NEW p \in Procs, WaiverStep(p), UNCHANGED update
    PROVE  UpdateInv'
  <1>1. PICK w \in Steps \ Staging : at' = [at EXCEPT ![p] = w]
    BY DEF WaiverStep, Refuse, NotThere, Truncate, Add, Remove, Write, WriteFails,
           Goes, Exits, Steps, Staging, Changing
  <1> QED
    BY <1>1, Moves DEF update

LEMMA RunKeepsExe ==
    ASSUME UpdateInv, NEW p \in Procs, Run(p)
    PROVE  UpdateInv'
  <1>1. CASE Restart(p)
    <2>1. CASE Successor(p) \in Versions
      BY <1>1, <2>1, FreshKeeps DEF Restart, Goes, Steps, Staging, RunSteps
    <2>2. CASE Successor(p) \notin Versions
      BY <1>1, <2>2, Moves DEF Restart, Exits, Steps, Staging
    <2> QED
      BY <2>1, <2>2
  <1>2. CASE ~Restart(p)
    <2>1. UNCHANGED <<feed, disk, install>>
      BY <1>2 DEF Run, StartRun, AwaitNotice, Accept, Decline, NotReached, Reach, Scan,
                  Plan, NoVault, Execute, Finish, update
    <2>2. (\E w \in Steps \ Staging : at' = [at EXCEPT ![p] = w])
             \/ (at' = at /\ at[p] \notin Staging)
      BY <1>2 DEF Run, StartRun, AwaitNotice, Accept, Decline, NotReached, Reach, Scan,
                  Plan, NoVault, Execute, Finish, RunGoes, Goes, Exits, Steps, Staging,
                  RunSteps
    <2> QED
      BY <2>1, <2>2, Moves DEF Steps, Staging
  <1> QED
    BY <1>1, <1>2

LEMMA UpdateInvStep == UpdateInv /\ [Next]_vars => UpdateInv'
  <1> SUFFICES ASSUME UpdateInv, [Next]_vars PROVE UpdateInv'
    OBVIOUS
  <1>1. ASSUME NEW p \in Procs, Begin(p) PROVE UpdateInv'
    <2>1. PICK w \in Steps \ Staging : at' = [at EXCEPT ![p] = w]
      BY <1>1 DEF Begin, Steps, Staging, RunSteps, Changing
    <2> QED
      BY <1>1, <2>1, FreshKeeps DEF Begin
  <1>2. ASSUME NEW p \in Procs, Interrupt(p) PROVE UpdateInv'
    BY <1>2, UpdateStutter DEF Interrupt, update, UpdateInv, ShapeInv
  <1>3. ASSUME NEW p \in Procs, Kill(p) PROVE UpdateInv'
    BY <1>3, Moves DEF Kill, Exits, update, Steps, Staging
  <1>4. ASSUME NEW p \in Procs, Run(p) PROVE UpdateInv'
    BY <1>4, RunKeepsExe
  <1>5. ASSUME NEW p \in Procs, WaiverStep(p), UNCHANGED update PROVE UpdateInv'
    BY <1>5, WaiverStepKeepsExe
  <1>6. ASSUME NEW p \in Procs, UpdateStep(p) PROVE UpdateInv'
    BY <1>6, UpdateStepKeeps
  <1>7. ASSUME NEW p \in Procs, Check(p), UNCHANGED at PROVE UpdateInv'
    BY <1>7, UpdateStutter DEF Check, UpdateInv, ShapeInv
  <1>8. CASE Outage
    <2>1. /\ at' = [p \in Procs |-> "out"] /\ durable' = TRUE
          /\ UNCHANGED <<feed, dead, origin, install, exe>>
      BY <1>8 DEF Outage, UpdateInv
    <2>2. \A q \in Procs : StagedWell(q)'
      BY <2>1 DEF StagedWell, Staging
    <2> QED
      BY <2>1, <2>2 DEF UpdateInv, ShapeInv, ExecutableIsWhole, Steps, install
  <1>9. CASE (Publish \/ Expire) /\ UNCHANGED at
    <2>1. feed' \in Versions
      BY <1>9, UpdateAssumption DEF Publish, Expire, Versions, UpdateInv, ShapeInv
    <2> QED
      BY <1>9, <2>1, UpdateStutter DEF Publish, Expire
  <1>10. CASE UNCHANGED vars
    BY <1>10, UpdateStutter DEF vars, update, UpdateInv, ShapeInv
  <1> QED
    BY <1>1, <1>2, <1>3, <1>4, <1>5, <1>6, <1>7, <1>8, <1>9, <1>10 DEF Next

\* Whoever installs, is killed or loses power, and however often: what sits
\* at the executable's path runs and is the release it says it is, and a copy
\* others manage is never replaced (update/install.rs:130).
THEOREM ExecutableStaysWhole == Spec => []ExecutableIsWhole
  <1>1. UpdateInv => ExecutableIsWhole
    BY DEF UpdateInv
  <1> QED
    BY UpdateInvInit, UpdateInvStep, <1>1, PTL DEF Spec
-----------------------------------------------------------------------------
(* The waivers.                                                            *)

WaiverShape ==
    /\ at \in [Procs -> Steps]
    /\ file \in (SUBSET Selectors) \union {Torn}
    /\ mem \in [Procs -> SUBSET Selectors]
    /\ wanted \in [Procs -> Selectors]
    /\ inForce \in SUBSET Selectors
    /\ disturbed \in BOOLEAN
    /\ plan \in [Procs -> SUBSET Items]
    /\ owed \in [Procs -> SUBSET Selectors]
    /\ taken \in [Procs -> SUBSET Items]

\* Until something overlaps or tears: one process at most is at the file, and
\* what it will write back holds everything in force; so does the file.
OneChanges == \A p, q \in Procs : at[p] \in Changing /\ at[q] \in Changing => p = q

FileHolds ==
    /\ file # Torn => inForce \subseteq file
    /\ \A p \in Procs : Truncated(p) => file = Torn

MemoryHolds(p) ==
    /\ at[p] \in {"waiving", "unwaiving"} => inForce \subseteq mem[p]
    /\ at[p] = "truncated waive" => inForce \union {wanted[p]} \subseteq mem[p]
    /\ at[p] = "truncated unwaive" => inForce \ {wanted[p]} \subseteq mem[p]

\* What a run plans, and then takes, is nothing it owes to a waiver.
Spares(p) ==
    \A s \in owed[p] : plan[p] \intersect Covers[s] = {} /\ taken[p] \intersect Covers[s] = {}

WaiverInv ==
    /\ WaiverShape
    /\ disturbed \/ (OneChanges /\ FileHolds /\ \A p \in Procs : MemoryHolds(p) /\ Spares(p))

LEMMA WaiverInvInit == Init => WaiverInv
  <1> SUFFICES ASSUME Init PROVE WaiverInv
    OBVIOUS
  <1>1. (CHOOSE s \in Selectors : TRUE) \in Selectors
    BY WaiversAssumption
  <1>2. WaiverShape
    BY <1>1 DEF Init, WaiverInit, WaiverShape, Steps
  <1>3. \A p \in Procs : at[p] = "out"
    BY DEF Init
  <1>4. OneChanges /\ FileHolds /\ \A p \in Procs : MemoryHolds(p) /\ Spares(p)
    BY <1>3 DEF Init, WaiverInit, OneChanges, FileHolds, MemoryHolds, Spares, Changing,
                Truncated
  <1> QED
    BY <1>2, <1>4 DEF WaiverInv

\* A process that is not at the file when the step ends.
LEMMA LeavesFile ==
    ASSUME WaiverInv, NEW p \in Procs, NEW w \in Steps \ Changing,
           at' = [at EXCEPT ![p] = w] \/ at' = at,
           UNCHANGED waivers,
           WaiverShape', \A q \in Procs : Spares(q) => Spares(q)'
    PROVE  WaiverInv'
  <1> SUFFICES ASSUME ~disturbed
               PROVE  OneChanges' /\ FileHolds' /\ \A q \in Procs : MemoryHolds(q)' /\ Spares(q)'
    BY DEF WaiverInv, waivers
  <1>1. \A q \in Procs : at'[q] = at[q] \/ at'[q] \notin Changing
    BY DEF WaiverInv, WaiverShape
  <1>2. OneChanges'
    BY <1>1 DEF WaiverInv, OneChanges
  <1>3. FileHolds'
    BY <1>1 DEF WaiverInv, FileHolds, waivers, Truncated, Changing
  <1>4. \A q \in Procs : MemoryHolds(q)'
    BY <1>1 DEF WaiverInv, MemoryHolds, waivers, Changing
  <1>5. \A q \in Procs : Spares(q)'
    BY DEF WaiverInv
  <1> QED
    BY <1>2, <1>3, <1>4, <1>5

\* Of these, the steps that leave the plan alone too.
LEMMA FarFromFile ==
    ASSUME WaiverInv, NEW p \in Procs, NEW w \in Steps \ Changing,
           at' = [at EXCEPT ![p] = w] \/ at' = at,
           UNCHANGED <<waivers, plan, owed, taken>>
    PROVE  WaiverInv'
  <1>1. WaiverShape'
    BY DEF WaiverInv, WaiverShape, waivers
  <1>2. \A q \in Procs : Spares(q) => Spares(q)'
    BY DEF Spares
  <1> QED
    BY <1>1, <1>2, LeavesFile

LEMMA FreshOwesNothing ==
    ASSUME WaiverInv, NEW p \in Procs, NEW v, NEW again, Fresh(p, v, again)
    PROVE  /\ plan' \in [Procs -> SUBSET Items]
           /\ owed' \in [Procs -> SUBSET Selectors]
           /\ taken' \in [Procs -> SUBSET Items]
           /\ \A q \in Procs : Spares(q) => Spares(q)'
  <1>1. /\ plan' = [plan EXCEPT ![p] = {}]
        /\ owed' = [owed EXCEPT ![p] = {}]
        /\ taken' = [taken EXCEPT ![p] = {}]
    BY DEF Fresh
  <1> QED
    BY <1>1 DEF WaiverInv, WaiverShape, Spares

LEMMA BeginKeepsWaivers ==
    ASSUME WaiverInv, NEW p \in Procs, Begin(p)
    PROVE  WaiverInv'
  <1>1. /\ plan' \in [Procs -> SUBSET Items]
        /\ owed' \in [Procs -> SUBSET Selectors]
        /\ taken' \in [Procs -> SUBSET Items]
        /\ \A q \in Procs : Spares(q) => Spares(q)'
    BY FreshOwesNothing DEF Begin
  <1>2. CASE /\ UNCHANGED waivers
             /\ \E w \in {"locating", "starting"} : at' = [at EXCEPT ![p] = w]
    <2>1. PICK w \in Steps \ Changing : at' = [at EXCEPT ![p] = w]
      BY <1>2 DEF Steps, Changing, RunSteps
    <2>2. WaiverShape'
      BY <1>1, <1>2, <2>1 DEF WaiverInv, WaiverShape, waivers
    <2> QED
      BY <1>1, <1>2, <2>1, <2>2, LeavesFile
  <1>3. ASSUME NEW s \in Selectors, NEW what \in {"waiving", "unwaiving"},
               OpenToChange(p, s), at' = [at EXCEPT ![p] = what]
        PROVE  WaiverInv'
    <2>1. Read(file) \in SUBSET Selectors
      BY DEF WaiverInv, WaiverShape, Read
    <2>2. WaiverShape'
      BY <1>1, <1>3, <2>1 DEF WaiverInv, WaiverShape, OpenToChange, Steps, Changing
    <2>3. SUFFICES ASSUME ~disturbed'
                   PROVE  /\ OneChanges' /\ FileHolds'
                          /\ \A q \in Procs : MemoryHolds(q)' /\ Spares(q)'
      BY <2>2 DEF WaiverInv
    <2>4. ~disturbed /\ file # Torn /\ \A q \in Procs \ {p} : at[q] \notin Changing
      BY <1>3, <2>3 DEF OpenToChange
    <2>5. mem'[p] = file /\ inForce \subseteq file
      BY <1>3, <2>4 DEF OpenToChange, Read, WaiverInv, WaiverShape, FileHolds
    <2>6. \A q \in Procs \ {p} : at'[q] \notin Changing
      BY <1>3, <2>4 DEF WaiverInv, WaiverShape
    <2>7. OneChanges'
      BY <2>6 DEF OneChanges
    <2>8. at'[p] \in {"waiving", "unwaiving"}
      BY <1>3 DEF WaiverInv, WaiverShape
    <2>9. FileHolds'
      BY <1>3, <2>5, <2>6, <2>8 DEF FileHolds, Truncated, Changing, OpenToChange
    <2>10. \A q \in Procs : MemoryHolds(q)'
      BY <1>3, <2>5, <2>6, <2>8 DEF MemoryHolds, Changing, OpenToChange
    <2> QED
      BY <1>1, <2>4, <2>7, <2>9, <2>10 DEF WaiverInv
  <1> QED
    BY <1>2, <1>3 DEF Begin

LEMMA WaiverStepKeepsWaivers ==
    ASSUME WaiverInv, NEW p \in Procs, WaiverStep(p), UNCHANGED <<plan, owed, taken>>
    PROVE  WaiverInv'
  <1>1. CASE Refuse(p) \/ NotThere(p) \/ WriteFails(p)
    <2>1. "out" \in Steps \ Changing
      BY DEF Steps, Changing
    <2> QED
      BY <1>1, <2>1, FarFromFile DEF Refuse, NotThere, WriteFails, Exits
  <1>2. CASE Truncate(p)
    <2>0. /\ at[p] \in Steps /\ mem[p] \in SUBSET Selectors /\ wanted[p] \in Selectors
          /\ file' = Torn /\ UNCHANGED <<wanted, inForce, disturbed>>
      BY <1>2 DEF Truncate, WaiverInv, WaiverShape
    <2>1. PICK w \in {"truncated waive", "truncated unwaive"}, m \in SUBSET Selectors :
            /\ at' = [at EXCEPT ![p] = w] /\ mem' = [mem EXCEPT ![p] = m]
            /\ at[p] \in {"waiving", "unwaiving"}
            /\ w = "truncated waive" => mem[p] \union {wanted[p]} \subseteq m
            /\ w = "truncated unwaive" => mem[p] \ {wanted[p]} \subseteq m
      <3>1. CASE Add(p)
        <4>1. /\ at' = [at EXCEPT ![p] = "truncated waive"] /\ at[p] = "waiving"
              /\ mem' = [mem EXCEPT ![p] = {s \in mem[p] : s # wanted[p]} \union {wanted[p]}]
          BY <3>1 DEF Add, Goes
        <4>2. {s \in mem[p] : s # wanted[p]} \union {wanted[p]} = mem[p] \union {wanted[p]}
          OBVIOUS
        <4>3. mem' = [mem EXCEPT ![p] = mem[p] \union {wanted[p]}]
          BY <4>1, <4>2
        <4>4. mem[p] \union {wanted[p]} \in SUBSET Selectors
          BY <2>0
        <4> QED
          BY <4>1, <4>3, <4>4
      <3>2. CASE Remove(p)
        <4>1. /\ at' = [at EXCEPT ![p] = "truncated unwaive"] /\ at[p] = "unwaiving"
              /\ mem' = [mem EXCEPT ![p] = mem[p] \ {wanted[p]}]
          BY <3>2 DEF Remove, Goes
        <4>2. mem[p] \ {wanted[p]} \in SUBSET Selectors
          BY <2>0
        <4> QED
          BY <4>1, <4>2
      <3> QED
        BY <1>2, <3>1, <3>2 DEF Truncate
    <2>2. /\ mem' \in [Procs -> SUBSET Selectors] /\ mem'[p] = m /\ at'[p] = w
          /\ \A q \in Procs \ {p} : mem'[q] = mem[q]
      BY <2>1 DEF WaiverInv, WaiverShape
    <2>3. WaiverShape'
      BY <2>0, <2>1, <2>2 DEF WaiverInv, WaiverShape, Steps, Changing
    <2>4. SUFFICES ASSUME ~disturbed
                   PROVE  /\ OneChanges' /\ FileHolds'
                          /\ \A q \in Procs : MemoryHolds(q)' /\ Spares(q)'
      BY <2>0, <2>3 DEF WaiverInv
    <2>5. OneChanges'
      BY <2>1, <2>2, <2>4 DEF WaiverInv, WaiverShape, OneChanges, Changing
    <2>6. FileHolds'
      BY <2>0 DEF FileHolds
    <2>7. MemoryHolds(p)'
      <3>1. inForce \subseteq mem[p]
        BY <2>1, <2>4 DEF WaiverInv, MemoryHolds
      <3> QED
        BY <2>0, <2>1, <2>2, <3>1 DEF MemoryHolds
    <2>8. \A q \in Procs \ {p} : MemoryHolds(q)'
      BY <2>0, <2>1, <2>2, <2>4 DEF WaiverInv, WaiverShape, MemoryHolds
    <2>9. \A q \in Procs : Spares(q)'
      BY <2>4 DEF WaiverInv, Spares
    <2> QED
      BY <2>5, <2>6, <2>7, <2>8, <2>9
  <1>3. CASE Write(p)
    <2>1. /\ at' = [at EXCEPT ![p] = "out"] /\ Truncated(p)
          /\ UNCHANGED <<mem, wanted, disturbed>>
          /\ file' \in {mem[p], Torn}
          /\ file = Torn => file' = mem[p]
          /\ inForce' = IF at[p] = "truncated waive" THEN inForce \union {wanted[p]}
                                                     ELSE inForce \ {wanted[p]}
      BY <1>3 DEF Write, Exits
    <2>2. WaiverShape'
      BY <2>1 DEF WaiverInv, WaiverShape, Steps
    <2>3. SUFFICES ASSUME ~disturbed
                   PROVE  /\ OneChanges' /\ FileHolds'
                          /\ \A q \in Procs : MemoryHolds(q)' /\ Spares(q)'
      BY <2>1, <2>2 DEF WaiverInv
    <2>4. \A q \in Procs : at'[q] \notin Changing
      BY <2>1, <2>3 DEF WaiverInv, WaiverShape, OneChanges, Truncated, Changing
    <2>5. file' = mem[p] /\ inForce' \subseteq mem[p]
      BY <2>1, <2>3 DEF WaiverInv, FileHolds, MemoryHolds, Truncated
    <2>6. FileHolds'
      BY <2>4, <2>5 DEF FileHolds, Truncated, Changing
    <2>7. \A q \in Procs : MemoryHolds(q)'
      BY <2>4 DEF MemoryHolds, Changing
    <2>8. \A q \in Procs : Spares(q)'
      BY <2>3 DEF WaiverInv, Spares
    <2> QED
      BY <2>4, <2>6, <2>7, <2>8 DEF OneChanges
  <1> QED
    BY <1>1, <1>2, <1>3 DEF WaiverStep

\* The plan is made of the file as it is now, which holds what is in force.
LEMMA PlanKeepsWaivers ==
    ASSUME WaiverInv, NEW p \in Procs, Plan(p)
    PROVE  WaiverInv'
  <1>1. /\ at[p] = "planning" /\ at' = [at EXCEPT ![p] = "rescanning"]
        /\ mem' = [mem EXCEPT ![p] = Read(file)]
        /\ disturbed' = (disturbed \/ file = Torn)
        /\ UNCHANGED <<file, wanted, inForce>>
        /\ plan' = [plan EXCEPT ![p] = Unwaived(p)]
        /\ owed' = [owed EXCEPT ![p] = inForce]
        /\ taken' = [taken EXCEPT ![p] = {}]
    BY DEF Plan, OpenToPlan, Goes
  <1>2. Read(file) \in SUBSET Selectors /\ Unwaived(p) \in SUBSET Items
    BY DEF WaiverInv, WaiverShape, Read, Unwaived
  <1>3. WaiverShape'
    BY <1>1, <1>2 DEF WaiverInv, WaiverShape, Steps, RunSteps
  <1>4. SUFFICES ASSUME ~disturbed'
                 PROVE  /\ OneChanges' /\ FileHolds'
                        /\ \A q \in Procs : MemoryHolds(q)' /\ Spares(q)'
    BY <1>3 DEF WaiverInv
  <1>5. ~disturbed /\ file # Torn
    BY <1>1, <1>4
  <1>6. \A q \in Procs : at'[q] = at[q] \/ at'[q] \notin Changing
    BY <1>1 DEF WaiverInv, WaiverShape, Changing
  <1>7. OneChanges'
    BY <1>5, <1>6 DEF WaiverInv, OneChanges
  <1>8. FileHolds'
    BY <1>1, <1>5, <1>6 DEF WaiverInv, FileHolds, Truncated, Changing
  <1>9. \A q \in Procs : MemoryHolds(q)'
    <2> SUFFICES ASSUME NEW q \in Procs PROVE MemoryHolds(q)'
      OBVIOUS
    <2>1. CASE q = p
      BY <1>1, <2>1 DEF MemoryHolds, WaiverInv, WaiverShape
    <2>2. CASE q # p
      BY <1>1, <1>5, <2>2 DEF MemoryHolds, WaiverInv, WaiverShape
    <2> QED
      BY <2>1, <2>2
  <1>10. \A s \in owed'[p] : plan'[p] \intersect Covers[s] = {} /\ taken'[p] = {}
    <2>1. mem'[p] = file /\ owed'[p] = inForce /\ inForce \subseteq file
      BY <1>1, <1>5 DEF Read, WaiverInv, WaiverShape, FileHolds
    <2>2. plan'[p] = Unwaived(p) /\ taken'[p] = {}
      BY <1>1 DEF WaiverInv, WaiverShape
    <2> QED
      BY <2>1, <2>2 DEF Unwaived
  <1>11. \A q \in Procs : Spares(q)'
    <2> SUFFICES ASSUME NEW q \in Procs PROVE Spares(q)'
      OBVIOUS
    <2>1. CASE q = p
      BY <1>10, <2>1 DEF Spares
    <2>2. CASE q # p
      BY <1>1, <1>5, <2>2 DEF Spares, WaiverInv, WaiverShape
    <2> QED
      BY <2>1, <2>2
  <1> QED
    BY <1>7, <1>8, <1>9, <1>11

LEMMA RunKeepsWaivers ==
    ASSUME WaiverInv, NEW p \in Procs, Run(p)
    PROVE  WaiverInv'
  <1>1. CASE Plan(p)
    BY <1>1, PlanKeepsWaivers
  <1>2. CASE Execute(p)
    <2>1. PICK o \in Outcomes(p) :
            /\ taken' = [taken EXCEPT ![p] = IF apply[p] THEN Had(o, "removed") ELSE {}]
            /\ at' = [at EXCEPT ![p] = "out"] \/ at' = [at EXCEPT ![p] = "choosing"]
      BY <1>2 DEF Execute, Exits, Goes
    <2>2. Had(o, "removed") \subseteq plan[p]
      BY DEF Outcomes, Had
    <2>3. UNCHANGED <<waivers, plan, owed>>
      BY <1>2 DEF Execute
    <2>4. PICK w \in Steps \ Changing : at' = [at EXCEPT ![p] = w]
      BY <2>1 DEF Steps, Changing, RunSteps
    <2>5. WaiverShape'
      BY <2>1, <2>2, <2>3, <2>4 DEF WaiverInv, WaiverShape, waivers
    <2>6. \A q \in Procs : Spares(q) => Spares(q)'
      BY <2>1, <2>2, <2>3 DEF Spares, WaiverInv, WaiverShape
    <2> QED
      BY <2>3, <2>4, <2>5, <2>6, LeavesFile
  <1>3. CASE Restart(p)
    <2>1. UNCHANGED waivers
      BY <1>3 DEF Restart
    <2>2. CASE Successor(p) \in Versions
      <3>1. /\ plan' \in [Procs -> SUBSET Items]
            /\ owed' \in [Procs -> SUBSET Selectors]
            /\ taken' \in [Procs -> SUBSET Items]
            /\ \A q \in Procs : Spares(q) => Spares(q)'
        BY <1>3, <2>2, FreshOwesNothing DEF Restart
      <3>2. at' = [at EXCEPT ![p] = "starting"] /\ "starting" \in Steps \ Changing
        BY <1>3, <2>2 DEF Restart, Goes, Steps, RunSteps, Changing
      <3>3. WaiverShape'
        BY <2>1, <3>1, <3>2 DEF WaiverInv, WaiverShape, waivers
      <3> QED
        BY <2>1, <3>1, <3>2, <3>3, LeavesFile
    <2>3. CASE Successor(p) \notin Versions
      <3>1. at' = [at EXCEPT ![p] = "out"] /\ "out" \in Steps \ Changing
        BY <1>3, <2>3 DEF Restart, Exits, Steps, Changing
      <3> QED
        BY <1>3, <2>3, <3>1, FarFromFile DEF Restart, progress, history
    <2> QED
      BY <2>2, <2>3
  <1>4. CASE ~Plan(p) /\ ~Execute(p) /\ ~Restart(p)
    <2>1. UNCHANGED <<waivers, plan, owed, taken>>
      BY <1>4 DEF Run, StartRun, AwaitNotice, Accept, Decline, NotReached, Reach, Scan,
                  NoVault, Finish, RunGoes, progress, history
    <2>2. (\E w \in Steps \ Changing : at' = [at EXCEPT ![p] = w]) \/ at' = at
      BY <1>4 DEF Run, StartRun, AwaitNotice, Accept, Decline, NotReached, Reach, Scan,
                  NoVault, Finish, RunGoes, Goes, Exits, Steps, Changing, RunSteps
    <2>3. "out" \in Steps \ Changing
      BY DEF Steps, Changing
    <2> QED
      BY <2>1, <2>2, <2>3, FarFromFile
  <1> QED
    BY <1>1, <1>2, <1>3, <1>4

LEMMA WaiverInvStep == WaiverInv /\ [Next]_vars => WaiverInv'
  <1> SUFFICES ASSUME WaiverInv, [Next]_vars PROVE WaiverInv'
    OBVIOUS
  <1>0. "out" \in Steps \ Changing
    BY DEF Steps, Changing
  <1>1. ASSUME NEW p \in Procs, Begin(p) PROVE WaiverInv'
    BY <1>1, BeginKeepsWaivers
  <1>2. ASSUME NEW p \in Procs, Interrupt(p) PROVE WaiverInv'
    BY <1>0, <1>2, FarFromFile DEF Interrupt, progress, history
  <1>3. ASSUME NEW p \in Procs, Kill(p) PROVE WaiverInv'
    BY <1>0, <1>3, FarFromFile DEF Kill, Exits, progress, history
  <1>4. ASSUME NEW p \in Procs, Run(p) PROVE WaiverInv'
    BY <1>4, RunKeepsWaivers
  <1>5. ASSUME NEW p \in Procs, WaiverStep(p), UNCHANGED own PROVE WaiverInv'
    BY <1>5, WaiverStepKeepsWaivers DEF own, progress, history
  <1>6. ASSUME NEW p \in Procs, UpdateStep(p), UNCHANGED <<waivers, own>> PROVE WaiverInv'
    <2>1. PICK w \in Steps \ Changing : at' = [at EXCEPT ![p] = w]
      BY <1>6 DEF UpdateStep, LocateExe, FetchManifest, OnlyChecks, InstallFails, Download,
                  WriteStaged, Sync, TestStaged, Rename, Abandon, Concludes, Goes, Exits, Steps, Changing,
                  RunSteps
    <2> QED
      BY <1>6, <2>1, FarFromFile DEF own, progress, history
  <1>7. ASSUME NEW p \in Procs, UNCHANGED <<at, waivers, own>> PROVE WaiverInv'
    BY <1>0, <1>7, FarFromFile DEF own, progress, history
  <1>8. CASE Outage
    <2>1. /\ at' = [p \in Procs |-> "out"] /\ file' \in {file, Torn}
          /\ UNCHANGED <<mem, wanted, inForce, disturbed, plan, owed, taken>>
      BY <1>8 DEF Outage, progress, history
    <2>2. WaiverShape'
      BY <2>1 DEF WaiverInv, WaiverShape, Steps
    <2>3. \A p \in Procs : at'[p] \notin Changing
      BY <2>1 DEF Changing
    <2>4. OneChanges' /\ \A p \in Procs : MemoryHolds(p)'
      BY <2>3 DEF OneChanges, MemoryHolds, Changing
    <2>5. FileHolds => FileHolds'
      BY <2>1, <2>3 DEF FileHolds, Truncated, Changing
    <2>6. \A p \in Procs : Spares(p) => Spares(p)'
      BY <2>1 DEF Spares
    <2> QED
      BY <2>1, <2>2, <2>4, <2>5, <2>6 DEF WaiverInv
  <1>9. CASE (Publish \/ Expire) /\ UNCHANGED <<at, waivers, own>>
    <2>1. CASE Procs = {}
      BY <1>9, <2>1 DEF WaiverInv, WaiverShape, OneChanges, FileHolds, waivers, own, progress,
                        history, Truncated
    <2>2. CASE Procs # {}
      BY <1>7, <1>9, <2>2
    <2> QED
      BY <2>1, <2>2
  <1>10. CASE UNCHANGED vars
    <2>1. UNCHANGED <<at, waivers, own>>
      BY <1>10 DEF vars, own
    <2>2. CASE Procs = {}
      BY <2>1, <2>2 DEF WaiverInv, WaiverShape, OneChanges, FileHolds, waivers, own, progress,
                        history, Truncated
    <2>3. CASE Procs # {}
      BY <1>7, <2>1, <2>3
    <2> QED
      BY <2>2, <2>3
  <1> QED
    BY <1>1, <1>2, <1>3, <1>4, <1>5, <1>6, <1>7, <1>8, <1>9, <1>10 DEF Next

\* Until two changes of the waiver file overlap, or the file is read torn,
\* nothing a waiver in force covers when a run reads the waivers is removed
\* by it, however many processes are killed at whatever step.
THEOREM WaivedStaySpared == Spec => []WaivedAreSpared
  <1>1. WaiverInv => WaivedAreSpared
    BY DEF WaiverInv, Spares, WaivedAreSpared
  <1> QED
    BY WaiverInvInit, WaiverInvStep, <1>1, PTL DEF Spec
-----------------------------------------------------------------------------
(* The exit code.                                                          *)

\* The steps at which a run is at an engine it has counted as its own.
Inside == {"scanning", "planning", "rescanning", "executing"}

ExitShape ==
    /\ at \in [Procs -> Steps]
    /\ code \in [Procs -> Int]
    /\ next \in [Procs -> Nat \ {0}]
    /\ seen \in [Procs -> SUBSET Engines]
    /\ exit \in [Procs -> {0, 1, Trouble}]
    /\ tally \in [Procs -> [Engines -> Nat]]
    /\ failed \in [Procs -> BOOLEAN]

\* How often a run may have cleaned each engine, by what it is at: an engine
\* it has counted but once, and the one it is inside not yet.
Tallied(p, e) ==
    tally[p][e] = IF e \in seen[p] /\ ~(at[p] \in Inside /\ e = Engine(p)) THEN 1 ELSE 0

Accounts(p) ==
    /\ \A e \in Engines : tally[p][e] <= 1
    /\ code[p] = 0 => /\ ~failed[p]
                      /\ seen[p] # {} => \A e \in seen[p] : tally[p][e] = 1

\* While a process runs it has no code, every engine is tallied, a failure
\* has raised the code to come, and only the loop has counted engines.
Counts(p) ==
    at[p] # "out" =>
        /\ code[p] # 0
        /\ \A e \in Engines : Tallied(p, e)
        /\ failed[p] => exit[p] = Trouble
        /\ at[p] \in Inside => Engine(p) \in seen[p]
        /\ at[p] \notin Inside \union {"choosing"} => seen[p] = {} /\ ~failed[p]

ExitInv == ExitShape /\ \A p \in Procs : Accounts(p) /\ Counts(p)

LEMMA EngineIsEngine ==
    ASSUME ExitShape, NEW p \in Procs, next[p] <= Len(Contexts)
    PROVE  Engine(p) \in Engines
  BY CommandsAssumption DEF ExitShape, Engine, Engines

LEMMA ExitInvInit == Init => ExitInv
  <1> SUFFICES ASSUME Init PROVE ExitInv
    OBVIOUS
  <1>1. ExitShape
    BY DEF Init, ExitShape, Steps
  <1>2. \A p \in Procs : Accounts(p) /\ Counts(p)
    BY DEF Init, Accounts, Counts
  <1> QED
    BY <1>1, <1>2 DEF ExitInv

progressed == <<next, seen, exit, tally, failed>>

\* What a step of one process must see to: the others are as they were.
LEMMA OneAccounts ==
    ASSUME ExitInv, NEW p \in Procs, ExitShape',
           Accounts(p)', Counts(p)',
           \A q \in Procs \ {p} :
               /\ at'[q] = at[q] /\ code'[q] = code[q] /\ next'[q] = next[q]
               /\ seen'[q] = seen[q] /\ exit'[q] = exit[q] /\ tally'[q] = tally[q]
               /\ failed'[q] = failed[q]
    PROVE  ExitInv'
  <1>1. \A q \in Procs \ {p} : Accounts(q)' /\ Counts(q)'
    BY DEF ExitInv, Accounts, Counts, Tallied, Engine
  <1> QED
    BY <1>1 DEF ExitInv

\* Nothing that is accounted for changes.
LEMMA ExitStutter ==
    ASSUME ExitInv, UNCHANGED <<at, code, progressed>>
    PROVE  ExitInv'
  BY DEF ExitInv, ExitShape, Accounts, Counts, Tallied, Engine, progressed

\* A process ends with a code that says something is left undone.
LEMMA EndsBadly ==
    ASSUME ExitInv, NEW p \in Procs, NEW c \in Int \ {0}, Exits(p, c), UNCHANGED progressed
    PROVE  ExitInv'
  <1>1. ExitShape'
    BY DEF ExitInv, ExitShape, Exits, Steps, progressed
  <1>2. Accounts(p)' /\ Counts(p)'
    BY DEF ExitInv, ExitShape, Accounts, Counts, Exits, progressed
  <1> QED
    BY <1>1, <1>2, OneAccounts DEF ExitInv, ExitShape, Exits, progressed

\* A process that has counted no engine ends, or goes on outside the loop.
LEMMA OutsideLoop ==
    ASSUME ExitInv, NEW p \in Procs, NEW w \in Steps \ (Inside \union {"choosing"}),
           at[p] \notin Inside \union {"choosing", "out"},
           \/ Goes(p, w)
           \/ \E c \in Int : Exits(p, c),
           UNCHANGED progressed
    PROVE  ExitInv'
  <1>0. seen[p] = {} /\ ~failed[p] /\ \A e \in Engines : tally[p][e] = 0
    BY DEF ExitInv, Counts, Tallied
  <1>1. CASE Goes(p, w)
    <2>1. ExitShape'
      BY <1>1 DEF ExitInv, ExitShape, Goes, progressed
    <2>2. Accounts(p)' /\ Counts(p)'
      BY <1>0, <1>1 DEF ExitInv, ExitShape, Accounts, Counts, Tallied, Goes, progressed
    <2> QED
      BY <1>1, <2>1, <2>2, OneAccounts DEF ExitInv, ExitShape, Goes, progressed
  <1>2. ASSUME NEW c \in Int, Exits(p, c) PROVE ExitInv'
    <2>1. ExitShape'
      BY <1>2 DEF ExitInv, ExitShape, Exits, Steps, progressed
    <2>2. Accounts(p)' /\ Counts(p)'
      BY <1>0, <1>2 DEF ExitInv, ExitShape, Accounts, Counts, Exits, progressed
    <2> QED
      BY <1>2, <2>1, <2>2, OneAccounts DEF ExitInv, ExitShape, Exits, progressed
  <1> QED
    BY <1>1, <1>2

\* A process that begins, or begins anew, has counted nothing.
LEMMA FreshCounts ==
    ASSUME ExitInv, NEW p \in Procs, NEW v, NEW again, Fresh(p, v, again),
           NEW w \in Steps \ (Inside \union {"choosing", "out"}),
           at' = [at EXCEPT ![p] = w],
           \/ code' = [code EXCEPT ![p] = -1]
           \/ code' = code /\ at[p] # "out"
    PROVE  ExitInv'
  <1>1. /\ next' = [next EXCEPT ![p] = 1]
        /\ seen' = [seen EXCEPT ![p] = {}]
        /\ exit' = [exit EXCEPT ![p] = 0]
        /\ tally' = [tally EXCEPT ![p] = [e \in Engines |-> 0]]
        /\ failed' = [failed EXCEPT ![p] = FALSE]
    BY DEF Fresh
  <1>2. ExitShape'
    BY <1>1 DEF ExitInv, ExitShape
  <1>3. code'[p] # 0
    BY DEF ExitInv, ExitShape, Counts
  <1>4. Accounts(p)' /\ Counts(p)'
    BY <1>1, <1>3 DEF ExitInv, ExitShape, Accounts, Counts, Tallied
  <1> QED
    BY <1>1, <1>2, <1>4, OneAccounts DEF ExitInv, ExitShape

\* The steps of the loop over the contexts.
LEMMA LoopAccounts ==
    ASSUME ExitInv, NEW p \in Procs,
           NotReached(p) \/ Reach(p) \/ Scan(p) \/ Plan(p) \/ NoVault(p) \/ Execute(p)
               \/ Finish(p)
    PROVE  ExitInv'
  <1>0. /\ ExitShape /\ Accounts(p) /\ Counts(p)
        /\ \A e \in Engines : tally[p][e] \in Nat
    BY DEF ExitInv, ExitShape
  <1>1. CASE NotReached(p)
    <2>1. /\ at[p] = "choosing" /\ next' = [next EXCEPT ![p] = @ + 1]
          /\ UNCHANGED <<at, code, seen, exit, tally, failed>>
      BY <1>1 DEF NotReached, Skips, history
    <2>2. ExitShape'
      BY <1>0, <2>1 DEF ExitShape
    <2>3. Accounts(p)' /\ Counts(p)'
      BY <1>0, <2>1 DEF Accounts, Counts, Tallied, Inside
    <2> QED
      BY <2>1, <2>2, <2>3, OneAccounts, <1>0 DEF ExitShape
  <1>2. CASE Reach(p) /\ Engine(p) \in seen[p]
    <2>1. /\ at[p] = "choosing" /\ next' = [next EXCEPT ![p] = @ + 1]
          /\ UNCHANGED <<at, code, seen, exit, tally, failed>>
      BY <1>2 DEF Reach, Skips, history
    <2>2. ExitShape'
      BY <1>0, <2>1 DEF ExitShape
    <2>3. Accounts(p)' /\ Counts(p)'
      BY <1>0, <2>1 DEF Accounts, Counts, Tallied, Inside
    <2> QED
      BY <2>1, <2>2, <2>3, OneAccounts, <1>0 DEF ExitShape
  <1>3. CASE Reach(p) /\ Engine(p) \notin seen[p]
    <2>1. /\ at[p] = "choosing" /\ at' = [at EXCEPT ![p] = "scanning"]
          /\ next[p] <= Len(Contexts)
          /\ seen' = [seen EXCEPT ![p] = @ \union {Engine(p)}]
          /\ UNCHANGED <<code, next, exit, tally, failed>>
      BY <1>3 DEF Reach, Goes, history
    <2>2. Engine(p) \in Engines
      BY <1>0, <2>1, EngineIsEngine
    <2>3. ExitShape'
      BY <1>0, <2>1, <2>2 DEF ExitShape, Steps, RunSteps
    <2>4. /\ at'[p] = "scanning" /\ seen'[p] = seen[p] \union {Engine(p)}
          /\ Engine(p)' = Engine(p)
      BY <1>0, <2>1 DEF ExitShape, Engine
    <2>5. \A e \in Engines : Tallied(p, e)'
      BY <1>0, <1>3, <2>1, <2>4 DEF Counts, Tallied, Inside
    <2>6. Accounts(p)' /\ Counts(p)'
      BY <1>0, <2>1, <2>4, <2>5 DEF Accounts, Counts, Inside
    <2> QED
      BY <2>1, <2>3, <2>6, OneAccounts, <1>0 DEF ExitShape
  <1>4. CASE Scan(p) /\ at' = [at EXCEPT ![p] = "out"]
    <2>1. (\E c \in Errors \union {Cancelled} : Exits(p, c)) /\ UNCHANGED progressed
      BY <1>0, <1>4 DEF Scan, Goes, Exits, progress, history, progressed, ExitShape
    <2> QED
      BY <2>1, EndsBadly DEF Cancelled, Errors, ConfigError, Unreachable, Denied
  <1>5. CASE /\ Scan(p) \/ Plan(p)
             /\ \E w \in {"planning", "executing", "rescanning"} : Goes(p, w)
    <2>1. PICK w \in {"planning", "executing", "rescanning"} : at' = [at EXCEPT ![p] = w]
      BY <1>5 DEF Goes
    <2>2. at[p] \in Inside /\ UNCHANGED <<code, progressed>>
      BY <1>5 DEF Scan, Plan, Goes, Inside, progress, history, progressed
    <2>3. ExitShape'
      BY <1>0, <2>1, <2>2 DEF ExitShape, Steps, RunSteps, progressed
    <2>4. at'[p] \in Inside /\ Engine(p)' = Engine(p)
      BY <1>0, <2>1, <2>2 DEF ExitShape, Inside, Engine, progressed
    <2>5. Accounts(p)' /\ Counts(p)'
      BY <1>0, <2>2, <2>4 DEF Accounts, Counts, Tallied, Inside, progressed
    <2> QED
      BY <2>1, <2>2, <2>3, <2>5, OneAccounts, <1>0 DEF ExitShape, progressed
  <1>6. CASE NoVault(p)
    BY <1>6, EndsBadly DEF NoVault, ConfigError, progress, history, progressed
  <1>7. CASE Execute(p)
    <2>1. PICK o \in Outcomes(p) :
            /\ failed' = [failed EXCEPT ![p] = @ \/ Had(o, "failed") # {}]
            /\ \/ Exits(p, Cancelled) /\ UNCHANGED <<next, exit>>
               \/ /\ exit' = [exit EXCEPT ![p] = CodeAfter(p, o)]
                  /\ next' = [next EXCEPT ![p] = @ + 1]
                  /\ Goes(p, "choosing")
      BY <1>7 DEF Execute, Skips
    <2>2. /\ at[p] = "executing" /\ UNCHANGED seen
          /\ tally' = [tally EXCEPT ![p][Engine(p)] = @ + 1]
      BY <1>7 DEF Execute
    <2>3. Engine(p) \in seen[p] /\ Engine(p) \in Engines
      BY <1>0, <2>2 DEF Counts, Inside, ExitShape
    <2>4. \A e \in Engines : tally'[p][e] = IF e \in seen[p] THEN 1 ELSE 0
      BY <1>0, <2>2, <2>3 DEF Counts, Tallied, Inside, ExitShape
    <2>5. CodeAfter(p, o) \in {0, 1, Trouble}
          /\ (Had(o, "failed") # {} \/ exit[p] = Trouble => CodeAfter(p, o) = Trouble)
      <3>1. CodeOf(p, o) \in {0, 1, Trouble}
            /\ (Had(o, "failed") # {} => CodeOf(p, o) = Trouble)
        BY DEF CodeOf
      <3> QED
        BY <1>0, <3>1 DEF CodeAfter, Larger, Trouble, ExitShape
    <2>6. tally' \in [Procs -> [Engines -> Nat]]
      BY <1>0, <2>2, <2>3 DEF ExitShape
    <2>7. failed' \in [Procs -> BOOLEAN]
          /\ failed'[p] = (failed[p] \/ Had(o, "failed") # {})
      BY <1>0, <2>1 DEF ExitShape
    <2>8. CASE Exits(p, Cancelled) /\ UNCHANGED <<next, exit>>
      <3>1. ExitShape' /\ at'[p] = "out" /\ code'[p] # 0
        BY <1>0, <2>2, <2>6, <2>7, <2>8 DEF ExitShape, Exits, Cancelled, Steps
      <3>2. Accounts(p)' /\ Counts(p)'
        BY <2>4, <3>1 DEF Accounts, Counts
      <3> QED
        BY <2>1, <2>2, <2>8, <3>1, <3>2, OneAccounts, <1>0 DEF ExitShape, Exits
    <2>9. CASE /\ exit' = [exit EXCEPT ![p] = CodeAfter(p, o)]
               /\ next' = [next EXCEPT ![p] = @ + 1]
               /\ Goes(p, "choosing")
      <3>1. /\ at' = [at EXCEPT ![p] = "choosing"] /\ code' = code
            /\ exit' = [exit EXCEPT ![p] = CodeAfter(p, o)]
            /\ next' = [next EXCEPT ![p] = @ + 1]
        BY <2>9 DEF Goes
      <3>2. ExitShape'
        BY <1>0, <2>2, <2>5, <2>6, <2>7, <3>1 DEF ExitShape, Steps, RunSteps
      <3>3. at'[p] = "choosing" /\ exit'[p] = CodeAfter(p, o) /\ code'[p] # 0
        BY <1>0, <2>2, <3>1 DEF ExitShape, Counts
      <3>4. Accounts(p)'
        BY <2>4, <3>3 DEF Accounts
      <3>5. Counts(p)'
        BY <1>0, <2>2, <2>4, <2>5, <2>7, <3>3 DEF Counts, Tallied, Inside
      <3> QED
        BY <2>1, <2>2, <3>1, <3>2, <3>4, <3>5, OneAccounts, <1>0 DEF ExitShape
    <2> QED
      BY <2>1, <2>8, <2>9
  <1>8. CASE Finish(p)
    <2>1. /\ at[p] = "choosing" /\ UNCHANGED progressed
          /\ \E c \in {1, 2, 3, 4, exit[p]} : Exits(p, c)
      BY <1>8 DEF Finish, Errors, ConfigError, Unreachable, Denied, progress, history,
                  progressed
    <2>2. ExitShape' /\ at'[p] = "out"
      BY <1>0, <2>1 DEF ExitShape, Exits, Trouble, Steps, progressed
    <2>3. code'[p] = 0 => exit[p] = 0 /\ ~failed[p]
      BY <1>0, <2>1 DEF ExitShape, Exits, Trouble, Counts
    <2>4. \A e \in seen[p] : tally[p][e] = 1
      BY <1>0, <2>1 DEF Counts, Tallied, Inside, ExitShape
    <2>5. /\ \A e \in Engines : tally'[p][e] <= 1
          /\ \A e \in seen'[p] : tally'[p][e] = 1
          /\ code'[p] = 0 => ~failed'[p]
      BY <1>0, <2>1, <2>3, <2>4 DEF Accounts, progressed
    <2>6. Accounts(p)' /\ Counts(p)'
      BY <2>2, <2>5 DEF Accounts, Counts
    <2> QED
      BY <2>1, <2>2, <2>6, OneAccounts, <1>0 DEF ExitShape, Exits, progressed
  <1>9. Scan(p) => \/ at' = [at EXCEPT ![p] = "out"]
                   \/ \E w \in {"planning", "executing", "rescanning"} : Goes(p, w)
    BY DEF Scan, Exits
  <1>10. Plan(p) => \E w \in {"planning", "executing", "rescanning"} : Goes(p, w)
    BY DEF Plan
  <1> QED
    BY <1>1, <1>2, <1>3, <1>4, <1>5, <1>6, <1>7, <1>8, <1>9, <1>10

\* From a run's start to the loop: nothing is counted yet.
LEMMA EntersLoop ==
    ASSUME ExitInv, NEW p \in Procs, at[p] \notin Inside \union {"choosing", "out"},
           Goes(p, "choosing"), UNCHANGED progressed
    PROVE  ExitInv'
  <1>1. at'[p] = "choosing" /\ code' = code
    BY DEF Goes, ExitInv, ExitShape
  <1>2. ExitShape'
    BY DEF ExitInv, ExitShape, Goes, Steps, RunSteps, progressed
  <1>3. Accounts(p)' /\ Counts(p)'
    BY <1>1 DEF ExitInv, Accounts, Counts, Tallied, Inside, progressed
  <1> QED
    BY <1>2, <1>3, OneAccounts DEF ExitInv, ExitShape, Goes, progressed

LEMMA RunKeepsExit ==
    ASSUME ExitInv, NEW p \in Procs, Run(p)
    PROVE  ExitInv'
  <1>0. /\ "waiting" \in Steps \ (Inside \union {"choosing", "out"})
        /\ "offered" \in Steps \ (Inside \union {"choosing", "out"})
        /\ "locating" \in Steps \ (Inside \union {"choosing", "out"})
        /\ "starting" \in Steps \ (Inside \union {"choosing", "out"})
    BY DEF Steps, RunSteps, Inside
  <1>1. CASE StartRun(p) \/ AwaitNotice(p) \/ Accept(p) \/ Decline(p)
    <2>1. /\ at[p] \in {"starting", "waiting", "offered"}
          /\ UNCHANGED progressed
          /\ \E w \in {"waiting", "choosing", "offered", "locating"} : Goes(p, w)
      BY <1>1 DEF StartRun, AwaitNotice, Accept, Decline, RunGoes, progress, history,
                  progressed
    <2>2. at[p] \notin Inside \union {"choosing", "out"}
      BY <2>1 DEF Inside
    <2> QED
      BY <1>0, <2>1, <2>2, OutsideLoop, EntersLoop
  <1>2. CASE Restart(p)
    <2>1. CASE Successor(p) \in Versions
      <3>1. /\ Fresh(p, Successor(p), TRUE)
            /\ at[p] # "out" /\ code' = code
            /\ at' = [at EXCEPT ![p] = "starting"]
        BY <1>2, <2>1 DEF Restart, Goes
      <3> QED
        BY <1>0, <3>1, FreshCounts
    <2>2. CASE Successor(p) \notin Versions
      BY <1>2, <2>2, EndsBadly DEF Restart, progress, history, progressed
    <2> QED
      BY <2>1, <2>2
  <1>3. CASE \/ NotReached(p) \/ Reach(p) \/ Scan(p) \/ Plan(p) \/ NoVault(p)
             \/ Execute(p) \/ Finish(p)
    BY <1>3, LoopAccounts
  <1> QED
    BY <1>1, <1>2, <1>3 DEF Run

\* Changing the waivers and updating count no engine.
LEMMA OthersKeepExit ==
    ASSUME ExitInv, NEW p \in Procs, WaiverStep(p) \/ UpdateStep(p), UNCHANGED own
    PROVE  ExitInv'
  <1>1. UNCHANGED progressed
    BY DEF own, progress, history, progressed
  <1>2. at[p] \notin Inside \union {"choosing", "out"}
    BY DEF WaiverStep, UpdateStep, Refuse, NotThere, Truncate, Add, Remove, Write, WriteFails,
           Truncated, LocateExe, FetchManifest, OnlyChecks, InstallFails, Download, WriteStaged, Sync,
           TestStaged, Rename, Inside
  <1>3. \/ \E w \in Steps \ (Inside \union {"choosing"}) : Goes(p, w)
        \/ \E c \in Int : Exits(p, c)
    <2>1. CASE WaiverStep(p)
      <3>1. \/ \E w \in {"truncated waive", "truncated unwaive"} : Goes(p, w)
            \/ \E c \in {0, 1, 2} : Exits(p, c)
        BY <2>1 DEF WaiverStep, Refuse, NotThere, Truncate, Add, Remove, Write, WriteFails,
                    ConfigError
      <3>2. {"truncated waive", "truncated unwaive"} \subseteq Steps \ (Inside \union {"choosing"})
        BY DEF Steps, Changing, Inside
      <3>3. CASE \E w \in {"truncated waive", "truncated unwaive"} : Goes(p, w)
        BY <3>2, <3>3
      <3>4. CASE \E c \in {0, 1, 2} : Exits(p, c)
        BY <3>4
      <3> QED
        BY <3>1, <3>3, <3>4
    <2>2. CASE UpdateStep(p)
      <3>1. \/ \E w \in {"fetching", "installing", "writing", "syncing", "testing",
                         "renaming", "restarting"} : Goes(p, w)
            \/ Exits(p, 0) \/ Exits(p, 1) \/ Exits(p, 2) \/ Exits(p, 5)
        <4>1. CASE FetchManifest(p) \/ Rename(p)
          <5>1. Goes(p, "installing") \/ Concludes(p) \/ Exits(p, 2) \/ Exits(p, 5)
            BY <4>1 DEF FetchManifest, Rename, Trouble, ConfigError
          <5> QED
            BY <5>1 DEF Concludes
        <4>2. CASE OnlyChecks(p) \/ InstallFails(p)
          BY <4>2 DEF OnlyChecks, InstallFails, Abandon, ConfigError
        <4>3. CASE \/ LocateExe(p) \/ Download(p) \/ WriteStaged(p) \/ Sync(p)
                   \/ TestStaged(p)
          BY <4>3 DEF LocateExe, ConfigError, Download, WriteStaged, Sync, TestStaged
        <4> QED
          BY <2>2, <4>1, <4>2, <4>3 DEF UpdateStep
      <3>2. {"fetching", "installing", "writing", "syncing", "testing", "renaming", "restarting"}
                \subseteq Steps \ (Inside \union {"choosing"})
        BY DEF Steps, RunSteps, Inside
      <3> QED
        BY <3>1, <3>2
    <2> QED
      BY <2>1, <2>2
  <1>4. "starting" \in Steps \ (Inside \union {"choosing"})
    BY DEF Steps, RunSteps, Inside
  <1> QED
    BY <1>1, <1>2, <1>3, <1>4, OutsideLoop

LEMMA ExitInvStep == ExitInv /\ [Next]_vars => ExitInv'
  <1> SUFFICES ASSUME ExitInv, [Next]_vars PROVE ExitInv'
    OBVIOUS
  <1>1. ASSUME NEW p \in Procs, Begin(p) PROVE ExitInv'
    <2>1. /\ Fresh(p, exe, FALSE)
          /\ code' = [code EXCEPT ![p] = -1]
          /\ \E w \in {"waiving", "unwaiving", "locating", "starting"} :
                 at' = [at EXCEPT ![p] = w]
      BY <1>1 DEF Begin
    <2>2. {"waiving", "unwaiving", "locating", "starting"}
              \subseteq Steps \ (Inside \union {"choosing", "out"})
      BY DEF Steps, RunSteps, Changing, Inside
    <2> QED
      BY <2>1, <2>2, FreshCounts
  <1>2. ASSUME NEW p \in Procs, Interrupt(p) PROVE ExitInv'
    BY <1>2, ExitStutter DEF Interrupt, progress, history, progressed
  <1>3. ASSUME NEW p \in Procs, Kill(p) PROVE ExitInv'
    BY <1>3, EndsBadly DEF Kill, progress, history, progressed
  <1>4. ASSUME NEW p \in Procs, Run(p) PROVE ExitInv'
    BY <1>4, RunKeepsExit
  <1>5. ASSUME NEW p \in Procs, WaiverStep(p) \/ UpdateStep(p), UNCHANGED own PROVE ExitInv'
    BY <1>5, OthersKeepExit
  <1>6. CASE UNCHANGED <<at, code, own>>
    BY <1>6, ExitStutter DEF own, progress, history, progressed
  <1>7. CASE Outage
    <2>1. /\ at' = [p \in Procs |-> "out"] /\ code' = [p \in Procs |-> -1]
          /\ UNCHANGED progressed
      BY <1>7 DEF Outage, progress, history, progressed
    <2>2. ExitShape'
      BY <2>1 DEF ExitInv, ExitShape, Steps, progressed
    <2>3. \A p \in Procs : Accounts(p)' /\ Counts(p)'
      BY <2>1 DEF ExitInv, Accounts, Counts, progressed
    <2> QED
      BY <2>2, <2>3 DEF ExitInv
  <1>8. CASE UNCHANGED vars
    BY <1>6, <1>8 DEF vars, own
  <1> QED
    BY <1>1, <1>2, <1>3, <1>4, <1>5, <1>6, <1>7, <1>8 DEF Next

\* A run that ends with 0 has cleaned every engine it reached, once, and
\* nothing failed in any of them: through the loop over the contexts, an
\* accepted update and the start over it leads to, and any kill.
THEOREM ExitCodesAccount == Spec => []ExitAccounts
  <1>1. ExitInv => ExitAccounts
    BY DEF ExitInv, Accounts, ExitAccounts
  <1> QED
    BY ExitInvInit, ExitInvStep, <1>1, PTL DEF Spec

-----------------------------------------------------------------------------
(* The types.                                                              *)

Codes == {-1, 0, 1, 2, 3, 4, 5, 130}

\* What the invariants above leave open.
RestInv ==
    /\ code \in [Procs -> Codes]
    /\ starts \in 0..MaxStarts
    /\ cache \in Versions \union {Failed, None}
    /\ origin \in {"standalone", "managed"}
    /\ exe \in Versions \union {Broken} /\ dead \in Versions \union {Broken, None}
    /\ runs \in [Procs -> Versions]
    /\ replaced \in [Procs -> BOOLEAN] /\ guard \in [Procs -> BOOLEAN]
    /\ accepted \in [Procs -> BOOLEAN]
    /\ apply \in [Procs -> BOOLEAN] /\ flag \in [Procs -> BOOLEAN]
    /\ answer \in [Procs -> Versions \union {None, Asked, Silent}]
    /\ landed \in [Procs -> Versions \union {None}]
    /\ gone \subseteq Engines \X Items

released == <<cache, disk, self, answer, landed>>

LEMMA RestInit == Init => RestInv
  BY OneIsRelease, ProcessesAssumption, CommandsAssumption
     DEF Init, UpdateInit, RestInv, Codes

\* A process is where it was or goes on, and may end; nothing else is of note.
LEMMA RestMoves ==
    ASSUME RestInv, UNCHANGED <<starts, cache, disk, self, answer, landed, apply, flag, gone>>,
           \/ UNCHANGED code
           \/ \E p \in Procs, c \in Codes : code' = [code EXCEPT ![p] = c]
    PROVE  RestInv'
  <1>1. code' \in [Procs -> Codes]
    BY DEF RestInv
  <1> QED
    BY <1>1 DEF RestInv, disk, self

LEMMA FreshRest ==
    ASSUME RestInv, ExitInv, NEW p \in Procs, NEW v \in Versions, NEW again \in BOOLEAN,
           Fresh(p, v, again)
    PROVE  /\ runs' \in [Procs -> Versions]
           /\ replaced' \in [Procs -> BOOLEAN] /\ guard' \in [Procs -> BOOLEAN]
           /\ accepted' \in [Procs -> BOOLEAN] /\ flag' \in [Procs -> BOOLEAN]
           /\ answer' \in [Procs -> Versions \union {None, Asked, Silent}]
  BY DEF Fresh, RestInv

LEMMA BeginRest ==
    ASSUME RestInv, ExitInv, NEW p \in Procs, Begin(p)
    PROVE  RestInv'
  <1>1. exe \in Versions /\ Fresh(p, exe, FALSE)
    BY DEF Begin, RestInv
  <1>2. /\ runs' \in [Procs -> Versions]
        /\ replaced' \in [Procs -> BOOLEAN] /\ guard' \in [Procs -> BOOLEAN]
        /\ accepted' \in [Procs -> BOOLEAN] /\ flag' \in [Procs -> BOOLEAN]
        /\ answer' \in [Procs -> Versions \union {None, Asked, Silent}]
    BY <1>1, FreshRest
  <1>3. starts' \in 0..MaxStarts
    BY ProcessesAssumption DEF Begin, Starting, RestInv
  <1>4. apply' \in [Procs -> BOOLEAN]
    BY DEF Begin, RestInv
  <1>5. code' \in [Procs -> Codes] /\ landed' \in [Procs -> Versions \union {None}]
    BY DEF Begin, RestInv, Codes
  <1>6. UNCHANGED <<cache, disk, gone>>
    BY DEF Begin
  <1> QED
    BY <1>2, <1>3, <1>4, <1>5, <1>6 DEF RestInv, disk

LEMMA UpdateStepRest ==
    ASSUME UpdateInv, RestInv, NEW p \in Procs, UpdateStep(p), UNCHANGED <<starts, own>>
    PROVE  RestInv'
  <1>1. UNCHANGED <<apply, flag, gone>>
    BY DEF own, choice, progress
  <1>2. \/ UNCHANGED code
        \/ \E c \in Codes : code' = [code EXCEPT ![p] = c]
    <2>1. CASE FetchManifest(p) \/ Rename(p)
      <3>1. Goes(p, "installing") \/ Concludes(p) \/ Exits(p, 2) \/ Exits(p, 5)
        BY <2>1 DEF FetchManifest, Rename, Trouble, ConfigError
      <3> QED
        BY <3>1 DEF Concludes, Goes, Exits, Codes
    <2>2. CASE OnlyChecks(p) \/ InstallFails(p)
      BY <2>2 DEF OnlyChecks, InstallFails, Abandon, ConfigError, Exits, Codes
    <2>3. CASE LocateExe(p) \/ Download(p) \/ WriteStaged(p) \/ Sync(p) \/ TestStaged(p)
      BY <2>3 DEF LocateExe, ConfigError, Exits, Codes, Download, WriteStaged, Sync,
                  TestStaged, Goes
    <2> QED
      BY <2>1, <2>2, <2>3 DEF UpdateStep
  <1>3. CASE ~Rename(p)
    <2>1. UNCHANGED <<cache, disk, self, answer, landed>>
      BY <1>3 DEF UpdateStep, LocateExe, FetchManifest, OnlyChecks, InstallFails, Abandon, Download,
                  WriteStaged, Sync, TestStaged, update
    <2> QED
      BY <1>1, <1>2, <2>1, RestMoves
  <1>4. CASE Rename(p)
    <2>1. staged[p] \in Versions /\ manifest[p] \in Versions
      <3>1. at[p] = "renaming"
        BY <1>4 DEF Rename
      <3> QED
        BY <3>1 DEF UpdateInv, ShapeInv, StagedWell, Staging
    <2>2. exe' \in Versions \union {Broken} /\ dead' \in Versions \union {Broken, None}
      BY <1>4, <2>1 DEF Rename, RestInv
    <2>3. replaced' \in [Procs -> BOOLEAN]
      <3>1. replaced' = replaced \/ replaced' = [q \in Procs |-> replaced[q] \/ at[q] # "out"]
        BY <1>4 DEF Rename
      <3>2. [q \in Procs |-> replaced[q] \/ at[q] # "out"] \in [Procs -> BOOLEAN]
        OBVIOUS
      <3> QED
        BY <3>1, <3>2, Zenon DEF RestInv
    <2>4. landed' \in [Procs -> Versions \union {None}]
      BY <1>4, <2>1 DEF Rename, RestInv
    <2>5. code' \in [Procs -> Codes]
      BY <1>2 DEF RestInv
    <2>6. UNCHANGED <<cache, origin, runs, guard, accepted, answer>>
      BY <1>4 DEF Rename
    <2> QED
      BY <1>1, <2>2, <2>3, <2>4, <2>5, <2>6 DEF RestInv
  <1> QED
    BY <1>3, <1>4

LEMMA CheckRest ==
    ASSUME UpdateInv, RestInv, NEW p \in Procs, Check(p),
           UNCHANGED <<code, starts, own>>
    PROVE  RestInv'
  <1>1. UNCHANGED <<apply, flag, gone, disk, self, landed>>
    BY DEF own, choice, progress, Check
  <1>2. ASSUME NEW v \in Versions \union {Failed}
        PROVE  Decide(p, v) \in Versions \union {None, Asked, Silent}
    BY <1>2 DEF Decide
  <1>3. /\ cache' \in Versions \union {Failed, None}
        /\ \E a \in Versions \union {None, Asked, Silent} : answer' = [answer EXCEPT ![p] = a]
    BY <1>2 DEF Check, Answers, UpdateInv, ShapeInv, RestInv
  <1>4. answer' \in [Procs -> Versions \union {None, Asked, Silent}]
    BY <1>3 DEF RestInv
  <1> QED
    BY <1>1, <1>3, <1>4 DEF RestInv, disk, self

LEMMA RunRest ==
    ASSUME ExitInv, WaiverInv, RestInv, NEW p \in Procs, Run(p), UNCHANGED starts
    PROVE  RestInv'
  <1>1. CASE StartRun(p) \/ AwaitNotice(p) \/ Decline(p)
    <2>1. /\ UNCHANGED <<code, cache, disk, self, landed, apply, flag, gone>>
          /\ \/ UNCHANGED answer
             \/ \E a \in {Asked, None} : answer' = [answer EXCEPT ![p] = a]
      BY <1>1 DEF StartRun, AwaitNotice, Decline, RunGoes, Goes, Answers, choice, progress,
                  update
    <2>2. answer' \in [Procs -> Versions \union {None, Asked, Silent}]
      BY <2>1 DEF RestInv
    <2> QED
      BY <2>1, <2>2 DEF RestInv, disk, self
  <1>2. CASE Accept(p)
    <2>1. accepted' \in [Procs -> BOOLEAN]
      BY <1>2 DEF Accept, RestInv
    <2> QED
      BY <1>2, <2>1 DEF Accept, RunGoes, Goes, choice, progress, disk, RestInv
  <1>3. CASE Restart(p)
    <2>1. CASE Successor(p) \in Versions
      <3>1. Fresh(p, Successor(p), TRUE) /\ UNCHANGED <<code, cache, disk, landed, apply, gone>>
        BY <1>3, <2>1 DEF Restart, Goes
      <3>2. /\ runs' \in [Procs -> Versions]
            /\ replaced' \in [Procs -> BOOLEAN] /\ guard' \in [Procs -> BOOLEAN]
            /\ accepted' \in [Procs -> BOOLEAN] /\ flag' \in [Procs -> BOOLEAN]
            /\ answer' \in [Procs -> Versions \union {None, Asked, Silent}]
            BY <2>1, <3>1, FreshRest
      <3> QED
        BY <3>1, <3>2 DEF RestInv, disk
    <2>2. CASE Successor(p) \notin Versions
      <3>1. /\ UNCHANGED <<starts, cache, disk, self, answer, landed, apply, flag, gone>>
            /\ code' = [code EXCEPT ![p] = 1]
        BY <1>3, <2>2 DEF Restart, Exits, progress
      <3> QED
        BY <3>1, RestMoves DEF Codes
    <2> QED
      BY <2>1, <2>2
  <1>4. ASSUME UNCHANGED <<update, apply, flag>>, UNCHANGED gone,
               \/ UNCHANGED code
               \/ \E c \in Codes : code' = [code EXCEPT ![p] = c]
        PROVE  RestInv'
    <2>1. code' \in [Procs -> Codes]
      BY <1>4 DEF RestInv
    <2> QED
      BY <1>4, <2>1 DEF RestInv, update, disk, self
  <1>5. CASE NotReached(p) \/ Reach(p)
    BY <1>4, <1>5 DEF NotReached, Reach, Goes, choice
  <1>6. CASE Scan(p) \/ NoVault(p) \/ Plan(p)
    <2>1. UNCHANGED <<update, apply, flag, gone>>
      BY <1>6 DEF Scan, NoVault, Plan, choice, progress
    <2>2. UNCHANGED code \/ \E c \in Codes : code' = [code EXCEPT ![p] = c]
      BY <1>6 DEF Scan, NoVault, Plan, Goes, Exits, Cancelled, Errors, ConfigError,
                  Unreachable, Denied, Codes
    <2> QED
      BY <1>4, <2>1, <2>2
  <1>7. CASE Finish(p)
    <2>1. exit[p] \in Codes
      BY DEF ExitInv, ExitShape, Codes, Trouble
    <2>2. \E c \in Codes : code' = [code EXCEPT ![p] = c]
      BY <1>7, <2>1 DEF Finish, Exits, Errors, ConfigError, Unreachable, Denied, Codes
    <2> QED
      BY <1>4, <1>7, <2>2 DEF Finish, choice, progress
  <1>8. CASE Execute(p)
    <2>1. PICK o \in Outcomes(p) :
              /\ gone' = IF apply[p] THEN gone \union ({Engine(p)} \X Had(o, "removed"))
                         ELSE gone
              /\ Exits(p, Cancelled) \/ Goes(p, "choosing")
      BY <1>8 DEF Execute
    <2>2. Had(o, "removed") \subseteq Items
      <3>1. DOMAIN o = plan[p]
        BY DEF Outcomes
      <3> QED
        BY <3>1 DEF Had, WaiverInv, WaiverShape
    <2>3. at[p] \in Inside
      BY <1>8 DEF Execute, Inside
    <2>4. Engine(p) \in Engines
      BY <2>3 DEF ExitInv, ExitShape, Counts, Inside
    <2>5. gone' \subseteq Engines \X Items
      BY <2>1, <2>2, <2>4 DEF RestInv
    <2>6. code' \in [Procs -> Codes]
      BY <2>1 DEF Goes, Exits, Cancelled, Codes, RestInv
    <2> QED
      BY <1>8, <2>5, <2>6 DEF Execute, RestInv, update, disk, self, choice
  <1> QED
    BY <1>1, <1>2, <1>3, <1>5, <1>6, <1>7, <1>8 DEF Run

LEMMA RestStep == UpdateInv /\ WaiverInv /\ ExitInv /\ RestInv /\ [Next]_vars => RestInv'
  <1> SUFFICES ASSUME UpdateInv, WaiverInv, ExitInv, RestInv, [Next]_vars PROVE RestInv'
    OBVIOUS
  <1>1. ASSUME NEW p \in Procs, Interrupt(p) PROVE RestInv'
    <2>1. flag' \in [Procs -> BOOLEAN]
      BY <1>1 DEF Interrupt, RestInv
    <2> QED
      BY <1>1, <2>1 DEF Interrupt, update, disk, self, RestInv
  <1>2. ASSUME NEW p \in Procs, Kill(p) PROVE RestInv'
    BY <1>2, RestMoves DEF Kill, Exits, update, choice, Codes
  <1>3. ASSUME NEW p \in Procs, WaiverStep(p), UNCHANGED <<starts, update, own>> PROVE RestInv'
    <2>1. UNCHANGED code \/ \E c \in Codes : code' = [code EXCEPT ![p] = c]
      BY <1>3 DEF WaiverStep, Refuse, NotThere, Truncate, Add, Remove, Write, WriteFails,
                  ConfigError, Goes, Exits, Codes
    <2> QED
      BY <1>3, <2>1, RestMoves DEF own, choice, update
  <1>4. CASE Outage
    <2>1. code' \in [Procs -> Codes] /\ exe' \in Versions \union {Broken}
      BY <1>4 DEF Outage, RestInv, Codes
    <2> QED
      BY <1>4, <2>1 DEF Outage, self, choice, RestInv
  <1>5. CASE (Publish \/ Expire) /\ UNCHANGED <<at, code, starts, waivers, own>>
    BY <1>5 DEF Publish, Expire, own, choice, disk, self, RestInv
  <1>6. CASE UNCHANGED vars
    BY <1>6, RestMoves DEF vars, update, choice
  <1> QED
    BY <1>1, <1>2, <1>3, <1>4, <1>5, <1>6, BeginRest, RunRest, UpdateStepRest, CheckRest
    DEF Next

\* The loop goes no further than one past the last context, and a run that is
\* at an engine is at a context.
InLoop(p) ==
    /\ next[p] <= Len(Contexts) + 1
    /\ at[p] \in Inside => next[p] <= Len(Contexts)

NextInv == \A p \in Procs : InLoop(p)

LEMMA NextInit == Init => NextInv
  BY CommandsAssumption DEF Init, NextInv, InLoop, Inside

LEMMA NextMoves ==
    ASSUME ExitInv, NextInv, NEW p \in Procs,
           \/ UNCHANGED <<at, next>>
           \/ \E w : /\ at' = [at EXCEPT ![p] = w] /\ UNCHANGED next
                     /\ w \in Inside => at[p] \in Inside
           \/ \E w : /\ at' = [at EXCEPT ![p] = w] /\ next' = [next EXCEPT ![p] = 1]
                     /\ w \notin Inside
    PROVE  NextInv'
  <1>1. Len(Contexts) \in Nat
    BY CommandsAssumption
  <1>2. ASSUME NEW q \in Procs PROVE InLoop(q)'
    BY <1>1 DEF NextInv, InLoop, ExitInv, ExitShape
  <1> QED
    BY <1>2 DEF NextInv

LEMMA RunNext ==
    ASSUME ExitInv, NextInv, NEW p \in Procs, Run(p)
    PROVE  NextInv'
  <1>1. CASE StartRun(p) \/ AwaitNotice(p) \/ Accept(p) \/ Decline(p)
    <2>1. /\ UNCHANGED next
          /\ \E w \in {"waiting", "choosing", "offered", "locating"} : at' = [at EXCEPT ![p] = w]
      BY <1>1 DEF StartRun, AwaitNotice, Accept, Decline, RunGoes, Goes, progress
    <2> QED
      BY <2>1, NextMoves DEF Inside
  <1>2. CASE Restart(p)
    <2>1. \/ at' = [at EXCEPT ![p] = "starting"] /\ next' = [next EXCEPT ![p] = 1]
          \/ at' = [at EXCEPT ![p] = "out"] /\ UNCHANGED next
      BY <1>2 DEF Restart, Fresh, Goes, Exits, progress
    <2> QED
      BY <2>1, NextMoves DEF Inside
  <1>3. CASE Scan(p) \/ Plan(p) \/ NoVault(p) \/ Finish(p)
    <2>1. /\ UNCHANGED next
          /\ \E w \in Steps : at' = [at EXCEPT ![p] = w] /\ (w \in Inside => at[p] \in Inside)
      BY <1>3 DEF Scan, Plan, NoVault, Finish, Goes, Exits, progress, Inside, Steps, RunSteps
    <2> QED
      BY <2>1, NextMoves
  <1>4. CASE NotReached(p) \/ Reach(p) \/ Execute(p)
    <2>1. /\ next[p] <= Len(Contexts)
          /\ \/ UNCHANGED next /\ \E w \in Steps : at' = [at EXCEPT ![p] = w]
             \/ next' = [next EXCEPT ![p] = @ + 1] /\ UNCHANGED at /\ at[p] = "choosing"
             \/ next' = [next EXCEPT ![p] = @ + 1] /\ at' = [at EXCEPT ![p] = "choosing"]
      BY <1>4 DEF NotReached, Reach, Execute, Skips, Goes, Exits, NextInv, InLoop, Inside,
                  Steps, RunSteps
    <2>2. Len(Contexts) \in Nat /\ "choosing" \notin Inside
      BY CommandsAssumption DEF Inside
    <2>3. ASSUME NEW q \in Procs PROVE InLoop(q)'
      BY <2>1, <2>2 DEF NextInv, InLoop, ExitInv, ExitShape
    <2> QED
      BY <2>3 DEF NextInv
  <1> QED
    BY <1>1, <1>2, <1>3, <1>4 DEF Run

LEMMA NextStep == ExitInv /\ NextInv /\ [Next]_vars => NextInv'
  <1> SUFFICES ASSUME ExitInv, NextInv, [Next]_vars PROVE NextInv'
    OBVIOUS
  <1>1. ASSUME NEW p \in Procs, Begin(p) PROVE NextInv'
    <2>1. /\ next' = [next EXCEPT ![p] = 1]
          /\ \E w \in {"waiving", "unwaiving", "locating", "starting"} :
                 at' = [at EXCEPT ![p] = w]
      BY <1>1 DEF Begin, Fresh
    <2> QED
      BY <2>1, NextMoves DEF Inside
  <1>2. ASSUME NEW p \in Procs, WaiverStep(p) \/ UpdateStep(p), UNCHANGED own PROVE NextInv'
    <2>1. UNCHANGED next
      BY <1>2 DEF own, progress
    <2>2. UNCHANGED at \/ \E w \in Steps \ Inside : at' = [at EXCEPT ![p] = w]
      <3>1. CASE WaiverStep(p)
        BY <3>1 DEF WaiverStep, Refuse, NotThere, Truncate, Add, Remove, Write, WriteFails,
                    Goes, Exits, Steps, Changing, Inside
      <3>2. CASE UpdateStep(p)
        BY <3>2 DEF UpdateStep, LocateExe, FetchManifest, OnlyChecks, InstallFails, Abandon, Download,
                    WriteStaged, Sync, TestStaged, Rename, Concludes, Goes, Exits, Steps,
                    RunSteps, Inside
      <3> QED
        BY <1>2, <3>1, <3>2
    <2> QED
      BY <2>1, <2>2, NextMoves
  <1>3. ASSUME NEW p \in Procs, Interrupt(p) \/ Kill(p) PROVE NextInv'
    <2>1. UNCHANGED next /\ (UNCHANGED at \/ at' = [at EXCEPT ![p] = "out"])
      BY <1>3 DEF Interrupt, Kill, Exits, progress
    <2> QED
      BY <2>1, NextMoves DEF Inside
  <1>4. CASE Outage
    BY <1>4 DEF Outage, progress, NextInv, InLoop, Inside
  <1>5. CASE UNCHANGED <<at, next>>
    BY <1>5 DEF NextInv, InLoop
  <1>6. CASE UNCHANGED vars
    BY <1>5, <1>6 DEF vars, progress
  <1>7. ASSUME NEW p \in Procs, Check(p), UNCHANGED <<at, code, starts, waivers, own>>
        PROVE  NextInv'
    BY <1>5, <1>7 DEF own, progress
  <1>8. CASE (Publish \/ Expire) /\ UNCHANGED <<at, code, starts, waivers, own>>
    BY <1>5, <1>8 DEF own, progress
  <1> QED
    BY <1>1, <1>2, <1>3, <1>4, <1>6, <1>7, <1>8, RunNext DEF Next

\* Which file an update is misled to is asked once, and forgotten by the next.
MisledInv == misled \in [Procs -> BOOLEAN]

LEMMA MisledStep == MisledInv /\ [Next]_vars => MisledInv'
  <1> SUFFICES ASSUME MisledInv, [Next]_vars PROVE MisledInv'
    OBVIOUS
  <1>1. UNCHANGED misled
           \/ \E p \in Procs, b \in BOOLEAN : misled' = [misled EXCEPT ![p] = b]
    <2>1. ASSUME NEW p \in Procs, Begin(p) \/ Restart(p)
          PROVE  UNCHANGED misled \/ misled' = [misled EXCEPT ![p] = FALSE]
      BY <2>1 DEF Begin, Restart, Fresh, install
    <2>2. ASSUME NEW p \in Procs, LocateExe(p)
          PROVE  UNCHANGED misled \/ \E b \in BOOLEAN : misled' = [misled EXCEPT ![p] = b]
      BY <2>2 DEF LocateExe, NamesDeadFile
    <2>3. ASSUME NEW p \in Procs, Run(p), ~Restart(p)
          PROVE  UNCHANGED misled
      BY <2>3 DEF Run, StartRun, AwaitNotice, Accept, Decline, NotReached, Reach, Scan,
                  Plan, NoVault, Execute, Finish, update, install
    <2>4. ASSUME NEW p \in Procs, UpdateStep(p), ~LocateExe(p)
          PROVE  UNCHANGED misled
      BY <2>4 DEF UpdateStep, FetchManifest, OnlyChecks, InstallFails, Abandon, Download,
                  WriteStaged, Sync, TestStaged, Rename, update, install
    <2>5. ASSUME NEW p \in Procs, Interrupt(p) \/ Kill(p) \/ Check(p)
          PROVE  UNCHANGED misled
      BY <2>5 DEF Interrupt, Kill, Check, update, install
    <2>6. Outage \/ Publish \/ Expire \/ UNCHANGED update => UNCHANGED misled
      BY DEF Outage, Publish, Expire, update, install
    <2> QED
      <3>1. CASE Next
        BY <2>1, <2>2, <2>3, <2>4, <2>5, <2>6, <3>1 DEF Next
      <3>2. CASE UNCHANGED vars
        BY <2>6, <3>2 DEF vars
      <3> QED
        BY <3>1, <3>2
  <1> QED
    BY <1>1 DEF MisledInv

\* The state keeps its types: what is at the executable's path is a release
\* or broken, the loop stays within the contexts, every process ends with a
\* code the program has.
THEOREM TypeCorrect == Spec => []TypeOK
  <1>1. UpdateInv /\ WaiverInv /\ ExitInv /\ RestInv /\ NextInv /\ MisledInv => TypeOK
    <2> SUFFICES ASSUME UpdateInv, WaiverInv, ExitInv, RestInv, NextInv, MisledInv
                 PROVE  TypeOK
      OBVIOUS
    <2>1. next \in [Procs -> 1..Len(Contexts) + 1]
      <3>1. Len(Contexts) \in Nat
        BY CommandsAssumption
      <3>2. \A p \in Procs : next[p] \in 1..Len(Contexts) + 1
        BY <3>1 DEF NextInv, InLoop, ExitInv, ExitShape
      <3> QED
        BY <3>2 DEF ExitInv, ExitShape
    <2>2. {replaced, guard, accepted, synced, misled, apply, flag, failed}
              \subseteq [Procs -> BOOLEAN]
      BY DEF UpdateInv, ShapeInv, ExitInv, ExitShape, RestInv, MisledInv
    <2>3. /\ feed \in Versions /\ manifest \in [Procs -> Versions] /\ durable \in BOOLEAN
          /\ staged \in [Procs -> Versions \union {Broken, None}]
      BY DEF UpdateInv, ShapeInv
    <2>4. /\ file \in (SUBSET Selectors) \union {Torn}
          /\ mem \in [Procs -> SUBSET Selectors] /\ wanted \in [Procs -> Selectors]
          /\ inForce \subseteq Selectors /\ disturbed \in BOOLEAN
          /\ plan \in [Procs -> SUBSET Items] /\ taken \in [Procs -> SUBSET Items]
          /\ owed \in [Procs -> SUBSET Selectors]
      BY DEF WaiverInv, WaiverShape
    <2>5. /\ seen \in [Procs -> SUBSET Engines] /\ exit \in [Procs -> {0, 1, 5}]
          /\ tally \in [Procs -> [Engines -> Nat]]
          /\ at \in [Procs -> RunSteps \union Changing \union
                        {"out", "locating", "fetching", "installing", "writing", "syncing",
                         "testing", "renaming"}]
      BY DEF ExitInv, ExitShape, Trouble, Steps
    <2> QED
      BY <2>1, <2>2, <2>3, <2>4, <2>5 DEF RestInv, Codes, TypeOK
  <1>2. Init => MisledInv
    BY DEF Init, UpdateInit, MisledInv
  <1> QED
    BY UpdateInvInit, UpdateInvStep, WaiverInvInit, WaiverInvStep, ExitInvInit, ExitInvStep,
       RestInit, RestStep, NextInit, NextStep, MisledStep, <1>1, <1>2, PTL DEF Spec
=============================================================================
