------------------------------- MODULE Vault -------------------------------
(***************************************************************************)
(* The vault: a verified copy taken before anything irreversible happens.  *)
(*                                                                         *)
(* Vault::store writes an archive under a temporary name, syncs it,        *)
(* measures it from disk, renames it, verifies it and writes its manifest; *)
(* a returned entry is the caller's permission to remove the volume.       *)
(* Processes (a cleanup, --vault-dump, --vault-forget, --vault-restore)    *)
(* share the directory and the daemon, without a lock.  A process may be   *)
(* killed between any two steps, and the machine may lose power.           *)
(*                                                                         *)
(* An archive is abstracted to what it is an archive of, so equality of    *)
(* bytes stands for equality of digests; Partial is a file that is not a   *)
(* whole archive, Rotten one that has decayed on disk.                     *)
(***************************************************************************)
EXTENDS Integers

CONSTANTS
    Procs,      \* the prune-juice processes
    Vols,       \* volume names
    Seconds,    \* the values now_unix may have
    Content,    \* what a volume may hold that somebody wrote
    Empty, Mixed,           \* a volume just created; one restored over
    Partial, Rotten,        \* archives that are none
    NoFile, None            \* no such file; nothing there

Ids == Vols \X Seconds
VolOf(id) == id[1]

\* What an archive can be an archive of.
Archived == Content \union {Empty, Mixed, Partial}

StoreStages == {"create", "dump", "sync", "digest", "count", "rename",
                "verify", "manifest", "returned"}
RestoreStages == {"check", "read", "list", "volume", "upload"}
ForgetStages == {"unlink", "unlist"}

\* A file on disk, and whether its bytes are on stable storage.
File == [holds : Archived \union {Rotten}, synced : BOOLEAN]

ASSUME VaultAssumption ==
    /\ NoFile \notin File
    /\ None \notin Archived \union Ids \union {Rotten}
    /\ Rotten \notin Archived
    /\ Empty \notin Content /\ Mixed \notin Content /\ Partial \notin Content
    /\ Empty # Mixed /\ Empty # Partial /\ Mixed # Partial

VARIABLES
    data,       \* the daemon: what each volume holds, or None if there is none
    part,       \* the directory: <id>.tar.gz.part
    final,      \* the directory: <id>.tar.gz
    manifest,   \* the directory: <id>.json, as the digest it records
    settled,    \* the ids whose directory entries are on stable storage
    pc,         \* what each process is doing
    id,         \* the entry it is doing it to
    fd,         \* where the file it has open is now: "part", "final", "gone"
    digest,     \* entry.sha256, measured or read from a manifest
    tar,        \* the archive it is restoring
    relied,     \* history: entries on the strength of which a volume went
    forgotten,  \* history: entries a user asked to forget
    crossed,    \* history: entries that two stores were at together
    outage      \* history: whether the power has been lost

directory == <<part, final, manifest, settled>>
process == <<id, fd, digest, tar>>
history == <<relied, forgotten, crossed, outage>>
vars == <<data, directory, pc, process, history>>

Vol(p) == VolOf(id[p])

\* The dump's container is created over the volume and holds it.
Dumped(v) == \E p \in Procs : pc[p] = "dump" /\ Vol(p) = v

Init ==
    /\ data \in [Vols -> Content \union {None}]
    /\ part = [i \in Ids |-> NoFile]
    /\ final = [i \in Ids |-> NoFile]
    /\ manifest = [i \in Ids |-> None]
    /\ settled = {}
    /\ pc = [p \in Procs |-> "idle"]
    /\ id = [p \in Procs |-> None]
    /\ fd = [p \in Procs |-> "gone"]
    /\ digest = [p \in Procs |-> None]
    /\ tar = [p \in Procs |-> None]
    /\ relied = {}
    /\ forgotten = {}
    /\ crossed = {}
    /\ outage = FALSE

Goto(p, stage) == pc' = [pc EXCEPT ![p] = stage]

\* A process is done: it closes its file and forgets what it was at.
Finished(p, open) ==
    /\ pc' = [pc EXCEPT ![p] = "idle"]
    /\ id' = [id EXCEPT ![p] = None]
    /\ fd' = [open EXCEPT ![p] = "gone"]
    /\ digest' = [digest EXCEPT ![p] = None]
    /\ tar' = [tar EXCEPT ![p] = None]

Done(p) == Finished(p, fd)

\* The files at the paths of entry i move, and so do descriptors on them.
Moved(i, to) == [q \in Procs |-> IF id[q] = i THEN to[fd[q]] ELSE fd[q]]

At(p, i) == id' = [id EXCEPT ![p] = i] /\ UNCHANGED <<fd, tar>>
-----------------------------------------------------------------------------
(* Vault::store.                                                           *)

\* The id is the volume and the second; the entry must not exist.  It does
\* not exist while another store has yet to name it, so two may be at it.
\* Bound: the second of a forgotten entry does not come again.
StoreBegins(p) ==
    /\ pc[p] = "idle"
    /\ \E i \in Ids \ forgotten :
           /\ data[VolOf(i)] # None
           /\ final[i] = NoFile
           /\ At(p, i)
           /\ crossed' = crossed \union
                  {j \in {i} : \E q \in Procs : pc[q] \in StoreStages /\ id[q] = j}
    /\ Goto(p, "create")
    /\ UNCHANGED <<data, directory, digest, relied, forgotten, outage>>

\* The process writes through its descriptor, wherever the file has gone.
Writes(p, holds, synced) ==
    LET file == [holds |-> holds, synced |-> synced] IN
    /\ part' = IF fd[p] = "part" THEN [part EXCEPT ![id[p]] = file] ELSE part
    /\ final' = IF fd[p] = "final" THEN [final EXCEPT ![id[p]] = file] ELSE final

\* File::create: an existing file is truncated, whoever is writing to it.
\* Docker makes a volume a bind mount names and does not find.
CreatesPart(p) ==
    /\ pc[p] = "create"
    /\ part' = [part EXCEPT ![id[p]] = [holds |-> Partial, synced |-> FALSE]]
    /\ fd' = [fd EXCEPT ![p] = "part"]
    /\ data' = [data EXCEPT ![Vol(p)] = IF @ = None THEN Empty ELSE @]
    /\ Goto(p, "dump")
    /\ UNCHANGED <<final, manifest, settled, id, digest, tar, history>>

\* The stream ends and the encoder is finished.
Dumps(p) ==
    /\ pc[p] = "dump"
    /\ Writes(p, data[Vol(p)], FALSE)
    /\ Goto(p, "sync")
    /\ UNCHANGED <<data, manifest, settled, process, history>>

\* Mutation: the archive is trusted before it is on stable storage.
SyncsNothing(p) ==
    /\ pc[p] = "sync"
    /\ Goto(p, "digest")
    /\ UNCHANGED <<data, directory, process, history>>

Written(p) == CASE fd[p] = "part" -> part[id[p]].holds
                [] fd[p] = "final" -> final[id[p]].holds
                [] OTHER -> Partial

\* fsync before we trust it.
Syncs(p) ==
    /\ pc[p] = "sync"
    /\ Writes(p, Written(p), TRUE)
    /\ Goto(p, "digest")
    /\ UNCHANGED <<data, manifest, settled, process, history>>

\* The digest is of the file at the path, which may not be the one written.
Digests(p) ==
    /\ pc[p] = "digest"
    /\ part[id[p]] # NoFile
    /\ digest' = [digest EXCEPT ![p] = part[id[p]].holds]
    /\ Goto(p, "count")
    /\ UNCHANGED <<data, directory, id, fd, tar, history>>

\* Only a whole archive can be counted to its end.
Counts(p) ==
    /\ pc[p] = "count"
    /\ part[id[p]] # NoFile
    /\ part[id[p]].holds # Partial
    /\ Goto(p, "rename")
    /\ UNCHANGED <<data, directory, process, history>>

\* rename(2) replaces whatever is at the final path.
Renames(p) ==
    /\ pc[p] = "rename"
    /\ part[id[p]] # NoFile
    /\ final' = [final EXCEPT ![id[p]] = part[id[p]]]
    /\ part' = [part EXCEPT ![id[p]] = NoFile]
    /\ fd' = Moved(id[p], [part |-> "final", final |-> "gone", gone |-> "gone"])
    /\ settled' = settled \ {id[p]}
    /\ Goto(p, "verify")
    /\ UNCHANGED <<data, manifest, id, digest, tar, history>>

Intact(p) ==
    /\ final[id[p]] # NoFile
    /\ final[id[p]].holds = digest[p]
    /\ digest[p] # Partial

Verifies(p) ==
    /\ pc[p] = "verify"
    /\ Intact(p)
    /\ Goto(p, "manifest")
    /\ UNCHANGED <<data, directory, process, history>>

\* Mutation: the entry is returned, and listed nowhere.
ListsNothing(p) ==
    /\ pc[p] = "manifest"
    /\ Goto(p, "returned")
    /\ UNCHANGED <<data, directory, process, history>>

\* The manifest is written in place, and the entry returned.
Lists(p) ==
    /\ pc[p] = "manifest"
    /\ manifest' = [manifest EXCEPT ![id[p]] = digest[p]]
    /\ settled' = settled \ {id[p]}
    /\ Goto(p, "returned")
    /\ UNCHANGED <<data, part, final, process, history>>

\* A dump, a digest or a count that fails takes the temporary file with it,
\* by name.
StoreCleansUp(p) ==
    /\ pc[p] \in {"dump", "digest", "count"}
    /\ part' = [part EXCEPT ![id[p]] = NoFile]
    /\ Finished(p, Moved(id[p], [part |-> "gone", final |-> "final", gone |-> "gone"]))
    /\ UNCHANGED <<data, final, manifest, settled, history>>

\* Mutation: a store that fails is tried again, for ever.
StoreRetries(p) ==
    /\ pc[p] \in {"create", "dump", "sync", "rename", "verify", "manifest"}
    /\ Goto(p, "create")
    /\ UNCHANGED <<data, directory, process, history>>

\* Anything else that fails leaves the directory as it is: no room, no
\* file, a finish, a sync or a rename that does not succeed, a mismatch.
StoreFails(p) ==
    /\ pc[p] \in {"create", "dump", "sync", "rename", "verify", "manifest"}
    /\ Done(p)
    /\ UNCHANGED <<data, directory, history>>

\* What the caller may now do: remove the volume, which the daemon refuses
\* while a dump of it is under way.
RemovesVolume(p) ==
    /\ pc[p] = "returned"
    /\ data[Vol(p)] # None
    /\ ~Dumped(Vol(p))
    /\ data' = [data EXCEPT ![Vol(p)] = None]
    /\ relied' = relied \union {id[p]}
    /\ Done(p)
    /\ UNCHANGED <<directory, forgotten, crossed, outage>>

\* --vault-dump only preserves, and a removal may be refused.
LeavesVolume(p) ==
    /\ pc[p] = "returned"
    /\ Done(p)
    /\ UNCHANGED <<data, directory, history>>
-----------------------------------------------------------------------------
(* Vault::restore and Vault::forget, on entries listed at the start.       *)

RestoreBegins(p) ==
    /\ pc[p] = "idle"
    /\ \E i \in Ids :
           /\ manifest[i] # None
           /\ At(p, i)
           /\ digest' = [digest EXCEPT ![p] = manifest[i]]
    /\ Goto(p, "check")
    /\ UNCHANGED <<data, directory, history>>

\* Mutation: the archive is restored as it is found.
ChecksNothing(p) ==
    /\ pc[p] = "check"
    /\ Goto(p, "read")
    /\ UNCHANGED <<data, directory, process, history>>

Checks(p) ==
    /\ pc[p] = "check"
    /\ Intact(p)
    /\ Goto(p, "read")
    /\ UNCHANGED <<data, directory, process, history>>

\* The archive is opened again, and decoded to its end.
Reads(p) ==
    /\ pc[p] = "read"
    /\ final[id[p]] # NoFile
    /\ final[id[p]].holds # Partial
    /\ tar' = [tar EXCEPT ![p] = final[id[p]].holds]
    /\ Goto(p, "list")
    /\ UNCHANGED <<data, directory, id, fd, digest, history>>

\* A restore is refused over anything that exists.
FindsNoVolume(p) ==
    /\ pc[p] = "list"
    /\ data[Vol(p)] = None
    /\ Goto(p, "volume")
    /\ UNCHANGED <<data, directory, process, history>>

\* The daemon answers to the creation of a volume that exists with that one.
CreatesVolume(p) ==
    /\ pc[p] = "volume"
    /\ data' = [data EXCEPT ![Vol(p)] = IF @ = None THEN Empty ELSE @]
    /\ Goto(p, "upload")
    /\ UNCHANGED <<directory, process, history>>

\* A container is created over the volume and the archive unpacked into it.
Uploads(p) ==
    /\ pc[p] = "upload"
    /\ data' = [data EXCEPT ![Vol(p)] = IF @ \in {None, Empty} THEN tar[p] ELSE Mixed]
    /\ Done(p)
    /\ UNCHANGED <<directory, history>>

\* No archive, no match, a volume by that name, a daemon that went away: the
\* volume a failed upload was meant for stays.
RestoreFails(p) ==
    /\ pc[p] \in RestoreStages
    /\ Done(p)
    /\ UNCHANGED <<data, directory, history>>

ForgetBegins(p) ==
    /\ pc[p] = "idle"
    /\ \E i \in Ids :
           /\ manifest[i] # None
           /\ At(p, i)
           /\ forgotten' = forgotten \union {i}
    /\ Goto(p, "unlink")
    /\ UNCHANGED <<data, directory, digest, relied, crossed, outage>>

\* The archive goes first, and if there is none the manifest stays.
Unlinks(p) ==
    LET open == Moved(id[p], [part |-> "part", final |-> "gone", gone |-> "gone"]) IN
    /\ pc[p] = "unlink"
    /\ IF final[id[p]] = NoFile THEN Finished(p, open)
       ELSE Goto(p, "unlist") /\ fd' = open /\ UNCHANGED <<id, digest, tar>>
    /\ final' = [final EXCEPT ![id[p]] = NoFile]
    /\ UNCHANGED <<data, part, manifest, settled, history>>

Unlists(p) ==
    /\ pc[p] = "unlist"
    /\ manifest' = [manifest EXCEPT ![id[p]] = None]
    /\ Done(p)
    /\ UNCHANGED <<data, part, final, settled, history>>
-----------------------------------------------------------------------------
(* What happens around it.                                                 *)

\* A process is killed, wherever it is.
Killed(p) ==
    /\ pc[p] # "idle"
    /\ Done(p)
    /\ UNCHANGED <<data, directory, history>>

\* The system writes its directories back when it likes.
Settles ==
    /\ settled # Ids
    /\ settled' = Ids
    /\ UNCHANGED <<data, part, final, manifest, pc, process, history>>

\* The power goes: every process ends, bytes never synced are lost, and the
\* last changes to the directory may be undone, a manifest before the archive
\* it was written after.
PowerFails ==
    LET Left(file) == IF file = NoFile \/ file.synced THEN file
                      ELSE [holds |-> Partial, synced |-> TRUE] IN
    /\ ~outage
    /\ outage' = TRUE
    /\ \E unlisted \in SUBSET (Ids \ settled) : \E unnamed \in SUBSET unlisted :
           /\ manifest' = [i \in Ids |-> IF i \in unlisted THEN None ELSE manifest[i]]
           /\ final' = [i \in Ids |-> IF i \in unnamed THEN NoFile ELSE Left(final[i])]
    /\ part' = [i \in Ids |-> Left(part[i])]
    /\ settled' = Ids
    /\ pc' = [p \in Procs |-> "idle"]
    /\ id' = [p \in Procs |-> None]
    /\ fd' = [p \in Procs |-> "gone"]
    /\ digest' = [p \in Procs |-> None]
    /\ tar' = [p \in Procs |-> None]
    /\ UNCHANGED <<data, relied, forgotten, crossed>>

\* A stored archive decays.  Bound: not between a restore's check and its read.
Rots(i) ==
    /\ manifest[i] # None
    /\ final[i] # NoFile
    /\ \A p \in Procs : ~(pc[p] = "read" /\ id[p] = i)
    /\ final' = [final EXCEPT ![i].holds = Rotten]
    /\ UNCHANGED <<data, part, manifest, settled, pc, process, history>>

\* Other people create, write to and remove volumes.
OthersUse(v) ==
    /\ \E c \in (Content \union {None}) \ {data[v]} :
           /\ c = None => ~Dumped(v)
           /\ data' = [data EXCEPT ![v] = c]
    /\ UNCHANGED <<directory, pc, process, history>>
-----------------------------------------------------------------------------
\* What a process that has begun does next.
Continues(p) ==
    \/ CreatesPart(p) \/ Dumps(p) \/ Syncs(p) \/ Digests(p) \/ Counts(p)
    \/ Renames(p) \/ Verifies(p) \/ Lists(p)
    \/ StoreCleansUp(p) \/ StoreFails(p) \/ RemovesVolume(p) \/ LeavesVolume(p)
    \/ Checks(p) \/ Reads(p) \/ FindsNoVolume(p) \/ CreatesVolume(p)
    \/ Uploads(p) \/ RestoreFails(p)
    \/ Unlinks(p) \/ Unlists(p)

Begins(p) == StoreBegins(p) \/ RestoreBegins(p) \/ ForgetBegins(p)

Next ==
    \/ \E p \in Procs : Begins(p) \/ Continues(p) \/ Killed(p)
    \/ Settles \/ PowerFails
    \/ \E i \in Ids : Rots(i)
    \/ \E v \in Vols : OthersUse(v)

\* Every process is scheduled, and every call it makes returns or times out,
\* but the stream a dump reads: once it has begun, nothing bounds it.
Spec ==
    /\ Init /\ [][Next]_vars
    /\ \A p \in Procs : WF_vars(pc[p] # "dump" /\ Continues(p))
-----------------------------------------------------------------------------
\* The shape of the state: a process is at an entry just when it is doing
\* something (Vault, VaultEntry).
TypeOK ==
    /\ data \in [Vols -> Archived \union {None}]
    /\ part \in [Ids -> File \union {NoFile}]
    /\ final \in [Ids -> File \union {NoFile}]
    /\ manifest \in [Ids -> Archived \union {None}]
    /\ settled \in SUBSET Ids
    /\ pc \in [Procs -> {"idle"} \union StoreStages \union RestoreStages \union ForgetStages]
    /\ id \in [Procs -> Ids \union {None}]
    /\ \A p \in Procs : pc[p] = "idle" <=> id[p] = None
    /\ fd \in [Procs -> {"part", "final", "gone"}]
    /\ digest \in [Procs -> Archived \union {Rotten, None}]
    /\ tar \in [Procs -> Archived \union {Rotten, None}]
    /\ relied \in SUBSET Ids
    /\ forgotten \in SUBSET Ids
    /\ crossed \in SUBSET Ids
    /\ outage \in BOOLEAN

\* The archive of an entry, if it has not decayed, is what its manifest says.
Whole(i) == final[i] # NoFile /\ final[i].holds \in {manifest[i], Rotten}

\* What is listed can be restored, whatever was killed and even after an
\* outage: no manifest is of half an archive, and none points at nothing or at
\* something else, unless two stores were at the entry together or the user
\* asked to forget it.
ListedIsWhole ==
    \A i \in Ids :
        /\ manifest[i] # Partial
        /\ manifest[i] # None /\ i \notin forgotten \union crossed => Whole(i)

\* As long as the power stays on, the copy on the strength of which a volume
\* was removed stays listed and whole until the user asks to forget it, unless
\* two stores were at it together.
ReliedCopiesEndure ==
    ~outage => \A i \in relied \ (forgotten \union crossed) : manifest[i] # None /\ Whole(i)

\* What a restore has in hand is a whole archive, and exactly the one the
\* manifest promised, however it fared since it was listed, unless another
\* store renamed its own over it.
RestoreIsExact ==
    \A p \in Procs :
        pc[p] \in {"list", "volume", "upload"} =>
            /\ tar[p] \notin {Partial, Rotten}
            /\ id[p] \notin crossed => tar[p] = digest[p]

\* A process comes to the end of every store, restore and forget, or stands
\* still for ever in one dump.
OperationsEnd ==
    \A p \in Procs : []<>(pc[p] = "idle") \/ <>[](pc[p] = "dump")

\* "A caller may treat a returned entry ... as permission to delete": the copy
\* a volume was removed on stays, with the power and without a forget.
PermissionIsKept ==
    ~outage => \A i \in relied \ forgotten : manifest[i] # None /\ Whole(i)

\* "Refuse to restore over anything that exists": a restore never unpacks
\* into a volume that holds something else.
RestoreNeverMerges == \A v \in Vols : data[v] # Mixed
=============================================================================
