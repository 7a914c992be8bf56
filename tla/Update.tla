-------------------------------- MODULE Update --------------------------------
(***************************************************************************)
(* How the command line replaces itself: a check for a newer release on a  *)
(* thread beside the run, its remembered answer, and the installation of   *)
(* one artifact by staging, testing and renaming.  What is downloaded and  *)
(* digested, and where the paths are, is left out; so is the time of day:  *)
(* the remembered answer just stops being fresh.                           *)
(***************************************************************************)
EXTENDS Processes

CONSTANTS
    MaxVersion,     \* bound: releases
    Says,           \* what the binary of a release answers to --version
    Broken,         \* one that does not run, or half a file
    KeepsPath,      \* current_exe of a replaced binary is its path (macOS)
    None, Failed, Asked, Silent

ASSUME UpdateAssumption ==
    /\ MaxVersion \in Nat \ {0}
    /\ Says \in [1..MaxVersion -> 1..MaxVersion \union {Broken}]
    /\ KeepsPath \in BOOLEAN
    /\ Broken \notin 1..MaxVersion

Versions == 1..MaxVersion

VARIABLES
    feed,       \* the release the signed manifest names
    cache,      \* the remembered answer: a release, Failed, or None
    origin,     \* of the executable: "standalone" or "managed"
    exe,        \* the file at its path: whose binary, or Broken
    durable,    \* whether its bytes are on the disk, not only in memory
    dead,       \* a file under the name a replaced binary has, or None
    runs,       \* the release a process runs
    replaced,   \* whether the file it was started from was renamed over
    guard,      \* REEXEC_GUARD is in its environment
    accepted,   \* it installs because an offer was accepted
    answer,     \* of its check: None, Asked, Silent, or a release
    manifest,   \* what it fetched to install
    staged,     \* its staged file: None, Broken or a release's binary
    synced,     \* fsync was called on it
    misled,     \* the path it installs to is that of a dead file
    landed      \* history: the release an offer has installed, or None

self == <<runs, replaced, guard, accepted>>
install == <<manifest, staged, synced, misled>>
disk == <<exe, durable, dead, origin>>
update == <<feed, cache, disk, self, answer, install, landed>>

IsNewer(p, v) == v > runs[p]
-----------------------------------------------------------------------------
\* A release is published.  Bound: MaxVersion.
Publish ==
    /\ feed < MaxVersion
    /\ feed' = feed + 1
    /\ UNCHANGED <<cache, disk, self, answer, install, landed>>

\* Cached::fresh_at: a day for an answer, an hour for a failure.
Expire ==
    /\ cache # None
    /\ cache' = None
    /\ UNCHANGED <<feed, disk, self, answer, install, landed>>

\* Checker::decide, without the kinds of silence told apart.
Decide(p, v) == IF v # Failed /\ IsNewer(p, v) THEN v ELSE Silent

Answers(p, a) == answer' = [answer EXCEPT ![p] = a]

\* The thread of spawn_check: off or no curl; a fresh answer; or a fetch,
\* which is remembered whichever way it went.
Check(p) ==
    /\ at[p] # "out" /\ answer[p] = Asked
    /\ \/ Answers(p, Silent) /\ UNCHANGED cache
       \/ cache # None /\ Answers(p, Decide(p, cache)) /\ UNCHANGED cache
       \/ /\ cache = None
          /\ \E v \in {feed, Failed} : Answers(p, Decide(p, v)) /\ cache' = v
    /\ UNCHANGED <<feed, disk, self, install, landed>>
-----------------------------------------------------------------------------
(* run_update and install, for the command and for an accepted offer.      *)

\* With nothing more to install an accepted offer still restarts.
Concludes(p) == IF accepted[p] THEN Goes(p, "restarting") ELSE Exits(p, 0)

\* current_exe: the kernel of Linux has no path for a file renamed over, only
\* the old one with " (deleted)" after it.
NamesDeadFile(p) == replaced[p] /\ ~KeepsPath

\* run_update looks at its path before it fetches, and installs there however
\* long that takes.  No key, no curl, or no path at all ends it.
LocateExe(p) ==
    /\ at[p] = "locating"
    /\ \/ /\ \E c \in {1, ConfigError} : Exits(p, c)
          /\ UNCHANGED misled
       \/ /\ misled' = [misled EXCEPT ![p] = NamesDeadFile(p)]
          /\ Goes(p, "fetching")
    /\ UNCHANGED <<feed, cache, disk, self, answer, manifest, staged, synced, landed>>

FetchManifest(p) ==
    /\ at[p] = "fetching"
    /\ \/ /\ \E c \in {ConfigError, Trouble} : Exits(p, c)
          /\ UNCHANGED manifest
       \/ /\ manifest' = [manifest EXCEPT ![p] = feed]
          /\ IF IsNewer(p, feed) THEN Goes(p, "installing") ELSE Concludes(p)
    /\ UNCHANGED <<feed, cache, disk, self, answer, staged, synced, misled, landed>>

\* --check-update
OnlyChecks(p) ==
    /\ at[p] = "installing" /\ ~accepted[p]
    /\ Exits(p, 1)
    /\ UNCHANGED update

\* Staged is dropped, and with it the staged file.
Abandon(p) ==
    /\ \E c \in {1, ConfigError} : Exits(p, c)
    /\ staged' = [staged EXCEPT ![p] = None]
    /\ UNCHANGED <<feed, cache, disk, self, answer, manifest, synced, misled, landed>>

\* A managed copy, a release without a build for this host, a directory that
\* cannot be written to, a download that fails or is not what was signed; a
\* full disk; a binary that does not run or is another release's; a rename
\* that is refused.
InstallFails(p) ==
    /\ at[p] \in {"installing", "writing", "syncing", "testing", "renaming"}
    /\ Abandon(p)

Download(p) ==
    /\ at[p] = "installing"
    /\ origin = "standalone"
    /\ staged' = [staged EXCEPT ![p] = Broken]
    /\ synced' = [synced EXCEPT ![p] = FALSE]
    /\ Goes(p, "writing")
    /\ UNCHANGED <<feed, cache, disk, self, answer, manifest, misled, landed>>

\* write_executable
WriteStaged(p) ==
    /\ at[p] = "writing"
    /\ staged' = [staged EXCEPT ![p] = manifest[p]]
    /\ Goes(p, "syncing")
    /\ UNCHANGED <<feed, cache, disk, self, answer, manifest, synced, misled, landed>>

\* Mutation: the bytes are left to the system to write.
NeverSync(p) ==
    /\ at[p] = "syncing"
    /\ Goes(p, "testing")
    /\ UNCHANGED update

Sync(p) ==
    /\ at[p] = "syncing"
    /\ synced' = [synced EXCEPT ![p] = TRUE]
    /\ Goes(p, "testing")
    /\ UNCHANGED <<feed, cache, disk, self, answer, manifest, staged, misled, landed>>

\* version_of
TestStaged(p) ==
    /\ at[p] = "testing"
    /\ Says[manifest[p]] = manifest[p]
    /\ Goes(p, "renaming")
    /\ UNCHANGED update

Rename(p) ==
    /\ at[p] = "renaming"
    /\ IF misled[p]
       THEN /\ dead' = staged[p]
            /\ UNCHANGED <<exe, durable, replaced>>
       ELSE /\ exe' = staged[p] /\ durable' = synced[p]
            /\ replaced' = [q \in Procs |-> replaced[q] \/ at[q] # "out"]
            /\ UNCHANGED dead
    /\ staged' = [staged EXCEPT ![p] = None]
    /\ landed' = IF accepted[p] THEN [landed EXCEPT ![p] = manifest[p]] ELSE landed
    /\ Concludes(p)
    /\ UNCHANGED <<feed, cache, origin, runs, guard, accepted, answer, manifest, synced,
                   misled>>

\* What reexec_into_new_binary finds, looking at its path once more.
Successor(p) == IF NamesDeadFile(p) THEN dead ELSE exe

UpdateStep(p) ==
    \/ LocateExe(p) \/ FetchManifest(p) \/ OnlyChecks(p) \/ InstallFails(p)
    \/ Download(p) \/ WriteStaged(p) \/ Sync(p) \/ TestStaged(p) \/ Rename(p)

UpdateInit ==
    /\ feed = 1 /\ cache = None
    /\ origin \in {"standalone", "managed"}
    /\ exe = 1 /\ durable = TRUE /\ dead = None
    /\ runs = [p \in Procs |-> 1]
    /\ replaced = [p \in Procs |-> FALSE] /\ guard = [p \in Procs |-> FALSE]
    /\ accepted = [p \in Procs |-> FALSE]
    /\ answer = [p \in Procs |-> None]
    /\ manifest = [p \in Procs |-> 1]
    /\ staged = [p \in Procs |-> None] /\ synced = [p \in Procs |-> FALSE]
    /\ misled = [p \in Procs |-> FALSE]
    /\ landed = [p \in Procs |-> None]
=============================================================================
