------------------------------- MODULE Reclaim -------------------------------
(***************************************************************************)
(* What a run says it freed: what the items came to, what the host gave    *)
(* back, and when the two are too far apart (disk/mod.rs and the end of    *)
(* Executor::run).  None of it decides what is removed.                    *)
(*                                                                         *)
(* A figure that may be missing is a set of at most one number.  Bytes are *)
(* naturals: no disk holds the 2^63 of them at which doubling overflows;   *)
(* in Slack they are counted by the million.                               *)
(***************************************************************************)
EXTENDS Integers, Sequences

LOCAL INSTANCE SequencesExt

\* Bytes subtract to nothing at least.
Minus(a, b) == IF a > b THEN a - b ELSE 0

Total(sizes) ==
    LET Add(sum, size) == IF size = {} THEN sum ELSE sum + CHOOSE n \in size : TRUE
    IN  FoldLeft(Add, 0, sizes)
-----------------------------------------------------------------------------
(* The store the daemon's bytes live in.                                   *)

Runtimes == {"linux", "orbstack", "desktop-mac", "colima", "podman", "desktop-windows", "other"}

Backing(kind) == [kind |-> kind, compacts |-> FALSE]

\* By the runtime, where it is, and whether its data root or its disk image
\* is found; a Linux binary under WSL sees the wrong file system.
detect(runtime, remote, wsl, found) ==
    CASE remote -> Backing("remote")
      [] ~remote /\ (wsl \/ runtime = "desktop-windows") -> Backing("vhdx")
      [] ~remote /\ ~wsl /\ runtime = "linux" /\ found -> Backing("native")
      [] ~remote /\ ~wsl /\ runtime \in {"orbstack", "desktop-mac", "colima", "podman"} /\ found ->
             [kind |-> "sparse", compacts |-> runtime = "orbstack"]
      [] OTHER -> Backing("unknown")

\* An image has committed blocks; either kind has a file system with room.
measure(store, committed, room) ==
    [physical |-> IF store.kind = "sparse" THEN committed ELSE {},
     free |-> IF store.kind \in {"native", "sparse"} THEN room ELSE {}]

compaction(store) ==
    CASE store.kind = "native" -> "not needed"
      [] store.kind = "sparse" -> IF store.compacts THEN "automatic" ELSE "triggerable"
      [] store.kind = "vhdx" -> "manual"
      [] OTHER -> "unavailable"
-----------------------------------------------------------------------------
(* Before and after.                                                       *)

\* Blocks the image gave back, or room gained where one of the two readings
\* has no blocks.
HostMeasured(before, after) ==
    IF before.physical # {} /\ after.physical # {}
    THEN {Minus(b, a) : b \in before.physical, a \in after.physical}
    ELSE {Minus(a, b) : b \in before.free, a \in after.free}

Confidence(measured, claimed, store) ==
    CASE measured = {} -> "unknown"
      [] measured # {} /\ (store.kind = "native" \/ claimed = 0) -> "high"
      [] OTHER -> IF \A m \in measured : claimed <= 2 * m /\ 2 * m <= 3 * claimed
                  THEN "high" ELSE "medium"

reconcile(before, after, claimed, store) ==
    LET measured == HostMeasured(before, after) IN
    [docker_reported |-> claimed, host_measured |-> measured,
     confidence |-> Confidence(measured, claimed, store), compaction |-> compaction(store)]

shortfall_worth_mentioning(r) ==
    \E m \in r.host_measured :
        r.docker_reported > 0 /\ 2 * m < r.docker_reported /\ r.compaction # "not needed"

\* The readings of the host follow each other half a second apart until two
\* in a row are as the one before, or the fifteen seconds are over.
settle(readings) ==
    LET Look(s, next) ==
            IF s.stable = 2 THEN s
            ELSE [last |-> next, stable |-> IF next = s.last THEN s.stable + 1 ELSE 0]
        s == FoldLeft(Look, [last |-> Head(readings), stable |-> 0], Tail(readings))
    IN [usage |-> s.last, settled |-> s.stable = 2]
-----------------------------------------------------------------------------
(* The receipt.                                                            *)

Removed(outcome) == outcome \in {"deleted", "preserved"}

\* What was freed is what removed items were said to hold, and what the
\* daemon says of the build cache.
Freed(items, simulated) ==
    Total([i \in DOMAIN items |->
               IF Removed(items[i].outcome) \/ (simulated /\ items[i].outcome = "would delete")
               THEN items[i].size ELSE {}])

\* What was promised: the items that went, and the cache as planned.
Predicted(items, cache) ==
    Total([i \in DOMAIN items |->
               IF Removed(items[i].outcome) \/ items[i].outcome = "would delete"
               THEN items[i].size ELSE {}]) + cache

\* A million bytes or less is rounding.
Slack == 1

FarShort(got, want) == 2 * got <= want /\ Minus(want, got) > Slack

\* The warning of the run, and the line of the receipt.
WarnsOfShortfall(r) == ~r.simulated /\ ~r.cancelled /\ FarShort(r.docker_reported, r.predicted)

shortfall(r) ==
    IF r.simulated \/ r.cancelled \/ r.predicted = 0 THEN FALSE
    ELSE FarShort(r.docker_reported, r.predicted)

\* A cut run does not wait for the host; a dry one compares it with itself.
Receipt(items, cache, pruned, simulated, cancelled, store, before, readings) ==
    LET got == Freed(items, simulated) + pruned IN
    [simulated |-> simulated, cancelled |-> cancelled, docker_reported |-> got,
     predicted |-> Predicted(items, cache),
     reclamation |-> IF cancelled THEN {}
                     ELSE IF simulated THEN {reconcile(before, before, got, store)}
                     ELSE {reconcile(before, settle(readings).usage, got, store)}]
=============================================================================
