------------------------------ MODULE Executor ------------------------------
(***************************************************************************)
(* Executor::run: a plan is applied, one item at a time, to a daemon that  *)
(* other people are using.                                                 *)
(*                                                                         *)
(* A run re-scans (one report for the whole batch), then for each item in  *)
(* plan order: passes it over, stops at the boundary if interrupted,       *)
(* revalidates its witness against that report, preserves it if it is an   *)
(* irreversible volume, asks the daemon to remove it, and records what     *)
(* came back.  The build cache comes last.  Around it the world moves:     *)
(* containers come, go and write, resources vanish and are recreated,      *)
(* answers are lost, and the process may be killed at any point.           *)
(*                                                                         *)
(* A classification is abstracted to the facts it rests on: TierOf gives   *)
(* the tier of a resource under each of its facts, and equality of facts   *)
(* stands for equality of evidence hashes.                                 *)
(***************************************************************************)
EXTENDS Integers, Sequences

CONSTANTS
    Res,        \* the resources of the planning report
    Order,      \* plan.items: every resource once, in report order
    Volumes,    \* those of kind Volume
    Gone,       \* those whose verdict says they cannot be brought back
    Facts,      \* what a scan can observe of a resource that exists
    Holding,    \* the facts under which a container holds the resource
    TierOf,     \* the tier classify gives: [Res -> [Facts -> Tiers]]
    NameOf,     \* names, which resources of different kinds may share
    Labelled,   \* the resources carrying the label --only-label asks for
    Runs,       \* the ExecuteOptions a run may be started with
    CacheBytes, \* plan.build_cache_reclaimable
    MaxWrites,  \* bound on the writes of other people's containers
    Absent, Unseen,         \* not in the report; not listed yet
    Empty, Torn, Kept, None \* contents of a new volume; a copy read across
                            \* a write; not removed; no outcome, no reply

Tiers == {"free", "orphan", "stale", "repullable", "rebuildable",
          "protected", "unattributed"}

\* The tiers for which the planner mints a witness.
Actionable == Tiers \ {"protected", "unattributed"}

Content == (0..MaxWrites) \union {Empty, Torn}

ExecuteOptions ==
    [apply : BOOLEAN, tiers : SUBSET Tiers, label : BOOLEAN,
     fenced : BOOLEAN, ticked : SUBSET Res, vault : BOOLEAN,
     configured : BOOLEAN]

Outcomes == {"would_delete", "deleted", "already_gone", "skipped", "refused",
             "failed", "preserved", "preserve_failed"}

Replies == {"ok", "in_use", "missing"}

ASSUME ConstantsAssumption ==
    /\ Volumes \subseteq Res
    /\ Gone \subseteq Res
    /\ Holding \subseteq Facts
    /\ TierOf \in [Res -> [Facts -> Tiers]]
    /\ Runs \subseteq ExecuteOptions
    /\ CacheBytes \in Nat
    /\ MaxWrites \in Nat
    /\ Absent \notin Facts
    /\ Unseen \notin Facts
    /\ Absent # Unseen

ASSUME OrderAssumption ==
    /\ Order \in Seq(Res)
    /\ \A i, j \in 1..Len(Order) : Order[i] = Order[j] => i = j

\* The marks stand apart from the values they could be confused with.
ASSUME MarksAssumption ==
    /\ Empty \notin Int
    /\ Torn \notin Int \union {Empty}
    /\ Kept \notin Int \union {Empty, Torn}
    /\ None \notin Outcomes \union Replies \union Int \union {Empty, Torn}

VARIABLES
    present,    \* the daemon: which resources exist
    facts,      \* the daemon: what a scan would observe of each
    data,       \* the daemon: what each volume holds
    writes,     \* how many writes have happened
    planned,    \* the facts the plan's witnesses rest on
    fresh,      \* `now`: the report the whole batch is revalidated against
    opts,       \* the ExecuteOptions of this run
    pc,         \* where the process is
    pos,        \* the item it is at
    copy,       \* what the dump in progress has read
    inflight,   \* removals asked for that the daemon has not acted on
    reply,      \* the daemon's answer to the removal being waited for
    vault,      \* verified copies, as [vol, content]
    outcome,    \* the receipt's items
    cancel,     \* the shared Cancel flag
    cancelled,  \* the receipt's `cancelled`
    cache,      \* the build cache: untouched, would_delete, pruned, failed
    checked,    \* history: what an item held when its witness was accepted,
                \* or None
    removed     \* history: what a resource held when this run removed it

world == <<present, facts, data, writes>>
receipt == <<outcome, cancelled>>
vars == <<present, facts, data, writes, planned, fresh, opts, pc, pos, copy,
          inflight, reply, vault, outcome, cancel, cancelled, cache, checked,
          removed>>

Precious == Volumes \intersect Gone

Cur == Order[pos]

Held(r) == present[r] /\ facts[r] \in Holding

HasCopy(r) == \E c \in vault : c.vol = r

\* An executor with no mutating client, or in DryRun mode, only pretends.
Simulated == ~opts.apply

PlannedTier(r) == TierOf[r][planned[r]]

\* --only-names is a fence over names, so a ticked row lets in its namesakes.
Selected(r) ==
    /\ PlannedTier(r) \in opts.tiers
    /\ opts.label => r \in Labelled
    /\ opts.fenced => \E t \in opts.ticked : NameOf[t] = NameOf[r]

HasWitness(r) == PlannedTier(r) \in Actionable

IncludesCache ==
    /\ ~opts.label
    /\ ~opts.fenced
    /\ "free" \in opts.tiers
    /\ CacheBytes > 0

Init ==
    /\ present = [r \in Res |-> TRUE]
    /\ facts \in [Res -> Facts]
    /\ data = [r \in Res |-> 0]
    /\ writes = 0
    /\ planned = facts
    /\ fresh = [r \in Res |-> Unseen]
    /\ opts \in Runs
    /\ pc = "rescan"
    /\ pos = 1
    /\ copy = Empty
    /\ inflight = {}
    /\ reply = None
    /\ vault = {}
    /\ outcome = [r \in Res |-> None]
    /\ cancel = FALSE
    /\ cancelled = FALSE
    /\ cache = "untouched"
    /\ checked = [r \in Res |-> None]
    /\ removed = [r \in Res |-> Kept]
-----------------------------------------------------------------------------
(* The re-scan between planning and applying.                              *)

\* The scan lists resources one after the other, so a report is not a
\* snapshot: each is observed at its own moment.
Observe ==
    /\ pc = "rescan"
    /\ pos <= Len(Order)
    /\ fresh' = [fresh EXCEPT ![Cur] = IF present[Cur] THEN facts[Cur] ELSE Absent]
    /\ pos' = pos + 1
    /\ UNCHANGED <<world, planned, opts, pc, copy, inflight, reply, vault,
                   receipt, cancel, cache, checked, removed>>

BeginItems ==
    /\ pc = "rescan"
    /\ pos > Len(Order)
    /\ pc' = "item"
    /\ pos' = 1
    /\ UNCHANGED <<world, planned, fresh, opts, copy, inflight, reply, vault,
                   receipt, cancel, cache, checked, removed>>
-----------------------------------------------------------------------------
(* The loop over plan.items.                                               *)

\* Mutation: a passed-over item takes its neighbour with it.
PassOverTwo ==
    /\ pc = "item"
    /\ pos <= Len(Order)
    /\ \/ ~Selected(Cur)
       \/ ~cancel /\ ~HasWitness(Cur)
    /\ pos' = pos + 2
    /\ UNCHANGED <<world, planned, fresh, opts, pc, copy, inflight, reply,
                   vault, receipt, cancel, cache, checked, removed>>

\* An item outside the tiers or the fences is passed over, and so is one the
\* planner gave no witness.  The flag is read between the two checks.
PassOver ==
    /\ pc = "item"
    /\ pos <= Len(Order)
    /\ \/ ~Selected(Cur)
       \/ ~cancel /\ ~HasWitness(Cur)
    /\ pos' = pos + 1
    /\ UNCHANGED <<world, planned, fresh, opts, pc, copy, inflight, reply,
                   vault, receipt, cancel, cache, checked, removed>>

\* Mutation: the interruption is noted, and the loop is not left.
NoteInterruption ==
    /\ pc = "item"
    /\ pos <= Len(Order)
    /\ Selected(Cur)
    /\ cancel
    /\ cancelled' = TRUE
    /\ UNCHANGED <<world, planned, fresh, opts, pc, pos, copy, inflight, reply,
                   vault, outcome, cancel, cache, checked, removed>>

\* "Stop between items, never inside one."
StopAtBoundary ==
    /\ pc = "item"
    /\ pos <= Len(Order)
    /\ Selected(Cur)
    /\ cancel
    /\ cancelled' = TRUE
    /\ pc' = "tail"
    /\ UNCHANGED <<world, planned, fresh, opts, pos, copy, inflight, reply,
                   vault, outcome, cancel, cache, checked, removed>>

\* Mutation: the flag is not read between items.
ReachedIgnoringCancel(r) ==
    /\ pc = "item"
    /\ pos <= Len(Order)
    /\ r = Cur
    /\ Selected(r)
    /\ HasWitness(r)

\* The next item is reached, and it carries a witness to consume.
Reached(r) ==
    /\ pc = "item"
    /\ pos <= Len(Order)
    /\ r = Cur
    /\ Selected(r)
    /\ HasWitness(r)
    /\ ~cancel

\* Mutation: revalidation finds the resource and asks no more.
StillThere(r) == fresh[r] # Absent

\* The witness still holds: the report shows the facts it was minted from.
Fresh(r) == fresh[r] = planned[r]

\* An item is finished with: its outcome is on the receipt.
Record(r, o) ==
    /\ outcome' = [outcome EXCEPT ![r] = o]
    /\ pos' = pos + 1
    /\ pc' = "item"

\* What revalidation and the checks before it touches anything conclude,
\* when they conclude that nothing is to be done.
Verdict(r) ==
    CASE fresh[r] = Absent -> "already_gone"
      [] fresh[r] # Absent /\ ~Fresh(r) -> "skipped"
      [] Fresh(r) /\ Simulated -> "would_delete"
      [] OTHER -> "refused"

\* An irreversible volume, and no vault to keep it in.
CannotPreserve(r) == r \in Precious /\ ~(opts.vault /\ opts.configured)

LeaveAlone ==
    \E r \in Res :
        /\ Reached(r)
        /\ ~Fresh(r) \/ Simulated \/ CannotPreserve(r)
        /\ Record(r, Verdict(r))
        /\ UNCHANGED <<world, planned, fresh, opts, copy, inflight, reply,
                       vault, cancel, cancelled, cache, checked, removed>>

\* Mutation: nothing is preserved on the way to the removal.
AcceptUnpreserved ==
    \E r \in Res :
        /\ Reached(r)
        /\ Fresh(r)
        /\ ~Simulated
        /\ ~CannotPreserve(r)
        /\ pc' = "remove"
        /\ checked' = [checked EXCEPT ![r] = data[r]]
        /\ UNCHANGED <<world, planned, fresh, opts, pos, copy, inflight, reply,
                       vault, receipt, cancel, cache, removed>>

\* The witness is cashed in: an irreversible volume goes to the vault first.
Accept ==
    \E r \in Res :
        /\ Reached(r)
        /\ Fresh(r)
        /\ ~Simulated
        /\ ~CannotPreserve(r)
        /\ pc' = IF r \in Precious THEN "preserve" ELSE "remove"
        /\ checked' = [checked EXCEPT ![r] = data[r]]
        /\ UNCHANGED <<world, planned, fresh, opts, pos, copy, inflight, reply,
                       vault, receipt, cancel, cache, removed>>
-----------------------------------------------------------------------------
(* Vault::store, seen from the executor.                                   *)

\* Mutation: the archive is of an unmounted path.
DumpNothing ==
    /\ pc = "preserve"
    /\ present' = [present EXCEPT ![Cur] = TRUE]
    /\ data' = [data EXCEPT ![Cur] = IF present[Cur] THEN @ ELSE Empty]
    /\ copy' = Empty
    /\ pc' = "storing"
    /\ UNCHANGED <<facts, writes, planned, fresh, opts, pos, inflight, reply,
                   vault, receipt, cancel, cache, checked, removed>>

\* A container is created over the volume and the archive stream begins.
\* Docker makes a named volume a bind mount names and does not find.
BeginDump ==
    /\ pc = "preserve"
    /\ present' = [present EXCEPT ![Cur] = TRUE]
    /\ data' = [data EXCEPT ![Cur] = IF present[Cur] THEN @ ELSE Empty]
    /\ copy' = data'[Cur]
    /\ pc' = "dumping"
    /\ UNCHANGED <<facts, writes, planned, fresh, opts, pos, inflight, reply,
                   vault, receipt, cancel, cache, checked, removed>>

\* The stream ends.  A write that landed meanwhile leaves a torn copy, which
\* no digest of the archive can tell from a whole one.
EndDump ==
    /\ pc = "dumping"
    /\ copy' = IF data[Cur] = copy THEN copy ELSE Torn
    /\ pc' = "storing"
    /\ UNCHANGED <<world, planned, fresh, opts, pos, inflight, reply, vault,
                   receipt, cancel, cache, checked, removed>>

\* fsync, digest, entry count, rename, verify, manifest: the entry is returned.
Stored ==
    /\ pc = "storing"
    /\ vault' = vault \union {[vol |-> Cur, content |-> copy]}
    /\ pc' = "remove"
    /\ UNCHANGED <<world, planned, fresh, opts, pos, copy, inflight, reply,
                   receipt, cancel, cache, checked, removed>>

\* Any step of the store may fail, and then the volume stays.
StoreFails ==
    /\ pc \in {"preserve", "dumping", "storing"}
    /\ Record(Cur, "preserve_failed")
    /\ UNCHANGED <<world, planned, fresh, opts, copy, inflight, reply, vault,
                   cancel, cancelled, cache, checked, removed>>
-----------------------------------------------------------------------------
(* The removal, which is a request, an act of the daemon and an answer.    *)

AskRemoval ==
    /\ pc = "remove"
    /\ inflight' = inflight \union {Cur}
    /\ reply' = None
    /\ pc' = "await"
    /\ UNCHANGED <<world, planned, fresh, opts, pos, copy, vault, receipt,
                   cancel, cache, checked, removed>>

\* The daemon acts.  force is never passed, so it refuses what is held.
\* Its answer reaches the process only if that is still waiting for it.
DaemonRemoves(r) ==
    /\ r \in inflight
    /\ inflight' = inflight \ {r}
    /\ IF present[r] /\ ~Held(r)
       THEN /\ present' = [present EXCEPT ![r] = FALSE]
            /\ removed' = [removed EXCEPT ![r] = data[r]]
       ELSE UNCHANGED <<present, removed>>
    /\ reply' = IF pc = "await" /\ r = Cur
                THEN IF ~present[r] THEN "missing"
                     ELSE IF Held(r) THEN "in_use" ELSE "ok"
                ELSE reply
    /\ UNCHANGED <<facts, data, writes, planned, fresh, opts, pc, pos, copy,
                   vault, receipt, cancel, cache, checked>>

\* "in use" is a refusal; anything else the daemon says, "no such volume"
\* included, is a failure, and so is a refusal in other words.
AnswerOutcomes ==
    IF reply = "ok" THEN {IF Cur \in Precious THEN "preserved" ELSE "deleted"}
    ELSE IF reply = "in_use" THEN {"refused", "failed"} ELSE {"failed"}

Answered ==
    /\ pc = "await"
    /\ reply # None
    /\ \E o \in AnswerOutcomes : Record(Cur, o)
    /\ UNCHANGED <<world, planned, fresh, opts, copy, inflight, reply, vault,
                   cancel, cancelled, cache, checked, removed>>

\* Mutation: a removal that got no answer leaves no line on the receipt.
AnswerDropped ==
    /\ pc = "await"
    /\ pos' = pos + 1
    /\ pc' = "item"
    /\ UNCHANGED <<world, planned, fresh, opts, copy, inflight, reply, vault,
                   receipt, cancel, cache, checked, removed>>

\* The connection is lost or times out: the daemon may act on it yet.
AnswerLost ==
    /\ pc = "await"
    /\ Record(Cur, "failed")
    /\ UNCHANGED <<world, planned, fresh, opts, copy, inflight, reply, vault,
                   cancel, cancelled, cache, checked, removed>>
-----------------------------------------------------------------------------
(* After the loop.                                                         *)

EndItems ==
    /\ pc = "item"
    /\ pos > Len(Order)
    /\ pc' = "tail"
    /\ UNCHANGED <<world, planned, fresh, opts, pos, copy, inflight, reply,
                   vault, receipt, cancel, cache, checked, removed>>

\* The build cache comes last, and what is consulted is the local
\* `cancelled`, not the flag.
Finish ==
    /\ pc = "tail"
    /\ cache' \in IF cancelled \/ ~IncludesCache THEN {cache}
                  ELSE IF Simulated THEN {"would_delete"}
                  ELSE {"pruned", "failed"}
    /\ pc' = "done"
    /\ UNCHANGED <<world, planned, fresh, opts, pos, copy, inflight, reply,
                   vault, receipt, cancel, checked, removed>>
-----------------------------------------------------------------------------
(* Everyone else.                                                          *)

Running == pc \notin {"done", "exited"}

\* Bound: once the process is gone and nothing it asked for is outstanding,
\* what the world does is no concern of the run.
Concerned == Running \/ inflight # {}

\* The first Ctrl-C, or SIGTERM, sets the flag and does nothing else.
Interrupt ==
    /\ Running
    /\ ~cancel
    /\ cancel' = TRUE
    /\ UNCHANGED <<world, planned, fresh, opts, pc, pos, copy, inflight, reply,
                   vault, receipt, cache, checked, removed>>

\* The second leaves at once; a kill or a closed terminal needs no first.
Exit ==
    /\ Running
    /\ pc' = "exited"
    /\ UNCHANGED <<world, planned, fresh, opts, pos, copy, inflight, reply,
                   vault, receipt, cancel, cache, checked, removed>>

\* Containers start, stop and are removed: what a scan would see changes.
Drift(r) ==
    /\ Concerned
    /\ present[r]
    /\ \E f \in Facts \ {facts[r]} : facts' = [facts EXCEPT ![r] = f]
    /\ UNCHANGED <<present, data, writes, planned, fresh, opts, pc, pos, copy,
                   inflight, reply, vault, receipt, cancel, cache, checked,
                   removed>>

\* A container that holds a volume writes to it.
Write(v) ==
    /\ Concerned
    /\ Held(v)
    /\ writes < MaxWrites
    /\ writes' = writes + 1
    /\ data' = [data EXCEPT ![v] = writes + 1]
    /\ UNCHANGED <<present, facts, planned, fresh, opts, pc, pos, copy,
                   inflight, reply, vault, receipt, cancel, cache, checked,
                   removed>>

\* Somebody else removes it.  The dump's own container holds its volume.
Vanish(r) ==
    /\ Concerned
    /\ present[r]
    /\ ~Held(r)
    /\ ~(pc = "dumping" /\ r = Cur)
    /\ present' = [present EXCEPT ![r] = FALSE]
    /\ UNCHANGED <<facts, data, writes, planned, fresh, opts, pc, pos, copy,
                   inflight, reply, vault, receipt, cancel, cache, checked,
                   removed>>

\* A volume's name is its identity, so a new one can answer to an old witness.
Recreate(v) ==
    /\ Concerned
    /\ ~present[v]
    /\ present' = [present EXCEPT ![v] = TRUE]
    /\ data' = [data EXCEPT ![v] = Empty]
    /\ UNCHANGED <<facts, writes, planned, fresh, opts, pc, pos, copy,
                   inflight, reply, vault, receipt, cancel, cache, checked,
                   removed>>
-----------------------------------------------------------------------------
RunStep ==
    \/ Observe \/ BeginItems
    \/ PassOver \/ StopAtBoundary \/ LeaveAlone \/ Accept
    \/ BeginDump \/ EndDump \/ Stored \/ StoreFails
    \/ AskRemoval \/ Answered \/ AnswerLost
    \/ EndItems \/ Finish

WorldStep ==
    \/ \E r \in Res : DaemonRemoves(r) \/ Drift(r) \/ Vanish(r)
    \/ \E v \in Volumes : Write(v) \/ Recreate(v)

Next == RunStep \/ WorldStep \/ Interrupt \/ Exit

\* The run is reading a stream: the archive of a dump, or a log the re-scan's
\* probe follows.  The client's timeout is for an answer to begin; once one
\* has, nothing bounds the wait for the rest of it.
Streaming == pc = "dumping" \/ (pc = "rescan" /\ pos <= Len(Order))

\* The process is scheduled, and every call it makes to the daemon is answered
\* or timed out, but a stream may stand still.
Spec == Init /\ [][Next]_vars /\ WF_vars(RunStep /\ ~Streaming)
-----------------------------------------------------------------------------
(* What the run promises.                                                  *)

\* The shape of the state: positions stay within the plan, the vault holds
\* copies, the receipt holds outcomes (Executor::run, Receipt).
TypeOK ==
    /\ present \in [Res -> BOOLEAN]
    /\ facts \in [Res -> Facts]
    /\ data \in [Res -> Content]
    /\ writes \in 0..MaxWrites
    /\ planned \in [Res -> Facts]
    /\ fresh \in [Res -> Facts \union {Absent, Unseen}]
    /\ opts \in Runs
    /\ pc \in {"rescan", "item", "preserve", "dumping", "storing", "remove",
              "await", "tail", "done", "exited"}
    /\ pos \in 1..(Len(Order) + 1)
    /\ copy \in Content
    /\ inflight \in SUBSET Res
    /\ reply \in Replies \union {None}
    /\ vault \in SUBSET [vol : Res, content : Content]
    /\ outcome \in [Res -> Outcomes \union {None}]
    /\ cancel \in BOOLEAN
    /\ cancelled \in BOOLEAN
    /\ cache \in {"untouched", "would_delete", "pruned", "failed"}
    /\ checked \in [Res -> Content \union {None}]
    /\ removed \in [Res -> Content \union {Kept}]

\* No irreversible volume has been removed on the run's behalf, by a prompt
\* answer, a lost one or a request the daemon acted on after the process was
\* killed, without a verified copy of it in the vault.
PreservedBeforeRemoved ==
    \A r \in Precious : removed[r] # Kept => HasCopy(r)

\* What such a removal can lose is only what was written after the item's own
\* check: data that was there when the witness was accepted, and was still
\* there to be removed, is in the vault whole, never torn and never a copy
\* of something else.
OnlyLateWritesAreLost ==
    \A r \in Precious :
        removed[r] \in Int /\ removed[r] = checked[r]
            => [vol |-> r, content |-> checked[r]] \in vault

\* A receipt accounts for the run that returns it: unless it was cut short
\* every item the run was licensed to act on has an outcome; an outcome
\* that says removed is true; and whatever the run did remove is listed as
\* removed, or as failed where no answer came back.
ReceiptAccountsForRun ==
    /\ pc = "done" /\ ~cancelled =>
           \A i \in 1..Len(Order) :
               Selected(Order[i]) /\ HasWitness(Order[i])
                   => outcome[Order[i]] # None
    /\ \A r \in Res :
           /\ outcome[r] \in {"deleted", "preserved"} => removed[r] # Kept
           /\ pc = "done" /\ removed[r] # Kept
                  => outcome[r] \in {"deleted", "preserved", "failed"}
           /\ outcome[r] = "preserved" => HasCopy(r)

\* A dry run removes nothing, asks for nothing to be removed, stores nothing
\* and leaves the build cache, whatever happens around it.
DryRunTouchesNothing ==
    ~opts.apply =>
        /\ inflight = {}
        /\ vault = {}
        /\ cache # "pruned"
        /\ \A r \in Res : removed[r] = Kept

\* A receipt that says it was cut short is of a run that left the cache alone.
CancelledIsFinal == cancelled => cache = "untouched"

\* With an interrupt pending no further item is begun: at a boundary nothing
\* new is asked of the daemon and nothing new is read into the vault.
StopsBetweenItems ==
    [][cancel /\ pc = "item" =>
           /\ pc' \in {"item", "tail", "exited"}
           /\ inflight' \subseteq inflight
           /\ vault' = vault]_vars

\* Every step of a run is one the abstract specification allows: only items
\* the user's choices cover, whose report showed the very facts they were
\* planned on, are removed, each at most once, precious ones after a copy.
Abstract == INSTANCE SafeRemoval WITH
    consent <- {r \in Res : opts.apply /\ Selected(r) /\ HasWitness(r)},
    licence <- {r \in Res : checked[r] # None /\ fresh[r] = planned[r]}

SafelyRemoves == Abstract!Spec

\* Left to itself a run ends, with a receipt or by being killed, or stands
\* still for ever in one stream: no answer to a removal is waited for for
\* ever, an interrupt ends the loop, and nothing is gone round again.
Terminates == <>(pc \in {"done", "exited"}) \/ <>[]Streaming

\* "an interrupted run must not go on to prune the cache": once the flag is
\* set the build cache is not pruned.
InterruptSparesCache == [][cancel /\ cache = "untouched" => cache' # "pruned"]_vars
=============================================================================
