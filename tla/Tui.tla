-------------------------------- MODULE Tui --------------------------------
(***************************************************************************)
(* The terminal interface: one loop that handles messages and keys, and    *)
(* the threads it starts, a scan or a cleanup at a time, which answer on   *)
(* one channel. What a scan finds is passed on by a thread of its own, so  *)
(* the scan's answer may overtake it; a cleanup reports on the very sender *)
(* its answer goes by. Quitting ends the process, threads and all.         *)
(*                                                                         *)
(* Status lines, expanded evidence, drawing and where the selection stands *)
(* are left out: every entry and every row can be moved to.  What a        *)
(* cleanup does to one item is Executor's; here it is begun and ended.     *)
(***************************************************************************)
EXTENDS Integers, Sequences, FiniteSets

CONSTANTS
    Items,      \* resources of the daemon
    NameOf,     \* two of different kinds may have one name
    SizeOf,     \* reclaimable_size
    BlockersOf, \* the containers an image is held by
    Waived,     \* those the user's waivers match
    Plans,      \* what a scan may make of the items: SUBSET [Items -> Tiers]
    MaxJobs,    \* bound: threads started in one session
    MaxFound,   \* bound: events of one scan
    NoPlan, AllNames

\* "gone" stands for what the scan did not find.
Tiers == {"protected", "free", "orphan", "repullable", "rebuildable", "stale",
          "unattributed", "gone"}

ASSUME TuiAssumption ==
    /\ IsFiniteSet(Items)
    /\ DOMAIN NameOf = Items
    /\ SizeOf \in [Items -> Nat]
    /\ BlockersOf \in [Items -> SUBSET Items]
    /\ Waived \subseteq Items
    /\ Plans \subseteq [Items -> Tiers]
    /\ MaxJobs \in Nat \ {0} /\ MaxFound \in Nat
    /\ NoPlan \notin Plans
    /\ \A names \in SUBSET {NameOf[i] : i \in Items} : names # AllNames

Jobs == 1..MaxJobs
Names == {NameOf[i] : i \in Items}
Groups == {"recoverable", "dormant"}

\* What became of an item in a cleanup: not selected, not reached yet, in
\* hand, or done with.
Fates == {"out", "waiting", "begun", "removed", "skipped", "failed"}

VARIABLES
    screen,     \* what the user is looking at
    plan,       \* the plan on the screen, or NoPlan
    rows,       \* review_rows
    ticked,     \* the rows ticked
    receipt,    \* the cleanup whose receipt is on the screen, or 0
    promised,   \* the images the menu said a reclaim unlocks, when it began
    shown,      \* apply_done
    seen,       \* resources counted on the scanning screen
    loop,       \* "running", "left", "gone": the event loop, then the process
    code,       \* the exit code, once the loop is left
    cancel,     \* the flag the threads look at
    jobs,       \* how many threads were started
    kind,       \* of each: "scan" or "apply"
    at,         \* where it is
    scope,      \* the plan, tiers and names a cleanup was given
    fate,       \* what became of each item in it
    found,      \* how many events a scan has sent off
    pending,    \* those its forwarder has not passed on
    chan,       \* the channel to the loop
    picked      \* history: the items the user put a tick on

review == <<rows, ticked, picked>>
display == <<plan, receipt, promised, shown, seen>>
app == <<screen, review, display>>
process == <<loop, code, cancel>>
threads == <<jobs, kind, at, scope, fate, found, pending>>
vars == <<app, process, threads, chan>>

NoScope == [plan |-> NoPlan, tiers |-> {}, names |-> {}]
Unselected == [i \in Items |-> "out"]

Message(type, n, p) == [type |-> type, job |-> n, plan |-> p]
-----------------------------------------------------------------------------
(* What the plan on the screen is asked.                                   *)

GroupTiers(g) == IF g = "recoverable" THEN {"repullable", "rebuildable"}
                                      ELSE {"orphan", "stale"}

Rank(tier) == IF tier \in {"repullable", "orphan"} THEN 0 ELSE 1

OfTiers(p, tiers) == IF p = NoPlan THEN {} ELSE {i \in Items : p[i] \in tiers}

\* build_review_rows: the cheaper tier first, then the bigger item.
Before(p, i, j) == \/ Rank(p[i]) < Rank(p[j])
                   \/ Rank(p[i]) = Rank(p[j]) /\ SizeOf[i] >= SizeOf[j]

RowOrders(p, g) ==
    LET S == OfTiers(p, GroupTiers(g))
    IN  {s \in [1..Cardinality(S) -> S] :
            /\ \A k, m \in DOMAIN s : k # m => s[k] # s[m]
            /\ \A k, m \in DOMAIN s : k < m => Before(p, s[k], s[m])}

\* Mutation: one of the containers is enough.
PartlyUnlockable(p) ==
    {i \in OfTiers(p, {"protected"}) :
        \E b \in BlockersOf[i] : b \in OfTiers(p, {"free"})}

\* unlockable_image_count: held by containers only, and all of them go.
Unlockable(p) ==
    {i \in OfTiers(p, {"protected"}) :
        BlockersOf[i] # {} /\ BlockersOf[i] \subseteq OfTiers(p, {"free"})}

MenuEnabled(item) ==
    OfTiers(plan, IF item = "reclaim" THEN {"free"} ELSE GroupTiers(item)) # {}

SelectedItems == {rows[k] : k \in ticked \intersect DOMAIN rows}

\* item_is_selected: by tier and by name, whatever the kind.
Selects(s, i) ==
    /\ s.plan[i] \in s.tiers
    /\ s.names = AllNames \/ NameOf[i] \in s.names
-----------------------------------------------------------------------------
(* Starting threads.                                                       *)

\* Bound: MaxJobs.
Spawn(k) ==
    /\ jobs < MaxJobs
    /\ jobs' = jobs + 1
    /\ kind' = [kind EXCEPT ![jobs + 1] = k]
    /\ at' = [at EXCEPT ![jobs + 1] = "connecting"]
    /\ UNCHANGED <<found, pending, chan>>

\* App::new with a scan under way; the receipt goes with the rest, and only
\* the update notice is carried over.
Rescan ==
    /\ screen' = "Scanning" /\ plan' = NoPlan
    /\ rows' = <<>> /\ ticked' = {} /\ picked' = {}
    /\ receipt' = 0 /\ promised' = {} /\ shown' = 0 /\ seen' = 0
    /\ Spawn("scan")
    /\ scope' = [n \in Jobs |-> NoScope]
    /\ fate' = [n \in Jobs |-> Unselected]
    /\ UNCHANGED process

\* begin_apply and spawn_apply; the plan is taken off the screen.
BeginApply(tiers, names, unlocks) ==
    /\ plan # NoPlan
    /\ screen' = "Applying" /\ plan' = NoPlan /\ shown' = 0
    /\ promised' = unlocks
    /\ Spawn("apply")
    /\ scope' = [scope EXCEPT ![jobs + 1] = [plan |-> plan, tiers |-> tiers, names |-> names]]
    /\ UNCHANGED <<review, receipt, seen, fate, process>>

\* The code the shell sees, as the loop is left.
ExitCode ==
    IF receipt # 0 /\ \E i \in Items : fate[receipt][i] = "failed" THEN 5
    ELSE IF OfTiers(plan, {"free"}) # {} THEN 1 ELSE 0

Leave ==
    /\ loop' = "left"
    /\ cancel' = TRUE
    /\ code' = ExitCode
    /\ UNCHANGED <<app, threads, chan>>
-----------------------------------------------------------------------------
(* Keys.  q and Esc quit from every screen but Review and Confirm, Ctrl-C  *)
(* from every screen, and a terminal that cannot be drawn on ends the loop *)
(* as well.                                                                *)

KeyQuit == screen \in {"Scanning", "Applying", "Main", "Finished"} /\ Leave

KeyHardQuit == Leave

\* Mutation: the ticks of the other group are kept.
OpenReviewTicked(g) ==
    /\ rows' \in RowOrders(plan, g)
    /\ picked' = {}
    /\ screen' = "Review"
    /\ UNCHANGED <<ticked, display, process, threads, chan>>

OpenReview(g) ==
    /\ rows' \in RowOrders(plan, g)
    /\ ticked' = {} /\ picked' = {}
    /\ screen' = "Review"
    /\ UNCHANGED <<display, process, threads, chan>>

\* Enter on an entry of the menu that is enabled.
KeyMainEnter ==
    /\ screen = "Main"
    /\ \/ /\ MenuEnabled("reclaim")
          /\ BeginApply({"free"}, AllNames, Unlockable(plan))
       \/ \E g \in Groups : MenuEnabled(g) /\ OpenReview(g)
       \/ Rescan

Toggled(S, x) == IF x \in S THEN S \ {x} ELSE S \union {x}

\* Space, on any row; or a.
KeyReviewTick ==
    /\ screen = "Review"
    /\ \/ \E k \in DOMAIN rows : /\ ticked' = Toggled(ticked, k)
                                /\ picked' = Toggled(picked, rows[k])
       \/ IF Cardinality(ticked) = Len(rows)
          THEN ticked' = {} /\ picked' = {}
          ELSE ticked' = DOMAIN rows /\ picked' = {rows[k] : k \in DOMAIN rows}
    /\ UNCHANGED <<screen, rows, display, process, threads, chan>>

\* d, with something ticked; or back to the menu.
KeyReviewLeave ==
    /\ screen = "Review"
    /\ \/ ticked # {} /\ screen' = "Confirm"
       \/ screen' = "Main"
    /\ UNCHANGED <<review, display, process, threads, chan>>

\* Mutation: the tiers of the ticked rows, and no names.
UnfencedKeyConfirm ==
    /\ screen = "Confirm"
    /\ \/ BeginApply({plan[i] : i \in SelectedItems}, AllNames, promised)
       \/ /\ screen' = "Review"
          /\ UNCHANGED <<review, display, process, threads, chan>>

\* y, and anything else.
KeyConfirm ==
    /\ screen = "Confirm"
    /\ \/ BeginApply({plan[i] : i \in SelectedItems},
                     {NameOf[i] : i \in SelectedItems}, promised)
       \/ /\ screen' = "Review"
          /\ UNCHANGED <<review, display, process, threads, chan>>

\* Mutation: r starts a scan while one is under way.
ImpatientKeyRescan == screen \in {"Scanning", "Finished"} /\ Rescan

KeyRescan == screen = "Finished" /\ Rescan

Key ==
    /\ loop = "running"
    /\ \/ KeyQuit \/ KeyHardQuit
       \/ KeyMainEnter \/ KeyReviewTick \/ KeyReviewLeave
       \/ KeyConfirm \/ KeyRescan
-----------------------------------------------------------------------------
(* drain: one message after the other, before the next key is looked at.   *)

DrainEvent(m) ==
    /\ m.type = "event"
    /\ IF kind[m.job] = "scan" THEN seen' = seen + 1 /\ UNCHANGED shown
                               ELSE shown' = shown + 1 /\ UNCHANGED seen
    /\ UNCHANGED <<screen, review, plan, receipt, promised>>

\* App::ready
DrainReady(m) ==
    /\ m.type = "ready"
    /\ plan' = m.plan
    /\ rows' \in RowOrders(m.plan, "dormant")
    /\ ticked' = {} /\ picked' = {}
    /\ screen' = "Main"
    /\ receipt' = 0 /\ promised' = {} /\ shown' = 0
    /\ UNCHANGED seen

\* App::finished
DrainApplied(m) ==
    /\ m.type = "applied"
    /\ receipt' = m.job
    /\ screen' = "Finished"
    /\ UNCHANGED <<review, plan, promised, shown, seen>>

DrainFailed(m) ==
    /\ m.type = "failed"
    /\ screen' = "Finished"
    /\ UNCHANGED <<review, display>>

Drain ==
    /\ loop = "running"
    /\ chan # <<>>
    /\ chan' = Tail(chan)
    /\ LET m == Head(chan)
       IN  DrainEvent(m) \/ DrainReady(m) \/ DrainApplied(m) \/ DrainFailed(m)
    /\ UNCHANGED <<process, threads>>
-----------------------------------------------------------------------------
(* The threads.                                                            *)

Alive == loop # "gone"

\* ChannelSink: the event goes by way of the forwarder.
EmitsToForwarder(n) ==
    /\ pending' = [pending EXCEPT ![n] = @ + 1]
    /\ UNCHANGED chan

\* TuiEventSink: the event goes on the channel itself.
EmitsProgress(n) ==
    /\ chan' = Append(chan, Message("event", n, NoPlan))
    /\ UNCHANGED pending

Forward(n) ==
    /\ Alive /\ pending[n] > 0
    /\ pending' = [pending EXCEPT ![n] = @ - 1]
    /\ chan' = Append(chan, Message("event", n, NoPlan))
    /\ UNCHANGED <<app, process, jobs, found, kind, at, scope, fate>>

Goes(n, where) == at' = [at EXCEPT ![n] = where]

Answers(n, type, p) ==
    /\ Goes(n, "done")
    /\ chan' = Append(chan, Message(type, n, p))
    /\ UNCHANGED <<app, process, jobs, found, kind, scope, fate, pending>>

\* Mutation: the thread returns without a word.
FailsSilently(n) ==
    /\ Alive /\ at[n] \in {"connecting", "scanning", "opening"}
    /\ kind[n] = "scan" => at[n] # "opening"
    /\ Goes(n, "done")
    /\ UNCHANGED <<app, process, jobs, kind, scope, fate, found, pending, chan>>

\* Docker cannot be reached, the scan fails or is cancelled, or the vault
\* cannot be opened.
Fails(n) ==
    /\ Alive /\ at[n] \in {"connecting", "scanning", "opening"}
    /\ kind[n] = "scan" => at[n] # "opening"
    /\ Answers(n, "failed", NoPlan)

Connects(n) ==
    /\ Alive /\ at[n] = "connecting"
    /\ Goes(n, "scanning")
    /\ UNCHANGED <<app, process, jobs, found, kind, scope, fate, pending, chan>>

\* Bound: MaxFound.  The re-scan of a cleanup is quiet.
Finds(n) ==
    /\ Alive /\ at[n] = "scanning" /\ kind[n] = "scan"
    /\ found[n] < MaxFound
    /\ found' = [found EXCEPT ![n] = @ + 1]
    /\ EmitsToForwarder(n)
    /\ UNCHANGED <<app, process, jobs, kind, at, scope, fate>>

\* Planner::plan, which knows of no waivers.
Ready(n) ==
    /\ Alive /\ at[n] = "scanning" /\ kind[n] = "scan"
    /\ \E p \in Plans : Answers(n, "ready", p)

ReScanned(n) ==
    /\ Alive /\ at[n] = "scanning" /\ kind[n] = "apply"
    /\ Goes(n, "opening")
    /\ UNCHANGED <<app, process, jobs, found, kind, scope, fate, pending, chan>>

Opens(n) ==
    /\ Alive /\ at[n] = "opening"
    /\ Goes(n, "working")
    /\ fate' = [fate EXCEPT ![n] =
           [i \in Items |-> IF Selects(scope[n], i) THEN "waiting" ELSE "out"]]
    /\ UNCHANGED <<app, process, jobs, found, kind, scope, pending, chan>>

InHand(n) == {i \in Items : fate[n][i] = "begun"}
Waiting(n) == {i \in Items : fate[n][i] = "waiting"}

\* Executor::run looks at the flag between two items.
Begins(n) ==
    /\ Alive /\ at[n] = "working" /\ InHand(n) = {} /\ ~cancel
    /\ \E i \in Waiting(n) : fate' = [fate EXCEPT ![n][i] = "begun"]
    /\ UNCHANGED <<app, process, jobs, found, kind, at, scope, pending, chan>>

Ends(n) ==
    /\ Alive /\ at[n] = "working"
    /\ \E i \in InHand(n), f \in {"removed", "skipped", "failed"} :
           fate' = [fate EXCEPT ![n][i] = f]
    /\ EmitsProgress(n)
    /\ UNCHANGED <<app, process, jobs, found, kind, at, scope>>

Applies(n) ==
    /\ Alive /\ at[n] = "working" /\ InHand(n) = {}
    /\ cancel \/ Waiting(n) = {}
    /\ Answers(n, "applied", NoPlan)

Work(n) ==
    \/ Fails(n) \/ Connects(n) \/ Finds(n) \/ Ready(n)
    \/ ReScanned(n) \/ Opens(n) \/ Begins(n) \/ Ends(n) \/ Applies(n)

\* The terminal is restored and main exits: every thread with it.
Exit ==
    /\ loop = "left"
    /\ loop' = "gone"
    /\ UNCHANGED <<app, code, cancel, threads, chan>>
-----------------------------------------------------------------------------
Init ==
    /\ screen = "Scanning" /\ plan = NoPlan
    /\ rows = <<>> /\ ticked = {} /\ picked = {}
    /\ receipt = 0 /\ promised = {} /\ shown = 0 /\ seen = 0
    /\ loop = "running" /\ code = 0 /\ cancel = FALSE
    /\ jobs = 1
    /\ kind = [n \in Jobs |-> "scan"]
    /\ at = [n \in Jobs |-> IF n = 1 THEN "connecting" ELSE "unborn"]
    /\ scope = [n \in Jobs |-> NoScope]
    /\ fate = [n \in Jobs |-> Unselected]
    /\ found = [n \in Jobs |-> 0] /\ pending = [n \in Jobs |-> 0]
    /\ chan = <<>>

Next ==
    \/ Key \/ Drain \/ Exit
    \/ \E n \in Jobs : Work(n) \/ Forward(n)

\* A thread may be reading a stream: the log a scan's probe follows, or the
\* archive of the volume in hand.  The client's timeout is for an answer to
\* begin; nothing bounds the wait for the rest of it.
Streaming(n) == at[n] = "scanning" \/ (at[n] = "working" /\ InHand(n) # {})

\* The loop drains before it waits 50 ms for a key; every call of a thread
\* ends or times out, but a stream may stand still.
Spec ==
    /\ Init /\ [][Next]_vars
    /\ WF_vars(Drain) /\ WF_vars(Exit)
    /\ \A n \in Jobs : WF_vars(Work(n) /\ ~Streaming(n)) /\ WF_vars(Forward(n))
-----------------------------------------------------------------------------
\* The shape of App and of the threads' state.
TypeOK ==
    /\ screen \in {"Scanning", "Main", "Review", "Confirm", "Applying", "Finished"}
    /\ plan \in Plans \union {NoPlan}
    /\ rows \in Seq(Items) /\ ticked \in SUBSET Nat
    /\ receipt \in 0..MaxJobs
    /\ promised \in SUBSET Items /\ picked \in SUBSET Items
    /\ shown \in Nat /\ seen \in Nat
    /\ loop \in {"running", "left", "gone"} /\ cancel \in BOOLEAN
    /\ code \in {0, 1, 5}
    /\ jobs \in Jobs
    /\ kind \in [Jobs -> {"scan", "apply"}]
    /\ at \in [Jobs -> {"unborn", "connecting", "scanning", "opening", "working", "done"}]
    /\ scope \in [Jobs -> [plan : Plans \union {NoPlan}, tiers : SUBSET Tiers,
                           names : (SUBSET Names) \union {AllNames}]]
    /\ fate \in [Jobs -> [Items -> Fates]]
    /\ found \in [Jobs -> 0..MaxFound] /\ pending \in [Jobs -> 0..MaxFound]
    /\ chan \in Seq([type : {"event", "ready", "applied", "failed"}, job : Jobs,
                     plan : Plans \union {NoPlan}])

Busy == {n \in Jobs : at[n] \notin {"unborn", "done"}}

\* Nothing keeps two threads of a session apart but the screens: a key that
\* starts one is only understood where the answer of the last was received.
\* So two cleanups never run at once, nor a cleanup beside a scan whose plan
\* would be shown as if it had come after.
OneWorker == Cardinality(Busy) <= 1

\* A tick stays with the item the user put it on: none survives a change of
\* group or a new plan, to be confirmed as another row.
TicksAreTheUsers == SelectedItems = picked

\* Everything a cleanup touches has the name of one row the user ticked and
\* the tier of one (maybe another) in the plan that was on the screen; or it
\* is free in it.
ReachIsConsented ==
    \A n \in Jobs : \A i \in Items :
        fate[n][i] # "out" =>
            \/ scope[n].plan[i] = "free"
            \/ /\ \E j \in picked : NameOf[j] = NameOf[i]
               /\ \E j \in picked : scope[n].plan[j] = scope[n].plan[i]

\* "The receipt cannot overtake the final log line": when a receipt is on the
\* screen every item it speaks of has been reported.
ReceiptIsLast ==
    receipt # 0 => /\ InHand(receipt) = {}
                   /\ shown = Cardinality({i \in Items :
                          fate[receipt][i] \in {"removed", "skipped", "failed"}})

\* An image the menu said a reclaim unlocks has lost every container that
\* held it when the receipt shows nothing skipped, failed or left over.
PromisedAreUnlocked ==
    receipt # 0 /\ (\A i \in Items : fate[receipt][i] \in {"out", "removed"})
        => \A i \in promised : \A b \in BlockersOf[i] : fate[receipt][b] = "removed"

\* The spinner ends: whatever fails, the screen leaves Scanning and Applying,
\* or the user does, unless the thread it waits for stands for ever in a
\* stream.
BusyScreensEnd ==
    \/ []<>(screen \notin {"Scanning", "Applying"} \/ loop = "gone")
    \/ \E n \in Jobs : <>[]Streaming(n)

\* "q cancels after the current item": the process does not end with an item
\* in hand.
QuitEndsBetweenItems ==
    loop = "gone" => \A n \in Jobs : InHand(n) = {}

\* "Anything the user did not tick is unreachable by this run, not merely
\* skipped."
UntickedIsUnreachable ==
    \A n \in Jobs : scope[n].names # AllNames =>
        \A i \in Items : fate[n][i] # "out" => i \in picked

\* "A waiver marks matching resources Protected until you remove it."
WaivedIsSpared == \A n \in Jobs : \A i \in Waived : fate[n][i] # "removed"
=============================================================================
