-------------------------------- MODULE App --------------------------------
(***************************************************************************)
(* The macOS app: the model whose one operation at a time is a run of the  *)
(* bundled helper, the service that reads the helper's two pipes and puts  *)
(* what it reads on the main queue, and the updater, which holds back the  *)
(* first scan, its own alert and an install. Everything the user, Sparkle  *)
(* and the main queue do happens on the main thread, one action at a time; *)
(* the helper and the two readers run beside it.                           *)
(*                                                                         *)
(* Output text, totals, progress and the pages are left out, and so is     *)
(* whatever the helper does to Docker.  Lines the app skips are not sent.  *)
(***************************************************************************)
EXTENDS Integers, Sequences, FiniteSets

CONSTANTS
    Options,    \* what the settings may say
    Valid,      \* those whose validation is nil
    Tiers,      \* ReclaimTier.all
    Free,       \* the tier selected unless the user says otherwise
    Capacity,   \* lines a pipe holds
    MaxWrites,  \* bound: lines the helpers write, over all operations
    MaxOps,     \* bound: operations the user starts, choices changed
    Nothing

ASSUME AppAssumption ==
    /\ Valid \subseteq Options /\ Nothing \notin Options
    /\ Free \in Tiers
    /\ Capacity \in Nat \ {0} /\ MaxWrites \in Nat /\ MaxOps \in Nat

VARIABLES
    up,         \* the app runs
    state,      \* "idle", "scanning", "ready", "failed"
    collecting, \* the operation is a scan
    needsScan, options, scanOptions,
    selected,   \* selectedTiers
    sheet,      \* pending: the tiers the review sheet names, or Nothing
    received,   \* receivedScanReport
    context,    \* currentContext
    items,      \* byTier: the items shown, each with its context
    helper,     \* "none", "starting", "running", "exited"
    wants,      \* what it does next, or Nothing
    succeeds,   \* its exit code is 0 or 1
    inspects,   \* the context it is at
    reported,   \* scan_finished was said of it
    writes,     \* lines written so far
    out, err,   \* its pipes
    reader,     \* the thread at stdout: "none", "reads", "stops", "stopped",
                \* "awaits"
    main,       \* the main queue
    cycle,      \* what Sparkle is doing
    presenting,
    held,       \* launchContinuation
    bound,      \* the launch check's six seconds are not over
    postponed,  \* postponedInstall
    ops,
    sent,       \* history: the items the helper of this operation reported
    known       \* history: the options of a scan that is shown whole, until
                \* something is done that changes resources

choices == <<options, selected, sheet>>
scanned == <<needsScan, scanOptions, received, context, items>>
process == <<helper, wants, succeeds, inspects, reported, writes, sent>>
service == <<process, out, err, reader>>
updater == <<cycle, presenting, held, bound, postponed>>
model == <<state, collecting, scanned, choices>>
vars == <<up, model, service, main, updater, ops, known>>

busy == state = "scanning"

canReclaim == ~busy /\ ~needsScan /\ scanOptions = options /\ selected # {}
-----------------------------------------------------------------------------
(* The model.                                                              *)

run(isScan) ==
    /\ collecting' = isScan /\ state' = "scanning"
    /\ helper' = "starting" /\ wants' = Nothing
    /\ inspects' = 0 /\ reported' = FALSE /\ sent' = {}
    /\ UNCHANGED <<succeeds, writes, out, err, reader>>

\* ScanOptions.validation is nil.
IsValid == options \in Valid

\* AppModel.scan
scan ==
    IF busy THEN UNCHANGED <<model, service, known>>
    ELSE IF ~IsValid
    THEN /\ state' = "failed"
         /\ UNCHANGED <<collecting, scanned, choices, service, known>>
    ELSE /\ run(TRUE)
         /\ needsScan' = TRUE /\ scanOptions' = options
         /\ received' = FALSE /\ items' = {} /\ selected' = {Free}
         /\ known' = Nothing
         /\ UNCHANGED <<context, options, sheet>>

\* The user starts an operation or changes a choice.  Bound: MaxOps.
Starts ==
    /\ up /\ ops < MaxOps
    /\ ops' = ops + 1
    /\ UNCHANGED <<up, main, updater>>

\* The button, the menu, the menu bar icon.
Scan == Starts /\ ~busy /\ scan

\* AppModel.command
ForgetfulCommand(changes) ==
    /\ Starts /\ ~busy
    /\ run(FALSE)
    /\ known' = IF changes THEN Nothing ELSE known
    /\ UNCHANGED <<scanned, choices>>

Command(changes) ==
    /\ Starts /\ ~busy
    /\ needsScan' = (needsScan \/ changes)
    /\ run(FALSE)
    /\ known' = IF changes THEN Nothing ELSE known
    /\ UNCHANGED <<scanOptions, received, context, items, choices>>

\* Listing, verifying, making or deleting the vault's copies, listing waivers,
\* the help; the preview too, whose button asks for canReclaim besides.
LeaveResources == sheet = Nothing /\ Command(FALSE)

\* Restoring a volume, adding or removing a waiver.
ChangeResources == sheet = Nothing /\ Command(TRUE)

Review ==
    /\ up /\ sheet = Nothing /\ canReclaim
    /\ sheet' = selected
    /\ UNCHANGED <<up, state, collecting, scanned, options, selected, service, main, updater,
                   ops, known>>

Cancel ==
    /\ up /\ sheet # Nothing
    /\ sheet' = Nothing
    /\ UNCHANGED <<up, state, collecting, scanned, options, selected, service, main, updater,
                   ops, known>>

reclaim ==
    IF canReclaim
    THEN /\ needsScan' = TRUE
         /\ run(FALSE)
         /\ known' = Nothing
    ELSE UNCHANGED <<needsScan, state, collecting, service, known>>

\* The sheet's own button.
Confirm ==
    /\ sheet # Nothing /\ Starts /\ ~busy
    /\ sheet' = Nothing
    /\ reclaim
    /\ UNCHANGED <<scanOptions, received, context, items, options, selected>>

Settles ==
    /\ Starts /\ ~busy /\ sheet = Nothing
    /\ UNCHANGED <<state, collecting, scanned, sheet, service, known>>

EditOptions == options' \in Options /\ UNCHANGED selected /\ Settles
SelectTiers == selected' \in SUBSET Tiers /\ UNCHANGED options /\ Settles
-----------------------------------------------------------------------------
(* The helper. A line says that a context is begun, that the inventory of  *)
(* it is done, or what is thought of one item there; one the app refuses   *)
(* is of a later protocol or too long. What is said in any operation but a *)
(* scan is not kept, and one line stands for it.                           *)

Beside(step) ==
    /\ step
    /\ UNCHANGED <<up, model, updater, ops, known>>

Says ==
    {<<"refused", 0>>, <<"noise", 0>>}
        \union (IF collecting THEN {<<"started", inspects + 1>>} ELSE {<<"report", 0>>})
        \union (IF inspects > 0 /\ ~reported THEN {<<"report", 0>>} ELSE {})
        \union (IF reported THEN {<<"item", Cardinality(sent) + 1>>} ELSE {})

\* Bound: MaxWrites.
Decides ==
    /\ helper = "running" /\ wants = Nothing
    /\ wants' \in {<<"exit", 0>>, <<"exit", 5>>}
                      \union (IF writes < MaxWrites THEN Says ELSE {})
    /\ UNCHANGED <<helper, succeeds, inspects, reported, writes, sent, out, err, reader,
                   main>>

\* A write to a full pipe blocks.
Writes ==
    /\ helper = "running" /\ wants # Nothing /\ wants[1] # "exit"
    /\ writes' = writes + 1 /\ wants' = Nothing
    /\ IF wants[1] = "noise"
       THEN err < Capacity /\ err' = err + 1 /\ UNCHANGED out
       ELSE Len(out) < Capacity /\ out' = Append(out, wants) /\ UNCHANGED err
    /\ inspects' = IF wants[1] = "started" THEN wants[2] ELSE inspects
    /\ reported' = ((collecting /\ wants[1] = "report") \/ (reported /\ wants[1] # "started"))
    /\ sent' = IF wants[1] = "item" THEN sent \union {<<inspects, wants[2]>>} ELSE sent
    /\ UNCHANGED <<helper, succeeds, reader, main>>

Exits ==
    /\ helper = "running" /\ wants # Nothing /\ wants[1] = "exit"
    /\ helper' = "exited" /\ wants' = Nothing
    /\ succeeds' = (wants[2] \in {0, 1})
    /\ UNCHANGED <<inspects, reported, writes, sent, out, err, reader, main>>
-----------------------------------------------------------------------------
(* SubprocessService.run                                                   *)

Finish(error) == Append(main, <<"finish", error>>)

\* The helper may be missing or may not start.
Launches ==
    /\ helper = "starting"
    /\ \/ helper' = "running" /\ reader' = "reads" /\ UNCHANGED main
       \/ helper' = "none" /\ main' = Finish(TRUE) /\ UNCHANGED reader
    /\ UNCHANGED <<wants, succeeds, inspects, reported, writes, sent, out, err>>

\* Mutation: stderr is read once the helper has exited.
DrainsLate ==
    /\ err > 0 /\ helper = "exited"
    /\ err' = err - 1
    /\ UNCHANGED <<process, out, reader, main>>

Drains ==
    /\ err > 0
    /\ err' = err - 1
    /\ UNCHANGED <<process, out, reader, main>>

\* Envelope.decode: an event the model knows or, for a line of another
\* version, an error.
Decodes(line) == line[1] \in {"started", "item", "report"}

Reads ==
    /\ reader = "reads" /\ out # <<>>
    /\ out' = Tail(out)
    /\ IF ~Decodes(Head(out))
       THEN reader' = "stops" /\ UNCHANGED main
       ELSE main' = Append(main, Head(out)) /\ UNCHANGED reader
    /\ UNCHANGED <<process, err>>

\* The end of the file.
ReadsAll ==
    /\ reader = "reads" /\ out = <<>> /\ helper = "exited"
    /\ reader' = "awaits"
    /\ UNCHANGED <<process, out, err, main>>

\* process.terminate: a run of the helper only takes note.
Terminates ==
    /\ reader = "stops"
    /\ reader' = "stopped"
    /\ \/ UNCHANGED process
       \/ /\ helper' = "exited" /\ wants' = Nothing /\ succeeds' = FALSE
          /\ UNCHANGED <<inspects, reported, writes, sent>>
    /\ UNCHANGED <<out, err, main>>

\* Mutation: only the exit code is looked at.
FailsByCode == ~succeeds

\* A line that was refused is a failure whatever the helper exits with.
HasFailed == reader = "stopped" \/ ~succeeds

\* Mutation: nobody waits for the helper to exit.
DoesNotAwait ==
    /\ reader \in {"awaits", "stopped"}
    /\ main' = Finish(TRUE)
    /\ reader' = "none"
    /\ UNCHANGED <<process, out, err>>

\* waitUntilExit; what is left in the pipes goes with them.
Awaits ==
    /\ reader \in {"awaits", "stopped"} /\ helper = "exited"
    /\ main' = Finish(HasFailed)
    /\ reader' = "none" /\ helper' = "none" /\ out' = <<>>
    /\ succeeds' = FALSE /\ inspects' = 0 /\ reported' = FALSE
    /\ UNCHANGED <<wants, writes, sent, err>>

Helper == Beside(Decides) \/ Beside(Writes) \/ Beside(Exits)
Stdout == Beside(Launches) \/ Beside(Reads) \/ Beside(ReadsAll) \/ Beside(Terminates)
              \/ Beside(Awaits)
Stderr == Beside(Drains)
-----------------------------------------------------------------------------
(* The main queue.                                                         *)

Delivers ==
    /\ up /\ main # <<>>
    /\ main' = Tail(main)
    /\ UNCHANGED <<up, service, choices, ops>>

\* AppModel.apply
Applies ==
    /\ Delivers /\ Head(main)[1] # "finish"
    /\ LET type == Head(main)[1]
           n == Head(main)[2]
       IN /\ context' = IF type = "started" THEN n ELSE context
          /\ received' = (received \/ (type = "report" /\ collecting))
          /\ items' = IF type = "item" /\ collecting THEN items \union {<<context, n>>}
                      ELSE items
    /\ UNCHANGED <<state, collecting, needsScan, scanOptions, updater, known>>

\* UpdateStatus.hostBecameIdle: a postponed install goes ahead, for which
\* Sparkle asks the app to quit: later, or from within the call, and there the
\* state is still that of the operation and the app refuses.
hostBecameIdle ==
    /\ postponed' = FALSE
    /\ \/ ~postponed /\ UNCHANGED cycle
       \/ postponed /\ cycle' \in {"installing", "refused"}

\* What run does when it is told of the end, in one block of the main queue.
Finishes ==
    /\ Delivers /\ Head(main)[1] = "finish"
    /\ hostBecameIdle
    /\ LET failed == Head(main)[2] \/ (collecting /\ ~received)
       IN /\ state' = IF failed THEN "failed" ELSE "ready"
          /\ needsScan' = (needsScan /\ (failed \/ ~collecting))
          /\ known' = IF collecting /\ ~failed /\ items = sent THEN scanOptions ELSE known
    /\ UNCHANGED <<collecting, scanOptions, received, context, items, presenting, held, bound>>
-----------------------------------------------------------------------------
(* The updater; what Sparkle does between two calls of it is assumed.      *)

releaseFirstScan ==
    /\ held' = FALSE
    /\ IF held THEN scan ELSE UNCHANGED <<model, service, known>>

\* Mutation: the end of the cycle does not let the first scan go.
EndsQuietly ==
    /\ cycle' = "none" /\ presenting' = FALSE
    /\ UNCHANGED <<model, service, known, held, bound, postponed>>

\* didFinishUpdateCycleFor
EndsCycle ==
    /\ cycle' = "none" /\ presenting' = FALSE
    /\ releaseFirstScan
    /\ UNCHANGED <<bound, postponed>>

Sparkle(step) ==
    /\ up /\ step
    /\ UNCHANGED <<up, main, ops>>

Becomes(what, shows) ==
    /\ cycle' = what /\ presenting' = shows
    /\ UNCHANGED <<model, service, known, held, bound, postponed>>

\* mayPerform: a check on schedule is declined while an operation runs.
ChecksOnSchedule ==
    /\ cycle = "none"
    /\ IF busy THEN EndsCycle ELSE Becomes("checking", presenting)

\* SparkleUpdater.check
ChecksForTheUser == cycle = "none" /\ Becomes("asked", presenting)

\* The reminder is retired: the user checked, or came to look.
Attends == cycle = "reminded" /\ Becomes("offered", presenting)

FindsNothing == cycle \in {"checking", "asked"} /\ EndsCycle

\* standardUserDriverShouldHandleShowingScheduledUpdate, in an app that may
\* or may not be in front.
MayShow == cycle = "asked" \/ ~busy
MayRemind == cycle = "checking"

\* didFindValidUpdate; it is shown, or there is a quiet reminder.
Finds ==
    /\ cycle \in {"checking", "asked"}
    /\ \/ MayShow /\ Becomes("offered", TRUE)
       \/ MayRemind /\ Becomes("reminded", TRUE)

Dismissed == cycle = "offered" /\ EndsCycle

\* shouldPostponeRelaunchForUpdate
Accepted ==
    /\ up /\ cycle = "offered"
    /\ postponed' = busy
    /\ cycle' = IF busy THEN "waiting" ELSE "installing"
    /\ UNCHANGED <<up, model, service, main, presenting, held, bound, ops, known>>

\* checkOnLaunch's six seconds.
BoundPasses ==
    /\ bound
    /\ bound' = FALSE
    /\ IF presenting THEN UNCHANGED <<held, model, service, known>> ELSE releaseFirstScan
    /\ UNCHANGED <<cycle, presenting, postponed>>

\* applicationShouldTerminate, asked by the user or for an install.
Quit ==
    /\ up /\ ~busy
    /\ up' = FALSE
    /\ UNCHANGED <<model, service, main, updater, ops, known>>

RefusesInstall ==
    /\ up /\ cycle = "installing" /\ busy
    /\ cycle' = "refused"
    /\ UNCHANGED <<up, model, service, main, presenting, held, bound, postponed, ops, known>>

Answers == Sparkle(Dismissed) \/ Accepted
-----------------------------------------------------------------------------
\* applicationDidFinishLaunching, in a bundle with an updater or without.
Init ==
    /\ up = TRUE /\ collecting = TRUE /\ needsScan = TRUE
    /\ options \in Valid /\ selected = {Free} /\ sheet = Nothing
    /\ received = FALSE /\ context = 0 /\ items = {}
    /\ wants = Nothing /\ succeeds = FALSE /\ inspects = 0 /\ reported = FALSE /\ writes = 0
    /\ out = <<>> /\ err = 0 /\ reader = "none" /\ main = <<>>
    /\ \/ /\ state = "idle" /\ helper = "none" /\ scanOptions = Nothing
          /\ cycle = "checking" /\ held = TRUE /\ bound = TRUE
       \/ /\ state = "scanning" /\ helper = "starting" /\ scanOptions = options
          /\ cycle = "off" /\ held = FALSE /\ bound = FALSE
    /\ presenting = FALSE /\ postponed = FALSE
    /\ ops = 0 /\ sent = {} /\ known = Nothing

User == Scan \/ LeaveResources \/ ChangeResources \/ Review \/ Cancel \/ Confirm
            \/ EditOptions \/ SelectTiers \/ Quit

Next ==
    \/ User
    \/ Helper \/ Stdout \/ Stderr
    \/ Applies \/ Finishes
    \/ Sparkle(ChecksOnSchedule) \/ Sparkle(ChecksForTheUser) \/ Sparkle(Attends)
    \/ Sparkle(FindsNothing) \/ Sparkle(Finds) \/ Answers
    \/ Sparkle(BoundPasses) \/ RefusesInstall

\* The helper and the threads are scheduled, the main queue is served and six
\* seconds pass; Sparkle may be silent and the user may be away.
Fairness ==
    /\ WF_vars(Helper) /\ WF_vars(Stdout) /\ WF_vars(Stderr)
    /\ WF_vars(Applies \/ Finishes)
    /\ WF_vars(Sparkle(BoundPasses))

Spec == Init /\ [][Next]_vars /\ Fairness
-----------------------------------------------------------------------------
TypeOK ==
    /\ state \in {"idle", "scanning", "ready", "failed"}
    /\ options \in Options /\ scanOptions \in Valid \union {Nothing}
    /\ selected \subseteq Tiers
    /\ sheet = Nothing \/ sheet \subseteq Tiers
    /\ helper \in {"none", "starting", "running", "exited"}
    /\ reader \in {"none", "reads", "stops", "stopped", "awaits"}
    /\ Len(out) <= Capacity /\ err \in 0..Capacity
    /\ cycle \in {"off", "none", "checking", "asked", "reminded", "offered", "waiting",
                  "installing", "refused"}

\* The app quits, by the user's wish or for an install, only when no helper
\* runs and the user has been told how the last operation ended
\* (AppDelegate.swift:84, Updater.swift:96).
NothingIsCutShort ==
    ~up => helper = "none" /\ main = <<>>

\* A cleanup begins only with the options of a scan that was shown whole and
\* with nothing done since that changes resources (AppModel.swift:97, 111).
ReclaimIsOfTheScan ==
    [][Confirm /\ busy' => known = options]_vars

\* When a scan is shown as complete, every item its helper reported is there
\* and under its own context, for all that two threads and two queues lie
\* between them (AppModel.swift:131, 213).
ReportIsWhole ==
    state = "ready" /\ collecting => items = sent

\* An operation ends, however much its helper writes to either pipe, unless
\* the app stopped reading it (Service.swift:134).
Stopped == reader = "stopped" /\ helper = "running"
OperationsEnd == busy ~> (~busy \/ Stopped)

\* The first scan starts, whatever the feed does and whenever the user asks
\* for what.  It is lost to an operation other than a scan that runs when it is
\* let go, and to settings that are not valid then; an install or the user's
\* quitting may come first, a helper that never ends stands in the way, and so
\* does an update, shown or quietly put in a line of the window, that nobody
\* ever sees to (Updater.swift:156, 170; AppModel.swift:85).
IsLost == ~held /\ (~IsValid \/ (busy /\ ~collecting))
LaunchScanStarts ==
    \/ held ~> \/ scanOptions # Nothing \/ IsLost
               \/ cycle \in {"installing", "refused"} \/ ~up \/ Stopped
    \/ <>[](cycle \in {"reminded", "offered"})

\* "The helper produced an implausibly long line and was stopped."
\* (Service.swift:73): an operation always ends.
StoppedHelpersEnd == busy ~> ~busy

\* What the sheet names is what is reclaimed (Views.swift:322).
NamedIsReclaimed ==
    [][Confirm /\ busy' => selected = sheet]_vars
=============================================================================
