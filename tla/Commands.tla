------------------------------ MODULE Commands ------------------------------
(***************************************************************************)
(* The command line: --waive, --unwaive, --update, --check-update, and the *)
(* run itself, which may offer an update and start over as the new binary, *)
(* and otherwise takes one context after the other: is it a new engine,    *)
(* scan, read the waivers, plan, scan again, clean.  What a scan makes of  *)
(* an engine and how an item is removed are Provenance's, Tier's and       *)
(* Executor's: here an item is there until a run has removed it.           *)
(***************************************************************************)
EXTENDS Waivers, Update, Sequences

CONSTANTS
    Runners,    \* bound: the processes that may be runs
    Contexts,   \* context::discover, without those refused as remote
    EngineOf,   \* whose daemon answers there
    Items,      \* what a run would remove from an engine
    Covers      \* the items a selector matches

ASSUME CommandsAssumption ==
    /\ Contexts \in Seq(DOMAIN EngineOf) /\ Contexts # <<>>
    /\ Covers \in [Selectors -> SUBSET Items]

Engines == {EngineOf[c] : c \in DOMAIN EngineOf}

VARIABLES
    apply,      \* --apply
    flag,       \* Cancel: an interrupt was seen
    next,       \* the context a run is at
    seen,       \* the engines it has counted as its own
    exit,       \* the worst of the codes of the contexts so far
    plan,       \* what it would remove from the engine it is at
    gone,       \* what was removed, of every engine
    tally,      \* history: how often a run cleaned each engine
    failed,     \* history: an item of it failed
    owed,       \* history: the waivers in force when it read them
    taken       \* history: what it removed after that

choice == <<apply, flag>>
progress == <<next, seen, exit, plan>>
history == <<tally, failed, owed, taken>>
vars == <<at, code, starts, waivers, update, choice, progress, gone, history>>

RunSteps == {"starting", "waiting", "offered", "choosing", "scanning",
             "planning", "rescanning", "executing", "restarting"}

\* interrupt::install is called by a run and by no other command.
Handles(p) == at[p] \in RunSteps \/ accepted[p]

Larger(m, n) == IF m > n THEN m ELSE n
-----------------------------------------------------------------------------
(* Beginning and ending.                                                   *)

\* What a process starts with, whatever it is asked to do.
Fresh(p, version, again) ==
    /\ runs' = [runs EXCEPT ![p] = version]
    /\ guard' = [guard EXCEPT ![p] = again]
    /\ replaced' = [replaced EXCEPT ![p] = FALSE]
    /\ accepted' = [accepted EXCEPT ![p] = FALSE]
    /\ answer' = [answer EXCEPT ![p] = None]
    /\ manifest' = [manifest EXCEPT ![p] = 1]
    /\ staged' = [staged EXCEPT ![p] = None]
    /\ synced' = [synced EXCEPT ![p] = FALSE]
    /\ misled' = [misled EXCEPT ![p] = FALSE]
    /\ flag' = [flag EXCEPT ![p] = FALSE]
    /\ next' = [next EXCEPT ![p] = 1]
    /\ seen' = [seen EXCEPT ![p] = {}]
    /\ exit' = [exit EXCEPT ![p] = 0]
    /\ plan' = [plan EXCEPT ![p] = {}]
    /\ tally' = [tally EXCEPT ![p] = [e \in Engines |-> 0]]
    /\ failed' = [failed EXCEPT ![p] = FALSE]
    /\ owed' = [owed EXCEPT ![p] = {}]
    /\ taken' = [taken EXCEPT ![p] = {}]

Begin(p) ==
    /\ at[p] = "out" /\ exe # Broken
    /\ Starting
    /\ Fresh(p, exe, FALSE)
    /\ landed' = [landed EXCEPT ![p] = None]
    /\ code' = [code EXCEPT ![p] = -1]
    /\ \/ /\ \E s \in Selectors, what \in {"waiving", "unwaiving"} :
                 OpenToChange(p, s) /\ at' = [at EXCEPT ![p] = what]
          /\ UNCHANGED apply
       \/ /\ at' = [at EXCEPT ![p] = "locating"]
          /\ UNCHANGED <<apply, waivers>>
       \/ /\ p \in Runners
          /\ \E b \in BOOLEAN : apply' = [apply EXCEPT ![p] = b]
          /\ at' = [at EXCEPT ![p] = "starting"]
          /\ UNCHANGED waivers
    /\ UNCHANGED <<feed, cache, disk, gone>>

\* The first Ctrl-C of a run.
Interrupt(p) ==
    /\ Handles(p) /\ ~flag[p]
    /\ flag' = [flag EXCEPT ![p] = TRUE]
    /\ UNCHANGED <<at, code, starts, waivers, update, apply, progress, gone, history>>

\* The second, the first of any other command, or a kill.  What was staged
\* stays on the disk under the number of a process that is no more.
Kill(p) ==
    /\ at[p] # "out"
    /\ Exits(p, -1)
    /\ UNCHANGED <<starts, waivers, update, choice, progress, gone, history>>

\* The power fails: what was not synced may be lost.
Outage ==
    /\ Running # {}
    /\ at' = [p \in Procs |-> "out"] /\ code' = [p \in Procs |-> -1]
    /\ exe' \in IF durable THEN {exe} ELSE {exe, Broken}
    /\ durable' = TRUE
    /\ file' \in {file, Torn}
    /\ UNCHANGED <<starts, mem, wanted, inForce, disturbed, feed, cache, dead, origin,
                   self, answer, install, landed, choice, progress, gone, history>>
-----------------------------------------------------------------------------
(* The offer.                                                              *)

RunGoes(p, where) ==
    /\ Goes(p, where)
    /\ UNCHANGED <<waivers, choice, progress, gone, history>>

\* wants_update_notice, spawn_check.
StartRun(p) ==
    /\ at[p] = "starting"
    /\ \/ Answers(p, Asked) /\ RunGoes(p, "waiting")
       \/ UNCHANGED answer /\ RunGoes(p, "choosing")
    /\ UNCHANGED <<feed, cache, disk, self, install, landed>>

\* await_notice: six seconds at most.
AwaitNotice(p) ==
    /\ at[p] = "waiting"
    /\ IF answer[p] \in Versions
       THEN Answers(p, None) /\ RunGoes(p, "offered")
       ELSE UNCHANGED answer /\ RunGoes(p, "choosing")
    /\ UNCHANGED <<feed, cache, disk, self, install, landed>>

\* Return or y.
Accept(p) ==
    /\ at[p] = "offered"
    /\ ~guard[p] /\ origin = "standalone"
    /\ accepted' = [accepted EXCEPT ![p] = TRUE]
    /\ RunGoes(p, "locating")
    /\ UNCHANGED <<feed, cache, disk, runs, replaced, guard, answer, install, landed>>

\* n, the end of the input, or nobody who may be asked.
Decline(p) ==
    /\ at[p] = "offered"
    /\ RunGoes(p, "choosing")
    /\ UNCHANGED update

\* reexec_into_new_binary: an exec keeps the process and nothing it knew.
Restart(p) ==
    /\ at[p] = "restarting"
    /\ IF Successor(p) \in Versions
       THEN /\ Fresh(p, Successor(p), TRUE)
            /\ Goes(p, "starting")
       ELSE /\ Exits(p, 1)
            /\ UNCHANGED <<self, answer, install, flag, progress, history>>
    /\ UNCHANGED <<waivers, feed, cache, disk, landed, apply, gone>>
-----------------------------------------------------------------------------
(* One context after the other.                                            *)

Engine(p) == EngineOf[Contexts[next[p]]]

Skips(p) == next' = [next EXCEPT ![p] = @ + 1]

\* Docker cannot be reached there, or does not say who it is.
NotReached(p) ==
    /\ at[p] = "choosing" /\ next[p] <= Len(Contexts)
    /\ Skips(p)
    /\ UNCHANGED <<at, code, waivers, update, choice, seen, exit, plan, gone, history>>

Reach(p) ==
    /\ at[p] = "choosing" /\ next[p] <= Len(Contexts)
    /\ IF Engine(p) \in seen[p]
       THEN Skips(p) /\ UNCHANGED <<seen, at, code>>
       ELSE /\ seen' = [seen EXCEPT ![p] = @ \union {Engine(p)}]
            /\ Goes(p, "scanning")
            /\ UNCHANGED next
    /\ UNCHANGED <<waivers, update, choice, exit, plan, gone, history>>

\* The scan, or the one before applying, sees the flag at its first
\* checkpoint; an error of either ends the run, whatever is left.
Scan(p) ==
    /\ at[p] \in {"scanning", "rescanning"}
    /\ \/ flag[p] /\ Exits(p, Cancelled)
       \/ \E c \in Errors : Exits(p, c)
       \/ ~flag[p] /\ Goes(p, IF at[p] = "scanning" THEN "planning" ELSE "executing")
    /\ UNCHANGED <<waivers, update, choice, progress, gone, history>>

\* Planner::plan_with_waivers
Unwaived(p) ==
    {i \in Items : /\ <<Engine(p), i>> \notin gone
                   /\ \A s \in mem'[p] : i \notin Covers[s]}

\* Mutation: the waivers are read once, for the first engine.
PlanRemembering(p) ==
    /\ at[p] = "planning"
    /\ IF next[p] = 1 THEN OpenToPlan(p) ELSE UNCHANGED waivers
    /\ plan' = [plan EXCEPT ![p] = Unwaived(p)]
    /\ owed' = [owed EXCEPT ![p] = inForce]
    /\ taken' = [taken EXCEPT ![p] = {}]
    /\ Goes(p, "rescanning")
    /\ UNCHANGED <<update, choice, next, seen, exit, gone, tally, failed>>

Plan(p) ==
    /\ at[p] = "planning"
    /\ OpenToPlan(p)
    /\ plan' = [plan EXCEPT ![p] = Unwaived(p)]
    /\ owed' = [owed EXCEPT ![p] = inForce]
    /\ taken' = [taken EXCEPT ![p] = {}]
    /\ Goes(p, "rescanning")
    /\ UNCHANGED <<update, choice, next, seen, exit, gone, tally, failed>>

\* The vault has no place to be in.
NoVault(p) ==
    /\ at[p] = "executing"
    /\ Exits(p, ConfigError)
    /\ UNCHANGED <<waivers, update, choice, progress, gone, history>>

\* What an Executor may make of a plan: under an interrupt items are left.
Outcomes(p) ==
    {o \in [plan[p] -> {"removed", "failed", "skipped", "left"}] :
        /\ (\E i \in plan[p] : o[i] = "left") => flag[p]
        /\ ~apply[p] => \A i \in plan[p] : o[i] # "failed"}

Had(o, what) == {i \in DOMAIN o : o[i] = what}

\* The code of one context.
CodeOf(p, o) ==
    IF Had(o, "failed") # {} THEN Trouble
    ELSE IF ~apply[p] /\ Had(o, "removed") \union Had(o, "skipped") # {} THEN 1 ELSE 0

\* Mutation: the last context decides.
LastCode(p, o) == CodeOf(p, o)

\* The worst so far.
CodeAfter(p, o) == Larger(exit[p], CodeOf(p, o))

Execute(p) ==
    /\ at[p] = "executing"
    /\ \E o \in Outcomes(p) :
        /\ gone' = IF apply[p] THEN gone \union ({Engine(p)} \X Had(o, "removed")) ELSE gone
        /\ taken' = [taken EXCEPT ![p] = IF apply[p] THEN Had(o, "removed") ELSE {}]
        /\ failed' = [failed EXCEPT ![p] = @ \/ Had(o, "failed") # {}]
        /\ \/ flag[p] /\ Exits(p, Cancelled) /\ UNCHANGED <<next, exit>>
           \/ /\ Had(o, "left") = {}
              /\ exit' = [exit EXCEPT ![p] = CodeAfter(p, o)]
              /\ Skips(p)
              /\ Goes(p, "choosing")
    /\ tally' = [tally EXCEPT ![p][Engine(p)] = @ + 1]
    /\ UNCHANGED <<waivers, update, choice, seen, plan, owed>>

\* No engine at all is an error: the last one met.
Finish(p) ==
    /\ at[p] = "choosing" /\ next[p] > Len(Contexts)
    /\ \E c \in IF seen[p] = {} THEN Errors ELSE {exit[p]} : Exits(p, c)
    /\ UNCHANGED <<waivers, update, choice, progress, gone, history>>

Run(p) ==
    \/ StartRun(p) \/ AwaitNotice(p) \/ Accept(p) \/ Decline(p) \/ Restart(p)
    \/ NotReached(p) \/ Reach(p) \/ Scan(p) \/ Plan(p) \/ NoVault(p)
    \/ Execute(p) \/ Finish(p)
-----------------------------------------------------------------------------
Init ==
    /\ at = [p \in Procs |-> "out"]
    /\ code = [p \in Procs |-> -1]
    /\ starts = 0
    /\ WaiverInit /\ UpdateInit
    /\ apply = [p \in Procs |-> FALSE] /\ flag = [p \in Procs |-> FALSE]
    /\ next = [p \in Procs |-> 1] /\ seen = [p \in Procs |-> {}]
    /\ exit = [p \in Procs |-> 0] /\ plan = [p \in Procs |-> {}]
    /\ gone = {}
    /\ tally = [p \in Procs |-> [e \in Engines |-> 0]]
    /\ failed = [p \in Procs |-> FALSE]
    /\ owed = [p \in Procs |-> {}] /\ taken = [p \in Procs |-> {}]

own == <<choice, progress, gone, history>>

Next ==
    \/ \E p \in Procs :
        \/ Begin(p) \/ Interrupt(p) \/ Kill(p)
        \/ Run(p) /\ UNCHANGED starts
        \/ WaiverStep(p) /\ UNCHANGED <<starts, update, own>>
        \/ UpdateStep(p) /\ UNCHANGED <<starts, waivers, own>>
        \/ Check(p) /\ UNCHANGED <<at, code, starts, waivers, own>>
    \/ Outage
    \/ (Publish \/ Expire) /\ UNCHANGED <<at, code, starts, waivers, own>>

Spec == Init /\ [][Next]_vars
-----------------------------------------------------------------------------
\* The shape of the state of the processes and of what they share.
TypeOK ==
    /\ at \in [Procs -> RunSteps \union Changing \union
                  {"out", "locating", "fetching", "installing", "writing", "syncing",
                   "testing", "renaming"}]
    /\ code \in [Procs -> {-1, 0, 1, 2, 3, 4, 5, 130}]
    /\ starts \in 0..MaxStarts
    /\ file \in (SUBSET Selectors) \union {Torn}
    /\ mem \in [Procs -> SUBSET Selectors] /\ wanted \in [Procs -> Selectors]
    /\ inForce \subseteq Selectors /\ disturbed \in BOOLEAN
    /\ feed \in Versions /\ cache \in Versions \union {Failed, None}
    /\ origin \in {"standalone", "managed"}
    /\ exe \in Versions \union {Broken} /\ durable \in BOOLEAN
    /\ dead \in Versions \union {Broken, None}
    /\ runs \in [Procs -> Versions] /\ manifest \in [Procs -> Versions]
    /\ {replaced, guard, accepted, synced, misled, apply, flag, failed}
           \subseteq [Procs -> BOOLEAN]
    /\ answer \in [Procs -> Versions \union {None, Asked, Silent}]
    /\ staged \in [Procs -> Versions \union {Broken, None}]
    /\ landed \in [Procs -> Versions \union {None}]
    /\ next \in [Procs -> 1..Len(Contexts) + 1] /\ seen \in [Procs -> SUBSET Engines]
    /\ exit \in [Procs -> {0, 1, 5}]
    /\ plan \in [Procs -> SUBSET Items] /\ taken \in [Procs -> SUBSET Items]
    /\ gone \subseteq Engines \X Items
    /\ tally \in [Procs -> [Engines -> Nat]]
    /\ owed \in [Procs -> SUBSET Selectors]

\* "A waiver marks matching resources Protected until you remove it": what the
\* user was told is left alone when a run read the waivers is not removed by
\* it.  The file is changed without a lock and in place, so this holds until
\* two changes overlap, or the file is read half written: never otherwise,
\* and of no kill or failed write that leaves the file whole.
WaivedAreSpared ==
    disturbed \/ \A p \in Procs : \A s \in owed[p] : taken[p] \intersect Covers[s] = {}

\* "The one atomic step": what sits at the executable's path, after any kill
\* or power failure and whoever else installs, runs and is the release it
\* says it is; and a copy that others manage is never replaced.
ExecutableIsWhole ==
    /\ exe # Broken /\ (exe # 1 => Says[exe] = exe)
    /\ origin = "managed" => exe = 1 /\ dead = None

\* Exit 0 means that every engine that was reached was cleaned, once however
\* many contexts lead to it, and that no item failed in any of them, the first
\* as well as the last.
ExitAccounts ==
    \A p \in Procs :
        /\ \A e \in Engines : tally[p][e] <= 1
        /\ code[p] = 0 => /\ ~failed[p]
                          /\ seen[p] # {} => \A e \in seen[p] : tally[p][e] = 1

\* "So the run continues, on the new version": once an offer has installed a
\* release, the process does not end before it is at an engine.
OfferContinues ==
    \A p \in Procs : landed[p] # None /\ at[p] = "out" /\ code[p] = 1
                        => seen[p] # {} \/ next[p] > 1
=============================================================================
