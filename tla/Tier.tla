-------------------------------- MODULE Tier --------------------------------
(***************************************************************************)
(* What may go without asking.  A scan lists, measures, probes and writes  *)
(* to the index; RefGraph and classify put every resource in a tier; the   *)
(* plan keeps, with each verdict, the facts it rested on; a second scan    *)
(* must give the same verdict from the same facts; then the safe tier is   *)
(* removed, item by item, all against that one second report.  Meanwhile   *)
(* other people start, create, write to and remove things, and delete      *)
(* project directories.                                                    *)
(*                                                                         *)
(* Sizes are abstracted to "empty" and "holds something", contents to      *)
(* "can be made again" and "cannot", ages to "younger than a day" and not. *)
(* The removal itself, its failures and the vault are Executor's.          *)
(***************************************************************************)
EXTENDS Integers, FiniteSets

CONSTANTS
    Cons, Vols, Imgs, Nets,
    Projects,
    LabelOf,    \* com.docker.compose.project: [Res -> Projects \union {NoProject}]
    Carriers,   \* the labelled containers that also have a working_dir
    MountsOf,   \* [Cons -> SUBSET Vols]
    ImageOf,    \* [Cons -> Imgs]
    NetsOf,     \* [Cons -> SUBSET Nets]
    RouteOf,    \* recovery_for: [Imgs -> {"pull", "build", "impossible"}]
    BuiltIn,    \* bridge, host and none
    Rooted,     \* projects under a configured project root
    Declared,   \* volumes their compose files declare
    Swarm, Remote,      \* what the daemon says of itself
    MinAbsentScans,     \* MIN_ABSENT_SCANS
    Lives,              \* bound: the containers there may be at first
    MaxEvents,          \* bound: what other people do and what goes wrong
    NoProject, Nobody, NoVerdict, NoReport

Res == Cons \union Vols \union Imgs \union Nets

Tiers == {"protected", "free", "orphan", "repullable", "rebuildable", "stale",
          "unattributed"}

ASSUME TierAssumption ==
    /\ Cons \intersect (Vols \union Imgs \union Nets) = {}
    /\ Vols \intersect (Imgs \union Nets) = {} /\ Imgs \intersect Nets = {}
    /\ LabelOf \in [Res -> Projects \union {NoProject}]
    /\ Carriers \subseteq {c \in Cons : LabelOf[c] # NoProject}
    /\ MountsOf \in [Cons -> SUBSET Vols]
    /\ ImageOf \in [Cons -> Imgs]
    /\ NetsOf \in [Cons -> SUBSET Nets]
    /\ RouteOf \in [Imgs -> {"pull", "build", "impossible"}]
    /\ BuiltIn \subseteq Nets
    /\ Rooted \subseteq Projects
    /\ Declared \subseteq {v \in Vols : LabelOf[v] \in Rooted}
    /\ Swarm \in BOOLEAN /\ Remote \in BOOLEAN
    /\ MinAbsentScans \in Nat \ {0, 1} /\ MaxEvents \in Nat
    /\ Lives \subseteq [Cons -> {"unborn", "stopped", "running"}]
    /\ NoProject \notin Projects /\ Nobody \notin Cons

VARIABLES
    life,       \* of each container: "unborn", "stopped", "running", "gone"
    there,      \* the volumes, images and networks that exist
    full,       \* containers whose writable layer, volumes whose contents, matter
    young,      \* created less than a day ago
    touched,    \* volumes written less than a day ago
    reborn,     \* volumes made anew under an old name
    dirs,       \* projects whose directory is there
    newest,     \* index: the container last seen holding each volume
    misses,     \* index: absent_scans of each project's path
    stage,      \* "idle", "planning", "planned", "checking", "applying"
    df,         \* the pending sizes: what was measured, what of it was not empty
    listing,    \* what the scan under way has listed, or NoReport
    plan,       \* the verdict on each resource, or NoVerdict
    fresh,      \* the verdicts the second report gives
    todo,       \* selected items not handled yet
    stirred,    \* history: what others changed since the plan's scan began
    late,       \* history: of that, what after the second scan began
    events      \* how much other people have done

world == <<life, there, full, young, touched, reborn, dirs>>
index == <<newest, misses>>
tool == <<stage, df, listing, plan, fresh, todo>>
history == <<stirred, late, events>>
vars == <<world, index, tool, history>>

Unsized == [measured |-> {}, full |-> {}]
-----------------------------------------------------------------------------
(* RefGraph, of a report rep.                                              *)

Listed(rep) == rep.cons \union rep.there

\* A container refers to its mounts and its image in every state; of a
\* network the daemon lists only the live ones.
Holders(rep, r) ==
    {c \in rep.cons : \/ r \in MountsOf[c] \/ r = ImageOf[c]
                      \/ r \in NetsOf[c] /\ c \in rep.live}

\* Is the project's directory there?  Asked of the path on a container's own
\* label, of the catalog, or of what the index recalls.
Knows(rep, r) ==
    /\ LabelOf[r] # NoProject
    /\ r \in Carriers \/ LabelOf[r] \in rep.located

Present(rep, r) == Knows(rep, r) /\ LabelOf[r] \in rep.dirs

\* Mutation: a declaration counts once the volume has been mounted.
DeclaredAndMounted(rep, r) ==
    r \in Declared /\ LabelOf[r] \in rep.dirs /\ r \in UNION {MountsOf[c] : c \in rep.cons}

\* declared_by_live_project
DeclaredLive(rep, r) == r \in Declared /\ LabelOf[r] \in rep.dirs

\* Mutation: one scan more.
OrphanLater(rep, r) ==
    /\ Knows(rep, r) /\ ~Present(rep, r)
    /\ rep.misses[LabelOf[r]] > MinAbsentScans
    /\ ~DeclaredLive(rep, r)

\* is_orphan_candidate: missing in enough scans, and not declared.
Orphan(rep, r) ==
    /\ Knows(rep, r) /\ ~Present(rep, r)
    /\ rep.misses[LabelOf[r]] >= MinAbsentScans
    /\ ~DeclaredLive(rep, r)

\* Opacity::affects.  A volume whose project has no known path is hidden by
\* its own claim, which nobody can verify.
Hidden(rep, r) ==
    \/ Remote
    \/ Swarm /\ r \notin Cons
    \/ r \in Imgs
    \/ r \in Vols /\ LabelOf[r] # NoProject /\ ~Knows(rep, r)

\* What the daemon says itself, without a referrer to show for it.
InUse(rep, r) == r \in rep.live

\* referenced
Unknown(rep, r) == Hidden(rep, r) \/ (Holders(rep, r) = {} /\ InUse(rep, r))
Referenced(rep, r) == Holders(rep, r) # {} \/ DeclaredLive(rep, r)

\* Mutation: every container of the project counts, with a path or not, and
\* of every state it ever had.
CountsNames(rep, r) ==
    /\ r \in Carriers
    /\ \A c \in Cons : LabelOf[c] = LabelOf[r] => c = r

\* is_last_path_carrier
LastCarrier(rep, r) ==
    /\ r \in Carriers
    /\ \A c \in rep.cons \intersect Carriers : LabelOf[c] = LabelOf[r] => c = r
-----------------------------------------------------------------------------
(* classify.                                                               *)

\* Mutation: a layer nobody measured is empty.
NotKnownFull(rep, c) == c \notin rep.df.full

Empty(rep, c) == c \in rep.df.measured /\ c \notin rep.df.full

Worthless(rep, v) == v \in rep.probed /\ v \notin rep.full

\* reversibility_of, of what can be free.
Gone(rep, r) ==
    \/ r \in Cons /\ ~(Empty(rep, r) /\ LabelOf[r] # NoProject)
    \/ r \in Nets /\ LabelOf[r] = NoProject
    \/ r \in Vols /\ ~Worthless(rep, r)

\* The path went into the index with the container's edges.
PathRecorded(rep, c) == rep.checkpointed /\ MountsOf[c] # {}

\* Mutation: with no regard for the checkpoint.
DestabilisesNothing(rep, r) ==
    \/ r \in Cons /\ ~Empty(rep, r)
    \/ r \in Vols /\ (~Worthless(rep, r) \/ r \in rep.touched)

\* destabilises: mounts not written down, a layer or contents that matter
\* or were not measured, a write within the day.
Destabilises(rep, r) ==
    \/ r \in Cons /\ MountsOf[r] # {} /\ ~rep.checkpointed
    \/ r \in Cons /\ ~Empty(rep, r)
    \/ r \in Vols /\ (~Worthless(rep, r) \/ r \in rep.touched)

\* An image: what holds it, then what getting it back takes.
ImageTier(rep, i) ==
    CASE Holders(rep, i) # {} -> "protected"
      [] Holders(rep, i) = {} /\ RouteOf[i] = "pull" -> "repullable"
      [] Holders(rep, i) = {} /\ RouteOf[i] = "build" -> "rebuildable"
      [] OTHER -> IF Orphan(rep, i) THEN "orphan" ELSE "protected"

\* Unreferenced and of no dead project: the other two properties, the age.
Inert(rep, r) ==
    /\ ~(LastCarrier(rep, r) /\ ~PathRecorded(rep, r))
    /\ ~Destabilises(rep, r)
    /\ ~Gone(rep, r)

TierOf(rep, r) ==
    IF r \in Vols /\ ~Hidden(rep, r) /\ Holders(rep, r) \intersect rep.live # {}
        THEN "protected"
    ELSE IF r \in Imgs THEN ImageTier(rep, r)
    ELSE IF r \in BuiltIn THEN "protected"
    ELSE IF Unknown(rep, r) THEN "unattributed"
    ELSE IF Orphan(rep, r) THEN "orphan"
    ELSE IF Referenced(rep, r) THEN "protected"
    ELSE IF LastCarrier(rep, r) /\ ~PathRecorded(rep, r) THEN "stale"
    ELSE IF ~Inert(rep, r) THEN IF Knows(rep, r) THEN "stale" ELSE "unattributed"
    ELSE IF r \in rep.young THEN "stale"
    ELSE "free"

-----------------------------------------------------------------------------
(* The facts a verdict rests on (ReadSet), and the check against them.     *)

Generic(rep, r) ==
    /\ r \notin Imgs \union BuiltIn
    /\ ~Unknown(rep, r) /\ ~Orphan(rep, r) /\ ~Referenced(rep, r)

Lasting(rep, r) == Generic(rep, r) /\ ~(LastCarrier(rep, r) /\ ~PathRecorded(rep, r))

\* Mutation: the contents of every volume are a fact of every verdict.
FactsOfAll(rep, r) ==
    [hidden |-> Hidden(rep, r), holders |-> Holders(rep, r), contents |-> rep.full]

\* Of a set: unread if it is empty.
Facts(rep, r) ==
    [hidden |-> Hidden(rep, r),
     holders |-> {<<c, c \in rep.live>> :
                     c \in IF Hidden(rep, r) /\ r \notin Imgs THEN {} ELSE Holders(rep, r)},
     declared |-> ~Hidden(rep, r) /\ DeclaredLive(rep, r),
     layer |-> {<<r \in rep.df.measured, r \in rep.df.full>> : c \in {r} \intersect Cons},
     contents |-> {<<v \in rep.probed, v \in rep.full>> :
                      v \in {w \in {r} \intersect Vols : Worthless(rep, w) \/ Lasting(rep, w)}},
     written |-> {v \in rep.touched : v = r /\ Lasting(rep, v) /\ Worthless(rep, v)},
     recorded |-> {PathRecorded(rep, c) :
                      c \in {b \in {r} : Generic(rep, b) /\ LastCarrier(rep, b)}},
     edges |-> {rep.checkpointed :
                      c \in {b \in {r} \intersect Cons : Lasting(rep, b) /\ MountsOf[b] # {}}},
     born |-> {<<q \in rep.reborn, q \in rep.young>> :
                      q \in {b \in {r} : Generic(rep, b) /\ Inert(rep, b)}}]

Verdict(rep, r) == [tier |-> TierOf(rep, r), facts |-> Facts(rep, r)]

Verdicts(rep) ==
    LET listed == Listed(rep)
    IN  [r \in Res |-> IF r \in listed THEN Verdict(rep, r) ELSE NoVerdict]

Unjudged == [r \in Res |-> NoVerdict]

\* Mutation: the age of an item in seconds is one of its facts.
FreshToTheSecond(r) == FALSE

\* SafeToDelete::revalidate, against the second report.
Fresh(r) == fresh[r] # NoVerdict /\ fresh[r] = plan[r]
-----------------------------------------------------------------------------
Existing == {c \in Cons : life[c] \in {"stopped", "running"}} \union there

\* What a container needs to exist.
Needs(c) == MountsOf[c] \union NetsOf[c] \union {ImageOf[c]}

Init ==
    /\ life \in Lives
    /\ there \in {S \in SUBSET (Vols \union Imgs \union Nets) :
                     \A c \in Cons : life[c] # "unborn" => Needs(c) \subseteq S}
    /\ full \in SUBSET (Existing \intersect (Cons \union Vols))
    /\ young = {} /\ touched = {}
    /\ reborn = {}
    /\ dirs \in SUBSET Projects
    /\ newest = [v \in Vols |-> Nobody]
    /\ misses = [p \in Projects |-> 0]
    /\ stage = "idle"
    /\ df = NoReport /\ listing = NoReport
    /\ plan = Unjudged /\ fresh = Unjudged
    /\ todo = {}
    /\ stirred = {} /\ late = {} /\ events = 0
-----------------------------------------------------------------------------
(* A scan, the first for the plan and the second to check it.              *)

Scanning == stage \in {"planning", "checking"}

\* The df runs beside the listing and may be answered before or after it.
Begins ==
    /\ \/ stage = "idle" /\ stage' = "planning" /\ stirred' = {}
       \/ stage = "planned" /\ stage' = "checking" /\ UNCHANGED stirred
    /\ late' = {}
    /\ UNCHANGED <<world, index, df, listing, plan, fresh, todo, events>>

Measures ==
    /\ Scanning /\ df = NoReport
    /\ df' = [measured |-> Existing \intersect Cons, full |-> full \intersect Cons]
    /\ UNCHANGED <<world, index, stage, listing, plan, fresh, todo, history>>

Lists ==
    /\ Scanning /\ listing = NoReport
    /\ listing' = [cons |-> Existing \intersect Cons, live |-> {c \in Cons : life[c] = "running"},
                   there |-> there, young |-> young, reborn |-> reborn]
    /\ UNCHANGED <<world, index, stage, df, plan, fresh, todo, history>>

ListedCarriers == listing.cons \intersect Carriers

\* record_scan; two containers seen at once with a volume leave either last.
Remembers(n) ==
    \A v \in Vols :
        LET holders == {c \in Holders(listing, v) : LabelOf[c] # NoProject}
        IN  IF holders = {} THEN n[v] = newest[v] ELSE n[v] \in holders

\* record_projects, of the projects the catalog locates.
Counted(p) ==
    IF p \notin {LabelOf[c] : c \in ListedCarriers} \union (Rooted \intersect dirs)
        THEN misses[p]
    ELSE IF p \in dirs THEN 0
    ELSE IF misses[p] = MinAbsentScans THEN MinAbsentScans ELSE misses[p] + 1

\* Where the catalog and the index say a project is.
Located(carriers, n) ==
    {LabelOf[c] : c \in carriers} \union (Rooted \intersect dirs)
        \union {LabelOf[n[v]] : v \in {w \in Vols : n[w] \in Carriers}}

\* The contents are probed, the index is written and then read, and all is
\* judged.  Neither the probe nor the index need work.
Judges(recorded, counted, probing) ==
    /\ Scanning /\ df # NoReport /\ listing # NoReport
    /\ newest' \in [Vols -> Cons \union {Nobody}]
    /\ IF recorded THEN Remembers(newest') ELSE newest' = newest
    /\ misses' = [p \in Projects |-> IF counted THEN Counted(p) ELSE misses[p]]
    /\ LET rep == [cons |-> listing.cons, live |-> listing.live, there |-> listing.there, df |-> df,
                   young |-> listing.young, reborn |-> listing.reborn,
                   probed |-> IF probing THEN there \intersect Vols ELSE {},
                   full |-> full \intersect Vols, touched |-> touched,
                   checkpointed |-> recorded, dirs |-> dirs, misses |-> misses',
                   located |-> Located(ListedCarriers, newest')]
       IN  \/ /\ stage = "planning" /\ stage' = "planned"
              /\ plan' = Verdicts(rep)
              /\ UNCHANGED <<fresh, todo>>
           \/ /\ stage = "checking" /\ stage' = "applying"
              /\ fresh' = Verdicts(rep)
              /\ todo' = {r \in Res : plan[r] # NoVerdict /\ plan[r].tier = "free"}
              /\ UNCHANGED plan
    /\ df' = NoReport /\ listing' = NoReport
    /\ UNCHANGED world

JudgesWell == Judges(TRUE, TRUE, TRUE) /\ UNCHANGED history

\* What goes wrong counts as an event, and may change any verdict.
Upset ==
    /\ events < MaxEvents /\ events' = events + 1
    /\ stirred' = Res \union Projects
    /\ UNCHANGED late

JudgesBadly ==
    /\ Upset
    /\ \E recorded, counted, probing \in BOOLEAN :
           ~(recorded /\ counted /\ probing) /\ Judges(recorded, counted, probing)

\* No sizes were asked for, or the daemon did not give them.
SizingFails ==
    /\ Scanning /\ df = NoReport
    /\ df' = Unsized
    /\ Upset
    /\ UNCHANGED <<world, index, stage, listing, plan, fresh, todo>>
-----------------------------------------------------------------------------
(* The safe tier, in the order of the report: containers, volumes, networks. *)

Turn(r) ==
    /\ stage = "applying" /\ r \in todo
    /\ r \in Cons \/ todo \intersect Cons = {}
    /\ r \in Cons \union Vols \/ todo \intersect Vols = {}

\* The daemon removes nothing that is running or held.
Held(r) ==
    \E c \in Cons : \/ c = r /\ life[c] = "running"
                    \/ /\ life[c] \in {"stopped", "running"}
                       /\ r \in MountsOf[c] \union {ImageOf[c]}
                    \/ life[c] = "running" /\ r \in NetsOf[c]

Drops(r) ==
    /\ r \in Existing /\ ~Held(r)
    /\ life' = [c \in Cons |-> IF c = r THEN "gone" ELSE life[c]]
    /\ there' = there \ {r}
    /\ full' = full \ {r} /\ young' = young \ {r}
    /\ touched' = touched \ {r} /\ reborn' = reborn \ {r}

Removes(r) ==
    /\ Turn(r) /\ Fresh(r)
    /\ Drops(r)
    /\ todo' = todo \ {r}
    /\ UNCHANGED <<dirs, index, stage, df, listing, plan, fresh, history>>

\* Stale, gone already, or refused by the daemon.
Leaves(r) ==
    /\ Turn(r)
    /\ ~Fresh(r) \/ r \notin Existing \/ Held(r)
    /\ todo' = todo \ {r}
    /\ UNCHANGED <<world, index, stage, df, listing, plan, fresh, history>>

Forgets ==
    /\ stage' = "idle"
    /\ df' = NoReport /\ listing' = NoReport
    /\ plan' = Unjudged /\ fresh' = Unjudged
    /\ todo' = {}

Ends ==
    /\ stage = "applying" /\ todo = {}
    /\ Forgets
    /\ stirred' = {} /\ late' = {}
    /\ UNCHANGED <<world, index, events>>

\* Cancelled, or killed: nothing but the index is kept.
Abandons ==
    /\ stage # "idle"
    /\ events < MaxEvents /\ events' = events + 1
    /\ Forgets
    /\ stirred' = {} /\ late' = {}
    /\ UNCHANGED <<world, index>>
-----------------------------------------------------------------------------
(* Other people.                                                           *)

Stirs(S) ==
    /\ events < MaxEvents /\ events' = events + 1
    /\ stirred' = IF stage = "idle" THEN {} ELSE stirred \union S
    /\ late' = IF stage \in {"checking", "applying"} THEN late \union S ELSE {}
    /\ UNCHANGED <<index, tool>>

Starts(c) ==
    /\ life[c] = "stopped" /\ Needs(c) \subseteq there
    /\ life' = [life EXCEPT ![c] = "running"]
    /\ Stirs({c})
    /\ UNCHANGED <<there, full, young, touched, reborn, dirs>>

Stops(c) ==
    /\ life[c] = "running"
    /\ life' = [life EXCEPT ![c] = "stopped"]
    /\ Stirs({c})
    /\ UNCHANGED <<there, full, young, touched, reborn, dirs>>

\* "compose up": what is missing is made.
Creates(c) ==
    /\ life[c] = "unborn" /\ ImageOf[c] \in there
    /\ LET made == Needs(c) \ there
       IN  /\ life' = [life EXCEPT ![c] = "running"]
           /\ there' = there \union made
           /\ young' = young \union made \union {c}
           /\ reborn' = reborn \union (made \intersect Vols)
           /\ Stirs({c} \union made)
    /\ UNCHANGED <<full, touched, dirs>>

\* A container writes to its own layer or to a volume.
Writes(c) ==
    /\ life[c] = "running"
    /\ \E x \in {c} \union MountsOf[c] :
           /\ full' = full \union {x}
           /\ touched' = touched \union ({x} \intersect Vols)
           /\ Stirs({x})
    /\ UNCHANGED <<life, there, young, reborn, dirs>>

Vanishes(r) ==
    /\ Drops(r)
    /\ Stirs({r})
    /\ UNCHANGED dirs

\* A project is deleted, or cloned again.
Moves(p) ==
    /\ dirs' = IF p \in dirs THEN dirs \ {p} ELSE dirs \union {p}
    /\ Stirs({p})
    /\ UNCHANGED <<life, there, full, young, touched, reborn>>

DayPasses ==
    /\ young \union touched # {}
    /\ young' = {} /\ touched' = {}
    /\ Stirs(young \union touched)
    /\ UNCHANGED <<life, there, full, reborn, dirs>>

ToolStep ==
    \/ Begins \/ Measures \/ Lists \/ JudgesWell \/ Ends
    \/ \E r \in Res : Removes(r) \/ Leaves(r)

Mishap == SizingFails \/ JudgesBadly \/ Abandons

WorldStep ==
    \/ \E c \in Cons : Starts(c) \/ Stops(c) \/ Creates(c) \/ Writes(c)
    \/ \E r \in Res : Vanishes(r)
    \/ \E p \in Projects : Moves(p)
    \/ DayPasses

Next == ToolStep \/ Mishap \/ WorldStep

\* The program is run again and again; events are finite.  A ToolStep can be
\* taken in every state, so this is WF_vars(ToolStep), and cheaper to check.
Spec == Init /\ [][Next]_vars /\ []<><<ToolStep>>_vars
-----------------------------------------------------------------------------
Dfs == [measured : SUBSET Cons, full : SUBSET Cons]

\* The shape of the engine, the index and a run (RefGraph, Plan).
TypeOK ==
    /\ life \in [Cons -> {"unborn", "stopped", "running", "gone"}]
    /\ there \in SUBSET (Vols \union Imgs \union Nets)
    /\ full \in SUBSET (Cons \union Vols)
    /\ young \in SUBSET Res /\ touched \in SUBSET Vols /\ reborn \in SUBSET Vols
    /\ dirs \in SUBSET Projects
    /\ newest \in [Vols -> Cons \union {Nobody}]
    /\ misses \in [Projects -> 0..MinAbsentScans]
    /\ stage \in {"idle", "planning", "planned", "checking", "applying"}
    /\ df \in Dfs \union {NoReport}
    /\ \A r \in Res : plan[r] = NoVerdict \/ plan[r].tier \in Tiers
    /\ todo \in SUBSET Res
    /\ fresh = Unjudged \/ stage = "applying"
    /\ events \in 0..MaxEvents

\* "Deleting it destroys no information that cannot be recovered": what a
\* removal without asking takes with it was written after the second scan
\* had begun.
FreeLosesOnlyLateData ==
    [][\A r \in Res : Removes(r) /\ r \in full => r \in late]_vars

\* A volume whose only trace was a container's mount is still known when the
\* container is gone: the index has a labelled container for each volume.
MountsAreRemembered ==
    [][\A c \in Cons : \A v \in Vols :
           Removes(c) /\ v \in MountsOf[c] => newest[v] # Nobody]_vars

\* Where a project can be found: a container says, the index does, or its
\* directory is under a project root.
Locatable(p) ==
    p \in Located(Existing \intersect Carriers, newest)

\* The index has one owner for volume v, the last seen: one that is not of c's
\* project, or that does not tell where it is.
RecalledByOther(v, c) ==
    /\ newest[v] \in Cons /\ v \in MountsOf[newest[v]]
    /\ ~(newest[v] \in Carriers /\ LabelOf[newest[v]] = LabelOf[c])

\* One removal never takes the last trace of a project's place, unless another
\* container that told it went since the second scan, or a volume of its own
\* was seen in that scan with a container that says something else.
PathsGoInPairsOnly ==
    [][\A c \in Cons :
           Removes(c) /\ Locatable(LabelOf[c]) /\ ~Locatable(LabelOf[c])'
               => \/ \E b \in Carriers \ {c} :
                         /\ LabelOf[b] = LabelOf[c]
                         /\ fresh[b] # NoVerdict /\ b \notin Existing
                  \/ \E v \in MountsOf[c] :
                         RecalledByOther(v, c) /\ fresh[newest[v]] # NoVerdict]_vars

\* What is "recreated on next compose up" goes from a project that is there,
\* or was when the plan was made: a directory missing in both scans is either
\* an orphan's by then or a change of tier.
ConfigStillExists ==
    [][\A c \in Carriers :
           Removes(c) => LabelOf[c] \in dirs \union stirred]_vars

\* "What protects a volume belonging to a project you simply have not started
\* today": one that a compose file declares goes without asking only while
\* the project is missing, or comes back under the second scan.
DeclaredIsKept ==
    [][\A v \in Declared :
           Removes(v) => LabelOf[v] \notin dirs \/ LabelOf[v] \in late]_vars

\* Of r's project nothing says any more where it is, and the index recalls by
\* others a volume that one of its containers mounts.
PlaceIsOverwritten(r) ==
    /\ ~Locatable(LabelOf[r])
    /\ \E c \in Carriers : LabelOf[c] = LabelOf[r] /\ \E v \in MountsOf[c] : RecalledByOther(v, c)

\* "A fact we never read cannot invalidate the decision": a verdict of the
\* plan is lost only if the item, what holds it, what tells the same path or
\* the project itself was touched by somebody; or, a volume's, if the index
\* has come to recall its project's volumes by another's containers.
OnlyWhatWasReadCancels ==
    [][\A r \in Res :
           Leaves(r) /\ ~Fresh(r)
               => \/ r \in stirred \/ LabelOf[r] \in stirred
                  \/ \E c \in stirred \intersect Cons :
                         \/ r \in Needs(c)
                         \/ LabelOf[c] = LabelOf[r] /\ LabelOf[c] # NoProject
                  \/ LabelOf[r] \notin dirs \union {NoProject}
                  \/ r \in Vols /\ PlaceIsOverwritten(r)]_vars

\* Running it again comes to an end: once nothing else happens no plan has
\* anything left that is free.
CleanupSettles ==
    <>[](stage = "planned" => \A r \in Res : plan[r] = NoVerdict \/ plan[r].tier # "free")

\* "Removing the last one loses that project's location permanently, which is
\* ... a tier-stability violation": a removal without asking never does.
LocationsSurvive ==
    [][\A c \in Cons :
           Removes(c) /\ Locatable(LabelOf[c]) => Locatable(LabelOf[c])']_vars
=============================================================================
