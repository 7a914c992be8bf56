------------------------------- MODULE Probe -------------------------------
(****************************************************************************)
(* The content probe of a scan (crates/prune-juice-core/src/probe/mod.rs,   *)
(* the "content probe" section of scan/mod.rs and the probe container of    *)
(* docker/bollard_client.rs): what stands between "unreferenced volume" and *)
(* "the only copy of a database".  Two ways to read a volume: from the host *)
(* (a capped recursive walk, one read_dir or one entry a step) and by a     *)
(* throwaway container that lists and counts a batch of volumes and whose   *)
(* output is streamed.  Another program writes, moves and deletes in the    *)
(* volumes meanwhile, the stream may end early, the process may be killed.  *)
(*                                                                          *)
(* Abstracted: names are the classes classify tells apart; the order in     *)
(* which a listing meets its limit; the cap on the container's counter      *)
(* (only zero counts) and on its text (4 MB: a cut stream); sizes and       *)
(* timestamps; warnings and progress.                                       *)
(****************************************************************************)
EXTENDS Integers, Sequences, FiniteSets, FiniteSetsExt

CONSTANTS
    Volumes,      \* the volumes the daemon lists
    Dirs, Files,  \* what can lie in them (a link is a file: never followed)
    NamesOf,      \* NamesOf[n]: the name classes node n may have
    ListLimit,    \* entries a listing holds (256 in the code, both ways)
    MaxDepth,     \* levels the scan's walk descends (2 in the code)
    WalkLimit,    \* entries a walk visits (20 000 in the code)
    Batch,        \* volumes one container reads (25 in the code)
    MaxClosed,    \* bound: directories and volumes that refuse to be read
    MaxWrites,    \* bound: changes the other program makes
    MaxScans      \* bound: scans, one after the other

Nodes == Dirs \cup Files
Names == {"cache", "noise", "mark", "bucket", "plain"}

CONSTANTS Nowhere, Uncounted

ASSUME ProbeAssumption ==
    /\ NamesOf \in [Nodes -> SUBSET Names]
    /\ Volumes \cap Nodes = {} /\ Dirs \cap Files = {}
    /\ IsFiniteSet(Nodes)
    /\ {ListLimit, MaxDepth, WalkLimit, Batch, MaxClosed, MaxWrites, MaxScans} \subseteq Nat
    /\ ListLimit > 0 /\ Batch > 0 /\ Nowhere \notin Volumes \cup Nodes /\ Uncounted \notin Nat

VARIABLES
    parent,       \* the tree: where each node lies
    name,         \* the class of each node's name
    closed,       \* the directories and volumes that refuse to be read
    writes,       \* changes made so far
    scans,        \* scans begun
    at,           \* where the scan stands
    todo,         \* volumes still to be read
    vol,          \* the volume being read
    entries,      \* its top-level listing
    stack,        \* the walk's frames: what is left to visit, innermost first
    walk,         \* the walk's counters
    batch,        \* what the container has still to print
    find,         \* the probe image has a find
    raw,          \* what has been parsed of the container's output
    report,       \* what the scan knows of the contents
    containers,   \* probe containers that exist, each the volumes it holds
    touched,      \* nodes changed since the reading of vol began
    left          \* containers left by a kill or a refused removal

tree == <<parent, name, closed>>
reading == <<vol, entries, stack, walk, touched>>
boxed == <<batch, find, raw>>
vars == <<tree, writes, scans, at, todo, reading, boxed, report, containers, left>>

(****************************************************************************)
(* The tree.                                                                *)
(****************************************************************************)

Children(x) == {n \in Nodes : parent[n] = x}

\* What a top-level listing of x may hold: nothing when x does not open, all
\* that lies in it when that is less than the limit, and else as many entries
\* as the limit, which ones the directory's order decides.
Listings(x) ==
    IF x \in closed THEN {{}}
    ELSE {E \in SUBSET Children(x) :
             \/ Cardinality(E) = ListLimit
             \/ Cardinality(E) < ListLimit /\ E = Children(x)}

\* Everything below x in a tree, as far as the directories in `open` lead: what
\* is in every set that has all that lies in x, and in what it has itself.
Holds(S, up, x, open) ==
    \A n \in Nodes : up[n] \in open /\ up[n] \in S \cup {x} => n \in S

Through(up, x, open) ==
    {n \in Nodes : \A S \in SUBSET Nodes : Holds(S, up, x, open) => n \in S}

Under(x) == Through(parent, x, Volumes \cup Dirs)

\* What a reader that may not open every directory reaches.
Reachable(x) == Through(parent, x, (Volumes \cup Dirs) \ closed)

(****************************************************************************)
(* Classification.                                                          *)
(****************************************************************************)

\* A classify that lets a cache count without dominating.
LooseClassify(E, objects) ==
    LET named(c) == \E n \in E : name[n] = c IN
    CASE named("mark") -> "Database"
      [] ~named("mark") /\ named("cache") -> "Derivative"
      [] OTHER -> IF objects = 0 THEN "Empty" ELSE "Unrecognised"

\* probe/mod.rs classify: a signature wins over everything, a cache must be
\* the only entry that means anything, and only a count that was taken and is
\* zero makes a volume empty.
Classify(E, objects) ==
    LET named(c) == \E n \in E : name[n] = c
        meaningful == {n \in E : name[n] # "noise"} IN
    CASE E = {} -> IF objects = 0 THEN "Empty" ELSE "Unrecognised"
      [] named("mark") -> "Database"
      [] ~named("mark") /\ named("cache") /\ Cardinality(meaningful) = 1 -> "Derivative"
      [] ~named("mark") /\ named("bucket") -> "UserData"
      [] OTHER -> IF objects = 0 THEN "Empty" ELSE "Unrecognised"

\* The report of volume v and, when its class licenses a removal, what the
\* properties compare it to: the files that lay in v unmoved while it was read,
\* those no reader could reach, the entries of the top level that mean anything,
\* whether the stream was cut within the listing, and whether the listing
\* reached its limit short of an entry that lay still.
Report(v, E, objects, cutoff) ==
    LET class == Classify(E, objects)
        unmoved(n) == touched \cap ({n} \cup {d \in Dirs : n \in Under(d)}) = {}
        ghost(S) == IF class \in {"Empty", "Derivative"} THEN S ELSE {} IN
    [class  |-> class,
     stood  |-> ghost({f \in Files \cap Under(v) : unmoved(f)}),
     hidden |-> ghost(Files \cap (Under(v) \ Reachable(v))),
     top    |-> ghost({n \in Children(v) \ touched : name[n] # "noise"}),
     cut    |-> cutoff,
     capped |-> Cardinality(E) = ListLimit /\ ~(Children(v) \ touched \subseteq E)]

NoReport == [v \in {} |-> {}]
WithReport(R, v, r) == [u \in DOMAIN R \cup {v} |-> IF u = v THEN r ELSE R[u]]

FreshWalk == [objects |-> 0, visited |-> 0, truncated |-> FALSE]

\* The locals of one reading go with it.
Forgets ==
    /\ vol' = Nowhere /\ entries' = {} /\ stack' = <<>>
    /\ walk' = FreshWalk /\ touched' = {}

Init ==
    /\ parent \in [Nodes -> Volumes \cup Dirs \cup {Nowhere}]
    /\ \A n \in Nodes : n \notin Under(n)
    /\ name \in {f \in [Nodes -> Names] : \A n \in Nodes : f[n] \in NamesOf[n]}
    /\ closed \in {C \in SUBSET (Dirs \cup Volumes) : Cardinality(C) <= MaxClosed}
    /\ writes = 0 /\ scans = 0 /\ at = "over"
    /\ todo = {} /\ vol = Nowhere /\ entries = {} /\ stack = <<>>
    /\ walk = FreshWalk /\ touched = {}
    /\ batch = {} /\ find = FALSE /\ raw = NoReport /\ report = NoReport
    /\ containers = {} /\ left = {}

(****************************************************************************)
(* The scan's choice of a way (scan/mod.rs).                                *)
(****************************************************************************)

\* A scan begins its content probe: from the host when the data root can be
\* read, all volumes; else in containers, those that no container holds (the
\* user's, or a probe container left behind), if there are such volumes and an
\* image to do it with.
BeginsScan ==
    /\ at = "over" /\ scans < MaxScans
    /\ scans' = scans + 1
    /\ report' = NoReport /\ raw' = NoReport
    /\ \/ /\ at' = "native" /\ todo' = Volumes
          /\ UNCHANGED find
       \/ /\ \E mounted \in SUBSET Volumes : todo' = Volumes \ (mounted \cup UNION containers)
          /\ at' \in IF todo' = {} THEN {"over"} ELSE {"over", "batches"}
          /\ find' \in BOOLEAN
    /\ UNCHANGED <<tree, writes, reading, batch, containers, left>>

\* cancel.check() found the flag set: the scan ends with an error and hands
\* nothing on.
CancelsScan ==
    /\ at \in {"native", "batches"}
    /\ at' = "over" /\ report' = NoReport /\ todo' = {}
    /\ UNCHANGED <<tree, writes, scans, reading, boxed, containers, left>>

\* The deadline passed, or nothing is left: the scan goes on with what it has.
EndsScan ==
    /\ at \in {"native", "batches"}
    /\ at' = "over" /\ todo' = {}
    /\ UNCHANGED <<tree, writes, scans, reading, boxed, report, containers, left>>

(****************************************************************************)
(* Reading from the host: probe_dir_to_depth and Walk.                      *)
(****************************************************************************)

\* The top-level listing.
Lists(v) ==
    /\ at = "native" /\ v \in todo
    /\ at' = "listed" /\ todo' = todo \ {v} /\ vol' = v
    /\ entries' \in Listings(v)
    /\ touched' = {}
    /\ UNCHANGED <<tree, writes, scans, stack, walk, boxed, report, containers, left>>

\* The path by which directory d was found still leads to it.
PathStands(d, frames) ==
    LET path == <<d>> \o [i \in 1 .. Len(frames) |-> frames[i].dir] IN
    \A i \in 1 .. Len(frames) : parent[path[i]] = path[i + 1]

\* An Enter whose depth cap stops without saying so.
QuietEnter(d, depth, frames, w) ==
    IF depth >= MaxDepth \/ w.truncated THEN [stack |-> frames, walk |-> w]
    ELSE [stack |-> IF d \in closed \/ ~PathStands(d, frames) THEN frames
                    ELSE <<[dir |-> d, rest |-> Children(d), depth |-> depth]>> \o frames,
          walk |-> w]

\* Walk::run on directory d at a depth, over the frames and counters so far:
\* past the cap it marks the walk truncated, and a directory that does not
\* open is passed over.
Enter(d, depth, frames, w) ==
    IF depth >= MaxDepth \/ w.truncated
    THEN [stack |-> frames, walk |-> [w EXCEPT !.truncated = @ \/ depth >= MaxDepth]]
    ELSE [stack |-> IF d \in closed \/ ~PathStands(d, frames) THEN frames
                    ELSE <<[dir |-> d, rest |-> Children(d), depth |-> depth]>> \o frames,
          walk |-> w]

\* walk.run(path, 0) opens the volume.
WalkBegins ==
    /\ at = "listed"
    /\ LET e == Enter(vol, 0, <<>>, walk) IN stack' = e.stack /\ walk' = e.walk
    /\ at' = "walking"
    /\ UNCHANGED <<tree, writes, scans, todo, vol, entries, touched, boxed, report,
                   containers, left>>

\* One turn of the loop over a directory's entries: the entry cap ends this
\* directory, an entry gone meanwhile is skipped, a directory is entered, and
\* anything else is one object.
WalkVisits ==
    /\ at = "walking" /\ stack # <<>> /\ Head(stack).rest # {}
    /\ \E n \in Head(stack).rest :
         LET w == [walk EXCEPT !.visited = @ + 1]
             depth == Head(stack).depth
             frames == [stack EXCEPT ![1].rest = @ \ {n}]
             e == Enter(n, depth + 1, frames, w) IN
         \/ /\ walk.visited >= WalkLimit
            /\ walk' = [walk EXCEPT !.truncated = TRUE] /\ stack' = Tail(stack)
         \/ /\ walk.visited < WalkLimit /\ parent[n] # Head(stack).dir
            /\ walk' = w /\ stack' = frames
         \/ /\ walk.visited < WalkLimit /\ parent[n] = Head(stack).dir /\ n \in Dirs
            /\ walk' = e.walk /\ stack' = e.stack
         \/ /\ walk.visited < WalkLimit /\ parent[n] = Head(stack).dir /\ n \in Files
            /\ walk' = [w EXCEPT !.objects = @ + 1] /\ stack' = frames
    /\ UNCHANGED <<tree, writes, scans, at, todo, vol, entries, touched, boxed, report,
                   containers, left>>

WalkReturns ==
    /\ at = "walking" /\ stack # <<>> /\ Head(stack).rest = {}
    /\ stack' = Tail(stack)
    /\ UNCHANGED <<tree, writes, scans, at, todo, vol, entries, walk, touched, boxed,
                   report, containers, left>>

\* The walk is over: its count stands only if the volume was readable and the
\* walk complete.
NativeReport ==
    /\ at = "walking" /\ stack = <<>>
    /\ LET counted == vol \notin closed /\ ~walk.truncated
           r == Report(vol, entries, IF counted THEN walk.objects ELSE Uncounted, FALSE)
       IN report' = WithReport(report, vol, r)
    /\ at' = "native" /\ Forgets
    /\ UNCHANGED <<tree, writes, scans, todo, boxed, containers, left>>

(****************************************************************************)
(* Reading in a container: probe_volumes, run_probe_container, the script   *)
(* and parse_probe_output.                                                  *)
(****************************************************************************)

\* The next chunk's container is created, or the daemon refuses: the chunk's
\* probe has failed and the scan stops probing.
Creates ==
    /\ at = "batches" /\ todo # {}
    /\ \E B \in SUBSET todo :
         /\ Cardinality(B) = Min({Batch, Cardinality(todo)})
         /\ todo' = todo \ B
         /\ raw' = NoReport
         /\ \/ /\ at' = "created" /\ batch' = B /\ containers' = containers \cup {B}
            \/ /\ at' = "over" /\ UNCHANGED <<batch, containers>>
    /\ UNCHANGED <<tree, writes, scans, reading, find, report, left>>

\* A start whose failure is propagated at once, past the removal.
LeakyStarts ==
    /\ at = "created"
    /\ at' \in {"script", "over"}
    /\ UNCHANGED <<tree, writes, scans, todo, reading, boxed, report, containers, left>>

\* The container is started, or cannot be (an image without a shell, say).
Starts ==
    /\ at = "created"
    /\ at' \in {"script", "failing"}
    /\ UNCHANGED <<tree, writes, scans, todo, reading, boxed, report, containers, left>>

\* The script reaches the next volume.
ScriptEnters(v) ==
    /\ at = "script" /\ v \in batch
    /\ at' = "lists" /\ vol' = v /\ batch' = batch \ {v}
    /\ touched' = {}
    /\ UNCHANGED <<tree, writes, scans, todo, entries, stack, walk, find, raw, report, containers,
                   left>>

\* `ls -A | head -256`.
ScriptLists ==
    /\ at = "lists"
    /\ entries' \in Listings(vol)
    /\ at' = "counts"
    /\ UNCHANGED <<tree, writes, scans, todo, vol, stack, walk, touched, boxed, report,
                   containers, left>>

\* `find ! -type d | wc -l`, or no line at all without a find.
ScriptCounts ==
    /\ at = "counts"
    /\ LET objects == IF find THEN Cardinality(Files \cap Reachable(vol)) ELSE Uncounted
       IN raw' = WithReport(raw, vol, Report(vol, entries, objects, FALSE))
    /\ at' = "script" /\ Forgets
    /\ UNCHANGED <<tree, writes, scans, todo, batch, find, report, containers, left>>

\* The container has exited and its output is complete.
StreamEnds ==
    /\ at = "script" /\ batch = {}
    /\ at' = "removing"
    /\ UNCHANGED <<tree, writes, scans, todo, reading, boxed, report, containers, left>>

\* The stream ends early, on an error, a killed container or the cap: what
\* arrived is parsed as if it were all, part of a listing included.
StreamCut ==
    /\ at \in {"script", "lists", "counts"}
    /\ at' = "removing" /\ batch' = {} /\ Forgets
    /\ \/ /\ at = "script" /\ UNCHANGED raw
       \/ /\ at = "lists"
          /\ \E E \in UNION {SUBSET L : L \in Listings(vol)} :
               raw' = WithReport(raw, vol, Report(vol, E, Uncounted, TRUE))
       \/ /\ at = "counts"
          /\ raw' = WithReport(raw, vol, Report(vol, entries, Uncounted, FALSE))
    /\ UNCHANGED <<tree, writes, scans, todo, find, report, containers, left>>

\* The forced removal, whose failure is ignored; then the result is taken or,
\* when the start had failed, the scan stops probing.
Removes ==
    /\ at \in {"removing", "failing"}
    /\ \E B \in containers \ left :
         \/ containers' = containers \ {B} /\ UNCHANGED left
         \/ left' = left \cup {B} /\ UNCHANGED containers
    /\ \/ /\ at = "removing" /\ at' = "batches"
          /\ report' = [v \in DOMAIN report \cup DOMAIN raw |->
                           IF v \in DOMAIN raw THEN raw[v] ELSE report[v]]
       \/ /\ at = "failing" /\ at' = "over" /\ UNCHANGED report
    /\ raw' = NoReport
    /\ UNCHANGED <<tree, writes, scans, todo, reading, batch, find>>

\* The process is killed; a container it made stays.
Killed ==
    /\ at # "over"
    /\ at' = "over" /\ report' = NoReport /\ raw' = NoReport
    /\ todo' = {} /\ batch' = {} /\ Forgets
    /\ left' = containers
    /\ UNCHANGED <<tree, writes, scans, find, containers>>

(****************************************************************************)
(* The other program: a node is made, moved, or deleted with what it holds. *)
(****************************************************************************)

Writes(n) ==
    /\ at \notin {"over", "native", "batches"} /\ writes < MaxWrites
    /\ writes' = writes + 1
    /\ \E p \in (Volumes \cup Dirs \cup {Nowhere}) \ ({n, parent[n]} \cup Under(n)) :
         parent' = [m \in Nodes |-> IF m = n THEN p
                                    ELSE IF p = Nowhere /\ m \in Under(n) THEN Nowhere
                                    ELSE parent[m]]
    /\ touched' = touched \cup {n}
    /\ UNCHANGED <<name, closed, scans, at, todo, vol, entries, stack, walk,
                   boxed, report, containers, left>>

Next ==
    \/ BeginsScan \/ CancelsScan \/ EndsScan
    \/ (\E v \in Volumes : Lists(v))
    \/ WalkBegins \/ WalkVisits \/ WalkReturns \/ NativeReport
    \/ Creates \/ Starts
    \/ (\E v \in Volumes : ScriptEnters(v))
    \/ ScriptLists \/ ScriptCounts \/ StreamEnds \/ StreamCut \/ Removes \/ Killed
    \/ (\E n \in Nodes : Writes(n))

Spec == Init /\ [][Next]_vars

(****************************************************************************)
(* Properties.                                                              *)
(****************************************************************************)

\* The two classes that license a removal are earned (is_reconstructible;
\* probe_shallow: "This is sound for the only two classes that unlock
\* deletion").  Whatever the caps, the image, the cut streams and the writes
\* under way, a volume reported empty has no file that lay still in it while it
\* was read, unless a directory of it refused to be read; and one reported a
\* cache has, among the entries that lay still, only that cache, unless the
\* stream was cut within its listing or the listing reached its limit before
\* the last of them.
ReconstructibleIsTrue ==
    \A v \in DOMAIN report :
        LET r == report[v] IN
        /\ r.class = "Empty" => r.stood \subseteq r.hidden
        /\ r.class = "Derivative" /\ ~r.cut /\ ~r.capped =>
             \A n \in r.top : name[n] = "cache" /\ r.top = {n}

\* Without the second exception: a volume reported a cache has nothing else at
\* its top ("A derivative marker only counts when it dominates"; entries:
\* "capped for display").  The capped listing is what is classified, so a cache
\* and noise enough to fill it hide what lies beyond.
CacheIsAlone ==
    \A v \in DOMAIN report :
        LET r == report[v] IN
        r.class = "Derivative" /\ ~r.cut =>
            \A n \in r.top : name[n] = "cache" /\ r.top = {n}

\* Without the exception: a volume reported empty holds no file that lay still
\* in it (classify: "Directories, walked to the bottom, and not one file under
\* any of them.  Nothing to lose").  A subdirectory that does not open is passed
\* over by the walk, and by the script's find, as if it were empty.
EmptyIsEmpty ==
    \A v \in DOMAIN report : report[v].class = "Empty" => report[v].stood = {}

\* Once the probing is over, however it ended, no container of it is left that
\* a kill or the daemon's refusal to remove it does not explain; and the next
\* batch begins with none (probe_volumes: "From here on the container must be
\* removed whatever happens").
ProbeLeavesNothing ==
    at \in {"over", "native", "listed", "walking", "batches"} => containers = left
=============================================================================
