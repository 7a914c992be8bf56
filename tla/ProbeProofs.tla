---------------------------- MODULE ProbeProofs ----------------------------
(***************************************************************************)
(* What the probe promises, for any tree, caps, batches and number of      *)
(* scans.  It leaves no container of its own: there is at most one to see  *)
(* to at a time, and every way out of it but a kill leads through the      *)
(* removal.  And a class that licenses a removal is earned: what lay still *)
(* under the volume has been met by the walk or hides from it.             *)
(***************************************************************************)
EXTENDS Probe, FiniteSetTheorems, TLAPS

\* Where a container may be waiting for its removal.
Inside == {"created", "script", "lists", "counts", "removing", "failing"}

Inv ==
    /\ left \subseteq containers
    /\ \A B, C \in containers \ left : B = C
    /\ at \notin Inside => containers = left

LEMMA InvInit == Init => Inv
  BY DEF Init, Inv

LEMMA InvStep == Inv /\ [Next]_vars => Inv'
  <1> SUFFICES ASSUME Inv, [Next]_vars PROVE Inv'
    OBVIOUS
  <1>1. CASE BeginsScan
    BY <1>1 DEF BeginsScan, Inv, Inside
  <1>2. CASE CancelsScan \/ EndsScan
    BY <1>2 DEF CancelsScan, EndsScan, Inv, Inside
  <1>3. CASE \/ \E v \in Volumes : Lists(v)
             \/ WalkBegins \/ WalkVisits \/ WalkReturns \/ NativeReport
    <2>1. /\ at \in {"native", "listed", "walking"} /\ at' \in {"native", "listed", "walking"}
          /\ UNCHANGED <<containers, left>>
      BY <1>3 DEF Lists, WalkBegins, WalkVisits, WalkReturns, NativeReport
    <2> QED
      BY <2>1 DEF Inv, Inside
  <1>4. CASE Creates
    <2>1. containers = left /\ left' = left
      BY <1>4 DEF Creates, Inv, Inside
    <2>2. \/ \E B : at' = "created" /\ containers' = containers \union {B}
          \/ at' = "over" /\ containers' = containers
      BY <1>4 DEF Creates
    <2> QED
      BY <2>1, <2>2 DEF Inv, Inside
  <1>5. CASE \/ Starts \/ ScriptLists \/ ScriptCounts \/ StreamEnds \/ StreamCut
             \/ \E v \in Volumes : ScriptEnters(v)
    <2>1. at' \in Inside /\ UNCHANGED <<containers, left>>
      BY <1>5 DEF Starts, ScriptLists, ScriptCounts, StreamEnds, StreamCut, ScriptEnters,
                  Inside
    <2> QED
      BY <2>1 DEF Inv
  <1>6. CASE Removes
    <2>1. PICK B \in containers \ left :
            \/ containers' = containers \ {B} /\ UNCHANGED left
            \/ left' = left \union {B} /\ UNCHANGED containers
      BY <1>6 DEF Removes
    <2>2. containers' = left'
      BY <2>1 DEF Inv
    <2> QED
      BY <2>2 DEF Inv
  <1>7. CASE Killed
    BY <1>7 DEF Killed, Inv
  <1>8. CASE (\E n \in Nodes : Writes(n)) \/ UNCHANGED vars
    BY <1>8 DEF Writes, vars, Inv
  <1> QED
    BY <1>1, <1>2, <1>3, <1>4, <1>5, <1>6, <1>7, <1>8 DEF Next

\* Once a probe is over, or at its next batch, every container it made is
\* removed, unless a kill or the daemon's refusal explains one.
THEOREM NoContainerIsLeft == Spec => []ProbeLeavesNothing
  <1>1. Inv => ProbeLeavesNothing
    BY DEF Inv, Inside, ProbeLeavesNothing
  <1> QED
    BY InvInit, InvStep, <1>1, PTL DEF Spec

-----------------------------------------------------------------------------
(* The tree: what lies below x is the least set that has what lies in x    *)
(* and in what it has itself.                                              *)

Open == Volumes \union Dirs

LEMMA ThroughLeast ==
    ASSUME NEW up, NEW x, NEW open, NEW S,
           \A n \in Nodes : up[n] \in open /\ up[n] \in S \union {x} => n \in S
    PROVE  Through(up, x, open) \subseteq S
  <1> DEFINE T == {n \in Nodes : n \in S}
  <1>1. T \in SUBSET Nodes /\ Holds(T, up, x, open)
    BY DEF Holds
  <1> HIDE DEF T
  <1>2. Through(up, x, open) \subseteq T
    BY <1>1 DEF Through
  <1> QED
    BY <1>2 DEF T

LEMMA ThroughHolds ==
    ASSUME NEW up, NEW x, NEW open
    PROVE  /\ Through(up, x, open) \subseteq Nodes
           /\ \A n \in Nodes :
                  up[n] \in open /\ up[n] \in Through(up, x, open) \union {x} =>
                      n \in Through(up, x, open)
  BY DEF Through, Holds

\* What is below x lies in it, or in something below it.
LEMMA ThroughParent ==
    ASSUME NEW up, NEW x, NEW open, NEW n \in Through(up, x, open)
    PROVE  up[n] \in open /\ up[n] \in Through(up, x, open) \union {x}
  <1> DEFINE S == {m \in Through(up, x, open) :
                      up[m] \in open /\ up[m] \in Through(up, x, open) \union {x}}
  <1>1. \A m \in Nodes : up[m] \in open /\ up[m] \in S \union {x} => m \in S
    BY ThroughHolds
  <1>2. Through(up, x, open) \subseteq S
    <2> HIDE DEF S
    <2> QED
      BY <1>1, ThroughLeast
  <1> QED
    BY <1>2

LEMMA ThroughOpener ==
    ASSUME NEW up, NEW x, NEW open, NEW wide, open \subseteq wide
    PROVE  Through(up, x, open) \subseteq Through(up, x, wide)
  BY ThroughLeast, ThroughHolds

\* What is below x is in x or below something that is.
LEMMA ThroughChild ==
    ASSUME NEW up, NEW x, NEW open, NEW f \in Through(up, x, open)
    PROVE  \E n \in Nodes : up[n] = x /\ (f = n \/ f \in Through(up, n, open))
  <1> DEFINE S == {m \in Nodes :
                      \E n \in Nodes : up[n] = x /\ (m = n \/ m \in Through(up, n, open))}
  <1>1. ASSUME NEW m \in Nodes, up[m] \in open, up[m] \in S \union {x}
        PROVE  m \in S
    <2>1. CASE up[m] = x
      BY <2>1
    <2>2. CASE up[m] \in S
      <3>1. PICK n \in Nodes : up[n] = x /\ (up[m] = n \/ up[m] \in Through(up, n, open))
        BY <2>2
      <3>2. m \in Through(up, n, open)
        BY <1>1, <3>1, ThroughHolds
      <3> QED
        BY <3>1, <3>2
    <2> QED
      BY <1>1, <2>1, <2>2
  <1>2. Through(up, x, open) \subseteq S
    <2> HIDE DEF S
    <2> QED
      BY <1>1, ThroughLeast
  <1> QED
    BY <1>2

\* Nothing lies in what is no directory, or in one that does not open.
LEMMA ThroughClosed ==
    ASSUME NEW up, NEW x, NEW open, x \notin open
    PROVE  Through(up, x, open) = {}
  <1>1. \A n \in Nodes : up[n] \in open /\ up[n] \in {} \union {x} => n \in {}
    OBVIOUS
  <1>2. Through(up, x, open) \subseteq {}
    BY <1>1, ThroughLeast
  <1> QED
    BY <1>2

\* f and the directories it lies in.
Path(up, f) == {f} \union {d \in Dirs : f \in Through(up, d, Open)}

LEMMA PathGrows ==
    ASSUME NEW up, NEW g \in Nodes, up[g] \in Dirs
    PROVE  Path(up, up[g]) \subseteq Path(up, g)
  <1>1. up[g] \in Open
    BY DEF Open
  <1>2. g \in Through(up, up[g], Open)
    BY <1>1, ThroughHolds
  <1>3. ASSUME NEW d \in Dirs, up[g] \in Through(up, d, Open)
        PROVE  g \in Through(up, d, Open)
    BY <1>1, <1>3, ThroughHolds
  <1> QED
    BY <1>2, <1>3 DEF Path

\* Of two things above f, the volume is above the other.
LEMMA VolumeAbove ==
    ASSUME NEW up, NEW v \in Volumes, NEW m \in Nodes, NEW f,
           f \in Through(up, v, Open), f = m \/ f \in Through(up, m, Open)
    PROVE  m \in Through(up, v, Open)
  <1> DEFINE below == Through(up, v, Open)
             S == {g \in below : g \in Through(up, m, Open) => m \in below}
  <1>1. ASSUME NEW g \in Nodes, up[g] \in Open, up[g] \in S \union {v}
        PROVE  g \in S
    <2>1. g \in below
      BY <1>1, ThroughHolds
    <2>2. ASSUME g \in Through(up, m, Open) PROVE m \in below
      <3>1. up[g] = m \/ up[g] \in Through(up, m, Open)
        BY <2>2, ThroughParent
      <3>2. CASE up[g] = v
        <4>1. v \notin Nodes
          BY ProbeAssumption
        <4> QED
          BY <3>1, <3>2, <4>1, ThroughHolds
      <3>3. CASE up[g] \in S
        BY <3>1, <3>3
      <3> QED
        BY <1>1, <3>2, <3>3
    <2> QED
      BY <2>1, <2>2
  <1>2. below \subseteq S
    <2> HIDE DEF S
    <2> QED
      BY <1>1, ThroughLeast
  <1> QED
    BY <1>2

\* Where no node on the path from f up to its volume is moved, the path was
\* the same before.
LEMMA SamePath ==
    ASSUME NEW up, NEW now, NEW T, \A n \in Nodes : n \notin T => now[n] = up[n],
           NEW v \in Volumes, NEW wide, wide \subseteq Open,
           NEW f, f \in Through(now, v, wide), Path(now, f) \intersect T = {}
    PROVE  /\ f \in Through(up, v, wide)
           /\ \A x, open : f \in Through(up, x, open) => f \in Through(now, x, open)
  <1> DEFINE Still(g) == Path(now, g) \intersect T = {}
             Same(g) == /\ g \in Through(up, v, wide)
                        /\ \A x, open : g \in Through(up, x, open)
                                            => g \in Through(now, x, open)
             S == {g \in Nodes : Still(g) => Same(g)}
  <1>1. ASSUME NEW g \in Nodes, now[g] \in wide, now[g] \in S \union {v}
        PROVE  g \in S
    <2> SUFFICES ASSUME Still(g) PROVE Same(g)
      OBVIOUS
    <2>1. up[g] = now[g]
      BY DEF Path
    <2>2. v \notin Nodes
      BY ProbeAssumption
    <2>3. CASE now[g] = v
      <3>1. g \in Through(up, v, wide)
        BY <1>1, <2>1, <2>3, ThroughHolds
      <3>2. ASSUME NEW x, NEW open, g \in Through(up, x, open) PROVE g \in Through(now, x, open)
        <4>1. v \in open /\ v = x
          BY <2>1, <2>2, <2>3, <3>2, ThroughParent, ThroughHolds
        <4> QED
          BY <1>1, <2>3, <4>1, ThroughHolds
      <3> QED
        BY <3>1, <3>2
    <2>4. CASE now[g] \in S
      <3>1. now[g] \in Nodes /\ now[g] \in Dirs
        BY <1>1, <2>4, ProbeAssumption DEF Open, Nodes
      <3>2. Same(now[g])
        BY <2>4, <3>1, PathGrows
      <3>3. g \in Through(up, v, wide)
        BY <1>1, <2>1, <3>2, ThroughHolds
      <3>4. ASSUME NEW x, NEW open, g \in Through(up, x, open) PROVE g \in Through(now, x, open)
        <4>1. now[g] \in open /\ (now[g] = x \/ now[g] \in Through(up, x, open))
          BY <2>1, <3>4, ThroughParent
        <4>2. now[g] = x \/ now[g] \in Through(now, x, open)
          BY <3>2, <4>1
        <4> QED
          BY <1>1, <4>1, <4>2, ThroughHolds
      <3> QED
        BY <3>3, <3>4
    <2> QED
      BY <1>1, <2>3, <2>4
  <1>2. Through(now, v, wide) \subseteq S
    <2> HIDE DEF S
    <2> QED
      BY <1>1, ThroughLeast
  <1> QED
    BY <1>2

-----------------------------------------------------------------------------
(* That a class which licenses a removal is earned.  A walk that still      *)
(* counts nothing has every file that lay still before it: pending in a     *)
(* frame of its stack, by a path that no step of the walk or write breaks.  *)

Unmoved(f) == touched \intersect Path(parent, f) = {}

\* The frames of s from i out lead from the volume down to where f still lies.
Leads(s, i, f) ==
    \A j \in i .. Len(s) :
        /\ f \in Under(s[j].dir)
        /\ j < Len(s) => s[j].dir \in Dirs /\ parent[s[j].dir] = s[j + 1].dir

\* Entry k of frame i of s, still to be visited, is f or leads to it.
PendingAt(s, i, k, f) ==
    /\ i \in 1 .. Len(s) /\ k \in s[i].rest
    /\ parent[k] = s[i].dir
    /\ f = k \/ f \in Through(parent, k, Open \ closed)
    /\ Leads(s, i, f)

Pending(s, f) == \E i, k : PendingAt(s, i, k, f)

WalkInv ==
    at = "walking" /\ ~walk.truncated /\ walk.objects = 0 /\ vol \notin closed =>
        \A f \in Files : f \in Reachable(vol) /\ Unmoved(f) => Pending(stack, f)

EntriesInv ==
    at \in {"listed", "walking", "counts"} =>
        /\ entries \subseteq Nodes
        /\ \/ entries = {}
           \/ Cardinality(entries) = ListLimit
           \/ Children(vol) \ touched \subseteq entries

Earned(r) ==
    /\ r.class = "Empty" => r.stood \subseteq r.hidden
    /\ r.class = "Derivative" /\ ~r.cut /\ ~r.capped =>
         \A n \in r.top : name[n] = "cache" /\ r.top = {n}

ReportInv ==
    /\ \A v \in DOMAIN report : Earned(report[v])
    /\ \A v \in DOMAIN raw : Earned(raw[v])

Frames == [dir : Volumes \union Dirs, rest : SUBSET Nodes, depth : Nat]

TypeInv ==
    /\ parent \in [Nodes -> Volumes \union Dirs \union {Nowhere}]
    /\ closed \subseteq Open
    /\ stack \in Seq(Frames)
    /\ walk \in [objects : Nat, visited : Nat, truncated : BOOLEAN]
    /\ at \in {"listed", "walking", "lists", "counts"} => vol \in Volumes

\* What a listing and a count license.
LEMMA ReportEarned ==
    ASSUME NEW v, NEW E, NEW objects, NEW cutoff \in BOOLEAN,
           E \subseteq Nodes,
           ~cutoff => \/ E = {}
                      \/ Cardinality(E) = ListLimit
                      \/ Children(v) \ touched \subseteq E,
           objects = 0 =>
               \A f \in Files : f \in Reachable(v) /\ f \in Under(v) => ~Unmoved(f)
    PROVE  Earned(Report(v, E, objects, cutoff))
  <1> DEFINE r == Report(v, E, objects, cutoff)
             meaningful == {n \in E : name[n] # "noise"}
  <1>1. /\ r.class = Classify(E, objects)
        /\ r.cut = cutoff
        /\ r.capped <=> Cardinality(E) = ListLimit /\ ~(Children(v) \ touched \subseteq E)
        /\ r.class = "Empty" =>
             /\ r.stood = {f \in Files \intersect Under(v) :
                             touched \intersect ({f} \union {d \in Dirs : f \in Under(d)}) = {}}
             /\ r.hidden = Files \intersect (Under(v) \ Reachable(v))
        /\ r.class = "Derivative" =>
             r.top = {n \in Children(v) \ touched : name[n] # "noise"}
    BY DEF Report
  <1>2. r.class = "Empty" => objects = 0
    BY <1>1 DEF Classify
  <1>3. ASSUME r.class = "Empty" PROVE r.stood \subseteq r.hidden
    <2>1. \A f : Unmoved(f) <=>
             touched \intersect ({f} \union {d \in Dirs : f \in Under(d)}) = {}
      BY DEF Unmoved, Path, Under, Open
    <2> QED
      BY <1>1, <1>2, <1>3, <2>1
  <1>4. ASSUME r.class = "Derivative", ~r.cut, ~r.capped, NEW n \in r.top
        PROVE  name[n] = "cache" /\ r.top = {n}
    <2>1. /\ E # {} /\ \E m \in E : name[m] = "cache"
          /\ Cardinality(meaningful) = 1
      BY <1>1, <1>4 DEF Classify
    <2>2. IsFiniteSet(meaningful)
      BY ProbeAssumption, FS_Subset
    <2>3. PICK c : meaningful = {c}
      BY <2>1, <2>2, FS_Singleton
    <2>4. name[c] = "cache" /\ r.top \subseteq {c}
      BY <1>1, <1>4, <2>1, <2>3
    <2> QED
      BY <1>4, <2>4
  <1> HIDE DEF r
  <1>5. Earned(r)
    BY <1>3, <1>4 DEF Earned
  <1> QED
    BY <1>5 DEF r

Quiet == {"over", "native", "batches", "created", "failing", "script", "removing"}

\* Where nothing is read, only what is reported matters.
LEMMA QuietStep ==
    ASSUME TypeInv, at' \in Quiet, UNCHANGED tree,
           stack' = stack \/ stack' = <<>>, walk' = walk \/ walk' = FreshWalk
    PROVE  TypeInv' /\ WalkInv' /\ EntriesInv'
  <1>1. <<>> \in Seq(Frames) /\ FreshWalk \in [objects : Nat, visited : Nat, truncated : BOOLEAN]
    BY DEF FreshWalk
  <1> QED
    BY <1>1 DEF TypeInv, WalkInv, EntriesInv, Quiet, tree

LEMMA NoReportEarned == \A v \in DOMAIN NoReport : Earned(NoReport[v])
  BY DEF NoReport

LEMMA WithReportEarned ==
    ASSUME NEW R, \A u \in DOMAIN R : Earned(R[u]), NEW v, NEW r, Earned(r)
    PROVE  \A u \in DOMAIN WithReport(R, v, r) : Earned(WithReport(R, v, r)[u])
  BY DEF WithReport

\* Names do not change, and with them what a report has earned.
LEMMA ReportStep ==
    ASSUME UNCHANGED name,
           \A v \in DOMAIN report' : Earned(report'[v]),
           \A v \in DOMAIN raw' : Earned(raw'[v])
    PROVE  ReportInv'
  BY DEF ReportInv, Earned

\* The scan's own steps, the container's, and what ends the reading of a volume
\* without a report.
LEMMA BetweenReadings ==
    ASSUME TypeInv, ReportInv,
           \/ BeginsScan \/ CancelsScan \/ EndsScan
           \/ Creates \/ Starts \/ StreamEnds \/ Removes \/ Killed
    PROVE  TypeInv' /\ WalkInv' /\ EntriesInv' /\ ReportInv'
  <1>1. /\ at' \in Quiet /\ UNCHANGED tree
        /\ stack' = stack \/ stack' = <<>>
        /\ walk' = walk \/ walk' = FreshWalk
    <2>1. CASE BeginsScan
      BY <2>1 DEF BeginsScan, Quiet, reading
    <2>2. CASE CancelsScan \/ EndsScan
      BY <2>2 DEF CancelsScan, EndsScan, Quiet, reading
    <2>3. CASE Creates \/ Starts \/ StreamEnds
      BY <2>3 DEF Creates, Starts, StreamEnds, Quiet, reading
    <2>4. CASE Removes \/ Killed
      BY <2>4 DEF Removes, Killed, Forgets, Quiet, reading
    <2> QED
      BY <2>1, <2>2, <2>3, <2>4
  <1>2. /\ \A v \in DOMAIN report' : Earned(report'[v])
        /\ \A v \in DOMAIN raw' : Earned(raw'[v])
    <2>1. CASE BeginsScan \/ Killed
      BY <2>1, NoReportEarned DEF BeginsScan, Killed
    <2>2. CASE CancelsScan \/ Creates
      BY <2>2, NoReportEarned DEF CancelsScan, Creates, ReportInv, boxed
    <2>3. CASE EndsScan \/ Starts \/ StreamEnds
      BY <2>3 DEF EndsScan, Starts, StreamEnds, ReportInv, boxed
    <2>4. CASE Removes
      BY <2>4, NoReportEarned DEF Removes, ReportInv
    <2> QED
      BY <2>1, <2>2, <2>3, <2>4
  <1> QED
    BY <1>1, <1>2, QuietStep, ReportStep DEF tree

\* A listing is empty, at its limit, or whole.
LEMMA ListingsHold ==
    ASSUME NEW x, NEW E \in Listings(x)
    PROVE  E \subseteq Nodes /\ (E = {} \/ Cardinality(E) = ListLimit \/ E = Children(x))
  BY DEF Listings, Children

\* A listing has what lay still from then on, unless it stopped at its limit.
LEMMA ReadingsBegin ==
    ASSUME TypeInv, EntriesInv, ReportInv,
           \/ \E v \in Volumes : Lists(v) \/ ScriptEnters(v)
           \/ ScriptLists
    PROVE  TypeInv' /\ WalkInv' /\ EntriesInv' /\ ReportInv'
  <1>1. CASE \E v \in Volumes : Lists(v)
    BY <1>1, ListingsHold
       DEF Lists, TypeInv, WalkInv, EntriesInv, ReportInv, Earned, Children, tree, boxed
  <1>2. CASE \E v \in Volumes : ScriptEnters(v)
    BY <1>2 DEF ScriptEnters, TypeInv, WalkInv, EntriesInv, ReportInv, Earned, Children, tree
  <1>3. CASE ScriptLists
    BY <1>3, ListingsHold
       DEF ScriptLists, TypeInv, WalkInv, EntriesInv, ReportInv, Earned, Children, tree, boxed
  <1> QED
    BY <1>1, <1>2, <1>3

\* A reading that ends with a report.
LEMMA Reports ==
    ASSUME TypeInv, WalkInv, EntriesInv, ReportInv, NativeReport \/ ScriptCounts \/ StreamCut
    PROVE  TypeInv' /\ WalkInv' /\ EntriesInv' /\ ReportInv'
  <1>1. /\ at' \in Quiet /\ UNCHANGED tree
        /\ stack' = <<>> /\ walk' = FreshWalk
    BY DEF NativeReport, ScriptCounts, StreamCut, Forgets, Quiet
  <1>2. 0 # Uncounted
    BY ProbeAssumption
  <1>3. CASE NativeReport
    <2> DEFINE objects == IF vol \notin closed /\ ~walk.truncated THEN walk.objects ELSE Uncounted
               r == Report(vol, entries, objects, FALSE)
    <2>1. report' = WithReport(report, vol, r) /\ raw' = raw
      BY <1>3 DEF NativeReport, boxed
    <2>2. ASSUME objects = 0, NEW f \in Files, f \in Reachable(vol)
          PROVE  ~Unmoved(f)
      <3>1. ~Pending(stack, f)
        BY <1>3 DEF NativeReport, Pending, PendingAt
      <3> QED
        BY <1>2, <1>3, <2>2, <3>1 DEF NativeReport, WalkInv
    <2>3. FALSE \in BOOLEAN /\ at = "walking"
      BY <1>3 DEF NativeReport
    <2> HIDE DEF objects
    <2>4. Earned(r)
      BY <2>2, <2>3, ReportEarned DEF EntriesInv
    <2> HIDE DEF r
    <2> QED
      BY <1>1, <2>1, <2>4, WithReportEarned, QuietStep, ReportStep DEF ReportInv, tree
  <1>4. CASE ScriptCounts
    <2> DEFINE objects == IF find THEN Cardinality(Files \intersect Reachable(vol))
                          ELSE Uncounted
               r == Report(vol, entries, objects, FALSE)
    <2>1. raw' = WithReport(raw, vol, r) /\ report' = report
      BY <1>4 DEF ScriptCounts
    <2>2. ASSUME objects = 0 PROVE Files \intersect Reachable(vol) = {}
      <3>1. IsFiniteSet(Files \intersect Reachable(vol))
        BY ProbeAssumption, FS_Subset DEF Nodes
      <3> QED
        BY <1>2, <2>2, <3>1, FS_EmptySet
    <2>3. FALSE \in BOOLEAN /\ at = "counts"
      BY <1>4 DEF ScriptCounts
    <2> HIDE DEF objects
    <2>4. Earned(r)
      BY <2>2, <2>3, ReportEarned DEF EntriesInv
    <2> HIDE DEF r
    <2> QED
      BY <1>1, <2>1, <2>4, WithReportEarned, QuietStep, ReportStep DEF ReportInv, tree
  <1>5. CASE StreamCut
    <2>1. report' = report /\ (raw' = raw \/ \E r : Earned(r) /\ raw' = WithReport(raw, vol, r))
      <3>1. CASE raw' = raw
        BY <1>5, <3>1 DEF StreamCut
      <3>2. CASE at = "lists"
        <4>1. PICK L \in Listings(vol) : \E E \in SUBSET L :
                raw' = WithReport(raw, vol, Report(vol, E, Uncounted, TRUE))
          BY <1>5, <3>2 DEF StreamCut
        <4>2. PICK E \in SUBSET L :
                raw' = WithReport(raw, vol, Report(vol, E, Uncounted, TRUE))
          BY <4>1
        <4>3. E \subseteq Nodes /\ TRUE \in BOOLEAN
          BY ListingsHold
        <4>4. Earned(Report(vol, E, Uncounted, TRUE))
          BY <1>2, <4>3, ReportEarned
        <4> QED
          BY <1>5, <4>2, <4>4 DEF StreamCut
      <3>3. CASE at = "counts"
        <4>1. raw' = WithReport(raw, vol, Report(vol, entries, Uncounted, FALSE))
          BY <1>5, <3>3 DEF StreamCut
        <4>2. FALSE \in BOOLEAN
          OBVIOUS
        <4>3. Earned(Report(vol, entries, Uncounted, FALSE))
          BY <1>2, <3>3, <4>2, ReportEarned DEF EntriesInv
        <4> QED
          BY <1>5, <4>1, <4>3 DEF StreamCut
      <3> QED
        BY <1>5, <3>1, <3>2, <3>3 DEF StreamCut
    <2> QED
      BY <1>1, <2>1, WithReportEarned, QuietStep, ReportStep DEF ReportInv, tree
  <1> QED
    BY <1>3, <1>4, <1>5

\* What a reader reaches in x is under x.
LEMMA ReachedIsUnder ==
    ASSUME NEW x, NEW f \in Through(parent, x, Open \ closed)
    PROVE  f \in Under(x)
  BY ThroughOpener DEF Under, Open

LEMMA ReachableIsThrough == \A x : Reachable(x) = Through(parent, x, Open \ closed)
  BY DEF Reachable, Open

LEMMA WalkBeginsStep ==
    ASSUME TypeInv, EntriesInv, ReportInv, WalkBegins
    PROVE  TypeInv' /\ WalkInv' /\ EntriesInv' /\ ReportInv'
  <1> DEFINE top == [dir |-> vol, rest |-> Children(vol), depth |-> 0]
  <1>1. /\ at = "listed" /\ at' = "walking" /\ vol \in Volumes
        /\ UNCHANGED <<tree, vol, entries, touched, report, raw>>
    BY DEF WalkBegins, TypeInv, boxed
  <1>2. top \in Frames
    BY <1>1 DEF Frames, Children
  <1>3. /\ stack' = <<>> \/ stack' = <<top>>
        /\ walk' = walk \/ walk' = [walk EXCEPT !.truncated = @ \/ 0 >= MaxDepth]
    <2>1. <<top>> \o <<>> = <<top>>
      OBVIOUS
    <2> HIDE DEF top
    <2>2. Enter(vol, 0, <<>>, walk) \in
             {[stack |-> <<>>, walk |-> [walk EXCEPT !.truncated = @ \/ 0 >= MaxDepth]],
              [stack |-> <<>>, walk |-> walk], [stack |-> <<top>>, walk |-> walk]}
      BY <2>1 DEF Enter, top
    <2> QED
      BY <2>2 DEF WalkBegins
  <1>4. TypeInv'
    <2>1. stack' \in Seq(Frames)
      <3>1. CASE stack' = <<>>
        BY <3>1
      <3>2. CASE stack' = <<top>>
        <4> HIDE DEF top
        <4> QED
          BY <1>2, <3>2
      <3> QED
        BY <1>3, <3>1, <3>2
    <2> QED
      BY <1>1, <1>3, <2>1 DEF TypeInv, tree
  <1>5. WalkInv'
    <2> SUFFICES ASSUME ~walk'.truncated, vol \notin closed, NEW f \in Files, f \in Reachable(vol)
                 PROVE  Pending(stack, f)'
      BY <1>1 DEF WalkInv, Reachable, tree
    <2>1. stack' = <<top>>
      <3>1. ~(0 >= MaxDepth \/ walk.truncated)
        BY DEF WalkBegins, Enter, TypeInv
      <3>2. PathStands(vol, <<>>)
        BY DEF PathStands
      <3> QED
        BY <3>1, <3>2 DEF WalkBegins, Enter
    <2>2. f \in Through(parent, vol, Open \ closed)
      BY ReachableIsThrough
    <2>3. PICK k \in Nodes :
            parent[k] = vol /\ (f = k \/ f \in Through(parent, k, Open \ closed))
      BY <2>2, ThroughChild
    <2>4. f \in Under(vol)
      BY <2>2, ReachedIsUnder
    <2>5. stack'[1].dir = vol /\ k \in stack'[1].rest /\ Len(stack') = 1
      BY <2>1, <2>3 DEF Children
    <2>6. Leads(stack, 1, f)'
      BY <1>1, <2>4, <2>5 DEF Leads, Under, tree
    <2>7. PendingAt(stack, 1, k, f)'
      BY <1>1, <2>3, <2>5, <2>6 DEF PendingAt, tree
    <2> QED
      BY <2>7 DEF Pending
  <1> QED
    BY <1>1, <1>4, <1>5 DEF EntriesInv, ReportInv, Earned, Children, tree

LEMMA FrameType ==
    ASSUME NEW s \in Seq(Frames), NEW i \in 1 .. Len(s)
    PROVE  s[i].dir \in Volumes \union Dirs /\ s[i].rest \subseteq Nodes /\ s[i].depth \in Nat
  <1>1. s[i] \in Frames
    OBVIOUS
  <1> QED
    BY <1>1 DEF Frames

LEMMA VisitType ==
    ASSUME NEW s \in Seq(Frames), s # <<>>, NEW n
    PROVE  [s EXCEPT ![1].rest = @ \ {n}] \in Seq(Frames)
  <1> DEFINE g == [s[1] EXCEPT !.rest = @ \ {n}]
  <1>1. 1 \in 1 .. Len(s) /\ s[1] \in Frames
    OBVIOUS
  <1>2. g \in Frames
    BY <1>1 DEF Frames
  <1>3. [s EXCEPT ![1].rest = @ \ {n}] = [s EXCEPT ![1] = g]
    OBVIOUS
  <1>4. \A h \in Frames : [s EXCEPT ![1] = h] \in Seq(Frames)
    BY <1>1
  <1> QED
    BY <1>2, <1>3, <1>4

\* A frame with nothing left to visit is not where a file is pending.
LEMMA PendingReturns ==
    ASSUME NEW s \in Seq(Frames), s # <<>>, s[1].rest = {}, NEW f, Pending(s, f)
    PROVE  Pending(Tail(s), f)
  <1> DEFINE t == Tail(s)
  <1>1. /\ t \in Seq(Frames) /\ Len(t) = Len(s) - 1 /\ Len(s) \in Nat
        /\ \A i \in 1 .. Len(t) : t[i] = s[i + 1]
    OBVIOUS
  <1>2. PICK i, k : PendingAt(s, i, k, f)
    BY DEF Pending
  <1> HIDE DEF t
  <1>3. i - 1 \in 1 .. Len(t) /\ t[i - 1] = s[i]
    <2>1. i \in 1 .. Len(s) /\ i # 1
      BY <1>2 DEF PendingAt
    <2>2. i - 1 \in 1 .. Len(t) /\ (i - 1) + 1 = i
      BY <1>1, <2>1
    <2> QED
      BY <1>1, <2>2
  <1>4. Leads(t, i - 1, f)
    <2> SUFFICES ASSUME NEW j \in (i - 1) .. Len(t)
                 PROVE  /\ f \in Under(t[j].dir)
                        /\ j < Len(t) => t[j].dir \in Dirs /\ parent[t[j].dir] = t[j + 1].dir
      BY DEF Leads
    <2>1. /\ j \in 1 .. Len(t) /\ j + 1 \in i .. Len(s)
          /\ j < Len(t) => j + 1 < Len(s) /\ j + 1 \in 1 .. Len(t)
      BY <1>1, <1>2, <1>3 DEF PendingAt
    <2>2. t[j] = s[j + 1]
      BY <1>1, <2>1
    <2>3. j < Len(t) => t[j + 1] = s[(j + 1) + 1]
      BY <1>1, <2>1
    <2> QED
      BY <1>2, <2>1, <2>2, <2>3 DEF PendingAt, Leads
  <1>5. PendingAt(t, i - 1, k, f)
    BY <1>2, <1>3, <1>4 DEF PendingAt
  <1> QED
    BY <1>5 DEF Pending, t

\* Nor does what is pending elsewhere mind the visit of n,
LEMMA PendingVisit ==
    ASSUME NEW s \in Seq(Frames), s # <<>>, NEW n, NEW i, NEW k, NEW f,
           PendingAt(s, i, k, f), ~(i = 1 /\ k = n)
    PROVE  PendingAt([s EXCEPT ![1].rest = @ \ {n}], i, k, f)
  <1> DEFINE t == [s EXCEPT ![1].rest = @ \ {n}]
  <1>1. /\ Len(t) = Len(s) /\ Len(s) \in Nat
        /\ \A j \in 1 .. Len(s) : t[j].dir = s[j].dir
        /\ \A j \in 1 .. Len(s) : j # 1 => t[j] = s[j]
        /\ t[1].rest = s[1].rest \ {n}
    BY DEF Frames
  <1> HIDE DEF t
  <1>2. k \in t[i].rest
    BY <1>1 DEF PendingAt
  <1>3. \A j \in i .. Len(s) : j \in 1 .. Len(s) /\ (j < Len(s) => j + 1 \in 1 .. Len(s))
    BY <1>1 DEF PendingAt
  <1>4. Leads(t, i, f)
    BY <1>1, <1>3 DEF PendingAt, Leads
  <1>5. PendingAt(t, i, k, f)
    BY <1>1, <1>2, <1>4 DEF PendingAt
  <1> QED
    BY <1>5 DEF t

\* or a directory entered before it.
LEMMA PendingPush ==
    ASSUME NEW s \in Seq(Frames), NEW top \in Frames, NEW i, NEW k, NEW f,
           PendingAt(s, i, k, f)
    PROVE  PendingAt(<<top>> \o s, i + 1, k, f)
  <1> DEFINE t == <<top>> \o s
  <1>1. /\ Len(t) = Len(s) + 1 /\ Len(s) \in Nat
        /\ \A j \in 1 .. Len(s) : t[j + 1] = s[j]
    OBVIOUS
  <1> HIDE DEF t
  <1>2. Leads(t, i + 1, f)
    <2> SUFFICES ASSUME NEW j \in (i + 1) .. Len(t)
                 PROVE  /\ f \in Under(t[j].dir)
                        /\ j < Len(t) => t[j].dir \in Dirs /\ parent[t[j].dir] = t[j + 1].dir
      BY DEF Leads
    <2>1. /\ j - 1 \in i .. Len(s) /\ j - 1 \in 1 .. Len(s) /\ (j - 1) + 1 = j
          /\ j < Len(t) => j - 1 < Len(s) /\ j \in 1 .. Len(s)
      BY <1>1 DEF PendingAt
    <2>2. t[j] = s[j - 1] /\ (j < Len(t) => t[j + 1] = s[j])
      BY <1>1, <2>1
    <2> QED
      BY <2>1, <2>2 DEF PendingAt, Leads
  <1>3. i + 1 \in 1 .. Len(t) /\ t[i + 1] = s[i]
    BY <1>1 DEF PendingAt
  <1>4. PendingAt(t, i + 1, k, f)
    BY <1>2, <1>3 DEF PendingAt
  <1> QED
    BY <1>4 DEF t

LEMMA WalkReturnsStep ==
    ASSUME TypeInv, WalkInv, EntriesInv, ReportInv, WalkReturns
    PROVE  TypeInv' /\ WalkInv' /\ EntriesInv' /\ ReportInv'
  <1>1. /\ at = "walking" /\ at' = "walking" /\ stack # <<>> /\ Head(stack).rest = {}
        /\ stack' = Tail(stack)
        /\ UNCHANGED <<tree, vol, entries, walk, touched, report, raw>>
    BY DEF WalkReturns, boxed
  <1>2. stack' \in Seq(Frames) /\ stack[1].rest = {}
    BY <1>1 DEF TypeInv
  <1>3. \A f : Pending(stack, f) => Pending(stack', f)
    BY <1>1, <1>2, PendingReturns DEF TypeInv
  <1>4. WalkInv'
    <2>1. \A f : Pending(stack', f) => Pending(stack, f)'
      BY <1>1 DEF Pending, PendingAt, Leads, Under, tree
    <2> QED
      BY <1>1, <1>3, <2>1 DEF WalkInv, Reachable, Unmoved, tree
  <1> QED
    BY <1>1, <1>2, <1>4 DEF TypeInv, EntriesInv, ReportInv, Earned, Children, tree

\* The path by which k was found stands as long as a file is pending in it.
LEMMA PendingStands ==
    ASSUME NEW s \in Seq(Frames), NEW t \in Seq(Frames), Len(t) = Len(s),
           \A j \in 1 .. Len(s) : t[j].dir = s[j].dir,
           NEW k, NEW f, PendingAt(s, 1, k, f)
    PROVE  PathStands(k, t)
  <1> DEFINE dirs == [i \in 1 .. Len(t) |-> t[i].dir]
             path == <<k>> \o dirs
  <1>1. Len(t) \in Nat
    OBVIOUS
  <1>2. dirs \in Seq(Volumes \union Dirs) /\ Len(dirs) = Len(t)
    <2>1. \A i \in 1 .. Len(t) : t[i].dir \in Volumes \union Dirs
      BY FrameType
    <2>2. dirs \in [1 .. Len(t) -> Volumes \union Dirs]
      BY <2>1
    <2> QED
      BY <1>1, <2>2
  <1>3. path[1] = k /\ \A i \in 1 .. Len(t) : path[i + 1] = t[i].dir
    <2>1. \A i \in 1 .. Len(t) : dirs[i] = t[i].dir
      OBVIOUS
    <2> HIDE DEF dirs
    <2>2. path[1] = k /\ \A i \in 1 .. Len(t) : path[i + 1] = dirs[i]
      BY <1>1, <1>2
    <2> QED
      BY <2>1, <2>2
  <1> HIDE DEF path
  <1>4. ASSUME NEW i \in 1 .. Len(t) PROVE parent[path[i]] = path[i + 1]
    <2>1. CASE i = 1
      BY <1>3, <2>1 DEF PendingAt
    <2>2. CASE i # 1
      <3>1. i - 1 \in 1 .. Len(s) /\ i - 1 < Len(s) /\ (i - 1) + 1 = i
        BY <1>1, <2>2
      <3>2. parent[s[i - 1].dir] = s[i].dir
        BY <3>1 DEF PendingAt, Leads
      <3> QED
        BY <1>3, <3>1, <3>2
    <2> QED
      BY <2>1, <2>2
  <1> HIDE DEF dirs
  <1> QED
    BY <1>4 DEF PathStands, path, dirs

\* One turn of the walk's loop, by its outcomes: it is cut short; it goes on
\* past an entry that is gone or does not open, or a file; or it enters n.
LEMMA WalkOutcomes ==
    ASSUME TypeInv, WalkVisits
    PROVE  \E n \in stack[1].rest :
             LET frames == [stack EXCEPT ![1].rest = @ \ {n}]
                 top(d) == [dir |-> n, rest |-> Children(n), depth |-> d] IN
             /\ stack # <<>> /\ frames \in Seq(Frames)
             /\ walk' \in [objects : Nat, visited : Nat, truncated : BOOLEAN]
             /\ walk.truncated => walk'.truncated
             /\ walk'.objects = 0 => walk.objects = 0
             /\ \/ walk'.truncated /\ (stack' = Tail(stack) \/ stack' = frames)
                \/ /\ stack' = frames
                   /\ \/ parent[n] # stack[1].dir
                      \/ n \in Dirs /\ (n \in closed \/ ~PathStands(n, frames))
                      \/ n \in Files /\ walk'.objects # 0
                \/ /\ n \in Dirs /\ parent[n] = stack[1].dir
                   /\ \E d \in Nat : stack' = <<top(d)>> \o frames
  <1>1. PICK n \in stack[1].rest :
          LET w == [walk EXCEPT !.visited = @ + 1]
              depth == stack[1].depth
              frames == [stack EXCEPT ![1].rest = @ \ {n}]
              e == Enter(n, depth + 1, frames, w) IN
          \/ /\ walk.visited >= WalkLimit
             /\ walk' = [walk EXCEPT !.truncated = TRUE] /\ stack' = Tail(stack)
          \/ /\ walk.visited < WalkLimit /\ parent[n] # stack[1].dir
             /\ walk' = w /\ stack' = frames
          \/ /\ walk.visited < WalkLimit /\ parent[n] = stack[1].dir /\ n \in Dirs
             /\ walk' = e.walk /\ stack' = e.stack
          \/ /\ walk.visited < WalkLimit /\ parent[n] = stack[1].dir /\ n \in Files
             /\ walk' = [w EXCEPT !.objects = @ + 1] /\ stack' = frames
    <2>1. stack # <<>> /\ Head(stack) = stack[1]
      BY DEF WalkVisits, TypeInv
    <2> QED
      BY <2>1 DEF WalkVisits
  <1> DEFINE w == [walk EXCEPT !.visited = @ + 1]
             depth == stack[1].depth
             frames == [stack EXCEPT ![1].rest = @ \ {n}]
             top(d) == [dir |-> n, rest |-> Children(n), depth |-> d]
  <1>2. stack # <<>> /\ frames \in Seq(Frames) /\ depth \in Nat
    <2>1. stack # <<>> /\ stack \in Seq(Frames) /\ 1 \in 1 .. Len(stack)
      BY DEF WalkVisits, TypeInv
    <2> QED
      BY <2>1, FrameType, VisitType
  <1>3. /\ w \in [objects : Nat, visited : Nat, truncated : BOOLEAN]
        /\ w.objects = walk.objects /\ w.truncated = walk.truncated
    BY DEF TypeInv
  <1>4. CASE walk.visited >= WalkLimit
    <2>1. walk' = [walk EXCEPT !.truncated = TRUE] /\ stack' = Tail(stack)
      BY <1>1, <1>4, ProbeAssumption DEF TypeInv
    <2> HIDE DEF frames
    <2>2. /\ walk' \in [objects : Nat, visited : Nat, truncated : BOOLEAN]
          /\ walk'.truncated /\ walk'.objects = walk.objects
      BY <2>1 DEF TypeInv
    <2> QED
      BY <1>2, <2>1, <2>2 DEF frames
  <1>5. CASE parent[n] # stack[1].dir /\ walk' = w /\ stack' = frames
    <2> HIDE DEF frames, w
    <2> QED
      BY <1>2, <1>3, <1>5 DEF frames
  <1>6. CASE n \in Files /\ walk' = [w EXCEPT !.objects = @ + 1] /\ stack' = frames
    <2> HIDE DEF frames, w
    <2>1. /\ walk' \in [objects : Nat, visited : Nat, truncated : BOOLEAN]
          /\ walk'.truncated = walk.truncated /\ walk'.objects # 0
      BY <1>3, <1>6
    <2> QED
      BY <1>2, <1>6, <2>1 DEF frames
  <1>7. CASE /\ parent[n] = stack[1].dir /\ n \in Dirs
             /\ walk' = Enter(n, depth + 1, frames, w).walk
             /\ stack' = Enter(n, depth + 1, frames, w).stack
    <2> HIDE DEF frames, w, depth
    <2>1. CASE depth + 1 >= MaxDepth \/ w.truncated
      <3>1. stack' = frames /\ walk' = [w EXCEPT !.truncated = @ \/ depth + 1 >= MaxDepth]
        BY <1>7, <2>1 DEF Enter
      <3>2. /\ walk' \in [objects : Nat, visited : Nat, truncated : BOOLEAN]
            /\ walk'.truncated /\ walk'.objects = walk.objects
        BY <1>3, <2>1, <3>1
      <3> QED
        BY <1>2, <3>1, <3>2 DEF frames
    <2>2. CASE ~(depth + 1 >= MaxDepth \/ w.truncated)
      <3>1. /\ walk' = w
            /\ stack' = IF n \in closed \/ ~PathStands(n, frames) THEN frames
                        ELSE <<top(depth + 1)>> \o frames
        BY <1>7, <2>2 DEF Enter
      <3>2. depth + 1 \in Nat
        BY <1>2
      <3> QED
        BY <1>2, <1>3, <1>7, <3>1, <3>2 DEF frames
    <2> QED
      BY <2>1, <2>2
  <1> QED
    BY <1>1, <1>4, <1>5, <1>6, <1>7

LEMMA WalkVisitsStep ==
    ASSUME TypeInv, WalkInv, EntriesInv, ReportInv, WalkVisits
    PROVE  TypeInv' /\ WalkInv' /\ EntriesInv' /\ ReportInv'
  <1>1. /\ at = "walking" /\ at' = "walking"
        /\ UNCHANGED <<tree, vol, entries, touched, report, raw>>
    BY DEF WalkVisits, boxed
  <1>2. stack \in Seq(Frames) /\ walk \in [objects : Nat, visited : Nat, truncated : BOOLEAN]
    BY DEF TypeInv
  <1> DEFINE frames(n) == [stack EXCEPT ![1].rest = @ \ {n}]
             top(n, d) == [dir |-> n, rest |-> Children(n), depth |-> d]
  <1>3. PICK n \in stack[1].rest :
          /\ stack # <<>> /\ frames(n) \in Seq(Frames)
          /\ walk' \in [objects : Nat, visited : Nat, truncated : BOOLEAN]
          /\ walk.truncated => walk'.truncated
          /\ walk'.objects = 0 => walk.objects = 0
          /\ \/ walk'.truncated /\ (stack' = Tail(stack) \/ stack' = frames(n))
             \/ /\ stack' = frames(n)
                /\ \/ parent[n] # stack[1].dir
                   \/ n \in Dirs /\ (n \in closed \/ ~PathStands(n, frames(n)))
                   \/ n \in Files /\ walk'.objects # 0
             \/ /\ n \in Dirs /\ parent[n] = stack[1].dir
                /\ \E d \in Nat : stack' = <<top(n, d)>> \o frames(n)
    BY WalkOutcomes
  <1>4. n \in Dirs => \A d \in Nat : top(n, d) \in Frames
    BY DEF Frames, Children
  <1>5. /\ Len(frames(n)) = Len(stack)
        /\ \A j \in 1 .. Len(stack) : frames(n)[j].dir = stack[j].dir
    BY <1>2, <1>3 DEF Frames
  <1>6. TypeInv'
    <2> HIDE DEF frames, top
    <2>1. CASE stack' = Tail(stack) \/ stack' = frames(n)
      <3>1. stack' \in Seq(Frames)
        <4>1. stack # <<>> /\ frames(n) \in Seq(Frames)
          BY <1>3
        <4> QED
          BY <1>2, <2>1, <4>1
      <3> QED
        BY <1>1, <1>3, <3>1 DEF TypeInv, tree
    <2>2. CASE n \in Dirs /\ \E d \in Nat : stack' = <<top(n, d)>> \o frames(n)
      <3>1. PICK d \in Nat : stack' = <<top(n, d)>> \o frames(n)
        BY <2>2
      <3>2. <<top(n, d)>> \in Seq(Frames)
        BY <1>4, <2>2
      <3>3. stack' \in Seq(Frames)
        BY <1>3, <3>1, <3>2
      <3> QED
        BY <1>1, <1>3, <3>3 DEF TypeInv, tree
    <2> QED
      BY <1>3, <2>1, <2>2
  <1>7. ASSUME ~walk'.truncated, walk'.objects = 0, NEW f \in Files, Pending(stack, f)
        PROVE  Pending(stack', f)
    <2>1. PICK i, k : PendingAt(stack, i, k, f)
      BY <1>7 DEF Pending
    <2>2. CASE ~(i = 1 /\ k = n)
      <3>1. PendingAt(frames(n), i, k, f)
        BY <1>2, <1>3, <2>1, <2>2, PendingVisit
      <3> HIDE DEF frames, top
      <3>2. CASE stack' = frames(n)
        BY <3>1, <3>2 DEF Pending
      <3>3. CASE n \in Dirs /\ \E d \in Nat : stack' = <<top(n, d)>> \o frames(n)
        BY <1>3, <1>4, <3>1, <3>3, PendingPush DEF Pending
      <3> QED
        BY <1>3, <1>7, <3>2, <3>3
    <2>3. CASE i = 1 /\ k = n
      <3>1. parent[n] = stack[1].dir /\ (f = n \/ f \in Through(parent, n, Open \ closed))
        BY <2>1, <2>3 DEF PendingAt
      <3>2. CASE n \in Files
        <4>1. n \notin Dirs
          BY <3>2, ProbeAssumption
        <4> HIDE DEF frames, top
        <4> QED
          BY <1>3, <1>7, <3>1, <4>1
      <3>3. CASE n \notin Files
        <4>1. f \in Through(parent, n, Open \ closed) /\ n \in Open \ closed
          BY <3>1, <3>3, ThroughClosed
        <4>2. PathStands(n, frames(n))
          <5>1. PendingAt(stack, 1, n, f)
            BY <2>1, <2>3
          <5> HIDE DEF frames
          <5> QED
            BY <1>2, <1>3, <1>5, <5>1, PendingStands
        <4>3. PICK d \in Nat : n \in Dirs /\ stack' = <<top(n, d)>> \o frames(n)
          <5> HIDE DEF frames, top
          <5> QED
            BY <1>3, <1>7, <3>1, <3>3, <4>1, <4>2
        <4>4. PICK m \in Nodes :
                parent[m] = n /\ (f = m \/ f \in Through(parent, m, Open \ closed))
          BY <4>1, ThroughChild
        <4>5. f \in Under(n)
          BY <4>1, ReachedIsUnder
        <4>6. /\ Len(stack') = Len(stack) + 1 /\ Len(stack) \in Nat
              /\ stack'[1] = top(n, d)
              /\ \A j \in 1 .. Len(stack) : stack'[j + 1] = frames(n)[j]
          <5> HIDE DEF frames, top
          <5> QED
            BY <1>2, <1>3, <1>4, <1>5, <4>3
        <4>7. /\ stack'[1].dir = n /\ m \in stack'[1].rest
              /\ \A j \in 1 .. Len(stack) : stack'[j + 1].dir = stack[j].dir
          <5>1. stack'[1].dir = n /\ m \in stack'[1].rest
            BY <4>4, <4>6 DEF Children
          <5> HIDE DEF frames, top
          <5> QED
            BY <1>5, <4>6, <5>1
        <4>8. Leads(stack', 1, f)
          <5> SUFFICES ASSUME NEW j \in 1 .. Len(stack')
                       PROVE  /\ f \in Under(stack'[j].dir)
                              /\ j < Len(stack') =>
                                   /\ stack'[j].dir \in Dirs
                                   /\ parent[stack'[j].dir] = stack'[j + 1].dir
            BY DEF Leads
          <5>1. CASE j = 1
            <6>1. 1 \in 1 .. Len(stack)
              BY <1>2, <1>3
            <6>2. stack'[j + 1].dir = stack[1].dir
              BY <4>7, <5>1, <6>1
            <6> QED
              BY <3>1, <4>3, <4>5, <4>7, <5>1, <6>2
          <5>2. CASE j # 1
            <6>1. /\ j - 1 \in 1 .. Len(stack) /\ (j - 1) + 1 = j
                  /\ j < Len(stack') => j - 1 < Len(stack) /\ j \in 1 .. Len(stack)
              BY <4>6, <5>2
            <6>2. stack'[j].dir = stack[j - 1].dir
              BY <4>7, <6>1
            <6>3. j < Len(stack') => stack'[j + 1].dir = stack[j].dir
              BY <4>7, <6>1
            <6> QED
              BY <2>1, <2>3, <6>1, <6>2, <6>3 DEF PendingAt, Leads
          <5> QED
            BY <5>1, <5>2
        <4>9. PendingAt(stack', 1, m, f)
          <5>1. 1 \in 1 .. Len(stack')
            BY <4>6
          <5> QED
            BY <4>4, <4>7, <4>8, <5>1 DEF PendingAt
        <4> QED
          BY <4>9 DEF Pending
      <3> QED
        BY <3>2, <3>3
    <2> QED
      BY <2>2, <2>3
  <1>8. WalkInv'
    <2>1. \A f : Pending(stack', f) => Pending(stack, f)'
      BY <1>1 DEF Pending, PendingAt, Leads, Under, tree
    <2>2. (walk.truncated => walk'.truncated) /\ (walk'.objects = 0 => walk.objects = 0)
      BY <1>3
    <2> QED
      BY <1>1, <1>7, <2>1, <2>2 DEF WalkInv, Reachable, Unmoved, tree
  <1> QED
    BY <1>1, <1>6, <1>8 DEF EntriesInv, ReportInv, Earned, Children, tree

\* Another program's write does not touch the path to what lies still.
LEMMA WritesStep ==
    ASSUME TypeInv, WalkInv, EntriesInv, ReportInv, NEW n \in Nodes, Writes(n)
    PROVE  TypeInv' /\ WalkInv' /\ EntriesInv' /\ ReportInv'
  <1>1. /\ at' = at /\ touched' = touched \union {n}
        /\ UNCHANGED <<name, closed, vol, entries, stack, walk, report, raw>>
    BY DEF Writes, boxed
  <1>2. PICK p \in Volumes \union Dirs \union {Nowhere} :
          parent' = [m \in Nodes |-> IF m = n THEN p
                                     ELSE IF p = Nowhere /\ m \in Under(n) THEN Nowhere
                                     ELSE parent[m]]
    BY DEF Writes
  <1>3. parent \in [Nodes -> Volumes \union Dirs \union {Nowhere}]
    BY DEF TypeInv
  <1>4. parent' \in [Nodes -> Volumes \union Dirs \union {Nowhere}]
    BY <1>2, <1>3
  <1>5. TypeInv'
    BY <1>1, <1>4 DEF TypeInv
  <1>6. \A m \in Nodes : parent'[m] = parent[m] \/ m = n \/ parent'[m] = Nowhere
    BY <1>2
  <1>7. Nowhere \notin Open
    BY ProbeAssumption DEF Open, Nodes
  <1>8. EntriesInv'
    <2>1. ASSUME at \in {"listed", "walking", "counts"}
          PROVE  Children(vol)' \ touched' \subseteq Children(vol) \ touched
      <3>1. vol \in Volumes /\ vol # Nowhere
        BY <2>1, ProbeAssumption DEF TypeInv
      <3> QED
        BY <1>1, <1>6, <3>1 DEF Children
    <2> QED
      BY <1>1, <2>1 DEF EntriesInv
  <1>9. WalkInv'
    <2> SUFFICES ASSUME at = "walking", ~walk.truncated, walk.objects = 0, vol \notin closed,
                        NEW f \in Files,
                        f \in Through(parent', vol, Open \ closed),
                        touched' \intersect Path(parent', f) = {}
                 PROVE  Pending(stack, f)'
      BY <1>1 DEF WalkInv, Unmoved, Reachable, Open
    <2> DEFINE T == {m \in Nodes : parent'[m] # parent[m]}
    <2>1. vol \in Volumes
      BY DEF TypeInv
    <2>2. ASSUME NEW m \in T PROVE m \notin Path(parent', f)
      <3>1. CASE m = n
        BY <1>1, <3>1
      <3>2. CASE m # n
        <4>1. parent'[m] = Nowhere
          BY <1>6, <3>2
        <4>2. f \in Through(parent', vol, Open)
          BY ThroughOpener
        <4>3. ASSUME m \in Path(parent', f) PROVE m \in Through(parent', vol, Open)
          <5>1. f = m \/ f \in Through(parent', m, Open)
            BY <4>3 DEF Path
          <5> QED
            BY <2>1, <4>2, <5>1, VolumeAbove
        <4> QED
          BY <1>7, <4>1, <4>3, ThroughParent
      <3> QED
        BY <3>1, <3>2
    <2>3. /\ \A m \in Nodes : m \notin T => parent'[m] = parent[m]
          /\ Path(parent', f) \intersect T = {}
      BY <2>2
    <2>4. Open \ closed \subseteq Open
      OBVIOUS
    <2> HIDE DEF T
    <2>5. /\ f \in Through(parent, vol, Open \ closed)
          /\ \A x, open : f \in Through(parent, x, open) => f \in Through(parent', x, open)
      BY <2>1, <2>3, <2>4, SamePath
    <2>6. Path(parent, f) \subseteq Path(parent', f)
      BY <2>5 DEF Path
    <2>7. Unmoved(f)
      BY <1>1, <2>6 DEF Unmoved
    <2>8. PICK i, k : PendingAt(stack, i, k, f)
      BY <2>5, <2>7, ReachableIsThrough DEF WalkInv, Pending
    <2>9. ASSUME NEW d \in Nodes, d \in Path(parent', f) PROVE parent'[d] = parent[d]
      BY <2>3, <2>9
    <2>10. i \in 1 .. Len(stack) /\ k \in Nodes /\ Len(stack) \in Nat
      BY <2>8, FrameType DEF PendingAt, TypeInv
    <2>11. parent'[k] = parent[k] /\ (f = k \/ f \in Through(parent', k, Open \ closed))
      <3>1. CASE f = k
        BY <2>9, <2>10, <3>1 DEF Path
      <3>2. CASE f # k
        <4>1. f \in Through(parent, k, Open \ closed)
          BY <2>8, <3>2 DEF PendingAt
        <4>2. k \in Open
          BY <4>1, ThroughClosed
        <4>3. k \in Dirs
          BY <2>10, <4>2, ProbeAssumption DEF Open
        <4>4. f \in Through(parent', k, Open)
          BY <2>5, <4>1, ThroughOpener
        <4>5. k \in Path(parent', f)
          BY <4>3, <4>4 DEF Path
        <4> QED
          BY <2>5, <2>9, <2>10, <4>1, <4>5
      <3> QED
        BY <3>1, <3>2
    <2>12. Leads(stack, i, f)'
      <3> SUFFICES ASSUME NEW j \in i .. Len(stack)
                   PROVE  /\ f \in Through(parent', stack[j].dir, Open)
                          /\ j < Len(stack) =>
                               /\ stack[j].dir \in Dirs
                               /\ parent'[stack[j].dir] = stack[j + 1].dir
        BY <1>1 DEF Leads, Under, Open
      <3>1. /\ f \in Through(parent, stack[j].dir, Open)
            /\ j < Len(stack) => /\ stack[j].dir \in Dirs
                                 /\ parent[stack[j].dir] = stack[j + 1].dir
        BY <2>8 DEF PendingAt, Leads, Under, Open
      <3>2. f \in Through(parent', stack[j].dir, Open)
        BY <2>5, <3>1
      <3>3. stack[j].dir \in Dirs => parent'[stack[j].dir] = parent[stack[j].dir]
        BY <2>9, <3>2 DEF Path, Nodes
      <3> QED
        BY <3>1, <3>2, <3>3
    <2>13. PendingAt(stack, i, k, f)'
      BY <1>1, <2>8, <2>11, <2>12 DEF PendingAt
    <2> QED
      BY <2>13 DEF Pending
  <1> QED
    BY <1>1, <1>5, <1>8, <1>9 DEF ReportInv, Earned

TrueInv == TypeInv /\ WalkInv /\ EntriesInv /\ ReportInv

LEMMA TrueInvInit == Init => TrueInv
  BY ProbeAssumption
     DEF Init, TrueInv, TypeInv, WalkInv, EntriesInv, ReportInv, NoReport, FreshWalk, Open

LEMMA TrueInvStep == TrueInv /\ [Next]_vars => TrueInv'
  <1> SUFFICES ASSUME TrueInv, [Next]_vars PROVE TrueInv'
    OBVIOUS
  <1> USE DEF TrueInv
  <1>1. CASE \/ BeginsScan \/ CancelsScan \/ EndsScan
             \/ Creates \/ Starts \/ StreamEnds \/ Removes \/ Killed
    BY <1>1, BetweenReadings
  <1>2. CASE (\E v \in Volumes : Lists(v) \/ ScriptEnters(v)) \/ ScriptLists
    BY <1>2, ReadingsBegin
  <1>3. CASE NativeReport \/ ScriptCounts \/ StreamCut
    BY <1>3, Reports
  <1>4. CASE WalkBegins
    BY <1>4, WalkBeginsStep
  <1>5. CASE WalkVisits
    BY <1>5, WalkVisitsStep
  <1>6. CASE WalkReturns
    BY <1>6, WalkReturnsStep
  <1>7. CASE \E n \in Nodes : Writes(n)
    BY <1>7, WritesStep
  <1>8. CASE UNCHANGED vars
    <2>1. UNCHANGED <<parent, name, closed, at, vol, entries, stack, walk, touched, raw, report>>
      BY <1>8 DEF vars, tree, reading, boxed
    <2>2. TypeInv' /\ EntriesInv' /\ ReportInv'
      BY <2>1 DEF TypeInv, EntriesInv, ReportInv, Earned, Children
    <2>3. WalkInv'
      BY <2>1 DEF WalkInv, Pending, PendingAt, Leads, Under, Reachable, Unmoved
    <2> QED
      BY <2>2, <2>3
  <1> QED
    BY <1>1, <1>2, <1>3, <1>4, <1>5, <1>6, <1>7, <1>8 DEF Next

\* Whatever is reported to be reconstructible is, as far as its listing went:
\* for any tree, however deep, any caps, any of the writes of the other program
\* and cuts of the stream.
THEOREM ReconstructiblesAreTrue == Spec => []ReconstructibleIsTrue
  <1>1. TrueInv => ReconstructibleIsTrue
    BY DEF TrueInv, ReportInv, Earned, ReconstructibleIsTrue
  <1> QED
    BY TrueInvInit, TrueInvStep, <1>1, PTL DEF Spec
=============================================================================
