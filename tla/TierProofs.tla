----------------------------- MODULE TierProofs -----------------------------
(***************************************************************************)
(* What a removal without asking costs, for any daemon: any containers,    *)
(* volumes, images and networks, labels and mounts, any number of projects *)
(* and of things that other people do meanwhile.  What has to be known is  *)
(* what the second report's verdict says of an item when it was given, and *)
(* that whatever has changed since was somebody else's doing.              *)
(***************************************************************************)
EXTENDS Tier, TLAPS

\* What stands for no verdict is none.
Tellable == \A rep, r : Verdict(rep, r) # NoVerdict

\* What an item of the plan is removed for: both reports give it the same
\* verdict, and that it is free.
Sure(r) == Fresh(r) /\ plan[r].tier = "free"

Shape ==
    /\ stage \in {"idle", "planning", "planned", "checking", "applying"}
    /\ there \subseteq Vols \union Imgs \union Nets
    /\ full \subseteq Cons \union Vols
    /\ misses \in [Projects -> 0..MinAbsentScans]
    /\ ~Scanning => df = NoReport /\ listing = NoReport
    /\ listing # NoReport =>
           listing.cons \subseteq Cons /\ listing.there \subseteq Vols \union Imgs \union Nets
    /\ \A r \in todo : r \in Res /\ plan[r].tier = "free"
    /\ stage # "applying" => todo = {}

\* A layer that was found empty and is not was written to since.
LayersAreTold ==
    stage = "checking" /\ df # NoReport =>
        \A c \in Cons : c \in df.measured /\ c \notin df.full /\ c \in full => c \in late

\* A project that the plan found missing has been counted once.
MissesAreCounted ==
    stage \in {"planned", "checking"} =>
        \A c \in Carriers :
            plan[c] # NoVerdict /\ plan[c].tier = "free" =>
                LabelOf[c] \in dirs \union stirred \/ misses[LabelOf[c]] >= 1

LosesNothing(r) == r \in full => r \in late

IsRemembered(r) == r \in Cons => \A v \in MountsOf[r] : newest[v] # Nobody

IsNotDeclared(r) == r \in Declared => LabelOf[r] \notin dirs \/ LabelOf[r] \in late

HasConfig(r) == MinAbsentScans = 2 /\ r \in Carriers => LabelOf[r] \in dirs \union stirred

HasPathElsewhere(r) ==
    Tellable /\ r \in Carriers =>
        \/ \E b \in Carriers \ {r} : LabelOf[b] = LabelOf[r] /\ fresh[b] # NoVerdict
        \/ \E v \in MountsOf[r] \intersect Vols :
               /\ newest[v] \in Cons /\ v \in MountsOf[newest[v]]
               /\ fresh[newest[v]] # NoVerdict

VerdictsHold ==
    stage = "applying" =>
        \A r \in Res : Sure(r) =>
            /\ LosesNothing(r)
            /\ IsRemembered(r)
            /\ IsNotDeclared(r)
            /\ HasConfig(r)
            /\ HasPathElsewhere(r)

Inv == Shape /\ LayersAreTold /\ MissesAreCounted /\ VerdictsHold

-----------------------------------------------------------------------------
(* What a verdict says.                                                    *)

LEMMA FreeSays ==
    ASSUME NEW rep, NEW r, TierOf(rep, r) = "free"
    PROVE  /\ r \notin Imgs /\ r \notin BuiltIn
           /\ ~Unknown(rep, r) /\ ~Orphan(rep, r) /\ ~Referenced(rep, r)
           /\ ~(LastCarrier(rep, r) /\ ~PathRecorded(rep, r))
           /\ Inert(rep, r)
  <1>1. r \notin Imgs
    BY DEF TierOf, ImageTier
  <1>2. r \notin BuiltIn /\ ~Unknown(rep, r) /\ ~Orphan(rep, r) /\ ~Referenced(rep, r)
    BY <1>1 DEF TierOf
  <1>3. ~(LastCarrier(rep, r) /\ ~PathRecorded(rep, r)) /\ Inert(rep, r)
    BY <1>1, <1>2 DEF TierOf
  <1> QED
    BY <1>1, <1>2, <1>3

\* A verdict is of an item that was listed.
LEMMA VerdictSays ==
    ASSUME NEW rep, NEW r \in Res, Verdicts(rep)[r] # NoVerdict
    PROVE  r \in Listed(rep) /\ Verdicts(rep)[r].tier = TierOf(rep, r)
  BY DEF Verdicts, Verdict

LEMMA Kinds ==
    /\ Cons \intersect Vols = {} /\ Cons \intersect Imgs = {} /\ Cons \intersect Nets = {}
    /\ Vols \intersect Imgs = {} /\ Vols \intersect Nets = {} /\ Imgs \intersect Nets = {}
    /\ Carriers \subseteq Cons /\ Declared \subseteq Vols
  <1>1. Carriers \subseteq Cons
    BY TierAssumption
  <1>2. Declared \subseteq Vols
    BY TierAssumption
  <1> QED
    BY <1>1, <1>2, TierAssumption

LEMMA Labels ==
    \A c \in Carriers : c \in Cons /\ LabelOf[c] \in Projects /\ LabelOf[c] # NoProject
  <1> SUFFICES ASSUME NEW c \in Carriers
               PROVE  c \in Cons /\ LabelOf[c] \in Projects /\ LabelOf[c] # NoProject
    OBVIOUS
  <1>1. c \in Cons /\ LabelOf[c] # NoProject
    BY TierAssumption
  <1>2. c \in Res /\ LabelOf \in [Res -> Projects \union {NoProject}]
    BY <1>1, TierAssumption DEF Res
  <1> QED
    BY <1>1, <1>2

\* The containers that hold a volume mount it.
LEMMA Mounting ==
    ASSUME NEW rep, NEW v \in Vols
    PROVE  /\ \A c \in Holders(rep, v) \intersect Cons : v \in MountsOf[c]
           /\ \A c \in rep.cons : v \in MountsOf[c] => c \in Holders(rep, v)
  <1>1. ASSUME NEW c \in Cons PROVE ImageOf[c] \in Imgs /\ NetsOf[c] \subseteq Nets
    BY TierAssumption
  <1> QED
    BY <1>1, Kinds DEF Holders

\* A scan that ends judges by a report of what it found.
LEMMA JudgesBy ==
    ASSUME NEW recorded, NEW counted, NEW probing, Judges(recorded, counted, probing)
    PROVE  \E rep :
               /\ rep.cons = listing.cons /\ rep.there = listing.there /\ rep.df = df
               /\ rep.full = full \intersect Vols /\ rep.checkpointed = recorded
               /\ rep.dirs = dirs /\ rep.misses = misses'
               /\ \/ /\ stage = "planning" /\ stage' = "planned"
                     /\ plan' = Verdicts(rep) /\ UNCHANGED <<fresh, todo>>
                  \/ /\ stage = "checking" /\ stage' = "applying"
                     /\ fresh' = Verdicts(rep) /\ UNCHANGED plan
                     /\ todo' = {r \in Res : plan[r] # NoVerdict /\ plan[r].tier = "free"}
  <1> DEFINE rep == [cons |-> listing.cons, live |-> listing.live, there |-> listing.there,
                     df |-> df, young |-> listing.young, reborn |-> listing.reborn,
                     probed |-> IF probing THEN there \intersect Vols ELSE {},
                     full |-> full \intersect Vols, touched |-> touched,
                     checkpointed |-> recorded, dirs |-> dirs, misses |-> misses',
                     located |-> Located(ListedCarriers, newest')]
  <1>1. /\ rep.cons = listing.cons /\ rep.there = listing.there /\ rep.df = df
        /\ rep.full = full \intersect Vols /\ rep.checkpointed = recorded
        /\ rep.dirs = dirs /\ rep.misses = misses'
    OBVIOUS
  <1>2. \/ /\ stage = "planning" /\ stage' = "planned"
           /\ plan' = Verdicts(rep) /\ UNCHANGED <<fresh, todo>>
        \/ /\ stage = "checking" /\ stage' = "applying"
           /\ fresh' = Verdicts(rep) /\ UNCHANGED plan
           /\ todo' = {r \in Res : plan[r] # NoVerdict /\ plan[r].tier = "free"}
    BY DEF Judges
  <1> HIDE DEF rep
  <1> QED
    BY <1>1, <1>2

\* What else a scan that ends does, to the index and to itself.
LEMMA JudgesMore ==
    ASSUME Shape, NEW recorded \in BOOLEAN, NEW counted \in BOOLEAN, NEW probing \in BOOLEAN,
           Judges(recorded, counted, probing)
    PROVE  /\ UNCHANGED <<life, there, full, dirs>>
           /\ df' = NoReport /\ listing' = NoReport /\ listing # NoReport
           /\ recorded => Remembers(newest')
           /\ misses' \in [Projects -> 0..MinAbsentScans]
           /\ counted => \A p \in Projects : misses'[p] = Counted(p)
  <1>1. /\ UNCHANGED <<life, there, full, dirs>>
        /\ df' = NoReport /\ listing' = NoReport /\ listing # NoReport
        /\ recorded => Remembers(newest')
    BY DEF Judges, world
  <1>2. misses' = [p \in Projects |-> IF counted THEN Counted(p) ELSE misses[p]]
    BY DEF Judges
  <1>3. ASSUME NEW p \in Projects PROVE Counted(p) \in 0..MinAbsentScans
    <2>1. misses[p] \in 0..MinAbsentScans /\ MinAbsentScans \in Nat
      BY TierAssumption DEF Shape
    <2> QED
      BY <2>1 DEF Counted
  <1>4. misses' \in [Projects -> 0..MinAbsentScans]
    BY <1>2, <1>3 DEF Shape
  <1> QED
    BY <1>1, <1>2, <1>4

\* Of a container the report lists, whose project is not there, and that tells
\* where it was: the scan counts it missing.
LEMMA CountsMissing ==
    ASSUME Shape, NEW c \in Carriers, c \in listing.cons, LabelOf[c] \notin dirs
    PROVE  Counted(LabelOf[c]) = IF misses[LabelOf[c]] = MinAbsentScans
                                 THEN MinAbsentScans ELSE misses[LabelOf[c]] + 1
  BY DEF Counted, ListedCarriers

\* The containers of a report are those listed.
LEMMA ListedCons ==
    ASSUME Shape, listing # NoReport, NEW rep, rep.cons = listing.cons,
           rep.there = listing.there, NEW c \in Cons, c \in Listed(rep)
    PROVE  c \in listing.cons
  BY Kinds DEF Shape, Listed

-----------------------------------------------------------------------------
(* The invariant.                                                          *)

LEMMA InvInit == Init => Inv
  <1> SUFFICES ASSUME Init PROVE Inv
    OBVIOUS
  <1>1. Shape
    <2>1. misses \in [Projects -> 0..MinAbsentScans]
      BY TierAssumption DEF Init
    <2> QED
      BY <2>1 DEF Init, Shape, Existing, Scanning
  <1>2. LayersAreTold /\ MissesAreCounted /\ VerdictsHold
    BY DEF Init, LayersAreTold, MissesAreCounted, VerdictsHold
  <1> QED
    BY <1>1, <1>2 DEF Inv

\* What the first scan makes of a container whose project is missing.
LEMMA PlansMisses ==
    ASSUME Inv, JudgesWell \/ JudgesBadly, stage = "planning"
    PROVE  Inv'
  <1>1. PICK recorded \in BOOLEAN, counted \in BOOLEAN, probing \in BOOLEAN :
            /\ Judges(recorded, counted, probing)
            /\ counted \/ stirred' = Res \union Projects
            /\ UNCHANGED late
    BY DEF JudgesWell, JudgesBadly, Upset, history
  <1>2. PICK rep :
            /\ rep.cons = listing.cons /\ rep.there = listing.there /\ rep.dirs = dirs
            /\ stage' = "planned" /\ plan' = Verdicts(rep) /\ UNCHANGED <<fresh, todo>>
    BY <1>1, JudgesBy
  <1>3. /\ UNCHANGED <<life, there, full, dirs>>
        /\ df' = NoReport /\ listing' = NoReport /\ listing # NoReport
        /\ misses' \in [Projects -> 0..MinAbsentScans]
        /\ counted => \A p \in Projects : misses'[p] = Counted(p)
    BY <1>1, JudgesMore DEF Inv
  <1>4. Shape'
    BY <1>2, <1>3 DEF Inv, Shape, Scanning
  <1>5. ASSUME NEW c \in Carriers, plan'[c] # NoVerdict,
               LabelOf[c] \notin dirs' \union stirred'
        PROVE  misses'[LabelOf[c]] >= 1
    <2>1. c \in Cons /\ c \in Res /\ LabelOf[c] \in Projects
      BY Labels DEF Res
    <2>2. counted /\ LabelOf[c] \notin dirs
      BY <1>1, <1>3, <1>5, <2>1
    <2>3. c \in listing.cons
      BY <1>2, <1>3, <1>5, <2>1, VerdictSays, ListedCons DEF Inv
    <2>4. /\ misses[LabelOf[c]] \in 0..MinAbsentScans /\ MinAbsentScans \in Nat \ {0, 1}
      BY <2>1, TierAssumption DEF Inv, Shape
    <2>5. Counted(LabelOf[c]) >= 1
      BY <2>2, <2>3, <2>4, CountsMissing DEF Inv
    <2> QED
      BY <1>3, <2>1, <2>2, <2>5
  <1>6. LayersAreTold' /\ VerdictsHold'
    BY <1>2 DEF LayersAreTold, VerdictsHold
  <1> QED
    BY <1>4, <1>5, <1>6 DEF Inv, MissesAreCounted

\* What the second report says of an item that both call free.
LEMMA ChecksVerdicts ==
    ASSUME Inv, JudgesWell \/ JudgesBadly, stage = "checking"
    PROVE  Inv'
  <1>1. PICK recorded \in BOOLEAN, counted \in BOOLEAN, probing \in BOOLEAN :
            /\ Judges(recorded, counted, probing)
            /\ (counted /\ stirred' = stirred) \/ stirred' = Res \union Projects
            /\ UNCHANGED late
    BY DEF JudgesWell, JudgesBadly, Upset, history
  <1>2. PICK rep :
            /\ rep.cons = listing.cons /\ rep.there = listing.there /\ rep.df = df
            /\ rep.full = full \intersect Vols /\ rep.checkpointed = recorded
            /\ rep.dirs = dirs /\ rep.misses = misses'
            /\ stage' = "applying" /\ fresh' = Verdicts(rep) /\ UNCHANGED plan
            /\ todo' = {r \in Res : plan[r] # NoVerdict /\ plan[r].tier = "free"}
    BY <1>1, JudgesBy
  <1>3. /\ UNCHANGED <<life, there, full, dirs>>
        /\ df' = NoReport /\ listing' = NoReport /\ listing # NoReport
        /\ recorded => Remembers(newest')
        /\ misses' \in [Projects -> 0..MinAbsentScans]
        /\ counted => \A p \in Projects : misses'[p] = Counted(p)
    BY <1>1, JudgesMore DEF Inv
  <1>4. Shape'
    BY <1>2, <1>3 DEF Inv, Shape, Scanning
  <1>5. ASSUME NEW r \in Res, Sure(r)'
        PROVE  /\ LosesNothing(r)' /\ IsRemembered(r)' /\ IsNotDeclared(r)'
               /\ HasConfig(r)' /\ HasPathElsewhere(r)'
    <2>1. /\ plan[r] # NoVerdict /\ plan[r].tier = "free"
          /\ r \in Listed(rep) /\ TierOf(rep, r) = "free"
      BY <1>2, <1>5, VerdictSays DEF Sure, Fresh
    <2>2. /\ r \notin Imgs /\ ~Orphan(rep, r) /\ ~Referenced(rep, r)
          /\ ~(LastCarrier(rep, r) /\ ~PathRecorded(rep, r)) /\ Inert(rep, r)
      BY <2>1, FreeSays
    <2>3. ~Destabilises(rep, r) /\ ~Gone(rep, r)
      BY <2>2 DEF Inert
    <2>4. r \in Cons => r \in listing.cons
      BY <1>2, <1>3, <2>1, ListedCons DEF Inv
    <2>5. LosesNothing(r)'
      <3> SUFFICES ASSUME r \in full PROVE r \in late
        BY <1>1, <1>3 DEF LosesNothing
      <3>1. CASE r \in Cons
        <4>1. r \in df.measured /\ r \notin df.full
          BY <1>2, <2>3, <3>1 DEF Destabilises, Empty
        <4>2. df # NoReport
          BY <1>1 DEF Judges
        <4> QED
          BY <3>1, <4>1, <4>2 DEF Inv, LayersAreTold
      <3>2. CASE r \in Vols
        BY <1>2, <2>3, <3>2 DEF Gone, Worthless
      <3> QED
        BY <3>1, <3>2 DEF Inv, Shape
    <2>6. ASSUME r \in Cons, NEW v \in MountsOf[r]
          PROVE  /\ v \in Vols /\ newest'[v] \in Cons /\ v \in MountsOf[newest'[v]]
                 /\ newest'[v] \in listing.cons
      <3>1. recorded
        BY <1>2, <2>3, <2>6 DEF Destabilises, Gone
      <3>2. v \in Vols
        BY <2>6, TierAssumption
      <3>3. r \in Holders(listing, v)
        BY <2>4, <2>6, <3>2, Mounting
      <3>4. LabelOf[r] # NoProject
        BY <2>3, <2>6 DEF Gone
      <3>5. newest'[v] \in Holders(listing, v)
        BY <1>3, <3>1, <3>2, <3>3, <3>4 DEF Remembers
      <3>6. newest'[v] \in listing.cons /\ newest'[v] \in Cons
        BY <1>3, <3>5 DEF Holders, Inv, Shape
      <3> QED
        BY <3>2, <3>5, <3>6, Mounting
    <2>7. IsRemembered(r)'
      <3>1. Nobody \notin Cons
        BY TierAssumption
      <3> QED
        BY <2>6, <3>1 DEF IsRemembered
    <2>8. IsNotDeclared(r)'
      BY <1>2, <1>3, <2>2 DEF IsNotDeclared, Referenced, DeclaredLive
    <2>9. HasConfig(r)'
      <3> SUFFICES ASSUME MinAbsentScans = 2, r \in Carriers,
                          LabelOf[r] \notin dirs \union stirred'
                   PROVE  FALSE
        BY <1>3 DEF HasConfig
      <3>1. r \in Cons /\ LabelOf[r] \in Projects /\ LabelOf[r] # NoProject
        BY Labels
      <3>2. counted /\ stirred' = stirred
        BY <1>1, <3>1
      <3>3. misses[LabelOf[r]] \in 1..2
        <4>1. misses[LabelOf[r]] >= 1
          BY <2>1, <3>2 DEF Inv, MissesAreCounted
        <4> QED
          BY <3>1, <4>1 DEF Inv, Shape
      <3>4. Counted(LabelOf[r]) = 2
        BY <2>4, <3>1, <3>3, CountsMissing DEF Inv
      <3>5. rep.misses[LabelOf[r]] >= MinAbsentScans
        BY <1>2, <1>3, <3>1, <3>2, <3>4
      <3>6. Orphan(rep, r)
        BY <1>2, <3>1, <3>5 DEF Orphan, Knows, Present, DeclaredLive
      <3> QED
        BY <2>2, <3>6
    <2>10. HasPathElsewhere(r)'
      <3> SUFFICES ASSUME Tellable, r \in Carriers
                   PROVE  \/ \E b \in Carriers \ {r} :
                                  LabelOf[b] = LabelOf[r] /\ fresh'[b] # NoVerdict
                          \/ \E v \in MountsOf[r] \intersect Vols :
                                  /\ newest'[v] \in Cons /\ v \in MountsOf[newest'[v]]
                                  /\ fresh'[newest'[v]] # NoVerdict
        BY DEF HasPathElsewhere, Tellable
      <3>1. r \in Cons
        BY Labels
      <3>2. CASE ~LastCarrier(rep, r)
        <4>1. PICK b \in rep.cons \intersect Carriers : LabelOf[b] = LabelOf[r] /\ b # r
          BY <3>2 DEF LastCarrier
        <4>2. b \in Res /\ b \in Listed(rep)
          BY <4>1, Labels DEF Res, Listed
        <4>3. fresh'[b] # NoVerdict
          BY <1>2, <4>2 DEF Verdicts, Tellable
        <4> QED
          BY <4>1, <4>3
      <3>3. CASE PathRecorded(rep, r)
        <4>1. PICK v \in MountsOf[r] : TRUE
          BY <3>3 DEF PathRecorded
        <4>2. newest'[v] \in Res /\ newest'[v] \in Listed(rep)
          BY <1>2, <2>6, <3>1, <4>1 DEF Res, Listed
        <4>3. fresh'[newest'[v]] # NoVerdict
          BY <1>2, <4>2 DEF Verdicts, Tellable
        <4> QED
          BY <2>6, <3>1, <4>1, <4>3
      <3> QED
        BY <2>2, <3>2, <3>3
    <2> QED
      BY <2>5, <2>7, <2>8, <2>9, <2>10
  <1>6. LayersAreTold' /\ MissesAreCounted'
    BY <1>2 DEF LayersAreTold, MissesAreCounted
  <1> QED
    BY <1>2, <1>4, <1>5, <1>6 DEF Inv, VerdictsHold

\* What other people do is written down as theirs.
LEMMA WorldStirs ==
    ASSUME Shape, WorldStep
    PROVE  /\ UNCHANGED <<index, tool>>
           /\ there' \subseteq Vols \union Imgs \union Nets
           /\ full' \subseteq Cons \union Vols
           /\ \E S :
                  /\ full' \subseteq full \union S
                  /\ \A p \in Projects : p \in S \/ (p \in dirs' <=> p \in dirs)
                  /\ stirred' = IF stage = "idle" THEN {} ELSE stirred \union S
                  /\ late' = IF stage \in {"checking", "applying"} THEN late \union S ELSE {}
  <1>1. CASE \E c \in Cons : Starts(c) \/ Stops(c)
    BY <1>1 DEF Starts, Stops, Stirs, Shape
  <1>2. CASE \E c \in Cons : Creates(c)
    <2>1. PICK c \in Cons : Creates(c)
      BY <1>2
    <2>2. Needs(c) \subseteq Vols \union Imgs \union Nets
      <3>1. MountsOf[c] \subseteq Vols /\ ImageOf[c] \in Imgs /\ NetsOf[c] \subseteq Nets
        BY TierAssumption
      <3> QED
        BY <3>1 DEF Needs
    <2>3. /\ UNCHANGED <<index, tool, full, dirs>>
          /\ there' = there \union (Needs(c) \ there)
      BY <2>1 DEF Creates, Stirs
    <2>4. \E S : /\ stirred' = IF stage = "idle" THEN {} ELSE stirred \union S
                 /\ late' = IF stage \in {"checking", "applying"} THEN late \union S ELSE {}
      BY <2>1 DEF Creates, Stirs
    <2> QED
      BY <2>2, <2>3, <2>4 DEF Shape
  <1>3. CASE \E c \in Cons : Writes(c)
    <2>0. PICK c \in Cons : Writes(c)
      BY <1>3
    <2>1. PICK x \in {c} \union MountsOf[c] :
              /\ full' = full \union {x} /\ Stirs({x})
              /\ UNCHANGED <<there, dirs>>
      BY <2>0 DEF Writes
    <2>2. x \in Cons \union Vols
      BY <2>1, TierAssumption
    <2> QED
      BY <2>1, <2>2 DEF Stirs, Shape
  <1>4. CASE \E r \in Res : Vanishes(r)
    BY <1>4 DEF Vanishes, Drops, Stirs, Shape
  <1>5. CASE \E p \in Projects : Moves(p)
    BY <1>5 DEF Moves, Stirs, Shape
  <1>6. CASE DayPasses
    BY <1>6 DEF DayPasses, Stirs, Shape
  <1> QED
    BY <1>1, <1>2, <1>3, <1>4, <1>5, <1>6 DEF WorldStep

LEMMA WorldKeeps == Inv /\ WorldStep => Inv'
  <1> SUFFICES ASSUME Inv, WorldStep PROVE Inv'
    OBVIOUS
  <1>1. PICK S :
            /\ full' \subseteq full \union S
            /\ \A p \in Projects : p \in S \/ (p \in dirs' <=> p \in dirs)
            /\ stirred' = IF stage = "idle" THEN {} ELSE stirred \union S
            /\ late' = IF stage \in {"checking", "applying"} THEN late \union S ELSE {}
    BY WorldStirs DEF Inv
  <1>2. UNCHANGED <<newest, misses, stage, df, listing, plan, fresh, todo>>
    BY WorldStirs DEF Inv, index, tool
  <1>3. Shape'
    BY <1>2, WorldStirs DEF Inv, Shape, Scanning
  <1>4. LayersAreTold'
    BY <1>1, <1>2 DEF Inv, LayersAreTold
  <1>5. MissesAreCounted'
    BY <1>1, <1>2, Labels DEF Inv, MissesAreCounted
  <1>6. ASSUME stage = "applying", NEW r \in Res, Sure(r)'
        PROVE  /\ LosesNothing(r)' /\ IsRemembered(r)' /\ IsNotDeclared(r)'
               /\ HasConfig(r)' /\ HasPathElsewhere(r)'
    <2>1. Sure(r)
      BY <1>2, <1>6 DEF Sure, Fresh
    <2>2. /\ LosesNothing(r) /\ IsRemembered(r) /\ IsNotDeclared(r)
          /\ HasConfig(r) /\ HasPathElsewhere(r)
      BY <1>6, <2>1 DEF Inv, VerdictsHold
    <2>3. LosesNothing(r)'
      BY <1>1, <1>6, <2>2 DEF LosesNothing
    <2>4. IsRemembered(r)'
      BY <1>2, <2>2 DEF IsRemembered
    <2>5. IsNotDeclared(r)'
      <3>1. r \in Declared => LabelOf[r] \in Projects
        <4>1. /\ Rooted \subseteq Projects
              /\ Declared \subseteq {v \in Vols : LabelOf[v] \in Rooted}
          BY TierAssumption
        <4> QED
          BY <4>1
      <3> QED
        BY <1>1, <1>6, <2>2, <3>1 DEF IsNotDeclared
    <2>6. HasConfig(r)'
      BY <1>1, <1>6, <2>2, Labels DEF HasConfig
    <2>7. HasPathElsewhere(r)'
      BY <1>2, <2>2 DEF HasPathElsewhere, Tellable
    <2> QED
      BY <2>3, <2>4, <2>5, <2>6, <2>7
  <1> QED
    BY <1>2, <1>3, <1>4, <1>5, <1>6 DEF Inv, VerdictsHold

\* A scan that begins knows of nothing that was written under it.
LEMMA BeginsKeeps == Inv /\ Begins => Inv'
  <1> SUFFICES ASSUME Inv, Begins PROVE Inv'
    OBVIOUS
  <1>1. /\ UNCHANGED <<there, full, dirs, newest, misses, df, listing, plan, fresh, todo>>
        /\ \/ stage = "idle" /\ stage' = "planning"
           \/ stage = "planned" /\ stage' = "checking" /\ UNCHANGED stirred
    BY DEF Begins, world, index
  <1>2. df = NoReport /\ listing = NoReport
    BY <1>1 DEF Inv, Shape, Scanning
  <1>3. Shape'
    BY <1>1, <1>2 DEF Inv, Shape, Scanning
  <1>4. LayersAreTold' /\ VerdictsHold'
    BY <1>1, <1>2 DEF LayersAreTold, VerdictsHold
  <1>5. MissesAreCounted'
    BY <1>1 DEF Inv, MissesAreCounted
  <1> QED
    BY <1>3, <1>4, <1>5 DEF Inv

LEMMA ScansKeep == Inv /\ (Measures \/ Lists \/ SizingFails) => Inv'
  <1> SUFFICES ASSUME Inv, Measures \/ Lists \/ SizingFails PROVE Inv'
    OBVIOUS
  <1>1. /\ UNCHANGED <<there, full, dirs, newest, misses, stage, plan, fresh, todo, late>>
        /\ Scanning
        /\ stirred' = stirred \/ stirred' = Res \union Projects
    BY DEF Measures, Lists, SizingFails, Upset, world, index, history
  <1>2. Shape'
    <2>1. \/ UNCHANGED listing
          \/ /\ listing'.cons \subseteq Cons
             /\ listing'.there = there
      BY DEF Measures, Lists, SizingFails
    <2> QED
      BY <1>1, <2>1 DEF Inv, Shape, Scanning
  <1>3. LayersAreTold'
    <2>1. \/ UNCHANGED df
          \/ df'.full = full \intersect Cons
          \/ df'.measured = {}
      BY DEF Measures, Lists, SizingFails, Unsized
    <2> QED
      BY <1>1, <2>1 DEF Inv, LayersAreTold
  <1>4. MissesAreCounted'
    BY <1>1, Labels DEF Inv, MissesAreCounted
  <1>5. VerdictsHold'
    BY <1>1 DEF VerdictsHold, Scanning
  <1> QED
    BY <1>2, <1>3, <1>4, <1>5 DEF Inv

\* A removal takes something, and puts nothing in its place.
LEMMA RemovesKeep ==
    ASSUME Inv, NEW x \in Res, Removes(x) \/ Leaves(x)
    PROVE  Inv'
  <1>1. /\ UNCHANGED <<dirs, newest, misses, stage, df, listing, plan, fresh, stirred, late>>
        /\ there' \subseteq there /\ full' \subseteq full /\ todo' = todo \ {x}
        /\ stage = "applying"
    BY DEF Removes, Leaves, Drops, Turn, world, index, history
  <1>2. Shape'
    BY <1>1 DEF Inv, Shape, Scanning
  <1>3. VerdictsHold'
    BY <1>1 DEF Inv, VerdictsHold, Sure, Fresh, LosesNothing, IsRemembered, IsNotDeclared,
                HasConfig, HasPathElsewhere, Tellable
  <1> QED
    BY <1>1, <1>2, <1>3 DEF Inv, LayersAreTold, MissesAreCounted

LEMMA EndsKeep == Inv /\ (Ends \/ Abandons) => Inv'
  <1> SUFFICES ASSUME Inv, Ends \/ Abandons PROVE Inv'
    OBVIOUS
  <1>1. /\ stage' = "idle" /\ df' = NoReport /\ listing' = NoReport /\ todo' = {}
        /\ UNCHANGED <<there, full, misses>>
    BY DEF Ends, Abandons, Forgets, world, index
  <1> QED
    BY <1>1 DEF Inv, Shape, LayersAreTold, MissesAreCounted, VerdictsHold, Scanning

LEMMA InvStep == Inv /\ [Next]_vars => Inv'
  <1> SUFFICES ASSUME Inv, [Next]_vars PROVE Inv'
    OBVIOUS
  <1>1. CASE UNCHANGED vars
    BY <1>1 DEF vars, world, index, tool, history, Inv, Shape, LayersAreTold,
                MissesAreCounted, VerdictsHold, Sure, Fresh, LosesNothing, IsRemembered,
                IsNotDeclared, HasConfig, HasPathElsewhere, Tellable, Scanning
  <1>2. CASE JudgesWell \/ JudgesBadly
    <2>1. stage = "planning" \/ stage = "checking"
      BY <1>2 DEF JudgesWell, JudgesBadly, Judges, Scanning
    <2> QED
      BY <1>2, <2>1, PlansMisses, ChecksVerdicts
  <1>3. CASE ToolStep
    BY <1>2, <1>3, BeginsKeeps, ScansKeep, RemovesKeep, EndsKeep DEF ToolStep
  <1>4. CASE Mishap
    BY <1>2, <1>4, ScansKeep, EndsKeep DEF Mishap
  <1>5. CASE WorldStep
    BY <1>5, WorldKeeps
  <1> QED
    BY <1>1, <1>3, <1>4, <1>5 DEF Next

-----------------------------------------------------------------------------
(* What a removal costs.                                                   *)

\* Only what both reports call free is removed, and then its verdict holds.
LEMMA RemovesTheSure ==
    ASSUME Inv, NEW r \in Res, Removes(r)
    PROVE  /\ LosesNothing(r) /\ IsRemembered(r) /\ IsNotDeclared(r)
           /\ HasConfig(r) /\ HasPathElsewhere(r)
  <1>1. stage = "applying" /\ Sure(r)
    BY DEF Removes, Turn, Sure, Inv, Shape
  <1> QED
    BY <1>1 DEF Inv, VerdictsHold

\* What is removed without asking is empty, or was written to after the second
\* scan had begun: whatever else goes on, no information is lost that the
\* checks could have seen.
THEOREM LosesOnlyLateData == Spec => FreeLosesOnlyLateData
  <1>1. Inv /\ [Next]_vars => [\A r \in Res : Removes(r) /\ r \in full => r \in late]_vars
    BY RemovesTheSure DEF LosesNothing
  <1> QED
    BY InvInit, InvStep, <1>1, PTL DEF Spec, FreeLosesOnlyLateData

\* When a container goes, the index names a container for each of its volumes.
THEOREM RemembersMounts == Spec => MountsAreRemembered
  <1>1. Inv /\ [Next]_vars => [\A c \in Cons : \A v \in Vols :
            Removes(c) /\ v \in MountsOf[c] => newest[v] # Nobody]_vars
    BY RemovesTheSure DEF IsRemembered, Res
  <1> QED
    BY InvInit, InvStep, <1>1, PTL DEF Spec, MountsAreRemembered

\* A volume that a compose file declares goes only while its project is
\* missing, or if the project came back under the second scan.
THEOREM KeepsDeclared == Spec => DeclaredIsKept
  <1>1. Inv /\ [Next]_vars => [\A v \in Declared :
            Removes(v) => LabelOf[v] \notin dirs \/ LabelOf[v] \in late]_vars
    BY RemovesTheSure, Kinds DEF IsNotDeclared, Res
  <1> QED
    BY InvInit, InvStep, <1>1, PTL DEF Spec, DeclaredIsKept

\* With two scans to call a project missing, as in the code, a container goes
\* only if its project's directory is there or was moved since the plan's scan
\* began.  With three, both scans of a run could find it missing and call
\* neither verdict an orphan's.
THEOREM KeepsConfig ==
    ASSUME MinAbsentScans = 2
    PROVE  Spec => ConfigStillExists
  <1>1. Inv /\ [Next]_vars => [\A c \in Carriers :
            Removes(c) => LabelOf[c] \in dirs \union stirred]_vars
    BY RemovesTheSure, Labels DEF HasConfig, Res
  <1> QED
    BY InvInit, InvStep, <1>1, PTL DEF Spec, ConfigStillExists

\* No one removal takes the last trace of a project's place, but where the
\* same report had another container that told it, or one of another project
\* with a volume of the item's: of those that share one the index keeps a
\* single owner, and the other's place goes with its container.
THEOREM KeepsPaths ==
    ASSUME Tellable
    PROVE  Spec => PathsGoInPairsOnly
  <1>1. Inv /\ [Next]_vars => [\A c \in Cons :
            Removes(c) /\ Locatable(LabelOf[c]) /\ ~Locatable(LabelOf[c])'
                => \/ \E b \in Carriers \ {c} :
                          /\ LabelOf[b] = LabelOf[c]
                          /\ fresh[b] # NoVerdict /\ b \notin Existing
                   \/ \E v \in MountsOf[c] :
                          RecalledByOther(v, c) /\ fresh[newest[v]] # NoVerdict]_vars
    <2> SUFFICES ASSUME Inv, NEW c \in Cons, Removes(c), Locatable(LabelOf[c]),
                        ~Locatable(LabelOf[c])'
                 PROVE  \/ \E b \in Carriers \ {c} :
                               /\ LabelOf[b] = LabelOf[c]
                               /\ fresh[b] # NoVerdict /\ b \notin Existing
                        \/ \E v \in MountsOf[c] :
                               RecalledByOther(v, c) /\ fresh[newest[v]] # NoVerdict
      OBVIOUS
    <2>1. UNCHANGED <<newest, dirs>>
      BY DEF Removes, index
    <2>2. Existing' \intersect Carriers = (Existing \intersect Carriers) \ {c}
      <3>1. /\ life' = [x \in Cons |-> IF x = c THEN "gone" ELSE life[x]]
            /\ there' = there \ {c} /\ there \subseteq Vols \union Imgs \union Nets
        BY DEF Removes, Drops, Inv, Shape
      <3> QED
        BY <3>1, Kinds DEF Existing
    <2>3. \A b \in Carriers : b \in Existing' => LabelOf[b] # LabelOf[c]
      BY DEF Locatable, Located
    <2>4. \A v \in Vols : newest[v] \in Carriers => LabelOf[newest[v]] # LabelOf[c]
      BY <2>1 DEF Locatable, Located
    <2>5. c \in Carriers
      <3>1. PICK b \in Existing \intersect Carriers : LabelOf[b] = LabelOf[c]
        BY <2>1, <2>4 DEF Locatable, Located
      <3> QED
        BY <2>2, <2>3, <3>1
    <2>6. HasPathElsewhere(c)
      BY RemovesTheSure DEF Res
    <2>7. CASE \E b \in Carriers \ {c} : LabelOf[b] = LabelOf[c] /\ fresh[b] # NoVerdict
      BY <2>2, <2>3, <2>7
    <2>8. CASE \E v \in MountsOf[c] \intersect Vols :
                   /\ newest[v] \in Cons /\ v \in MountsOf[newest[v]]
                   /\ fresh[newest[v]] # NoVerdict
      BY <2>4, <2>8 DEF RecalledByOther
    <2> QED
      BY <2>5, <2>6, <2>7, <2>8 DEF HasPathElsewhere
  <1> QED
    BY InvInit, InvStep, <1>1, PTL DEF Spec, PathsGoInPairsOnly

-----------------------------------------------------------------------------
(* That a fact which was not read cancels nothing.  A verdict of the plan  *)
(* is followed to the second report as what a scan would say that saw all  *)
(* at once, which no step of other people changes for what they leave      *)
(* alone.                                                                  *)

\* A container that what is known of r rests on.
Matters(c, r) == c = r \/ r \in Needs(c) \/ (LabelOf[c] = LabelOf[r] /\ LabelOf[c] # NoProject)

\* Nobody has touched r, its project, which is there, nor what it rests on.
Quiet(r) ==
    /\ r \notin stirred /\ LabelOf[r] \notin stirred
    /\ \A c \in Cons : Matters(c, r) => c \notin stirred
    /\ LabelOf[r] \in dirs \union {NoProject}

Running == {c \in Cons : life[c] = "running"}

\* What a scan would report that took no time and in which nothing failed.
Sight ==
    [cons |-> Existing \intersect Cons, live |-> Running, there |-> there,
     df |-> [measured |-> Existing \intersect Cons, full |-> full \intersect Cons],
     young |-> young, reborn |-> reborn,
     probed |-> there \intersect Vols, full |-> full \intersect Vols, touched |-> touched,
     checkpointed |-> TRUE, dirs |-> dirs, misses |-> misses,
     located |-> Located(Existing \intersect Carriers, newest)]

\* The index remembers labelled containers, by what they mounted.
IndexIsOfMounts ==
    \A v \in Vols : newest[v] # Nobody =>
        newest[v] \in Cons /\ v \in MountsOf[newest[v]] /\ LabelOf[newest[v]] # NoProject

\* What the scan under way has seen of it is so still,
SeenStands ==
    Scanning => \A r \in Res : Quiet(r) =>
        /\ df # NoReport /\ r \in Cons =>
             (r \in df.measured <=> r \in Existing) /\ (r \in df.full <=> r \in full)
        /\ listing # NoReport =>
             /\ \A c \in Cons : Matters(c, r) =>
                    (c \in listing.cons <=> c \in Existing) /\ (c \in listing.live <=> c \in Running)
             /\ (r \in listing.there <=> r \in there)
             /\ (r \in listing.young <=> r \in young) /\ (r \in listing.reborn <=> r \in reborn)

\* and so is what the plan said,
PlanStands ==
    stage \in {"planned", "checking"} => \A r \in Res :
        Quiet(r) /\ plan[r] # NoVerdict /\ plan[r].tier = "free" =>
            r \in Existing /\ plan[r] = Verdict(Sight, r)

\* which the second report then says too, unless it has lost a place.
CheckStands ==
    stage = "applying" => \A r \in todo :
        Quiet(r) => Fresh(r) \/ (r \in Vols /\ PlaceIsOverwritten(r))

\* Of r, report b knows what report a does, and where a knows a volume's
\* project's place so does b.
Alike(a, b, r) ==
    /\ a.cons \subseteq Cons /\ b.cons \subseteq Cons
    /\ \A c \in Cons : Matters(c, r) =>
           (c \in a.cons <=> c \in b.cons) /\ (c \in a.live <=> c \in b.live)
    /\ a.live \subseteq Cons /\ b.live \subseteq Cons
    /\ r \in Cons => /\ r \in a.df.measured <=> r \in b.df.measured
                     /\ r \in a.df.full <=> r \in b.df.full
    /\ r \in a.young <=> r \in b.young
    /\ r \in a.reborn <=> r \in b.reborn
    /\ r \in Vols => /\ r \in a.probed <=> r \in b.probed
                     /\ r \in a.full <=> r \in b.full
                     /\ r \in a.touched <=> r \in b.touched
    /\ a.touched \subseteq Vols /\ b.touched \subseteq Vols
    /\ a.checkpointed = b.checkpointed
    /\ LabelOf[r] = NoProject \/ (LabelOf[r] \in a.dirs /\ LabelOf[r] \in b.dirs)
    /\ r \in Vols /\ LabelOf[r] # NoProject =>
           (LabelOf[r] \in a.located => LabelOf[r] \in b.located)

LEMMA AlikeHolders ==
    ASSUME NEW r \in Res, NEW a, NEW b, Alike(a, b, r)
    PROVE  Holders(a, r) = Holders(b, r)
  BY DEF Alike, Holders, Matters, Needs

\* Of a volume, a container or a network that is free in one, the other gives
\* the same answers to what its verdict asks.
LEMMA SameAnswers ==
    ASSUME NEW r \in Res, NEW a, NEW b, Alike(a, b, r), TierOf(a, r) = "free"
    PROVE  /\ r \notin Imgs /\ r \notin BuiltIn
           /\ Holders(a, r) = {} /\ Holders(b, r) = {}
           /\ ~Hidden(a, r) /\ ~Hidden(b, r)
           /\ ~DeclaredLive(a, r) /\ ~DeclaredLive(b, r)
           /\ Generic(a, r) /\ Generic(b, r)
           /\ LastCarrier(a, r) <=> LastCarrier(b, r)
           /\ PathRecorded(a, r) <=> PathRecorded(b, r)
           /\ Lasting(a, r) /\ Lasting(b, r)
           /\ Inert(a, r) /\ Inert(b, r)
           /\ r \notin a.young /\ r \notin b.young
           /\ r \in Vols => Worthless(a, r) /\ Worthless(b, r)
  <1>1. /\ r \notin Imgs /\ r \notin BuiltIn
        /\ ~Unknown(a, r) /\ ~Orphan(a, r) /\ ~Referenced(a, r)
        /\ ~(LastCarrier(a, r) /\ ~PathRecorded(a, r))
        /\ Inert(a, r)
    BY FreeSays
  <1>2. Holders(a, r) = {} /\ Holders(b, r) = {} /\ ~DeclaredLive(a, r) /\ ~Hidden(a, r)
    BY <1>1, AlikeHolders DEF Referenced, Unknown
  <1>3. ~Hidden(b, r)
    <2>1. r \in Vols => r \notin Carriers
      BY Kinds
    <2> QED
      BY <1>2, <2>1 DEF Hidden, Knows, Alike
  <1>4. ~DeclaredLive(b, r)
    <2>1. r \in Declared => LabelOf[r] \in a.dirs \/ LabelOf[r] = NoProject
      BY DEF Alike
    <2>2. r \in Declared => LabelOf[r] # NoProject
      <3>1. r \in Declared => LabelOf[r] \in Projects
        <4>1. /\ Rooted \subseteq Projects
              /\ Declared \subseteq {v \in Vols : LabelOf[v] \in Rooted}
          BY TierAssumption
        <4> QED
          BY <4>1
      <3> QED
        BY <3>1, TierAssumption
    <2> QED
      BY <1>2, <2>1, <2>2 DEF DeclaredLive
  <1>5. ~Unknown(b, r)
    <2>1. r \in a.live <=> r \in b.live
      BY DEF Alike, Matters
    <2> QED
      BY <1>1, <1>2, <1>3, <2>1 DEF Unknown, InUse
  <1>6. ~Orphan(b, r) /\ ~Referenced(b, r)
    BY <1>2, <1>4 DEF Orphan, Knows, Present, Referenced, Alike
  <1>7. LastCarrier(a, r) <=> LastCarrier(b, r)
    BY Labels DEF LastCarrier, Alike, Matters
  <1>8. PathRecorded(a, r) <=> PathRecorded(b, r)
    BY DEF PathRecorded, Alike
  <1>9. r \in Cons => (Empty(a, r) <=> Empty(b, r))
    BY DEF Empty, Alike
  <1>10. r \in Vols => (Worthless(a, r) <=> Worthless(b, r)) /\ (r \in a.touched <=> r \in b.touched)
    BY DEF Worthless, Alike
  <1>11. (Destabilises(a, r) <=> Destabilises(b, r)) /\ (Gone(a, r) <=> Gone(b, r))
    <2>1. a.checkpointed <=> b.checkpointed
      BY DEF Alike
    <2> QED
      BY <1>9, <1>10, <2>1 DEF Destabilises, Gone
  <1>12. Inert(b, r)
    BY <1>1, <1>7, <1>8, <1>11 DEF Inert
  <1>13. r \notin a.young
    BY <1>1, <1>2 DEF TierOf
  <1>14. r \in Vols => Worthless(a, r)
    BY <1>1 DEF Inert, Gone
  <1> QED
    BY <1>1, <1>2, <1>3, <1>4, <1>5, <1>6, <1>7, <1>8, <1>10, <1>12, <1>13, <1>14
       DEF Generic, Lasting, Alike

LEMMA SamePairs ==
    ASSUME NEW S, NEW A, NEW B, NEW C, NEW D,
           \A x \in S : (x \in A <=> x \in C) /\ (x \in B <=> x \in D)
    PROVE  {<<x \in A, x \in B>> : x \in S} = {<<x \in C, x \in D>> : x \in S}
  OBVIOUS

\* And so its verdict rests on the same facts.
LEMMA SameFacts ==
    ASSUME NEW r \in Res, NEW a, NEW b, Alike(a, b, r), TierOf(a, r) = "free"
    PROVE  Facts(a, r) = Facts(b, r)
  <1>1. /\ r \notin Imgs
        /\ Holders(a, r) = {} /\ Holders(b, r) = {}
        /\ ~Hidden(a, r) /\ ~Hidden(b, r)
        /\ ~DeclaredLive(a, r) /\ ~DeclaredLive(b, r)
        /\ Generic(a, r) /\ Generic(b, r)
        /\ LastCarrier(a, r) <=> LastCarrier(b, r)
        /\ PathRecorded(a, r) <=> PathRecorded(b, r)
        /\ Lasting(a, r) /\ Lasting(b, r)
        /\ Inert(a, r) /\ Inert(b, r)
        /\ r \in Vols => Worthless(a, r) /\ Worthless(b, r)
    BY SameAnswers
  <1>2. /\ r \in Cons => /\ r \in a.df.measured <=> r \in b.df.measured
                         /\ r \in a.df.full <=> r \in b.df.full
        /\ r \in a.young <=> r \in b.young
        /\ r \in a.reborn <=> r \in b.reborn
        /\ r \in Vols => /\ r \in a.probed <=> r \in b.probed
                         /\ r \in a.full <=> r \in b.full
                         /\ r \in a.touched <=> r \in b.touched
        /\ a.touched \subseteq Vols /\ b.touched \subseteq Vols
        /\ a.checkpointed = b.checkpointed
    BY DEF Alike
  <1>3. Hidden(a, r) = Hidden(b, r)
    BY <1>1 DEF Hidden
  <1>4. {<<c, c \in a.live>> : c \in IF Hidden(a, r) /\ r \notin Imgs THEN {} ELSE Holders(a, r)}
      = {<<c, c \in b.live>> : c \in IF Hidden(b, r) /\ r \notin Imgs THEN {} ELSE Holders(b, r)}
    BY <1>1
  <1>5. (~Hidden(a, r) /\ DeclaredLive(a, r)) = (~Hidden(b, r) /\ DeclaredLive(b, r))
    BY <1>1
  <1>6. {<<r \in a.df.measured, r \in a.df.full>> : c \in {r} \intersect Cons}
      = {<<r \in b.df.measured, r \in b.df.full>> : c \in {r} \intersect Cons}
    BY <1>2
  <1>7. {<<v \in a.probed, v \in a.full>> :
            v \in {w \in {r} \intersect Vols : Worthless(a, w) \/ Lasting(a, w)}}
      = {<<v \in b.probed, v \in b.full>> :
            v \in {w \in {r} \intersect Vols : Worthless(b, w) \/ Lasting(b, w)}}
    <2>1. /\ {w \in {r} \intersect Vols : Worthless(a, w) \/ Lasting(a, w)} = {r} \intersect Vols
          /\ {w \in {r} \intersect Vols : Worthless(b, w) \/ Lasting(b, w)} = {r} \intersect Vols
      BY <1>1
    <2>2. {<<v \in a.probed, v \in a.full>> : v \in {r} \intersect Vols}
        = {<<v \in b.probed, v \in b.full>> : v \in {r} \intersect Vols}
      BY <1>2, SamePairs
    <2> QED
      BY <2>1, <2>2
  <1>8. {v \in a.touched : v = r /\ Lasting(a, v) /\ Worthless(a, v)}
      = {v \in b.touched : v = r /\ Lasting(b, v) /\ Worthless(b, v)}
    BY <1>1, <1>2
  <1>9. {PathRecorded(a, c) : c \in {q \in {r} : Generic(a, q) /\ LastCarrier(a, q)}}
      = {PathRecorded(b, c) : c \in {q \in {r} : Generic(b, q) /\ LastCarrier(b, q)}}
    <2>1. PathRecorded(a, r) = PathRecorded(b, r)
      BY <1>2 DEF PathRecorded
    <2>2. {q \in {r} : Generic(a, q) /\ LastCarrier(a, q)}
        = {q \in {r} : Generic(b, q) /\ LastCarrier(b, q)}
      BY <1>1
    <2>3. \A S : S \subseteq {r} => {PathRecorded(a, c) : c \in S} = {PathRecorded(b, c) : c \in S}
      BY <2>1
    <2>4. {q \in {r} : Generic(a, q) /\ LastCarrier(a, q)} \subseteq {r}
      OBVIOUS
    <2> QED
      BY <2>2, <2>3, <2>4
  <1>10. {a.checkpointed : c \in {q \in {r} \intersect Cons : Lasting(a, q) /\ MountsOf[q] # {}}}
       = {b.checkpointed : c \in {q \in {r} \intersect Cons : Lasting(b, q) /\ MountsOf[q] # {}}}
    BY <1>1, <1>2
  <1>11. {<<q \in a.reborn, q \in a.young>> : q \in {c \in {r} : Generic(a, c) /\ Inert(a, c)}}
       = {<<q \in b.reborn, q \in b.young>> : q \in {c \in {r} : Generic(b, c) /\ Inert(b, c)}}
    <2>1. /\ {c \in {r} : Generic(a, c) /\ Inert(a, c)} = {r}
          /\ {c \in {r} : Generic(b, c) /\ Inert(b, c)} = {r}
      BY <1>1
    <2>2. {<<q \in a.reborn, q \in a.young>> : q \in {r}}
        = {<<q \in b.reborn, q \in b.young>> : q \in {r}}
      BY <1>2, SamePairs
    <2> QED
      BY <2>1, <2>2
  <1> QED
    BY <1>3, <1>4, <1>5, <1>6, <1>7, <1>8, <1>9, <1>10, <1>11 DEF Facts

LEMMA SameVerdict ==
    ASSUME NEW r \in Res, NEW a, NEW b, Alike(a, b, r), TierOf(a, r) = "free"
    PROVE  Verdict(a, r) = Verdict(b, r)
  <1>1. TierOf(b, r) = "free"
    BY SameAnswers DEF TierOf, Generic
  <1> QED
    BY <1>1, SameFacts DEF Verdict

WorldTyped ==
    /\ life \in [Cons -> {"unborn", "stopped", "running", "gone"}]
    /\ touched \subseteq Vols
    /\ listing # NoReport => listing.live \subseteq Cons

Stands == Inv /\ WorldTyped /\ IndexIsOfMounts /\ SeenStands /\ PlanStands /\ CheckStands

\* Nothing is known of anything that a mishap may have touched.
LEMMA UpsetIsNotQuiet ==
    ASSUME NEW r \in Res, stirred' = Res \union Projects
    PROVE  ~Quiet(r)'
  BY DEF Quiet

\* What other people do leaves alone what it is not written down for.
LEMMA WorldLeaves ==
    ASSUME Shape, WorldTyped, WorldStep
    PROVE  /\ UNCHANGED <<index, tool>>
           /\ life' \in [Cons -> {"unborn", "stopped", "running", "gone"}]
           /\ touched' \subseteq Vols
           /\ \E S :
                  /\ stirred' = IF stage = "idle" THEN {} ELSE stirred \union S
                  /\ \A x : x \notin S =>
                         /\ x \in Cons => life'[x] = life[x]
                         /\ x \in there' <=> x \in there
                         /\ x \in full' <=> x \in full
                         /\ x \in young' <=> x \in young
                         /\ x \in touched' <=> x \in touched
                         /\ x \in reborn' <=> x \in reborn
                         /\ x \in dirs' <=> x \in dirs
  <1>1. CASE \E c \in Cons : Starts(c) \/ Stops(c)
    <2>1. PICK c \in Cons : Starts(c) \/ Stops(c)
      BY <1>1
    <2>2. /\ \E s \in {"running", "stopped"} : life' = [life EXCEPT ![c] = s]
          /\ Stirs({c}) /\ UNCHANGED <<there, full, young, touched, reborn, dirs>>
      BY <2>1 DEF Starts, Stops
    <2> QED
      BY <2>2 DEF Stirs, WorldTyped
  <1>2. CASE \E c \in Cons : Creates(c)
    <2>1. PICK c \in Cons : Creates(c)
      BY <1>2
    <2>2. PICK made :
            /\ life' = [life EXCEPT ![c] = "running"]
            /\ there' = there \union made
            /\ young' = young \union made \union {c}
            /\ reborn' = reborn \union (made \intersect Vols)
            /\ Stirs({c} \union made)
            /\ UNCHANGED <<full, touched, dirs>>
      BY <2>1 DEF Creates
    <2>3. /\ UNCHANGED <<index, tool>>
          /\ stirred' = IF stage = "idle" THEN {} ELSE stirred \union ({c} \union made)
      BY <2>2 DEF Stirs
    <2>4. /\ life' \in [Cons -> {"unborn", "stopped", "running", "gone"}]
          /\ \A x \in Cons : x # c => life'[x] = life[x]
          /\ touched' \subseteq Vols
      BY <2>2 DEF WorldTyped
    <2>5. \A x : x \notin {c} \union made =>
              /\ x \in there' <=> x \in there
              /\ x \in young' <=> x \in young
              /\ x \in reborn' <=> x \in reborn
      BY <2>2
    <2> QED
      BY <2>2, <2>3, <2>4, <2>5
  <1>3. CASE \E c \in Cons : Writes(c)
    <2>1. PICK c \in Cons : Writes(c)
      BY <1>3
    <2>2. PICK x \in {c} \union MountsOf[c] :
              /\ full' = full \union {x}
              /\ touched' = touched \union ({x} \intersect Vols)
              /\ Stirs({x}) /\ UNCHANGED <<life, there, young, reborn, dirs>>
      BY <2>1 DEF Writes
    <2> QED
      BY <2>2 DEF Stirs, WorldTyped
  <1>4. CASE \E r \in Res : Vanishes(r)
    <2>1. PICK r \in Res : Vanishes(r)
      BY <1>4
    <2>2. /\ life' = [c \in Cons |-> IF c = r THEN "gone" ELSE life[c]]
          /\ there' = there \ {r} /\ full' = full \ {r} /\ young' = young \ {r}
          /\ touched' = touched \ {r} /\ reborn' = reborn \ {r}
          /\ Stirs({r}) /\ UNCHANGED dirs
      BY <2>1 DEF Vanishes, Drops
    <2> QED
      BY <2>2 DEF Stirs, WorldTyped
  <1>5. CASE \E p \in Projects : Moves(p)
    <2>1. PICK p \in Projects : Moves(p)
      BY <1>5
    <2> QED
      BY <2>1 DEF Moves, Stirs, WorldTyped
  <1>6. CASE DayPasses
    BY <1>6 DEF DayPasses, Stirs, WorldTyped
  <1> QED
    BY <1>1, <1>2, <1>3, <1>4, <1>5, <1>6 DEF WorldStep

LEMMA ExistingCons ==
    ASSUME Shape
    PROVE  \A c \in Cons : c \in Existing <=> life[c] \in {"stopped", "running"}
  BY Kinds DEF Shape, Existing

LEMMA ExistingOthers ==
    ASSUME NEW r, r \notin Cons
    PROVE  r \in Existing <=> r \in there
  BY DEF Existing

\* What a report at once would say of the quiet stays.
LEMMA WorldStands ==
    ASSUME Stands, WorldStep, Shape', stage # "idle", NEW r \in Res, Quiet(r)'
    PROVE  /\ Quiet(r)
           /\ \A c \in Cons : Matters(c, r) =>
                  (c \in Existing <=> c \in Existing') /\ (c \in Running <=> c \in Running')
           /\ r \in Existing <=> r \in Existing'
           /\ r \in there <=> r \in there'
           /\ r \in full <=> r \in full'
           /\ r \in young <=> r \in young'
           /\ r \in touched <=> r \in touched'
           /\ r \in reborn <=> r \in reborn'
           /\ LabelOf[r] \in dirs <=> LabelOf[r] \in dirs'
           /\ LabelOf[r] # NoProject =>
                  (LabelOf[r] \in Sight.located <=> LabelOf[r] \in Sight'.located)
           /\ Alike(Sight, Sight', r)
  <1>1. PICK S :
            /\ stirred' = stirred \union S
            /\ \A x : x \notin S =>
                   /\ x \in Cons => life'[x] = life[x]
                   /\ x \in there' <=> x \in there
                   /\ x \in full' <=> x \in full
                   /\ x \in young' <=> x \in young
                   /\ x \in touched' <=> x \in touched
                   /\ x \in reborn' <=> x \in reborn
                   /\ x \in dirs' <=> x \in dirs
    BY WorldLeaves DEF Stands, Inv
  <1>2. r \notin S /\ LabelOf[r] \notin S /\ \A c \in Cons : Matters(c, r) => c \notin S
    BY <1>1 DEF Quiet
  <1>3. /\ r \in there <=> r \in there'
        /\ r \in full <=> r \in full'
        /\ r \in young <=> r \in young'
        /\ r \in touched <=> r \in touched'
        /\ r \in reborn <=> r \in reborn'
        /\ LabelOf[r] \in dirs <=> LabelOf[r] \in dirs'
    BY <1>1, <1>2
  <1>4. Quiet(r)
    BY <1>1, <1>3 DEF Quiet
  <1>5. \A c \in Cons : c \notin S =>
            (c \in Existing <=> c \in Existing') /\ (c \in Running <=> c \in Running')
    <2>1. \A c \in Cons : c \in Existing' <=> life'[c] \in {"stopped", "running"}
      BY Kinds DEF Shape, Existing
    <2> QED
      BY <1>1, <2>1, ExistingCons DEF Running, Stands, Inv
  <1>6. r \in Existing <=> r \in Existing'
    <2>1. CASE r \in Cons
      BY <1>2, <1>5, <2>1
    <2>2. CASE r \notin Cons
      BY <1>3, <2>2, ExistingOthers DEF Existing
    <2> QED
      BY <2>1, <2>2
  <1>7. LabelOf[r] # NoProject =>
            (LabelOf[r] \in Sight.located <=> LabelOf[r] \in Sight'.located)
    <2>1. UNCHANGED newest
      BY WorldLeaves DEF Stands, Inv, index
    <2>2. \A c \in Carriers : LabelOf[c] = LabelOf[r] /\ LabelOf[r] # NoProject
              => (c \in Existing <=> c \in Existing')
      BY <1>2, <1>5, Labels DEF Matters
    <2>3. LabelOf[r] \in Rooted \intersect dirs <=> LabelOf[r] \in Rooted \intersect dirs'
      BY <1>3
    <2> QED
      BY <2>1, <2>2, <2>3 DEF Sight, Located
  <1>8. touched \subseteq Vols /\ touched' \subseteq Vols
    BY WorldLeaves DEF Stands, Inv, WorldTyped
  <1>9. LabelOf[r] = NoProject \/ (LabelOf[r] \in dirs /\ LabelOf[r] \in dirs')
    BY <1>4 DEF Quiet
  <1>10. Alike(Sight, Sight', r)
    BY <1>2, <1>3, <1>5, <1>6, <1>7, <1>8, <1>9 DEF Alike, Sight, Running
  <1> QED
    BY <1>2, <1>3, <1>4, <1>5, <1>6, <1>7, <1>10

LEMMA WorldStepStands ==
    ASSUME Stands, WorldStep
    PROVE  Stands'
  <1>1. Inv'
    BY WorldKeeps DEF Stands
  <1>2. /\ UNCHANGED <<newest, misses, stage, df, listing, plan, fresh, todo>>
        /\ life' \in [Cons -> {"unborn", "stopped", "running", "gone"}]
        /\ touched' \subseteq Vols
    BY WorldLeaves DEF Stands, Inv, index, tool
  <1>3. WorldTyped' /\ IndexIsOfMounts'
    BY <1>2 DEF Stands, WorldTyped, IndexIsOfMounts
  <1>4. ASSUME NEW r \in Res, Quiet(r)', stage # "idle"
        PROVE  /\ Quiet(r)
               /\ \A c \in Cons : Matters(c, r) =>
                      (c \in Existing <=> c \in Existing') /\ (c \in Running <=> c \in Running')
               /\ r \in Existing <=> r \in Existing'
               /\ r \in there <=> r \in there'
               /\ r \in full <=> r \in full'
               /\ r \in young <=> r \in young'
               /\ r \in reborn <=> r \in reborn'
               /\ LabelOf[r] # NoProject =>
                      (LabelOf[r] \in Sight.located <=> LabelOf[r] \in Sight'.located)
               /\ Alike(Sight, Sight', r)
    BY <1>1, <1>4, WorldStands DEF Inv
  <1>5. SeenStands'
    <2> SUFFICES ASSUME Scanning, NEW r \in Res, Quiet(r)'
                 PROVE  /\ df # NoReport /\ r \in Cons =>
                             /\ r \in df.measured <=> r \in Existing'
                             /\ r \in df.full <=> r \in full'
                        /\ listing # NoReport =>
                             /\ \A c \in Cons : Matters(c, r) =>
                                    /\ c \in listing.cons <=> c \in Existing'
                                    /\ c \in listing.live <=> c \in Running'
                             /\ r \in listing.there <=> r \in there'
                             /\ r \in listing.young <=> r \in young'
                             /\ r \in listing.reborn <=> r \in reborn'
      BY <1>2 DEF SeenStands, Scanning
    <2>1. stage # "idle"
      BY DEF Scanning
    <2> QED
      BY <1>4, <2>1 DEF Stands, SeenStands
  <1>6. PlanStands'
    <2> SUFFICES ASSUME stage \in {"planned", "checking"}, NEW r \in Res, Quiet(r)',
                        plan[r] # NoVerdict, plan[r].tier = "free"
                 PROVE  r \in Existing' /\ plan[r] = Verdict(Sight, r)'
      BY <1>2 DEF PlanStands
    <2>1. r \in Existing /\ plan[r] = Verdict(Sight, r)
      BY <1>4 DEF Stands, PlanStands
    <2>2. TierOf(Sight, r) = "free"
      BY <2>1 DEF Verdict
    <2>3. Verdict(Sight, r) = Verdict(Sight', r)
      BY <1>4, <2>2, SameVerdict
    <2> QED
      BY <1>4, <2>1, <2>3
  <1>7. CheckStands'
    <2> SUFFICES ASSUME stage = "applying", NEW r \in todo, Quiet(r)'
                 PROVE  Fresh(r)' \/ (r \in Vols /\ PlaceIsOverwritten(r)')
      BY <1>2 DEF CheckStands
    <2>1. r \in Res
      BY DEF Stands, Inv, Shape
    <2>2. Quiet(r)
      BY <1>4, <2>1
    <2>3. Fresh(r) \/ (r \in Vols /\ PlaceIsOverwritten(r))
      BY <2>2 DEF Stands, CheckStands
    <2>4. PlaceIsOverwritten(r) => PlaceIsOverwritten(r)'
      <3>1. PlaceIsOverwritten(r) => LabelOf[r] # NoProject
        BY Labels DEF PlaceIsOverwritten
      <3>2. /\ Locatable(LabelOf[r]) <=> LabelOf[r] \in Sight.located
            /\ Locatable(LabelOf[r])' <=> LabelOf[r] \in Sight'.located
        BY DEF Locatable, Sight
      <3> QED
        BY <1>2, <1>4, <2>1, <3>1, <3>2 DEF PlaceIsOverwritten, RecalledByOther
    <2> QED
      BY <1>2, <2>3, <2>4 DEF Fresh
  <1> QED
    BY <1>1, <1>3, <1>5, <1>6, <1>7 DEF Stands

\* The tool's own steps up to a report.
LEMMA ScanStands ==
    ASSUME Stands, Begins \/ Measures \/ Lists \/ SizingFails
    PROVE  Stands'
  <1>1. Inv'
    BY BeginsKeeps, ScansKeep DEF Stands
  <1>2. /\ UNCHANGED <<life, there, full, young, touched, reborn, dirs, newest, misses>>
        /\ UNCHANGED <<plan, fresh, todo>>
    BY DEF Begins, Measures, Lists, SizingFails, world, index
  <1>3. WorldTyped' /\ IndexIsOfMounts'
    <2>1. UNCHANGED listing \/ listing'.live \subseteq Cons
      BY DEF Begins, Measures, Lists, SizingFails
    <2> QED
      BY <1>2, <2>1 DEF Stands, WorldTyped, IndexIsOfMounts
  <1>4. stage' \in {"planning", "checking"}
    BY DEF Begins, Measures, Lists, SizingFails, Scanning
  <1>5. CheckStands'
    BY <1>4 DEF CheckStands
  <1>6. CASE Begins
    <2>1. /\ df' = NoReport /\ listing' = NoReport
          /\ stage' = "planning" \/ (stage = "planned" /\ UNCHANGED stirred)
      BY <1>6 DEF Begins, Stands, Inv, Shape, Scanning
    <2>2. SeenStands'
      BY <2>1 DEF SeenStands
    <2>3. PlanStands'
      BY <1>2, <2>1 DEF Stands, PlanStands, Quiet, Sight, Existing, Running, Located
    <2> QED
      BY <1>1, <1>3, <1>5, <2>2, <2>3 DEF Stands
  <1>7. CASE SizingFails
    <2>1. stirred' = Res \union Projects
      BY <1>7 DEF SizingFails, Upset
    <2> QED
      BY <1>1, <1>3, <1>5, <2>1, UpsetIsNotQuiet DEF Stands, SeenStands, PlanStands
  <1>8. CASE Measures \/ Lists
    <2>1. UNCHANGED <<stage, stirred>> /\ Scanning
      BY <1>8 DEF Measures, Lists, history
    <2>2. PlanStands'
      BY <1>2, <2>1 DEF Stands, PlanStands, Quiet, Sight, Existing, Running, Located
    <2>3. \A r : Quiet(r)' <=> Quiet(r)
      BY <1>2, <2>1 DEF Quiet
    <2>4. UNCHANGED <<Existing, Running>>
      BY <1>2 DEF Existing, Running
    <2>5. SeenStands'
      <3>1. CASE Measures
        <4>1. df' = [measured |-> Existing \intersect Cons, full |-> full \intersect Cons]
              /\ UNCHANGED listing
          BY <3>1 DEF Measures
        <4> QED
          BY <1>2, <2>1, <2>3, <2>4, <4>1 DEF Stands, SeenStands
      <3>2. CASE Lists
        <4>1. /\ listing' = [cons |-> Existing \intersect Cons, live |-> Running,
                             there |-> there, young |-> young, reborn |-> reborn]
              /\ UNCHANGED df
          BY <3>2 DEF Lists, Running
        <4> QED
          BY <1>2, <2>1, <2>3, <2>4, <4>1 DEF Stands, SeenStands
      <3> QED
        BY <1>8, <3>1, <3>2
    <2> QED
      BY <1>1, <1>3, <1>5, <2>2, <2>5 DEF Stands
  <1> QED
    BY <1>6, <1>7, <1>8

\* What a scan that goes well judges by.
Found ==
    [cons |-> listing.cons, live |-> listing.live, there |-> listing.there, df |-> df,
     young |-> listing.young, reborn |-> listing.reborn,
     probed |-> there \intersect Vols, full |-> full \intersect Vols, touched |-> touched,
     checkpointed |-> TRUE, dirs |-> dirs, misses |-> misses',
     located |-> Located(ListedCarriers, newest')]

LEMMA JudgesWellBy ==
    ASSUME JudgesWell
    PROVE  /\ Scanning /\ df # NoReport /\ listing # NoReport
           /\ df' = NoReport /\ listing' = NoReport
           /\ newest' \in [Vols -> Cons \union {Nobody}] /\ Remembers(newest')
           /\ UNCHANGED <<life, there, full, young, touched, reborn, dirs, stirred>>
           /\ \/ /\ stage = "planning" /\ stage' = "planned"
                 /\ plan' = Verdicts(Found) /\ UNCHANGED <<fresh, todo>>
              \/ /\ stage = "checking" /\ stage' = "applying"
                 /\ fresh' = Verdicts(Found) /\ UNCHANGED plan
                 /\ todo' = {r \in Res : plan[r] # NoVerdict /\ plan[r].tier = "free"}
  BY DEF JudgesWell, Judges, Found, world, history

\* Who is remembered had what it is remembered by.
LEMMA IndexStays ==
    ASSUME Shape, IndexIsOfMounts, listing # NoReport, Remembers(newest')
    PROVE  IndexIsOfMounts'
  <1> SUFFICES ASSUME NEW v \in Vols, newest'[v] # Nobody
               PROVE  /\ newest'[v] \in Cons /\ v \in MountsOf[newest'[v]]
                      /\ LabelOf[newest'[v]] # NoProject
    BY DEF IndexIsOfMounts
  <1> DEFINE holders == {c \in Holders(listing, v) : LabelOf[c] # NoProject}
  <1>1. CASE holders = {}
    BY <1>1 DEF Remembers, IndexIsOfMounts
  <1>2. CASE holders # {}
    <2>1. newest'[v] \in Holders(listing, v) /\ LabelOf[newest'[v]] # NoProject
      BY <1>2 DEF Remembers
    <2>2. newest'[v] \in Cons
      BY <2>1 DEF Holders, Shape
    <2> QED
      BY <2>1, <2>2, Mounting
  <1> QED
    BY <1>1, <1>2

\* What the index says of a project's place it goes on saying, or it was
\* overwritten by others who mount the volume.
LEMMA PlacesStay ==
    ASSUME Shape, IndexIsOfMounts, listing # NoReport, Remembers(newest'),
           NEW v \in Vols, NEW b \in Carriers, newest[v] = b
    PROVE  /\ v \in MountsOf[b]
           /\ \/ newest'[v] \in Carriers /\ LabelOf[newest'[v]] = LabelOf[b]
              \/ RecalledByOther(v, b)'
  <1>1. b \in Cons /\ v \in MountsOf[b]
    BY TierAssumption DEF IndexIsOfMounts
  <1> DEFINE holders == {c \in Holders(listing, v) : LabelOf[c] # NoProject}
  <1>2. CASE holders = {}
    BY <1>1, <1>2 DEF Remembers
  <1>3. CASE holders # {}
    <2>1. newest'[v] \in Holders(listing, v)
      BY <1>3 DEF Remembers
    <2>2. newest'[v] \in Cons
      BY <2>1 DEF Holders, Shape
    <2>3. v \in MountsOf[newest'[v]]
      BY <2>1, <2>2, Mounting
    <2> QED
      BY <1>1, <2>2, <2>3 DEF RecalledByOther
  <1> QED
    BY <1>2, <1>3

\* The report a scan ends with says of the quiet what one at once would.
LEMMA FoundIsSight ==
    ASSUME Stands, JudgesWell, NEW r \in Res, Quiet(r)
    PROVE  /\ Alike(Found, Sight', r)
           /\ Alike(Sight, Found, r) \/ (r \in Vols /\ PlaceIsOverwritten(r)')
           /\ r \in Listed(Found) <=> r \in Existing
  <1>1. /\ Scanning /\ df # NoReport /\ listing # NoReport /\ Remembers(newest')
        /\ UNCHANGED <<life, there, full, young, touched, reborn, dirs>>
    BY JudgesWellBy
  <1>2. UNCHANGED <<Existing, Running>>
    BY <1>1 DEF Existing, Running
  <1>3. /\ r \in Cons => (r \in df.measured <=> r \in Existing) /\ (r \in df.full <=> r \in full)
        /\ \A c \in Cons : Matters(c, r) =>
               (c \in listing.cons <=> c \in Existing) /\ (c \in listing.live <=> c \in Running)
        /\ (r \in listing.there <=> r \in there)
        /\ (r \in listing.young <=> r \in young) /\ (r \in listing.reborn <=> r \in reborn)
    BY <1>1 DEF Stands, SeenStands
  <1>4. /\ listing.cons \subseteq Cons /\ listing.live \subseteq Cons
        /\ listing.there \subseteq Vols \union Imgs \union Nets /\ touched \subseteq Vols
    BY <1>1 DEF Stands, Inv, Shape, WorldTyped
  <1>5. LabelOf[r] = NoProject \/ LabelOf[r] \in dirs
    BY DEF Quiet
  <1>6. \A c \in Carriers : LabelOf[c] = LabelOf[r] /\ LabelOf[r] # NoProject =>
            (c \in listing.cons <=> c \in Existing)
    BY <1>3, Labels DEF Matters
  <1>7. LabelOf[r] # NoProject =>
            (LabelOf[r] \in Found.located <=> LabelOf[r] \in Sight'.located)
    BY <1>1, <1>2, <1>6 DEF Found, Sight, Located, ListedCarriers
  <1>8. Alike(Found, Sight', r)
    BY <1>1, <1>2, <1>3, <1>4, <1>5, <1>7 DEF Alike, Found, Sight, Running
  <1>9. ASSUME LabelOf[r] # NoProject, LabelOf[r] \in Sight.located,
               LabelOf[r] \notin Found.located
        PROVE  PlaceIsOverwritten(r)'
    <2>1. ~Locatable(LabelOf[r])'
      BY <1>7, <1>9 DEF Locatable, Sight
    <2>2. PICK v \in Vols : newest[v] \in Carriers /\ LabelOf[newest[v]] = LabelOf[r]
      BY <1>6, <1>9 DEF Found, Sight, Located, ListedCarriers
    <2>3. PICK b \in Carriers : newest[v] = b /\ LabelOf[b] = LabelOf[r]
      BY <2>2
    <2>4. /\ v \in MountsOf[b]
          /\ \/ newest'[v] \in Carriers /\ LabelOf[newest'[v]] = LabelOf[b]
             \/ RecalledByOther(v, b)'
      BY <1>1, <2>3, PlacesStay DEF Stands, Inv
    <2>5. ~(newest'[v] \in Carriers /\ LabelOf[newest'[v]] = LabelOf[b])
      BY <1>9, <2>3 DEF Found, Located
    <2> QED
      BY <2>1, <2>3, <2>4, <2>5 DEF PlaceIsOverwritten
  <1>10. Alike(Sight, Found, r) \/ (r \in Vols /\ PlaceIsOverwritten(r)')
    BY <1>1, <1>2, <1>3, <1>4, <1>5, <1>9 DEF Alike, Found, Sight, Running
  <1>11. r \in Listed(Found) <=> r \in Existing
    <2>1. CASE r \in Cons
      BY <1>3, <1>4, <2>1, Kinds DEF Found, Listed, Matters
    <2>2. CASE r \notin Cons
      BY <1>3, <1>4, <2>2, ExistingOthers DEF Found, Listed
    <2> QED
      BY <2>1, <2>2
  <1> QED
    BY <1>8, <1>10, <1>11

LEMMA JudgeStands ==
    ASSUME Stands, JudgesWell \/ JudgesBadly
    PROVE  Stands'
  <1>1. Inv'
    <2>1. stage = "planning" \/ stage = "checking"
      BY DEF JudgesWell, JudgesBadly, Judges, Scanning
    <2> QED
      BY <2>1, PlansMisses, ChecksVerdicts DEF Stands
  <1>2. WorldTyped' /\ IndexIsOfMounts' /\ SeenStands'
    <2>1. /\ listing # NoReport /\ listing' = NoReport /\ UNCHANGED <<life, touched>>
          /\ stage' \in {"planned", "applying"}
          /\ Remembers(newest') \/ newest' = newest
      BY DEF JudgesWell, JudgesBadly, Judges, world
    <2>2. IndexIsOfMounts'
      BY <2>1, IndexStays DEF Stands, Inv, IndexIsOfMounts
    <2> QED
      BY <2>1, <2>2 DEF Stands, WorldTyped, SeenStands, Scanning
  <1>3. CASE JudgesBadly
    <2>1. stirred' = Res \union Projects
      BY <1>3 DEF JudgesBadly, Upset
    <2>2. todo' \subseteq Res
      BY <1>1 DEF Inv, Shape
    <2> QED
      BY <1>1, <1>2, <2>1, <2>2, UpsetIsNotQuiet DEF Stands, PlanStands, CheckStands
  <1>4. CASE JudgesWell
    <2>1. /\ UNCHANGED <<life, there, full, young, touched, reborn, dirs, stirred>>
          /\ \/ /\ stage = "planning" /\ stage' = "planned"
                /\ plan' = Verdicts(Found) /\ UNCHANGED <<fresh, todo>>
             \/ /\ stage = "checking" /\ stage' = "applying"
                /\ fresh' = Verdicts(Found) /\ UNCHANGED plan
                /\ todo' = {r \in Res : plan[r] # NoVerdict /\ plan[r].tier = "free"}
      BY <1>4, JudgesWellBy
    <2>2. \A r : Quiet(r)' <=> Quiet(r)
      BY <2>1 DEF Quiet
    <2>3. UNCHANGED Existing
      BY <2>1 DEF Existing
    <2>4. PlanStands'
      <3> SUFFICES ASSUME stage' = "planned", NEW r \in Res, Quiet(r),
                          plan'[r] # NoVerdict, plan'[r].tier = "free"
                   PROVE  r \in Existing' /\ plan'[r] = Verdict(Sight', r)
        BY <2>1, <2>2 DEF PlanStands
      <3>1. plan' = Verdicts(Found)
        BY <2>1
      <3>2. r \in Listed(Found) /\ plan'[r] = Verdict(Found, r)
        BY <3>1 DEF Verdicts
      <3>3. TierOf(Found, r) = "free"
        BY <3>2 DEF Verdict
      <3>4. Alike(Found, Sight', r) /\ r \in Existing
        BY <1>4, <3>2, FoundIsSight
      <3>5. Verdict(Found, r) = Verdict(Sight', r)
        BY <3>3, <3>4, SameVerdict
      <3> QED
        BY <2>3, <3>2, <3>4, <3>5
    <2>5. CheckStands'
      <3> SUFFICES ASSUME stage' = "applying", NEW r \in todo', Quiet(r)
                   PROVE  Fresh(r)' \/ (r \in Vols /\ PlaceIsOverwritten(r)')
        BY <2>2 DEF CheckStands
      <3>1. /\ stage = "checking" /\ fresh' = Verdicts(Found) /\ plan' = plan
            /\ r \in Res /\ plan[r] # NoVerdict /\ plan[r].tier = "free"
        BY <2>1
      <3>2. r \in Existing /\ plan[r] = Verdict(Sight, r)
        BY <3>1 DEF Stands, PlanStands
      <3>3. TierOf(Sight, r) = "free"
        BY <3>1, <3>2 DEF Verdict
      <3> SUFFICES ASSUME ~(r \in Vols /\ PlaceIsOverwritten(r)')
                   PROVE  Fresh(r)'
        OBVIOUS
      <3>4. Alike(Sight, Found, r) /\ r \in Listed(Found)
        BY <1>4, <3>1, <3>2, FoundIsSight
      <3>5. Verdict(Sight, r) = Verdict(Found, r)
        BY <3>1, <3>3, <3>4, SameVerdict
      <3>6. fresh'[r] = Verdict(Found, r)
        BY <3>1, <3>4 DEF Verdicts
      <3> QED
        BY <3>1, <3>2, <3>5, <3>6 DEF Fresh
    <2> QED
      BY <1>1, <1>2, <2>4, <2>5 DEF Stands
  <1> QED
    BY <1>3, <1>4

LEMMA RestStands ==
    ASSUME Stands,
           \/ \E x \in Res : Removes(x) \/ Leaves(x)
           \/ Ends \/ Abandons \/ UNCHANGED vars
    PROVE  Stands'
  <1>1. Inv'
    <2>1. CASE \E x \in Res : Removes(x) \/ Leaves(x)
      BY <2>1, RemovesKeep DEF Stands
    <2>2. CASE Ends \/ Abandons
      BY <2>2, EndsKeep DEF Stands
    <2>3. CASE UNCHANGED vars
      BY <2>3, InvStep DEF Stands
    <2> QED
      BY <2>1, <2>2, <2>3
  <1>2. CASE \E x \in Res : Removes(x) \/ Leaves(x)
    <2>1. /\ stage = "applying" /\ todo' \subseteq todo
          /\ UNCHANGED <<newest, stage, dirs, df, listing, plan, fresh, stirred>>
          /\ UNCHANGED life \/ \E x : life' = [c \in Cons |-> IF c = x THEN "gone" ELSE life[c]]
          /\ touched' \subseteq touched
      BY <1>2 DEF Removes, Leaves, Drops, Turn, world, index, history
    <2>2. WorldTyped' /\ IndexIsOfMounts'
      BY <2>1 DEF Stands, WorldTyped, IndexIsOfMounts
    <2>3. SeenStands' /\ PlanStands'
      BY <2>1 DEF SeenStands, PlanStands, Scanning
    <2>4. CheckStands'
      <3>1. Existing' \subseteq Existing
        <4>1. there' \subseteq there
          BY <1>2 DEF Removes, Leaves, Drops, world
        <4> QED
          BY <2>1, <4>1 DEF Existing
      <3>2. \A r : PlaceIsOverwritten(r) => PlaceIsOverwritten(r)'
        BY <2>1, <3>1 DEF PlaceIsOverwritten, RecalledByOther, Locatable, Located
      <3>3. \A r : Quiet(r)' => Quiet(r)
        BY <2>1 DEF Quiet
      <3> QED
        BY <2>1, <3>2, <3>3 DEF Stands, CheckStands, Fresh
    <2> QED
      BY <1>1, <2>2, <2>3, <2>4 DEF Stands
  <1>3. CASE Ends \/ Abandons
    <2>1. stage' = "idle" /\ listing' = NoReport /\ UNCHANGED <<life, touched, newest>>
      BY <1>3 DEF Ends, Abandons, Forgets, world, index
    <2> QED
      BY <1>1, <2>1 DEF Stands, WorldTyped, IndexIsOfMounts, SeenStands, PlanStands, CheckStands,
                        Scanning
  <1>4. CASE UNCHANGED vars
    <2>1. /\ UNCHANGED <<life, there, full, young, touched, reborn, dirs, newest, misses>>
          /\ UNCHANGED <<stage, df, listing, plan, fresh, todo, stirred>>
      BY <1>4 DEF vars, world, index, tool, history
    <2>2. UNCHANGED <<Existing, Running, Sight>> /\ \A r : Quiet(r)' <=> Quiet(r)
      BY <2>1 DEF Existing, Running, Sight, Quiet, Located
    <2>3. WorldTyped' /\ IndexIsOfMounts' /\ SeenStands'
      BY <2>1, <2>2 DEF Stands, WorldTyped, IndexIsOfMounts, SeenStands, Scanning
    <2>4. \A r : PlaceIsOverwritten(r)' <=> PlaceIsOverwritten(r)
      BY <2>1, <2>2 DEF PlaceIsOverwritten, RecalledByOther, Locatable, Located
    <2>5. PlanStands' /\ CheckStands'
      BY <2>1, <2>2, <2>4 DEF Stands, PlanStands, CheckStands, Fresh
    <2> QED
      BY <1>1, <2>3, <2>5 DEF Stands
  <1> QED
    BY <1>2, <1>3, <1>4

LEMMA StandsInit == Init => Stands
  <1> SUFFICES ASSUME Init PROVE Stands
    OBVIOUS
  <1>1. life \in [Cons -> {"unborn", "stopped", "running"}]
    BY TierAssumption DEF Init
  <1>2. /\ touched = {} /\ listing = NoReport /\ stage = "idle"
        /\ newest = [v \in Vols |-> Nobody]
    BY DEF Init
  <1>3. WorldTyped /\ IndexIsOfMounts /\ SeenStands /\ PlanStands /\ CheckStands
    BY <1>1, <1>2 DEF WorldTyped, IndexIsOfMounts, SeenStands, PlanStands, CheckStands, Scanning
  <1> QED
    BY <1>3, InvInit DEF Stands

LEMMA StandsStep == Stands /\ [Next]_vars => Stands'
  <1> SUFFICES ASSUME Stands, [Next]_vars PROVE Stands'
    OBVIOUS
  <1>1. CASE WorldStep
    BY <1>1, WorldStepStands
  <1>2. CASE ToolStep
    BY <1>2, ScanStands, JudgeStands, RestStands DEF ToolStep
  <1>3. CASE Mishap
    BY <1>3, ScanStands, JudgeStands, RestStands DEF Mishap
  <1>4. CASE UNCHANGED vars
    BY <1>4, RestStands
  <1> QED
    BY <1>1, <1>2, <1>3, <1>4 DEF Next

\* A verdict of the plan is lost only to what was done to the item, what holds
\* it, what tells of its project or the project itself.  Where projects share a
\* volume, any of them may be the one the index recalls, and the verdict on
\* another volume of the one it no longer does goes with nothing touched.
THEOREM OnlyReadFactsCancel == Spec => OnlyWhatWasReadCancels
  <1>1. Stands /\ [Next]_vars => [\A r \in Res :
            Leaves(r) /\ ~Fresh(r)
                => \/ r \in stirred \/ LabelOf[r] \in stirred
                   \/ \E c \in stirred \intersect Cons :
                          \/ r \in Needs(c)
                          \/ LabelOf[c] = LabelOf[r] /\ LabelOf[c] # NoProject
                   \/ LabelOf[r] \notin dirs \union {NoProject}
                   \/ r \in Vols /\ PlaceIsOverwritten(r)]_vars
    <2> SUFFICES ASSUME Stands, NEW r \in Res, Leaves(r), ~Fresh(r)
                 PROVE  \/ r \in stirred \/ LabelOf[r] \in stirred
                        \/ \E c \in stirred \intersect Cons :
                               \/ r \in Needs(c)
                               \/ LabelOf[c] = LabelOf[r] /\ LabelOf[c] # NoProject
                        \/ LabelOf[r] \notin dirs \union {NoProject}
                        \/ r \in Vols /\ PlaceIsOverwritten(r)
      OBVIOUS
    <2>1. ~Quiet(r) \/ (r \in Vols /\ PlaceIsOverwritten(r))
      BY DEF Leaves, Turn, Stands, CheckStands
    <2> QED
      BY <2>1 DEF Quiet, Matters
  <1> QED
    BY StandsInit, StandsStep, <1>1, PTL DEF Spec, OnlyWhatWasReadCancels

-----------------------------------------------------------------------------
(* The shape of the state.                                                 *)

LEMMA TierOfIsTier == ASSUME NEW rep, NEW r PROVE TierOf(rep, r) \in Tiers
  <1>1. ImageTier(rep, r) \in Tiers
    <2>1. CASE Holders(rep, r) # {}
      BY <2>1 DEF ImageTier, Tiers
    <2>2. CASE Holders(rep, r) = {} /\ RouteOf[r] = "pull"
      BY <2>2 DEF ImageTier, Tiers
    <2>3. CASE Holders(rep, r) = {} /\ RouteOf[r] = "build"
      BY <2>3 DEF ImageTier, Tiers
    <2>4. CASE Holders(rep, r) = {} /\ RouteOf[r] \notin {"pull", "build"}
      BY <2>4 DEF ImageTier, Tiers
    <2> QED
      BY <2>1, <2>2, <2>3, <2>4
  <1> QED
    BY <1>1 DEF TierOf, Tiers

LEMMA VerdictsAreTyped ==
    ASSUME NEW rep
    PROVE  \A r \in Res : Verdicts(rep)[r] = NoVerdict \/ Verdicts(rep)[r].tier \in Tiers
  BY TierOfIsTier DEF Verdicts, Verdict

LEMMA TypeInit == Init => TypeOK
  <1> SUFFICES ASSUME Init PROVE TypeOK
    OBVIOUS
  <1>1. life \in [Cons -> {"unborn", "stopped", "running", "gone"}]
    BY TierAssumption DEF Init
  <1>2. /\ there \in SUBSET (Vols \union Imgs \union Nets)
        /\ full \in SUBSET (Cons \union Vols)
    BY DEF Init
  <1>3. misses \in [Projects -> 0..MinAbsentScans] /\ events \in 0..MaxEvents
    BY TierAssumption DEF Init
  <1> QED
    BY <1>1, <1>2, <1>3 DEF Init, TypeOK, Unjudged

LEMMA TypeStep == TypeOK /\ [Next]_vars => TypeOK'
  <1> SUFFICES ASSUME TypeOK, [Next]_vars PROVE TypeOK'
    OBVIOUS
  <1> USE DEF TypeOK
  <1>1. CASE Begins
    BY <1>1 DEF Begins, world, index
  <1>2. CASE Measures
    BY <1>2 DEF Measures, world, index, history, Dfs
  <1>3. CASE Lists
    BY <1>3 DEF Lists, world, index, history
  <1>4. ASSUME NEW recorded \in BOOLEAN, NEW counted \in BOOLEAN, NEW probing \in BOOLEAN,
               Judges(recorded, counted, probing), events' \in 0..MaxEvents
        PROVE  TypeOK'
    <2>1. newest' \in [Vols -> Cons \union {Nobody}] /\ UNCHANGED world
      BY <1>4 DEF Judges
    <2>2. misses' \in [Projects -> 0..MinAbsentScans]
      <3>1. \A p \in Projects : Counted(p) \in 0..MinAbsentScans
        BY TierAssumption DEF Counted
      <3> QED
        BY <1>4, <3>1 DEF Judges
    <2>3. PICK rep :
              \/ stage' = "planned" /\ plan' = Verdicts(rep) /\ UNCHANGED <<fresh, todo>>
                     /\ stage = "planning"
              \/ stage' = "applying" /\ UNCHANGED plan
                     /\ todo' = {r \in Res : plan[r] # NoVerdict /\ plan[r].tier = "free"}
      BY <1>4 DEF Judges
    <2>4. \A r \in Res : plan'[r] = NoVerdict \/ plan'[r].tier \in Tiers
      BY <2>3, VerdictsAreTyped
    <2>5. df' = NoReport
      BY <1>4 DEF Judges
    <2> QED
      BY <1>4, <2>1, <2>2, <2>3, <2>4, <2>5 DEF world
  <1>5. CASE JudgesWell
    BY <1>4, <1>5 DEF JudgesWell, history
  <1>6. CASE JudgesBadly
    BY <1>4, <1>6, TierAssumption DEF JudgesBadly, Upset
  <1>7. CASE SizingFails
    BY <1>7, TierAssumption DEF SizingFails, Upset, Unsized, Dfs, world, index
  <1>8. ASSUME NEW r \in Res, Drops(r)
        PROVE  /\ life' \in [Cons -> {"unborn", "stopped", "running", "gone"}]
               /\ there' \in SUBSET (Vols \union Imgs \union Nets)
               /\ full' \in SUBSET (Cons \union Vols)
               /\ young' \in SUBSET Res /\ touched' \in SUBSET Vols /\ reborn' \in SUBSET Vols
    BY <1>8 DEF Drops
  <1>9. ASSUME NEW r \in Res, Removes(r) \/ Leaves(r) PROVE TypeOK'
    BY <1>8, <1>9 DEF Removes, Leaves, index, world, history
  <1>10. CASE Ends \/ Abandons
    BY <1>10, TierAssumption DEF Ends, Abandons, Forgets, Unjudged, world, index
  <1>11. ASSUME NEW S, Stirs(S)
         PROVE  UNCHANGED <<index, tool>> /\ events' \in 0..MaxEvents
    BY <1>11, TierAssumption DEF Stirs
  <1>12. ASSUME NEW c \in Cons, Starts(c) \/ Stops(c) PROVE TypeOK'
    BY <1>11, <1>12 DEF Starts, Stops, index, tool
  <1>13. ASSUME NEW c \in Cons, Creates(c) PROVE TypeOK'
    <2>1. Needs(c) \subseteq Vols \union Imgs \union Nets
      BY TierAssumption DEF Needs
    <2> QED
      BY <1>11, <1>13, <2>1 DEF Creates, Res, index, tool
  <1>14. ASSUME NEW c \in Cons, Writes(c) PROVE TypeOK'
    <2>1. MountsOf[c] \subseteq Vols
      BY TierAssumption
    <2> QED
      BY <1>11, <1>14, <2>1 DEF Writes, index, tool
  <1>15. ASSUME NEW r \in Res, Vanishes(r) PROVE TypeOK'
    BY <1>8, <1>11, <1>15 DEF Vanishes, index, tool
  <1>16. ASSUME NEW p \in Projects, Moves(p) PROVE TypeOK'
    BY <1>11, <1>16 DEF Moves, index, tool
  <1>17. CASE DayPasses
    BY <1>11, <1>17 DEF DayPasses, index, tool
  <1>18. CASE UNCHANGED vars
    BY <1>18 DEF vars, world, index, tool, history
  <1> QED
    BY <1>1, <1>2, <1>3, <1>5, <1>6, <1>7, <1>9, <1>10, <1>12, <1>13, <1>14, <1>15, <1>16,
       <1>17, <1>18
       DEF Next, ToolStep, Mishap, WorldStep

\* The engine, the index, the reports and the verdicts keep their shape.
THEOREM TypeCorrect == Spec => []TypeOK
  BY TypeInit, TypeStep, PTL DEF Spec
=============================================================================
