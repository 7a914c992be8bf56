--------------------------- MODULE ExecutorProofs ---------------------------
(***************************************************************************)
(* What Executor promises, proved for every plan, every daemon and every   *)
(* set of options: what it removes, what is left in the vault and on the   *)
(* receipt when a run is over, and that it implements SafeRemoval.         *)
(***************************************************************************)
EXTENDS Executor, TLAPS

\* The stages at which the process is busy with one accepted item.
Storing == {"preserve", "dumping", "storing"}
Busy == Storing \union {"remove", "await"}

LEMMA CurIsRes ==
    ASSUME pos \in 1..Len(Order)
    PROVE  Cur \in Res
  BY OrderAssumption DEF Cur

\* A position at which an item can be busy is a position of the plan.
PosInv == pc \in Busy => pos \in 1..Len(Order)

LEMMA TypeInit == Init => TypeOK /\ PosInv
  <1> SUFFICES ASSUME Init PROVE TypeOK /\ PosInv
    OBVIOUS
  <1>1. Len(Order) \in Nat
    BY OrderAssumption
  <1>2. 0 \in Content /\ Empty \in Content /\ 0 \in 0..MaxWrites
    BY ConstantsAssumption DEF Content
  <1>3. /\ present \in [Res -> BOOLEAN]
        /\ facts \in [Res -> Facts]
        /\ data \in [Res -> Content]
        /\ writes \in 0..MaxWrites
        /\ planned \in [Res -> Facts]
        /\ fresh \in [Res -> Facts \union {Absent, Unseen}]
        /\ checked \in [Res -> Content \union {None}]
        /\ removed \in [Res -> Content \union {Kept}]
    BY <1>2 DEF Init
  <1>4. /\ outcome \in [Res -> Outcomes \union {None}]
        /\ vault \in SUBSET [vol : Res, content : Content]
        /\ opts \in Runs
        /\ cancel \in BOOLEAN
        /\ cancelled \in BOOLEAN
    BY DEF Init
  <1> QED
    BY <1>1, <1>2, <1>3, <1>4 DEF Init, TypeOK, PosInv, Busy, Storing

LEMMA TypeStep == TypeOK /\ PosInv /\ [Next]_vars => TypeOK' /\ PosInv'
  <1> SUFFICES ASSUME TypeOK, PosInv, [Next]_vars
               PROVE  TypeOK' /\ PosInv'
    OBVIOUS
  <1> USE DEF TypeOK, PosInv, Busy, Storing, world, receipt
  <1>0. Len(Order) \in Nat /\ pos \in Nat /\ Order \in Seq(Res)
    BY OrderAssumption
  <1>1. CASE Observe
    BY <1>0, <1>1, CurIsRes DEF Observe
  <1>2. CASE BeginItems
    BY <1>0, <1>2 DEF BeginItems
  <1>3. CASE PassOver
    BY <1>0, <1>3 DEF PassOver
  <1>4. CASE StopAtBoundary
    BY <1>0, <1>4 DEF StopAtBoundary
  <1>5. CASE LeaveAlone
    <2>1. PICK r \in Res : Reached(r) /\ Record(r, Verdict(r))
      BY <1>5 DEF LeaveAlone
    <2>2. Verdict(r) \in Outcomes
      BY DEF Verdict, Outcomes
    <2>3. outcome' \in [Res -> Outcomes \union {None}]
      BY <2>1, <2>2 DEF Record
    <2> QED
      BY <1>0, <1>5, <2>1, <2>3 DEF LeaveAlone, Record, Reached
  <1>6. CASE Accept
    BY <1>0, <1>6 DEF Accept, Reached
  <1>7. CASE BeginDump
    BY <1>0, <1>7, CurIsRes DEF BeginDump, Content
  <1>8. CASE EndDump
    BY <1>0, <1>8 DEF EndDump, Content
  <1>9. CASE Stored
    BY <1>0, <1>9, CurIsRes DEF Stored
  <1>10. CASE StoreFails
    BY <1>0, <1>10, CurIsRes DEF StoreFails, Record, Outcomes
  <1>11. CASE AskRemoval
    BY <1>0, <1>11, CurIsRes DEF AskRemoval
  <1>12. CASE Answered
    <2>1. PICK o \in AnswerOutcomes : Record(Cur, o)
      BY <1>12 DEF Answered
    <2>2. o \in Outcomes
      BY DEF AnswerOutcomes, Outcomes
    <2> QED
      BY <1>0, <1>12, <2>1, <2>2, CurIsRes DEF Answered, Record
  <1>13. CASE AnswerLost
    BY <1>0, <1>13, CurIsRes DEF AnswerLost, Record, Outcomes
  <1>14. CASE EndItems
    BY <1>0, <1>14 DEF EndItems
  <1>15. CASE Finish
    BY <1>0, <1>15 DEF Finish
  <1>16. ASSUME NEW r \in Res, DaemonRemoves(r) PROVE TypeOK' /\ PosInv'
    <2>1. reply' \in Replies \union {None}
      BY <1>16 DEF DaemonRemoves, Replies
    <2> QED
      BY <1>16, <2>1 DEF DaemonRemoves
  <1>17. ASSUME NEW r \in Res, Drift(r) PROVE TypeOK' /\ PosInv'
    BY <1>17 DEF Drift
  <1>18. ASSUME NEW r \in Res, Vanish(r) PROVE TypeOK' /\ PosInv'
    BY <1>18 DEF Vanish
  <1>19. ASSUME NEW v \in Volumes, Write(v) PROVE TypeOK' /\ PosInv'
    BY <1>19, ConstantsAssumption DEF Write, Content
  <1>20. ASSUME NEW v \in Volumes, Recreate(v) PROVE TypeOK' /\ PosInv'
    BY <1>20, ConstantsAssumption DEF Recreate, Content
  <1>21. CASE Interrupt
    BY <1>21 DEF Interrupt
  <1>22. CASE Exit
    BY <1>22 DEF Exit
  <1>23. CASE UNCHANGED vars
    BY <1>23 DEF vars
  <1> QED
    BY <1>1, <1>2, <1>3, <1>4, <1>5, <1>6, <1>7, <1>8, <1>9, <1>10, <1>11,
       <1>12, <1>13, <1>14, <1>15, <1>16, <1>17, <1>18, <1>19, <1>20, <1>21,
       <1>22, <1>23 DEF Next, RunStep, WorldStep

\* The state of a run always has its shape, and the process is never busy
\* with an item beyond the end of the plan.
THEOREM TypeCorrect == Spec => []TypeOK
  <1>1. Spec => [](TypeOK /\ PosInv)
    BY TypeInit, TypeStep, PTL DEF Spec
  <1> QED
    BY <1>1, PTL
-----------------------------------------------------------------------------
(* Why a removal is safe: the strengthening of PreservedBeforeRemoved.     *)

\* The user consented to the item, and its witness was revalidated.
Licensed(r) == /\ opts.apply /\ Selected(r) /\ HasWitness(r)
               /\ checked[r] # None
               /\ Fresh(r)

\* The item being worked on is licensed, is precious while it is being
\* stored, and has been stored by the time its removal is asked for.
BusyInv ==
    /\ pc \in Busy => Licensed(Cur)
    /\ pc \in Storing => Cur \in Precious
    /\ pc \in {"remove", "await"} => (Cur \in Precious => HasCopy(Cur))

\* A request outlives the wait for its answer, and even the process, but
\* not the grounds it was made on.
RequestInv ==
    \A r \in inflight :
        /\ Licensed(r)
        /\ removed[r] = Kept
        /\ r \in Precious => HasCopy(r)

\* Nothing has been done to an item the loop has yet to ask for.
Untouched(r) == r \notin inflight /\ removed[r] = Kept

AheadInv ==
    /\ pc = "rescan" => \A r \in Res : Untouched(r) /\ checked[r] = None
    /\ pc \in {"item"} \union Busy =>
           \A i \in 1..Len(Order) :
               i > pos \/ (i = pos /\ pc # "await") => Untouched(Order[i])

SafeInv == /\ TypeOK /\ PosInv
           /\ BusyInv /\ RequestInv /\ AheadInv
           /\ PreservedBeforeRemoved

LEMMA SafeInit == Init => SafeInv
  BY TypeInit, ConstantsAssumption
     DEF Init, SafeInv, BusyInv, RequestInv, AheadInv, Untouched, Precious,
         PreservedBeforeRemoved, Busy, Storing

\* Of the actions of a run, those that leave alone what a licence rests on.
LEMMA LicenceKept ==
    ASSUME UNCHANGED <<opts, planned, fresh, checked>>, NEW r
    PROVE  Licensed(r)' <=> Licensed(r)
  BY DEF Licensed, Selected, HasWitness, PlannedTier, Fresh

LEMMA SafeStep == SafeInv /\ [Next]_vars => SafeInv'
  <1> SUFFICES ASSUME SafeInv, [Next]_vars
               PROVE  BusyInv' /\ RequestInv' /\ AheadInv' /\ PreservedBeforeRemoved'
    BY TypeStep DEF SafeInv
  <1> USE DEF SafeInv, BusyInv, RequestInv, AheadInv, PreservedBeforeRemoved,
              Untouched, HasCopy, Precious, Busy, Storing, world, receipt, Cur
  <1>0. /\ Len(Order) \in Nat /\ Order \in Seq(Res) /\ pos \in 1..(Len(Order) + 1)
        /\ \A i \in 1..Len(Order) : Order[i] \in Res
        /\ removed \in [Res -> Content \union {Kept}]
        /\ checked \in [Res -> Content \union {None}]
        /\ inflight \subseteq Res
    BY OrderAssumption DEF TypeOK
  <1>1. CASE Observe
    BY <1>0, <1>1 DEF Observe
  <1>2. CASE BeginItems
    BY <1>0, <1>2 DEF BeginItems
  <1>3. CASE PassOver
    BY <1>0, <1>3, LicenceKept DEF PassOver
  <1>4. CASE StopAtBoundary
    BY <1>0, <1>4, LicenceKept DEF StopAtBoundary
  <1>5. CASE LeaveAlone
    BY <1>0, <1>5, LicenceKept DEF LeaveAlone, Record, Reached
  <1>7. CASE BeginDump
    BY <1>0, <1>7, LicenceKept DEF BeginDump
  <1>8. CASE EndDump
    BY <1>0, <1>8, LicenceKept DEF EndDump
  <1>9. CASE Stored
    <2>1. [vol |-> Cur, content |-> copy] \in vault' /\ vault \subseteq vault'
      BY <1>9 DEF Stored
    <2>2. HasCopy(Cur)'
      BY <2>1, <1>9 DEF Stored
    <2>3. \A q : HasCopy(q) => HasCopy(q)'
      BY <2>1
    <2> QED
      BY <1>0, <1>9, <2>2, <2>3, LicenceKept DEF Stored
  <1>10. CASE StoreFails
    BY <1>0, <1>10, LicenceKept DEF StoreFails, Record
  <1>11. CASE AskRemoval
    <2>1. pos \in 1..Len(Order) /\ Order[pos] \in Res
      BY <1>0, <1>11 DEF AskRemoval, PosInv
    <2>2. RequestInv'
      BY <1>0, <1>11, <2>1, LicenceKept DEF AskRemoval
    <2>3. ASSUME NEW i \in 1..Len(Order), i > pos PROVE Order[i] # Order[pos]
      BY <2>1, <2>3, OrderAssumption
    <2>4. AheadInv'
      BY <1>0, <1>11, <2>1, <2>3 DEF AskRemoval
    <2> QED
      BY <1>0, <1>11, <2>2, <2>4, LicenceKept DEF AskRemoval
  <1>12. CASE Answered
    BY <1>0, <1>12, LicenceKept DEF Answered, Record
  <1>13. CASE AnswerLost
    BY <1>0, <1>13, LicenceKept DEF AnswerLost, Record
  <1>14. CASE EndItems
    BY <1>0, <1>14, LicenceKept DEF EndItems
  <1>15. CASE Finish
    BY <1>0, <1>15, LicenceKept DEF Finish
  <1>16. ASSUME NEW r \in Res, DaemonRemoves(r)
         PROVE  BusyInv' /\ RequestInv' /\ AheadInv' /\ PreservedBeforeRemoved'
    <2>1. /\ r \in inflight /\ inflight' = inflight \ {r}
          /\ UNCHANGED <<opts, planned, fresh, checked, vault, pc, pos>>
          /\ \A q \in Res : q # r => removed'[q] = removed[q]
      BY <1>0, <1>16 DEF DaemonRemoves
    <2>2. BusyInv'
      BY <2>1, LicenceKept
    <2>3. RequestInv'
      BY <1>0, <2>1, LicenceKept
    <2>4. AheadInv'
      BY <1>0, <2>1
    <2>5. PreservedBeforeRemoved'
      BY <1>0, <2>1, ConstantsAssumption
    <2> QED
      BY <2>2, <2>3, <2>4, <2>5
  <1>17. ASSUME NEW r \in Res, Drift(r)
         PROVE  BusyInv' /\ RequestInv' /\ AheadInv' /\ PreservedBeforeRemoved'
    BY <1>0, <1>17, LicenceKept DEF Drift
  <1>18. ASSUME NEW r \in Res, Vanish(r)
         PROVE  BusyInv' /\ RequestInv' /\ AheadInv' /\ PreservedBeforeRemoved'
    BY <1>0, <1>18, LicenceKept DEF Vanish
  <1>19. ASSUME NEW v \in Volumes, Write(v)
         PROVE  BusyInv' /\ RequestInv' /\ AheadInv' /\ PreservedBeforeRemoved'
    BY <1>0, <1>19, LicenceKept DEF Write
  <1>20. ASSUME NEW v \in Volumes, Recreate(v)
         PROVE  BusyInv' /\ RequestInv' /\ AheadInv' /\ PreservedBeforeRemoved'
    BY <1>0, <1>20, LicenceKept DEF Recreate
  <1>21. CASE Interrupt
    BY <1>0, <1>21, LicenceKept DEF Interrupt
  <1>22. CASE Exit
    BY <1>0, <1>22, LicenceKept DEF Exit
  <1>23. CASE UNCHANGED vars
    BY <1>0, <1>23, LicenceKept DEF vars
  <1>6. CASE Accept
    <2>1. PICK r \in Res :
              /\ Reached(r) /\ Fresh(r) /\ ~Simulated
              /\ checked' = [checked EXCEPT ![r] = data[r]]
              /\ pc' = IF r \in Precious THEN "preserve" ELSE "remove"
      BY <1>6 DEF Accept
    <2>2. UNCHANGED <<opts, planned, fresh, pos, inflight, removed, vault>>
      BY <1>6 DEF Accept
    <2>3. checked'[r] # None
      <3>1. data[r] \in Content
        BY DEF TypeOK
      <3> QED
        BY <3>1, <2>1, <1>0, MarksAssumption, ConstantsAssumption DEF Content
    <2>4. /\ r = Order[pos] /\ pos \in 1..Len(Order) /\ pc = "item"
          /\ Selected(r) /\ HasWitness(r) /\ opts.apply
      BY <2>1, <1>0 DEF Reached, Simulated
    <2>5. Licensed(r)'
      BY <2>1, <2>2, <2>3, <2>4
         DEF Licensed, Selected, HasWitness, PlannedTier, Fresh
    <2>6. ASSUME NEW q \in inflight PROVE Licensed(q)'
      <3>1. q # r /\ q \in Res
        BY <2>4, <1>0
      <3> QED
        BY <3>1, <2>1, <2>2, <1>0
           DEF Licensed, Selected, HasWitness, PlannedTier, Fresh
    <2> QED
      BY <1>0, <2>1, <2>2, <2>4, <2>5, <2>6
  <1> QED
    BY <1>1, <1>2, <1>3, <1>4, <1>5, <1>6, <1>7, <1>8, <1>9, <1>10, <1>11,
       <1>12, <1>13, <1>14, <1>15, <1>16, <1>17, <1>18, <1>19, <1>20, <1>21,
       <1>22, <1>23 DEF Next, RunStep, WorldStep

LEMMA SafeAlways == Spec => []SafeInv
  BY SafeInit, SafeStep, PTL DEF Spec

\* Nothing irreversible is removed without a copy, for any number of items,
\* whatever answers are lost and whenever the process is killed.
THEOREM RemovalsArePreserved == Spec => []PreservedBeforeRemoved
  <1>1. SafeInv => PreservedBeforeRemoved
    BY DEF SafeInv
  <1> QED
    BY <1>1, SafeAlways, PTL
-----------------------------------------------------------------------------
(* The mode and the end of a run.                                          *)

\* Until the loop is over the cache has not been touched; and a dry run has
\* nothing to show for itself.
TailInv ==
    /\ pc \notin {"done", "exited"} => cache = "untouched"
    /\ cancelled => cache = "untouched"
    /\ Simulated => /\ vault = {}
                    /\ cache # "pruned"
                    /\ \A r \in Res : removed[r] = Kept

LEMMA TailStep == SafeInv /\ TailInv /\ [Next]_vars => TailInv'
  <1> SUFFICES ASSUME SafeInv, TailInv, [Next]_vars PROVE TailInv'
    OBVIOUS
  <1> USE DEF TailInv, Simulated, world, receipt
  <1>1. opts' = opts
    BY DEF Next, RunStep, WorldStep, vars, Observe, BeginItems, PassOver,
           StopAtBoundary, LeaveAlone, Accept, BeginDump, EndDump, Stored,
           StoreFails, AskRemoval, Answered, AnswerLost, EndItems, Finish,
           DaemonRemoves, Drift, Vanish, Write, Recreate, Interrupt, Exit
  <1>2. CASE Observe \/ BeginItems \/ PassOver \/ EndItems
    BY <1>2 DEF Observe, BeginItems, PassOver, EndItems
  <1>3. CASE StopAtBoundary
    BY <1>3 DEF StopAtBoundary
  <1>4. CASE LeaveAlone \/ Accept
    BY <1>4 DEF LeaveAlone, Accept, Reached, Record
  <1>5. CASE BeginDump \/ EndDump \/ StoreFails
    BY <1>5 DEF BeginDump, EndDump, StoreFails, Record
  <1>6. CASE Stored
    BY <1>6 DEF Stored, SafeInv, BusyInv, Licensed, Busy, Storing
  <1>7. CASE AskRemoval \/ Answered \/ AnswerLost
    BY <1>7 DEF AskRemoval, Answered, AnswerLost, Record
  <1>8. CASE Finish
    BY <1>8 DEF Finish
  <1>9. ASSUME NEW r \in Res, DaemonRemoves(r) PROVE TailInv'
    <2>1. opts.apply
      BY <1>9 DEF DaemonRemoves, SafeInv, RequestInv, Licensed
    <2> QED
      BY <1>1, <1>9, <2>1 DEF DaemonRemoves
  <1>10. ASSUME NEW r \in Res, Drift(r) \/ Vanish(r) PROVE TailInv'
    BY <1>10 DEF Drift, Vanish
  <1>11. ASSUME NEW v \in Volumes, Write(v) \/ Recreate(v) PROVE TailInv'
    BY <1>11 DEF Write, Recreate
  <1>12. CASE Interrupt \/ Exit \/ UNCHANGED vars
    BY <1>12 DEF Interrupt, Exit, vars
  <1> QED
    BY <1>2, <1>3, <1>4, <1>5, <1>6, <1>7, <1>8, <1>9, <1>10, <1>11, <1>12
       DEF Next, RunStep, WorldStep

LEMMA TailAlways == Spec => [](SafeInv /\ TailInv)
  <1>1. Init => TailInv
    BY DEF Init, TailInv
  <1> QED
    BY <1>1, SafeInit, SafeStep, TailStep, PTL DEF Spec

\* A dry run has no effects, whatever else happens to the daemon meanwhile.
THEOREM DryRunsTouchNothing == Spec => []DryRunTouchesNothing
  <1>1. SafeInv /\ TailInv => DryRunTouchesNothing
    BY DEF SafeInv, TailInv, DryRunTouchesNothing, RequestInv, Licensed, Simulated
  <1> QED
    BY <1>1, TailAlways, PTL

\* A run that reports it was cut short has left the build cache alone.
THEOREM CancellationIsFinal == Spec => []CancelledIsFinal
  <1>1. TailInv => CancelledIsFinal
    BY DEF TailInv, CancelledIsFinal
  <1> QED
    BY <1>1, TailAlways, PTL

\* At an item boundary with an interrupt pending, nothing new is begun.
THEOREM RunsStopBetweenItems == Spec => StopsBetweenItems
  <1>1. SafeInv /\ [Next]_vars =>
            [cancel /\ pc = "item" =>
               /\ pc' \in {"item", "tail", "exited"}
               /\ inflight' \subseteq inflight
               /\ vault' = vault]_vars
    <2> SUFFICES ASSUME [Next]_vars, cancel, pc = "item"
                 PROVE  /\ pc' \in {"item", "tail", "exited"}
                        /\ inflight' \subseteq inflight
                        /\ vault' = vault
      OBVIOUS
    <2> QED
      BY DEF Next, RunStep, WorldStep, vars, Observe, BeginItems, PassOver,
             StopAtBoundary, LeaveAlone, Accept, Reached, BeginDump, EndDump,
             Stored, StoreFails, AskRemoval, Answered, AnswerLost, EndItems,
             Finish, DaemonRemoves, Drift, Vanish, Write, Recreate, Interrupt,
             Exit, world, receipt
  <1> QED
    BY <1>1, SafeAlways, PTL DEF Spec, StopsBetweenItems
-----------------------------------------------------------------------------
(* The copies.                                                             *)

\* Writes are numbered, so what a volume holds is no newer than the last one.
NumbersInv ==
    /\ \A r \in Res : data[r] \in Int => data[r] <= writes
    /\ \A r \in Res : checked[r] \in Int => checked[r] <= writes

Unchanged(r) == data[r] \in Int /\ data[r] = checked[r]

InVault(r) == [vol |-> r, content |-> checked[r]] \in vault

\* While a precious item still holds what it held at its check, the dump is
\* of exactly that, and so is the copy by the time removal can be asked for.
CopyInv ==
    /\ pc \in {"dumping", "storing"} /\ Unchanged(Cur) => copy = checked[Cur]
    /\ pc \in {"remove", "await"} /\ Cur \in Precious /\ Unchanged(Cur) => InVault(Cur)
    /\ \A r \in inflight \intersect Precious : Unchanged(r) => InVault(r)

ContentInv == NumbersInv /\ CopyInv /\ OnlyLateWritesAreLost

LEMMA ContentInit == Init => ContentInv
  <1> SUFFICES ASSUME Init PROVE ContentInv
    OBVIOUS
  <1> QED
    BY MarksAssumption, ConstantsAssumption
       DEF Init, ContentInv, NumbersInv, CopyInv, OnlyLateWritesAreLost, Precious

LEMMA ContentStep == SafeInv /\ ContentInv /\ [Next]_vars => ContentInv'
  <1> SUFFICES ASSUME SafeInv, ContentInv, [Next]_vars PROVE ContentInv'
    OBVIOUS
  <1> USE DEF ContentInv, NumbersInv, CopyInv, OnlyLateWritesAreLost,
              Unchanged, InVault, Cur, world, receipt
  <1>0. /\ data \in [Res -> Content] /\ writes \in Nat
        /\ checked \in [Res -> Content \union {None}]
        /\ removed \in [Res -> Content \union {Kept}]
        /\ inflight \subseteq Res
        /\ Precious \subseteq Res
        /\ pc \in Busy => Order[pos] \in Res
    BY ConstantsAssumption, CurIsRes DEF SafeInv, TypeOK, PosInv, Precious
  <1>1. CASE \/ Observe \/ BeginItems \/ PassOver \/ StopAtBoundary
             \/ LeaveAlone \/ StoreFails \/ Answered \/ AnswerLost
             \/ EndItems \/ Finish
    BY <1>1 DEF Observe, BeginItems, PassOver, StopAtBoundary, LeaveAlone,
                Reached, Record, StoreFails, Answered, AnswerLost, EndItems, Finish
  <1>2. CASE Accept
    <2>1. PICK r \in Res :
              /\ Reached(r)
              /\ pc' = IF r \in Precious THEN "preserve" ELSE "remove"
              /\ checked' = [checked EXCEPT ![r] = data[r]]
      BY <1>2 DEF Accept
    <2>2. /\ r = Order[pos] /\ r \notin inflight /\ removed[r] = Kept
      BY <2>1 DEF Reached, SafeInv, AheadInv, Untouched, TypeOK
    <2>3. UNCHANGED <<data, writes, inflight, removed, vault, copy, pos>>
      BY <1>2 DEF Accept
    <2>4. NumbersInv'
      BY <1>0, <2>1, <2>3
    <2>5. CopyInv'
      BY <1>0, <2>1, <2>2, <2>3
    <2>6. OnlyLateWritesAreLost'
      BY <1>0, <2>1, <2>2, <2>3, MarksAssumption
    <2> QED
      BY <2>4, <2>5, <2>6
  <1>3. CASE BeginDump
    <2>1. UNCHANGED <<writes, inflight, removed, vault, checked, pos>>
      BY <1>3 DEF BeginDump
    <2>2. /\ pc = "preserve" /\ pc' = "dumping"
          /\ copy' = data'[Order[pos]]
          /\ \A r \in Res : data'[r] = data[r] \/ data'[r] = Empty
      BY <1>0, <1>3 DEF BeginDump
    <2> QED
      BY <1>0, <2>1, <2>2, MarksAssumption DEF Busy, Storing
  <1>4. CASE EndDump
    BY <1>0, <1>4 DEF EndDump, Busy, Storing
  <1>5. CASE Stored
    <2>1. UNCHANGED <<data, writes, inflight, removed, checked, pos>>
      BY <1>5 DEF Stored
    <2>2. /\ pc = "storing" /\ pc' = "remove" /\ vault \subseteq vault'
          /\ [vol |-> Order[pos], content |-> copy] \in vault'
      BY <1>5 DEF Stored
    <2> QED
      BY <1>0, <2>1, <2>2
  <1>6. CASE AskRemoval
    BY <1>0, <1>6 DEF AskRemoval
  <1>7. ASSUME NEW r \in Res, DaemonRemoves(r) PROVE ContentInv'
    <2>1. /\ UNCHANGED <<data, writes, vault, checked, pos, pc, copy>>
          /\ r \in inflight /\ inflight' \subseteq inflight
          /\ \A q \in Res : removed'[q] = removed[q] \/ (q = r /\ removed'[q] = data[q])
      BY <1>0, <1>7 DEF DaemonRemoves
    <2> QED
      BY <1>0, <2>1
  <1>8. ASSUME NEW r \in Res, Drift(r) \/ Vanish(r) PROVE ContentInv'
    BY <1>8 DEF Drift, Vanish
  <1>9. ASSUME NEW v \in Volumes, Write(v) PROVE ContentInv'
    <2>1. /\ UNCHANGED <<inflight, vault, removed, checked, pos, pc, copy>>
          /\ writes' = writes + 1
          /\ \A q \in Res : data'[q] = data[q] \/ data'[q] = writes + 1
      BY <1>0, <1>9 DEF Write
    <2>2. \A q \in Res : checked[q] # writes + 1
      BY <1>0
    <2>3. NumbersInv'
      BY <1>0, <2>1
    <2> QED
      BY <1>0, <2>1, <2>2, <2>3 DEF Busy, Storing
  <1>10. ASSUME NEW v \in Volumes, Recreate(v) PROVE ContentInv'
    <2>1. /\ UNCHANGED <<writes, inflight, vault, removed, checked, pos, pc, copy>>
          /\ \A q \in Res : data'[q] = data[q] \/ data'[q] = Empty
      BY <1>0, <1>10 DEF Recreate
    <2> QED
      BY <1>0, <2>1, MarksAssumption DEF Busy, Storing
  <1>11. CASE Interrupt \/ Exit \/ UNCHANGED vars
    BY <1>11 DEF Interrupt, Exit, vars
  <1> QED
    BY <1>1, <1>2, <1>3, <1>4, <1>5, <1>6, <1>7, <1>8, <1>9, <1>10, <1>11
       DEF Next, RunStep, WorldStep

\* Whoever writes, removes or recreates what, and whenever: only what was
\* written after an item's own check can be lost with it.
THEOREM LateWritesAlone == Spec => []OnlyLateWritesAreLost
  <1>1. ContentInv => OnlyLateWritesAreLost
    BY DEF ContentInv
  <1> QED
    BY <1>1, ContentInit, ContentStep, SafeInit, SafeStep, PTL DEF Spec
-----------------------------------------------------------------------------
(* The receipt.                                                            *)

Due(r) == Selected(r) /\ HasWitness(r)

Accounted(n) == \A i \in 1..Len(Order) : i < n /\ Due(Order[i]) => outcome[Order[i]] # None

\* The items behind the loop are accounted for, and all are when it ends
\* without having been cut short.
CompleteInv ==
    /\ pc \in {"item"} \union Busy => Accounted(pos)
    /\ pc \in {"tail", "done"} /\ ~cancelled => Accounted(Len(Order) + 1)

\* The answer being looked at is what was done.
AnswerInv ==
    pc = "await" =>
        /\ reply = "ok" => removed[Cur] # Kept
        /\ reply # "ok" => removed[Cur] = Kept
        /\ reply # None => Cur \notin inflight

\* What the receipt calls removed has been, and what has been, or still may
\* be, is on it, or is the item whose answer is awaited.
TruthInv ==
    \A r \in Res :
        /\ outcome[r] \in {"deleted", "preserved"} => removed[r] # Kept
        /\ outcome[r] = "preserved" => HasCopy(r)
        /\ removed[r] # Kept \/ r \in inflight =>
               \/ outcome[r] \in {"deleted", "preserved", "failed"}
               \/ pc = "await" /\ r = Cur
               \/ pc = "exited"

LEMMA DueFixed ==
    ASSUME UNCHANGED <<opts, planned>>, NEW r PROVE Due(r)' <=> Due(r)
  BY DEF Due, Selected, HasWitness, PlannedTier

\* An item that is given an outcome is accounted for, and so the loop moves on.
LEMMA RecordAccounts ==
    ASSUME SafeInv, CompleteInv, UNCHANGED <<opts, planned>>,
           pos \in 1..Len(Order), pc \in {"item"} \union Busy,
           NEW o \in Outcomes, Record(Cur, o)
    PROVE  CompleteInv'
  <1>1. /\ Len(Order) \in Nat /\ \A i \in 1..Len(Order) : Order[i] \in Res
        /\ outcome \in [Res -> Outcomes \union {None}] /\ None \notin Outcomes
    BY OrderAssumption, MarksAssumption DEF SafeInv, TypeOK
  <1>2. pc' = "item" /\ pos' = pos + 1 /\ outcome' = [outcome EXCEPT ![Order[pos]] = o]
    BY DEF Record, Cur
  <1>3. ASSUME NEW i \in 1..Len(Order), i < pos + 1, Due(Order[i])'
        PROVE  outcome'[Order[i]] # None
    BY <1>1, <1>2, <1>3, DueFixed DEF CompleteInv, Accounted
  <1> QED
    BY <1>1, <1>2, <1>3 DEF CompleteInv, Accounted

\* What is on the receipt stays on it, and a step that moves neither the
\* loop nor the receipt leaves the accounts as they are.
LEMMA AccountsKept ==
    ASSUME CompleteInv, UNCHANGED <<opts, planned, outcome, cancelled, pos>>,
           \/ pc' = pc
           \/ pc \in {"item"} \union Busy /\ pc' \in Busy
           \/ pc' = "exited"
           \/ pc = "tail" /\ pc' = "done"
    PROVE  CompleteInv'
  BY DueFixed DEF CompleteInv, Accounted, Busy, Storing

LEMMA CompleteStep == SafeInv /\ CompleteInv /\ [Next]_vars => CompleteInv'
  <1> SUFFICES ASSUME SafeInv, CompleteInv, [Next]_vars PROVE CompleteInv'
    OBVIOUS
  <1> USE DEF world, receipt
  <1>0. Len(Order) \in Nat /\ pos \in 1..(Len(Order) + 1)
    BY OrderAssumption DEF SafeInv, TypeOK
  <1>1. CASE Observe
    BY <1>1 DEF Observe, CompleteInv, Busy, Storing
  <1>2. CASE BeginItems
    BY <1>0, <1>2 DEF BeginItems, CompleteInv, Accounted, Busy, Storing
  <1>3. CASE PassOver
    <2>1. ~Due(Order[pos])
      BY <1>3 DEF PassOver, Due, Cur
    <2> QED
      BY <1>0, <1>3, <2>1, DueFixed
         DEF PassOver, CompleteInv, Accounted, Busy, Storing
  <1>4. CASE StopAtBoundary
    BY <1>4 DEF StopAtBoundary, CompleteInv, Busy, Storing
  <1>5. CASE LeaveAlone
    <2>1. PICK r \in Res : Reached(r) /\ Record(r, Verdict(r))
      BY <1>5 DEF LeaveAlone
    <2>2. r = Cur /\ pos \in 1..Len(Order) /\ pc = "item" /\ Verdict(r) \in Outcomes
      BY <1>0, <2>1 DEF Reached, Verdict, Outcomes
    <2> QED
      BY <1>5, <2>1, <2>2, RecordAccounts DEF LeaveAlone
  <1>6. CASE Answered
    <2>1. PICK o \in AnswerOutcomes : Record(Cur, o)
      BY <1>6 DEF Answered
    <2>2. o \in Outcomes /\ pos \in 1..Len(Order)
      BY <1>6 DEF Answered, AnswerOutcomes, Outcomes, SafeInv, PosInv, Busy
    <2> QED
      BY <1>6, <2>1, <2>2, RecordAccounts DEF Answered, Busy
  <1>7. CASE AnswerLost
    BY <1>7, RecordAccounts DEF AnswerLost, Outcomes, SafeInv, PosInv, Busy
  <1>8. CASE StoreFails
    BY <1>8, RecordAccounts DEF StoreFails, Outcomes, SafeInv, PosInv, Busy, Storing
  <1>9. CASE EndItems
    <2>1. pos = Len(Order) + 1
      BY <1>0, <1>9 DEF EndItems
    <2> QED
      BY <1>9, <2>1, DueFixed DEF EndItems, CompleteInv, Accounted, Busy, Storing
  <1>10. CASE Finish
    BY <1>10, AccountsKept DEF Finish
  <1>11. CASE Accept \/ BeginDump \/ EndDump \/ Stored \/ AskRemoval
    BY <1>11, AccountsKept
       DEF Accept, Reached, BeginDump, EndDump, Stored, AskRemoval, Busy, Storing
  <1>12. ASSUME NEW r \in Res, DaemonRemoves(r) \/ Drift(r) \/ Vanish(r)
         PROVE  CompleteInv'
    BY <1>12, AccountsKept DEF DaemonRemoves, Drift, Vanish
  <1>13. ASSUME NEW v \in Volumes, Write(v) \/ Recreate(v) PROVE CompleteInv'
    BY <1>13, AccountsKept DEF Write, Recreate
  <1>14. CASE Interrupt \/ Exit \/ UNCHANGED vars
    BY <1>14, AccountsKept DEF Interrupt, Exit, vars
  <1> QED
    BY <1>1, <1>2, <1>3, <1>4, <1>5, <1>6, <1>7, <1>8, <1>9, <1>10, <1>11,
       <1>12, <1>13, <1>14 DEF Next, RunStep, WorldStep

\* The receipt's outcomes and what was done do not come apart.
LEMMA TruthStep ==
    SafeInv /\ AnswerInv /\ TruthInv /\ [Next]_vars => AnswerInv' /\ TruthInv'
  <1> SUFFICES ASSUME SafeInv, AnswerInv, TruthInv, [Next]_vars
               PROVE  AnswerInv' /\ TruthInv'
    OBVIOUS
  <1> USE DEF AnswerInv, TruthInv, HasCopy, Cur, Busy, Storing, world, receipt
  <1>0. /\ pos \in 1..(Len(Order) + 1) /\ Len(Order) \in Nat
        /\ outcome \in [Res -> Outcomes \union {None}]
        /\ data \in [Res -> Content]
        /\ removed \in [Res -> Content \union {Kept}]
        /\ Kept \notin Content /\ "ok" # None /\ inflight \subseteq Res
        /\ pc \in Busy => Order[pos] \in Res
    BY OrderAssumption, MarksAssumption, ConstantsAssumption, CurIsRes
       DEF SafeInv, TypeOK, PosInv, Content, Replies
  <1>1. CASE \/ Observe \/ BeginItems \/ PassOver \/ StopAtBoundary
             \/ Accept \/ BeginDump \/ EndDump \/ EndItems \/ Finish
    BY <1>1 DEF Observe, BeginItems, PassOver, StopAtBoundary, Accept, Reached,
                BeginDump, EndDump, EndItems, Finish
  <1>2. CASE LeaveAlone
    <2>1. PICK r \in Res : Reached(r) /\ Record(r, Verdict(r))
      BY <1>2 DEF LeaveAlone
    <2>2. r = Order[pos] /\ removed[r] = Kept /\ r \notin inflight
      BY <1>0, <2>1 DEF Reached, SafeInv, AheadInv, Untouched
    <2>3. Verdict(r) \notin {"deleted", "preserved"}
      BY DEF Verdict
    <2> QED
      BY <1>0, <1>2, <2>1, <2>2, <2>3 DEF LeaveAlone, Record, Reached
  <1>3. CASE Stored
    <2>1. vault \subseteq vault'
      BY <1>3 DEF Stored
    <2> QED
      BY <1>3, <2>1 DEF Stored
  <1>4. CASE StoreFails
    <2>1. /\ pos \in 1..Len(Order)
          /\ removed[Order[pos]] = Kept /\ Order[pos] \notin inflight
      BY <1>4 DEF StoreFails, SafeInv, PosInv, AheadInv, Untouched
    <2> QED
      BY <1>0, <1>4, <2>1 DEF StoreFails, Record
  <1>5. CASE AskRemoval
    <2>1. removed[Order[pos]] = Kept
      BY <1>5 DEF AskRemoval, SafeInv, PosInv, AheadInv, Untouched
    <2> QED
      BY <1>0, <1>5, <2>1 DEF AskRemoval
  <1>6. CASE Answered
    <2>1. PICK o \in AnswerOutcomes : Record(Cur, o)
      BY <1>6 DEF Answered
    <2>2. pc = "await" /\ reply # None /\ pc' = "item"
          /\ outcome' = [outcome EXCEPT ![Order[pos]] = o]
          /\ UNCHANGED <<removed, inflight, vault>>
      BY <1>6, <2>1 DEF Answered, Record
    <2>3. /\ reply = "ok" => o \in {"deleted", "preserved"}
          /\ reply # "ok" => o \in {"refused", "failed"}
          /\ o = "preserved" => Order[pos] \in Precious
      BY DEF AnswerOutcomes
    <2>4. Order[pos] \in Precious => HasCopy(Order[pos])
      BY <2>2 DEF SafeInv, BusyInv
    <2> QED
      BY <1>0, <2>2, <2>3, <2>4
  <1>7. CASE AnswerLost
    BY <1>0, <1>7 DEF AnswerLost, Record
  <1>8. ASSUME NEW r \in Res, DaemonRemoves(r) PROVE AnswerInv' /\ TruthInv'
    <2>1. /\ UNCHANGED <<pc, pos, outcome, vault>>
          /\ r \in inflight /\ inflight' = inflight \ {r}
          /\ \A q \in Res : q # r => removed'[q] = removed[q]
          /\ removed[r] = Kept
      BY <1>0, <1>8 DEF DaemonRemoves, SafeInv, RequestInv
    <2>2. TruthInv'
      BY <1>0, <2>1
    <2>3. CASE pc = "await" /\ r = Order[pos]
      BY <1>0, <1>8, <2>1, <2>3 DEF DaemonRemoves
    <2>4. CASE ~(pc = "await" /\ r = Order[pos])
      BY <1>0, <1>8, <2>1, <2>4 DEF DaemonRemoves
    <2> QED
      BY <2>2, <2>3, <2>4
  <1>9. ASSUME NEW r \in Res, Drift(r) \/ Vanish(r) PROVE AnswerInv' /\ TruthInv'
    BY <1>9 DEF Drift, Vanish
  <1>10. ASSUME NEW v \in Volumes, Write(v) \/ Recreate(v)
         PROVE  AnswerInv' /\ TruthInv'
    BY <1>10 DEF Write, Recreate
  <1>11. CASE Interrupt \/ Exit \/ UNCHANGED vars
    BY <1>11 DEF Interrupt, Exit, vars
  <1> QED
    BY <1>1, <1>2, <1>3, <1>4, <1>5, <1>6, <1>7, <1>8, <1>9, <1>10, <1>11
       DEF Next, RunStep, WorldStep

\* The receipt a run returns accounts for it: nothing it was licensed to do
\* is missing from it, what it calls removed is gone, and what is gone by its
\* hand is on it.
THEOREM ReceiptsAccount == Spec => []ReceiptAccountsForRun
  <1>1. Init => CompleteInv /\ AnswerInv /\ TruthInv
    BY MarksAssumption
       DEF Init, CompleteInv, AnswerInv, TruthInv, Busy, Storing, Outcomes
  <1>2. SafeInv /\ CompleteInv /\ AnswerInv /\ TruthInv => ReceiptAccountsForRun
    BY OrderAssumption
       DEF CompleteInv, TruthInv, Accounted, Due, ReceiptAccountsForRun
  <1> QED
    BY <1>1, <1>2, CompleteStep, TruthStep, SafeInit, SafeStep, PTL DEF Spec
-----------------------------------------------------------------------------
(* Executor implements SafeRemoval.                                        *)

consentBar == {r \in Res : opts.apply /\ Selected(r) /\ HasWitness(r)}
licenceBar == {r \in Res : checked[r] # None /\ fresh[r] = planned[r]}

LEMMA InitRefines == Init => Abstract!Init
  BY DEF Init, Abstract!Init

LEMMA ConsentFixed ==
    ASSUME UNCHANGED <<opts, planned>> PROVE consentBar' = consentBar
  BY DEF consentBar, Selected, HasWitness, PlannedTier

\* A step that touches none of what the abstract state is made of stutters.
LEMMA Stutters ==
    ASSUME UNCHANGED <<opts, planned, fresh, checked, vault, removed>>
    PROVE  UNCHANGED Abstract!vars
  BY ConsentFixed DEF Abstract!vars, consentBar

LEMMA StepRefines == SafeInv /\ [Next]_vars => [Abstract!Next]_(Abstract!vars)
  <1> SUFFICES ASSUME SafeInv, [Next]_vars
               PROVE  Abstract!Next \/ UNCHANGED Abstract!vars
    OBVIOUS
  <1> USE DEF world, receipt
  <1>1. CASE Observe
    <2>1. licenceBar = {} /\ licenceBar' = {}
      BY <1>1 DEF Observe, SafeInv, AheadInv, licenceBar
    <2> QED
      BY <1>1, <2>1, ConsentFixed
         DEF Observe, Abstract!vars, consentBar, licenceBar
  <1>2. CASE Accept
    <2>1. PICK r \in Res :
              /\ Reached(r) /\ Fresh(r) /\ ~Simulated
              /\ checked' = [checked EXCEPT ![r] = data[r]]
      BY <1>2 DEF Accept
    <2>2. UNCHANGED <<opts, planned, fresh, vault, removed>>
      BY <1>2 DEF Accept
    <2>3. r \in consentBar
      BY <2>1 DEF Reached, Simulated, consentBar
    <2>4. data[r] # None
      BY MarksAssumption, ConstantsAssumption DEF SafeInv, TypeOK, Content
    <2>5. licenceBar' = licenceBar \union {r}
      BY <2>1, <2>2, <2>4 DEF licenceBar, Fresh, SafeInv, TypeOK
    <2>6. Abstract!License(r)
      BY <2>2, <2>3, <2>5, ConsentFixed
         DEF Abstract!License, consentBar, licenceBar
    <2> QED
      BY <2>6 DEF Abstract!Next
  <1>3. CASE Stored
    <2>1. Cur \in Res
      BY <1>3, CurIsRes DEF Stored, SafeInv, PosInv, Busy, Storing
    <2>2. Cur \in licenceBar /\ copy \in Content
      BY <1>3, <2>1 DEF Stored, SafeInv, TypeOK, BusyInv, Busy, Storing,
                        Licensed, Fresh, licenceBar
    <2>3. UNCHANGED <<opts, planned, fresh, checked, removed>>
      BY <1>3 DEF Stored
    <2>4. Abstract!Preserve(Cur)
      BY <1>3, <2>2, <2>3, ConsentFixed
         DEF Stored, Abstract!Preserve, consentBar, licenceBar
    <2> QED
      BY <2>1, <2>4 DEF Abstract!Next
  <1>4. ASSUME NEW r \in Res, DaemonRemoves(r)
        PROVE  Abstract!Next \/ UNCHANGED Abstract!vars
    <2>1. UNCHANGED <<opts, planned, fresh, checked, vault>>
      BY <1>4 DEF DaemonRemoves
    <2>2. CASE removed' = removed
      BY <2>1, <2>2, Stutters
    <2>3. CASE removed' = [removed EXCEPT ![r] = data[r]]
      <3>1. /\ r \in licenceBar
            /\ removed[r] = Kept
            /\ r \in Precious => Abstract!HasCopy(r)
            /\ data[r] \in Content
        BY <1>4 DEF DaemonRemoves, SafeInv, TypeOK, RequestInv, Licensed,
                    Fresh, licenceBar, HasCopy, Abstract!HasCopy
      <3>2. Abstract!Remove(r)
        BY <2>1, <2>3, <3>1, ConsentFixed
           DEF Abstract!Remove, consentBar, licenceBar
      <3> QED
        BY <3>2 DEF Abstract!Next
    <2> QED
      BY <1>4, <2>2, <2>3 DEF DaemonRemoves
  <1>5. CASE \/ BeginItems \/ PassOver \/ StopAtBoundary \/ LeaveAlone
             \/ BeginDump \/ EndDump \/ StoreFails
             \/ AskRemoval \/ Answered \/ AnswerLost \/ EndItems \/ Finish
             \/ Interrupt \/ Exit \/ UNCHANGED vars
    BY <1>5, Stutters
       DEF BeginItems, PassOver, StopAtBoundary, LeaveAlone, BeginDump,
           EndDump, StoreFails, AskRemoval, Answered, AnswerLost, EndItems,
           Finish, Interrupt, Exit, vars
  <1>6. ASSUME NEW r \in Res, Drift(r) \/ Vanish(r)
        PROVE  UNCHANGED Abstract!vars
    BY <1>6, Stutters DEF Drift, Vanish
  <1>7. ASSUME NEW v \in Volumes, Write(v) \/ Recreate(v)
        PROVE  UNCHANGED Abstract!vars
    BY <1>7, Stutters DEF Write, Recreate
  <1> QED
    BY <1>1, <1>2, <1>3, <1>4, <1>5, <1>6, <1>7 DEF Next, RunStep, WorldStep

\* Every run is a safe removal: what happens to the user's resources on its
\* behalf is what SafeRemoval allows, with or without the answers.
THEOREM ExecutorIsSafe == Spec => SafelyRemoves
  BY InitRefines, StepRefines, SafeAlways, PTL
     DEF Spec, SafelyRemoves, Abstract!Spec
=============================================================================
