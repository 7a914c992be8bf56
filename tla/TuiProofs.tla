----------------------------- MODULE TuiProofs -----------------------------
(***************************************************************************)
(* What the terminal interface promises, for any plans, any number of      *)
(* threads and of events.  That two threads never work at once is seen to  *)
(* by nothing but the screens: the invariant says where the answer of the  *)
(* last thread is, and that the screens on which a key starts another come *)
(* after it.  What a cleanup reaches, and what its receipt says of it,     *)
(* rest on that: what the user chose cannot change while it is under way.  *)
(***************************************************************************)
EXTENDS Tui, TLAPS, FiniteSetTheorems

Types == {"event", "ready", "applied", "failed"}
Messages == [type : Types, job : Jobs, plan : Plans \union {NoPlan}]

Steps == {"unborn", "connecting", "scanning", "opening", "working", "done"}

Idle == {"Main", "Review", "Confirm", "Finished"}

\* The answers that are on their way to the loop.
Answered == {i \in 1..Len(chan) : chan[i].type # "event"}

Inv ==
    /\ at \in [Jobs -> Steps]
    /\ chan \in Seq(Messages)
    /\ \A m, n \in Busy : m = n
    /\ \A i, j \in Answered : i = j
    /\ Answered # {} => Busy = {}
    /\ screen \in Idle => Busy = {} /\ Answered = {}

LEMMA InvInit == Init => Inv
  <1> SUFFICES ASSUME Init PROVE Inv
    OBVIOUS
  <1>1. Busy \subseteq {1} /\ Answered = {} /\ chan \in Seq(Messages)
    BY DEF Init, Busy, Answered
  <1> QED
    BY <1>1 DEF Init, Inv, Idle, Steps

\* Nothing happens to threads, messages and screen, or it is one of the idle
\* screens that another follows.
LEMMA ScreensKeep ==
    ASSUME Inv, UNCHANGED <<at, chan>>,
           screen' = screen \/ screen \in Idle
    PROVE  Inv'
  <1>1. Busy' = Busy /\ Answered' = Answered
    BY DEF Busy, Answered
  <1> QED
    BY <1>1 DEF Inv

\* A thread is started only on an idle screen.
LEMMA SpawnsAlone ==
    ASSUME Inv, screen \in Idle, NEW k, Spawn(k), screen' \notin Idle
    PROVE  Inv'
  <1>1. /\ at' = [at EXCEPT ![jobs + 1] = "connecting"] /\ UNCHANGED chan
        /\ Busy = {} /\ Answered = {}
    BY DEF Spawn, Inv
  <1>2. Busy' \subseteq {jobs + 1} /\ Answered' = {}
    BY <1>1 DEF Busy, Answered
  <1>3. at' \in [Jobs -> Steps]
    BY <1>1 DEF Inv, Steps
  <1> QED
    BY <1>1, <1>2, <1>3 DEF Inv

LEMMA KeyStep == Inv /\ Key => Inv'
  <1> SUFFICES ASSUME Inv, Key PROVE Inv'
    OBVIOUS
  <1>0. {"Scanning", "Applying"} \intersect Idle = {}
        /\ {"Main", "Review", "Confirm", "Finished"} \subseteq Idle
    BY DEF Idle
  <1>1. ASSUME Leave PROVE Inv'
    BY <1>1, ScreensKeep DEF Leave, app, threads
  <1>2. ASSUME Rescan, screen \in Idle PROVE Inv'
    BY <1>0, <1>2, SpawnsAlone DEF Rescan
  <1>3. ASSUME screen \in Idle, NEW tiers, NEW names, NEW unlocks,
               BeginApply(tiers, names, unlocks)
        PROVE  Inv'
    BY <1>0, <1>3, SpawnsAlone DEF BeginApply
  <1>4. CASE KeyQuit \/ KeyHardQuit
    BY <1>1, <1>4 DEF KeyQuit, KeyHardQuit
  <1>5. CASE KeyMainEnter
    <2>1. screen \in Idle
      BY <1>0, <1>5 DEF KeyMainEnter
    <2>2. ASSUME NEW g \in Groups, OpenReview(g) PROVE Inv'
      BY <2>1, <2>2, ScreensKeep DEF OpenReview, threads
    <2> QED
      BY <1>2, <1>3, <1>5, <2>1, <2>2 DEF KeyMainEnter
  <1>6. CASE KeyReviewTick \/ KeyReviewLeave
    BY <1>0, <1>6, ScreensKeep DEF KeyReviewTick, KeyReviewLeave, threads
  <1>7. CASE KeyConfirm
    <2>1. screen \in Idle
      BY <1>0, <1>7 DEF KeyConfirm
    <2>2. CASE UNCHANGED <<review, display, process, threads, chan>>
      BY <2>1, <2>2, ScreensKeep DEF threads
    <2> QED
      BY <1>3, <1>7, <2>1, <2>2 DEF KeyConfirm
  <1>8. CASE KeyRescan
    BY <1>0, <1>2, <1>8 DEF KeyRescan
  <1> QED
    BY <1>4, <1>5, <1>6, <1>7, <1>8 DEF Key

\* An answer is handled when it was the only one and its thread has ended; an
\* event leaves the screen as it is.
LEMMA DrainStep == Inv /\ Drain => Inv'
  <1> SUFFICES ASSUME Inv, Drain PROVE Inv'
    OBVIOUS
  <1>1. /\ chan # <<>> /\ chan' = Tail(chan) /\ UNCHANGED at
        /\ chan \in Seq(Messages) /\ chan' \in Seq(Messages)
    BY DEF Drain, threads, Inv
  <1>2. /\ Len(chan) \in Nat /\ Len(chan) > 0 /\ Len(chan') = Len(chan) - 1
        /\ \A i \in 1..Len(chan') : chan'[i] = chan[i + 1]
        /\ Head(chan) = chan[1]
    BY <1>1
  <1>3. Busy' = Busy
    BY <1>1 DEF Busy
  <1>4. \A i \in Answered' : i \in Int /\ i + 1 \in Answered /\ i >= 1
    BY <1>2 DEF Answered
  <1>5. \A i, j \in Answered' : i = j
    BY <1>4 DEF Inv
  <1>6. CASE DrainEvent(Head(chan))
    BY <1>1, <1>3, <1>4, <1>5, <1>6 DEF DrainEvent, Inv
  <1>7. CASE ~DrainEvent(Head(chan))
    <2>1. Head(chan).type # "event"
      BY <1>7 DEF Drain, DrainReady, DrainApplied, DrainFailed
    <2>2. 1 \in Answered
      BY <1>2, <2>1 DEF Answered
    <2>3. Answered' = {}
      BY <1>4, <2>2 DEF Inv
    <2> QED
      BY <1>1, <1>3, <2>2, <2>3 DEF Inv
  <1> QED
    BY <1>6, <1>7

\* An event on its way answers nothing.
LEMMA EventAnswersNothing ==
    ASSUME Inv, NEW n \in Jobs, chan' = Append(chan, Message("event", n, NoPlan))
    PROVE  chan' \in Seq(Messages) /\ Answered' = Answered
  <1>1. Message("event", n, NoPlan) \in Messages
        /\ Message("event", n, NoPlan).type = "event"
    BY DEF Message, Messages, Types
  <1>2. chan \in Seq(Messages) /\ Len(chan) \in Nat
    BY DEF Inv
  <1>3. /\ chan' \in Seq(Messages) /\ Len(chan') = Len(chan) + 1
        /\ chan'[Len(chan) + 1] = Message("event", n, NoPlan)
        /\ \A i \in 1..Len(chan) : chan'[i] = chan[i]
    BY <1>1, <1>2
  <1>4. 1..Len(chan') = 1..Len(chan) \union {Len(chan) + 1}
    BY <1>2, <1>3
  <1> QED
    BY <1>1, <1>3, <1>4 DEF Answered

LEMMA WorkStep == ASSUME Inv, NEW n \in Jobs, Work(n) PROVE Inv'
  <1>1. /\ n \in Busy /\ Busy = {n} /\ Answered = {} /\ screen \notin Idle
        /\ UNCHANGED screen
    BY DEF Work, Fails, Connects, Finds, Ready, ReScanned, Opens, Begins, Ends, Applies,
           Answers, app, Busy, Inv
  <1>2. ASSUME NEW t \in Types \ {"event"}, NEW p \in Plans \union {NoPlan}, Answers(n, t, p)
        PROVE  Inv'
    <2>1. Message(t, n, p) \in Messages
      BY <1>2 DEF Message, Messages
    <2>2. chan' \in Seq(Messages) /\ Len(chan') = Len(chan) + 1
          /\ \A i \in 1..Len(chan) : chan'[i] = chan[i]
      BY <1>2, <2>1 DEF Answers, Inv
    <2>3. Answered' \subseteq {Len(chan) + 1}
      <3>1. 1..Len(chan') = 1..Len(chan) \union {Len(chan) + 1}
        BY <2>2 DEF Inv
      <3> QED
        BY <1>1, <2>2, <3>1 DEF Answered
    <2>4. Busy' = {} /\ at' \in [Jobs -> Steps]
      BY <1>1, <1>2 DEF Answers, Goes, Busy, Inv, Steps
    <2> QED
      BY <1>1, <2>2, <2>3, <2>4 DEF Inv
  <1>3. CASE UNCHANGED chan /\ Busy' \subseteq Busy /\ at' \in [Jobs -> Steps]
    <2>1. Answered' = Answered
      BY <1>3 DEF Answered
    <2> QED
      BY <1>1, <1>3, <2>1 DEF Inv
  <1>4. CASE Fails(n) \/ Ready(n) \/ Applies(n)
    BY <1>2, <1>4 DEF Fails, Ready, Applies, Types
  <1>5. CASE Connects(n) \/ Finds(n) \/ ReScanned(n) \/ Opens(n) \/ Begins(n)
    <2>1. UNCHANGED chan /\ (at' = at \/ \E w \in Steps : at' = [at EXCEPT ![n] = w])
      BY <1>5 DEF Connects, Finds, ReScanned, Opens, Begins, Goes, EmitsToForwarder, Steps
    <2>2. Busy' \subseteq Busy /\ at' \in [Jobs -> Steps]
      BY <1>1, <2>1 DEF Busy, Inv
    <2> QED
      BY <1>3, <2>1, <2>2
  <1>6. CASE Ends(n)
    <2>1. Busy' = Busy /\ UNCHANGED at
          /\ chan' = Append(chan, Message("event", n, NoPlan))
      BY <1>6 DEF Ends, EmitsProgress, Busy
    <2> QED
      BY <1>1, <2>1, EventAnswersNothing DEF Inv
  <1> QED
    BY <1>4, <1>5, <1>6 DEF Work

LEMMA InvStep == Inv /\ [Next]_vars => Inv'
  <1> SUFFICES ASSUME Inv, [Next]_vars PROVE Inv'
    OBVIOUS
  <1>1. ASSUME NEW n \in Jobs, Forward(n) PROVE Inv'
    <2>1. Busy' = Busy /\ UNCHANGED <<at, screen>>
          /\ chan' = Append(chan, Message("event", n, NoPlan))
      BY <1>1 DEF Forward, Busy, app
    <2> QED
      BY <2>1, EventAnswersNothing DEF Inv
  <1>2. CASE Exit \/ UNCHANGED vars
    BY <1>2, ScreensKeep DEF Exit, vars, app, threads
  <1> QED
    BY <1>1, <1>2, KeyStep, DrainStep, WorkStep DEF Next

\* Whatever keys are pressed while answers are under way, no scan or cleanup
\* runs beside another one of the session.
THEOREM OneWorkerAtATime == Spec => []OneWorker
  <1>1. Inv => OneWorker
    <2> SUFFICES ASSUME Inv PROVE Cardinality(Busy) <= 1
      BY DEF OneWorker
    <2>1. CASE Busy = {}
      BY <2>1, FS_EmptySet
    <2>2. CASE Busy # {}
      <3>1. PICK n \in Busy : TRUE
        BY <2>2
      <3>2. Busy = {n}
        BY <3>1 DEF Inv
      <3> QED
        BY <3>2, FS_Singleton
    <2> QED
      BY <2>1, <2>2
  <1> QED
    BY InvInit, InvStep, <1>1, PTL DEF Spec

-----------------------------------------------------------------------------
(* The ticks.                                                              *)

\* No item has two rows, and the ticked rows are those of the picked items.
TicksInv ==
    /\ \A k \in DOMAIN rows : rows[k] \in Items
    /\ \A k, m \in DOMAIN rows : rows[k] = rows[m] => k = m
    /\ TicksAreTheUsers

\* Whenever the rows change the ticks are taken off.
LEMMA NewRows ==
    ASSUME NEW p, NEW g, rows' \in RowOrders(p, g), ticked' = {}, picked' = {}
    PROVE  TicksInv'
  <1>1. /\ \A k \in DOMAIN rows' : rows'[k] \in Items
        /\ \A k, m \in DOMAIN rows' : rows'[k] = rows'[m] => k = m
    BY DEF RowOrders, OfTiers
  <1>2. SelectedItems' = {}
    BY DEF SelectedItems
  <1> QED
    BY <1>1, <1>2 DEF TicksInv, TicksAreTheUsers

LEMMA TickStep == TicksInv /\ KeyReviewTick => TicksInv'
  <1> SUFFICES ASSUME TicksInv, KeyReviewTick PROVE TicksInv'
    OBVIOUS
  <1>1. ASSUME NEW k \in DOMAIN rows, UNCHANGED rows,
               ticked' = Toggled(ticked, k), picked' = Toggled(picked, rows[k])
        PROVE  TicksInv'
    <2>1. k \in ticked <=> rows[k] \in picked
      BY DEF TicksInv, TicksAreTheUsers, SelectedItems
    <2>2. CASE k \in ticked
      <3>1. ticked' = ticked \ {k} /\ picked' = picked \ {rows[k]}
        BY <1>1, <2>1, <2>2 DEF Toggled
      <3> QED
        BY <1>1, <3>1 DEF TicksInv, TicksAreTheUsers, SelectedItems
    <2>3. CASE k \notin ticked
      <3>1. ticked' = ticked \union {k} /\ picked' = picked \union {rows[k]}
        BY <1>1, <2>1, <2>3 DEF Toggled
      <3> QED
        BY <1>1, <3>1 DEF TicksInv, TicksAreTheUsers, SelectedItems
    <2> QED
      BY <2>2, <2>3
  <1>2. ASSUME UNCHANGED rows, ticked' = {}, picked' = {} PROVE TicksInv'
    BY <1>2 DEF TicksInv, TicksAreTheUsers, SelectedItems
  <1>3. ASSUME UNCHANGED rows, ticked' = DOMAIN rows, picked' = {rows[k] : k \in DOMAIN rows}
        PROVE  TicksInv'
    BY <1>3 DEF TicksInv, TicksAreTheUsers, SelectedItems
  <1> QED
    BY <1>1, <1>2, <1>3 DEF KeyReviewTick

LEMMA TicksInit == Init => TicksInv
  BY DEF Init, TicksInv, TicksAreTheUsers, SelectedItems

LEMMA TicksKeep == ASSUME TicksInv, UNCHANGED review PROVE TicksInv'
  BY DEF TicksInv, TicksAreTheUsers, SelectedItems, review

LEMMA TicksStep == TicksInv /\ [Next]_vars => TicksInv'
  <1> SUFFICES ASSUME TicksInv, [Next]_vars PROVE TicksInv'
    OBVIOUS
  <1>1. ASSUME Rescan PROVE TicksInv'
    BY <1>1 DEF Rescan, TicksInv, TicksAreTheUsers, SelectedItems
  <1>2. ASSUME NEW g, OpenReview(g) PROVE TicksInv'
    BY <1>2, NewRows DEF OpenReview
  <1>3. CASE Key
    BY <1>1, <1>2, <1>3, TickStep, TicksKeep
       DEF Key, KeyQuit, KeyHardQuit, Leave, KeyMainEnter, BeginApply, KeyReviewLeave,
           KeyConfirm, KeyRescan, app
  <1>4. CASE Drain
    BY <1>4, NewRows, TicksKeep
       DEF Drain, DrainEvent, DrainReady, DrainApplied, DrainFailed
  <1>5. ASSUME NEW n \in Jobs, Work(n) \/ Forward(n) PROVE TicksInv'
    BY <1>5, TicksKeep
       DEF Work, Fails, Connects, Finds, Ready, ReScanned, Opens, Begins, Ends, Applies,
           Answers, Forward, app
  <1>6. CASE Exit \/ UNCHANGED vars
    BY <1>6, TicksKeep DEF Exit, vars, app
  <1> QED
    BY <1>3, <1>4, <1>5, <1>6 DEF Next

\* A tick stays with its item: what "d" and "y" act on is what the user put
\* ticks on since the rows were last rebuilt (open_review, App::ready).
THEOREM TicksStayWithItems == Spec => []TicksAreTheUsers
  <1>1. TicksInv => TicksAreTheUsers
    BY DEF TicksInv
  <1> QED
    BY TicksInit, TicksStep, <1>1, PTL DEF Spec

-----------------------------------------------------------------------------
(* Whose the answer is.                                                    *)

\* The only thread that can be busy or have answered is the last one started,
\* and the screen says what it was started for; the older ones have no more
\* than events of a scan to pass on.
JobsInv ==
    /\ screen \in Idle \union {"Scanning", "Applying"}
    /\ jobs \in Jobs
    /\ kind \in [Jobs -> {"scan", "apply"}]
    /\ pending \in [Jobs -> Nat]
    /\ Busy \subseteq {jobs}
    /\ \A n \in Jobs : pending[n] > 0 => n <= jobs /\ kind[n] = "scan"
    /\ \A i \in 1..Len(chan) : chan[i].job <= jobs
    /\ \A i \in Answered :
           /\ chan[i].job = jobs
           /\ chan[i].type = "ready" => kind[jobs] = "scan" /\ chan[i].plan \in Plans
           /\ chan[i].type = "applied" => kind[jobs] = "apply"
    /\ screen = "Scanning" => kind[jobs] = "scan"
    /\ screen = "Applying" => kind[jobs] = "apply"
    /\ at[jobs] \in {"opening", "working"} => kind[jobs] = "apply"

LEMMA Appended ==
    ASSUME Inv, NEW m \in Messages, chan' = Append(chan, m)
    PROVE  /\ Len(chan) \in Nat /\ Len(chan) + 1 \notin 1..Len(chan)
           /\ 1..Len(chan') = 1..Len(chan) \union {Len(chan) + 1}
           /\ chan'[Len(chan) + 1] = m
           /\ \A i \in 1..Len(chan) : chan'[i] = chan[i]
  <1>1. chan \in Seq(Messages) /\ Len(chan) \in Nat /\ Len(chan') = Len(chan) + 1
        /\ chan'[Len(chan) + 1] = m /\ \A i \in 1..Len(chan) : chan'[i] = chan[i]
    BY DEF Inv
  <1> QED
    BY <1>1

LEMMA Drained ==
    ASSUME Inv, chan # <<>>, chan' = Tail(chan)
    PROVE  /\ Len(chan) \in Nat /\ 1 \in 1..Len(chan) /\ Head(chan) = chan[1]
           /\ chan[1] \in Messages
           /\ \A i \in 1..Len(chan') :
                  i \in Nat /\ i + 1 \in 1..Len(chan) /\ chan'[i] = chan[i + 1]
           /\ \A i \in 1..Len(chan) : i # 1 => i - 1 \in 1..Len(chan')
  <1>1. /\ chan \in Seq(Messages) /\ Len(chan) \in Nat /\ Len(chan) > 0
        /\ Len(chan') = Len(chan) - 1 /\ Head(chan) = chan[1]
        /\ \A i \in 1..Len(chan') : chan'[i] = chan[i + 1]
    BY DEF Inv
  <1> QED
    BY <1>1

LEMMA JobsInit == Init => JobsInv
  BY TuiAssumption DEF Init, JobsInv, Idle, Jobs, Busy, Answered

\* Between idle screens, and on the way out, no thread does anything.
LEMMA JobsKeep ==
    ASSUME JobsInv, UNCHANGED <<jobs, kind, at, pending, chan>>,
           screen' = screen \/ screen' \in Idle
    PROVE  JobsInv'
  <1>1. Busy' = Busy /\ Answered' = Answered
    BY DEF Busy, Answered
  <1>2. "Scanning" \notin Idle /\ "Applying" \notin Idle
    BY DEF Idle
  <1> QED
    BY <1>1, <1>2 DEF JobsInv

LEMMA JobsSpawn ==
    ASSUME Inv, JobsInv, screen \in Idle, NEW k \in {"scan", "apply"}, Spawn(k),
           UNCHANGED pending, screen' = IF k = "scan" THEN "Scanning" ELSE "Applying"
    PROVE  JobsInv'
  <1>1. /\ jobs + 1 \in Jobs /\ jobs' = jobs + 1 /\ jobs \in Nat
        /\ kind' = [kind EXCEPT ![jobs + 1] = k]
        /\ at' = [at EXCEPT ![jobs + 1] = "connecting"]
        /\ UNCHANGED chan /\ Busy = {} /\ Answered = {}
    BY TuiAssumption DEF Spawn, Inv, JobsInv, Jobs
  <1>2. Busy' \subseteq {jobs'} /\ Answered' = {}
    BY <1>1 DEF Busy, Answered, Inv
  <1>3. kind'[jobs'] = k /\ at'[jobs'] = "connecting" /\ kind' \in [Jobs -> {"scan", "apply"}]
    BY <1>1 DEF JobsInv, Inv
  <1>4. \A n \in Jobs : pending'[n] > 0 => n <= jobs' /\ kind'[n] = "scan"
    BY <1>1 DEF JobsInv, Jobs
  <1>5. \A i \in 1..Len(chan') : chan'[i].job <= jobs'
    <2>1. \A i \in 1..Len(chan) : chan[i] \in Messages
      BY DEF Inv
    <2>2. \A m \in Messages : m.job \in Int
      BY DEF Messages, Jobs
    <2> QED
      BY <1>1, <2>1, <2>2 DEF JobsInv
  <1> QED
    BY <1>1, <1>2, <1>3, <1>4, <1>5 DEF JobsInv, Idle

LEMMA JobsKeyStep == Inv /\ JobsInv /\ Key => JobsInv'
  <1> SUFFICES ASSUME Inv, JobsInv, Key PROVE JobsInv'
    OBVIOUS
  <1>0. {"Main", "Review", "Confirm", "Finished"} \subseteq Idle
    BY DEF Idle
  <1>1. ASSUME Leave PROVE JobsInv'
    BY <1>1, JobsKeep DEF Leave, app, threads
  <1>2. ASSUME Rescan, screen \in Idle PROVE JobsInv'
    BY <1>2, JobsSpawn DEF Rescan, Spawn, threads
  <1>3. ASSUME screen \in Idle, NEW tiers, NEW names, NEW unlocks,
               BeginApply(tiers, names, unlocks)
        PROVE  JobsInv'
    BY <1>3, JobsSpawn DEF BeginApply, Spawn
  <1>4. ASSUME NEW g \in Groups, OpenReview(g) PROVE JobsInv'
    BY <1>0, <1>4, JobsKeep DEF OpenReview, threads
  <1>5. CASE KeyQuit \/ KeyHardQuit
    BY <1>1, <1>5 DEF KeyQuit, KeyHardQuit
  <1>6. CASE KeyMainEnter
    BY <1>0, <1>2, <1>3, <1>4, <1>6 DEF KeyMainEnter
  <1>7. CASE KeyReviewTick \/ KeyReviewLeave
    BY <1>0, <1>7, JobsKeep DEF KeyReviewTick, KeyReviewLeave, threads
  <1>8. CASE KeyConfirm
    <2>1. CASE screen' = "Review" /\ UNCHANGED <<review, display, process, threads, chan>>
      BY <1>0, <2>1, JobsKeep DEF threads
    <2> QED
      BY <1>0, <1>3, <1>8, <2>1 DEF KeyConfirm
  <1>9. CASE KeyRescan
    BY <1>0, <1>2, <1>9 DEF KeyRescan
  <1> QED
    BY <1>5, <1>6, <1>7, <1>8, <1>9 DEF Key

LEMMA JobsDrainStep == Inv /\ JobsInv /\ Drain => JobsInv'
  <1> SUFFICES ASSUME Inv, JobsInv, Drain PROVE JobsInv'
    OBVIOUS
  <1>1. chan # <<>> /\ chan' = Tail(chan) /\ UNCHANGED <<jobs, kind, at, pending>>
    BY DEF Drain, threads
  <1>2. screen' = screen \/ screen' \in Idle
    BY DEF Drain, DrainEvent, DrainReady, DrainApplied, DrainFailed, Idle
  <1>3. Busy' = Busy
    BY <1>1 DEF Busy
  <1>4. \A i \in Answered' : i + 1 \in Answered /\ chan'[i] = chan[i + 1]
    BY <1>1, Drained DEF Answered
  <1>5. \A i \in 1..Len(chan') : chan'[i].job <= jobs
    BY <1>1, Drained DEF JobsInv
  <1>6. "Scanning" \notin Idle /\ "Applying" \notin Idle
    BY DEF Idle
  <1>7. \A i \in Answered' :
           /\ chan'[i].job = jobs
           /\ chan'[i].type = "ready" => kind[jobs] = "scan" /\ chan'[i].plan \in Plans
           /\ chan'[i].type = "applied" => kind[jobs] = "apply"
    BY <1>4 DEF JobsInv
  <1>8. /\ screen' \in Idle \union {"Scanning", "Applying"}
        /\ screen' = "Scanning" => kind[jobs] = "scan"
        /\ screen' = "Applying" => kind[jobs] = "apply"
    BY <1>2, <1>6 DEF JobsInv
  <1> QED
    BY <1>1, <1>3, <1>5, <1>7, <1>8 DEF JobsInv

\* A thread that works is the last one, and what it says is its own.
LEMMA JobsWorkStep == ASSUME Inv, JobsInv, NEW n \in Jobs, Work(n) PROVE JobsInv'
  <1>1. n = jobs /\ at[n] \notin {"unborn", "done"} /\ Answered = {}
        /\ UNCHANGED <<screen, jobs, kind>>
    BY DEF Work, Fails, Connects, Finds, Ready, ReScanned, Opens, Begins, Ends, Applies,
           Answers, app, Busy, Inv, JobsInv
  <1>2. ASSUME NEW where \in Steps, at' = [at EXCEPT ![n] = where] \/ UNCHANGED at
        PROVE  Busy' \subseteq {jobs'}
    BY <1>1, <1>2 DEF Busy, Inv, JobsInv
  <1>3. ASSUME NEW t \in Types, NEW p \in Plans \union {NoPlan},
               chan' = Append(chan, Message(t, n, p))
        PROVE  /\ \A i \in 1..Len(chan') : chan'[i].job <= jobs'
               /\ t = "event" => Answered' = {}
               /\ Answered' \subseteq {Len(chan) + 1} /\ chan'[Len(chan) + 1] = Message(t, n, p)
    <2>1. Message(t, n, p) \in Messages /\ Message(t, n, p).job = n /\ Message(t, n, p).type = t
      BY DEF Message, Messages
    <2>2. n <= jobs'
      BY <1>1 DEF JobsInv, Jobs
    <2> QED
      BY <1>1, <1>3, <2>1, <2>2, Appended DEF JobsInv, Answered
  <1>4. ASSUME NEW t \in Types \ {"event"}, NEW p \in Plans \union {NoPlan}, Answers(n, t, p),
               t = "ready" => kind[n] = "scan" /\ p \in Plans,
               t = "applied" => kind[n] = "apply"
        PROVE  JobsInv'
    <2>1. /\ at' = [at EXCEPT ![n] = "done"] /\ at'[n] = "done"
          /\ chan' = Append(chan, Message(t, n, p)) /\ UNCHANGED pending
      BY <1>4 DEF Answers, Goes, Inv
    <2>2. Message(t, n, p).job = n /\ Message(t, n, p).type = t /\ Message(t, n, p).plan = p
      BY DEF Message
    <2> QED
      BY <1>1, <1>2, <1>3, <1>4, <2>1, <2>2 DEF JobsInv, Steps
  <1>5. CASE Fails(n) \/ Ready(n) \/ Applies(n)
    BY <1>1, <1>4, <1>5 DEF Fails, Ready, Applies, Types, JobsInv
  <1>6. CASE Connects(n) \/ ReScanned(n) \/ Opens(n) \/ Begins(n)
    <2>1. /\ UNCHANGED <<chan, pending>>
          /\ at' = at \/ \E w \in Steps : at' = [at EXCEPT ![n] = w]
          /\ at'[n] \in {"opening", "working"} => kind[n] = "apply"
      BY <1>1, <1>6 DEF Connects, ReScanned, Opens, Begins, Goes, Steps, JobsInv, Inv
    <2>2. Busy' \subseteq {jobs'}
      BY <1>2, <2>1 DEF Steps
    <2>3. Answered' = {}
      BY <1>1, <2>1 DEF Answered
    <2> QED
      BY <1>1, <2>1, <2>2, <2>3 DEF JobsInv
  <1>7. CASE Finds(n)
    <2>1. /\ UNCHANGED <<chan, at>> /\ kind[n] = "scan"
          /\ pending' = [pending EXCEPT ![n] = @ + 1]
      BY <1>7 DEF Finds, EmitsToForwarder
    <2>2. pending' \in [Jobs -> Nat]
          /\ \A m \in Jobs : pending'[m] > 0 => m <= jobs /\ kind[m] = "scan"
      BY <1>1, <2>1 DEF JobsInv, Jobs
    <2>3. Busy' = Busy /\ Answered' = Answered
      BY <2>1 DEF Busy, Answered
    <2> QED
      BY <1>1, <2>1, <2>2, <2>3 DEF JobsInv
  <1>8. CASE Ends(n)
    <2>1. UNCHANGED <<at, pending>> /\ chan' = Append(chan, Message("event", n, NoPlan))
      BY <1>8 DEF Ends, EmitsProgress
    <2> QED
      BY <1>1, <1>2, <1>3, <2>1 DEF JobsInv, Steps, Types
  <1> QED
    BY <1>5, <1>6, <1>7, <1>8 DEF Work

LEMMA JobsStep == Inv /\ JobsInv /\ [Next]_vars => JobsInv'
  <1> SUFFICES ASSUME Inv, JobsInv, [Next]_vars PROVE JobsInv'
    OBVIOUS
  <1>1. ASSUME NEW n \in Jobs, Forward(n) PROVE JobsInv'
    <2>1. /\ UNCHANGED <<jobs, kind, at, screen>> /\ n <= jobs
          /\ pending' = [pending EXCEPT ![n] = @ - 1] /\ pending[n] > 0
          /\ chan' = Append(chan, Message("event", n, NoPlan))
      BY <1>1 DEF Forward, app, JobsInv
    <2>2. pending' \in [Jobs -> Nat]
          /\ \A m \in Jobs : pending'[m] > 0 => pending[m] > 0
      BY <2>1 DEF JobsInv
    <2>3. Message("event", n, NoPlan) \in Messages /\ Message("event", n, NoPlan).job = n
      BY DEF Message, Messages, Types
    <2>4. /\ \A i \in 1..Len(chan') : chan'[i].job <= jobs
          /\ \A i \in Answered : chan'[i] = chan[i]
      BY <2>1, <2>3, Appended DEF JobsInv, Answered
    <2>5. Busy' = Busy /\ Answered' = Answered
      BY <2>1, EventAnswersNothing DEF Busy
    <2> QED
      BY <2>1, <2>2, <2>4, <2>5 DEF JobsInv
  <1>2. CASE Exit \/ UNCHANGED vars
    BY <1>2, JobsKeep DEF Exit, vars, app, threads
  <1> QED
    BY <1>1, <1>2, JobsKeyStep, JobsDrainStep, JobsWorkStep DEF Next

-----------------------------------------------------------------------------
(* What a cleanup reaches.                                                 *)

\* A scope the user consented to: the free tier, or what the ticks stand for.
Consented(s) ==
    \/ s.tiers = {"free"}
    \/ /\ s.tiers = {s.plan[j] : j \in picked}
       /\ s.names = {NameOf[j] : j \in picked}

\* A scope that keeps the promise on the menu.
Promising(s) ==
    /\ s.plan # NoPlan /\ s.tiers = {"free"} /\ s.names = AllNames
    /\ promised = Unlockable(s.plan)

AppliedAnswer == \E i \in Answered : chan[i].type = "applied"

\* The last cleanup has selected its items.
Opened == at[jobs] = "working" \/ AppliedAnswer \/ receipt # 0

\* While the user can still change what is ticked nothing has been selected,
\* and once something has, the ticks and the promise are those it was
\* selected by.
ReachInv ==
    /\ fate \in [Jobs -> [Items -> Fates]]
    /\ DOMAIN scope = Jobs
    /\ promised \subseteq Items
    /\ \A n \in Jobs : n # jobs => fate[n] = Unselected
    /\ screen \notin {"Applying", "Finished"} =>
           fate[jobs] = Unselected /\ receipt = 0 /\ promised = {}
    /\ receipt # 0 => receipt = jobs /\ screen = "Finished"
    /\ screen = "Applying" => /\ Consented(scope[jobs])
                              /\ promised # {} => Promising(scope[jobs])
    /\ at[jobs] \in {"connecting", "scanning", "opening"} => fate[jobs] = Unselected
    /\ Opened => \A i \in promised : \A b \in BlockersOf[i] : fate[jobs][b] # "out"
    /\ AppliedAnswer \/ receipt # 0 => InHand(jobs) = {}
    /\ ReachIsConsented

LEMMA UnselectedIsOut ==
    /\ Unselected \in [Items -> Fates]
    /\ \A i \in Items : Unselected[i] = "out"
  BY DEF Unselected, Fates

LEMMA ReachInit == Init => ReachInv
  BY UnselectedIsOut, TuiAssumption
     DEF Init, ReachInv, Jobs, Opened, AppliedAnswer, Answered, ReachIsConsented, InHand

\* Nothing is selected while there is something to choose.
LEMMA ReachChoosing ==
    ASSUME screen' \notin {"Applying", "Finished"}, receipt' = 0, promised' = {},
           \A n \in Jobs : fate'[n] = Unselected,
           DOMAIN fate' = Jobs, fate' = [n \in Jobs |-> fate'[n]], DOMAIN scope' = Jobs,
           jobs' \in Jobs, at'[jobs'] # "working", Answered' = {}
    PROVE  ReachInv'
  <1>1. fate' \in [Jobs -> [Items -> Fates]]
    BY UnselectedIsOut
  <1>2. ~Opened' /\ ~AppliedAnswer'
    BY DEF Opened, AppliedAnswer
  <1>3. ReachIsConsented'
    BY UnselectedIsOut DEF ReachIsConsented
  <1> QED
    BY <1>1, <1>2, <1>3 DEF ReachInv

\* The user may do as he likes with the ticks.
LEMMA ReachIdle ==
    ASSUME Inv, JobsInv, ReachInv, screen \in Idle \ {"Finished"},
           screen' \in Idle \ {"Finished"},
           UNCHANGED <<display, process, threads, chan>>
    PROVE  ReachInv'
  <1>1. screen \notin {"Applying", "Finished"} /\ screen' \notin {"Applying", "Finished"}
    BY DEF Idle
  <1>2. UNCHANGED <<receipt, promised, fate, scope, jobs, at, chan>>
    BY DEF display, threads
  <1>3. Busy = {} /\ Answered = {} /\ Answered' = {} /\ jobs \in Jobs
    BY <1>2 DEF Inv, JobsInv, Answered
  <1>4. at[jobs] # "working"
    BY <1>3 DEF Busy
  <1> QED
    BY <1>1, <1>2, <1>3, <1>4, ReachChoosing DEF ReachInv

\* Nothing of all this changes, or only how far a thread has come to open its
\* vault and what it has left to answer.
LEMMA ReachKeep ==
    ASSUME JobsInv, ReachInv,
           UNCHANGED <<screen, picked, receipt, promised, jobs, scope, fate>>,
           AppliedAnswer' => AppliedAnswer, at'[jobs] = "working" => at[jobs] = "working",
           at'[jobs] \in {"connecting", "scanning", "opening"} =>
               at[jobs] \in {"connecting", "scanning", "opening"}
    PROVE  ReachInv'
  <1>1. Opened' => Opened
    BY DEF Opened
  <1>2. ReachIsConsented'
    BY DEF ReachInv, ReachIsConsented
  <1>3. InHand(jobs)' = InHand(jobs)
    BY DEF InHand
  <1>4. Consented(scope[jobs])' <=> Consented(scope[jobs])
    BY DEF Consented
  <1>5. Promising(scope[jobs])' <=> Promising(scope[jobs])
    BY DEF Promising
  <1> QED
    BY <1>1, <1>2, <1>3, <1>4, <1>5 DEF ReachInv

\* A cleanup begins with nothing selected, and the ticks cannot change then.
LEMMA ReachBegins ==
    ASSUME Inv, JobsInv, ReachInv, screen \in {"Main", "Confirm"},
           NEW tiers, NEW names, NEW unlocks, BeginApply(tiers, names, unlocks),
           \/ tiers = {"free"} /\ names = AllNames /\ unlocks = Unlockable(plan)
           \/ /\ tiers = {plan[j] : j \in picked} /\ names = {NameOf[j] : j \in picked}
              /\ unlocks = promised
    PROVE  ReachInv'
  <1> DEFINE given == [plan |-> plan, tiers |-> tiers, names |-> names]
  <1>1. /\ jobs + 1 \in Jobs /\ jobs' = jobs + 1 /\ screen' = "Applying"
        /\ at' = [at EXCEPT ![jobs + 1] = "connecting"]
        /\ scope' = [scope EXCEPT ![jobs + 1] = given]
        /\ UNCHANGED <<picked, receipt, fate, chan>> /\ promised' = unlocks /\ plan # NoPlan
    BY TuiAssumption DEF BeginApply, Spawn, review, JobsInv, Jobs
  <1>2. /\ \A n \in Jobs : fate[n] = Unselected
        /\ receipt = 0 /\ promised = {}
    BY DEF ReachInv
  <1>3. Answered' = {} /\ at'[jobs'] = "connecting"
    BY <1>1 DEF Inv, Idle, Answered
  <1>4. scope'[jobs'] = given /\ DOMAIN scope' = Jobs
    BY <1>1 DEF ReachInv
  <1>5. ~Opened' /\ ~AppliedAnswer'
    BY <1>1, <1>2, <1>3 DEF Opened, AppliedAnswer
  <1>6. ReachIsConsented'
    BY <1>1, <1>2, UnselectedIsOut DEF ReachIsConsented
  <1>7. Consented(scope[jobs])'
    BY <1>1, <1>4 DEF Consented
  <1>8. promised' \subseteq Items
    BY <1>1, <1>2 DEF Unlockable, OfTiers
  <1>9. promised' # {} => Promising(scope[jobs])'
    BY <1>1, <1>2, <1>4 DEF Promising, Unlockable, OfTiers
  <1> QED
    BY <1>1, <1>2, <1>3, <1>4, <1>5, <1>6, <1>7, <1>8, <1>9 DEF ReachInv

LEMMA ReachKeyStep == Inv /\ JobsInv /\ TicksInv /\ ReachInv /\ Key => ReachInv'
  <1> SUFFICES ASSUME Inv, JobsInv, TicksInv, ReachInv, Key PROVE ReachInv'
    OBVIOUS
  <1>0. Idle = {"Main", "Review", "Confirm", "Finished"}
    BY DEF Idle
  <1>1. ASSUME Leave PROVE ReachInv'
    BY <1>1, ReachKeep DEF Leave, app, review, display, threads, AppliedAnswer, Answered
  <1>2. ASSUME Rescan, screen \in Idle PROVE ReachInv'
    <2>1. /\ screen' = "Scanning" /\ receipt' = 0 /\ promised' = {}
          /\ fate' = [n \in Jobs |-> Unselected] /\ scope' = [n \in Jobs |-> NoScope]
          /\ jobs' = jobs + 1 /\ jobs' \in Jobs /\ UNCHANGED chan
          /\ at' = [at EXCEPT ![jobs + 1] = "connecting"]
      BY <1>2, TuiAssumption DEF Rescan, Spawn, JobsInv, Jobs
    <2>2. Answered' = {} /\ at'[jobs'] = "connecting"
      BY <1>2, <2>1 DEF Inv, Answered
    <2> QED
      BY <2>1, <2>2, ReachChoosing
  <1>3. ASSUME NEW g \in Groups, screen = "Main", OpenReview(g) PROVE ReachInv'
    BY <1>0, <1>3, ReachIdle DEF OpenReview
  <1>4. CASE KeyQuit \/ KeyHardQuit
    BY <1>1, <1>4 DEF KeyQuit, KeyHardQuit
  <1>5. CASE KeyMainEnter
    BY <1>0, <1>2, <1>3, <1>5, ReachBegins DEF KeyMainEnter
  <1>6. CASE KeyReviewTick \/ KeyReviewLeave
    BY <1>0, <1>6, ReachIdle DEF KeyReviewTick, KeyReviewLeave
  <1>7. CASE KeyConfirm
    <2>1. CASE screen' = "Review" /\ UNCHANGED <<review, display, process, threads, chan>>
      BY <1>0, <1>7, <2>1, ReachIdle DEF KeyConfirm
    <2>2. CASE BeginApply({plan[i] : i \in SelectedItems},
                          {NameOf[i] : i \in SelectedItems}, promised)
      <3>1. SelectedItems = picked
        BY DEF TicksInv, TicksAreTheUsers
      <3> QED
        BY <1>7, <2>2, <3>1, ReachBegins DEF KeyConfirm
    <2> QED
      BY <1>7, <2>1, <2>2 DEF KeyConfirm
  <1>8. CASE KeyRescan
    BY <1>0, <1>2, <1>8 DEF KeyRescan
  <1> QED
    BY <1>4, <1>5, <1>6, <1>7, <1>8 DEF Key

\* An answer ends the screen it was waited for on, and only a cleanup's puts
\* a receipt there.
LEMMA ReachDrainStep == Inv /\ JobsInv /\ ReachInv /\ Drain => ReachInv'
  <1> SUFFICES ASSUME Inv, JobsInv, ReachInv, Drain PROVE ReachInv'
    OBVIOUS
  <1> DEFINE m == chan[1]
  <1>1. /\ chan # <<>> /\ chan' = Tail(chan) /\ Head(chan) = m /\ 1 \in 1..Len(chan)
        /\ UNCHANGED <<jobs, kind, at, scope, fate>>
    BY Drained DEF Drain, threads
  <1>2. \A i \in Answered' : i + 1 \in Answered /\ chan'[i] = chan[i + 1] /\ i + 1 # 1
    BY <1>1, Drained DEF Answered
  <1>3. DrainEvent(m) \/ DrainReady(m) \/ DrainApplied(m) \/ DrainFailed(m)
    BY <1>1 DEF Drain
  <1> HIDE DEF m
  <1>4. AppliedAnswer' => AppliedAnswer
    BY <1>2 DEF AppliedAnswer
  <1>5. CASE DrainEvent(m)
    BY <1>1, <1>4, <1>5, ReachKeep DEF DrainEvent, review
  <1>6. ASSUME m.type # "event"
        PROVE  1 \in Answered /\ Answered' = {} /\ Busy = {} /\ screen \in {"Scanning", "Applying"}
    <2>1. 1 \in Answered
      BY <1>1, <1>6 DEF m, Answered
    <2>2. Answered' = {} /\ Busy = {} /\ screen \notin Idle
      BY <1>2, <2>1 DEF Inv
    <2> QED
      BY <2>1, <2>2 DEF JobsInv
  <1>7. CASE DrainReady(m)
    <2>1. m.type = "ready" /\ screen' = "Main" /\ receipt' = 0 /\ promised' = {}
      BY <1>7 DEF DrainReady
    <2>2. kind[jobs] = "scan"
      BY <1>6, <2>1 DEF JobsInv, m
    <2>3. screen = "Scanning"
      BY <1>6, <2>1, <2>2 DEF JobsInv
    <2>4. \A n \in Jobs : fate[n] = Unselected
      BY <2>3 DEF ReachInv
    <2>5. at'[jobs'] # "working"
      BY <1>1, <1>6, <2>1 DEF Busy, JobsInv
    <2> QED
      BY <1>1, <1>6, <2>1, <2>4, <2>5, ReachChoosing DEF ReachInv, JobsInv
  <1>8. CASE DrainApplied(m)
    <2>1. /\ m.type = "applied" /\ screen' = "Finished" /\ receipt' = m.job
          /\ UNCHANGED <<promised, picked>>
      BY <1>8 DEF DrainApplied, review
    <2>2. m.job = jobs /\ AppliedAnswer
      BY <1>6, <2>1 DEF JobsInv, AppliedAnswer, m
    <2>3. Opened
      BY <2>2 DEF Opened
    <2>4. InHand(jobs)' = InHand(jobs) /\ ReachIsConsented'
      BY <1>1, <2>1 DEF InHand, ReachInv, ReachIsConsented
    <2> QED
      BY <1>1, <1>6, <2>1, <2>2, <2>3, <2>4 DEF ReachInv, JobsInv
  <1>9. CASE DrainFailed(m)
    <2>1. /\ m.type = "failed" /\ screen' = "Finished"
          /\ UNCHANGED <<receipt, promised, picked>>
      BY <1>9 DEF DrainFailed, review, display
    <2>2. ~AppliedAnswer' /\ at[jobs] # "working" /\ receipt = 0
      BY <1>6, <2>1 DEF AppliedAnswer, Busy, JobsInv, ReachInv
    <2>3. ~Opened'
      BY <1>1, <2>1, <2>2 DEF Opened
    <2>4. ReachIsConsented'
      BY <1>1, <2>1 DEF ReachInv, ReachIsConsented
    <2> QED
      BY <1>1, <2>1, <2>2, <2>3, <2>4 DEF ReachInv
  <1> QED
    BY <1>3, <1>5, <1>7, <1>8, <1>9

\* What it selects is what its scope says.
LEMMA SelectedIsConsented ==
    ASSUME TicksInv, NEW i \in Items, NEW s, Consented(s), Selects(s, i)
    PROVE  \/ s.plan[i] = "free"
           \/ /\ \E j \in picked : NameOf[j] = NameOf[i]
              /\ \E j \in picked : s.plan[j] = s.plan[i]
  <1>1. CASE s.tiers = {"free"}
    BY <1>1 DEF Selects
  <1>2. CASE s.tiers = {s.plan[j] : j \in picked} /\ s.names = {NameOf[j] : j \in picked}
    <2>1. picked \subseteq Items
      BY DEF TicksInv, TicksAreTheUsers, SelectedItems
    <2>2. s.names # AllNames
      BY <1>2, <2>1, TuiAssumption
    <2> QED
      BY <1>2, <2>2 DEF Selects
  <1> QED
    BY <1>1, <1>2 DEF Consented

\* Once an item is selected it stays so, whatever becomes of it.
LEMMA ReachWorks ==
    ASSUME JobsInv, ReachInv, at[jobs] = "working",
           NEW i \in Items, fate[jobs][i] # "out", NEW f \in Fates \ {"out"},
           fate' = [fate EXCEPT ![jobs][i] = f], ~AppliedAnswer',
           UNCHANGED <<screen, picked, receipt, promised, jobs, scope, at>>,
           screen = "Applying"
    PROVE  ReachInv'
  <1>1. /\ fate' \in [Jobs -> [Items -> Fates]]
        /\ \A n \in Jobs : n # jobs => fate'[n] = fate[n]
        /\ \A j \in Items : fate'[jobs][j] = IF j = i THEN f ELSE fate[jobs][j]
    BY DEF ReachInv, JobsInv
  <1>2. ReachIsConsented'
    <2>1. \A n \in Jobs : \A j \in Items : fate'[n][j] # "out" => fate[n][j] # "out"
      BY <1>1 DEF JobsInv
    <2> QED
      BY <2>1 DEF ReachInv, ReachIsConsented
  <1>3. Opened /\ receipt' = 0
    BY DEF Opened, ReachInv
  <1>4. \A p \in promised : \A b \in BlockersOf[p] : fate'[jobs][b] # "out"
    <2>1. \A p \in promised : BlockersOf[p] \subseteq Items
      BY TuiAssumption DEF ReachInv
    <2> QED
      BY <1>1, <1>3, <2>1 DEF ReachInv
  <1>5. Consented(scope[jobs])' /\ (promised' # {} => Promising(scope[jobs])')
    BY DEF ReachInv, Consented, Promising
  <1> QED
    BY <1>1, <1>2, <1>3, <1>4, <1>5 DEF ReachInv

LEMMA ReachOpens ==
    ASSUME Inv, JobsInv, TicksInv, ReachInv, Opens(jobs), screen = "Applying"
    PROVE  ReachInv'
  <1> DEFINE s == scope[jobs]
  <1>1. /\ at[jobs] = "opening" /\ at'[jobs] = "working"
        /\ fate' = [fate EXCEPT ![jobs] =
               [i \in Items |-> IF Selects(s, i) THEN "waiting" ELSE "out"]]
        /\ UNCHANGED <<screen, picked, receipt, promised, jobs, scope, chan>>
    BY DEF Opens, Goes, app, review, display, Inv, JobsInv
  <1>2. /\ \A i \in Items : fate'[jobs][i] = IF Selects(s, i) THEN "waiting" ELSE "out"
        /\ \A n \in Jobs : n # jobs => fate'[n] = Unselected
        /\ fate' \in [Jobs -> [Items -> Fates]]
    BY <1>1 DEF ReachInv, JobsInv, Fates
  <1>3. Consented(s) /\ (promised # {} => Promising(s))
    BY DEF ReachInv
  <1>4. ReachIsConsented'
    <2> SUFFICES ASSUME NEW n \in Jobs, NEW i \in Items, fate'[n][i] # "out"
                 PROVE  \/ scope[n].plan[i] = "free"
                        \/ /\ \E j \in picked : NameOf[j] = NameOf[i]
                           /\ \E j \in picked : scope[n].plan[j] = scope[n].plan[i]
      BY <1>1 DEF ReachIsConsented
    <2>1. n = jobs /\ Selects(s, i)
      BY <1>2, UnselectedIsOut
    <2> QED
      BY <1>3, <2>1, SelectedIsConsented
  <1>5. ASSUME NEW p \in promised, NEW b \in BlockersOf[p] PROVE fate'[jobs][b] # "out"
    <2>1. Promising(s)
      BY <1>3, <1>5
    <2>2. b \in OfTiers(s.plan, {"free"})
      BY <1>5, <2>1 DEF Promising, Unlockable
    <2>3. b \in Items /\ s.plan[b] = "free"
      BY <2>1, <2>2 DEF OfTiers, Promising
    <2> QED
      BY <1>2, <2>1, <2>3 DEF Promising, Selects
  <1>6. receipt = 0 /\ ~AppliedAnswer'
    <2>1. Answered = {}
      BY <1>1 DEF Inv, Busy, JobsInv
    <2> QED
      BY <1>1, <2>1 DEF ReachInv, AppliedAnswer, Answered
  <1>7. Consented(scope[jobs])' /\ (promised' # {} => Promising(scope[jobs])')
    BY <1>1, <1>3 DEF Consented, Promising
  <1> QED
    BY <1>1, <1>2, <1>4, <1>5, <1>6, <1>7 DEF ReachInv

LEMMA ReachWorkStep ==
    ASSUME Inv, JobsInv, TicksInv, ReachInv, NEW n \in Jobs, Work(n)
    PROVE  ReachInv'
  <1>1. /\ n = jobs /\ n \in Busy /\ Answered = {} /\ screen \in {"Scanning", "Applying"}
        /\ UNCHANGED <<screen, picked, receipt, promised, jobs, scope>>
        /\ receipt = 0
    BY DEF Work, Fails, Connects, Finds, Ready, ReScanned, Opens, Begins, Ends, Applies,
           Answers, app, review, display, Busy, Inv, JobsInv, ReachInv
  <1>2. ASSUME NEW t \in Types, NEW p \in Plans \union {NoPlan},
               chan' = Append(chan, Message(t, n, p))
        PROVE  AppliedAnswer' => t = "applied"
    <2>1. Message(t, n, p) \in Messages /\ Message(t, n, p).type = t
      BY DEF Message, Messages
    <2> QED
      BY <1>1, <1>2, <2>1, Appended DEF AppliedAnswer, Answered
  <1>3. CASE Fails(n) \/ Ready(n)
    <2>1. at'[jobs] = "done" /\ UNCHANGED fate
      BY <1>1, <1>3 DEF Fails, Ready, Answers, Goes, Inv
    <2>2. ~AppliedAnswer'
      BY <1>2, <1>3 DEF Fails, Ready, Answers, Types
    <2> QED
      BY <1>1, <2>1, <2>2, ReachKeep
  <1>4. CASE Applies(n)
    <2>1. /\ at[jobs] = "working" /\ InHand(jobs) = {} /\ at'[jobs] = "done" /\ UNCHANGED fate
      BY <1>1, <1>4 DEF Applies, Answers, Goes, Inv
    <2>2. InHand(jobs)' = {}
      BY <1>1, <2>1 DEF InHand
    <2>3. Opened /\ ReachIsConsented'
      BY <1>1, <2>1 DEF Opened, ReachInv, ReachIsConsented
    <2>4. Consented(scope[jobs])' <=> Consented(scope[jobs])
      BY <1>1 DEF Consented
    <2>5. Promising(scope[jobs])' <=> Promising(scope[jobs])
      BY <1>1 DEF Promising
    <2> QED
      BY <1>1, <2>1, <2>2, <2>3, <2>4, <2>5 DEF ReachInv
  <1>5. CASE Connects(n) \/ ReScanned(n) \/ Finds(n)
    <2>1. /\ UNCHANGED <<chan, fate>> /\ at[jobs] \in {"connecting", "scanning"}
          /\ at'[jobs] \in {"scanning", "opening"}
      BY <1>1, <1>5 DEF Connects, ReScanned, Finds, EmitsToForwarder, Goes, Inv
    <2>2. AppliedAnswer' <=> AppliedAnswer
      BY <2>1 DEF AppliedAnswer, Answered
    <2> QED
      BY <1>1, <2>1, <2>2, ReachKeep
  <1>6. CASE Opens(n)
    <2>1. screen = "Applying"
      BY <1>1, <1>6 DEF Opens, JobsInv
    <2> QED
      BY <1>1, <1>6, <2>1, ReachOpens
  <1>7. CASE Begins(n) \/ Ends(n)
    <2>1. PICK i \in Items, f \in Fates \ {"out"} :
              fate[jobs][i] # "out" /\ fate' = [fate EXCEPT ![jobs][i] = f]
      BY <1>1, <1>7 DEF Begins, Ends, Waiting, InHand, Fates
    <2>2. at[jobs] = "working" /\ UNCHANGED at
      BY <1>1, <1>7 DEF Begins, Ends
    <2>3. screen = "Applying"
      BY <1>1, <2>2 DEF JobsInv
    <2>4. ~AppliedAnswer'
      BY <1>1, <1>2, <1>7 DEF Begins, Ends, EmitsProgress, Types, AppliedAnswer, Answered
    <2> QED
      BY <1>1, <2>1, <2>2, <2>3, <2>4, ReachWorks
  <1> QED
    BY <1>3, <1>4, <1>5, <1>6, <1>7 DEF Work

LEMMA ReachStep == Inv /\ JobsInv /\ TicksInv /\ ReachInv /\ [Next]_vars => ReachInv'
  <1> SUFFICES ASSUME Inv, JobsInv, TicksInv, ReachInv, [Next]_vars PROVE ReachInv'
    OBVIOUS
  <1>1. ASSUME NEW n \in Jobs, Forward(n) PROVE ReachInv'
    <2>1. UNCHANGED <<screen, picked, receipt, promised, jobs, scope, fate, at>>
      BY <1>1 DEF Forward, app, review, display
    <2>2. Answered' = Answered
      BY <1>1, EventAnswersNothing DEF Forward
    <2>3. \A i \in Answered : chan'[i] = chan[i]
      <3>1. Message("event", n, NoPlan) \in Messages
        BY DEF Message, Messages, Types
      <3> QED
        BY <1>1, <3>1, Appended DEF Forward, Answered
    <2> QED
      BY <2>1, <2>2, <2>3, ReachKeep DEF AppliedAnswer
  <1>2. CASE Exit \/ UNCHANGED vars
    BY <1>2, ReachKeep
       DEF Exit, vars, app, review, display, threads, AppliedAnswer, Answered
  <1> QED
    BY <1>1, <1>2, ReachKeyStep, ReachDrainStep, ReachWorkStep DEF Next

\* A cleanup touches nothing but what is free in the plan that was on the
\* screen, or has the name of one row the user ticked and the tier of one,
\* whatever has been planned or ticked since (begin_apply, item_is_selected).
THEOREM CleanupsReachTheConsented == Spec => []ReachIsConsented
  <1>1. ReachInv => ReachIsConsented
    BY DEF ReachInv
  <1> QED
    BY InvInit, InvStep, JobsInit, JobsStep, TicksInit, TicksStep, ReachInit, ReachStep,
       <1>1, PTL DEF Spec

\* When the receipt of a reclaim shows nothing skipped, failed or left over,
\* every container is gone that held an image the menu said it unlocks
\* (unlockable_image_count).
THEOREM PromisesAreKept == Spec => []PromisedAreUnlocked
  <1>1. JobsInv /\ ReachInv => PromisedAreUnlocked
    <2> SUFFICES ASSUME JobsInv, ReachInv, receipt # 0,
                        \A i \in Items : fate[receipt][i] \in {"out", "removed"},
                        NEW i \in promised, NEW b \in BlockersOf[i]
                 PROVE  fate[receipt][b] = "removed"
      BY DEF PromisedAreUnlocked
    <2>1. receipt = jobs /\ fate[jobs][b] # "out"
      BY DEF ReachInv, Opened
    <2>2. b \in Items
      BY TuiAssumption DEF ReachInv
    <2> QED
      BY <2>1, <2>2
  <1> QED
    BY InvInit, InvStep, JobsInit, JobsStep, TicksInit, TicksStep, ReachInit, ReachStep,
       <1>1, PTL DEF Spec

-----------------------------------------------------------------------------
(* What the receipt says.                                                  *)

\* The items a cleanup is done with, and the reports of that on their way.
Over(n) == {i \in Items : fate[n][i] \in {"removed", "skipped", "failed"}}

Progress == {i \in 1..Len(chan) : chan[i].type = "event" /\ kind[chan[i].job] = "apply"}

\* Every item done with is reported or about to be, and the answer is sent
\* after the reports, by the same sender.
CountInv ==
    /\ shown \in Nat
    /\ \A i \in Answered : \A j \in Progress : j < i
    /\ screen # "Applying" => Progress = {}
    /\ screen = "Applying" \/ receipt # 0 =>
           shown + Cardinality(Progress) = Cardinality(Over(jobs))

LEMMA ProgressIsFinite ==
    ASSUME Inv
    PROVE  IsFiniteSet(Progress) /\ Cardinality(Progress) \in Nat
  <1>1. Len(chan) \in Nat
    BY DEF Inv
  <1>2. IsFiniteSet(1..Len(chan)) /\ Progress \in SUBSET (1..Len(chan))
    BY <1>1, FS_Interval DEF Progress
  <1> QED
    BY <1>2, FS_Subset, FS_CardinalityType

LEMMA OverIsFinite ==
    ASSUME NEW n
    PROVE  IsFiniteSet(Over(n)) /\ Cardinality(Over(n)) \in Nat
  <1>1. Over(n) \in SUBSET Items
    BY DEF Over
  <1> QED
    BY <1>1, TuiAssumption, FS_Subset, FS_CardinalityType

LEMMA NothingCounted == Cardinality({}) = 0
  BY FS_EmptySet

\* What is added to the channel is counted if it is the report of a cleanup.
LEMMA ProgressAppends ==
    ASSUME Inv, NEW m \in Messages, chan' = Append(chan, m), UNCHANGED kind
    PROVE  /\ Progress \subseteq 1..Len(chan)
           /\ m.type = "event" /\ kind[m.job] = "apply" =>
                  /\ Progress' = Progress \union {Len(chan) + 1}
                  /\ Cardinality(Progress') = Cardinality(Progress) + 1
           /\ ~(m.type = "event" /\ kind[m.job] = "apply") => Progress' = Progress
  <1>1. Progress \subseteq 1..Len(chan) /\ Len(chan) + 1 \notin Progress
    BY Appended DEF Progress
  <1>2. ASSUME m.type = "event", kind[m.job] = "apply"
        PROVE  Progress' = Progress \union {Len(chan) + 1}
    BY <1>2, Appended DEF Progress
  <1>3. ASSUME ~(m.type = "event" /\ kind[m.job] = "apply") PROVE Progress' = Progress
    BY <1>3, Appended DEF Progress
  <1> QED
    BY <1>1, <1>2, <1>3, ProgressIsFinite, FS_AddElement

\* What is taken off it is no longer counted, and the rest moves up.
LEMMA ProgressDrains ==
    ASSUME Inv, chan # <<>>, chan' = Tail(chan), UNCHANGED kind
    PROVE  /\ \A j \in Progress' : j + 1 \in Progress
           /\ 1 \in Progress => Cardinality(Progress') = Cardinality(Progress) - 1
           /\ 1 \notin Progress => Cardinality(Progress') = Cardinality(Progress)
  <1> DEFINE rest == Progress \ {1}
             up == [i \in rest |-> i - 1]
  <1>1. \A j \in Progress' : j \in Nat /\ j + 1 \in rest
    BY Drained DEF Progress
  <1>2. \A i \in rest : i \in Nat /\ i - 1 \in Progress'
    BY Drained DEF Progress
  <1>3. up \in Injection(rest, Progress')
    BY <1>2 DEF Injection, IsInjective
  <1>4. up \in Surjection(rest, Progress')
    <2>1. up \in [rest -> Progress']
      BY <1>2
    <2>2. \A j \in Progress' : j + 1 \in rest /\ up[j + 1] = j
      BY <1>1
    <2> QED
      BY <2>1, <2>2 DEF Surjection
  <1>5. ExistsBijection(rest, Progress')
    BY <1>3, <1>4 DEF ExistsBijection, Bijection
  <1>6. IsFiniteSet(rest) /\ Cardinality(rest) =
            IF 1 \in Progress THEN Cardinality(Progress) - 1 ELSE Cardinality(Progress)
    BY ProgressIsFinite, FS_RemoveElement
  <1>7. Cardinality(Progress') = Cardinality(rest)
    BY <1>5, <1>6, FS_Bijection
  <1> QED
    BY <1>1, <1>6, <1>7

LEMMA CountInit == Init => CountInv
  <1> SUFFICES ASSUME Init PROVE CountInv
    OBVIOUS
  <1>1. Progress = {} /\ Answered = {}
    BY DEF Init, Progress, Answered
  <1> QED
    BY <1>1 DEF Init, CountInv

\* Nothing is counted anew.
LEMMA CountKeep ==
    ASSUME CountInv, Progress' = Progress, Over(jobs)' = Over(jobs),
           \A i \in Answered' : \A j \in Progress : j < i,
           UNCHANGED <<shown, receipt, screen>>
    PROVE  CountInv'
  BY DEF CountInv

\* Where there is no cleanup nor a receipt nothing needs to add up.
LEMMA CountIdle ==
    ASSUME shown' \in Nat, screen' # "Applying", receipt' = 0, Progress' = {}
    PROVE  CountInv'
  BY DEF CountInv

LEMMA SpawnedIsUnheard ==
    ASSUME Inv, JobsInv, NEW k, Spawn(k)
    PROVE  Progress' = Progress
  <1>1. \A i \in 1..Len(chan) : chan[i] \in Messages /\ chan[i].job <= jobs
    BY DEF Inv, JobsInv
  <1>2. \A i \in 1..Len(chan) : chan[i].job \in Jobs /\ chan[i].job # jobs + 1
    BY <1>1 DEF Messages, Jobs, JobsInv
  <1>3. \A i \in 1..Len(chan) : kind'[chan[i].job] = kind[chan[i].job]
    BY <1>2 DEF Spawn, JobsInv
  <1> QED
    BY <1>3 DEF Spawn, Progress

LEMMA CountKeyStep == Inv /\ JobsInv /\ ReachInv /\ CountInv /\ Key => CountInv'
  <1> SUFFICES ASSUME Inv, JobsInv, ReachInv, CountInv, Key PROVE CountInv'
    OBVIOUS
  <1>0. /\ Idle = {"Main", "Review", "Confirm", "Finished"}
        /\ screen \in Idle => Progress = {}
    BY DEF Idle, CountInv
  <1>1. ASSUME Leave PROVE CountInv'
    BY <1>1, CountKeep
       DEF Leave, app, display, threads, Progress, Over, Answered, CountInv
  <1>2. ASSUME Rescan, screen \in Idle PROVE CountInv'
    BY <1>0, <1>2, SpawnedIsUnheard, CountIdle DEF Rescan
  <1>3. ASSUME screen \in {"Main", "Confirm"}, NEW tiers, NEW names, NEW unlocks,
               BeginApply(tiers, names, unlocks)
        PROVE  CountInv'
    <2>1. Progress' = {}
      BY <1>0, <1>3, SpawnedIsUnheard DEF BeginApply
    <2>2. /\ jobs' \in Jobs /\ shown' = 0
          /\ \A n \in Jobs : fate'[n] = Unselected
      BY <1>3, TuiAssumption DEF BeginApply, Spawn, JobsInv, Jobs, ReachInv
    <2>3. Over(jobs)' = {}
      BY <2>2, UnselectedIsOut DEF Over
    <2> QED
      BY <2>1, <2>2, <2>3, NothingCounted DEF CountInv
  <1>4. ASSUME screen \in Idle \ {"Finished"}, screen' \in Idle,
               UNCHANGED <<display, process, threads, chan>>
        PROVE  CountInv'
    <2>1. UNCHANGED <<receipt, shown, kind, chan>>
      BY <1>4 DEF display, threads
    <2>2. receipt = 0 /\ Progress' = {} /\ screen' # "Applying"
      BY <1>0, <1>4, <2>1 DEF ReachInv, Progress
    <2> QED
      BY <2>1, <2>2, CountIdle DEF CountInv
  <1>5. CASE KeyQuit \/ KeyHardQuit
    BY <1>1, <1>5 DEF KeyQuit, KeyHardQuit
  <1>6. CASE KeyMainEnter
    BY <1>0, <1>2, <1>3, <1>4, <1>6 DEF KeyMainEnter, OpenReview
  <1>7. CASE KeyReviewTick \/ KeyReviewLeave
    BY <1>0, <1>4, <1>7 DEF KeyReviewTick, KeyReviewLeave
  <1>8. CASE KeyConfirm
    <2>1. CASE screen' = "Review" /\ UNCHANGED <<review, display, process, threads, chan>>
      BY <1>0, <1>4, <1>8, <2>1 DEF KeyConfirm
    <2> QED
      BY <1>3, <1>8, <2>1 DEF KeyConfirm
  <1>9. CASE KeyRescan
    BY <1>0, <1>2, <1>9 DEF KeyRescan
  <1> QED
    BY <1>5, <1>6, <1>7, <1>8, <1>9 DEF Key

LEMMA CountDrainStep == Inv /\ JobsInv /\ ReachInv /\ CountInv /\ Drain => CountInv'
  <1> SUFFICES ASSUME Inv, JobsInv, ReachInv, CountInv, Drain PROVE CountInv'
    OBVIOUS
  <1> DEFINE m == chan[1]
  <1>1. /\ chan # <<>> /\ chan' = Tail(chan) /\ Head(chan) = m /\ 1 \in 1..Len(chan)
        /\ UNCHANGED <<jobs, kind, at, scope, fate>>
    BY Drained DEF Drain, threads
  <1>2. DrainEvent(m) \/ DrainReady(m) \/ DrainApplied(m) \/ DrainFailed(m)
    BY <1>1 DEF Drain
  <1>3. \A i \in Answered' : i + 1 \in Answered /\ i \in Int
    BY <1>1, Drained DEF Answered
  <1>4. \A j \in Progress' : j + 1 \in Progress /\ j \in Int
    BY <1>1, ProgressDrains DEF Progress
  <1>5. Over(jobs)' = Over(jobs)
    BY <1>1 DEF Over
  <1>6. 1 \in Progress <=> m.type = "event" /\ kind[m.job] = "apply"
    BY <1>1 DEF Progress
  <1>7. 1 \in Answered <=> m.type # "event"
    BY <1>1 DEF Answered
  <1> HIDE DEF m
  <1>8. CASE DrainEvent(m)
    <2>1. /\ m.type = "event" /\ UNCHANGED <<screen, receipt>>
          /\ kind[m.job] = "scan" => UNCHANGED shown
          /\ kind[m.job] = "apply" => shown' = shown + 1
      BY <1>8 DEF DrainEvent
    <2>2. kind[m.job] \in {"scan", "apply"}
      <3>1. m \in Messages
        BY <1>1, Drained DEF m
      <3> QED
        BY <3>1 DEF Messages, JobsInv
    <2>3. Cardinality(Progress) \in Nat /\ Cardinality(Over(jobs)) \in Nat
      BY ProgressIsFinite, OverIsFinite
    <2>4. shown' \in Nat
          /\ shown' + Cardinality(Progress') = shown + Cardinality(Progress)
      <3>1. CASE kind[m.job] = "scan"
        BY <1>1, <1>6, <2>1, <3>1, ProgressDrains DEF CountInv
      <3>2. CASE kind[m.job] = "apply"
        <4>1. Cardinality(Progress') = Cardinality(Progress) - 1
          BY <1>1, <1>6, <2>1, <3>2, ProgressDrains
        <4> QED
          BY <2>1, <2>3, <3>2, <4>1 DEF CountInv
      <3> QED
        BY <2>2, <3>1, <3>2
    <2>5. \A i \in Answered' : \A j \in Progress' : j < i
      BY <1>3, <1>4 DEF CountInv
    <2>6. screen' # "Applying" => Progress' = {}
      BY <1>4, <2>1 DEF CountInv
    <2> QED
      BY <1>1, <1>5, <2>1, <2>4, <2>5, <2>6 DEF CountInv
  <1>9. ASSUME m.type # "event"
        PROVE  Progress = {} /\ Progress' = {}
    <2>1. \A j \in Progress : j < 1 /\ j \in 1..Len(chan)
      BY <1>7, <1>9 DEF CountInv, Progress
    <2> QED
      BY <1>4, <2>1
  <1>10. CASE DrainReady(m)
    BY <1>9, <1>10, CountIdle DEF DrainReady
  <1>11. CASE DrainApplied(m)
    <2>1. m.type = "applied" /\ screen' = "Finished" /\ UNCHANGED shown
      BY <1>11 DEF DrainApplied
    <2>2. screen = "Applying"
      <3>1. kind[jobs] = "apply" /\ Answered # {}
        BY <1>7, <2>1 DEF JobsInv, m
      <3> QED
        BY <3>1 DEF Inv, JobsInv
    <2>3. shown + Cardinality({}) = Cardinality(Over(jobs))
      BY <1>9, <2>1, <2>2 DEF CountInv
    <2> QED
      BY <1>1, <1>5, <1>9, <2>1, <2>3 DEF CountInv
  <1>12. CASE DrainFailed(m)
    <2>1. m.type = "failed" /\ screen' = "Finished" /\ UNCHANGED <<receipt, shown>>
      BY <1>12 DEF DrainFailed, display
    <2>2. receipt = 0
      BY <1>7, <2>1 DEF Inv, ReachInv, Idle
    <2> QED
      BY <1>9, <2>1, <2>2, CountIdle DEF CountInv
  <1> QED
    BY <1>2, <1>8, <1>10, <1>11, <1>12

LEMMA CountWorkStep ==
    ASSUME Inv, JobsInv, ReachInv, CountInv, NEW n \in Jobs, Work(n)
    PROVE  CountInv'
  <1>1. /\ n = jobs /\ at[n] \notin {"unborn", "done"} /\ Answered = {} /\ receipt = 0
        /\ UNCHANGED <<screen, receipt, shown, jobs, kind>>
    BY DEF Work, Fails, Connects, Finds, Ready, ReScanned, Opens, Begins, Ends, Applies,
           Answers, app, display, Busy, Inv, JobsInv, ReachInv, Idle
  <1>2. \A i \in Items : fate[n][i] \in Fates
    BY DEF ReachInv
  <1>3. ASSUME NEW t \in Types \ {"event"}, NEW p \in Plans \union {NoPlan}, Answers(n, t, p)
        PROVE  CountInv'
    <2>1. /\ chan' = Append(chan, Message(t, n, p)) /\ UNCHANGED fate
          /\ Message(t, n, p) \in Messages /\ Message(t, n, p).type = t
      BY <1>3 DEF Answers, Message, Messages
    <2>2. Progress' = Progress /\ Progress \subseteq 1..Len(chan) /\ Len(chan) \in Nat
      BY <1>1, <2>1, ProgressAppends, Appended
    <2>3. Answered' \subseteq {Len(chan) + 1}
      BY <1>1, <2>1, Appended DEF Answered
    <2>4. Over(jobs)' = Over(jobs)
      BY <1>1, <2>1 DEF Over
    <2>5. \A i \in Answered' : \A j \in Progress : j < i
      BY <2>2, <2>3
    <2> QED
      BY <1>1, <2>2, <2>4, <2>5, CountKeep
  <1>4. ASSUME UNCHANGED chan, Over(jobs)' = Over(jobs) PROVE CountInv'
    <2>1. Progress' = Progress /\ Answered' = {}
      BY <1>1, <1>4 DEF Progress, Answered
    <2> QED
      BY <1>1, <1>4, <2>1, CountKeep
  <1>5. CASE Fails(n) \/ Ready(n) \/ Applies(n)
    BY <1>3, <1>5 DEF Fails, Ready, Applies, Types
  <1>6. CASE Connects(n) \/ ReScanned(n) \/ Finds(n)
    <2>1. UNCHANGED <<chan, fate>>
      BY <1>6 DEF Connects, ReScanned, Finds, EmitsToForwarder
    <2> QED
      BY <1>1, <1>4, <2>1 DEF Over
  <1>7. CASE Opens(n)
    <2>1. /\ fate[jobs] = Unselected /\ UNCHANGED chan
          /\ fate' = [fate EXCEPT ![n] =
                 [i \in Items |-> IF Selects(scope[n], i) THEN "waiting" ELSE "out"]]
      BY <1>1, <1>7 DEF Opens, ReachInv
    <2>2. \A i \in Items : fate[jobs][i] = "out" /\ fate'[jobs][i] \in {"out", "waiting"}
      BY <1>1, <2>1, UnselectedIsOut DEF ReachInv
    <2>3. Over(jobs) = {} /\ Over(jobs)' = {}
      BY <1>1, <2>2 DEF Over
    <2> QED
      BY <1>4, <2>1, <2>3
  <1>8. CASE Begins(n)
    <2>1. UNCHANGED chan
          /\ \E i \in Items : fate[n][i] = "waiting" /\ fate' = [fate EXCEPT ![n][i] = "begun"]
      BY <1>8 DEF Begins, Waiting
    <2>2. Over(jobs)' = Over(jobs)
      BY <1>1, <2>1 DEF Over, ReachInv
    <2> QED
      BY <1>4, <2>1, <2>2
  <1>9. CASE Ends(n)
    <2>1. PICK i \in Items, f \in {"removed", "skipped", "failed"} :
              fate[n][i] = "begun" /\ fate' = [fate EXCEPT ![n][i] = f]
      BY <1>9 DEF Ends, InHand
    <2>2. i \notin Over(jobs) /\ Over(jobs)' = Over(jobs) \union {i}
      BY <1>1, <2>1 DEF Over, ReachInv
    <2>3. Cardinality(Over(jobs)') = Cardinality(Over(jobs)) + 1
      BY <2>2, OverIsFinite, FS_AddElement
    <2>4. chan' = Append(chan, Message("event", n, NoPlan)) /\ kind[n] = "apply"
      BY <1>1, <1>9 DEF Ends, EmitsProgress, JobsInv
    <2>5. /\ Message("event", n, NoPlan) \in Messages
          /\ Message("event", n, NoPlan).type = "event" /\ Message("event", n, NoPlan).job = n
      BY DEF Message, Messages, Types
    <2>6. Cardinality(Progress') = Cardinality(Progress) + 1
      BY <1>1, <2>4, <2>5, ProgressAppends
    <2>7. Answered' = {}
      BY <1>1, <2>4, EventAnswersNothing
    <2>8. screen = "Applying"
      BY <1>1, <1>9 DEF Ends, JobsInv, Inv, Busy, Idle
    <2>9. Cardinality(Progress) \in Nat /\ Cardinality(Over(jobs)) \in Nat
      BY ProgressIsFinite, OverIsFinite
    <2> QED
      BY <1>1, <2>3, <2>6, <2>7, <2>8, <2>9 DEF CountInv
  <1> QED
    BY <1>5, <1>6, <1>7, <1>8, <1>9 DEF Work

LEMMA CountStep == Inv /\ JobsInv /\ ReachInv /\ CountInv /\ [Next]_vars => CountInv'
  <1> SUFFICES ASSUME Inv, JobsInv, ReachInv, CountInv, [Next]_vars PROVE CountInv'
    OBVIOUS
  <1>1. ASSUME NEW n \in Jobs, Forward(n) PROVE CountInv'
    <2>1. /\ UNCHANGED <<screen, receipt, shown, jobs, kind, fate>> /\ kind[n] = "scan"
          /\ chan' = Append(chan, Message("event", n, NoPlan))
      BY <1>1 DEF Forward, app, display, JobsInv
    <2>2. Message("event", n, NoPlan) \in Messages /\ Message("event", n, NoPlan).job = n
      BY DEF Message, Messages, Types
    <2>3. Progress' = Progress /\ Answered' = Answered
      BY <2>1, <2>2, ProgressAppends, EventAnswersNothing
    <2>4. Over(jobs)' = Over(jobs)
      BY <2>1 DEF Over
    <2>5. \A i \in Answered' : \A j \in Progress : j < i
      BY <2>3 DEF CountInv
    <2> QED
      BY <2>1, <2>3, <2>4, <2>5, CountKeep
  <1>2. CASE Exit \/ UNCHANGED vars
    <2>1. UNCHANGED <<screen, receipt, shown, jobs, kind, fate, chan>>
      BY <1>2 DEF Exit, vars, app, display, threads
    <2>2. Progress' = Progress /\ Answered' = Answered /\ Over(jobs)' = Over(jobs)
      BY <2>1 DEF Progress, Answered, Over
    <2>3. \A i \in Answered' : \A j \in Progress : j < i
      BY <2>2 DEF CountInv
    <2> QED
      BY <2>1, <2>2, <2>3, CountKeep
  <1> QED
    BY <1>1, <1>2, CountKeyStep, CountDrainStep, CountWorkStep DEF Next

\* "The receipt cannot overtake the final log line": a receipt on the screen
\* is that of a cleanup with nothing in hand, every item of which has been
\* reported, however late a scan's events come in between (spawn_apply).
THEOREM ReceiptsComeLast == Spec => []ReceiptIsLast
  <1>1. ReachInv /\ CountInv => ReceiptIsLast
    <2> SUFFICES ASSUME ReachInv, CountInv, receipt # 0
                 PROVE  InHand(receipt) = {} /\ shown = Cardinality(Over(receipt))
      BY DEF ReceiptIsLast, Over
    <2>1. receipt = jobs /\ Progress = {} /\ InHand(jobs) = {}
      BY DEF ReachInv, CountInv
    <2>2. shown + 0 = Cardinality(Over(jobs)) /\ shown \in Nat
      BY <2>1, NothingCounted DEF CountInv
    <2> QED
      BY <2>1, <2>2
  <1> QED
    BY InvInit, InvStep, JobsInit, JobsStep, TicksInit, TicksStep, ReachInit, ReachStep,
       CountInit, CountStep, <1>1, PTL DEF Spec

-----------------------------------------------------------------------------
(* The types.                                                              *)

\* What the invariants above leave open; a forwarder passes on no more than
\* its scan has found.
TypeInv ==
    /\ plan \in Plans \union {NoPlan}
    /\ rows \in Seq(Items) /\ ticked \subseteq Nat
    /\ seen \in Nat
    /\ loop \in {"running", "left", "gone"} /\ cancel \in BOOLEAN
    /\ code \in {0, 1, 5}
    /\ scope \in [Jobs -> [plan : Plans \union {NoPlan}, tiers : SUBSET Tiers,
                           names : (SUBSET Names) \union {AllNames}]]
    /\ found \in [Jobs -> 0..MaxFound]
    /\ \A n \in Jobs : pending[n] <= found[n]

LEMMA RowsAreItems ==
    ASSUME NEW p, NEW g, NEW s \in RowOrders(p, g)
    PROVE  s \in Seq(Items)
  <1>1. OfTiers(p, GroupTiers(g)) \subseteq Items
    BY DEF OfTiers
  <1>2. Cardinality(OfTiers(p, GroupTiers(g))) \in Nat
    BY <1>1, TuiAssumption, FS_Subset, FS_CardinalityType
  <1>3. s \in [1..Cardinality(OfTiers(p, GroupTiers(g))) -> OfTiers(p, GroupTiers(g))]
    BY DEF RowOrders
  <1>4. s \in [1..Cardinality(OfTiers(p, GroupTiers(g))) -> Items]
    BY <1>1, <1>3
  <1> QED
    BY <1>2, <1>4

LEMMA TypeInit == Init => TypeInv
  <1> SUFFICES ASSUME Init PROVE TypeInv
    OBVIOUS
  <1>1. scope \in [Jobs -> [plan : Plans \union {NoPlan}, tiers : SUBSET Tiers,
                           names : (SUBSET Names) \union {AllNames}]]
    BY DEF Init, NoScope
  <1>2. found \in [Jobs -> 0..MaxFound] /\ \A n \in Jobs : pending[n] <= found[n]
    BY TuiAssumption DEF Init
  <1>3. rows \in Seq(Items) /\ ticked \subseteq Nat
    BY DEF Init
  <1> QED
    BY <1>1, <1>2, <1>3 DEF Init, TypeInv

LEMMA TypeSpawns ==
    ASSUME JobsInv, TypeInv, NEW k, Spawn(k)
    PROVE  UNCHANGED <<found, pending>> /\ jobs + 1 \in Jobs
  BY TuiAssumption DEF Spawn, JobsInv, Jobs

LEMMA TypeBegins ==
    ASSUME JobsInv, TypeInv, NEW tiers \in SUBSET Tiers,
           NEW names \in (SUBSET Names) \union {AllNames}, NEW unlocks,
           BeginApply(tiers, names, unlocks)
    PROVE  TypeInv'
  <1>1. [plan |-> plan, tiers |-> tiers, names |-> names]
            \in [plan : Plans \union {NoPlan}, tiers : SUBSET Tiers,
                 names : (SUBSET Names) \union {AllNames}]
    BY DEF TypeInv
  <1>2. UNCHANGED <<found, pending>> /\ jobs + 1 \in Jobs
    BY TypeSpawns DEF BeginApply
  <1> QED
    BY <1>1, <1>2 DEF TypeInv, BeginApply, review, process

LEMMA TypeKeyStep == JobsInv /\ TicksInv /\ TypeInv /\ Key => TypeInv'
  <1> SUFFICES ASSUME JobsInv, TicksInv, TypeInv, Key PROVE TypeInv'
    OBVIOUS
  <1>1. ASSUME Leave PROVE TypeInv'
    BY <1>1 DEF Leave, ExitCode, TypeInv, app, review, display, threads
  <1>2. ASSUME Rescan PROVE TypeInv'
    <2>1. UNCHANGED <<found, pending, process>>
      BY <1>2 DEF Rescan, Spawn
    <2>2. scope' \in [Jobs -> [plan : Plans \union {NoPlan}, tiers : SUBSET Tiers,
                               names : (SUBSET Names) \union {AllNames}]]
      BY <1>2 DEF Rescan, NoScope
    <2>3. plan' = NoPlan /\ rows' = <<>> /\ ticked' = {} /\ seen' = 0
      BY <1>2 DEF Rescan
    <2> QED
      BY <2>1, <2>2, <2>3 DEF TypeInv, process
  <1>3. ASSUME NEW g, OpenReview(g) PROVE TypeInv'
    BY <1>3, RowsAreItems DEF OpenReview, TypeInv, display, process, threads
  <1>4. CASE KeyQuit \/ KeyHardQuit
    BY <1>1, <1>4 DEF KeyQuit, KeyHardQuit
  <1>5. CASE KeyMainEnter
    <2>1. {"free"} \in SUBSET Tiers
      BY DEF Tiers
    <2> QED
      BY <1>2, <1>3, <1>5, <2>1, TypeBegins DEF KeyMainEnter
  <1>6. CASE KeyReviewTick
    <2>1. DOMAIN rows \subseteq Nat
      BY DEF TypeInv
    <2>2. ticked' \subseteq Nat
      BY <1>6, <2>1 DEF KeyReviewTick, Toggled, TypeInv
    <2> QED
      BY <1>6, <2>2 DEF KeyReviewTick, TypeInv, display, process, threads
  <1>7. CASE UNCHANGED <<review, display, process, threads, chan>>
    BY <1>7 DEF TypeInv, review, display, process, threads
  <1>8. CASE KeyConfirm
    <2>1. SelectedItems \subseteq Items
      BY DEF SelectedItems, TicksInv
    <2>2. {NameOf[i] : i \in SelectedItems} \in SUBSET Names
      BY <2>1 DEF Names
    <2>3. plan # NoPlan => {plan[i] : i \in SelectedItems} \in SUBSET Tiers
      BY <2>1, TuiAssumption DEF TypeInv
    <2>4. ASSUME BeginApply({plan[i] : i \in SelectedItems},
                            {NameOf[i] : i \in SelectedItems}, promised)
          PROVE  TypeInv'
      <3>1. {plan[i] : i \in SelectedItems} \in SUBSET Tiers
        BY <2>3, <2>4 DEF BeginApply
      <3> QED
        BY <2>2, <2>4, <3>1, TypeBegins
    <2> QED
      BY <1>7, <1>8, <2>4 DEF KeyConfirm
  <1>9. CASE KeyReviewLeave
    BY <1>7, <1>9 DEF KeyReviewLeave
  <1>10. CASE KeyRescan
    BY <1>2, <1>10 DEF KeyRescan
  <1> QED
    BY <1>4, <1>5, <1>6, <1>8, <1>9, <1>10 DEF Key

LEMMA TypeDrainStep == Inv /\ JobsInv /\ TypeInv /\ Drain => TypeInv'
  <1> SUFFICES ASSUME Inv, JobsInv, TypeInv, Drain PROVE TypeInv'
    OBVIOUS
  <1>1. UNCHANGED <<process, threads>> /\ chan # <<>> /\ chan' = Tail(chan)
    BY DEF Drain
  <1>2. Head(chan).type = "ready" => Head(chan).plan \in Plans
    BY <1>1, Drained DEF Answered, JobsInv
  <1>3. plan' \in Plans \union {NoPlan} /\ seen' \in Nat
    BY <1>2 DEF Drain, DrainEvent, DrainReady, DrainApplied, DrainFailed, TypeInv, display
  <1>4. rows' \in Seq(Items) /\ ticked' \subseteq Nat
    BY RowsAreItems
       DEF Drain, DrainEvent, DrainReady, DrainApplied, DrainFailed, TypeInv, review
  <1> QED
    BY <1>1, <1>3, <1>4 DEF TypeInv, process, threads

LEMMA TypeStep == Inv /\ JobsInv /\ TicksInv /\ TypeInv /\ [Next]_vars => TypeInv'
  <1> SUFFICES ASSUME Inv, JobsInv, TicksInv, TypeInv, [Next]_vars PROVE TypeInv'
    OBVIOUS
  <1>1. ASSUME UNCHANGED <<app, process, scope, found>>, pending' = pending PROVE TypeInv'
    BY <1>1 DEF TypeInv, app, review, display, process
  <1>2. ASSUME NEW n \in Jobs, Forward(n) PROVE TypeInv'
    <2>1. \A m \in Jobs : pending'[m] <= found[m]
      BY <1>2, TuiAssumption DEF Forward, JobsInv, TypeInv
    <2> QED
      BY <1>2, <2>1 DEF Forward, TypeInv, app, review, display, process
  <1>3. ASSUME NEW n \in Jobs, Work(n) PROVE TypeInv'
    <2>1. CASE Finds(n)
      <3>1. /\ found[n] < MaxFound /\ found' = [found EXCEPT ![n] = @ + 1]
            /\ pending' = [pending EXCEPT ![n] = @ + 1]
            /\ UNCHANGED <<app, process, scope>>
        BY <2>1 DEF Finds, EmitsToForwarder
      <3>2. found' \in [Jobs -> 0..MaxFound] /\ \A m \in Jobs : pending'[m] <= found'[m]
        BY <3>1, TuiAssumption DEF JobsInv, TypeInv
      <3> QED
        BY <3>1, <3>2 DEF TypeInv, app, review, display, process
    <2> QED
      BY <1>1, <1>3, <2>1
         DEF Work, Fails, Connects, Ready, ReScanned, Opens, Begins, Ends, Applies, Answers,
             EmitsProgress
  <1>4. CASE Exit
    BY <1>4 DEF Exit, TypeInv, app, review, display, threads
  <1>5. CASE UNCHANGED vars
    BY <1>1, <1>5 DEF vars, threads
  <1> QED
    BY <1>2, <1>3, <1>4, <1>5, TypeKeyStep, TypeDrainStep DEF Next

\* The state keeps its types: the channel carries messages of threads there
\* are, rows are of items, and no forwarder has more to pass on than was found.
THEOREM TypeCorrect == Spec => []TypeOK
  <1>1. Inv /\ JobsInv /\ TicksInv /\ ReachInv /\ CountInv /\ TypeInv => TypeOK
    <2> SUFFICES ASSUME Inv, JobsInv, TicksInv, ReachInv, CountInv, TypeInv PROVE TypeOK
      OBVIOUS
    <2>1. /\ screen \in {"Scanning", "Main", "Review", "Confirm", "Applying", "Finished"}
          /\ jobs \in Jobs /\ kind \in [Jobs -> {"scan", "apply"}]
      BY DEF JobsInv, Idle
    <2>2. picked \in SUBSET Items
      BY DEF TicksInv, TicksAreTheUsers, SelectedItems
    <2>3. receipt \in 0..MaxJobs
      BY <2>1, TuiAssumption DEF ReachInv, Jobs
    <2>4. promised \in SUBSET Items /\ fate \in [Jobs -> [Items -> Fates]] /\ shown \in Nat
      BY DEF ReachInv, CountInv
    <2>5. pending \in [Jobs -> 0..MaxFound]
      <3>1. \A n \in Jobs : pending[n] \in 0..MaxFound
        BY TuiAssumption DEF JobsInv, TypeInv
      <3> QED
        BY <3>1 DEF JobsInv
    <2>6. /\ at \in [Jobs -> {"unborn", "connecting", "scanning", "opening", "working", "done"}]
          /\ chan \in Seq([type : {"event", "ready", "applied", "failed"}, job : Jobs,
                           plan : Plans \union {NoPlan}])
      BY DEF Inv, Steps, Messages, Types
    <2> QED
      BY <2>1, <2>2, <2>3, <2>4, <2>5, <2>6 DEF TypeOK, TypeInv
  <1> QED
    BY InvInit, InvStep, JobsInit, JobsStep, TicksInit, TicksStep, ReachInit, ReachStep,
       CountInit, CountStep, TypeInit, TypeStep, <1>1, PTL DEF Spec
=============================================================================
