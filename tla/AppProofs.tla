----------------------------- MODULE AppProofs -----------------------------
(***************************************************************************)
(* That the app never quits over an operation, that a scan it shows as     *)
(* complete is what the helper said, and that only such a scan is acted    *)
(* on: for any settings, any number of operations and lines, and pipes of  *)
(* any size.  What has to be known of every state is where the end of an   *)
(* operation is, which is told last, once the helper is gone; and what     *)
(* becomes of the lines on their way from the helper to the page.          *)
(***************************************************************************)
EXTENDS App, TLAPS, FiniteSetTheorems

Lines == {"started", "report", "item", "refused", "noise"} \X Nat
Ends == {"exit"} \X Nat
Messages == ({"started", "report", "item"} \X Nat) \union ({"finish"} \X BOOLEAN)

\* What the helper is about to say, what is in the pipe and in the queue.
Spoken ==
    /\ wants = Nothing \/ wants \in Lines \union Ends
    /\ out \in Seq(Lines)
    /\ main \in Seq(Messages)
    /\ inspects \in Nat
    /\ IsFiniteSet(sent)

\* Nothing is under way unless the app is busy, and then the end of it comes
\* last.
Ordered ==
    /\ helper \in {"none", "starting", "running", "exited"}
    /\ ~busy => helper = "none" /\ main = <<>>
    /\ helper \in {"none", "starting"} => reader = "none"
    /\ helper = "starting" => main = <<>>
    /\ \A i \in 1..Len(main) : main[i][1] = "finish" => i = Len(main) /\ helper = "none"
    /\ ~up => ~busy

Inv == Spoken /\ Ordered

LEMMA InvInit == Init => Inv
  <1> SUFFICES ASSUME Init PROVE Inv
    OBVIOUS
  <1>1. Spoken
    BY FS_EmptySet DEF Init, Spoken
  <1>2. Ordered
    BY DEF Init, Ordered, busy
  <1> QED
    BY <1>1, <1>2 DEF Inv

\* What all steps but those of the helper and the reader leave in order: no
\* operation is begun but by an app that is up and idle.
LEMMA UserKeepsOrder ==
    ASSUME Inv, up,
           \/ UNCHANGED <<state, service>> /\ (~up' => ~busy)
           \/ ~busy /\ ~busy' /\ UNCHANGED service
           \/ ~busy /\ (\E isScan \in BOOLEAN : run(isScan)) /\ UNCHANGED up,
           UNCHANGED main
    PROVE  Inv'
  <1>1. CASE UNCHANGED <<state, service>> /\ (~up' => ~busy)
    BY <1>1 DEF Inv, Spoken, Ordered, busy, service, process
  <1>2. CASE ~busy /\ ~busy' /\ UNCHANGED service
    BY <1>2 DEF Inv, Spoken, Ordered, busy, service, process
  <1>3. CASE ~busy /\ (\E isScan \in BOOLEAN : run(isScan)) /\ UNCHANGED up
    <2>1. /\ state' = "scanning" /\ helper' = "starting" /\ wants' = Nothing
          /\ inspects' = 0 /\ sent' = {} /\ UNCHANGED <<out, reader, main>>
      BY <1>3 DEF run
    <2>2. helper = "none" /\ main = <<>> /\ reader = "none"
      BY <1>3 DEF Inv, Ordered
    <2>3. Spoken'
      BY <2>1, FS_EmptySet DEF Inv, Spoken
    <2>4. Ordered'
      BY <1>3, <2>1, <2>2 DEF Ordered, busy
    <2> QED
      BY <2>3, <2>4 DEF Inv
  <1> QED
    BY <1>1, <1>2, <1>3

LEMMA ScanBegins ==
    ASSUME scan
    PROVE  \/ UNCHANGED <<state, service>>
           \/ ~busy /\ ~busy' /\ UNCHANGED service
           \/ ~busy /\ run(TRUE)
  BY DEF scan, busy, model

LEMMA UserStep == Inv /\ User => Inv'
  <1> SUFFICES ASSUME Inv, User PROVE Inv'
    OBVIOUS
  <1>1. up /\ UNCHANGED main
    BY DEF User, Scan, LeaveResources, ChangeResources, Command, Review, Cancel, Confirm,
           EditOptions, SelectTiers, Settles, Starts, Quit
  <1>2. CASE Scan
    BY <1>1, <1>2, ScanBegins, UserKeepsOrder DEF Scan, Starts
  <1>3. CASE LeaveResources \/ ChangeResources
    BY <1>1, <1>3, UserKeepsOrder DEF LeaveResources, ChangeResources, Command, Starts
  <1>4. CASE Review \/ Cancel \/ EditOptions \/ SelectTiers
    BY <1>1, <1>4, UserKeepsOrder DEF Review, Cancel, EditOptions, SelectTiers, Settles,
                                      Starts
  <1>5. CASE Confirm
    BY <1>1, <1>5, UserKeepsOrder DEF Confirm, reclaim, Starts
  <1>6. CASE Quit
    BY <1>1, <1>6, UserKeepsOrder DEF Quit, model
  <1> QED
    BY <1>2, <1>3, <1>4, <1>5, <1>6 DEF User

LEMMA SparkleStep ==
    ASSUME Inv,
           \/ Sparkle(ChecksOnSchedule) \/ Sparkle(ChecksForTheUser) \/ Sparkle(Attends)
           \/ Sparkle(FindsNothing) \/ Sparkle(Finds) \/ Answers
           \/ Sparkle(BoundPasses) \/ RefusesInstall
    PROVE  Inv'
  <1>1. up /\ UNCHANGED <<up, main>>
    BY DEF Sparkle, Answers, Accepted, RefusesInstall
  <1>2. \/ UNCHANGED <<model, service>>
        \/ scan
    BY DEF Sparkle, Answers, Accepted, RefusesInstall, ChecksOnSchedule, ChecksForTheUser,
           Attends, FindsNothing, Finds, Dismissed, BoundPasses, Becomes, EndsCycle,
           releaseFirstScan
  <1> QED
    BY <1>1, <1>2, ScanBegins, UserKeepsOrder DEF model

\* The helper writes, and exits, only while it runs.
LEMMA HelperStep == Inv /\ Helper => Inv'
  <1> SUFFICES ASSUME Inv, Helper PROVE Inv'
    OBVIOUS
  <1>1. /\ helper = "running" /\ helper' \in {"running", "exited"}
        /\ UNCHANGED <<up, state, main, reader>>
    BY DEF Helper, Beside, Decides, Writes, Exits, model
  <1>2. Ordered'
    BY <1>1 DEF Inv, Ordered, busy
  <1>3. Spoken'
    <2>1. CASE Beside(Decides)
      <3>1. Says \subseteq Lines
        <4>1. inspects + 1 \in Nat /\ Cardinality(sent) + 1 \in Nat
          BY FS_CardinalityType DEF Inv, Spoken
        <4> QED
          BY <4>1 DEF Says, Lines
      <3>2. wants' \in Lines \union Ends
        BY <2>1, <3>1 DEF Beside, Decides, Ends
      <3> QED
        BY <2>1, <3>2 DEF Beside, Decides, Inv, Spoken
    <2>2. CASE Beside(Writes)
      <3>1. wants \in Lines
        BY <2>2 DEF Beside, Writes, Inv, Spoken, Ends
      <3>2. out' \in Seq(Lines) /\ wants' = Nothing /\ UNCHANGED main
        BY <2>2, <3>1 DEF Beside, Writes, Inv, Spoken
      <3>3. inspects' \in Nat
        BY <2>2, <3>1 DEF Beside, Writes, Inv, Spoken, Lines
      <3>4. IsFiniteSet(sent')
        BY <2>2, FS_AddElement DEF Beside, Writes, Inv, Spoken
      <3> QED
        BY <3>2, <3>3, <3>4 DEF Inv, Spoken
    <2>3. CASE Beside(Exits)
      BY <2>3 DEF Beside, Exits, Inv, Spoken
    <2> QED
      BY <2>1, <2>2, <2>3 DEF Helper
  <1> QED
    BY <1>2, <1>3 DEF Inv

\* The reader tells of the end after everything it has read, and only once
\* the helper has exited, or was never started.
LEMMA StdoutStep == Inv /\ Stdout => Inv'
  <1> SUFFICES ASSUME Inv, Stdout PROVE Inv'
    OBVIOUS
  <1>0. UNCHANGED <<up, state>>
    BY DEF Stdout, Beside, model
  <1>1. CASE Beside(Launches)
    <2>1. CASE helper' = "running" /\ reader' = "reads" /\ UNCHANGED main
      BY <1>0, <1>1, <2>1 DEF Beside, Launches, Inv, Spoken, Ordered, busy
    <2>2. CASE helper' = "none" /\ main' = Finish(TRUE) /\ UNCHANGED reader
      <3>1. helper = "starting" /\ main = <<>> /\ busy
        BY <1>1 DEF Beside, Launches, Inv, Ordered
      <3>2. main' = <<<<"finish", TRUE>>>>
        BY <2>2, <3>1 DEF Finish
      <3>3. main' \in Seq(Messages)
        <4>1. <<"finish", TRUE>> \in Messages
          BY DEF Messages
        <4> QED
          BY <3>2, <4>1
      <3>4. Spoken'
        BY <1>1, <3>3 DEF Beside, Launches, Inv, Spoken
      <3>5. Ordered'
        <4>1. Len(main') = 1 /\ busy' /\ helper' = "none" /\ reader' = "none"
          BY <1>0, <2>2, <3>1, <3>2 DEF Inv, Ordered, busy
        <4>2. \A i \in 1..Len(main') : i = Len(main')
          BY <4>1
        <4> QED
          BY <1>0, <3>1, <4>1, <4>2 DEF Inv, Ordered, busy
      <3> QED
        BY <3>4, <3>5 DEF Inv
    <2> QED
      BY <1>1, <2>1, <2>2 DEF Beside, Launches
  <1>2. CASE Beside(Reads)
    <2>1. /\ reader = "reads" /\ out # <<>> /\ out' = Tail(out) /\ UNCHANGED <<process, err>>
          /\ reader' \in {"reads", "stops"}
          /\ \/ UNCHANGED main
             \/ Decodes(Head(out)) /\ main' = Append(main, Head(out))
      BY <1>2 DEF Beside, Reads
    <2>2. Head(out) \in Lines /\ out' \in Seq(Lines)
      BY <2>1 DEF Inv, Spoken
    <2>3. helper \in {"running", "exited"} /\ helper' = helper /\ busy
      BY <2>1 DEF Inv, Ordered, process
    <2>4. CASE UNCHANGED main
      BY <1>0, <2>1, <2>2, <2>3, <2>4 DEF Inv, Spoken, Ordered, busy, process
    <2>5. CASE Decodes(Head(out)) /\ main' = Append(main, Head(out))
      <3>1. Head(out) \in Messages /\ Head(out)[1] # "finish"
        BY <2>2, <2>5 DEF Lines, Messages, Decodes
      <3>2. main' \in Seq(Messages)
        BY <2>5, <3>1 DEF Inv, Spoken
      <3>3. \A i \in 1..Len(main') : main'[i][1] # "finish"
        BY <2>3, <2>5, <3>1 DEF Inv, Spoken, Ordered
      <3>4. Spoken'
        BY <2>1, <2>2, <3>2 DEF Inv, Spoken, process
      <3>5. Ordered'
        BY <1>0, <2>1, <2>3, <3>3 DEF Inv, Ordered, busy
      <3> QED
        BY <3>4, <3>5 DEF Inv
    <2> QED
      BY <2>1, <2>4, <2>5
  <1>3. CASE Beside(ReadsAll) \/ Beside(Terminates)
    <2>1. /\ reader \in {"reads", "stops"} /\ reader' \in {"awaits", "stopped"}
          /\ UNCHANGED <<out, main, inspects, sent>>
          /\ \/ UNCHANGED <<helper, wants>>
             \/ helper' = "exited" /\ wants' = Nothing
      BY <1>3 DEF Beside, ReadsAll, Terminates, process
    <2>2. helper \in {"running", "exited"} /\ helper' \in {"running", "exited"} /\ busy
      BY <2>1 DEF Inv, Ordered
    <2> QED
      BY <1>0, <2>1, <2>2 DEF Inv, Spoken, Ordered, busy
  <1>4. CASE Beside(Awaits)
    <2>1. /\ helper = "exited" /\ helper' = "none" /\ reader' = "none"
          /\ main' = Append(main, <<"finish", HasFailed>>)
          /\ out' = <<>> /\ inspects' = 0 /\ UNCHANGED <<wants, sent>>
      BY <1>4 DEF Beside, Awaits, Finish
    <2>2. busy /\ \A i \in 1..Len(main) : main[i][1] # "finish"
      BY <2>1 DEF Inv, Ordered
    <2>3. <<"finish", HasFailed>> \in Messages
      BY DEF Messages, HasFailed
    <2>4. Spoken'
      BY <2>1, <2>3 DEF Inv, Spoken
    <2>5. \A i \in 1..Len(main') : main'[i][1] = "finish" => i = Len(main')
      BY <2>1, <2>2, <2>3 DEF Inv, Spoken
    <2>6. Ordered'
      BY <1>0, <2>1, <2>2, <2>5 DEF Inv, Ordered, busy
    <2> QED
      BY <2>4, <2>6 DEF Inv
  <1> QED
    BY <1>1, <1>2, <1>3, <1>4 DEF Stdout

\* The queue is emptied by the message that ends the operation.
LEMMA QueueStep == Inv /\ (Applies \/ Finishes) => Inv'
  <1> SUFFICES ASSUME Inv, Applies \/ Finishes PROVE Inv'
    OBVIOUS
  <1>1. /\ up /\ up' /\ main # <<>> /\ main' = Tail(main)
        /\ UNCHANGED <<service, process, helper, wants, inspects, sent, out, reader>>
    BY DEF Applies, Finishes, Delivers, service, process
  <1>2. Spoken'
    BY <1>1 DEF Inv, Spoken
  <1>3. /\ Len(main) > 0 /\ Len(main') = Len(main) - 1
        /\ \A i \in 1..Len(main') : main'[i] = main[i + 1]
        /\ Head(main) = main[1]
    BY <1>1 DEF Inv, Spoken
  <1>4. \A i \in 1..Len(main') : main'[i][1] = "finish" => i = Len(main') /\ helper' = "none"
    <2> SUFFICES ASSUME NEW i \in 1..Len(main'), main'[i][1] = "finish"
                 PROVE  i = Len(main') /\ helper' = "none"
      OBVIOUS
    <2>1. Len(main) \in Nat /\ i + 1 \in 1..Len(main) /\ main[i + 1][1] = "finish"
      BY <1>3 DEF Inv, Spoken
    <2>2. i + 1 = Len(main) /\ helper = "none"
      BY <2>1 DEF Inv, Ordered
    <2>3. i \in Int /\ helper' = helper
      BY <1>1, <1>3, <2>1
    <2> QED
      BY <1>3, <2>1, <2>2, <2>3
  <1>5. busy /\ helper # "starting"
    BY <1>1 DEF Inv, Ordered
  <1>6. CASE Applies
    <2>1. UNCHANGED state
      BY <1>6 DEF Applies
    <2> QED
      BY <1>1, <1>2, <1>4, <1>5, <2>1 DEF Inv, Ordered, busy
  <1>7. CASE Finishes
    <2>1. main[1][1] = "finish"
      BY <1>3, <1>7 DEF Finishes
    <2>2. Len(main) = 1 /\ helper = "none"
      BY <1>3, <2>1 DEF Inv, Ordered, Spoken
    <2>3. main' = <<>>
      BY <1>2, <1>3, <2>2 DEF Spoken
    <2> QED
      BY <1>1, <1>2, <1>5, <2>2, <2>3 DEF Inv, Ordered, busy
  <1> QED
    BY <1>6, <1>7

LEMMA InvStep == Inv /\ [Next]_vars => Inv'
  <1>1. Inv /\ Stderr => Inv'
    BY DEF Stderr, Beside, Drains, Inv, Spoken, Ordered, busy, process, model
  <1>2. Inv /\ UNCHANGED vars => Inv'
    BY DEF vars, model, service, process, Inv, Spoken, Ordered, busy
  <1> QED
    BY <1>1, <1>2, UserStep, SparkleStep, HelperStep, StdoutStep, QueueStep DEF Next

\* However an operation goes, the app is not gone while its helper is, or
\* before the user was told of the end: neither the user's quitting nor the
\* install of an update cuts a cleanup short.
THEOREM NothingCutShort == Spec => []NothingIsCutShort
  <1>1. Inv => NothingIsCutShort
    BY DEF Inv, Ordered, NothingIsCutShort
  <1> QED
    BY InvInit, InvStep, <1>1, PTL DEF Spec

-----------------------------------------------------------------------------
(* What is on its way from the helper to the page: the queue, and behind   *)
(* it the pipe.                                                            *)

OnTheWay == main \o out

\* Once all of s before it is applied to a model that is at context at, line k
\* will be taken to speak of context c.
Under(s, at, k, c) ==
    \/ \E j \in 1..Len(s) :
           /\ j < k /\ s[j][1] = "started" /\ s[j][2] = c
           /\ \A i \in 1..Len(s) : j < i /\ i < k => s[i][1] # "started"
    \/ /\ c = at
       /\ \A i \in 1..Len(s) : i < k => s[i][1] # "started"

\* What is shown and what will be, together, are what the helper has said, of
\* the context it said it of; and the helper is where its next line will be
\* taken to be.
Whole(s, at, shown, said, here) ==
    /\ shown \subseteq said
    /\ \A k \in 1..Len(s) : \A c \in Nat :
           s[k][1] = "item" /\ Under(s, at, k, c) => <<c, s[k][2]>> \in said
    /\ \A x \in said :
           \/ x \in shown
           \/ \E k \in 1..Len(s) :
                  s[k][1] = "item" /\ s[k][2] = x[2] /\ Under(s, at, k, x[1])
    /\ here > 0 => Under(s, at, Len(s) + 1, here)

\* A line was refused, so the operation will be called failed.
Refused ==
    \/ reader \in {"stops", "stopped"}
    \/ \E i \in 1..Len(main) : main[i][1] = "finish" /\ main[i][2]

PipeInv ==
    /\ context \in Nat /\ sent \subseteq Nat \X Nat
    /\ helper \in {"none", "starting"} => out = <<>>
    /\ helper # "running" => wants = Nothing
    /\ reader = "awaits" => out = <<>> /\ helper = "exited"
    /\ reported => inspects > 0
    /\ wants # Nothing /\ wants[1] = "item" => inspects > 0
    /\ collecting /\ wants # Nothing /\ wants[1] = "report" => inspects > 0
    /\ busy /\ collecting /\ ~Refused => Whole(OnTheWay, context, items, sent, inspects)
    /\ ReportIsWhole

Anything == Lines \union Messages

\* No line can be taken to speak of two contexts.
LEMMA OneContext ==
    ASSUME NEW s \in Seq(Anything), NEW at, NEW k \in Int, NEW c, NEW d,
           Under(s, at, k, c), Under(s, at, k, d)
    PROVE  c = d
  BY DEF Under

\* What is added last changes nothing for the lines before it.
LEMMA UnderAppend ==
    ASSUME NEW s \in Seq(Anything), NEW m \in Anything, NEW at, NEW c
    PROVE  /\ Append(s, m) \in Seq(Anything) /\ Len(Append(s, m)) = Len(s) + 1
           /\ Len(s) \in Nat
           /\ \A k \in 1..Len(s) : Append(s, m)[k] = s[k]
           /\ Append(s, m)[Len(s) + 1] = m
           /\ \A k \in 1..(Len(s) + 1) :
                  Under(Append(s, m), at, k, c) <=> Under(s, at, k, c)
           /\ m[1] # "started" =>
                  (Under(Append(s, m), at, Len(s) + 2, c) <=> Under(s, at, Len(s) + 1, c))
           /\ m[1] = "started" /\ m[2] = c => Under(Append(s, m), at, Len(s) + 2, c)
  <1> DEFINE t == Append(s, m)
  <1>1. /\ t \in Seq(Anything) /\ Len(t) = Len(s) + 1 /\ Len(s) \in Nat
        /\ \A k \in 1..Len(s) : t[k] = s[k]
        /\ t[Len(s) + 1] = m
    OBVIOUS
  <1> HIDE DEF t
  <1>2. ASSUME NEW k \in 1..(Len(s) + 1) PROVE Under(t, at, k, c) <=> Under(s, at, k, c)
    BY <1>1 DEF Under
  <1>3. ASSUME m[1] # "started"
        PROVE  Under(t, at, Len(s) + 2, c) <=> Under(s, at, Len(s) + 1, c)
    BY <1>1, <1>3 DEF Under
  <1>4. ASSUME m[1] = "started", m[2] = c PROVE Under(t, at, Len(s) + 2, c)
    BY <1>1, <1>4 DEF Under
  <1> QED
    BY <1>1, <1>2, <1>3, <1>4 DEF t

\* Where the model is takes the place of the line that told it.
LEMMA UnderTail ==
    ASSUME NEW s \in Seq(Anything), s # <<>>, NEW at, NEW now,
           now = IF s[1][1] = "started" THEN s[1][2] ELSE at, NEW c
    PROVE  /\ Tail(s) \in Seq(Anything) /\ Len(Tail(s)) = Len(s) - 1 /\ Len(s) \in Nat \ {0}
           /\ \A k \in 1..(Len(s) - 1) : Tail(s)[k] = s[k + 1]
           /\ \A k \in 1..Len(s) : Under(Tail(s), now, k, c) <=> Under(s, at, k + 1, c)
           /\ Under(s, at, 1, c) <=> c = at
  <1> DEFINE t == Tail(s)
  <1>1. /\ t \in Seq(Anything) /\ Len(t) = Len(s) - 1 /\ Len(s) \in Nat \ {0}
        /\ \A k \in 1..(Len(s) - 1) : t[k] = s[k + 1]
    OBVIOUS
  <1> HIDE DEF t
  <1>2. ASSUME NEW k \in 1..Len(s) PROVE Under(t, now, k, c) <=> Under(s, at, k + 1, c)
    <2>1. Under(t, now, k, c) => Under(s, at, k + 1, c)
      <3>1. CASE \E j \in 1..Len(t) :
                     /\ j < k /\ t[j][1] = "started" /\ t[j][2] = c
                     /\ \A i \in 1..Len(t) : j < i /\ i < k => t[i][1] # "started"
        <4>1. PICK j \in 1..Len(t) :
                     /\ j < k /\ t[j][1] = "started" /\ t[j][2] = c
                     /\ \A i \in 1..Len(t) : j < i /\ i < k => t[i][1] # "started"
          BY <3>1
        <4>2. j + 1 \in 1..Len(s) /\ s[j + 1] = t[j]
          BY <1>1
        <4>3. \A i \in 1..Len(s) : j + 1 < i /\ i < k + 1 => s[i][1] # "started"
          <5> SUFFICES ASSUME NEW i \in 1..Len(s), j + 1 < i, i < k + 1
                       PROVE  s[i][1] # "started"
            OBVIOUS
          <5>1. i - 1 \in 1..Len(t) /\ j < i - 1 /\ i - 1 < k /\ (i - 1) + 1 = i
            BY <1>1
          <5> QED
            BY <1>1, <4>1, <5>1
        <4>4. j + 1 < k + 1 /\ s[j + 1][1] = "started" /\ s[j + 1][2] = c
          BY <4>1, <4>2
        <4> QED
          BY <4>2, <4>3, <4>4 DEF Under
      <3>2. CASE c = now /\ \A i \in 1..Len(t) : i < k => t[i][1] # "started"
        <4>1. \A i \in 2..Len(s) : i < k + 1 => s[i][1] # "started"
          <5> SUFFICES ASSUME NEW i \in 2..Len(s), i < k + 1 PROVE s[i][1] # "started"
            OBVIOUS
          <5>1. i - 1 \in 1..Len(t) /\ i - 1 < k /\ (i - 1) + 1 = i
            BY <1>1
          <5> QED
            BY <1>1, <3>2, <5>1
        <4>2. CASE s[1][1] = "started"
          BY <1>1, <3>2, <4>1, <4>2 DEF Under
        <4>3. CASE s[1][1] # "started"
          BY <1>1, <3>2, <4>1, <4>3 DEF Under
        <4> QED
          BY <4>2, <4>3
      <3> QED
        BY <3>1, <3>2 DEF Under
    <2>2. Under(s, at, k + 1, c) => Under(t, now, k, c)
      <3>0. ASSUME NEW i \in 1..Len(t) PROVE i + 1 \in 1..Len(s) /\ t[i] = s[i + 1]
        BY <1>1
      <3>1. CASE \E j \in 1..Len(s) :
                     /\ j < k + 1 /\ s[j][1] = "started" /\ s[j][2] = c
                     /\ \A i \in 1..Len(s) : j < i /\ i < k + 1 => s[i][1] # "started"
        <4>1. PICK j \in 1..Len(s) :
                     /\ j < k + 1 /\ s[j][1] = "started" /\ s[j][2] = c
                     /\ \A i \in 1..Len(s) : j < i /\ i < k + 1 => s[i][1] # "started"
          BY <3>1
        <4>2. \A i \in 1..Len(t) : j < i + 1 /\ i < k => t[i][1] # "started"
          BY <3>0, <4>1
        <4>3. CASE j = 1
          <5>1. c = now
            BY <4>1, <4>3
          <5> QED
            BY <1>1, <4>2, <4>3, <5>1 DEF Under
        <4>4. CASE j # 1
          <5>1. j - 1 \in 1..Len(t) /\ (j - 1) + 1 = j /\ j - 1 < k
            BY <1>1, <4>1, <4>4
          <5>2. t[j - 1] = s[j]
            BY <3>0, <5>1
          <5>3. \A i \in 1..Len(t) : j - 1 < i /\ i < k => t[i][1] # "started"
            BY <1>1, <4>2
          <5> QED
            BY <4>1, <5>1, <5>2, <5>3 DEF Under
        <4> QED
          BY <4>3, <4>4
      <3>2. CASE c = at /\ \A i \in 1..Len(s) : i < k + 1 => s[i][1] # "started"
        <4>1. c = now
          BY <1>1, <3>2
        <4>2. \A i \in 1..Len(t) : i < k => t[i][1] # "started"
          BY <1>1, <3>0, <3>2
        <4> QED
          BY <4>1, <4>2 DEF Under
      <3> QED
        BY <3>1, <3>2 DEF Under
    <2> QED
      BY <2>1, <2>2
  <1>3. Under(s, at, 1, c) <=> c = at
    BY <1>1 DEF Under
  <1> QED
    BY <1>1, <1>2, <1>3 DEF t

\* A scan begins with nothing shown, said or on its way.
LEMMA WholeBegins ==
    ASSUME NEW at
    PROVE  Whole(<<>>, at, {}, {}, 0)
  BY DEF Whole

\* The helper tells of an item, of the context it is at.
LEMMA WholeItem ==
    ASSUME NEW s \in Seq(Anything), NEW m \in Anything, m[1] = "item",
           NEW at, NEW shown, NEW said, NEW here \in Nat, here > 0,
           Whole(s, at, shown, said, here)
    PROVE  Whole(Append(s, m), at, shown, said \union {<<here, m[2]>>}, here)
  <1> DEFINE t == Append(s, m)
             heard == said \union {<<here, m[2]>>}
  <1>0. /\ t \in Seq(Anything) /\ Len(t) = Len(s) + 1 /\ Len(s) \in Nat
        /\ \A k \in 1..Len(s) : t[k] = s[k]
        /\ t[Len(s) + 1] = m
    BY UnderAppend
  <1>1. \A c : \A k \in 1..(Len(s) + 1) : Under(t, at, k, c) <=> Under(s, at, k, c)
    BY UnderAppend
  <1>2. Under(s, at, Len(s) + 1, here)
    BY DEF Whole
  <1>3. Under(t, at, Len(t) + 1, here)
    BY <1>0, <1>2, UnderAppend
  <1> HIDE DEF t
  <1>4. ASSUME NEW k \in 1..Len(t), NEW c \in Nat, t[k][1] = "item", Under(t, at, k, c)
        PROVE  <<c, t[k][2]>> \in heard
    <2>1. CASE k <= Len(s)
      BY <1>0, <1>1, <1>4, <2>1 DEF Whole
    <2>2. CASE k = Len(s) + 1
      <3>1. Under(s, at, Len(s) + 1, c)
        BY <1>0, <1>1, <1>4, <2>2
      <3>2. c = here
        BY <1>0, <1>2, <3>1, OneContext
      <3> QED
        BY <1>0, <2>2, <3>2
    <2> QED
      BY <1>0, <2>1, <2>2
  <1>5. ASSUME NEW x \in heard
        PROVE  \/ x \in shown
               \/ \E k \in 1..Len(t) :
                      t[k][1] = "item" /\ t[k][2] = x[2] /\ Under(t, at, k, x[1])
    <2>1. CASE x \in said
      <3>1. CASE x \in shown
        BY <3>1
      <3>2. CASE x \notin shown
        <4>1. PICK k \in 1..Len(s) :
                      s[k][1] = "item" /\ s[k][2] = x[2] /\ Under(s, at, k, x[1])
          BY <2>1, <3>2 DEF Whole
        <4>2. k \in 1..Len(t) /\ t[k] = s[k] /\ Under(t, at, k, x[1])
          BY <1>0, <1>1, <4>1
        <4> QED
          BY <4>1, <4>2
      <3> QED
        BY <3>1, <3>2
    <2>2. CASE x = <<here, m[2]>>
      <3>1. Len(s) + 1 \in 1..Len(t) /\ Under(t, at, Len(s) + 1, x[1])
        BY <1>0, <1>1, <1>2, <2>2
      <3> QED
        BY <1>0, <2>2, <3>1
    <2> QED
      BY <2>1, <2>2
  <1>6. shown \subseteq heard
    BY DEF Whole
  <1> QED
    BY <1>3, <1>4, <1>5, <1>6 DEF Whole, t

\* It tells of anything else, or the app adds the end of the operation, after
\* which the helper is nowhere; then is where the helper is next.
LEMMA WholeOther ==
    ASSUME NEW s \in Seq(Anything), NEW m \in Anything, m[1] # "item",
           NEW at, NEW shown, NEW said, NEW here \in Nat, NEW then \in Nat,
           \/ then = 0
           \/ m[1] = "started" /\ then = m[2]
           \/ m[1] # "started" /\ then = here,
           Whole(s, at, shown, said, here)
    PROVE  Whole(Append(s, m), at, shown, said, then)
  <1> DEFINE t == Append(s, m)
  <1>0. /\ t \in Seq(Anything) /\ Len(t) = Len(s) + 1 /\ Len(s) \in Nat
        /\ \A k \in 1..Len(s) : t[k] = s[k]
        /\ t[Len(s) + 1] = m
    BY UnderAppend
  <1>1. \A c : \A k \in 1..(Len(s) + 1) : Under(t, at, k, c) <=> Under(s, at, k, c)
    BY UnderAppend
  <1>2. then > 0 => Under(t, at, Len(t) + 1, then)
    <2>1. CASE m[1] = "started" /\ then = m[2]
      BY <1>0, <2>1, UnderAppend
    <2>2. CASE m[1] # "started" /\ then = here
      <3>1. then > 0 => Under(s, at, Len(s) + 1, then)
        BY <2>2 DEF Whole
      <3> QED
        BY <1>0, <2>2, <3>1, UnderAppend
    <2> QED
      BY <2>1, <2>2
  <1> HIDE DEF t
  <1>4. ASSUME NEW k \in 1..Len(t), NEW c \in Nat, t[k][1] = "item", Under(t, at, k, c)
        PROVE  <<c, t[k][2]>> \in said
    <2>1. k \in 1..Len(s)
      BY <1>0, <1>4
    <2> QED
      BY <1>0, <1>1, <1>4, <2>1 DEF Whole
  <1>5. ASSUME NEW x \in said, x \notin shown
        PROVE  \E k \in 1..Len(t) :
                   t[k][1] = "item" /\ t[k][2] = x[2] /\ Under(t, at, k, x[1])
    <2>1. PICK k \in 1..Len(s) :
                  s[k][1] = "item" /\ s[k][2] = x[2] /\ Under(s, at, k, x[1])
      BY <1>5 DEF Whole
    <2>2. k \in 1..Len(t) /\ t[k] = s[k] /\ Under(t, at, k, x[1])
      BY <1>0, <1>1, <2>1
    <2> QED
      BY <2>1, <2>2
  <1>6. shown \subseteq said
    BY DEF Whole
  <1> QED
    BY <1>2, <1>4, <1>5, <1>6 DEF Whole, t

\* The first line is applied to the page.
LEMMA WholeApplied ==
    ASSUME NEW s \in Seq(Anything), s # <<>>, s[1][1] = "item" => s[1][2] \in Nat,
           NEW at \in Nat, NEW shown, NEW said, said \subseteq Nat \X Nat,
           NEW here \in Nat, Whole(s, at, shown, said, here), NEW now, NEW next,
           now = IF s[1][1] = "started" THEN s[1][2] ELSE at,
           next = IF s[1][1] = "item" THEN shown \union {<<at, s[1][2]>>} ELSE shown
    PROVE  Whole(Tail(s), now, next, said, here)
  <1> DEFINE t == Tail(s)
  <1>0. /\ t \in Seq(Anything) /\ Len(t) = Len(s) - 1 /\ Len(s) \in Nat \ {0}
        /\ \A k \in 1..(Len(s) - 1) : t[k] = s[k + 1]
    BY UnderTail
  <1>1. \A c : \A k \in 1..Len(s) : Under(t, now, k, c) <=> Under(s, at, k + 1, c)
    BY UnderTail
  <1>2. \A c : Under(s, at, 1, c) <=> c = at
    <2> TAKE c
    <2> QED
      BY <1>0 DEF Under
  <1> HIDE DEF t
  <1>3. here > 0 => Under(t, now, Len(t) + 1, here)
    <2>1. Len(t) + 1 = Len(s) /\ Len(s) \in 1..Len(s)
      BY <1>0
    <2> QED
      BY <1>1, <2>1 DEF Whole
  <1>4. ASSUME NEW k \in 1..Len(t), NEW c \in Nat, t[k][1] = "item", Under(t, now, k, c)
        PROVE  <<c, t[k][2]>> \in said
    <2>1. k \in Int /\ k \in 1..Len(s) /\ k + 1 \in 1..Len(s)
      BY <1>0
    <2>2. t[k] = s[k + 1] /\ Under(s, at, k + 1, c)
      BY <1>0, <1>1, <1>4, <2>1
    <2> QED
      BY <1>4, <2>1, <2>2 DEF Whole
  <1>5. ASSUME NEW x \in said, x \notin next
        PROVE  \E k \in 1..Len(t) :
                   t[k][1] = "item" /\ t[k][2] = x[2] /\ Under(t, now, k, x[1])
    <2>1. PICK k \in 1..Len(s) :
                  s[k][1] = "item" /\ s[k][2] = x[2] /\ Under(s, at, k, x[1])
      BY <1>5 DEF Whole
    <2>2. k # 1
      <3> SUFFICES ASSUME k = 1 PROVE FALSE
        OBVIOUS
      <3>1. x[1] = at /\ s[1][1] = "item" /\ s[1][2] = x[2]
        BY <1>2, <2>1
      <3>2. x = <<at, s[1][2]>>
        BY <3>1
      <3> QED
        BY <1>5, <3>1, <3>2
    <2>3. k - 1 \in 1..Len(t) /\ k - 1 \in 1..Len(s) /\ (k - 1) + 1 = k
      BY <1>0, <2>2
    <2>4. t[k - 1] = s[k] /\ Under(t, now, k - 1, x[1])
      BY <1>0, <1>1, <2>1, <2>3
    <2> QED
      BY <2>1, <2>3, <2>4
  <1>6. next \subseteq said
    <2>1. s[1][1] = "item" => <<at, s[1][2]>> \in said
      BY <1>0, <1>2 DEF Whole
    <2> QED
      BY <2>1 DEF Whole
  <1> QED
    BY <1>3, <1>4, <1>5, <1>6 DEF Whole, t

\* A line in the pipe or in the queue is on its way; what the reader and the
\* main queue do moves it, in order.
LEMMA Joined ==
    ASSUME NEW S, NEW p \in Seq(S), NEW q \in Seq(S), NEW m \in S
    PROVE  /\ p \o q \in Seq(S)
           /\ p \o Append(q, m) = Append(p \o q, m)
           /\ q # <<>> => Append(p, Head(q)) \o Tail(q) = p \o q
           /\ q = <<>> => Append(p, m) \o q = Append(p \o q, m)
           /\ p # <<>> => /\ Tail(p) \o q = Tail(p \o q) /\ p \o q # <<>>
                          /\ (p \o q)[1] = Head(p)
           /\ p = <<>> /\ q = <<>> => p \o q = <<>>
  <1>1. p \o q \in Seq(S) /\ (p = <<>> /\ q = <<>> => p \o q = <<>>)
    OBVIOUS
  <1>2. p \o Append(q, m) = Append(p \o q, m)
    OBVIOUS
  <1>3. q = <<>> => Append(p, m) \o q = Append(p \o q, m)
    OBVIOUS
  <1>4. ASSUME q # <<>> PROVE Append(p, Head(q)) \o Tail(q) = p \o q
    BY <1>4
  <1>5. ASSUME p # <<>>
        PROVE  Tail(p) \o q = Tail(p \o q) /\ p \o q # <<>> /\ (p \o q)[1] = Head(p)
    BY <1>5
  <1> QED
    BY <1>1, <1>2, <1>3, <1>4, <1>5

LEMMA OfTheWay ==
    ASSUME Inv
    PROVE  /\ main \in Seq(Anything) /\ out \in Seq(Anything) /\ OnTheWay \in Seq(Anything)
           /\ Lines \subseteq Anything
  <1>1. main \in Seq(Anything) /\ out \in Seq(Anything)
    BY DEF Inv, Spoken, Anything
  <1> QED
    BY <1>1, Joined DEF OnTheWay, Anything

LEMMA PipeInit == Init => PipeInv
  <1> SUFFICES ASSUME Init PROVE PipeInv
    OBVIOUS
  <1>1. OnTheWay = <<>> /\ context = 0 /\ items = {} /\ sent = {} /\ inspects = 0
    BY DEF Init, OnTheWay
  <1>2. Whole(OnTheWay, context, items, sent, inspects)
    BY <1>1, WholeBegins
  <1>3. /\ helper \in {"none", "starting"} /\ wants = Nothing /\ reader = "none"
        /\ ~reported /\ out = <<>> /\ state \in {"idle", "scanning"}
    BY DEF Init
  <1>4. context \in Nat /\ sent \subseteq Nat \X Nat
    BY <1>1
  <1> QED
    BY <1>2, <1>3, <1>4 DEF PipeInv, ReportIsWhole

LEMMA UserKeepsWhole ==
    ASSUME Inv, PipeInv, UNCHANGED <<main, context>>,
           \/ UNCHANGED <<state, collecting, items, service>>
           \/ ~busy /\ state' = "failed" /\ UNCHANGED service
           \/ ~busy /\ run(TRUE) /\ items' = {}
           \/ ~busy /\ run(FALSE)
    PROVE  PipeInv'
  <1>1. CASE UNCHANGED <<state, collecting, items, service>>
    <2>1. OnTheWay' = OnTheWay /\ (Refused' <=> Refused)
      BY <1>1 DEF OnTheWay, Refused, service
    <2>2. UNCHANGED <<context, items, sent, inspects>>
      BY <1>1 DEF service, process
    <2>3. Whole(OnTheWay, context, items, sent, inspects)
              => Whole(OnTheWay, context, items, sent, inspects)'
      BY <2>1, <2>2 DEF Whole, Under
    <2>4. busy' <=> busy
      BY <1>1 DEF busy
    <2> QED
      BY <1>1, <2>1, <2>2, <2>3, <2>4 DEF PipeInv, service, process, ReportIsWhole
  <1>2. CASE ~busy /\ state' = "failed" /\ UNCHANGED service
    <2>1. ~busy' /\ ReportIsWhole'
      BY <1>2 DEF busy, ReportIsWhole
    <2>2. helper = "none" /\ wants = Nothing
      BY <1>2 DEF Inv, Ordered, PipeInv
    <2> QED
      BY <1>2, <2>1, <2>2 DEF PipeInv, service, process
  <1>3. CASE ~busy /\ ((run(TRUE) /\ items' = {}) \/ run(FALSE))
    <2>1. /\ state' = "scanning" /\ helper' = "starting" /\ wants' = Nothing
          /\ inspects' = 0 /\ reported' = FALSE /\ sent' = {}
          /\ UNCHANGED <<out, reader, main>>
          /\ (collecting' => items' = {})
      BY <1>3 DEF run
    <2>2. helper = "none" /\ main = <<>> /\ reader = "none" /\ out = <<>>
      BY <1>3 DEF Inv, Ordered, PipeInv
    <2>3. OnTheWay' = <<>>
      BY <2>1, <2>2 DEF OnTheWay
    <2>4. collecting' => Whole(OnTheWay, context, items, sent, inspects)'
      BY <2>1, <2>3, WholeBegins
    <2>5. ReportIsWhole'
      BY <2>1 DEF ReportIsWhole
    <2>6. sent' \subseteq Nat \X Nat
      BY <2>1
    <2> QED
      BY <2>1, <2>2, <2>4, <2>5, <2>6 DEF PipeInv
  <1> QED
    BY <1>1, <1>2, <1>3

LEMMA ScanShows ==
    ASSUME scan
    PROVE  /\ UNCHANGED context
           /\ \/ UNCHANGED <<state, collecting, items, service>>
              \/ ~busy /\ state' = "failed" /\ UNCHANGED service
              \/ ~busy /\ run(TRUE) /\ items' = {}
  BY DEF scan, busy, model, scanned

LEMMA UserPipe == Inv /\ PipeInv /\ User => PipeInv'
  <1> SUFFICES ASSUME Inv, PipeInv, User PROVE PipeInv'
    OBVIOUS
  <1>1. UNCHANGED main
    BY DEF User, Scan, LeaveResources, ChangeResources, Command, Review, Cancel, Confirm,
           EditOptions, SelectTiers, Settles, Starts, Quit
  <1>2. CASE Scan
    BY <1>1, <1>2, ScanShows, UserKeepsWhole DEF Scan
  <1>3. CASE LeaveResources \/ ChangeResources
    BY <1>1, <1>3, UserKeepsWhole DEF LeaveResources, ChangeResources, Command
  <1>4. CASE Review \/ Cancel \/ EditOptions \/ SelectTiers
    BY <1>1, <1>4, UserKeepsWhole DEF Review, Cancel, EditOptions, SelectTiers, Settles,
                                      scanned
  <1>5. CASE Confirm
    BY <1>1, <1>5, UserKeepsWhole DEF Confirm, reclaim
  <1>6. CASE Quit
    BY <1>1, <1>6, UserKeepsWhole DEF Quit, model, scanned
  <1> QED
    BY <1>2, <1>3, <1>4, <1>5, <1>6 DEF User

LEMMA SparklePipe ==
    ASSUME Inv, PipeInv,
           \/ Sparkle(ChecksOnSchedule) \/ Sparkle(ChecksForTheUser) \/ Sparkle(Attends)
           \/ Sparkle(FindsNothing) \/ Sparkle(Finds) \/ Answers
           \/ Sparkle(BoundPasses) \/ RefusesInstall
    PROVE  PipeInv'
  <1>1. UNCHANGED main
    BY DEF Sparkle, Answers, Accepted, RefusesInstall
  <1>2. \/ UNCHANGED <<model, service>>
        \/ scan
    BY DEF Sparkle, Answers, Accepted, RefusesInstall, ChecksOnSchedule, ChecksForTheUser,
           Attends, FindsNothing, Finds, Dismissed, BoundPasses, Becomes, EndsCycle,
           releaseFirstScan
  <1> QED
    BY <1>1, <1>2, ScanShows, UserKeepsWhole DEF model, scanned

LEMMA HelperPipe == Inv /\ PipeInv /\ Helper => PipeInv'
  <1> SUFFICES ASSUME Inv, PipeInv, Helper PROVE PipeInv'
    OBVIOUS
  <1>1. /\ helper = "running"
        /\ UNCHANGED <<up, state, collecting, main, reader, context, items>>
    BY DEF Helper, Beside, Decides, Writes, Exits, model, scanned
  <1>2. Refused' <=> Refused
    BY <1>1 DEF Refused
  <1>3. (busy' <=> busy) /\ reader # "awaits"
    BY <1>1 DEF busy, PipeInv
  <1>4. ~(state = "ready" /\ collecting)
    BY <1>1 DEF Inv, Ordered, busy
  <1>5. CASE Beside(Decides)
    <2>1. UNCHANGED <<helper, inspects, reported, sent, out>>
      BY <1>5 DEF Beside, Decides
    <2>2. /\ wants' # Nothing /\ wants'[1] = "item" => inspects' > 0
          /\ collecting' /\ wants' # Nothing /\ wants'[1] = "report" => inspects' > 0
      <3>1. /\ wants'[1] = "item" => reported
            /\ collecting /\ wants'[1] = "report" => inspects > 0
        BY <1>5 DEF Beside, Decides, Says
      <3> QED
        BY <1>1, <2>1, <3>1 DEF PipeInv
    <2>3. OnTheWay' = OnTheWay
      BY <1>1, <2>1 DEF OnTheWay
    <2>4. Whole(OnTheWay, context, items, sent, inspects)
              => Whole(OnTheWay, context, items, sent, inspects)'
      BY <1>1, <2>1, <2>3
    <2> QED
      BY <1>1, <1>2, <1>3, <1>4, <2>1, <2>2, <2>4 DEF PipeInv, ReportIsWhole
  <1>6. CASE Beside(Exits)
    <2>1. UNCHANGED <<inspects, reported, sent, out>> /\ helper' = "exited" /\ wants' = Nothing
      BY <1>6 DEF Beside, Exits
    <2>2. OnTheWay' = OnTheWay
      BY <1>1, <2>1 DEF OnTheWay
    <2>3. Whole(OnTheWay, context, items, sent, inspects)
              => Whole(OnTheWay, context, items, sent, inspects)'
      BY <1>1, <2>1, <2>2
    <2> QED
      BY <1>1, <1>2, <1>3, <1>4, <2>1, <2>3 DEF PipeInv, ReportIsWhole
  <1>7. CASE Beside(Writes)
    <2>1. /\ wants \in Lines /\ wants # Nothing /\ wants' = Nothing /\ UNCHANGED helper
          /\ \/ wants[1] = "noise" /\ UNCHANGED out
             \/ wants[1] # "noise" /\ out' = Append(out, wants)
          /\ inspects' = IF wants[1] = "started" THEN wants[2] ELSE inspects
          /\ reported' = ((collecting /\ wants[1] = "report")
                              \/ (reported /\ wants[1] # "started"))
          /\ sent' = IF wants[1] = "item" THEN sent \union {<<inspects, wants[2]>>} ELSE sent
      BY <1>7 DEF Beside, Writes, Inv, Spoken, Ends
    <2>2. wants[2] \in Nat /\ inspects \in Nat /\ inspects' \in Nat
      BY <2>1 DEF Lines, Inv, Spoken
    <2>3. sent' \subseteq Nat \X Nat
      BY <2>1, <2>2 DEF PipeInv
    <2>4. ASSUME Whole(OnTheWay, context, items, sent, inspects)
          PROVE  Whole(OnTheWay, context, items, sent, inspects)'
      <3>1. wants \in Anything /\ OnTheWay \in Seq(Anything)
        BY <2>1, OfTheWay
      <3>2. CASE wants[1] = "noise"
        <4>1. OnTheWay' = OnTheWay /\ sent' = sent /\ inspects' = inspects
          BY <1>1, <2>1, <3>2 DEF OnTheWay
        <4> QED
          BY <1>1, <2>4, <4>1
      <3>3. CASE wants[1] # "noise"
        <4>1. OnTheWay' = Append(OnTheWay, wants)
          <5>1. main \o Append(out, wants) = Append(main \o out, wants)
            BY <3>1, OfTheWay, Joined
          <5> QED
            BY <1>1, <2>1, <3>3, <5>1 DEF OnTheWay
        <4>2. CASE wants[1] = "item"
          <5>1. inspects > 0 /\ inspects' = inspects
            <6>1. inspects > 0
              BY <2>1, <4>2 DEF PipeInv
            <6>2. wants[1] # "started"
              BY <4>2
            <6> QED
              BY <2>1, <4>2, <6>1, <6>2
          <5>2. Whole(Append(OnTheWay, wants), context, items,
                      sent \union {<<inspects, wants[2]>>}, inspects)
            BY <2>2, <2>4, <3>1, <4>2, <5>1, WholeItem
          <5> QED
            BY <1>1, <2>1, <4>1, <4>2, <5>1, <5>2
        <4>3. CASE wants[1] # "item"
          <5>1. Whole(Append(OnTheWay, wants), context, items, sent, inspects')
            BY <2>1, <2>2, <2>4, <3>1, <4>3, WholeOther
          <5> QED
            BY <1>1, <2>1, <4>1, <4>3, <5>1
        <4> QED
          BY <4>2, <4>3
      <3> QED
        BY <3>2, <3>3
    <2>5. reported' => inspects' > 0
      BY <1>1, <2>1, <2>2 DEF PipeInv
    <2> QED
      BY <1>1, <1>2, <1>3, <1>4, <2>1, <2>3, <2>4, <2>5 DEF PipeInv, ReportIsWhole
  <1> QED
    BY <1>5, <1>6, <1>7 DEF Helper

\* The app itself says that the operation has failed.
LEMMA EndRefuses ==
    ASSUME Inv, NEW m \in Anything, m[1] = "finish", m[2], main' = Append(main, m)
    PROVE  Refused'
  <1>1. Len(main') \in 1..Len(main') /\ main'[Len(main')] = m
    BY OfTheWay
  <1> QED
    BY <1>1 DEF Refused

\* What a reader in order hands on is what was written, and the end of the
\* operation is behind all of it.
LEMMA StdoutPipe == Inv /\ PipeInv /\ Stdout => PipeInv'
  <1> SUFFICES ASSUME Inv, PipeInv, Stdout PROVE PipeInv'
    OBVIOUS
  <1>0. UNCHANGED <<up, state, collecting, context, items>>
    BY DEF Stdout, Beside, model, scanned
  <1>1. helper # "none" \/ reader # "none"
    BY DEF Stdout, Beside, Launches, Reads, ReadsAll, Terminates, Awaits
  <1>2. busy /\ busy'
    BY <1>0, <1>1 DEF Inv, Ordered, busy
  <1>3. ~(state = "ready") /\ ReportIsWhole'
    BY <1>0, <1>2 DEF busy, ReportIsWhole
  <1>4. CASE Beside(Launches)
    <2>1. /\ helper = "starting" /\ UNCHANGED <<wants, inspects, reported, sent, out>>
          /\ \/ helper' = "running" /\ reader' = "reads" /\ UNCHANGED main
             \/ helper' = "none" /\ main' = Finish(TRUE) /\ UNCHANGED reader
      BY <1>4 DEF Beside, Launches
    <2>2. reader = "none" /\ main = <<>> /\ out = <<>> /\ wants = Nothing
      BY <2>1 DEF Inv, Ordered, PipeInv
    <2>3. CASE helper' = "running" /\ reader' = "reads" /\ UNCHANGED main
      <3>1. ~Refused /\ OnTheWay' = OnTheWay
        BY <2>1, <2>2, <2>3 DEF Refused, OnTheWay
      <3>2. Whole(OnTheWay, context, items, sent, inspects)
                => Whole(OnTheWay, context, items, sent, inspects)'
        BY <1>0, <2>1, <3>1
      <3> QED
        BY <1>0, <1>2, <1>3, <2>1, <2>2, <2>3, <3>1, <3>2 DEF PipeInv
    <2>4. CASE helper' = "none" /\ main' = Finish(TRUE) /\ UNCHANGED reader
      <3>1. Refused'
        <4> DEFINE m == <<"finish", TRUE>>
        <4>1. m \in Anything /\ m[1] = "finish" /\ m[2]
          BY DEF Anything, Messages
        <4>2. main' = Append(main, m)
          BY <2>4 DEF Finish
        <4> HIDE DEF m
        <4> QED
          BY <4>1, <4>2, EndRefuses
      <3> QED
        BY <1>0, <1>2, <1>3, <2>1, <2>2, <2>4, <3>1 DEF PipeInv
    <2> QED
      BY <2>1, <2>3, <2>4
  <1>5. CASE Beside(Reads)
    <2>1. /\ reader = "reads" /\ out # <<>> /\ out' = Tail(out) /\ UNCHANGED process
          /\ \/ reader' = "stops" /\ UNCHANGED main
             \/ UNCHANGED reader /\ main' = Append(main, Head(out))
      BY <1>5 DEF Beside, Reads
    <2>2. UNCHANGED <<helper, wants, inspects, reported, sent>>
      BY <2>1 DEF process
    <2>3. helper \notin {"none", "starting"}
      BY <2>1 DEF PipeInv
    <2>4. CASE reader' = "stops"
      <3>1. Refused'
        BY <2>4 DEF Refused
      <3> QED
        BY <1>0, <1>2, <1>3, <2>2, <2>3, <2>4, <3>1 DEF PipeInv
    <2>5. CASE UNCHANGED reader /\ main' = Append(main, Head(out))
      <3>1. Append(main, Head(out)) \o Tail(out) = main \o out
        <4>1. Head(out) \in Anything
          BY <2>1, OfTheWay
        <4> QED
          BY <2>1, <4>1, OfTheWay, Joined
      <3>2. OnTheWay' = OnTheWay
        BY <2>1, <2>5, <3>1 DEF OnTheWay
      <3>3. Whole(OnTheWay, context, items, sent, inspects)
                => Whole(OnTheWay, context, items, sent, inspects)'
        BY <1>0, <2>2, <3>2
      <3>4. ~Refused
        BY <2>1, <2>3 DEF Refused, Inv, Ordered
      <3> QED
        BY <1>0, <1>2, <1>3, <2>1, <2>2, <2>3, <2>5, <3>3, <3>4 DEF PipeInv
    <2> QED
      BY <2>1, <2>4, <2>5
  <1>6. CASE Beside(ReadsAll)
    <2>1. /\ reader = "reads" /\ out = <<>> /\ helper = "exited" /\ reader' = "awaits"
          /\ UNCHANGED <<out, main, helper, wants, inspects, reported, sent>>
      BY <1>6 DEF Beside, ReadsAll, process
    <2>2. OnTheWay' = OnTheWay /\ (Refused' <=> Refused)
      BY <2>1 DEF OnTheWay, Refused
    <2>3. Whole(OnTheWay, context, items, sent, inspects)
              => Whole(OnTheWay, context, items, sent, inspects)'
      BY <1>0, <2>1, <2>2
    <2> QED
      BY <1>0, <1>2, <1>3, <2>1, <2>2, <2>3 DEF PipeInv
  <1>7. CASE Beside(Terminates)
    <2>1. /\ reader = "stops" /\ reader' = "stopped"
          /\ UNCHANGED <<out, main, inspects, reported, sent>>
          /\ \/ UNCHANGED <<helper, wants>>
             \/ helper' = "exited" /\ wants' = Nothing
      BY <1>7 DEF Beside, Terminates, process
    <2>2. Refused'
      BY <2>1 DEF Refused
    <2> QED
      BY <1>0, <1>2, <1>3, <2>1, <2>2 DEF PipeInv
  <1>8. CASE Beside(Awaits)
    <2>1. /\ reader \in {"awaits", "stopped"} /\ helper = "exited"
          /\ reader' = "none" /\ helper' = "none" /\ out' = <<>>
          /\ main' = Append(main, <<"finish", HasFailed>>)
          /\ inspects' = 0 /\ reported' = FALSE /\ UNCHANGED <<wants, sent>>
      BY <1>8 DEF Beside, Awaits, Finish
    <2>2. main \in Seq(Anything) /\ <<"finish", HasFailed>> \in Anything
      BY OfTheWay DEF Anything, Messages, HasFailed
    <2>3. ASSUME reader = "stopped" PROVE Refused'
      <3>1. HasFailed
        BY <2>3 DEF HasFailed
      <3> QED
        BY <2>1, <2>2, <3>1, EndRefuses
    <2>4. ASSUME reader = "awaits", Whole(OnTheWay, context, items, sent, inspects)
          PROVE  Whole(OnTheWay, context, items, sent, inspects)'
      <3>1. out = <<>>
        BY <2>4 DEF PipeInv
      <3>2. Append(main, <<"finish", HasFailed>>) \o out
                = Append(main \o out, <<"finish", HasFailed>>)
        BY <2>2, <3>1, OfTheWay, Joined
      <3>3. OnTheWay' = Append(OnTheWay, <<"finish", HasFailed>>)
        BY <2>1, <3>1, <3>2 DEF OnTheWay
      <3>4. inspects \in Nat
        BY DEF Inv, Spoken
      <3>5. Whole(Append(OnTheWay, <<"finish", HasFailed>>), context, items, sent, 0)
        BY <2>2, <2>4, <3>4, OfTheWay, WholeOther
      <3> QED
        BY <1>0, <2>1, <3>3, <3>5
    <2>5. ASSUME reader = "awaits", ~Refused' PROVE ~Refused
      <3>1. \A i \in 1..Len(main) : i \in 1..Len(main') /\ main'[i] = main[i]
        BY <2>1, <2>2
      <3> QED
        BY <2>5, <3>1 DEF Refused
    <2> QED
      BY <1>0, <1>2, <1>3, <2>1, <2>3, <2>4, <2>5 DEF PipeInv
  <1> QED
    BY <1>4, <1>5, <1>6, <1>7, <1>8 DEF Stdout

\* The page is given what was on its way, in order, and told of the end once
\* there is nothing else.
LEMMA QueuePipe == Inv /\ PipeInv /\ (Applies \/ Finishes) => PipeInv'
  <1> SUFFICES ASSUME Inv, PipeInv, Applies \/ Finishes PROVE PipeInv'
    OBVIOUS
  <1>1. /\ main # <<>> /\ main' = Tail(main)
        /\ UNCHANGED <<collecting, helper, wants, inspects, reported, sent, out, reader>>
    BY DEF Applies, Finishes, Delivers, service, process
  <1>2. /\ main \in Seq(Messages) /\ Len(main) \in Nat \ {0} /\ Len(main') = Len(main) - 1
        /\ \A i \in 1..Len(main') : main'[i] = main[i + 1]
        /\ Head(main) = main[1]
    BY <1>1 DEF Inv, Spoken
  <1>3. busy
    BY <1>1 DEF Inv, Ordered
  <1>4. CASE Applies
    <2>1. /\ main[1][1] # "finish" /\ UNCHANGED state
          /\ context' = IF main[1][1] = "started" THEN main[1][2] ELSE context
          /\ items' = IF main[1][1] = "item" /\ collecting
                      THEN items \union {<<context, main[1][2]>>} ELSE items
      BY <1>2, <1>4 DEF Applies
    <2>2. /\ main[1] \in Messages
          /\ main[1][1] \in {"started", "item"} => main[1][2] \in Nat
      BY <1>2 DEF Messages
    <2>3. context \in Nat /\ context' \in Nat /\ inspects \in Nat
      BY <2>1, <2>2 DEF PipeInv, Inv, Spoken
    <2>4. ASSUME Refused PROVE Refused'
      <3>1. CASE reader \in {"stops", "stopped"}
        BY <1>1, <3>1 DEF Refused
      <3>2. CASE \E i \in 1..Len(main) : main[i][1] = "finish" /\ main[i][2]
        <4>1. PICK i \in 1..Len(main) : main[i][1] = "finish" /\ main[i][2]
          BY <3>2
        <4>2. i - 1 \in 1..Len(main') /\ (i - 1) + 1 = i
          BY <1>2, <2>1, <4>1
        <4>3. main'[i - 1] = main[i]
          BY <1>2, <4>2
        <4> QED
          BY <4>1, <4>2, <4>3 DEF Refused
      <3> QED
        BY <2>4, <3>1, <3>2 DEF Refused
    <2>5. ASSUME collecting, Whole(OnTheWay, context, items, sent, inspects)
          PROVE  Whole(OnTheWay, context, items, sent, inspects)'
      <3>1. /\ OnTheWay \in Seq(Anything) /\ OnTheWay # <<>>
            /\ OnTheWay[1] = main[1] /\ OnTheWay' = Tail(OnTheWay)
        <4>1. main[1] \in Anything
          BY <2>2 DEF Anything
        <4>2. Tail(main) \o out = Tail(main \o out) /\ main \o out # <<>>
              /\ (main \o out)[1] = Head(main)
          BY <1>1, <4>1, OfTheWay, Joined
        <4> QED
          BY <1>1, <1>2, <4>2, OfTheWay DEF OnTheWay
      <3>2. sent \subseteq Nat \X Nat
        BY DEF PipeInv
      <3>3. Whole(Tail(OnTheWay), context', items', sent, inspects)
        BY <2>1, <2>2, <2>3, <2>5, <3>1, <3>2, WholeApplied
      <3> QED
        BY <1>1, <3>1, <3>3
    <2>6. ~(state' = "ready") /\ (busy' <=> busy)
      BY <1>3, <2>1 DEF busy
    <2> QED
      BY <1>1, <1>3, <2>3, <2>4, <2>5, <2>6 DEF PipeInv, ReportIsWhole
  <1>5. CASE Finishes
    <2>1. /\ main[1][1] = "finish" /\ UNCHANGED <<context, items>>
          /\ state' \in {"failed", "ready"} /\ (main[1][2] => state' = "failed")
      BY <1>2, <1>5 DEF Finishes
    <2>2. Len(main) = 1 /\ helper = "none"
      BY <1>2, <2>1 DEF Inv, Ordered
    <2>3. out = <<>> /\ reader = "none"
      BY <2>2 DEF PipeInv, Inv, Ordered
    <2>4. ASSUME collecting, state' = "ready" PROVE items = sent
      <3>1. ~Refused
        <4>1. \A i \in 1..Len(main) : i = 1
          BY <2>2
        <4>2. ~main[1][2]
          BY <2>1, <2>4
        <4> QED
          BY <2>3, <4>1, <4>2 DEF Refused
      <3>2. Whole(OnTheWay, context, items, sent, inspects)
        BY <1>3, <2>4, <3>1 DEF PipeInv
      <3>3. Len(OnTheWay) = 1 /\ OnTheWay[1] = main[1]
        BY <1>2, <2>2, <2>3 DEF OnTheWay
      <3>4. \A k \in 1..Len(OnTheWay) : OnTheWay[k][1] # "item"
        BY <2>1, <3>3
      <3> QED
        BY <3>2, <3>4 DEF Whole
    <2>5. ~busy' /\ ReportIsWhole'
      BY <1>1, <2>1, <2>4 DEF busy, ReportIsWhole
    <2> QED
      BY <1>1, <2>1, <2>5 DEF PipeInv
  <1> QED
    BY <1>4, <1>5

LEMMA PipeStep == Inv /\ PipeInv /\ [Next]_vars => PipeInv'
  <1>1. ASSUME Inv, PipeInv, Stderr \/ UNCHANGED vars PROVE PipeInv'
    <2>1. /\ UNCHANGED <<state, collecting, context, items, helper, wants, inspects,
                         reported, sent, out, main, reader>>
      BY <1>1 DEF Stderr, Beside, Drains, process, model, scanned, vars, service
    <2>2. OnTheWay' = OnTheWay /\ (Refused' <=> Refused) /\ (busy' <=> busy)
      BY <2>1 DEF OnTheWay, Refused, busy
    <2>3. Whole(OnTheWay, context, items, sent, inspects)
              => Whole(OnTheWay, context, items, sent, inspects)'
      BY <2>1, <2>2
    <2> QED
      BY <1>1, <2>1, <2>2, <2>3 DEF PipeInv, ReportIsWhole
  <1> QED
    BY <1>1, UserPipe, SparklePipe, HelperPipe, StdoutPipe, QueuePipe DEF Next

\* However the helper's writing, the two threads and the main queue take
\* turns, and whatever the size of the pipe, the items of a scan that is shown
\* as complete are those its helper reported, each under its own context.
THEOREM ReportsAreWhole == Spec => []ReportIsWhole
  <1>1. Inv /\ PipeInv => ReportIsWhole
    BY DEF PipeInv
  <1> QED
    BY InvInit, InvStep, PipeInit, PipeStep, <1>1, PTL DEF Spec

-----------------------------------------------------------------------------
(* What may be reclaimed.                                                  *)

\* As long as no scan is called for, what is known is the scan on the page.
KnownInv == ~needsScan => known = scanOptions

LEMMA KnownInit == Init => KnownInv
  BY DEF Init, KnownInv

\* The end of a scan is the only thing that makes a new one unnecessary, and
\* then it is whole.
LEMMA KnownFinishes == Inv /\ PipeInv /\ PipeInv' /\ KnownInv /\ Finishes => KnownInv'
  <1> SUFFICES ASSUME Inv, PipeInv, PipeInv', KnownInv, Finishes, ~needsScan'
               PROVE  known' = scanOptions'
    BY DEF KnownInv
  <1>1. /\ UNCHANGED <<collecting, scanOptions, items, sent>>
        /\ needsScan => collecting /\ state' = "ready"
        /\ \/ collecting /\ state' = "ready" /\ items = sent /\ known' = scanOptions
           \/ known' = known /\ ~(collecting /\ state' = "ready" /\ items = sent)
    BY DEF Finishes, Delivers, service, process
  <1>2. collecting /\ state' = "ready" => items = sent
    BY <1>1 DEF PipeInv, ReportIsWhole
  <1> QED
    BY <1>1, <1>2 DEF KnownInv

LEMMA ScanForgets ==
    ASSUME KnownInv, scan
    PROVE  KnownInv'
  BY DEF scan, model, scanned, KnownInv

LEMMA KnownStep == Inv /\ PipeInv /\ PipeInv' /\ KnownInv /\ [Next]_vars => KnownInv'
  <1> SUFFICES ASSUME Inv, PipeInv, PipeInv', KnownInv, [Next]_vars PROVE KnownInv'
    OBVIOUS
  <1>1. CASE UNCHANGED vars
    BY <1>1 DEF vars, model, scanned, KnownInv
  <1>2. CASE User
    <2>1. CASE Scan
      BY <2>1, ScanForgets DEF Scan
    <2>2. CASE LeaveResources \/ ChangeResources
      BY <2>2 DEF LeaveResources, ChangeResources, Command, KnownInv
    <2>3. CASE Review \/ Cancel \/ EditOptions \/ SelectTiers \/ Quit
      BY <2>3 DEF Review, Cancel, EditOptions, SelectTiers, Settles, Quit, model, scanned,
                  KnownInv
    <2>4. CASE Confirm
      BY <2>4 DEF Confirm, reclaim, KnownInv
    <2> QED
      BY <1>2, <2>1, <2>2, <2>3, <2>4 DEF User
  <1>3. CASE Helper \/ Stdout \/ Stderr
    BY <1>3 DEF Helper, Stdout, Stderr, Beside, model, scanned, KnownInv
  <1>4. CASE Applies
    BY <1>4 DEF Applies, KnownInv
  <1>5. CASE Finishes
    BY <1>5, KnownFinishes
  <1>6. CASE \/ Sparkle(ChecksOnSchedule) \/ Sparkle(ChecksForTheUser) \/ Sparkle(Attends)
             \/ Sparkle(FindsNothing) \/ Sparkle(Finds) \/ Answers
             \/ Sparkle(BoundPasses) \/ RefusesInstall
    <2>1. scan \/ UNCHANGED <<model, known>>
      BY <1>6 DEF Sparkle, Answers, Accepted, RefusesInstall, ChecksOnSchedule,
                  ChecksForTheUser, Attends, FindsNothing, Finds, Dismissed, BoundPasses,
                  Becomes, EndsCycle, releaseFirstScan
    <2> QED
      BY <2>1, ScanForgets DEF model, scanned, KnownInv
  <1> QED
    BY <1>1, <1>2, <1>3, <1>4, <1>5, <1>6 DEF Next

\* A cleanup the user confirms is begun only with the options of a scan that
\* was shown whole and with nothing done since that changes resources; a
\* confirmation that has gone stale does nothing.
THEOREM ReclaimsOnlyTheScan == Spec => ReclaimIsOfTheScan
  <1>1. Inv /\ KnownInv /\ [Next]_vars => [Confirm /\ busy' => known = options]_vars
    <2> SUFFICES ASSUME KnownInv, Confirm, busy' PROVE known = options
      OBVIOUS
    <2>1. canReclaim
      BY DEF Confirm, reclaim, busy
    <2> QED
      BY <2>1 DEF canReclaim, KnownInv
  <1> QED
    BY InvInit, InvStep, PipeInit, PipeStep, KnownInit, KnownStep, <1>1, PTL
    DEF Spec, ReclaimIsOfTheScan

-----------------------------------------------------------------------------
(* The types.                                                              *)

LEMMA TypeInit == Init => TypeOK
  BY AppAssumption DEF Init, TypeOK

\* A scan takes its options from the page, and only valid ones.
LEMMA ScanTypes ==
    ASSUME TypeOK, scan, UNCHANGED cycle \/ cycle' \in {"none", "checking"}
    PROVE  TypeOK'
  <1>1. CASE UNCHANGED <<model, service>>
    BY <1>1 DEF TypeOK, model, scanned, choices, service, process
  <1>2. CASE state' = "failed" /\ UNCHANGED <<collecting, scanned, choices, service>>
    BY <1>2 DEF TypeOK, scanned, choices, service, process
  <1>3. CASE IsValid /\ run(TRUE) /\ scanOptions' = options /\ selected' = {Free}
                 /\ UNCHANGED <<options, sheet>>
    BY <1>3, AppAssumption DEF TypeOK, run, IsValid
  <1> QED
    BY <1>1, <1>2, <1>3 DEF scan

LEMMA UserTypes == TypeOK /\ User => TypeOK'
  <1> SUFFICES ASSUME TypeOK, User PROVE TypeOK'
    OBVIOUS
  <1>1. CASE Scan
    BY <1>1, ScanTypes DEF Scan, Starts, updater
  <1>2. CASE LeaveResources \/ ChangeResources
    BY <1>2 DEF LeaveResources, ChangeResources, Command, Starts, run, TypeOK, choices, updater
  <1>3. CASE Review \/ Cancel \/ Quit
    BY <1>3 DEF Review, Cancel, Quit, TypeOK, model, scanned, choices, service, process,
                updater
  <1>4. CASE Confirm
    BY <1>4 DEF Confirm, Starts, reclaim, run, TypeOK, service, process, updater
  <1>5. CASE EditOptions \/ SelectTiers
    BY <1>5 DEF EditOptions, SelectTiers, Settles, Starts, TypeOK, scanned, service, process,
                updater
  <1> QED
    BY <1>1, <1>2, <1>3, <1>4, <1>5 DEF User

LEMMA BesideTypes == Inv /\ TypeOK /\ (Helper \/ Stdout \/ Stderr) => TypeOK'
  <1> SUFFICES ASSUME Inv, TypeOK, Helper \/ Stdout \/ Stderr PROVE TypeOK'
    OBVIOUS
  <1>1. UNCHANGED <<model, updater>>
    BY DEF Helper, Stdout, Stderr, Beside
  <1>2. helper' \in {"none", "starting", "running", "exited"}
    BY DEF Helper, Stdout, Stderr, Beside, Decides, Writes, Exits, Launches, Reads, ReadsAll,
           Terminates, Awaits, Drains, TypeOK, process
  <1>3. reader' \in {"none", "reads", "stops", "stopped", "awaits"}
    BY DEF Helper, Stdout, Stderr, Beside, Decides, Writes, Exits, Launches, Reads, ReadsAll,
           Terminates, Awaits, Drains, TypeOK
  <1>4. Len(out') <= Capacity /\ err' \in 0..Capacity
    <2>1. out \in Seq(Lines) /\ Capacity \in Nat
      BY AppAssumption DEF Inv, Spoken
    <2>2. CASE UNCHANGED <<out, err>>
      BY <2>2 DEF TypeOK
    <2>3. CASE Writes
      BY <2>1, <2>3 DEF Writes, TypeOK, Inv, Spoken
    <2>4. CASE Reads
      BY <2>1, <2>4 DEF Reads, TypeOK
    <2>5. CASE Awaits
      BY <2>1, <2>5 DEF Awaits, TypeOK
    <2>6. CASE Drains
      BY <2>1, <2>6 DEF Drains, TypeOK
    <2> QED
      BY <2>2, <2>3, <2>4, <2>5, <2>6
         DEF Helper, Stdout, Stderr, Beside, Decides, Exits, Launches, ReadsAll, Terminates
  <1> QED
    BY <1>1, <1>2, <1>3, <1>4 DEF TypeOK, model, scanned, choices, updater

LEMMA TypeStep == Inv /\ TypeOK /\ [Next]_vars => TypeOK'
  <1> SUFFICES ASSUME Inv, TypeOK, [Next]_vars PROVE TypeOK'
    OBVIOUS
  <1>1. CASE Applies
    BY <1>1 DEF Applies, Delivers, TypeOK, choices, service, process, updater
  <1>2. CASE Finishes
    BY <1>2 DEF Finishes, Delivers, hostBecameIdle, TypeOK, choices, service, process
  <1>3. CASE \/ Sparkle(ChecksOnSchedule) \/ Sparkle(ChecksForTheUser) \/ Sparkle(Attends)
             \/ Sparkle(FindsNothing) \/ Sparkle(Finds) \/ Answers
             \/ Sparkle(BoundPasses) \/ RefusesInstall
    <2>1. \/ scan /\ (UNCHANGED cycle \/ cycle' = "none")
          \/ UNCHANGED <<model, service>>
             /\ \/ UNCHANGED cycle
                \/ cycle' \in {"none", "checking", "asked", "reminded", "offered", "waiting",
                               "installing", "refused"}
      BY <1>3 DEF Sparkle, Answers, Accepted, RefusesInstall, ChecksOnSchedule,
                  ChecksForTheUser, Attends, FindsNothing, Finds, Dismissed, BoundPasses,
                  Becomes, EndsCycle, releaseFirstScan
    <2> QED
      BY <2>1, ScanTypes DEF TypeOK, model, scanned, choices, service, process
  <1>4. CASE UNCHANGED vars
    BY <1>4 DEF vars, TypeOK, model, scanned, choices, service, process, updater
  <1> QED
    BY <1>1, <1>2, <1>3, <1>4, UserTypes, BesideTypes DEF Next

\* The state keeps its types; the pipes never hold more than they can, and
\* what was scanned was scanned with valid options.
THEOREM TypeCorrect == Spec => []TypeOK
  BY InvInit, InvStep, TypeInit, TypeStep, PTL DEF Spec
=============================================================================
