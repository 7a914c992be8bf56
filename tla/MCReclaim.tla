------------------------------ MODULE MCReclaim ------------------------------
(***************************************************************************)
(* What a receipt says of bytes, evaluated on all small figures with every *)
(* run of MCExecutor.                                                      *)
(***************************************************************************)
EXTENDS Integers, Sequences

R == INSTANCE Reclaim

Figures == 0..4
Known == {{n} : n \in Figures} \union {{}}
Stores == {R!detect(runtime, remote, wsl, found) :
               runtime \in R!Runtimes, remote \in BOOLEAN, wsl \in BOOLEAN, found \in BOOLEAN}
Usages(store) == {R!measure(store, committed, room) : committed \in Known, room \in Known}

\* Nothing is said to be given back that was not, and nothing is filled in:
\* with no figure of the host the confidence is "unknown", whatever Docker
\* claims; and where it is high the host is not said to have given too little.
ASSUME HostIsNotFlattered ==
    \A store \in Stores : \A before, after \in Usages(store) : \A claimed \in Figures :
        LET r == R!reconcile(before, after, claimed, store) IN
        /\ r.confidence = "unknown" <=> r.host_measured = {}
        /\ store.kind \notin {"native", "sparse"} => r.host_measured = {}
        /\ \A m \in r.host_measured :
               \/ \E b \in before.physical, a \in after.physical : m = IF b > a THEN b - a ELSE 0
               \/ \E b \in before.free, a \in after.free : m = IF a > b THEN a - b ELSE 0
        /\ r.confidence = "high" => ~R!shortfall_worth_mentioning(r)

\* The reading taken for the host's is one that was read three times running,
\* the first such, or the last one, with a warning.
ASSUME OnlyStillFiguresSettle ==
    \A n \in 1..6 : \A readings \in [1..n -> 0..2] :
        LET Still(i) == i \in 3..n /\ readings[i] = readings[i - 1] /\ readings[i] = readings[i - 2]
            s == R!settle(readings)
        IN /\ s.settled <=> \E i \in 1..n : Still(i)
           /\ IF s.settled
              THEN \E i \in 1..n : /\ Still(i) /\ \A j \in 1..(i - 1) : ~Still(j)
                                   /\ s.usage = readings[i]
              ELSE s.usage = readings[n]

\* The run warns just when its receipt tells of a shortfall, never of a dry or
\* a cut run; and it is the build cache that fell short, since an item that
\* was not removed is not in what was promised.
ASSUME ShortfallsAreOfTheCache ==
    \A outcomes \in [1..2 -> {"deleted", "preserved", "skipped", "failed"}] :
    \A sizes \in [1..2 -> {{}, {1}, {3}}] : \A cache, pruned \in Figures :
    \A cancelled \in BOOLEAN :
        LET items == [i \in 1..2 |-> [outcome |-> outcomes[i], size |-> sizes[i]]]
            r == R!Receipt(items, cache, pruned, FALSE, cancelled,
                           R!detect("linux", FALSE, FALSE, TRUE),
                           [physical |-> {}, free |-> {0}], <<[physical |-> {}, free |-> {0}]>>)
        IN /\ R!shortfall(r) <=> R!WarnsOfShortfall(r)
           /\ R!shortfall(r) => ~cancelled /\ pruned < cache
           /\ r.reclamation = {} <=> cancelled
\* "Did the run deliver materially less than it promised?"  Of a run that was
\* not to touch the build cache and removed all it was to remove: no.  It does
\* not hold: the cache of the plan is in what was promised all the same.
DeliveredIsNotShort ==
    \A size, cache \in Figures :
        LET r == R!Receipt(<<[outcome |-> "deleted", size |-> {size}]>>, cache, 0, FALSE, FALSE,
                           R!detect("other", FALSE, FALSE, FALSE), [physical |-> {}, free |-> {}],
                           <<[physical |-> {}, free |-> {}]>>)
        IN ~R!shortfall(r)
=============================================================================
