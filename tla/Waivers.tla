------------------------------- MODULE Waivers -------------------------------
(***************************************************************************)
(* The waivers: one file of selectors, read whole, changed in memory and   *)
(* written back in place, by any number of processes and without a lock.   *)
(* A file that is missing, cannot be read or does not parse reads as empty.*)
(***************************************************************************)
EXTENDS Processes

CONSTANTS
    Selectors,
    Torn        \* the file, truncated or half written

ASSUME WaiversAssumption ==
    /\ Selectors # {}
    /\ \A S \in SUBSET Selectors : S # Torn

VARIABLES
    file,       \* waivers.json: the selectors in it, or Torn
    mem,        \* Waivers::entries of each process
    wanted,     \* the selector it was given
    inForce,    \* history: those the user was told will be left alone
    disturbed   \* history: a torn file was read, or two changes overlapped

waivers == <<file, mem, wanted, inForce, disturbed>>

Read(f) == IF f = Torn THEN {} ELSE f

Changing == {"waiving", "unwaiving", "truncated waive", "truncated unwaive"}

Truncated(p) == at[p] \in {"truncated waive", "truncated unwaive"}

\* Waivers::open, for a change: what is read is kept until the save.
OpenToChange(p, s) ==
    /\ mem' = [mem EXCEPT ![p] = Read(file)]
    /\ wanted' = [wanted EXCEPT ![p] = s]
    /\ disturbed' = (disturbed \/ file = Torn
                        \/ \E q \in Procs \ {p} : at[q] \in Changing)
    /\ UNCHANGED <<file, inForce>>

\* Waivers::open, to plan.
OpenToPlan(p) ==
    /\ mem' = [mem EXCEPT ![p] = Read(file)]
    /\ disturbed' = (disturbed \/ file = Torn)
    /\ UNCHANGED <<file, wanted, inForce>>

\* A reason too short, a selector that is empty or `*`.
Refuse(p) ==
    /\ at[p] = "waiving"
    /\ Exits(p, ConfigError)
    /\ UNCHANGED waivers

NotThere(p) ==
    /\ at[p] = "unwaiving"
    /\ wanted[p] \notin mem[p]
    /\ Exits(p, ConfigError)
    /\ UNCHANGED waivers

Add(p) ==
    /\ at[p] = "waiving"
    /\ mem' = [mem EXCEPT ![p] = {s \in @ : s # wanted[p]} \union {wanted[p]}]
    /\ Goes(p, "truncated waive")

Remove(p) ==
    /\ at[p] = "unwaiving"
    /\ wanted[p] \in mem[p]
    /\ mem' = [mem EXCEPT ![p] = @ \ {wanted[p]}]
    /\ Goes(p, "truncated unwaive")

\* Waivers::add and remove, as far as fs::write opening the file.
Truncate(p) ==
    /\ Add(p) \/ Remove(p)
    /\ file' = Torn
    /\ UNCHANGED <<wanted, inForce, disturbed>>

\* fs::write, once it has truncated the file: of two that overlap, the text
\* of the later lies over that of the earlier.
Write(p) ==
    /\ Truncated(p)
    /\ file' \in IF file = Torn THEN {mem[p]} ELSE {mem[p], Torn}
    /\ inForce' = IF at[p] = "truncated waive" THEN inForce \union {wanted[p]}
                                             ELSE inForce \ {wanted[p]}
    /\ Exits(p, 0)
    /\ UNCHANGED <<mem, wanted, disturbed>>

\* The disk is full.
WriteFails(p) ==
    /\ Truncated(p)
    /\ Exits(p, 1)
    /\ UNCHANGED waivers

WaiverStep(p) ==
    Refuse(p) \/ NotThere(p) \/ Truncate(p) \/ Write(p) \/ WriteFails(p)

WaiverInit ==
    /\ file = {}
    /\ mem = [p \in Procs |-> {}]
    /\ wanted \in [Procs -> {CHOOSE s \in Selectors : TRUE}]
    /\ inForce = {} /\ disturbed = FALSE
=============================================================================
