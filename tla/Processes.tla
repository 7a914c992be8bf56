------------------------------ MODULE Processes ------------------------------
(***************************************************************************)
(* The processes of one user that share a configuration directory, a cache *)
(* and the executable: each is one invocation of the program at a time.    *)
(***************************************************************************)
EXTENDS Integers, FiniteSets

CONSTANTS
    Procs,
    MaxStarts   \* bound: invocations, over all processes

ASSUME ProcessesAssumption == MaxStarts \in Nat

VARIABLES
    at,         \* the step a process is at; "out" when it does not run
    code,       \* its exit code; -1 while it runs and when it was killed
    starts      \* how many invocations there were

Starting == starts < MaxStarts /\ starts' = starts + 1

Goes(p, where) == at' = [at EXCEPT ![p] = where] /\ UNCHANGED code

\* main: the code the shell sees; an error has its own.
Exits(p, c) ==
    /\ at' = [at EXCEPT ![p] = "out"]
    /\ code' = [code EXCEPT ![p] = c]

Running == {p \in Procs : at[p] # "out"}

ConfigError == 2
Unreachable == 3
Denied == 4
Trouble == 5
Cancelled == 130

\* Error::exit_code: what an error ends a process with, unless it is Cancelled.
Errors == {1, ConfigError, Unreachable, Denied}
=============================================================================
