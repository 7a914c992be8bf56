---------------------------- MODULE SafeRemoval ----------------------------
(***************************************************************************)
(* What the apply path promises, without saying how it keeps the promise.  *)
(*                                                                         *)
(* The user consents to a set of resources.  A resource is licensed once   *)
(* its evidence has been re-derived and found unchanged.  Only a licensed  *)
(* resource is ever removed on the run's behalf, at most once, and a       *)
(* precious one (an irreversible volume) only when the vault already holds *)
(* a copy of it.  Copies are never taken back by a run.                    *)
(*                                                                         *)
(* Executor implements this specification.                                 *)
(***************************************************************************)
CONSTANTS
    Res,        \* the resources the plan lists
    Precious,   \* those whose loss could not be undone: the vault's business
    Content,    \* what a resource can hold
    Kept        \* the mark of a resource this run has not removed

VARIABLES
    consent,    \* the resources the user's choices let the run act on
    licence,    \* the resources whose witness has been revalidated
    vault,      \* the verified copies: records [vol, content]
    removed     \* per resource: what it held when the run removed it, or Kept

vars == <<consent, licence, vault, removed>>

Copy == [vol : Res, content : Content]

HasCopy(r) == \E c \in vault : c.vol = r

Init ==
    /\ consent \in SUBSET Res
    /\ licence = {}
    /\ vault = {}
    /\ removed = [r \in Res |-> Kept]

\* A witness is revalidated: it becomes permission to act.
License(r) ==
    /\ r \in consent
    /\ licence' = licence \union {r}
    /\ UNCHANGED <<consent, vault, removed>>

\* A verified copy of a licensed resource enters the vault.
Preserve(r) ==
    /\ r \in licence
    /\ \E c \in Content : vault' = vault \union {[vol |-> r, content |-> c]}
    /\ UNCHANGED <<consent, licence, removed>>

\* A licensed resource goes, and a precious one leaves a copy behind.
Remove(r) ==
    /\ r \in licence
    /\ removed[r] = Kept
    /\ r \in Precious => HasCopy(r)
    /\ \E c \in Content : removed' = [removed EXCEPT ![r] = c]
    /\ UNCHANGED <<consent, licence, vault>>

Next == \E r \in Res : License(r) \/ Preserve(r) \/ Remove(r)

Spec == Init /\ [][Next]_vars
=============================================================================
