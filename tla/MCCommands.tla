----------------------------- MODULE MCCommands -----------------------------
(***************************************************************************)
(* Two contexts of one engine and one of another, and a release after the  *)
(* one that is installed, which says what it is: a binary that does not is *)
(* left to the theorem, which holds of every Says.                         *)
(***************************************************************************)
EXTENDS Commands, MCArguments

CONSTANTS ctx1, ctx2, ctx3, eng1, eng2, p1, p2, db, cache1, exact, prefix

MCContexts == <<ctx1, ctx2, ctx3>>
MCEngineOf == [c \in {ctx1, ctx2, ctx3} |-> IF c = ctx3 THEN eng2 ELSE eng1]
MCCovers == [s \in Selectors |-> IF s = exact THEN {db} ELSE {db, cache1}]
MCSays == <<1, 2>>

\* What a process knew that has ended is not read again, Begin saying it anew,
\* but for what the properties ask about: states that differ in nothing else
\* are one.
MCView ==
    <<at, code, starts, waivers, feed, cache, disk, landed, apply, gone, history, seen,
      [p \in Running |->
          <<runs[p], replaced[p], guard[p], accepted[p], answer[p], manifest[p],
            staged[p], synced[p], misled[p], flag[p], next[p], exit[p], plan[p]>>]>>
=============================================================================
