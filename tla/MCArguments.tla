----------------------------- MODULE MCArguments -----------------------------
(***************************************************************************)
(* How command lines are read, evaluated on all short ones with every run  *)
(* of MCCommands.                                                          *)
(***************************************************************************)
EXTENDS Integers, Sequences

A == INSTANCE Arguments WITH
    Numbers <- [w \in {"0", "90"} |-> IF w = "0" THEN 0 ELSE 90],
    TierLists <- [w \in {"stale"} |-> {"stale"}],
    Labels <- {"a=b"},
    Sentences <- {"kept for the audit"}

Operands == {"90", "stale", "a=b", "on", "kept for the audit", "x"}
Some == {"--apply", "--json", "--reason", "--remote", "--tiers", "--vault-forget", "--waivers",
         "--check-update", "--help", "stale", "kept for the audit", "x"}

Lines(n) == UNION {[1..k -> Some] : k \in 0..n}

\* Whether a word is an operand, seen from the end: the word before it takes
\* one, and is not one itself.
Operand(words) ==
    LET f[i \in 0..Len(words)] == i > 1 /\ words[i - 1] \in A!Takes /\ ~f[i - 1]
    IN  f

Said(words, option) == \E i \in 1..Len(words) : words[i] = option /\ ~Operand(words)[i]

Reached == <<[name |-> "far", local |-> FALSE], [name |-> "near", local |-> TRUE]>>
Terminals == [out : BOOLEAN, in : BOOLEAN, ci : BOOLEAN]

\* A command line cleans only if --apply was said and not as the operand of
\* something else, no line that names a command does, and a daemon elsewhere
\* is reached only with --remote and a reason in so many words.
ASSUME OnlyWhatWasAsked ==
    \A words \in Lines(3) : \A terminal \in Terminals :
        LET read == A!parse_args(words)
            does == A!run(read.args, terminal, Reached)
        IN read.ends = "no" =>
               /\ does = "cleans" =>
                      /\ Said(words, "--apply")
                      /\ \A o \in {"--vault-forget", "--waivers", "--check-update"} :
                             ~Said(words, o)
               /\ does = "interface" => ~Said(words, "--json") /\ ~Said(words, "--apply")
               /\ A!Usable(read.args, Reached) = Reached =>
                      Said(words, "--remote") /\ Said(words, "--reason")

\* Options may come in any order, and of two that set the same the later one
\* counts, as if the earlier had not been there.
Phrases == {<<w>> : w \in DOMAIN A!Switches} \union (A!Takes \X Operands)

ASSUME LaterCounts ==
    \A one, two \in Phrases :
        LET read == A!parse_args(one \o two)
            swapped == A!parse_args(two \o one)
        IN IF A!Field[one[1]] = A!Field[two[1]]
           THEN read.ends = "no" => read = A!parse_args(two)
           ELSE /\ read.ends = swapped.ends
                /\ read.ends = "no" => read = swapped

\* The last copy of something goes only with a reason, and what is asked of
\* the vault is never a removal from the daemon.
ASSUME VaultCommandsAreCareful ==
    \A cmd \in {"list", "verify", "dump", "forget", "restore"} \X {"x", "y"} :
    \A reason \in {{}, {"x"}, {"kept for the audit"}} :
    \A stored, volumes \in SUBSET {"x"} : \A bad \in SUBSET stored :
    \A contexts \in {<<>>, <<Reached[1]>>, Reached} :
        LET does == A!run_vault(cmd, reason, stored, bad, volumes, contexts) IN
        /\ does.does = "forget" => reason = {"kept for the audit"} /\ cmd = <<"forget", "x">>
        /\ does.does \in {"store", "restore"} => contexts = Reached
        /\ does.code # 0 => does.does = "nothing"
=============================================================================
