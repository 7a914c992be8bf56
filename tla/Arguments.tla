------------------------------ MODULE Arguments ------------------------------
(***************************************************************************)
(* What the command line is taken to ask for: how its words are read, and  *)
(* which of the things asked for at once is done.  What they then do is in *)
(* Waivers, Vault, Update, Tui and Commands.                               *)
(*                                                                         *)
(* A word is a string, and an option's operand any word that follows it.   *)
(* Something that may be absent is a set of at most one element.           *)
(***************************************************************************)
EXTENDS Integers, Sequences

LOCAL INSTANCE SequencesExt
LOCAL INSTANCE TLC

CONSTANTS
    Numbers,    \* the words that are numbers, and which
    TierLists,  \* the words that are lists of tiers, and of which
    Labels,     \* the words with an equals sign
    Sentences   \* the words of twelve characters or more

\* Args, as parse_args starts with it.
Defaults ==
    [json |-> FALSE, with_sizes |-> TRUE, apply |-> FALSE, tiers |-> {"free"},
     only_label |-> {}, roots |-> {}, only_context |-> {}, remote |-> FALSE,
     no_tui |-> FALSE, no_probe |-> FALSE, force_container_probe |-> FALSE,
     deadline |-> 120, no_vault |-> FALSE, vault_cmd |-> {}, waiver_cmd |-> {},
     reason |-> {}, update_cmd |-> {}, no_update_check |-> FALSE]

\* The options that stand alone, each with the field it sets and to what.
Switches ==
    [word \in {"--json", "--no-tui", "--remote", "--no-probe", "--container-probe", "--no-vault",
               "--no-update-check", "--apply"} |-> TRUE]
    @@ [word \in {"--no-sizes"} |-> FALSE]
    @@ ("--waivers" :> {<<"list", "">>}) @@ ("--vault" :> {<<"list", "">>})
    @@ ("--vault-verify" :> {<<"verify", "">>})
    @@ ("--check-update" :> {"check"}) @@ ("--update" :> {"install"})

Field ==
    "--json" :> "json" @@ "--no-sizes" :> "with_sizes" @@ "--no-tui" :> "no_tui"
    @@ "--deadline" :> "deadline" @@ "--remote" :> "remote" @@ "--no-probe" :> "no_probe"
    @@ "--container-probe" :> "force_container_probe" @@ "--no-vault" :> "no_vault"
    @@ "--waivers" :> "waiver_cmd" @@ "--waive" :> "waiver_cmd" @@ "--unwaive" :> "waiver_cmd"
    @@ "--reason" :> "reason" @@ "--vault" :> "vault_cmd" @@ "--vault-verify" :> "vault_cmd"
    @@ "--vault-dump" :> "vault_cmd" @@ "--vault-forget" :> "vault_cmd"
    @@ "--vault-restore" :> "vault_cmd" @@ "--check-update" :> "update_cmd"
    @@ "--update" :> "update_cmd" @@ "--update-check" :> "update_cmd"
    @@ "--no-update-check" :> "no_update_check" @@ "--apply" :> "apply" @@ "--tiers" :> "tiers"
    @@ "--only-label" :> "only_label" @@ "--roots" :> "roots" @@ "--context" :> "only_context"

Takes == DOMAIN Field \ DOMAIN Switches

\* What an operand is read as: {} if it will not do.
Reads(option, word) ==
    CASE option = "--deadline" -> {Numbers[w] : w \in {word} \intersect DOMAIN Numbers}
      [] option = "--tiers" -> {TierLists[w] : w \in {word} \intersect DOMAIN TierLists}
      [] option = "--only-label" -> {{w} : w \in {word} \intersect Labels}
      [] option = "--update-check" -> {{w} : w \in {word} \intersect {"on", "off"}}
      [] option = "--waive" -> {{<<"add", word>>}}
      [] option = "--unwaive" -> {{<<"remove", word>>}}
      [] option = "--vault-dump" -> {{<<"dump", word>>}}
      [] option = "--vault-forget" -> {{<<"forget", word>>}}
      [] option = "--vault-restore" -> {{<<"restore", word>>}}
      [] OTHER -> {{word}}

Sets(s, option, value) == [s EXCEPT !.args[Field[option]] = value, !.awaits = {}]
Ends(s, how) == [s EXCEPT !.ends = how]

\* One word more: the operand of the option before it, whatever it looks
\* like, or an option; the first that will not do ends the reading, and so
\* do --help and --version.
Word(s, word) ==
    IF s.ends # "no" THEN s
    ELSE IF s.awaits # {}
    THEN LET option == CHOOSE o \in s.awaits : TRUE IN
         IF Reads(option, word) = {} THEN Ends(s, "error")
         ELSE Sets(s, option, CHOOSE v \in Reads(option, word) : TRUE)
    ELSE CASE word \in DOMAIN Switches -> Sets(s, word, Switches[word])
           [] word \in Takes -> [s EXCEPT !.awaits = {word}]
           [] word \in {"-V", "--version", "-h", "--help"} -> Ends(s, "told")
           [] OTHER -> Ends(s, "error")

parse_args(words) ==
    LET s == FoldLeft(Word, [args |-> Defaults, awaits |-> {}, ends |-> "no"], words)
    IN  IF s.ends = "no" /\ s.awaits # {} THEN Ends(s, "error") ELSE s
-----------------------------------------------------------------------------
\* A remote daemon takes the option and a reason.
remote_authorisation(args) ==
    CASE ~args.remote -> "local"
      [] args.remote /\ args.reason \intersect Sentences # {} -> "allowed"
      [] OTHER -> "refused"

\* terminal: which of the streams are one, and whether CI is set.
wants_tui(args, terminal) ==
    /\ ~args.no_tui /\ ~args.json /\ ~args.apply
    /\ terminal.out /\ terminal.in /\ ~terminal.ci

\* The contexts of the name asked for, remote ones if they are allowed.
Usable(args, contexts) ==
    SelectSeq(contexts, LAMBDA c : /\ args.only_context \in {{}, {c.name}}
                                   /\ c.local \/ remote_authorisation(args) = "allowed")

\* What is done: the waivers come before the vault, and that before the
\* update; only then is there a run, and only --apply makes it clean.
run(args, terminal, contexts) ==
    CASE args.waiver_cmd # {} -> "waivers"
      [] args.waiver_cmd = {} /\ args.vault_cmd # {} -> "vault"
      [] args.waiver_cmd = {} /\ args.vault_cmd = {} /\ args.update_cmd # {} -> "update"
      [] OTHER ->
           CASE remote_authorisation(args) = "refused" -> "usage"
             [] remote_authorisation(args) # "refused" /\ Usable(args, contexts) = <<>> -> "nowhere"
             [] OTHER -> IF wants_tui(args, terminal) THEN "interface"
                         ELSE IF args.apply THEN "cleans" ELSE "previews"
-----------------------------------------------------------------------------
\* --vault: what it does and the code it ends with, as far as that does not
\* hang on the daemon.  stored: the ids in the vault, bad: those whose archive
\* is not what it was, volumes: those of the first local context.
run_vault(cmd, reason, stored, bad, volumes, contexts) ==
    LET what == cmd[1]
        name == cmd[2]
        nowhere == ~\E i \in DOMAIN contexts : contexts[i].local
        Does(it) == [does |-> it, code |-> 0]
        Answers(code) == [does |-> "nothing", code |-> code]
    IN
    CASE what = "list" -> Does("nothing")
      [] what = "verify" -> Answers(IF bad = {} THEN 0 ELSE 5)
      [] what = "dump" ->
             IF nowhere THEN Answers(3)
             ELSE IF name \notin volumes THEN Answers(2) ELSE Does("store")
      [] what = "forget" ->
             IF name \notin stored \/ reason \intersect Sentences = {} THEN Answers(2)
             ELSE Does("forget")
      [] what = "restore" ->
             IF name \notin stored THEN Answers(2)
             ELSE IF nowhere THEN Answers(3) ELSE Does("restore")
=============================================================================
