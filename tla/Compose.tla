------------------------------ MODULE Compose -------------------------------
(***************************************************************************)
(* What is read from disk about a project: which of its files are compose  *)
(* files, which volumes they declare, and which of the projects a volume   *)
(* is then taken to belong to.                                             *)
(*                                                                         *)
(* A catalog maps the names of projects to what is known of them.  A name  *)
(* is a sequence of words and separators.  A directory on disk has a name, *)
(* the COMPOSE_FILE of its .env (empty if there is none), the texts of its *)
(* readable files, and is marked if it holds .ddev or .devcontainer.  A    *)
(* text is a sequence of lines [indent, key, bare]: bare lines hold a key, *)
(* a colon and no more; comments and blank lines are not lines.            *)
(***************************************************************************)
EXTENDS Integers, Sequences

LOCAL INSTANCE SequencesExt

Conventional == <<"docker-compose.yml", "docker-compose.yaml", "compose.yml", "compose.yaml">>

has_compose_file(d) == \E f \in ToSet(Conventional) : f \in DOMAIN d.texts

\* What COMPOSE_FILE lists, if it lists any.
compose_files(d) == IF d.env # <<>> THEN ToSet(d.env) ELSE ToSet(Conventional)

\* The top-level key a line is under: there is none before the first.
Under(text, i) ==
    LET heads == {h \in 1..(i - 1) : text[h].indent = 0}
    IN  IF heads = {} THEN {} ELSE {text[CHOOSE h \in heads : \A g \in heads : g <= h].key}

\* The bare keys within two columns, of the lines under volumes.
KeysOf(text) ==
    {text[i].key : i \in {j \in 1..Len(text) : /\ text[j].indent \in 1..2 /\ text[j].bare
                                               /\ Under(text, j) = {"volumes"}}}

declared_volumes(d) ==
    UNION {KeysOf(d.texts[f]) : f \in compose_files(d) \intersect DOMAIN d.texts}

\* A known project keeps its path and takes the declarations; a new one is
\* added if the directory shows what makes it a project.
Adds(cat, d) ==
    LET declared == declared_volumes(d)
        known == DOMAIN cat
    IN  IF d.name \in known
            THEN [cat EXCEPT ![d.name] = [root |-> IF @.root = {} THEN {d.path} ELSE @.root,
                                          declared |-> @.declared \union declared]]
        ELSE IF d.marked \/ has_compose_file(d)
            THEN [n \in known \union {d.name} |->
                     IF n = d.name THEN [root |-> {d.path}, declared |-> declared] ELSE cat[n]]
        ELSE cat

\* The directories of the configured roots, in order.
add_disk_projects(cat, dirs) == FoldLeft(Adds, cat, dirs)

declared_matches(declared, project, volume) ==
    volume = <<declared>> \/ volume = project \o <<"_", declared>>

\* declared_by_live_project, of the paths that are there.
DeclaredBy(cat, paths, volume) ==
    {n \in DOMAIN cat : /\ cat[n].root # {} /\ cat[n].root \subseteq paths
                        /\ \E v \in cat[n].declared : declared_matches(v, n, volume)}

\* The projects the name begins with, up to a separator; then the longest.
Owners(cat, name) ==
    {n \in DOMAIN cat : \/ n = name
                        \/ /\ Len(n) < Len(name) /\ IsPrefix(n, name)
                           /\ name[Len(n) + 1] \in {"_", "-"}}

longest_prefix(cat, name) ==
    {n \in Owners(cat, name) : \A m \in Owners(cat, name) : Len(m) <= Len(n)}
=============================================================================
