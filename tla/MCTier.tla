------------------------------- MODULE MCTier -------------------------------
(***************************************************************************)
(* A project of three containers that all say where it is: app mounts the  *)
(* volume and is on the network, cron and job are on neither.  They have   *)
(* one image.                                                              *)
(*                                                                         *)
(* The project's COMPOSE_FILE lists a base file and a local one; data is   *)
(* declared in the second.                                                 *)
(***************************************************************************)
EXTENDS Tier, Compose

CONSTANTS app, cron, job, data, image, net, project

MCCons == {app, cron, job}
MCLabelOf == [r \in {app, cron, job, data, image, net} |->
                 IF r = image THEN NoProject ELSE project]
MCMountsOf == [c \in MCCons |-> IF c = app THEN {data} ELSE {}]
MCImageOf == [c \in MCCons |-> image]
MCNetsOf == [c \in MCCons |-> IF c = app THEN {net} ELSE {}]
MCRouteOf == [i \in {image} |-> "pull"]

MCLives == {f \in [MCCons -> {"unborn", "stopped", "running"}] :
               f[cron] = "stopped" /\ f[job] = "stopped" /\ f[app] # "running"}

Key(indent, key) == [indent |-> indent, key |-> key, bare |-> TRUE]
Entry(indent, key) == [indent |-> indent, key |-> key, bare |-> FALSE]

\* A directory "shop" with two compose files, next to one that is no project.
Base == <<Key(0, "services"), Key(2, "app"), Entry(4, "image"), Key(0, "volumes"), Key(2, "tmp")>>
Local == <<Key(0, "volumes"), Key(2, "data"), Entry(4, "driver")>>
Shop == [name |-> <<"shop">>, path |-> project, env |-> <<"base.yml", "local.yml">>,
         texts |-> [f \in {"base.yml", "local.yml"} |-> IF f = "base.yml" THEN Base ELSE Local],
         marked |-> FALSE]
Notes == [name |-> <<"notes">>, path |-> "notes", env |-> <<>>,
          texts |-> [f \in {"notes.txt"} |-> <<>>], marked |-> FALSE]

\* The containers gave shop its path; the disk adds what it declares.
Harvested == [n \in {<<"shop">>} |-> [root |-> {project}, declared |-> {}]]
MCCatalog == add_disk_projects(Harvested, <<Notes, Shop>>)

\* The shop declares its data while its directory is there, through the file
\* that only COMPOSE_FILE names: the configurations with a root set Declared
\* to what declared_by_live_project makes of the disk.
ASSUME DataIsDeclared ==
    /\ DeclaredBy(MCCatalog, {project}, <<"shop", "_", "data">>) = {<<"shop">>}
    /\ DeclaredBy(MCCatalog, {}, <<"shop", "_", "data">>) = {}
    /\ DOMAIN MCCatalog = {<<"shop">>}

(***************************************************************************)
(* declared_volumes against a reference, on every text of up to four lines *)
(***************************************************************************)
Lines == {Key(0, "volumes"), Key(0, "services"), Key(2, "a"), Key(2, "b"),
          Entry(4, "driver"), Key(4, "labels")}
Texts == UNION {[1..n -> Lines] : n \in 0..4}

\* The keys of a top-level mapping: the lines one level down.
ChildrenOf(text, head) ==
    {text[i].key : i \in {j \in DOMAIN text : /\ text[j].indent = 2
                                             /\ \E h \in 1..(j - 1) :
                                                    /\ text[h] = Key(0, head)
                                                    /\ \A g \in h..j : g = h \/ text[g].indent > 0}}

\* What is declared with two columns of indentation and nothing after the
\* colon is found, and nothing else is (providers/mod.rs:267).
ASSUME TwoColumnsAreRead == \A text \in Texts : KeysOf(text) = ChildrenOf(text, "volumes")

\* A name belongs to the longest of the projects it begins with, and to none
\* that it only shares letters with (providers/mod.rs:219-239).
ASSUME LongestOwns ==
    LET cedar == <<"cedar">>
        wordpress == <<"cedar", "-", "wordpress">>
        cat == [n \in {cedar, wordpress} |-> [root |-> {}, declared |-> {}]]
    IN  /\ longest_prefix(cat, wordpress \o <<"_", "mysql">>) = {wordpress}
        /\ longest_prefix(cat, cedar \o <<"-", "mysql">>) = {cedar}
        /\ longest_prefix(cat, <<"cedarwood", "_", "mysql">>) = {}
=============================================================================
