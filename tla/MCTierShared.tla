---------------------------- MODULE MCTierShared ----------------------------
(***************************************************************************)
(* Two projects that share a volume: app and job are one's, cron is the    *)
(* other's and mounts the same data.  more is a second volume of the first *)
(* project, which nothing mounts.                                          *)
(***************************************************************************)
EXTENDS Tier

CONSTANTS app, cron, job, data, more, image, net, project, other

MCCons == {app, cron, job}
MCLabelOf == [r \in {app, cron, job, data, more, image, net} |->
                 CASE r = image -> NoProject
                   [] r = cron -> other
                   [] OTHER -> project]
MCMountsOf == [c \in MCCons |-> IF c = job THEN {} ELSE {data}]
MCImageOf == [c \in MCCons |-> image]
MCNetsOf == [c \in MCCons |-> IF c = app THEN {net} ELSE {}]
MCRouteOf == [i \in {image} |-> "pull"]

MCLives == {[c \in MCCons |-> IF c = app THEN "stopped" ELSE "unborn"]}
=============================================================================
