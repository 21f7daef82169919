--------------------------- MODULE MCDiscoveryRun ---------------------------
(***************************************************************************)
(* Instances of DiscoveryRun for TLC: two consoles share the wanted name   *)
(* and a third has another; one address also sends something malformed.    *)
(***************************************************************************)
EXTENDS DiscoveryRun

Names3 == [s \in Source |-> IF s = "c" THEN "other" ELSE "wanted"]

MalformedStray == {[src |-> "a", reply |-> "malformed"]}
=============================================================================
