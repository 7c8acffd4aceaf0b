----------------------------- MODULE MCDeployments -----------------------------
(* Small instances of Deployments for TLC. *)
EXTENDS Deployments, TLC

CONSTANTS app, web

\* "web" here is named like "app-web": its snapshots look like app's.
NamesClash == {<<app, web>>}
NoClash == {}

Symmetry == Permutations(Jobs)
================================================================================
