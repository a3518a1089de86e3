--------------------------- MODULE MCDeployBroker ---------------------------
(***************************************************************************)
(* The deploy broker for TLC: one or two releases, given in the .cfg files *)
(* as model values.                                                        *)
(***************************************************************************)
EXTENDS DeployBrokerRefinement, TLC

(* Two releases that are both fit can be exchanged.                        *)
ReleaseSymmetry == Permutations(Releases)
=============================================================================
