----------------------- MODULE DeployBrokerRefinement -----------------------
(***************************************************************************)
(* The deploy broker implements the contract of a cutover.                 *)
(***************************************************************************)
EXTENDS DeployBrokerProperties

(* A record that was rolled back and one that failed before its cutover    *)
(* both stand for a release that is over.                                  *)
PhaseOf(d) ==
  IF d = None THEN "untouched"
  ELSE CASE d.status = "preparing" -> "open"
         [] d.status = "deployed"  -> "deployed"
         [] d.status = "committed" -> "committed"
         [] d.status = "restoring" -> IF d.committed THEN "withdrawing" ELSE "undoing"
         [] OTHER                  -> "over"

Contract == INSTANCE CutoverContract WITH
  installed <- IF production = None THEN None ELSE production.image,
  healthy   <- Serving(production),
  phase     <- [r \in Releases |-> PhaseOf(disk[r])],
  previous  <- [r \in Releases |-> IF disk[r] = None THEN None ELSE disk[r].old_image],
  retained  <- {r \in Releases : backup[r] # None},
  watched   <- enabled \cap active

(* Whatever races, fails, dies or is retried, what the host goes through   *)
(* is a cutover of the contract: every effect of llm_proxy_deploy.py is    *)
(* one step of it, or none.                                                *)
ImplementsContract == Contract!ContractSpec
=============================================================================
