------------------------ MODULE MCRuntimeEnvironment ------------------------
(***************************************************************************)
(* The runtime environment for TLC: a required and an optional setting, a  *)
(* reviewed name of images and one that nobody reviewed; a value of one    *)
(* line, one of two lines and the empty one.                               *)
(***************************************************************************)
EXTENDS RuntimeEnvironment, TLC

CONSTANTS secret, route, path, extra, line, lines

MCNames == {secret, route, path, extra}
MCFirstLine == (line :> line) @@ (lines :> line) @@ (Empty :> Empty)

(* Images that bring along a default for an application's setting too.     *)
MCImageEnvironments ==
  {e \in [MCNames -> {line, Unset}] : e[extra] = Unset /\ e[secret] = Unset}
=============================================================================
