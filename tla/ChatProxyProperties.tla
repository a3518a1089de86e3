------------------------ MODULE ChatProxyProperties -------------------------
(***************************************************************************)
(* What the chat proxy must guarantee to its clients.                      *)
(***************************************************************************)
EXTENDS ChatProxy

(* A client that asked for a schema learns whether it got one: a 200 that  *)
(* the schema was dropped for names a reason, one that kept it names none  *)
(* (main.py drops jsonSchema on the fallback, "at the cost of losing       *)
(* structured-output guarantees").                                         *)
SchemaLossDisclosed ==
  \A q \in Requests :
    LET r == request[q] IN
    r.code = 200 =>
      ((r.format = "json_schema" /\ ~r.schema) <=> r.fallback_reason # "none")

(* A request waits on the Model Connector only in a process that has its   *)
(* secret and whose client is open: neither a shutdown nor a restart that  *)
(* overlaps it closes the client under it.                                 *)
WaitsOnOpenClient == \A q \in Requests : Waiting(q) => secret # None /\ client

-----------------------------------------------------------------------------
(* Liveness: a call of the Model Connector ends (httpx waits 300 s for     *)
(* each read, and replies are finite), and so does a drain once begun.     *)
FairSpec ==
  /\ Spec
  /\ \A q \in Requests : WF_vars(\E mc \in Replies : Resume(q, mc))
  /\ WF_vars(Close)

(* Every request ends: it is answered, or lost with its process.           *)
EveryRequestEnds ==
  \A q \in Requests : Waiting(q) ~> request[q].phase \in {"answered", "lost"}

(* A drain ends, although each request it waits for may call twice.        *)
DrainEnds == lifespan = "draining" ~> lifespan = "down"

=============================================================================
