----------------------------- MODULE ChatProxy ------------------------------
(***************************************************************************)
(* The chat proxy (app/): concurrent /v1/chat/completions requests that    *)
(* share one loaded secret and one lazily opened client of the Model       *)
(* Connector, the fallback from codex to openrouter, and the life of the   *)
(* process around them.  A request is suspended only while it awaits the   *)
(* Model Connector: what it does between two awaits is one action.         *)
(***************************************************************************)

CONSTANTS
  Requests,   \* the requests clients may send
  ErrorTypes, \* the values of error.type the Model Connector uses
  None        \* no reply yet

Formats == {"absent", "text", "json_object", "json_schema", "json_schema_without_schema"}
Sources == {"env", "vault"}   \* where a secret comes from; the two differ
Tokens  == {"missing", "wrong"} \cup Sources
Connectors == {"codex", "openrouter"}

(* The types app/main.py answers with a call of openrouter.                *)
FallbackTypes == {"rate_limited", "auth_error", "execution_error", "circuit_open",
                  "queue_timeout", "upstream_5xx"}
SyntheticTypes == {"network_error", "auth_error", "rate_limited", "upstream_5xx",
                   "validation_error", "parse_error"}

(* MCResponse, as far as the proxy tells one from another; an error body   *)
(* may come without an "error" object.                                     *)
MCResponse == {[status |-> "success", type |-> "", retryable |-> FALSE],
               [status |-> "error", type |-> "", retryable |-> FALSE]}
  \cup [status: {"error"}, type: ErrorTypes \cup SyntheticTypes, retryable: BOOLEAN]

Codes == {200, 400, 401, 502, 503}

Request ==
  [phase: {"new", "first_call", "second_call", "answered", "lost"},
   format: Formats,
   connector: Connectors,                        \* the one called last
   schema: BOOLEAN,                              \* does the payload carry jsonSchema?
   fallback_reason: {"none", "429", "auth_error"},
   last: MCResponse \cup {None},                 \* what the last call came to
   code: Codes \cup {None}]

ASSUME NoneAssumption == None \notin Codes \cup MCResponse \cup Sources

VARIABLES
  lifespan, \* of the process: down, serving, draining
  secret,   \* the secret set_shared_secret has stored in this process
  client,   \* is the client of the Model Connector open?
  request   \* per request: how far it is

vars == <<lifespan, secret, client, request>>

TypeOK ==
  /\ lifespan \in {"down", "serving", "draining"}
  /\ secret \in Sources \cup {None}
  /\ client \in BOOLEAN
  /\ request \in [Requests -> Request]

Unsent == [phase |-> "new", format |-> "absent", connector |-> "openrouter",
           schema |-> FALSE, fallback_reason |-> "none",
           last |-> None, code |-> None]

Init ==
  /\ lifespan = "down"
  /\ secret = None
  /\ client = FALSE
  /\ request = [q \in Requests |-> Unsent]

Waiting(q) == request[q].phase \in {"first_call", "second_call"}

-----------------------------------------------------------------------------
(* The life of the process.                                                *)

(* What a process may find when it starts.  A login or a read that raises  *)
(* counts as not authenticated or as a field that is absent.               *)
Surroundings ==
  [direct: BOOLEAN,                      \* LLM_PROXY_SHARED_SECRET, not blank
   vault_addr: BOOLEAN, hvac: BOOLEAN,   \* VAULT_ADDR; is the hvac package there?
   auth: {"token", "approle", "none"}, authenticated: BOOLEAN,
   field: {"absent", "blank", "set"}]

fetch_via_hvac(e) ==
  IF e.hvac /\ e.auth # "none" /\ e.authenticated /\ e.field = "set" THEN "vault" ELSE None

load_shared_secret(e) ==
  IF e.direct THEN "env" ELSE IF e.vault_addr THEN fetch_via_hvac(e) ELSE None

(* Without a secret load_shared_secret raises: the process never serves,   *)
(* and Docker starts it again.  Another start may find another secret.     *)
Startup(e) ==
  /\ lifespan = "down"
  /\ load_shared_secret(e) # None
  /\ lifespan' = "serving"
  /\ secret' = load_shared_secret(e)
  /\ UNCHANGED <<client, request>>

(* SIGTERM: the server takes no new request and lets the others end.       *)
Shutdown ==
  /\ lifespan = "serving"
  /\ lifespan' = "draining"
  /\ UNCHANGED <<secret, client, request>>

(* The server, not the application, waits for the requests it has taken.   *)
Drained == \A q \in Requests : ~Waiting(q)

(* Faulty variant: the client is closed while requests still use it.       *)
CloseUndrained ==
  /\ lifespan = "draining"
  /\ client' = FALSE
  /\ UNCHANGED <<lifespan, secret, request>>

(* The application closes the client as soon as the server lets it end.    *)
Close ==
  /\ lifespan = "draining"
  /\ Drained
  /\ lifespan' = "down"
  /\ secret' = None
  /\ client' = FALSE
  /\ UNCHANGED request

(* SIGKILL (docker stop --time 15 runs out) or a crash.                    *)
Kill ==
  /\ lifespan # "down"
  /\ lifespan' = "down"
  /\ secret' = None
  /\ client' = FALSE
  /\ request' = [q \in Requests |->
                   IF Waiting(q) THEN [request[q] EXCEPT !.phase = "lost"] ELSE request[q]]

-----------------------------------------------------------------------------
(* A request, up to its first await: require_bearer, route, and the first  *)
(* mc_client.execute, which opens the client if it is not open.            *)

Answered(r, code) == [r EXCEPT !.phase = "answered", !.code = code]

require_bearer(token) ==
  IF secret = None THEN 503 ELSE IF token # secret THEN 401 ELSE None

route(r) ==
  [r EXCEPT !.phase = "first_call",
            !.connector = IF r.format = "json_schema" THEN "codex" ELSE "openrouter",
            !.schema = r.format = "json_schema"]

Receive(q, format, token) ==
  LET r == [Unsent EXCEPT !.format = format]
      refusal == IF require_bearer(token) # None THEN require_bearer(token)
                 ELSE IF format = "json_schema_without_schema" THEN 400 ELSE None
  IN
  /\ lifespan = "serving"
  /\ request[q].phase = "new"
  /\ request' = [request EXCEPT ![q] = IF refusal # None THEN Answered(r, refusal) ELSE route(r)]
  /\ client' = (client \/ refusal = None)
  /\ UNCHANGED <<lifespan, secret>>

-----------------------------------------------------------------------------
(* mc_client.execute: what it makes of a reply of the Model Connector.     *)

Http == {"2xx", "401_403", "429", "4xx", "5xx"}
Bodies == MCResponse \cup {None}   \* None: not an MCResponse

synthetic_error(type, retryable) ==
  [status |-> "error", type |-> type, retryable |-> retryable]

NetworkError == synthetic_error("network_error", TRUE)

execute(http, body) ==
  IF http = "2xx"
    THEN IF body # None THEN body ELSE synthetic_error("parse_error", FALSE)
  ELSE IF body # None /\ body.status = "error" THEN body
  ELSE CASE http = "401_403" -> synthetic_error("auth_error", FALSE)
         [] http = "429"     -> synthetic_error("rate_limited", TRUE)
         [] http = "5xx"     -> synthetic_error("upstream_5xx", TRUE)
         [] http = "4xx"     -> synthetic_error("validation_error", FALSE)

Replies == {NetworkError} \cup {execute(http, body) : http \in Http, body \in Bodies}

-----------------------------------------------------------------------------
(* What a request does with it: fall back, answer, or report the failure.  *)

FallsBack(r, mc) ==
  mc.status = "error" /\ r.connector = "codex" /\ mc.type \in FallbackTypes

(* Faulty variants: the reason is not reported; the type of the error is   *)
(* reported as it came; codex is asked again.                              *)
fallback_silently(r, mc) ==
  [r EXCEPT !.phase = "second_call", !.connector = "openrouter", !.schema = FALSE,
            !.last = mc]
fallback_verbatim(r, mc) ==
  [r EXCEPT !.phase = "second_call", !.connector = "openrouter", !.schema = FALSE,
            !.last = mc,
            !.fallback_reason = IF mc.type = "rate_limited" THEN "429" ELSE mc.type]
fallback_again(r, mc) == [r EXCEPT !.last = mc, !.fallback_reason = "auth_error"]

fallback(r, mc) ==
  [r EXCEPT !.phase = "second_call", !.connector = "openrouter", !.schema = FALSE,
            !.last = mc,
            !.fallback_reason = IF mc.type = "rate_limited" THEN "429" ELSE "auth_error"]

response_code(mc) ==
  IF mc.status = "success" THEN 200 ELSE IF mc.retryable THEN 503 ELSE 502

Resume(q, mc) ==
  LET r == [request[q] EXCEPT !.last = mc] IN
  /\ lifespan # "down"
  /\ Waiting(q)
  /\ request' = [request EXCEPT ![q] =
                   IF r.phase = "first_call" /\ FallsBack(r, mc)
                     THEN fallback(r, mc) ELSE Answered(r, response_code(mc))]
  /\ client' = (client \/ (r.phase = "first_call" /\ FallsBack(r, mc)))
  /\ UNCHANGED <<lifespan, secret>>

Next ==
  \/ \E e \in Surroundings : Startup(e)
  \/ Shutdown \/ Close \/ Kill
  \/ \E q \in Requests :
       \/ \E format \in Formats, token \in Tokens : Receive(q, format, token)
       \/ \E mc \in Replies : Resume(q, mc)

Spec == Init /\ [][Next]_vars
=============================================================================
