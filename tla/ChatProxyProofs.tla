--------------------------- MODULE ChatProxyProofs --------------------------
(***************************************************************************)
(* Proofs about the chat proxy, for any number of requests and any error   *)
(* types of the Model Connector.                                           *)
(***************************************************************************)
EXTENDS ChatProxyProperties, TLAPS

(* Whatever the Model Connector sends, execute makes an MCResponse of it.  *)
LEMMA RepliesTyped == Replies \subseteq MCResponse
<1>1. ASSUME NEW type \in SyntheticTypes, NEW retryable \in BOOLEAN
      PROVE  synthetic_error(type, retryable) \in MCResponse
  BY <1>1 DEF synthetic_error, MCResponse
<1>2. ASSUME NEW http \in Http, NEW body \in Bodies
      PROVE  execute(http, body) \in MCResponse
  BY <1>1, <1>2 DEF Http, Bodies, execute, SyntheticTypes
<1>3. NetworkError \in MCResponse
  BY <1>1 DEF NetworkError, SyntheticTypes
<1> QED
  BY <1>2, <1>3 DEF Replies

(* A waiting request carries its schema exactly until it falls back, and   *)
(* names a reason exactly after it.                                        *)
RequestInv(r) ==
  /\ r.phase = "new" => r.code = None
  /\ r.phase = "first_call" =>
       /\ r.schema <=> r.format = "json_schema"
       /\ r.connector = "codex" <=> r.format = "json_schema"
       /\ r.fallback_reason = "none"
       /\ r.code = None
  /\ r.phase = "second_call" =>
       r.format = "json_schema" /\ ~r.schema /\ r.fallback_reason # "none" /\ r.code = None
  /\ r.code = 200 => ((r.format = "json_schema" /\ ~r.schema) <=> r.fallback_reason # "none")
  /\ r.phase = "lost" => r.code = None

Inv ==
  /\ TypeOK
  /\ WaitsOnOpenClient
  /\ lifespan # "down" => secret # None
  /\ lifespan = "down" => \A q \in Requests : ~Waiting(q)
  /\ \A q \in Requests : RequestInv(request[q])

(* The request a client has not sent yet is well formed.                   *)
LEMMA UnsentTyped == Unsent \in Request /\ RequestInv(Unsent)
<1>1. Unsent \in Request
  BY DEF Unsent, Request, Formats, Connectors
<1>2. RequestInv(Unsent)
  BY NoneAssumption DEF Unsent, RequestInv, Codes
<1> QED
  BY <1>1, <1>2

(* The process before its first start.                                     *)
LEMMA InitInv == Init => Inv
<1> SUFFICES ASSUME Init PROVE Inv
  OBVIOUS
<1>1. \A q \in Requests : request[q] = Unsent /\ ~Waiting(q)
  BY DEF Init, Waiting, Unsent
<1>2. TypeOK
  BY UnsentTyped DEF Init, TypeOK
<1> QED
  BY <1>1, <1>2, UnsentTyped DEF Init, Inv, WaitsOnOpenClient

(* The process may change under its requests, and lose those that wait.    *)
LEMMA LossInv ==
  ASSUME NEW r \in Request, RequestInv(r), r.phase \in {"first_call", "second_call"}
  PROVE  LET l == [r EXCEPT !.phase = "lost"] IN l \in Request /\ RequestInv(l)
BY NoneAssumption DEF Request, RequestInv, Codes

(* What a request becomes when it is received.                             *)
LEMMA ReceiveInv ==
  ASSUME NEW format \in Formats, NEW r, r = [Unsent EXCEPT !.format = format]
  PROVE  /\ route(r) \in Request /\ RequestInv(route(r))
         /\ \A code \in Codes \ {200} :
              /\ Answered(r, code) \in Request /\ RequestInv(Answered(r, code))
              /\ Answered(r, code).phase = "answered"
<1>1. route(r) \in Request /\ RequestInv(route(r))
  <2>1. r \in Request /\ r.format = format /\ r.fallback_reason = "none" /\ r.code = None
    BY DEF Unsent, Request, Formats, Connectors
  <2> DEFINE t == route(r)
  <2>2. t \in Request
    BY <2>1, ZenonT(60) DEF route, Request, Connectors
  <2>3. /\ t.phase = "first_call" /\ t.format = format /\ t.fallback_reason = "none"
        /\ t.code = None /\ (t.schema <=> format = "json_schema")
    BY <2>1 DEF route, Request
  <2>4. t.connector = "codex" <=> format = "json_schema"
    BY <2>1 DEF route, Request
  <2> HIDE DEF t
  <2>5. RequestInv(t)
    BY <2>3, <2>4, NoneAssumption DEF RequestInv, Codes
  <2> QED
    BY <2>2, <2>5 DEF t
<1>2. ASSUME NEW code \in Codes \ {200}
      PROVE  /\ Answered(r, code) \in Request /\ RequestInv(Answered(r, code))
             /\ Answered(r, code).phase = "answered"
  BY <1>2, NoneAssumption DEF Answered, Unsent, Request, RequestInv, Connectors, Formats
<1> QED
  BY <1>1, <1>2

(* What a request becomes when its call returns.                           *)
LEMMA ResumeInv ==
  ASSUME NEW r \in Request, RequestInv(r), r.phase \in {"first_call", "second_call"},
         NEW mc \in MCResponse
  PROVE  /\ Answered(r, response_code(mc)) \in Request
         /\ RequestInv(Answered(r, response_code(mc)))
         /\ r.phase = "first_call" /\ FallsBack(r, mc) =>
              fallback(r, mc) \in Request /\ RequestInv(fallback(r, mc))
<1>1. response_code(mc) \in Codes
  BY DEF response_code, Codes
<1>2. Answered(r, response_code(mc)) \in Request /\ RequestInv(Answered(r, response_code(mc)))
  BY <1>1 DEF Answered, Request, RequestInv
<1>3. ASSUME r.phase = "first_call", FallsBack(r, mc)
      PROVE  fallback(r, mc) \in Request /\ RequestInv(fallback(r, mc))
  <2> DEFINE t == fallback(r, mc)
  <2>1. r.format = "json_schema" /\ r.code = None
    BY <1>3 DEF FallsBack, RequestInv
  <2>2. t \in Request
    BY DEF fallback, Request, Connectors
  <2>3. /\ t.phase = "second_call" /\ t.format = "json_schema" /\ ~t.schema
        /\ t.fallback_reason # "none" /\ t.code = None
    BY <2>1 DEF fallback, Request
  <2> HIDE DEF t
  <2>4. RequestInv(t)
    BY <2>3, NoneAssumption DEF RequestInv, Codes
  <2> QED
    BY <2>2, <2>4 DEF t
<1> QED
  BY <1>2, <1>3

(* Every step, one case per action.                                        *)
LEMMA NextInv == Inv /\ [Next]_vars => Inv'
<1> SUFFICES ASSUME Inv, [Next]_vars PROVE Inv'
  OBVIOUS
<1> USE DEF Inv, TypeOK, WaitsOnOpenClient, Waiting
<1>0. ASSUME NEW e \in Surroundings, Startup(e)
      PROVE  Inv'
  <2>1. load_shared_secret(e) \in Sources \cup {None}
    BY DEF load_shared_secret, fetch_via_hvac, Sources
  <2> QED
    BY <1>0, <2>1 DEF Startup
<1>1. CASE Shutdown \/ Close \/ UNCHANGED vars
  BY <1>1 DEF Shutdown, Close, Drained, vars
<1>2. CASE Kill
  <2>1. \A q \in Requests : /\ request'[q] \in Request /\ RequestInv(request'[q])
                             /\ ~Waiting(q)'
    BY <1>2, LossInv DEF Kill
  <2> QED
    BY <1>2, <2>1 DEF Kill
<1>3. ASSUME NEW q \in Requests, NEW format \in Formats, NEW token \in Tokens,
             Receive(q, format, token)
      PROVE  Inv'
  <2> DEFINE r == [Unsent EXCEPT !.format = format]
        refusal == IF require_bearer(token) # None THEN require_bearer(token)
                   ELSE IF format = "json_schema_without_schema" THEN 400 ELSE None
  <2>0. refusal \in (Codes \ {200}) \cup {None}
    BY DEF require_bearer, Codes
  <2>1. /\ lifespan = "serving" /\ UNCHANGED <<lifespan, secret>>
        /\ request' = [request EXCEPT ![q] = IF refusal # None THEN Answered(r, refusal) ELSE route(r)]
        /\ client' = (client \/ refusal = None)
    BY <1>3 DEF Receive
  <2> HIDE DEF r, refusal
  <2>2. route(r) \in Request /\ RequestInv(route(r))
    BY ReceiveInv DEF r
  <2>3. \A code \in Codes \ {200} : /\ Answered(r, code) \in Request /\ RequestInv(Answered(r, code))
                                    /\ Answered(r, code).phase = "answered"
    BY ReceiveInv DEF r
  <2>4. CASE refusal = None
    BY <2>1, <2>2, <2>4
  <2>5. CASE refusal # None
    BY <2>0, <2>1, <2>3, <2>5
  <2> QED
    BY <2>4, <2>5
<1>4. ASSUME NEW q \in Requests, NEW mc \in Replies, Resume(q, mc)
      PROVE  Inv'
  <2> DEFINE r == [request[q] EXCEPT !.last = mc]
  <2>1. mc \in MCResponse
    BY RepliesTyped
  <2>2. /\ request[q] \in Request /\ RequestInv(request[q])
        /\ request[q].phase \in {"first_call", "second_call"} /\ lifespan # "down" /\ secret # None /\ client
    BY <1>4 DEF Resume
  <2>3. r \in Request /\ RequestInv(r) /\ r.phase = request[q].phase
    BY <2>1, <2>2 DEF Request, RequestInv
  <2>4. \/ request' = [request EXCEPT ![q] = Answered(r, response_code(mc))]
        \/ /\ r.phase = "first_call" /\ FallsBack(r, mc)
           /\ request' = [request EXCEPT ![q] = fallback(r, mc)]
    BY <1>4 DEF Resume
  <2>5. UNCHANGED <<lifespan, secret>> /\ client' = TRUE
    BY <1>4, <2>2 DEF Resume
  <2> HIDE DEF r
  <2>6. \E n \in Request : RequestInv(n) /\ request' = [request EXCEPT ![q] = n]
    BY <2>1, <2>2, <2>3, <2>4, ResumeInv
  <2> QED
    BY <2>2, <2>5, <2>6
<1> QED
  BY <1>0, <1>1, <1>2, <1>3, <1>4 DEF Next

(* So the invariant holds throughout.                                      *)
LEMMA InvAlways == Spec => []Inv
BY InitInv, NextInv, PTL DEF Spec

(* Every variable keeps its type, whatever the Model Connector replies.    *)
THEOREM TypeCorrect == Spec => []TypeOK
BY InvAlways, PTL DEF Inv

(* A client that asked for a schema is always told when it lost it.        *)
THEOREM SchemaLossIsDisclosed == Spec => []SchemaLossDisclosed
<1>1. Inv => SchemaLossDisclosed
  BY DEF Inv, SchemaLossDisclosed, RequestInv
<1> QED
  BY <1>1, InvAlways, PTL

(* No shutdown, kill or restart closes the client under a waiting request. *)
THEOREM WaitsOnOpenClientAlways == Spec => []WaitsOnOpenClient
BY InvAlways, PTL DEF Inv
=============================================================================
