------------------------------- MODULE Server -------------------------------
(***************************************************************************)
(* Requests at the entries of a process: the native gRPC server, main's    *)
(* HTTP mux with its pages, its raw webhook handler and the gateway behind *)
(* them, or the mux of NewRouter with a raw webhook handler of its own.    *)
(* What a handler does up to the call of the service touches no shared     *)
(* state but initErr, which no longer changes once a process serves, and   *)
(* is one step; the service's work is one step (Checkout, SpendingUnits    *)
(* and Verify are about it); the answer is another.                        *)
(*                                                                         *)
(* Left out: logging and interceptors, the contents of pages and answers.  *)
(***************************************************************************)
EXTENDS Bootstrap

CONSTANTS
    Handler,    \* goroutines that serve requests
    Request     \* requests that may be sent: [via, verb, path, body]

VARIABLES
    conn,       \* the request each handler is serving
    handled,    \* history: events the service handled
    acked       \* history: events answered with a 2xx status

vars == <<lifeVars, conn, handled, acked>>

-----------------------------------------------------------------------------
(***************************************************************************)
(* Paths and bodies.  A native gRPC request names its method as its path.  *)
(***************************************************************************)

Method == {"CancelSubscription", "VerifySubscriptionValidity", "HandleWebhook",
           "AddSpendingUnits"}

Page == {"/favicon.svg", "/privacy", "/privacy.html", "/terms", "/terms.html",
         "/support", "/support.html"}

Home == {"/", "/index", "/index.html"}

Webhook == "/api/receive-stripe-webhook"

\* The gateway's patterns.
Pattern(path) ==
    CASE path = "/api/cancel-subscription" -> "CancelSubscription"
      [] path = "/api/verify-subscription-validity" -> "VerifySubscriptionValidity"
      [] path = Webhook -> "HandleWebhook"
      [] path = "/api/spending-units" -> "AddSpendingUnits"
      [] OTHER -> "none"

\* What a body is to the handlers: not decodable; a request that lacks a
\* required field; a complete one; a webhook payload without a signature,
\* with a wrong one, of a checkout, or of an event the service ignores.
Body == {"garbled", "incomplete", "complete", "unsigned", "forged", "checkout",
         "ignored"}

Payload == {"unsigned", "forged", "checkout", "ignored"}

ASSUME RequestAssumption ==
    Request \subseteq [via : {"http", "grpc"}, verb : {"GET", "POST"},
                       path : STRING, body : Body]

\* A Stripe event of a completed checkout, by whichever entry it comes.
Event == {r \in Request : r.body = "checkout"}

-----------------------------------------------------------------------------
(***************************************************************************)
(* Handlers.  Each returns the status it answers with, or "call" when it   *)
(* goes on to call the service.                                            *)
(***************************************************************************)

\* Every entry to the service begins with bootstrap.Ensure.
InitFailed == init_err' = "failed"

CancelSubscription(b) ==
    IF InitFailed \/ b # "complete" THEN "error" ELSE "call"

VerifySubscriptionValidity(b) ==
    IF InitFailed \/ b # "complete" THEN "error" ELSE "call"

AddSpendingUnits(b) ==
    IF InitFailed \/ b # "complete" THEN "error" ELSE "call"

HandleWebhookPayload(b) ==
    CASE b \in {"garbled", "incomplete", "complete", "unsigned", "forged"} -> "error"
      [] b = "checkout" -> "call"
      [] OTHER -> "ok"

HandleWebhook(b) == IF InitFailed THEN "error" ELSE HandleWebhookPayload(b)

Serve(m, b) ==
    CASE m = "CancelSubscription" -> CancelSubscription(b)
      [] m = "VerifySubscriptionValidity" -> VerifySubscriptionValidity(b)
      [] m = "HandleWebhook" -> HandleWebhook(b)
      [] m = "AddSpendingUnits" -> AddSpendingUnits(b)

\* A method the service does not have is unimplemented.
Grpc(r) ==
    IF r.path \notin Method \/ r.body = "garbled" THEN "error"
    ELSE Serve(r.path, r.body)

\* An event is JSON, but not that of an HttpBody: the gateway cannot decode it.
LocalRequest(m, b) ==
    IF b = "garbled" \/ (m = "HandleWebhook" /\ b \in Payload)
    THEN "bad_request"
    ELSE Serve(m, b)

Gateway(r) ==
    LET m == Pattern(r.path) IN
    IF m = "none" THEN "not_found"
    ELSE IF r.verb # "POST" THEN "error"
    ELSE LocalRequest(m, r.body)

\* main's raw handler: any verb; whatever goes wrong in the payload is 400.
RawMain(r) ==
    IF r.body = "garbled" THEN "bad_request"
    ELSE IF InitFailed THEN "error"
    ELSE LET s == HandleWebhookPayload(r.body)
         IN  IF s = "error" THEN "bad_request" ELSE s

\* Mutant: the raw handler is not mounted.
RootMux_NoRaw(r) ==
    IF r.path \in Page THEN IF r.verb = "GET" THEN "page" ELSE "not_found"
    ELSE IF r.path = "/favicon.ico" THEN "page"
    ELSE IF r.verb = "GET" /\ r.path \in Home THEN "page"
    ELSE Gateway(r)

\* The pages, the raw handler, and the gateway for everything else.
RootMux(r) ==
    IF r.path \in Page THEN IF r.verb = "GET" THEN "page" ELSE "not_found"
    ELSE IF r.path = "/favicon.ico" THEN "page"
    ELSE IF r.path = Webhook THEN RawMain(r)
    ELSE IF r.verb = "GET" /\ r.path \in Home THEN "page"
    ELSE Gateway(r)

\* NewRouter: its raw handler takes POST before the gateway's does.
Raw(r) == r.path = Webhook /\ r.verb = "POST"

Router(r) ==
    IF ~Raw(r) THEN Gateway(r)
    ELSE IF InitFailed THEN "error"
    ELSE IF r.body \in {"garbled", "incomplete", "complete", "unsigned", "forged"}
    THEN "bad_request"
    ELSE HandleWebhookPayload(r.body)

Dispatch(r) ==
    IF r.via = "grpc" THEN Grpc(r)
    ELSE IF env.program = "main" THEN RootMux(r)
    ELSE Router(r)

\* The service the handler calls: NewRouter's raw handler asks bootstrap for
\* it, all others have it from their construction.
Callee(r) == IF r.via = "http" /\ env.program = "router" /\ Raw(r) THEN service ELSE srv

-----------------------------------------------------------------------------
(***************************************************************************)
(* Serving a request.                                                      *)
(***************************************************************************)

Idle == [pc |-> "idle"]

Receive(h, r) ==
    /\ stage = "serve"
    /\ r.via \in listening
    /\ conn[h] = Idle
    /\ Ensure
    /\ LET s == Dispatch(r)
       IN  conn' = [conn EXCEPT ![h] =
                       IF s = "call" THEN [pc |-> "call", req |-> r]
                                     ELSE [pc |-> "answer", req |-> r, status |-> s]]
    /\ UNCHANGED <<env, stage, dir, config, q, srv, listening, reachable, faults,
                   handled, acked>>

Reached(h) == [pc |-> "answer", req |-> conn[h].req, status |-> "ok"]

\* main's raw handler answers an error of the service with 400, others with
\* 500 or a gRPC error.
Failed(h) ==
    LET r == conn[h].req IN
    [pc |-> "answer", req |-> r,
     status |-> IF env.program = "main" /\ r.via = "http" /\ r.path = Webhook
                THEN "bad_request" ELSE "error"]

\* Mutant: an error of the service is logged and answered with 200.
Call_Swallow(h) ==
    /\ conn[h].pc = "call"
    /\ \/ /\ reachable \/ Callee(conn[h].req) = "stub"
          /\ handled' = handled \cup ({conn[h].req} \cap Event)
          /\ conn' = [conn EXCEPT ![h] = Reached(h)]
          /\ UNCHANGED faults
       \/ /\ ~reachable
          /\ conn' = [conn EXCEPT ![h] = Reached(h)]
          /\ UNCHANGED <<handled, faults>>
    /\ UNCHANGED <<process, reachable, acked>>

\* The service does its work, or returns an error: the database cannot be
\* reached, or something else fails.
Call(h) ==
    /\ conn[h].pc = "call"
    /\ \/ /\ reachable \/ Callee(conn[h].req) = "stub"
          /\ handled' = handled \cup ({conn[h].req} \cap Event)
          /\ conn' = [conn EXCEPT ![h] = Reached(h)]
          /\ UNCHANGED faults
       \/ /\ ~reachable
          /\ conn' = [conn EXCEPT ![h] = Failed(h)]
          /\ UNCHANGED <<handled, faults>>
       \/ /\ faults < MaxFaults
          /\ faults' = faults + 1
          /\ conn' = [conn EXCEPT ![h] = Failed(h)]
          /\ UNCHANGED handled
    /\ UNCHANGED <<process, reachable, acked>>

Answer(h) ==
    /\ conn[h].pc = "answer"
    /\ acked' = IF conn[h].status = "ok" THEN acked \cup ({conn[h].req} \cap Event)
                                         ELSE acked
    /\ conn' = [conn EXCEPT ![h] = Idle]
    /\ UNCHANGED <<lifeVars, handled>>

\* Mutant: a server that cannot listen returns, and requests go on.
Live_GoesOn ==
    /\ Startup \/ SetStripeService \/ Die \/ Restart \/ Outage
    /\ UNCHANGED <<conn, handled, acked>>

\* What the process does to itself; os.Exit takes the requests with it.
Live ==
    /\ Startup \/ SetStripeService \/ Die \/ Restart \/ Outage
    /\ conn' = IF stage' = "exited" THEN [h \in Handler |-> Idle] ELSE conn
    /\ UNCHANGED <<handled, acked>>

-----------------------------------------------------------------------------
Init ==
    /\ LifeInit
    /\ conn = [h \in Handler |-> Idle]
    /\ handled = {}
    /\ acked = {}

Work(h) == Call(h) \/ Answer(h)

Next ==
    \/ Live
    \/ \E h \in Handler :
          \/ \E r \in Request : Receive(h, r)
          \/ Work(h)

Spec == Init /\ [][Next]_vars

\* A process takes its steps, the platform starts one that ended, and Stripe
\* sends an event again that was not acknowledged: each time it is sent, a
\* goroutine is there to serve it, so strong fairness stands in for the
\* goroutines the model does not have.
FairSpec ==
    /\ Spec
    /\ WF_vars(Live /\ Startup)
    /\ WF_vars(Live /\ Restart)
    /\ \A h \in Handler : WF_vars(Work(h))
    /\ \A e \in Event : SF_vars(\E h \in Handler : e \notin acked /\ Receive(h, e))

-----------------------------------------------------------------------------
Status == {"ok", "page", "bad_request", "not_found", "error"}

ConnType ==
    {Idle} \cup [pc : {"call"}, req : Request]
           \cup [pc : {"answer"}, req : Request, status : Status]

\* A process that is not serving serves no request.
TypeOK ==
    /\ LifeTypeOK
    /\ conn \in [Handler -> ConnType]
    /\ stage # "serve" => conn = [h \in Handler |-> Idle]
    /\ handled \subseteq Event
    /\ acked \subseteq Event

\* No handler calls a service that is nil: where it was built with nil,
\* because Ensure had failed, Ensure keeps it from the call for ever.
NilServiceNeverCalled ==
    \A h \in Handler : conn[h].pc = "call" => Callee(conn[h].req) # Nil

\* A process that serves has its configuration, and its statements run on a
\* pool that answered a ping and is limited to one connection, although
\* another was opened since.
ServingMeansReady ==
    stage = "serve" => config /\ q # 0 /\ pools[q] = 1

\* Whatever the entry, an event answered with 2xx was handled: Stripe will
\* not send it again.
AckedIsHandled == acked \subseteq handled

\* A process comes to serve on all its ports or ends: the search for .env
\* does, from any directory with a name, and a port that is taken leaves no
\* half of a server behind.
StartupEnds ==
    [](env.cwd # Dot) =>
        []<>(\/ stage = "exited"
             \/ stage = "serve" /\ listening = IF env.program = "main"
                                              THEN {"http", "grpc"} ELSE {"http"})

\* Once the database answers for good, and the processes that are started
\* have what they need, every event that Stripe keeps sending is acknowledged
\* in the end.
Heals(p) ==
    <>[](reachable /\ env.program = p /\ Sound(env)) => \A e \in Event : <>(e \in acked)

\* The program heals: it exits when its start-up fails, and the next process
\* starts afresh.
EventuallyHandled == Heals("main")

-----------------------------------------------------------------------------
(***************************************************************************)
(* A claim the code's comments make that it does not keep.                 *)
(***************************************************************************)

\* NewRouter: "non-fatal if it fails here; RPCs re-check".
RPCsReCheck == Heals("router")
=============================================================================
