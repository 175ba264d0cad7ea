---------------------------- MODULE Server_proofs ----------------------------
(***************************************************************************)
(* Proofs about Server, for any environments, handlers, requests and       *)
(* number of faults: what a process has by the time it serves, and what an *)
(* answer means.                                                           *)
(***************************************************************************)
EXTENDS Server, SequenceTheorems, TLAPS

Early == {"search", "load", "open"}
Ready == {"ensure", "build", "serve"}

\* The pools up to the one that q keeps, which is the first.
PoolInv ==
    /\ stage \in Early => pools = <<>> /\ q = 0
    /\ stage = "capture" => pools = <<1>>
    /\ stage \in Ready => q = 1 /\ Len(pools) >= 1 /\ pools[1] = 1

\* What Ensure has left: nothing before its first call, after it an error or
\* a service.
EnsureInv ==
    /\ stage \in Early \cup {"capture", "ensure"} => init_err = "unset"
    /\ stage \in {"build", "serve"} => init_err # "unset"
    /\ stage \in {"build", "serve"} /\ init_err = "none" => service # Nil
    /\ stage = "serve" /\ init_err = "none" => srv # Nil

LifeInv ==
    /\ LifeTypeOK
    /\ stage \in Ready \cup {"open", "capture"} => config
    /\ PoolInv
    /\ EnsureInv

\* A handler is past Ensure only where Ensure had no error, and an event is
\* about to be answered with success only once it is handled.
ConnInv ==
    \A h \in Handler :
        /\ conn[h].pc = "call" => init_err = "none"
        /\ conn[h].pc = "answer" /\ conn[h].status = "ok" /\ conn[h].req \in Event =>
              conn[h].req \in handled

IInv == TypeOK /\ LifeInv /\ ConnInv /\ AckedIsHandled

-----------------------------------------------------------------------------
(***************************************************************************)
(* The life of the process.                                                *)
(***************************************************************************)

\* A pool is added to those that are there.
LEMMA InitializeFacts ==
    ASSUME LifeTypeOK, Initialize
    PROVE  /\ pools' \in Seq({0, 1})
           /\ Len(pools') = Len(pools) + 1
           /\ \A i \in 1 .. Len(pools) : pools'[i] = pools[i]
           /\ pools'[Len(pools')] = IF Connects THEN 1 ELSE 0
<1> DEFINE x == IF Connects THEN 1 ELSE 0
<1>1. x \in {0, 1} /\ pools' = Append(pools, x) /\ pools \in Seq({0, 1})
  BY DEF Initialize, LifeTypeOK
<1> HIDE DEF x
<1>2. /\ pools' \in Seq({0, 1}) /\ Len(pools') = Len(pools) + 1
      /\ \A i \in 1 .. Len(pools) : pools'[i] = pools[i]
      /\ pools'[Len(pools')] = x
  BY <1>1
<1> QED
  BY <1>2 DEF x

\* Ensure leaves an error or a service, and keeps what it finds.
LEMMA EnsureFacts ==
    ASSUME LifeTypeOK, Ensure
    PROVE  /\ pools' \in Seq({0, 1})
           /\ Len(pools') >= Len(pools)
           /\ \A i \in 1 .. Len(pools) : pools'[i] = pools[i]
           /\ init_err' \in {"none", "failed"}
           /\ service' \in {Nil, "real", "stub"}
           /\ init_err = "unset" /\ init_err' = "none" => service' # Nil
           /\ init_err # "unset" => UNCHANGED <<pools, init_err, service>>
<1>1. CASE init_err # "unset"
  BY <1>1 DEF Ensure, LifeTypeOK
<1>2. CASE init_err = "unset" /\ service # Nil
  BY <1>2 DEF Ensure, InitBootstrap, LifeTypeOK
<1>3. CASE init_err = "unset" /\ service = Nil
  <2>1. /\ Initialize
        /\ IF Connects THEN init_err' = "none" /\ service' = "real"
                       ELSE init_err' = "failed" /\ service' = service
    BY <1>3 DEF Ensure, InitBootstrap
  <2>2. Len(pools) \in Nat
    BY DEF LifeTypeOK
  <2> QED
    BY <1>3, <2>1, <2>2, InitializeFacts DEF Nil
<1> QED
  BY <1>1, <1>2, <1>3

Move == Startup \/ SetStripeService \/ Die \/ Restart \/ Outage

\* Whatever the process does to itself keeps its invariant.
LEMMA LifeStep == ASSUME LifeInv, Move PROVE LifeInv'
<1> USE DEF LifeInv, Early, Ready
<1>1. CASE SearchDotEnv
  <2>1. dir' \in Nat \cup {Dot}
    BY <1>1 DEF SearchDotEnv, Parent, Root, Dot, LifeTypeOK
  <2> QED
    BY <1>1, <2>1 DEF SearchDotEnv, LifeTypeOK, PoolInv, EnsureInv
<1>2. CASE LoadConfig
  BY <1>2 DEF LoadConfig, LifeTypeOK, PoolInv, EnsureInv
<1>3. CASE OpenPool
  <2>1. pools' = <<IF Connects THEN 1 ELSE 0>>
    BY <1>3 DEF OpenPool, Initialize, PoolInv
  <2>2. CASE Connects
    BY <1>3, <2>1, <2>2 DEF OpenPool, LifeTypeOK, PoolInv, EnsureInv
  <2>3. CASE ~Connects
    BY <1>3, <2>1, <2>3 DEF OpenPool, LifeTypeOK, PoolInv, EnsureInv
  <2> QED
    BY <2>2, <2>3
<1>4. CASE CaptureQ
  BY <1>4 DEF CaptureQ, LifeTypeOK, PoolInv, EnsureInv
<1>5. CASE FirstEnsure
  <2>1. /\ pools' \in Seq({0, 1}) /\ Len(pools') >= 1 /\ pools'[1] = 1
        /\ q' = 1 /\ q' \in 0 .. Len(pools')
    <3>1. Len(pools) \in Nat /\ Len(pools) >= 1 /\ pools[1] = 1 /\ q = 1 /\ q' = q
      BY <1>5 DEF FirstEnsure, PoolInv, LifeTypeOK
    <3>2. Len(pools') \in Nat /\ Len(pools') >= Len(pools) /\ pools'[1] = pools[1]
      BY <1>5, <3>1, EnsureFacts DEF FirstEnsure
    <3> QED
      BY <1>5, <3>1, <3>2, EnsureFacts DEF FirstEnsure
  <2>2. /\ init_err' \in {"none", "failed"} /\ service' \in {Nil, "real", "stub"}
        /\ init_err' = "none" => service' # Nil
    BY <1>5, EnsureFacts DEF FirstEnsure, EnsureInv
  <2> QED
    BY <1>5, <2>1, <2>2 DEF FirstEnsure, LifeTypeOK, PoolInv, EnsureInv
<1>6. CASE Build
  BY <1>6 DEF Build, LifeTypeOK, PoolInv, EnsureInv
<1>7. CASE \E port \in {"http", "grpc"} : Listen(port)
  <2>1. PICK port \in {"http", "grpc"} : Listen(port)
    BY <1>7
  <2>2. /\ stage = "serve" /\ stage' \in {"serve", "exited"}
        /\ listening' \subseteq {"http", "grpc"}
        /\ UNCHANGED <<env, dir, config, pools, q, init_err, service, srv, reachable, faults>>
    BY <2>1 DEF Listen, LifeTypeOK
  <2> QED
    BY <2>2 DEF LifeTypeOK, PoolInv, EnsureInv
<1>8. CASE SetStripeService
  BY <1>8 DEF SetStripeService, LifeTypeOK, PoolInv, EnsureInv, Nil
<1>9. CASE Die
  BY <1>9, MaxFaultsAssumption DEF Die, LifeTypeOK, PoolInv, EnsureInv
<1>10. CASE Restart
  <2>1. env' \in Environment /\ dir' \in Nat \cup {Dot}
    BY <1>10, EnvironmentAssumption DEF Restart, EnvironmentType
  <2>2. pools' = <<>> /\ pools' \in Seq({0, 1}) /\ q' = 0 /\ q' \in 0 .. Len(pools')
    BY <1>10 DEF Restart
  <2> QED
    BY <1>10, <2>1, <2>2 DEF Restart, LifeTypeOK, PoolInv, EnsureInv, Nil
<1>11. CASE Outage
  BY <1>11 DEF Outage, process, LifeTypeOK, PoolInv, EnsureInv
<1> QED
  BY <1>1, <1>2, <1>3, <1>4, <1>5, <1>6, <1>7, <1>8, <1>9, <1>10, <1>11
  DEF Move, Startup

-----------------------------------------------------------------------------
(***************************************************************************)
(* The handlers.                                                           *)
(***************************************************************************)

\* A handler of the service refuses, ignores or calls; it calls only after
\* Ensure returned no error, and it never ignores a checkout.
LEMMA ServeFacts ==
    ASSUME NEW m \in Method, NEW b \in Body
    PROVE  /\ Serve(m, b) \in {"error", "ok", "call"}
           /\ InitFailed => Serve(m, b) # "call"
           /\ b = "checkout" => Serve(m, b) # "ok"
<1>1. /\ HandleWebhook(b) \in {"error", "ok", "call"}
      /\ InitFailed => HandleWebhook(b) = "error"
      /\ b = "checkout" => HandleWebhook(b) # "ok"
  BY DEF HandleWebhook, HandleWebhookPayload, Body
<1> QED
  BY <1>1 DEF Serve, Method, CancelSubscription, VerifySubscriptionValidity,
     AddSpendingUnits

\* The gateway reaches the service only through a handler.
LEMMA GatewayFacts ==
    ASSUME NEW r \in Request
    PROVE  /\ Gateway(r) \in Status \cup {"call"}
           /\ InitFailed => Gateway(r) # "call"
           /\ r.body = "checkout" => Gateway(r) # "ok"
<1> DEFINE m == Pattern(r.path)
<1>1. m \in Method \cup {"none"}
  BY DEF Pattern, Method
<1>2. r.body \in Body
  BY RequestAssumption
<1> HIDE DEF m
<1>3. Gateway(r) \in {"not_found", "error", "bad_request"} \/
      (m \in Method /\ Gateway(r) = Serve(m, r.body))
  BY <1>1 DEF Gateway, LocalRequest, m
<1> QED
  BY <1>2, <1>3, ServeFacts DEF Status

\* So do all entries: no request passes an Ensure that failed, and no
\* checkout is answered with success without the service.
LEMMA DispatchFacts ==
    ASSUME NEW r \in Request
    PROVE  /\ Dispatch(r) \in Status \cup {"call"}
           /\ InitFailed => Dispatch(r) # "call"
           /\ r.body = "checkout" => Dispatch(r) # "ok"
<1>1. r.body \in Body
  BY RequestAssumption
<1>2. /\ HandleWebhookPayload(r.body) \in {"error", "ok", "call"}
      /\ r.body = "checkout" => HandleWebhookPayload(r.body) # "ok"
  BY <1>1 DEF HandleWebhookPayload, Body
<1>3. /\ Grpc(r) \in Status \cup {"call"}
      /\ InitFailed => Grpc(r) # "call"
      /\ r.body = "checkout" => Grpc(r) # "ok"
  BY <1>1, ServeFacts DEF Grpc, Status
<1>4. /\ RootMux(r) \in Status \cup {"call"}
      /\ InitFailed => RootMux(r) # "call"
      /\ r.body = "checkout" => RootMux(r) # "ok"
  BY <1>2, GatewayFacts DEF RootMux, RawMain, Status
<1>5. /\ Router(r) \in Status \cup {"call"}
      /\ InitFailed => Router(r) # "call"
      /\ r.body = "checkout" => Router(r) # "ok"
  BY <1>2, GatewayFacts DEF Router, Status
<1> QED
  BY <1>3, <1>4, <1>5 DEF Dispatch

-----------------------------------------------------------------------------
(***************************************************************************)
(* The inductive invariant.                                                *)
(***************************************************************************)

\* A handler at work is one of a process that serves.
LEMMA AtWork ==
    ASSUME TypeOK, NEW h \in Handler, conn[h].pc # "idle"
    PROVE  stage = "serve" /\ conn[h].req \in Request
<1>1. conn[h] \in ConnType /\ conn[h] # Idle
  BY DEF TypeOK, Idle
<1>2. stage = "serve"
  BY <1>1 DEF TypeOK
<1> QED
  BY <1>1, <1>2 DEF ConnType

\* One handler goes on as c while the process stays as it is.
LEMMA HandlerStep ==
    ASSUME IInv, NEW h \in Handler, NEW c \in ConnType,
           conn' = [conn EXCEPT ![h] = c],
           stage = "serve", LifeInv', stage' = stage, init_err' = init_err,
           handled \subseteq handled', handled' \subseteq Event,
           acked' \subseteq Event, acked' \subseteq handled',
           c.pc = "call" => init_err = "none",
           c.pc = "answer" /\ c.status = "ok" /\ c.req \in Event => c.req \in handled'
    PROVE  IInv'
<1>1. /\ conn \in [Handler -> ConnType] /\ conn' \in [Handler -> ConnType]
      /\ conn'[h] = c
      /\ \A g \in Handler \ {h} : conn'[g] = conn[g]
  BY DEF IInv, TypeOK
<1>2. TypeOK'
  <2>1. LifeTypeOK' /\ stage' = "serve"
    BY DEF LifeInv
  <2>2. (conn \in [Handler -> ConnType])'
    BY <1>1 DEF ConnType, Idle, Status
  <2> QED
    BY <2>1, <2>2 DEF TypeOK, Event
<1>3. ConnInv'
  <2> SUFFICES ASSUME NEW g \in Handler
               PROVE  /\ conn'[g].pc = "call" => init_err' = "none"
                      /\ conn'[g].pc = "answer" /\ conn'[g].status = "ok"
                            /\ conn'[g].req \in Event => conn'[g].req \in handled'
    BY DEF ConnInv, Event
  <2>1. CASE g = h
    BY <1>1, <2>1
  <2>2. CASE g # h
    BY <1>1, <2>2 DEF IInv, ConnInv
  <2> QED
    BY <2>1, <2>2
<1> QED
  BY <1>2, <1>3 DEF IInv, AckedIsHandled

\* What the process does to itself leaves the requests alone or takes them
\* with it.
LEMMA LiveStep == ASSUME IInv, Live PROVE IInv'
<1>1. Move /\ handled' = handled /\ acked' = acked
      /\ conn' = IF stage' = "exited" THEN [h \in Handler |-> Idle] ELSE conn
  BY DEF Live, Move
<1>2. LifeInv'
  BY <1>1, LifeStep DEF IInv
<1>3. CASE stage' = "exited"
  <2>1. conn' = [h \in Handler |-> Idle]
    BY <1>1, <1>3
  <2>2. \A h \in Handler : conn'[h] = Idle /\ conn'[h].pc = "idle"
    BY <2>1 DEF Idle
  <2>3. TypeOK'
    BY <1>1, <1>2, <2>1 DEF TypeOK, LifeInv, IInv, ConnType
  <2> QED
    BY <1>1, <1>2, <2>2, <2>3 DEF IInv, ConnInv, AckedIsHandled
<1>4. CASE stage' # "exited"
  <2>1. conn' = conn
    BY <1>1, <1>4
  <2>2. CASE conn = [h \in Handler |-> Idle]
    <3>1. \A h \in Handler : conn'[h].pc = "idle"
      BY <2>1, <2>2 DEF Idle
    <3>2. TypeOK'
      BY <1>1, <1>2, <2>1, <2>2 DEF TypeOK, LifeInv, IInv
    <3> QED
      BY <1>1, <1>2, <3>1, <3>2 DEF IInv, ConnInv, AckedIsHandled
  <2>3. CASE conn # [h \in Handler |-> Idle]
    <3>1. stage = "serve"
      BY <2>3 DEF IInv, TypeOK
    <3>2. stage' = "serve" /\ init_err' = init_err
      BY <1>1, <1>4, <3>1
      DEF Move, Startup, SearchDotEnv, LoadConfig, OpenPool, CaptureQ, FirstEnsure,
          Build, Listen, SetStripeService, Die, Restart, Outage, process
    <3> QED
      BY <1>1, <1>2, <2>1, <3>1, <3>2
      DEF IInv, TypeOK, LifeInv, ConnInv, AckedIsHandled
  <2> QED
    BY <2>2, <2>3
<1> QED
  BY <1>3, <1>4

\* In a process that serves, Ensure changes nothing.
LEMMA ReceiveStep ==
    ASSUME IInv, NEW h \in Handler, NEW r \in Request, Receive(h, r)
    PROVE  IInv'
<1> DEFINE s == Dispatch(r)
           c == IF s = "call" THEN [pc |-> "call", req |-> r]
                ELSE [pc |-> "answer", req |-> r, status |-> s]
<1>1. stage = "serve" /\ init_err # "unset"
  BY DEF Receive, IInv, LifeInv, EnsureInv
<1>2. UNCHANGED <<pools, init_err, service>>
  BY <1>1, EnsureFacts DEF Receive, IInv, TypeOK
<1>3. LifeInv'
  BY <1>2 DEF Receive, IInv, LifeInv, LifeTypeOK, PoolInv, EnsureInv
<1>4. /\ s \in Status \cup {"call"}
      /\ s = "call" => init_err = "none"
      /\ r \in Event => s # "ok"
  BY <1>1, <1>2, DispatchFacts DEF InitFailed, IInv, TypeOK, LifeTypeOK, Event
<1>5. conn' = [conn EXCEPT ![h] = c]
  BY DEF Receive
<1> HIDE DEF s
<1>6. /\ c \in ConnType
      /\ c.pc = "call" => init_err = "none"
      /\ c.pc = "answer" /\ c.status = "ok" /\ c.req \in Event => c.req \in handled'
  BY <1>4 DEF ConnType
<1> HIDE DEF c
<1>7. stage' = stage /\ init_err' = init_err /\ handled' = handled /\ acked' = acked
  BY <1>2 DEF Receive
<1>8. /\ handled \subseteq handled' /\ handled' \subseteq Event
      /\ acked' \subseteq Event /\ acked' \subseteq handled'
  BY <1>7 DEF IInv, TypeOK, AckedIsHandled
<1> QED
  BY <1>1, <1>3, <1>5, <1>6, <1>7, <1>8, HandlerStep

LEMMA CallStep == ASSUME IInv, NEW h \in Handler, Call(h) PROVE IInv'
<1> DEFINE r == conn[h].req
<1>1. stage = "serve" /\ r \in Request
  BY AtWork DEF Call, IInv
<1>2. LifeInv' /\ stage' = stage /\ init_err' = init_err /\ acked' = acked
  BY MaxFaultsAssumption
  DEF Call, IInv, LifeInv, LifeTypeOK, PoolInv, EnsureInv, process
<1>3. handled \subseteq handled' /\ handled' \subseteq Event
  BY DEF Call, IInv, TypeOK
<1>4. CASE handled' = handled \cup ({r} \cap Event) /\ conn' = [conn EXCEPT ![h] = Reached(h)]
  <2>1. Reached(h) \in ConnType /\ Reached(h).pc = "answer" /\ Reached(h).req = r
    BY <1>1 DEF Reached, ConnType, Status
  <2>2. r \in Event => r \in handled'
    BY <1>4
  <2>3. acked' \subseteq Event /\ acked' \subseteq handled'
    BY <1>2, <1>3 DEF IInv, TypeOK, AckedIsHandled
  <2> HIDE DEF r
  <2> QED
    BY <1>1, <1>2, <1>3, <1>4, <2>1, <2>2, <2>3, HandlerStep
<1>5. CASE conn' = [conn EXCEPT ![h] = Failed(h)]
  <2>1. /\ Failed(h) \in ConnType /\ Failed(h).pc = "answer"
        /\ Failed(h).status # "ok"
    BY <1>1 DEF Failed, ConnType, Status
  <2> QED
    BY <1>1, <1>2, <1>3, <1>5, <2>1, HandlerStep DEF IInv, TypeOK, AckedIsHandled
<1> QED
  BY <1>4, <1>5 DEF Call

LEMMA AnswerStep == ASSUME IInv, NEW h \in Handler, Answer(h) PROVE IInv'
<1>1. stage = "serve" /\ conn[h].req \in Request
  BY AtWork DEF Answer, IInv
<1>2. LifeInv' /\ stage' = stage /\ init_err' = init_err /\ handled' = handled
  BY DEF Answer, IInv, LifeInv, LifeTypeOK, PoolInv, EnsureInv, lifeVars, process
<1>3. acked' \subseteq Event /\ acked' \subseteq handled'
  BY <1>2 DEF Answer, IInv, TypeOK, ConnInv, AckedIsHandled
<1>4. Idle \in ConnType /\ Idle.pc = "idle"
  BY DEF ConnType, Idle
<1>5. conn' = [conn EXCEPT ![h] = Idle]
  BY DEF Answer
<1>6. handled \subseteq handled' /\ handled' \subseteq Event
  BY <1>2 DEF IInv, TypeOK
<1> QED
  BY <1>1, <1>2, <1>3, <1>4, <1>5, <1>6, HandlerStep

LEMMA InvStep == IInv /\ [Next]_vars => IInv'
<1> SUFFICES ASSUME IInv, [Next]_vars PROVE IInv'
  OBVIOUS
<1>1. CASE UNCHANGED vars
  BY <1>1 DEF IInv, TypeOK, LifeInv, LifeTypeOK, PoolInv, EnsureInv, ConnInv,
     AckedIsHandled, Connects, vars, lifeVars, process
<1>2. CASE Live
  BY <1>2, LiveStep
<1>3. ASSUME NEW h \in Handler, NEW r \in Request, Receive(h, r) PROVE IInv'
  BY <1>3, ReceiveStep
<1>4. ASSUME NEW h \in Handler, Work(h) PROVE IInv'
  BY <1>4, CallStep, AnswerStep DEF Work
<1> QED
  BY <1>1, <1>2, <1>3, <1>4 DEF Next

LEMMA InvInit == Init => IInv
<1> SUFFICES ASSUME Init PROVE IInv
  OBVIOUS
<1>1. LifeInv
  <2>1. dir \in Nat \cup {Dot}
    BY EnvironmentAssumption DEF Init, LifeInit, EnvironmentType
  <2>2. pools = <<>> /\ pools \in Seq({0, 1}) /\ q \in 0 .. Len(pools)
    BY DEF Init, LifeInit
  <2>3. /\ env \in Environment /\ reachable \in BOOLEAN /\ stage = "search"
        /\ config = FALSE /\ q = 0 /\ init_err = "unset" /\ service = Nil /\ srv = Nil
        /\ listening = {} /\ faults = 0
    BY DEF Init, LifeInit
  <2>4. LifeTypeOK
    <3>1. config \in BOOLEAN /\ listening \subseteq {"http", "grpc"}
      BY <2>3, Zenon
    <3>2. faults \in 0 .. MaxFaults
      BY <2>3, MaxFaultsAssumption
    <3> QED
      BY <2>1, <2>2, <2>3, <3>1, <3>2 DEF LifeTypeOK
  <2> QED
    BY <2>2, <2>3, <2>4 DEF LifeInv, PoolInv, EnsureInv, Early, Ready
<1>2. \A h \in Handler : conn[h] = Idle /\ conn[h].pc = "idle"
  BY DEF Init, Idle
<1>3. TypeOK
  BY <1>1 DEF Init, TypeOK, LifeInv, ConnType
<1> QED
  BY <1>1, <1>2, <1>3 DEF Init, IInv, ConnInv, AckedIsHandled

-----------------------------------------------------------------------------
(***************************************************************************)
(* The theorems.                                                           *)
(***************************************************************************)

\* The inductive invariant holds in every reachable state.
THEOREM Invariance == Spec => []IInv
BY InvInit, InvStep, PTL DEF Spec

\* A process that is not serving, because it is starting or has ended,
\* serves no request (TypeOK).
THEOREM TypeCorrect == Spec => []TypeOK
<1>1. IInv => TypeOK
  BY DEF IInv
<1> QED
  BY <1>1, Invariance, PTL

\* Whatever entry a request takes, and although NewRouter goes on after an
\* Ensure that failed, no handler calls a nil service (NilServiceNeverCalled).
THEOREM NilNeverCalled == Spec => []NilServiceNeverCalled
<1>1. IInv => NilServiceNeverCalled
  <2> SUFFICES ASSUME IInv, NEW h \in Handler, conn[h].pc = "call"
               PROVE  Callee(conn[h].req) # Nil
    BY DEF NilServiceNeverCalled
  <2>1. stage = "serve" /\ init_err = "none"
    BY AtWork DEF IInv, ConnInv
  <2> QED
    BY <2>1 DEF IInv, LifeInv, EnsureInv, Callee
<1> QED
  BY <1>1, Invariance, PTL

\* A process that serves is configured, and its statements run on a pool
\* that answered a ping and is limited, whatever became of the second
\* (ServingMeansReady).
THEOREM ServesReady == Spec => []ServingMeansReady
<1>1. IInv => ServingMeansReady
  BY DEF IInv, LifeInv, PoolInv, Ready, ServingMeansReady
<1> QED
  BY <1>1, Invariance, PTL

\* No entry answers an event with success before the service has handled it
\* (AckedIsHandled).
THEOREM AckedHandled == Spec => []AckedIsHandled
<1>1. IInv => AckedIsHandled
  BY DEF IInv
<1> QED
  BY <1>1, Invariance, PTL
=============================================================================
