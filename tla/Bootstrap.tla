----------------------------- MODULE Bootstrap ------------------------------
(***************************************************************************)
(* The life of one process: package initialisation (the configuration, the *)
(* connection pool, the handle q of the statements), bootstrap.Ensure, the *)
(* servers, and its end.  A process runs one of two programs: "main",      *)
(* which exits when Ensure fails, or "router", a server around NewRouter,  *)
(* which logs the error and goes on.  A process that ended is started      *)
(* again by the platform.                                                  *)
(*                                                                         *)
(* The branch of Init that loads the configuration is left out: package    *)
(* database, which bootstrap imports, has loaded it or ended the process.  *)
(***************************************************************************)
EXTENDS Integers, Sequences

CONSTANTS
    Environment,    \* environments a process may be started in
    MaxFaults       \* bound: processes that die, and calls that fail

ASSUME MaxFaultsAssumption == MaxFaults \in Nat

VARIABLES
    env,        \* the environment of the process
    reachable,  \* the database answers
    stage,      \* what the process is at
    dir,        \* depth of the directory in which LoadConfig looks for .env
    config,     \* AppConfig is set
    pools,      \* the pools opened so far: limits on their connections, 0: none
    q,          \* the pool of the statements, 0: nil
    init_err,   \* initErr; "unset" until initOnce has run
    service,    \* stripeService
    srv,        \* the service the handlers were built with
    listening,  \* ports that are bound
    faults      \* number of faults so far

process == <<env, stage, dir, config, pools, q, init_err, service, srv, listening>>
lifeVars == <<process, reachable, faults>>

Nil == "nil"

-----------------------------------------------------------------------------
(***************************************************************************)
(* The environment: the program, the directory it is started in (its       *)
(* depth, or Dot when Getwd fails), where a .env file is (0: nowhere),     *)
(* whether it can be read, which variables it and the system set, whether  *)
(* the initial credit is a number, whether the URL is a database's, and    *)
(* the two ports.                                                          *)
(***************************************************************************)

Root == 0
Dot == -1

Required ==
    {"DATABASE_URL", "STRIPE_SECRET_KEY", "STRIPE_WEBHOOK_SECRET",
     "CREDIT_UNITS_PER_DOLLAR", "INITIAL_FREE_CREDIT"}

EnvironmentType ==
    [program : {"main", "router"}, cwd : Nat \cup {Dot}, file : Nat, broken : BOOLEAN,
     filevars : SUBSET Required, vars : SUBSET Required,
     numeric : BOOLEAN, url : BOOLEAN, http : Nat, grpc : Nat]

ASSUME EnvironmentAssumption == Environment \subseteq EnvironmentType

\* filepath.Dir; the parent of "." is ".".
Parent(d) == IF d = Dot THEN Dot ELSE d - 1

\* A port that is not set (0) has a default.
HTTPPort(e) == IF e.http = 0 THEN 8080 ELSE e.http
GRPCPort(e) == IF e.grpc = 0 THEN 50051 ELSE e.grpc

Connects == env.url /\ reachable

\* An environment in which nothing but the database can keep the process
\* from serving.
Sound(e) ==
    LET found == e.file \in 1 .. e.cwd IN
    /\ e.cwd # Dot
    /\ found => ~e.broken
    /\ Required \subseteq e.vars \cup (IF found THEN e.filevars ELSE {})
    /\ e.numeric /\ e.url
    /\ HTTPPort(e) # GRPCPort(e)

-----------------------------------------------------------------------------
(***************************************************************************)
(* Package initialisation.                                                 *)
(***************************************************************************)

\* Mutant: currentDir is declared anew inside the loop.
SearchDotEnv_Shadowed ==
    /\ stage = "search"
    /\ IF dir \in {Root, env.file}
       THEN stage' = IF dir # Root /\ env.broken THEN "exited" ELSE "load"
       ELSE stage' = stage
    /\ UNCHANGED <<env, dir, config, pools, q, init_err, service, srv, listening,
                   reachable, faults>>

\* One directory after the other up to the root, which is not searched.
SearchDotEnv ==
    /\ stage = "search"
    /\ IF dir \in {Root, env.file}
       THEN /\ stage' = IF dir # Root /\ env.broken THEN "exited" ELSE "load"
            /\ UNCHANGED dir
       ELSE /\ dir' = Parent(dir)
            /\ UNCHANGED stage
    /\ UNCHANGED <<env, config, pools, q, init_err, service, srv, listening,
                   reachable, faults>>

\* A variable that is missing, or a credit that is no number, is fatal.
LoadConfig ==
    LET set == env.vars \cup (IF dir = Root THEN {} ELSE env.filevars) IN
    /\ stage = "load"
    /\ IF Required \subseteq set /\ env.numeric
       THEN config' = TRUE /\ stage' = "open"
       ELSE stage' = "exited" /\ UNCHANGED config
    /\ UNCHANGED <<env, dir, pools, q, init_err, service, srv, listening,
                   reachable, faults>>

\* sql.Open sets db; the limit of one connection is set after the ping.
Initialize == pools' = Append(pools, IF Connects THEN 1 ELSE 0)

\* Mutant: a ping that fails is logged.
OpenPool_Lazy ==
    /\ stage = "open"
    /\ Initialize
    /\ stage' = "capture"
    /\ UNCHANGED <<env, dir, config, q, init_err, service, srv, listening,
                   reachable, faults>>

OpenPool ==
    /\ stage = "open"
    /\ Initialize
    /\ stage' = IF Connects THEN "capture" ELSE "exited"
    /\ UNCHANGED <<env, dir, config, q, init_err, service, srv, listening,
                   reachable, faults>>

\* q keeps the pool of this moment: GetDB is not asked again.
CaptureQ ==
    /\ stage = "capture"
    /\ q' = Len(pools)
    /\ stage' = "ensure"
    /\ UNCHANGED <<env, dir, config, pools, init_err, service, srv, listening,
                   reachable, faults>>

-----------------------------------------------------------------------------
(***************************************************************************)
(* bootstrap.                                                              *)
(***************************************************************************)

\* A second pool, and the service; neither if a service was injected.
InitBootstrap ==
    IF service # Nil
    THEN init_err' = "none" /\ UNCHANGED <<pools, service>>
    ELSE /\ Initialize
         /\ IF Connects THEN init_err' = "none" /\ service' = "real"
                        ELSE init_err' = "failed" /\ UNCHANGED service

\* Mutant: an initialisation that failed is tried again.
Ensure_Retry ==
    IF init_err # "none" THEN InitBootstrap
                         ELSE UNCHANGED <<pools, init_err, service>>

\* sync.Once: the error, if any, is remembered.
Ensure ==
    IF init_err = "unset" THEN InitBootstrap
                          ELSE UNCHANGED <<pools, init_err, service>>

\* Mutant: main goes on without the service, as NewRouter does.
FirstEnsure_NotFatal ==
    /\ stage = "ensure"
    /\ Ensure
    /\ stage' = "build"
    /\ UNCHANGED <<env, dir, config, q, srv, listening, reachable, faults>>

FirstEnsure ==
    /\ stage = "ensure"
    /\ Ensure
    /\ stage' = IF env.program = "main" /\ init_err' = "failed"
                THEN "exited" ELSE "build"
    /\ UNCHANGED <<env, dir, config, q, srv, listening, reachable, faults>>

\* SetStripeService, which the comment leaves to tests.
SetStripeService ==
    /\ env.program = "router"
    /\ stage \in {"ensure", "serve"}
    /\ service' = "stub"
    /\ UNCHANGED <<env, stage, dir, config, pools, q, init_err, srv, listening,
                   reachable, faults>>

\* The handlers keep the service of this moment; NewRouter's are mounted in
\* a server that is there.
Build ==
    /\ stage = "build"
    /\ srv' = service
    /\ listening' = IF env.program = "router" THEN {"http"} ELSE {}
    /\ stage' = "serve"
    /\ UNCHANGED <<env, dir, config, pools, q, init_err, service, reachable, faults>>

\* main's two goroutines; a port that is taken ends the process.
Listen(port) ==
    /\ env.program = "main"
    /\ stage = "serve"
    /\ port \notin listening
    /\ IF HTTPPort(env) = GRPCPort(env) /\ listening # {}
       THEN stage' = "exited" /\ UNCHANGED listening
       ELSE listening' = listening \cup {port} /\ UNCHANGED stage
    /\ UNCHANGED <<env, dir, config, pools, q, init_err, service, srv,
                   reachable, faults>>

-----------------------------------------------------------------------------
(***************************************************************************)
(* The world around the process.                                           *)
(***************************************************************************)

\* One of the servers fails, and with it the other, or the machine dies.
Die ==
    /\ stage # "exited"
    /\ faults < MaxFaults
    /\ stage' = "exited"
    /\ faults' = faults + 1
    /\ UNCHANGED <<env, dir, config, pools, q, init_err, service, srv, listening,
                   reachable>>

Restart ==
    /\ stage = "exited"
    /\ \E e \in Environment :
          /\ env' = e
          /\ dir' = e.cwd
    /\ stage' = "search"
    /\ config' = FALSE
    /\ pools' = <<>>
    /\ q' = 0
    /\ init_err' = "unset"
    /\ service' = Nil
    /\ srv' = Nil
    /\ listening' = {}
    /\ UNCHANGED <<reachable, faults>>

Outage ==
    /\ reachable' = ~reachable
    /\ UNCHANGED <<process, faults>>

LifeInit ==
    /\ env \in Environment
    /\ dir = env.cwd
    /\ stage = "search"
    /\ config = FALSE
    /\ pools = <<>>
    /\ q = 0
    /\ init_err = "unset"
    /\ service = Nil
    /\ srv = Nil
    /\ listening = {}
    /\ reachable \in BOOLEAN
    /\ faults = 0

Startup ==
    \/ SearchDotEnv
    \/ LoadConfig
    \/ OpenPool
    \/ CaptureQ
    \/ FirstEnsure
    \/ Build
    \/ \E port \in {"http", "grpc"} : Listen(port)

LifeTypeOK ==
    /\ env \in Environment
    /\ reachable \in BOOLEAN
    /\ stage \in {"search", "load", "open", "capture", "ensure", "build", "serve",
                  "exited"}
    /\ dir \in Nat \cup {Dot}
    /\ config \in BOOLEAN
    /\ pools \in Seq({0, 1})
    /\ q \in 0 .. Len(pools)
    /\ init_err \in {"unset", "none", "failed"}
    /\ service \in {Nil, "real", "stub"}
    /\ srv \in {Nil, "real", "stub"}
    /\ listening \subseteq {"http", "grpc"}
    /\ faults \in 0 .. MaxFaults
=============================================================================
