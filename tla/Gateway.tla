------------------------------- MODULE Gateway -------------------------------
(***************************************************************************)
(* src/config.rs and src/api: the configuration the daemon starts with,    *)
(* the layers a request passes in the order of mod.rs and routes.rs (rate  *)
(* limiter, authentication, role), and the handlers behind them.           *)
(*                                                                         *)
(* The layers do not wait for anything, so a request goes through them in  *)
(* one poll of its task.  It may wait for its body after that, and time    *)
(* goes on.  Every handler is synchronous: it keeps a worker of the        *)
(* runtime until it has its answer, a migration for as long as it copies.  *)
(*                                                                         *)
(* Abstractions: what a handler does is in the other modules; whether the  *)
(* limiter lets a request pass is the business of RateLimiter, so here it  *)
(* may refuse whenever it is configured so that it can; a token is the     *)
(* role and the expiry of its claims, and nobody can make one who does not *)
(* know the secret.  Time is in hours, or any unit that divides the expiry.*)
(***************************************************************************)
EXTENDS Integers, FiniteSets

CONSTANTS
  Requests,    \* requests in flight
  Clients,
  Asked,       \* the routes they ask for
  Secrets,     \* passwords and API keys
  Knows,       \* Knows[c]: the secrets a client was given
  Brings,      \* Brings[c]: the tokens it was given, by whoever signs them
  Files,       \* what rmdadm.conf may say
  Environs,    \* what the environment may say
  Expiry,      \* token_expiry_hours
  Leeway,      \* how long the JWT library accepts a token after its expiry
  Workers,     \* threads of the runtime
  MaxTime,     \* bound on the clock
  None

-----------------------------------------------------------------------------
(* Roles and routes. *)

UserRole == {"Admin", "Operator", "ReadOnly"}

(* require_role's table.                                                   *)
Suffices(role, required) ==
  \/ required = None
  \/ role = "Admin"
  \/ role = "Operator" /\ required \in {"Operator", "ReadOnly"}
  \/ role = "ReadOnly" /\ required = "ReadOnly"

(* Routes that auth_middleware guards, and the role they require.          *)
Operating == {"manage", "scrub", "analyze"}
Migrating == {"start", "pause", "resume"}
Administering == Migrating \cup {"create", "stop", "join", "sync"}
Reading == {"arrays", "array", "nodes"}
Guarded == Operating \cup Administering \cup Reading \cup {"refresh"}
Open == {"login", "health", "metrics", "web"}
Routes == Guarded \cup Open

Required(route) ==
  IF route \in Operating THEN "Operator"
  ELSE IF route \in Administering THEN "Admin" ELSE None

Token == [role : UserRole, exp : Nat]
Shown == [secret : Secrets \cup {None}, token : Token \cup {None}]

Config ==
  [disabled : BOOLEAN, key : Secrets \cup {None}, password : Secrets,
   limited : BOOLEAN, max : Nat, window : Nat, tls : BOOLEAN, cert : BOOLEAN]
Environ ==
  [disabled : BOOLEAN, key : Secrets \cup {None},
   password : Secrets \cup {None}, unlimited : BOOLEAN,
   max : Nat \cup {None}, window : Nat \cup {None}]

ASSUME GatewayAssumption ==
  /\ Asked \subseteq Routes
  /\ Knows \in [Clients -> SUBSET Secrets]
  /\ Brings \in [Clients -> SUBSET Token]
  /\ Files \subseteq Config
  /\ Environs \subseteq Environ
  /\ Expiry \in Nat
  /\ Leeway \in Nat
  /\ Workers \in Nat \ {0}
  /\ MaxTime \in Nat
  /\ None \notin UserRole \cup Secrets
  /\ None \notin Token \cup Shown
  /\ None \notin Nat

-----------------------------------------------------------------------------
(* Config::load: the file, or the defaults, then the environment. *)

Given(value, default) == IF value # None THEN value ELSE default

Override(file, env) ==
  [file EXCEPT !.disabled = @ \/ env.disabled,
               !.key = Given(env.key, @),
               !.password = Given(env.password, @),
               !.limited = @ /\ ~env.unlimited,
               !.max = Given(env.max, @),
               !.window = Given(env.window, @)]

Validates(c) == c.tls => c.cert

-----------------------------------------------------------------------------
VARIABLES
  conf,    \* the configuration of the daemon
  now,     \* the clock
  holds,   \* holds[c]: the tokens client c has
  req      \* req[q]: what request q asks for and how far it is

vars == <<conf, now, holds, req>>

Idle ==
  [pc |-> "idle", client |-> None, route |-> None, shown |-> None,
   claims |-> None, status |-> None]

Init ==
  /\ conf \in {c \in {Override(f, e) : f \in Files, e \in Environs} : Validates(c)}
  /\ now = 0
  /\ holds = Brings
  /\ req = [q \in Requests |-> Idle]

Busy == {q \in Requests : req[q].pc = "handler"}
FreeWorker == Cardinality(Busy) < Workers

(* A connection brings a request; its client shows what it has.  Nothing   *)
(* looks at a token on an open route.                                      *)
Send(q, c, route, shown) ==
  /\ req[q].pc \in {"idle", "answered"}
  /\ shown.secret \in Knows[c] \cup {None}
  /\ shown.token \in (IF route \in Open THEN {} ELSE holds[c]) \cup {None}
  /\ req' = [req EXCEPT ![q] = [Idle EXCEPT !.pc = "sent", !.client = c,
                                            !.route = route, !.shown = shown]]
  /\ UNCHANGED <<conf, now, holds>>

Answer(q, status) ==
  req' = [req EXCEPT ![q] = [Idle EXCEPT !.pc = "answered", !.status = status]]

-----------------------------------------------------------------------------
(* The layers. *)

(* check_rate_limit: with a window of 0 every request starts a new one.    *)
MayRefuse == conf.limited /\ (conf.window > 0 \/ conf.max = 0)
MayPass == conf.limited => conf.max > 0

(* mutant: nobody looks at the expiry. *)
ValidForEver(token) == token # None

(* validate_token.                                                         *)
Valid(token) == token # None /\ now <= token.exp + Leeway

ShowsKey(shown) == conf.key # None /\ shown.secret = conf.key

(* mutant: a wrong key is refused at once. *)
AuthenticatedByKey(shown) ==
  IF shown.secret # None THEN ShowsKey(shown)
  ELSE conf.disabled \/ Valid(shown.token)

(* auth_middleware lets a request pass; a wrong key leaves it its token.   *)
Authenticated(shown) == conf.disabled \/ ShowsKey(shown) \/ Valid(shown.token)

(* The extension it inserts: none where authentication is disabled.        *)
Role(shown) ==
  IF conf.disabled THEN None
  ELSE IF ShowsKey(shown) THEN "Admin" ELSE shown.token.role

Claims(shown) ==
  IF conf.disabled \/ ShowsKey(shown) THEN None ELSE shown.token

(* What the layers behind the limiter answer instead of the handler.       *)
Refusal(route, shown) ==
  IF route \in Open THEN None
  ELSE IF ~Authenticated(shown) THEN 401
  ELSE IF Required(route) # None /\ Role(shown) = None THEN 401
  ELSE IF ~Suffices(Role(shown), Required(route)) THEN 403
  ELSE None

(* mutant: a request over the limit is kept waiting. *)
LimitedWaits(q) ==
  /\ req[q].pc = "sent" /\ FreeWorker
  /\ MayRefuse
  /\ UNCHANGED vars

Limited(q) ==
  /\ req[q].pc = "sent" /\ FreeWorker
  /\ MayRefuse
  /\ Answer(q, 429)
  /\ UNCHANGED <<conf, now, holds>>

(* mutant: the extensions of a request are those of an open route. *)
EnteredOpen(r) == [r EXCEPT !.pc = "body"]

(* Behind the layers a guarded route sees the claims, an open one the body.*)
Entered(r) ==
  IF r.route \in Open
    THEN [r EXCEPT !.pc = "body"]
    ELSE [r EXCEPT !.pc = "body", !.claims = Claims(r.shown), !.shown = None]

Enter(q) ==
  LET refusal == Refusal(req[q].route, req[q].shown)
  IN  /\ req[q].pc = "sent" /\ FreeWorker
      /\ MayPass
      /\ IF refusal # None
           THEN Answer(q, refusal)
           ELSE req' = [req EXCEPT ![q] = Entered(@)]
      /\ UNCHANGED <<conf, now, holds>>

(* The body is there, or there is none: the handler is called.             *)
Call(q) ==
  /\ req[q].pc = "body" /\ FreeWorker
  /\ req' = [req EXCEPT ![q].pc = "handler"]
  /\ UNCHANGED <<conf, now, holds>>

-----------------------------------------------------------------------------
(* The handlers. *)

(* generate_token, for the client that asked.                              *)
Issue(q, role) ==
  holds' = [holds EXCEPT ![req[q].client] =
              @ \cup {[role |-> role, exp |-> now + Expiry]}]

In(q, routes) == req[q].pc = "handler" /\ req[q].route \in routes

(* A login gives the role Admin, the only one the server gives by itself.  *)
Login(q) ==
  /\ In(q, {"login"})
  /\ IF req[q].shown.secret = conf.password
       THEN Issue(q, "Admin") /\ Answer(q, 200)
       ELSE Answer(q, 401) /\ UNCHANGED holds
  /\ UNCHANGED <<conf, now>>

(* mutant: the token is made as login makes it. *)
RefreshAsLogin(q) ==
  /\ In(q, {"refresh"})
  /\ IF req[q].claims # None
       THEN Issue(q, "Admin") /\ Answer(q, 200)
       ELSE Answer(q, 401) /\ UNCHANGED holds
  /\ UNCHANGED <<conf, now>>

(* A request that got in by a key, or unchecked, has no claims to refresh. *)
Refresh(q) ==
  /\ In(q, {"refresh"})
  /\ IF req[q].claims # None
       THEN Issue(q, req[q].claims.role) /\ Answer(q, 200)
       ELSE Answer(q, 401) /\ UNCHANGED holds
  /\ UNCHANGED <<conf, now>>

(* The other handlers return, with a result or an error.                   *)
Migrated(q) ==
  /\ In(q, Migrating)
  /\ Answer(q, 200)
  /\ UNCHANGED <<conf, now, holds>>

Handled(q) ==
  /\ In(q, Routes \ (Migrating \cup {"login", "refresh"}))
  /\ Answer(q, 200)
  /\ UNCHANGED <<conf, now, holds>>

(* The connection is closed: by the client, whose body may not even parse, *)
(* or by a handler that panics.  A handler that runs is not stopped.       *)
Closed(q) ==
  /\ req[q].pc \in {"sent", "body", "handler"}
  /\ req' = [req EXCEPT ![q] = Idle]
  /\ UNCHANGED <<conf, now, holds>>

Tick ==
  /\ now < MaxTime
  /\ now' = now + 1
  /\ UNCHANGED <<conf, holds, req>>

-----------------------------------------------------------------------------
Finish(q) == Login(q) \/ Refresh(q) \/ Handled(q)

Next ==
  \/ Tick
  \/ \E q \in Requests :
       \/ \E c \in Clients, route \in Asked :
            \E secret \in Knows[c] \cup {None}, token \in holds[c] \cup {None} :
              Send(q, c, route, [secret |-> secret, token |-> token])
       \/ Limited(q) \/ Enter(q) \/ Call(q)
       \/ Finish(q) \/ Migrated(q) \/ Closed(q)

Spec == Init /\ [][Next]_vars

(* The runtime polls every task that is ready, oldest first, once a worker *)
(* is free; bodies arrive or their connections close; every handler comes  *)
(* back but a migration, which may copy for ever.                          *)
FairSpec ==
  /\ Spec
  /\ \A q \in Requests :
       /\ SF_vars(Limited(q) \/ Enter(q))
       /\ SF_vars(Call(q))
       /\ WF_vars(Finish(q))

-----------------------------------------------------------------------------
(* Properties. *)

RequestState ==
  [pc : {"idle", "sent", "body", "handler", "answered"},
   client : Clients \cup {None}, route : Routes \cup {None},
   shown : Shown \cup {None}, claims : Token \cup {None},
   status : {200, 401, 403, 429, None}]

(* The values the variables take; behind the layers there are claims of a  *)
(* guarded request and the body of an open one, and a status at the end.   *)
TypeOK ==
  /\ conf \in Config
  /\ now \in 0 .. MaxTime
  /\ holds \in [Clients -> SUBSET Token]
  /\ req \in [Requests -> RequestState]
  /\ \A q \in Requests :
       /\ req[q].pc \in {"body", "handler"} =>
            (req[q].shown = None <=> req[q].route \in Guarded)
       /\ req[q].claims # None => req[q].pc \in {"body", "handler"}
       /\ req[q].status # None <=> req[q].pc = "answered"

(* The roles a client has by what it was given, whatever it asked since.   *)
KnowsKey(c) == conf.key # None /\ conf.key \in Knows[c]
Authority(c) ==
  {t.role : t \in Brings[c]} \cup
    (IF KnowsKey(c) \/ conf.password \in Knows[c] THEN {"Admin"} ELSE {})

(* No sequence of logins, refreshes and requests, however they interleave  *)
(* and expire, gives a client a role it was not given: neither in a token  *)
(* nor by a handler that runs for it.                                      *)
NoneRises ==
  /\ \A c \in Clients : \A t \in holds[c] : t.role \in Authority(c)
  /\ \A q \in Requests :
       req[q].pc = "handler" /\ Required(req[q].route) # None =>
         \E role \in Authority(req[q].client) :
           Suffices(role, Required(req[q].route))

(* Every 401 and 403 of a guarded route has one of three causes.  Where    *)
(* requests are authenticated: neither the key nor a token whose role      *)
(* suffices was shown; a wrong key next to a good token does no harm.      *)
(* Where they are not: the route requires a role, and nobody has one.  And *)
(* in the handler: refresh has no claims of somebody who came in by the    *)
(* key, or unchecked.                                                      *)
Insufficient(shown, route) ==
  /\ conf.key = None \/ conf.key # shown.secret
  /\ shown.token # None /\ now <= shown.token.exp =>
       ~Suffices(shown.token.role, Required(route))

Cause(r) ==
  IF r.pc = "sent"
    THEN IF conf.disabled THEN Required(r.route) # None
                          ELSE Insufficient(r.shown, r.route)
    ELSE r.route = "refresh" /\ r.claims = None

RefusedForCause ==
  [][\A q \in Requests :
       /\ req[q].pc \in {"sent", "body", "handler"}
       /\ req[q].route \in Guarded
       /\ req'[q].status \in {401, 403}
       => Cause(req[q])]_vars

(* A client that has no secret, whose tokens have all expired and for      *)
(* which no request is past the layers, stays out for good.                *)
Out(c) ==
  /\ ~conf.disabled /\ ~KnowsKey(c) /\ conf.password \notin Knows[c]
  /\ \A t \in holds[c] : now > t.exp + Leeway
  /\ \A q \in Requests :
       req[q].client = c /\ req[q].pc \in {"body", "handler"}
         => req[q].route \in Open
ExpiredStaysOut == [][\A c \in Clients : Out(c) => Out(c)']_vars

(* Whatever the configuration that was accepted, a request gets its answer *)
(* unless migrations keep every worker; the handler of a migration answers *)
(* when the copy ends.                                                     *)
AnsweredUnlessBlocked ==
  []<>FreeWorker =>
    \A q \in Requests :
      req[q].pc = "sent" ~> \/ req[q].pc \in {"idle", "answered"}
                            \/ In(q, Migrating)
=============================================================================
