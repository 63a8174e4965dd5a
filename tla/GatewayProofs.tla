---------------------------- MODULE GatewayProofs ----------------------------
(***************************************************************************)
(* Proofs about Gateway for any requests, clients, secrets, files and      *)
(* environments.                                                           *)
(*                                                                         *)
(* A role is looked at once, in the layers; everything that happens later  *)
(* (a body that arrives, a token that expires, a refresh) relies on what   *)
(* was seen then.  So the invariant follows a request from the moment its  *)
(* client sends it: what it shows and what it claims belong to its client, *)
(* and behind the layers its client has a role that suffices.              *)
(***************************************************************************)
EXTENDS Gateway, TLAPS

USE GatewayAssumption

Behind == {"body", "handler"}

RequestOK(r) ==
  /\ r.pc \in {"sent"} \cup Behind => r.client \in Clients /\ r.route \in Routes
  /\ r.pc = "sent" => r.shown # None
  /\ r.pc \in Behind => (r.shown = None <=> r.route \in Guarded)
  /\ r.pc \in {"sent"} \cup Behind /\ r.shown # None
       => /\ r.shown.secret \in Knows[r.client] \cup {None}
          /\ r.shown.token \in holds[r.client] \cup {None}
  /\ r.claims # None => r.pc \in Behind /\ r.claims.role \in Authority(r.client)
  /\ r.pc \in Behind /\ Required(r.route) # None
       => /\ ~conf.disabled
          /\ \E role \in Authority(r.client) : Suffices(role, Required(r.route))
  /\ r.status # None <=> r.pc = "answered"

Typed ==
  /\ conf \in Config
  /\ now \in 0 .. MaxTime
  /\ holds \in [Clients -> SUBSET Token]
  /\ req \in [Requests -> RequestState]

HoldsOK == \A c \in Clients : \A t \in holds[c] : t.role \in Authority(c)

RequestsOK == \A q \in Requests : RequestOK(req[q])

IInv == Typed /\ HoldsOK /\ RequestsOK

-----------------------------------------------------------------------------
(* The configuration is one, whatever the environment overrides.           *)
LEMMA OverrideType ==
  ASSUME NEW file \in Config, NEW env \in Environ
  PROVE  Override(file, env) \in Config
<1>1. PICK disabled \in BOOLEAN : disabled = (file.disabled \/ env.disabled)
  OBVIOUS
<1>2. PICK limited \in BOOLEAN : limited = (file.limited /\ ~env.unlimited)
  OBVIOUS
<1>3. PICK key \in Secrets \cup {None} : key = Given(env.key, file.key)
  BY DEF Given, Config, Environ
<1>4. PICK password \in Secrets : password = Given(env.password, file.password)
  BY DEF Given, Config, Environ
<1>5. PICK max \in Nat : max = Given(env.max, file.max)
  BY DEF Given, Config, Environ
<1>6. PICK window \in Nat : window = Given(env.window, file.window)
  BY DEF Given, Config, Environ
<1>7. Override(file, env) =
        [file EXCEPT !.disabled = disabled, !.key = key, !.password = password,
                     !.limited = limited, !.max = max, !.window = window]
  BY <1>1, <1>2, <1>3, <1>4, <1>5, <1>6 DEF Override
<1> QED
  BY <1>7 DEF Config

LEMMA RouteKinds ==
  /\ Guarded \subseteq Routes /\ Open \subseteq Routes
  /\ \A route \in Routes : route \in Guarded <=> route \notin Open
  /\ \A route \in Open : Required(route) = None
  /\ "login" \in Open /\ "refresh" \in Guarded
BY DEF Routes, Guarded, Open, Operating, Migrating, Administering, Reading,
       Required

(* What is behind the layers stays permitted as long as the configuration  *)
(* is the same and tokens are only added.                                  *)
LEMMA RequestStable ==
  ASSUME NEW r, RequestOK(r), UNCHANGED conf,
         \A c \in Clients : holds[c] \subseteq holds'[c]
  PROVE  RequestOK(r)'
<1>1. \A c : Authority(c)' = Authority(c)
  BY DEF Authority, KnowsKey
<1>2. r.pc \in {"sent"} \cup Behind => r.client \in Clients
  BY DEF RequestOK
<1> QED
  BY <1>1, <1>2 DEF RequestOK, Behind

(* A step gives one request a new state.                                   *)
LEMMA OneChanges ==
  ASSUME IInv, NEW q \in Requests, NEW r \in RequestState, RequestOK(r)',
         req' = [req EXCEPT ![q] = r], UNCHANGED conf,
         \A c \in Clients : holds[c] \subseteq holds'[c]
  PROVE  req' \in [Requests -> RequestState] /\ RequestsOK'
<1>1. req \in [Requests -> RequestState] /\ RequestsOK
  BY DEF IInv, Typed
<1>2. \A o \in Requests : req'[o] = IF o = q THEN r ELSE req[o]
  BY <1>1
<1>3. ASSUME NEW o \in Requests PROVE RequestOK(req[o])'
  <2>1. CASE o = q
    <3>1. req'[o] = r
      BY <1>2, <2>1
    <3> QED
      BY <3>1 DEF RequestOK
  <2>2. CASE o # q
    <3>1. PICK s : s = req[o]
      OBVIOUS
    <3>2. RequestOK(s)'
      BY <1>1, <3>1, RequestStable DEF RequestsOK
    <3>3. req'[o] = s
      BY <1>2, <2>2, <3>1
    <3> QED
      BY <3>2, <3>3 DEF RequestOK
  <2> QED
    BY <2>1, <2>2
<1>4. req' \in [Requests -> RequestState]
  BY <1>1
<1> QED
  BY <1>3, <1>4 DEF RequestsOK

-----------------------------------------------------------------------------
(* The ways a request changes. *)

LEMMA IdleOK ==
  /\ Idle \in RequestState /\ RequestOK(Idle)'
  /\ RequestOK(Idle)
BY DEF Idle, RequestState, RequestOK, Behind

(* Nothing changes but one request.                                        *)
LEMMA RequestStep ==
  ASSUME IInv, NEW q \in Requests, NEW r \in RequestState, RequestOK(r),
         req' = [req EXCEPT ![q] = r], UNCHANGED <<conf, now, holds>>
  PROVE  IInv'
<1>1. \A c \in Clients : holds[c] \subseteq holds'[c]
  OBVIOUS
<1>2. RequestOK(r)'
  BY <1>1, RequestStable
<1>3. req' \in [Requests -> RequestState] /\ RequestsOK'
  BY <1>1, <1>2, OneChanges
<1> QED
  BY <1>3 DEF IInv, Typed, HoldsOK, Authority, KnowsKey

LEMMA AnswerOK ==
  ASSUME NEW q \in Requests, NEW status \in {200, 401, 403, 429}, Answer(q, status)
  PROVE  \E r \in RequestState :
           RequestOK(r) /\ RequestOK(r)' /\ req' = [req EXCEPT ![q] = r]
<1>1. PICK r : r = [Idle EXCEPT !.pc = "answered", !.status = status]
  OBVIOUS
<1>2. /\ r.pc = "answered" /\ r.status = status
      /\ r.shown = None /\ r.claims = None /\ r \in RequestState
  <2>1. r = [pc |-> "answered", client |-> None, route |-> None,
             shown |-> None, claims |-> None, status |-> status]
    BY <1>1 DEF Idle
  <2>2. /\ status \in {200, 401, 403, 429, None}
        /\ "answered" \in {"idle", "sent", "body", "handler", "answered"}
    OBVIOUS
  <2> QED
    BY <2>1, <2>2 DEF RequestState
<1>3. RequestOK(r) /\ RequestOK(r)'
  BY <1>2 DEF RequestOK, Behind
<1> QED
  BY <1>1, <1>2, <1>3 DEF Answer

LEMMA AnswerStep ==
  ASSUME IInv, NEW q \in Requests, NEW status \in {200, 401, 403, 429},
         Answer(q, status), UNCHANGED <<conf, now, holds>>
  PROVE  IInv'
BY AnswerOK, RequestStep

LEMMA SendKeeps ==
  ASSUME IInv, NEW q \in Requests, NEW c \in Clients, NEW route \in Asked,
         NEW secret \in Knows[c] \cup {None}, NEW token \in holds[c] \cup {None},
         Send(q, c, route, [secret |-> secret, token |-> token])
  PROVE  IInv'
<1>1. PICK shown : shown = [secret |-> secret, token |-> token]
  OBVIOUS
<1>2. shown \in Shown /\ shown # None
  <2>1. secret \in Secrets \cup {None}
    OBVIOUS
  <2>2. token \in Token \cup {None}
    BY DEF IInv, Typed
  <2> QED
    BY <1>1, <2>1, <2>2 DEF Shown
<1>3. PICK r : r = [Idle EXCEPT !.pc = "sent", !.client = c,
                                !.route = route, !.shown = shown]
  OBVIOUS
<1>4. /\ r.pc = "sent" /\ r.client = c /\ r.route = route /\ r.shown = shown
      /\ r.claims = None /\ r.status = None /\ r \in RequestState
      /\ route \in Routes
  BY ZenonT(40), <1>2, <1>3 DEF Idle, RequestState
<1>5. shown.secret = secret /\ shown.token = token
  BY <1>1
<1>6. RequestOK(r)
  BY <1>2, <1>4, <1>5 DEF RequestOK, Behind
<1>7. req' = [req EXCEPT ![q] = r]
  BY <1>1, <1>3 DEF Send
<1> QED
  BY <1>4, <1>6, <1>7, RequestStep DEF Send

LEMMA LimitedKeeps ==
  ASSUME IInv, NEW q \in Requests, Limited(q)
  PROVE  IInv'
BY AnswerStep DEF Limited

(* The layers let a request through only if its client has a role that     *)
(* suffices: by a token it holds, or by the key.                           *)
LEMMA LayersCheck ==
  ASSUME IInv, NEW q \in Requests, req[q].pc = "sent",
         Refusal(req[q].route, req[q].shown) = None,
         req[q].route \in Guarded
  PROVE  /\ Claims(req[q].shown) # None
              => /\ Claims(req[q].shown) = req[q].shown.token
                 /\ Claims(req[q].shown) \in Token
                 /\ Claims(req[q].shown).role \in Authority(req[q].client)
         /\ Required(req[q].route) # None
              => /\ ~conf.disabled
                 /\ \E role \in Authority(req[q].client) :
                      Suffices(role, Required(req[q].route))
<1> DEFINE c == req[q].client
           shown == req[q].shown
           route == req[q].route
<1>1. /\ c \in Clients /\ shown # None /\ route \in Routes
      /\ shown.secret \in Knows[c] \cup {None}
      /\ shown.token \in holds[c] \cup {None}
      /\ conf \in Config
  BY DEF IInv, Typed, RequestsOK, RequestOK
<1>2. route \notin Open
  BY <1>1, RouteKinds
<1>3. Authenticated(shown)
  BY <1>2 DEF Refusal
<1>4. shown.token # None
        => shown.token \in Token /\ shown.token.role \in Authority(c)
  BY <1>1 DEF IInv, Typed, HoldsOK
<1>5. ShowsKey(shown) => "Admin" \in Authority(c)
  <2>1. ShowsKey(shown) => conf.key # None /\ conf.key \in Knows[c]
    BY <1>1 DEF ShowsKey
  <2> QED
    BY <2>1 DEF Authority, KnowsKey
<1>6. Claims(shown) # None => Claims(shown) = shown.token
  BY DEF Claims
<1>7. ASSUME Required(route) # None
      PROVE  /\ ~conf.disabled
             /\ \E role \in Authority(c) : Suffices(role, Required(route))
  <2>1. Role(shown) # None /\ Suffices(Role(shown), Required(route))
    BY <1>2, <1>3, <1>7 DEF Refusal
  <2>2. ~conf.disabled
    BY <2>1 DEF Role
  <2>3. CASE ShowsKey(shown)
    BY <1>5, <2>1, <2>2, <2>3 DEF Role
  <2>4. CASE ~ShowsKey(shown)
    <3>1. shown.token # None
      BY <1>3, <2>2, <2>4 DEF Authenticated, Valid
    <3> QED
      BY <1>4, <2>1, <2>2, <2>4, <3>1 DEF Role
  <2> QED
    BY <2>2, <2>3, <2>4
<1> QED
  BY <1>4, <1>6, <1>7

LEMMA EnterKeeps ==
  ASSUME IInv, NEW q \in Requests, Enter(q)
  PROVE  IInv'
<1>1. /\ req[q].pc = "sent" /\ UNCHANGED <<conf, now, holds>>
      /\ req[q] \in RequestState /\ RequestOK(req[q])
      /\ req \in [Requests -> RequestState]
  BY DEF Enter, IInv, Typed, RequestsOK
<1>2. PICK refusal : refusal = Refusal(req[q].route, req[q].shown)
  OBVIOUS
<1>3. CASE refusal # None
  <2>1. refusal \in {200, 401, 403, 429}
    BY <1>2, <1>3 DEF Refusal
  <2>2. Answer(q, refusal)
    BY <1>2, <1>3 DEF Enter
  <2> QED
    BY <1>1, <2>1, <2>2, AnswerStep
<1>4. CASE refusal = None
  <2>1. PICK r : r = Entered(req[q])
    OBVIOUS
  <2>2. req' = [req EXCEPT ![q] = r]
    BY <1>1, <1>2, <1>4, <2>1 DEF Enter
  <2>3. CASE req[q].route \in Open
    <3>1. r = [req[q] EXCEPT !.pc = "body"]
      BY <2>1, <2>3 DEF Entered
    <3>2. /\ r.pc = "body" /\ r.client = req[q].client /\ r.route = req[q].route
          /\ r.shown = req[q].shown /\ r.claims = req[q].claims
          /\ r.status = req[q].status /\ r \in RequestState
      BY <1>1, <3>1 DEF RequestState
    <3>3. req[q].claims = None /\ req[q].status = None /\ req[q].shown # None
      BY <1>1 DEF RequestOK, Behind
    <3>4. req[q].route \notin Guarded /\ Required(req[q].route) = None
      BY <2>3, RouteKinds
    <3>5. RequestOK(r)
      BY <1>1, <3>2, <3>3, <3>4 DEF RequestOK, Behind
    <3> QED
      BY <1>1, <2>2, <3>2, <3>5, RequestStep
  <2>4. CASE req[q].route \notin Open
    <3>1. PICK claims : claims = Claims(req[q].shown)
      OBVIOUS
    <3>2. r = [req[q] EXCEPT !.pc = "body", !.claims = claims, !.shown = None]
      BY <2>1, <2>4, <3>1 DEF Entered
    <3>3. req[q].route \in Routes /\ req[q].client \in Clients
      BY <1>1 DEF RequestOK
    <3>4. req[q].route \in Guarded
      BY <2>4, <3>3, RouteKinds
    <3>5. /\ claims # None => /\ claims \in Token
                              /\ claims.role \in Authority(req[q].client)
          /\ Required(req[q].route) # None
               => /\ ~conf.disabled
                  /\ \E role \in Authority(req[q].client) :
                       Suffices(role, Required(req[q].route))
      BY <1>1, <1>2, <1>4, <3>1, <3>4, LayersCheck
    <3>6. /\ r.pc = "body" /\ r.client = req[q].client /\ r.route = req[q].route
          /\ r.shown = None /\ r.claims = claims
          /\ r.status = req[q].status /\ r \in RequestState
      <4>1. claims \in Token \cup {None}
        BY <3>5
      <4>2. None \in Shown \cup {None}
        OBVIOUS
      <4>3. PICK old : old = [req[q] EXCEPT !.pc = "body"]
        OBVIOUS
      <4>4. old \in RequestState
        BY <1>1, <4>3 DEF RequestState
      <4>5. PICK claimed : claimed = [old EXCEPT !.claims = claims]
        OBVIOUS
      <4>6. claimed \in RequestState
        BY <4>1, <4>4, <4>5 DEF RequestState
      <4>7. r = [claimed EXCEPT !.shown = None]
        BY <1>1, <3>2, <4>3, <4>5 DEF RequestState
      <4>8. r \in RequestState
        BY <4>2, <4>6, <4>7 DEF RequestState
      <4> QED
        BY <1>1, <3>2, <4>8 DEF RequestState
    <3>7. req[q].status = None
      BY <1>1 DEF RequestOK
    <3>8. RequestOK(r)
      BY <3>3, <3>4, <3>5, <3>6, <3>7 DEF RequestOK, Behind
    <3> QED
      BY <1>1, <2>2, <3>6, <3>8, RequestStep
  <2> QED
    BY <2>3, <2>4
<1> QED
  BY <1>3, <1>4

LEMMA CallKeeps ==
  ASSUME IInv, NEW q \in Requests, Call(q)
  PROVE  IInv'
<1>1. req[q] \in RequestState /\ RequestOK(req[q]) /\ req[q].pc = "body"
      /\ req \in [Requests -> RequestState]
  BY DEF IInv, Typed, RequestsOK, Call
<1>2. PICK r : r = [req[q] EXCEPT !.pc = "handler"]
  OBVIOUS
<1>3. /\ r.pc = "handler" /\ r.client = req[q].client /\ r.route = req[q].route
      /\ r.shown = req[q].shown /\ r.claims = req[q].claims
      /\ r.status = req[q].status /\ r \in RequestState
  BY <1>1, <1>2 DEF RequestState
<1>4. RequestOK(r)
  BY <1>1, <1>3 DEF RequestOK, Behind
<1>5. req' = [req EXCEPT ![q] = r]
  BY <1>1, <1>2 DEF Call
<1> QED
  BY <1>3, <1>4, <1>5, RequestStep DEF Call

LEMMA ClosedKeeps ==
  ASSUME IInv, NEW q \in Requests, Closed(q)
  PROVE  IInv'
BY IdleOK, RequestStep DEF Closed

(* A token is only made with a role its client has.                        *)
LEMMA IssueKeeps ==
  ASSUME IInv, NEW q \in Requests, req[q].pc = "handler",
         NEW role \in UserRole, role \in Authority(req[q].client),
         Issue(q, role), Answer(q, 200), UNCHANGED <<conf, now>>
  PROVE  IInv'
<1> DEFINE c == req[q].client
<1>1. holds \in [Clients -> SUBSET Token] /\ HoldsOK /\ now \in Nat
  BY DEF IInv, Typed
<1>2. c \in Clients
  BY DEF IInv, RequestsOK, RequestOK, Behind
<1>3. PICK token : token = [role |-> role, exp |-> now + Expiry]
  OBVIOUS
<1>4. token \in Token /\ token.role = role
  BY <1>1, <1>3 DEF Token
<1>5. holds' = [holds EXCEPT ![c] = holds[c] \cup {token}]
  BY <1>3 DEF Issue
<1>6. \A o \in Clients :
        holds'[o] = IF o = c THEN holds[o] \cup {token} ELSE holds[o]
  BY <1>1, <1>5
<1>7. \A o : Authority(o)' = Authority(o)
  BY DEF Authority, KnowsKey
<1>8. \A o \in Clients : holds[o] \subseteq holds'[o]
  BY <1>6
<1>9. holds' \in [Clients -> SUBSET Token]
  BY <1>1, <1>4, <1>5
<1>10. HoldsOK'
  BY ZenonT(40), <1>1, <1>4, <1>6, <1>7 DEF HoldsOK
<1>11. PICK r \in RequestState : RequestOK(r)' /\ req' = [req EXCEPT ![q] = r]
  <2>1. \A n \in {200} : n \in {200, 401, 403, 429}
    OBVIOUS
  <2> QED
    BY <2>1, AnswerOK
<1>12. req' \in [Requests -> RequestState] /\ RequestsOK'
  BY <1>8, <1>11, OneChanges
<1> QED
  BY <1>9, <1>10, <1>12 DEF IInv, Typed

LEMMA LoginKeeps ==
  ASSUME IInv, NEW q \in Requests, Login(q)
  PROVE  IInv'
<1>1. req[q].pc = "handler" /\ req[q].route = "login" /\ UNCHANGED <<conf, now>>
  BY DEF Login, In
<1>2. CASE req[q].shown.secret = conf.password
  <2>1. /\ req[q].shown # None
        /\ req[q].shown.secret \in Knows[req[q].client] \cup {None}
    BY <1>1, RouteKinds DEF IInv, RequestsOK, RequestOK, Behind
  <2>2. conf.password \in Secrets
    BY DEF IInv, Typed, Config
  <2>3. "Admin" \in Authority(req[q].client) /\ "Admin" \in UserRole
    BY <1>2, <2>1, <2>2 DEF Authority, UserRole
  <2>4. Issue(q, "Admin") /\ Answer(q, 200)
    BY <1>2 DEF Login
  <2> QED
    BY <1>1, <2>3, <2>4, IssueKeeps
<1>3. CASE req[q].shown.secret # conf.password
  BY <1>1, <1>3, AnswerStep DEF Login
<1> QED
  BY <1>2, <1>3

LEMMA RefreshKeeps ==
  ASSUME IInv, NEW q \in Requests, Refresh(q)
  PROVE  IInv'
<1>1. req[q].pc = "handler" /\ UNCHANGED <<conf, now>>
  BY DEF Refresh, In
<1>2. CASE req[q].claims # None
  <2>1. PICK role : role = req[q].claims.role
    OBVIOUS
  <2>2. req[q] \in RequestState
    BY DEF IInv, Typed
  <2>3. role \in UserRole
    BY <1>2, <2>1, <2>2 DEF RequestState, Token
  <2>4. role \in Authority(req[q].client)
    BY <1>2, <2>1 DEF IInv, RequestsOK, RequestOK
  <2>5. Issue(q, role) /\ Answer(q, 200)
    BY <1>2, <2>1 DEF Refresh
  <2> QED
    BY <1>1, <2>3, <2>4, <2>5, IssueKeeps
<1>3. CASE req[q].claims = None
  BY <1>1, <1>3, AnswerStep DEF Refresh
<1> QED
  BY <1>2, <1>3

LEMMA HandledKeeps ==
  ASSUME IInv, NEW q \in Requests, Handled(q) \/ Migrated(q)
  PROVE  IInv'
BY AnswerStep DEF Handled, Migrated

LEMMA TickKeeps == ASSUME IInv, Tick PROVE IInv'
<1>1. now' \in 0 .. MaxTime
  BY DEF IInv, Typed, Tick
<1> QED
  BY <1>1 DEF IInv, Typed, HoldsOK, RequestsOK, RequestOK, Authority, KnowsKey, Tick

-----------------------------------------------------------------------------
(* The invariant. *)

LEMMA InitIInv == Init => IInv
<1> SUFFICES ASSUME Init PROVE IInv
  OBVIOUS
<1>1. conf \in Config
  BY OverrideType DEF Init
<1>2. now \in 0 .. MaxTime
  BY DEF Init
<1>3. holds \in [Clients -> SUBSET Token] /\ HoldsOK
  BY DEF Init, HoldsOK, Authority
<1>4. req \in [Requests -> RequestState] /\ RequestsOK
  BY IdleOK DEF Init, RequestsOK
<1> QED
  BY <1>1, <1>2, <1>3, <1>4 DEF IInv, Typed

LEMMA NextIInv == IInv /\ [Next]_vars => IInv'
<1> SUFFICES ASSUME IInv, [Next]_vars PROVE IInv'
  OBVIOUS
<1>1. CASE UNCHANGED vars
  BY <1>1 DEF vars, IInv, Typed, HoldsOK, RequestsOK, RequestOK, Authority, KnowsKey
<1>2. CASE Tick
  BY <1>2, TickKeeps
<1>3. ASSUME NEW q \in Requests, NEW c \in Clients, NEW route \in Asked,
             NEW secret \in Knows[c] \cup {None},
             NEW token \in holds[c] \cup {None},
             Send(q, c, route, [secret |-> secret, token |-> token])
      PROVE  IInv'
  BY <1>3, SendKeeps
<1>4. ASSUME NEW q \in Requests,
             \/ Limited(q) \/ Enter(q) \/ Call(q)
             \/ Finish(q) \/ Migrated(q) \/ Closed(q)
      PROVE  IInv'
  BY <1>4, LimitedKeeps, EnterKeeps, CallKeeps, LoginKeeps, RefreshKeeps,
     HandledKeeps, ClosedKeeps DEF Finish
<1> QED
  BY <1>1, <1>2, <1>3, <1>4 DEF Next

(* IInv holds in every behaviour.                                          *)
THEOREM Inductive == Spec => []IInv
<1>1. Init => IInv
  BY InitIInv
<1>2. IInv /\ [Next]_vars => IInv'
  BY NextIInv
<1> QED
  BY <1>1, <1>2, PTL DEF Spec

(* Every variable keeps its range; behind the layers a guarded request has *)
(* lost what it showed, an open one still has its body.                    *)
THEOREM TypeCorrect == Spec => []TypeOK
<1>1. IInv => TypeOK
  <2> SUFFICES ASSUME IInv PROVE TypeOK
    OBVIOUS
  <2>1. Typed
    BY DEF IInv
  <2>2. ASSUME NEW q \in Requests
        PROVE  /\ req[q].pc \in {"body", "handler"} =>
                    (req[q].shown = None <=> req[q].route \in Guarded)
               /\ req[q].claims # None => req[q].pc \in {"body", "handler"}
               /\ req[q].status # None <=> req[q].pc = "answered"
    BY DEF IInv, RequestsOK, RequestOK, Behind
  <2> QED
    BY <2>1, <2>2 DEF TypeOK, Typed
<1> QED
  BY <1>1, Inductive, PTL

(* No client gets a role it was not given, in a token or behind the layers,*)
(* by whatever requests it makes.                                          *)
THEOREM NobodyRises == Spec => []NoneRises
<1>1. IInv => NoneRises
  BY DEF IInv, HoldsOK, RequestsOK, RequestOK, Behind, NoneRises
<1> QED
  BY <1>1, Inductive, PTL

-----------------------------------------------------------------------------
(* What a step may not do. *)

(* A step of a request is one of these, and leaves the others alone.       *)
Move(q) ==
  \/ \E c \in Clients, route \in Asked :
       \E secret \in Knows[c] \cup {None}, token \in holds[c] \cup {None} :
         Send(q, c, route, [secret |-> secret, token |-> token])
  \/ Limited(q) \/ Enter(q) \/ Call(q)
  \/ Finish(q) \/ Migrated(q) \/ Closed(q)

LEMMA StepIs ==
  ASSUME [Next]_vars
  PROVE  \/ UNCHANGED vars
         \/ Tick
         \/ \E q \in Requests : Move(q)
<1>1. ASSUME NEW q \in Requests, NEW c \in Clients, NEW route \in Asked,
             NEW secret \in Knows[c] \cup {None},
             NEW token \in holds[c] \cup {None},
             Send(q, c, route, [secret |-> secret, token |-> token])
      PROVE  Move(q)
  BY <1>1 DEF Move
<1>2. ASSUME NEW q \in Requests,
             \/ Limited(q) \/ Enter(q) \/ Call(q)
             \/ Finish(q) \/ Migrated(q) \/ Closed(q)
      PROVE  Move(q)
  BY <1>2 DEF Move
<1> QED
  BY <1>1, <1>2 DEF Next

LEMMA OthersStay ==
  ASSUME NEW q \in Requests, Move(q), NEW o \in Requests, o # q, Typed
  PROVE  req'[o] = req[o]
<1>1. \E x : req' = [req EXCEPT ![q] = x]
  <2>1. CASE Limited(q) \/ Migrated(q)
    BY <2>1 DEF Limited, Migrated, Answer
  <2>2. CASE Finish(q)
    BY <2>2 DEF Finish, Login, Refresh, Handled, Answer
  <2>3. CASE Enter(q)
    BY <2>3 DEF Enter, Answer
  <2>4. CASE Call(q) \/ Closed(q)
    BY <2>4 DEF Call, Closed
  <2>5. ASSUME NEW c, NEW route, NEW shown, Send(q, c, route, shown)
        PROVE  \E x : req' = [req EXCEPT ![q] = x]
    BY <2>5 DEF Send
  <2> QED
    BY <2>1, <2>2, <2>3, <2>4, <2>5 DEF Move
<1> QED
  BY <1>1 DEF Typed

LEMMA SentKnowsWhy ==
  ASSUME IInv, [Next]_vars, NEW q \in Requests,
         req[q].pc = "sent", req'[q].status \in {401, 403}
  PROVE  Refusal(req[q].route, req[q].shown) \in {401, 403}
<1>1. req \in [Requests -> RequestState] /\ Typed /\ req[q].status = None
  BY DEF IInv, Typed, RequestsOK, RequestOK
<1>2. req'[q] # req[q] /\ req'[q].status # None /\ req'[q].status # 429
  BY <1>1
<1>3. CASE UNCHANGED req
  BY <1>2, <1>3
<1>4. ASSUME NEW o \in Requests, Move(o)
      PROVE  Refusal(req[q].route, req[q].shown) \in {401, 403}
  <2>1. o = q
    BY <1>1, <1>2, <1>4, OthersStay
  <2>2. CASE Enter(q)
    <3>1. PICK refusal : refusal = Refusal(req[q].route, req[q].shown)
      OBVIOUS
    <3>2. CASE refusal = None
      <4>1. PICK r : r = Entered(req[q])
        OBVIOUS
      <4>2. r.status = req[q].status
        BY <1>1, <4>1 DEF Entered, RequestState
      <4>3. req' = [req EXCEPT ![q] = r]
        BY <1>1, <2>2, <3>1, <3>2, <4>1 DEF Enter
      <4> QED
        BY <1>1, <1>2, <4>2, <4>3
    <3>3. CASE refusal # None
      BY <3>1, <3>3 DEF Refusal
    <3> QED
      BY <3>1, <3>2, <3>3
  <2>3. CASE Limited(q)
    <3>1. req'[q].status = 429
      BY <1>1, <2>3 DEF Limited, Answer, Idle
    <3> QED
      BY <1>2, <3>1
  <2>4. CASE Closed(q)
    <3>1. req'[q].status = None
      BY <1>1, <2>4 DEF Closed, Idle
    <3> QED
      BY <1>2, <3>1
  <2>5. ~(Call(q) \/ Finish(q) \/ Migrated(q))
    BY DEF Call, Finish, Login, Refresh, Handled, Migrated, In
  <2>6. ASSUME NEW c \in Clients, NEW route \in Asked,
               NEW secret \in Knows[c] \cup {None},
               NEW token \in holds[c] \cup {None},
               Send(q, c, route, [secret |-> secret, token |-> token])
        PROVE  FALSE
    BY <2>6 DEF Send
  <2> QED
    <3>1. Move(q)
      BY <1>4, <2>1
    <3>2. ~\E c \in Clients, route \in Asked :
             \E secret \in Knows[c] \cup {None}, token \in holds[c] \cup {None} :
               Send(q, c, route, [secret |-> secret, token |-> token])
      BY <2>6
    <3> QED
      BY <2>2, <2>3, <2>4, <2>5, <3>1, <3>2 DEF Move
<1>5. UNCHANGED vars \/ Tick => UNCHANGED req
  BY DEF vars, Tick
<1> QED
  BY <1>3, <1>4, <1>5, StepIs

(* Behind the layers only refresh says 401, to a request without claims.   *)
LEMMA HandlerKnowsWhy ==
  ASSUME IInv, [Next]_vars, NEW q \in Requests,
         req[q].pc \in Behind, req[q].route \in Guarded,
         req'[q].status \in {401, 403}
  PROVE  req[q].route = "refresh" /\ req[q].claims = None
<1>1. req \in [Requests -> RequestState] /\ Typed /\ req[q].status = None
  BY DEF IInv, Typed, RequestsOK, RequestOK, Behind
<1>2. req'[q] # req[q] /\ req'[q].status # None /\ req'[q].status # 200
  BY <1>1
<1>3. PICK o \in Requests : Move(o)
  BY <1>2, StepIs DEF vars, Tick
<1>4. o = q
  BY <1>1, <1>2, <1>3, OthersStay
<1>a. \A status : [Idle EXCEPT !.pc = "answered", !.status = status].status = status
  BY DEF Idle
<1>b. ASSUME Answer(q, 200)
      PROVE  FALSE
  <2>1. PICK r : r = [Idle EXCEPT !.pc = "answered", !.status = 200]
    OBVIOUS
  <2>2. r.status = 200
    BY <1>a, <2>1
  <2>3. req' = [req EXCEPT ![q] = r]
    BY <1>b, <2>1 DEF Answer
  <2>4. req'[q] = r
    BY <1>1, <2>3
  <2> QED
    BY <1>2, <2>2, <2>4
<1>5. CASE Closed(q)
  <2>1. req'[q].status = None
    BY <1>1, <1>5 DEF Closed, Idle
  <2> QED
    BY <1>2, <2>1
<1>c. CASE Call(q)
  <2>1. req'[q] = [req[q] EXCEPT !.pc = "handler"] /\ req[q] \in RequestState
    BY <1>1, <1>c DEF Call
  <2>2. req'[q].status = None
    BY <1>1, <2>1 DEF RequestState
  <2> QED
    BY <1>2, <2>2
<1>6. ~(Handled(q) \/ Migrated(q))
  BY <1>b DEF Handled, Migrated
<1>7. CASE Refresh(q)
  <2>1. CASE req[q].claims # None
    BY <1>7, <1>b, <2>1 DEF Refresh
  <2>2. CASE req[q].claims = None
    BY <1>7, <2>2 DEF Refresh, In
  <2> QED
    BY <2>1, <2>2
<1>8. ~Login(q)
  <2>1. "login" \notin Guarded
    BY DEF Guarded, Operating, Administering, Migrating, Reading
  <2> QED
    BY <2>1 DEF Login, In
<1>9. ~(Limited(q) \/ Enter(q))
  BY DEF Limited, Enter, Behind
<1>10. ASSUME NEW c \in Clients, NEW route \in Asked,
              NEW secret \in Knows[c] \cup {None},
              NEW token \in holds[c] \cup {None}
       PROVE  ~Send(q, c, route, [secret |-> secret, token |-> token])
  BY DEF Send, Behind
<1>11. ~\E c \in Clients, route \in Asked :
          \E secret \in Knows[c] \cup {None}, token \in holds[c] \cup {None} :
            Send(q, c, route, [secret |-> secret, token |-> token])
  BY <1>10
<1>12. Call(q) \/ Finish(q) \/ Closed(q)
  BY <1>3, <1>4, <1>6, <1>9, <1>11 DEF Move
<1>13. Call(q) \/ Refresh(q) \/ Closed(q)
  BY <1>6, <1>8, <1>12 DEF Finish
<1> QED
  BY <1>5, <1>7, <1>c, <1>13

(* Every 401 and 403 of a guarded route has its cause: what was shown, a   *)
(* role nobody has while authentication is disabled, or a refresh without  *)
(* a token.                                                                *)
THEOREM RefusalsHaveCause == Spec => RefusedForCause
<1>1. ASSUME IInv, [Next]_vars, NEW q \in Requests,
             req[q].pc = "sent", req'[q].status \in {401, 403}, ~conf.disabled
      PROVE  Insufficient(req[q].shown, req[q].route)
  <2> DEFINE shown == req[q].shown
             route == req[q].route
  <2>1. Refusal(route, shown) \in {401, 403} /\ Refusal(route, shown) # None
    BY <1>1, SentKnowsWhy
  <2>2. route \in Routes /\ route \notin Open
    BY <1>1, <2>1 DEF IInv, RequestsOK, RequestOK, Refusal
  <2>3. ASSUME ShowsKey(shown) PROVE FALSE
    <3>1. Authenticated(shown) /\ Role(shown) = "Admin" /\ "Admin" # None
      BY <1>1, <2>3 DEF Authenticated, Role, UserRole
    <3>2. Suffices(Role(shown), Required(route))
      BY <3>1 DEF Suffices
    <3> QED
      BY <2>1, <3>1, <3>2 DEF Refusal
  <2>4. ASSUME ~ShowsKey(shown), shown.token # None, now <= shown.token.exp,
               Suffices(shown.token.role, Required(route))
        PROVE  FALSE
    <3>1. shown.token \in Token /\ now \in Nat
      <4>1. shown \in Shown /\ shown # None
        BY <1>1 DEF IInv, Typed, RequestState, RequestsOK, RequestOK
      <4> QED
        BY <1>1, <2>4, <4>1 DEF Shown, IInv, Typed
    <3>2. shown.token.exp \in Nat /\ shown.token.role \in UserRole
      BY <3>1 DEF Token
    <3>3. now <= shown.token.exp + Leeway
      BY <2>4, <3>1, <3>2
    <3>4. Authenticated(shown) /\ Role(shown) = shown.token.role
      BY <1>1, <2>4, <3>3 DEF Authenticated, Valid, Role
    <3>5. Role(shown) # None
      BY <3>2, <3>4
    <3> QED
      BY <2>1, <2>4, <3>4, <3>5 DEF Refusal
  <2> QED
    BY <2>3, <2>4 DEF ShowsKey, Insufficient
<1>2. ASSUME IInv, [Next]_vars, NEW q \in Requests,
             req[q].pc = "sent", req'[q].status \in {401, 403}, conf.disabled
      PROVE  Required(req[q].route) # None
  <2>1. PICK refusal : /\ refusal = Refusal(req[q].route, req[q].shown)
                       /\ refusal \in {401, 403} /\ refusal # None
    BY <1>2, SentKnowsWhy
  <2>2. Authenticated(req[q].shown)
    BY <1>2 DEF Authenticated
  <2> QED
    BY <2>1, <2>2 DEF Refusal, Suffices
<1>3. ASSUME IInv, [Next]_vars, NEW q \in Requests,
             req[q].pc \in {"sent", "body", "handler"}, req[q].route \in Guarded,
             req'[q].status \in {401, 403}
      PROVE  Cause(req[q])
  <2>1. CASE req[q].pc = "sent"
    BY <1>1, <1>2, <1>3, <2>1 DEF Cause
  <2>2. CASE req[q].pc # "sent"
    BY <1>3, <2>2, HandlerKnowsWhy DEF Behind, Cause
  <2> QED
    BY <2>1, <2>2
<1>4. IInv /\ [Next]_vars =>
        [\A q \in Requests :
           /\ req[q].pc \in {"sent", "body", "handler"}
           /\ req[q].route \in Guarded
           /\ req'[q].status \in {401, 403}
           => Cause(req[q])]_vars
  BY <1>3
<1> QED
  BY <1>4, Inductive, PTL DEF Spec, RefusedForCause

-----------------------------------------------------------------------------
(* Who is out and gets no new token stays out, whatever requests change,   *)
(* unless one for it gets behind the layers.                               *)
LEMMA StaysOut ==
  ASSUME IInv, NEW c \in Clients, Out(c), UNCHANGED conf,
         now' \in Nat, now' >= now, holds'[c] = holds[c],
         \A q \in Requests :
           req'[q].client = c /\ req'[q].pc \in Behind
             => \/ req'[q].route \in Open
                \/ req'[q].route = req[q].route /\ req[q].client = c
                   /\ req[q].pc \in Behind
  PROVE  Out(c)'
<1>1. /\ ~conf'.disabled /\ ~KnowsKey(c)' /\ conf'.password \notin Knows[c]
  BY DEF Out, KnowsKey
<1>2. ASSUME NEW t \in holds'[c] PROVE now' > t.exp + Leeway
  <2>1. t \in Token /\ now > t.exp + Leeway /\ now \in Nat
    BY <1>2 DEF Out, IInv, Typed
  <2>2. t.exp \in Nat
    BY <2>1 DEF Token
  <2> QED
    BY <2>1, <2>2
<1>3. ASSUME NEW q \in Requests, req'[q].client = c,
             req'[q].pc \in {"body", "handler"}
      PROVE  req'[q].route \in Open
  BY <1>3 DEF Out, Behind
<1> QED
  BY <1>1, <1>2, <1>3 DEF Out

LEMMA OutIsRefused ==
  ASSUME IInv, NEW q \in Requests, req[q].pc = "sent", Out(req[q].client),
         req[q].route \notin Open
  PROVE  Refusal(req[q].route, req[q].shown) # None
<1> DEFINE c == req[q].client
           shown == req[q].shown
<1>1. /\ c \in Clients /\ shown # None
      /\ shown.secret \in Knows[c] \cup {None}
      /\ shown.token \in holds[c] \cup {None}
  BY DEF IInv, RequestsOK, RequestOK
<1>2. ~ShowsKey(shown)
  BY <1>1 DEF ShowsKey, Out, KnowsKey
<1>3. ~Valid(shown.token)
  <2>1. CASE shown.token = None
    BY <2>1 DEF Valid
  <2>2. CASE shown.token # None
    <3>1. shown.token \in Token /\ now > shown.token.exp + Leeway /\ now \in Nat
      BY <1>1, <2>2 DEF Out, IInv, Typed
    <3>2. shown.token.exp \in Nat
      BY <3>1 DEF Token
    <3> QED
      BY <3>1, <3>2 DEF Valid
  <2> QED
    BY <2>1, <2>2
<1>4. ~conf.disabled
  BY DEF Out
<1> QED
  BY <1>2, <1>3, <1>4 DEF Refusal, Authenticated

(* Who knows no secret and whose tokens have expired has nothing to refresh*)
(* and nothing to show: a chain of refreshes ends for good when it breaks. *)
THEOREM ExpiredStay == Spec => ExpiredStaysOut
<1>1. ASSUME IInv, [Next]_vars, NEW c \in Clients, Out(c)
      PROVE  Out(c)'
  <2>1. now \in Nat /\ Typed /\ holds \in [Clients -> SUBSET Token]
        /\ req \in [Requests -> RequestState]
    BY <1>1 DEF IInv, Typed
  <2>2. CASE UNCHANGED vars
    BY <1>1, <2>1, <2>2, StaysOut DEF vars, Behind
  <2>3. CASE Tick
    BY <1>1, <2>1, <2>3, StaysOut DEF Tick
  <2>4. ASSUME NEW q \in Requests, Move(q), UNCHANGED <<conf, now>>,
               holds'[c] = holds[c],
               req'[q].client = c /\ req'[q].pc \in Behind
                 => \/ req'[q].route \in Open
                    \/ req'[q].route = req[q].route /\ req[q].client = c
                       /\ req[q].pc \in Behind
        PROVE  Out(c)'
    <3>1. \A o \in Requests : o # q => req'[o] = req[o]
      BY <2>1, <2>4, OthersStay
    <3> QED
      BY <1>1, <2>1, <2>4, <3>1, StaysOut
  <2>5. ASSUME NEW q \in Requests, NEW status, Answer(q, status)
        PROVE  req'[q].pc \notin Behind
    <3>1. req'[q].pc = "answered"
      BY <2>1, <2>5 DEF Answer, Idle
    <3> QED
      BY <3>1 DEF Behind
  <2>6. ASSUME NEW q \in Requests, Move(q)
        PROVE  Out(c)'
    <3>1. CASE Limited(q) \/ Migrated(q) \/ Handled(q)
      BY <2>4, <2>5, <2>6, <3>1 DEF Limited, Migrated, Handled
    <3>2. CASE Closed(q)
      <4>1. req'[q].pc \notin Behind
        BY <2>1, <3>2 DEF Closed, Idle, Behind
      <4> QED
        BY <2>4, <2>6, <3>2, <4>1 DEF Closed
    <3>3. CASE Call(q)
      <4>1. req[q].pc \in Behind /\ req'[q].route = req[q].route
            /\ req'[q].client = req[q].client
        BY <2>1, <3>3 DEF Call, Behind, RequestState
      <4> QED
        BY <2>4, <2>6, <3>3, <4>1 DEF Call
    <3>4. ASSUME NEW o \in Clients, NEW route, NEW shown, Send(q, o, route, shown)
          PROVE  Out(c)'
      <4>1. req'[q].pc = "sent"
        BY <2>1, <3>4 DEF Send, Idle
      <4>2. req'[q].pc \notin Behind
        BY <4>1 DEF Behind
      <4> QED
        BY <2>4, <2>6, <3>4, <4>2 DEF Send
    <3>5. CASE Enter(q)
      <4>1. PICK refusal : refusal = Refusal(req[q].route, req[q].shown)
        OBVIOUS
      <4>2. CASE refusal # None
        BY <2>4, <2>5, <2>6, <3>5, <4>1, <4>2 DEF Enter
      <4>3. CASE refusal = None
        <5>1. PICK r : r = Entered(req[q])
          OBVIOUS
        <5>2. r.client = req[q].client /\ r.route = req[q].route
          BY <2>1, <5>1 DEF Entered, RequestState
        <5>3. req' = [req EXCEPT ![q] = r]
          BY <2>1, <3>5, <4>1, <4>3, <5>1 DEF Enter
        <5>4. req'[q].client = req[q].client /\ req'[q].route = req[q].route
          BY <2>1, <5>2, <5>3
        <5>5. req[q].client = c => req[q].route \in Open
          BY <1>1, <3>5, <4>1, <4>3, OutIsRefused DEF Enter
        <5> QED
          BY <2>4, <2>6, <3>5, <5>4, <5>5 DEF Enter
      <4> QED
        BY <4>2, <4>3
    <3>6. CASE Login(q)
      <4>1. /\ req[q].pc = "handler" /\ req[q].route = "login"
            /\ UNCHANGED <<conf, now>> /\ req'[q].pc \notin Behind
        BY <2>5, <3>6 DEF Login, In
      <4>2. holds'[c] = holds[c]
        <5>1. CASE req[q].client = c
          <6>1. req[q].shown # None
                /\ req[q].shown.secret \in Knows[c] \cup {None}
            BY <1>1, <4>1, <5>1, RouteKinds DEF IInv, RequestsOK, RequestOK, Behind
          <6>2. conf.password \in Secrets
            BY <2>1 DEF Typed, Config
          <6>3. req[q].shown.secret # conf.password
            BY <1>1, <6>1, <6>2 DEF Out
          <6> QED
            BY <3>6, <6>3 DEF Login
        <5>2. CASE req[q].client # c
          BY <2>1, <3>6, <5>2 DEF Login, Issue
        <5> QED
          BY <5>1, <5>2
      <4> QED
        BY <2>4, <2>6, <4>1, <4>2
    <3>7. CASE Refresh(q)
      <4>1. /\ req[q].pc = "handler" /\ req[q].route = "refresh"
            /\ UNCHANGED <<conf, now>> /\ req'[q].pc \notin Behind
        BY <2>5, <3>7 DEF Refresh, In
      <4>2. req[q].client # c
        BY <1>1, <4>1, RouteKinds DEF Out, Routes
      <4>3. holds'[c] = holds[c]
        BY <2>1, <3>7, <4>2 DEF Refresh, Issue
      <4> QED
        BY <2>4, <2>6, <4>1, <4>3
    <3> QED
      BY <2>6, <3>1, <3>2, <3>3, <3>4, <3>5, <3>6, <3>7 DEF Move, Finish
  <2> QED
    BY <1>1, <2>2, <2>3, <2>6, StepIs
<1>2. IInv /\ [Next]_vars => [\A c \in Clients : Out(c) => Out(c)']_vars
  BY <1>1
<1> QED
  BY <1>2, Inductive, PTL DEF Spec, ExpiredStaysOut
=============================================================================
