------------------------------- MODULE Catalog -------------------------------
(* Provider connections and model routes: the administrators' endpoints of *)
(* mizan-api/src/providers.rs, the listing of models, the resolution of a  *)
(* model by the gateway, and the metering of a request that still holds a  *)
(* route while administrators delete it.  Tasks are suspended at each SQL  *)
(* statement.  The tables keep the constraints of 0001_initial.sql: UNIQUE *)
(* names and models, routes CASCADE with their provider, and a usage event *)
(* must refer to rows that exist.                                          *)
(*                                                                         *)
(* Left out: pagination and formatting of the lists, and the request log.  *)
(* The daemon's part of the listing is in DaemonNodes.  Of a request only  *)
(* what can leave a usage event is kept: whether its wallet and its limits *)
(* allow it is left open, and statements fail only by the constraints of   *)
(* the tables.  The rest of its life is in Gateway.                        *)
EXTENDS Integers, FiniteSets

CONSTANTS
    Providers,   \* ids of provider connections
    NoProvider,  \* none of them
    Names,       \* provider names
    Modes,       \* values of auth_mode
    Routes,      \* ids of model routes
    NoRoute,     \* none of them
    Models,      \* public model names
    Prices,      \* prices an administrator may ask for, per Unit tokens
    Tokens,      \* token counts of an answer
    Admins,      \* administrators' requests in flight
    Requests,    \* gateway requests
    SecretKeys,  \* values of MIZAN_PROVIDER_SECRET_KEY, 0 when it is not set
    Unit,        \* the 1_000_000 tokens of a price
    MaxI64       \* i64::MAX

ASSUME CatalogAssumption ==
    /\ NoProvider \notin Providers /\ NoRoute \notin Routes
    /\ Modes \subseteq {"api_key", "subscription_cli", "browser_session"}
    /\ Prices \subseteq Int /\ Tokens \subseteq Nat
    /\ SecretKeys \subseteq Nat
    /\ Unit \in Nat \ {0} /\ MaxI64 \in Nat

VARIABLES
    secretKey, \* config.provider_secret_key of the running process
    provider,  \* table provider_connections
    route,     \* table model_routes
    admin,     \* what an administrator's request does next, and with what
    refused,   \* history: registrations that were well formed and refused
    pc,        \* where a gateway request is
    held,      \* the route it resolved, with its provider and prices
    usage,     \* table usage_events, with the amount that was charged
    answer     \* the status it was answered with

catalog == <<secretKey, provider, route>>
gateway == <<pc, held, usage, answer>>
vars    == <<catalog, admin, refused, gateway>>

NoSeal == [key |-> 0, of |-> NoProvider]

(* Ids are never used twice: a row is free, then live, then gone.          *)
FreeProvider == [state |-> "free", name |-> "", mode |-> "api_key", enabled |-> FALSE,
                 sealed |-> NoSeal]
FreeRoute == [state |-> "free", provider |-> NoProvider, model |-> "", enabled |-> FALSE,
              input |-> 0, output |-> 0]
NoWork  == [step |-> "idle", provider |-> NoProvider, route |-> NoRoute, row |-> FreeRoute]
Nothing == [route |-> NoRoute, provider |-> NoProvider, input |-> 0, output |-> 0]
NoUsage == [stored |-> FALSE, route |-> NoRoute, provider |-> NoProvider,
            status |-> 0, prompt |-> 0, completion |-> 0, cost |-> 0]

Init ==
    /\ secretKey \in SecretKeys
    /\ provider = [p \in Providers |-> FreeProvider]
    /\ route = [x \in Routes |-> FreeRoute]
    /\ admin = [a \in Admins |-> NoWork]
    /\ refused = {}
    /\ pc = [r \in Requests |-> "idle"]
    /\ held = [r \in Requests |-> Nothing]
    /\ usage = [r \in Requests |-> NoUsage]
    /\ answer = [r \in Requests |-> 0]

LiveProvider(p) == p # NoProvider /\ provider[p].state = "live"
LiveRoute(x)    == x # NoRoute /\ route[x].state = "live"

-----------------------------------------------------------------------------
(* encrypt_provider_api_key and decrypt_provider_api_key: the nonce binds  *)
(* the ciphertext to the connection, and the key to the configuration.     *)
(* Nothing is sealed without a key or without something to seal.           *)
Encrypt(k, p, material) ==
    IF k = 0 \/ ~material THEN NoSeal ELSE [key |-> k, of |-> p]
Decrypts(k, p, sealed) == k # 0 /\ sealed = [key |-> k, of |-> p]

(* create_provider_connection, with a body that passes the checks of its   *)
(* fields.  The material to seal is "" for every mode but api_key.         *)
CreateProvider(a, p) ==
    /\ admin[a].step = "idle" /\ provider[p].state = "free"
    /\ \E n \in Names, mode \in Modes, enabled \in BOOLEAN :
        LET sealed == Encrypt(secretKey, p, mode = "api_key")
            taken  == \E q \in Providers : LiveProvider(q) /\ provider[q].name = n IN
        IF sealed = NoSeal \/ taken
        THEN /\ refused' = IF taken \/ secretKey = 0 THEN refused
                           ELSE refused \cup {mode}
             /\ UNCHANGED <<provider, admin>>
        ELSE /\ provider' = [provider EXCEPT ![p] =
                    [state |-> "live", name |-> n, mode |-> mode, enabled |-> enabled,
                     sealed |-> sealed]]
             /\ admin' = [admin EXCEPT ![a].step = "audit"]
             /\ UNCHANGED refused
    /\ UNCHANGED <<secretKey, route, gateway>>

(* Foreign keys of the tables that refer to a deleted row: ON DELETE       *)
(* CASCADE for routes, SET NULL for usage events.                          *)
Detached(ps, xs) ==
    [r \in Requests |->
        [usage[r] EXCEPT !.provider = IF @ \in ps THEN NoProvider ELSE @,
                         !.route = IF @ \in xs THEN NoRoute ELSE @]]

DeleteProvider(a, p) ==
    LET xs == {x \in Routes : LiveRoute(x) /\ route[x].provider = p} IN
    /\ admin[a].step = "idle" /\ LiveProvider(p)
    /\ provider' = [provider EXCEPT ![p] = [FreeProvider EXCEPT !.state = "gone"]]
    /\ route' = [x \in Routes |-> IF x \in xs THEN [FreeRoute EXCEPT !.state = "gone"]
                                  ELSE route[x]]
    /\ usage' = Detached({p}, xs)
    /\ admin' = [admin EXCEPT ![a].step = "audit"]
    /\ UNCHANGED <<secretKey, refused, pc, held, answer>>

(* Mutant: prices are not checked for their sign.                          *)
CheckRouteAnyPrice(a, x, p) ==
    /\ admin[a].step = "idle"
    /\ route[x].state = "free" /\ \A b \in Admins : admin[b].route # x
    /\ LiveProvider(p) /\ provider[p].enabled
    /\ \E m \in Models, enabled \in BOOLEAN, i, o \in Prices :
        admin' = [admin EXCEPT ![a] =
            [step |-> "insert", provider |-> p, route |-> x,
             row |-> [state |-> "live", provider |-> p, model |-> m, enabled |-> enabled,
                      input |-> i, output |-> o]]]
    /\ UNCHANGED <<catalog, refused, gateway>>

(* create_model_route up to its INSERT: the prices are checked, and an     *)
(* enabled provider is looked up.                                          *)
CheckRoute(a, x, p) ==
    /\ admin[a].step = "idle"
    /\ route[x].state = "free" /\ \A b \in Admins : admin[b].route # x
    /\ LiveProvider(p) /\ provider[p].enabled
    /\ \E m \in Models, enabled \in BOOLEAN, i, o \in Prices :
        /\ i >= 0 /\ o >= 0
        /\ admin' = [admin EXCEPT ![a] =
               [step |-> "insert", provider |-> p, route |-> x,
                row |-> [state |-> "live", provider |-> p, model |-> m, enabled |-> enabled,
                         input |-> i, output |-> o]]]
    /\ UNCHANGED <<catalog, refused, gateway>>

(* Mutant: the lookup of the provider is relied on when the route is       *)
(* inserted.                                                               *)
InsertRouteUnbound(a) ==
    LET x   == admin[a].route
        row == admin[a].row IN
    /\ admin[a].step = "insert"
    /\ IF /\ route[x].state = "free"
          /\ ~ \E y \in Routes : LiveRoute(y) /\ route[y].model = row.model
       THEN /\ route' = [route EXCEPT ![x] = row]
            /\ admin' = [admin EXCEPT ![a] = [NoWork EXCEPT !.step = "audit"]]
       ELSE /\ UNCHANGED route
            /\ admin' = [admin EXCEPT ![a] = NoWork]
    /\ UNCHANGED <<secretKey, provider, refused, gateway>>

(* The INSERT: refused if the model is routed by now, failing on the       *)
(* foreign key if the provider is gone; the id is a new one.               *)
InsertRoute(a) ==
    LET x   == admin[a].route
        row == admin[a].row IN
    /\ admin[a].step = "insert"
    /\ IF /\ route[x].state = "free"
          /\ LiveProvider(row.provider)
          /\ ~ \E y \in Routes : LiveRoute(y) /\ route[y].model = row.model
       THEN /\ route' = [route EXCEPT ![x] = row]
            /\ admin' = [admin EXCEPT ![a] = [NoWork EXCEPT !.step = "audit"]]
       ELSE /\ UNCHANGED route
            /\ admin' = [admin EXCEPT ![a] = NoWork]
    /\ UNCHANGED <<secretKey, provider, refused, gateway>>

DeleteRoute(a, x) ==
    /\ admin[a].step = "idle" /\ LiveRoute(x)
    /\ route' = [route EXCEPT ![x] = [FreeRoute EXCEPT !.state = "gone"]]
    /\ usage' = Detached({}, {x})
    /\ admin' = [admin EXCEPT ![a].step = "audit"]
    /\ UNCHANGED <<secretKey, provider, refused, pc, held, answer>>

(* record_admin_audit, whose failure is only logged, and the answer.       *)
Audit(a) ==
    /\ admin[a].step = "audit"
    /\ admin' = [admin EXCEPT ![a] = NoWork]
    /\ UNCHANGED <<catalog, refused, gateway>>

-----------------------------------------------------------------------------
(* list_public_models and resolve_model_route.                             *)

ListedModels ==
    {route[x].model : x \in {y \in Routes : /\ LiveRoute(y) /\ route[y].enabled
                                            /\ provider[route[y].provider].enabled}}

(* The rows of the gateway's join.                                         *)
Matching(m) ==
    {x \in Routes : /\ LiveRoute(x) /\ route[x].model = m /\ route[x].enabled
                    /\ provider[route[x].provider].enabled}

(* Whether the gateway goes on with route x: its provider is of the mode   *)
(* that can run, and its API key decrypts.                                 *)
Runnable(x) ==
    LET p == route[x].provider IN
    /\ provider[p].mode = "api_key"
    /\ Decrypts(secretKey, p, provider[p].sealed)

(* A request comes in.  Without a matching row it turns to the daemons.    *)
ResolveModelRoute(r, m) ==
    /\ pc[r] = "idle"
    /\ \E x \in Matching(m) :
        IF Runnable(x)
        THEN /\ pc' = [pc EXCEPT ![r] = "call"]
             /\ held' = [held EXCEPT ![r] =
                    [route |-> x, provider |-> route[x].provider,
                     input |-> route[x].input, output |-> route[x].output]]
             /\ UNCHANGED answer
        ELSE /\ pc' = [pc EXCEPT ![r] = "done"]
             /\ answer' = [answer EXCEPT ![r] = 400]
             /\ UNCHANGED held
    /\ UNCHANGED <<catalog, admin, refused, usage>>

-----------------------------------------------------------------------------
(* calculate_usage_charge.                                                 *)

(* The last 64 bits of an i128, read as an i64.                            *)
AsI64(v) == ((v + MaxI64 + 1) % (2 * (MaxI64 + 1))) - (MaxI64 + 1)

(* Mutant: the fraction is dropped.                                        *)
FloorDiv(value, divisor) == value \div divisor

(* The value is never negative, so that \div rounds as Rust's / does.      *)
CeilDiv(value, divisor) ==
    IF value = 0 THEN 0 ELSE (value + divisor - 1) \div divisor

Charge(prompt, completion, price) ==
    AsI64(CeilDiv(prompt * price.input, Unit) + CeilDiv(completion * price.output, Unit))

-----------------------------------------------------------------------------
(* What is recorded of a request that holds a route.                       *)

(* Mutant: usage_events without its foreign keys.                          *)
Unbound(r) == TRUE

(* Its event refers to rows that exist.                                    *)
Bound(r) == LiveRoute(held[r].route) /\ LiveProvider(held[r].provider)

(* How record_usage ends for a request of this outcome, where enough says  *)
(* whether the wallet covers the charge: with a database error, with       *)
(* InsufficientCredit, or well.                                            *)
Verdict(r, status, i, o, enough) ==
    IF ~Bound(r) THEN 500
    ELSE IF status = 200 /\ Charge(i, o, held[r]) > 0 /\ ~enough THEN 402
    ELSE status

(* And what it leaves in the tables.  Only a success is charged.           *)
RecordUsage(r, status, i, o, enough) ==
    LET v == Verdict(r, status, i, o, enough) IN
    usage' = IF v = 500 THEN usage
             ELSE [usage EXCEPT ![r] =
                 [stored |-> TRUE, route |-> held[r].route, provider |-> held[r].provider,
                  status |-> v, prompt |-> i, completion |-> o,
                  cost |-> IF v = 200 /\ Charge(i, o, held[r]) > 0
                           THEN Charge(i, o, held[r]) ELSE 0]]

(* The request is over, with status s unless a stream has already sent its *)
(* headers.                                                                *)
Ends(r, s) ==
    /\ pc' = [pc EXCEPT ![r] = "done"]
    /\ answer' = IF pc[r] = "stream" THEN answer ELSE [answer EXCEPT ![r] = s]
    /\ UNCHANGED <<catalog, admin, refused, held>>

(* The wallet does not cover what the request may cost.  Its event is of   *)
(* the prompt only, and if it cannot be stored that is only logged.        *)
RefuseCredit(r) ==
    /\ pc[r] = "call"
    /\ \E i, o \in Tokens :
        /\ Charge(i, o, held[r]) > 0
        /\ RecordUsage(r, 402, i, 0, FALSE)
    /\ Ends(r, 402)

(* The runtime limits refuse: nothing is recorded.                         *)
RefuseLimit(r) ==
    /\ pc[r] = "call"
    /\ Ends(r, 429)
    /\ UNCHANGED usage

(* The upstream accepts a stream, and the caller gets its headers.         *)
StartStream(r) ==
    /\ pc[r] = "call"
    /\ pc' = [pc EXCEPT ![r] = "stream"]
    /\ answer' = [answer EXCEPT ![r] = 200]
    /\ UNCHANGED <<catalog, admin, refused, held, usage>>

(* The upstream fails, in a stream perhaps after it has sent token counts. *)
(* An event that cannot be stored does not change the answer.              *)
UpstreamFails(r) ==
    /\ pc[r] \in {"call", "stream"}
    /\ \E i, o \in Tokens :
        /\ pc[r] = "call" => o = 0
        /\ RecordUsage(r, 502, i, o, FALSE)
    /\ Ends(r, 502)

(* The upstream has answered, or ended its stream, with its token counts.  *)
(* A failure of record_usage becomes the answer, or an error event in a    *)
(* stream.                                                                 *)
Meter(r) ==
    /\ pc[r] \in {"call", "stream"}
    /\ \E i, o \in Tokens, enough \in BOOLEAN :
        /\ RecordUsage(r, 200, i, o, enough)
        /\ Ends(r, Verdict(r, 200, i, o, enough))

(* The caller disconnects: the handler, or the stream, is dropped where it *)
(* waits.                                                                  *)
Abandon(r) ==
    /\ pc[r] \in {"call", "stream"}
    /\ pc' = [pc EXCEPT ![r] = "left"]
    /\ UNCHANGED <<catalog, admin, refused, held, usage, answer>>

-----------------------------------------------------------------------------
(* The process restarts, perhaps with another secret key.                  *)
Restart(k) ==
    /\ secretKey' = k
    /\ admin' = [a \in Admins |-> NoWork]
    /\ pc' = [r \in Requests |-> IF pc[r] \in {"call", "stream"} THEN "left" ELSE pc[r]]
    /\ UNCHANGED <<provider, route, refused, held, usage, answer>>

Next ==
    \/ \E a \in Admins, p \in Providers : CreateProvider(a, p) \/ DeleteProvider(a, p)
    \/ \E a \in Admins, x \in Routes, p \in Providers : CheckRoute(a, x, p)
    \/ \E a \in Admins : InsertRoute(a) \/ Audit(a)
    \/ \E a \in Admins, x \in Routes : DeleteRoute(a, x)
    \/ \E r \in Requests, m \in Models : ResolveModelRoute(r, m)
    \/ \E r \in Requests :
          \/ RefuseCredit(r) \/ RefuseLimit(r) \/ StartStream(r)
          \/ UpstreamFails(r) \/ Meter(r) \/ Abandon(r)
    \/ \E k \in SecretKeys : Restart(k)

Spec == Init /\ [][Next]_vars

-----------------------------------------------------------------------------
(* Properties.                                                             *)

(* Rows of the two tables.                                                 *)
ProviderRow ==
    [state : {"free", "live", "gone"}, name : Names \cup {""},
     mode : Modes \cup {"api_key"}, enabled : BOOLEAN,
     sealed : [key : SecretKeys \cup {0}, of : Providers \cup {NoProvider}]]
RouteRow ==
    [state : {"free", "live", "gone"}, provider : Providers \cup {NoProvider},
     model : Models \cup {""}, enabled : BOOLEAN, input : Int, output : Int]

(* Where a request is, and what it is answered with.                       *)
Places  == {"idle", "call", "stream", "done", "left"}
Answers == {0, 200, 400, 402, 429, 500, 502}

(* Shape of the state.                                                     *)
TypeOK ==
    /\ secretKey \in SecretKeys
    /\ provider \in [Providers -> ProviderRow]
    /\ route \in [Routes -> RouteRow]
    /\ \A x \in Routes : LiveRoute(x) => route[x].provider \in Providers
    /\ pc \in [Requests -> Places]
    /\ answer \in [Requests -> Answers]

(* What GET /v1/models lists from the routes is what the gateway finds,    *)
(* with exactly one route for each model; no route outlives its provider,  *)
(* however the deletion of one and the creation of the other interleave;   *)
(* and a request for a listed model is served unless the secret key of the *)
(* process is not the one under which the provider's API key was sealed.   *)
ListedResolves ==
    /\ \A m \in Models : m \in ListedModels <=> Cardinality(Matching(m)) = 1
    /\ \A x \in Routes : LiveRoute(x) => LiveProvider(route[x].provider)
    /\ \A m \in Models : \A x \in Matching(m) :
           ~Runnable(x) => provider[route[x].provider].sealed.key # secretKey

(* A request that resolved a route and was neither refused by the limits   *)
(* nor abandoned leaves a usage event, however it ended, unless its route  *)
(* was deleted while it ran; and its event, however late or early the      *)
(* deletion, refers to the route and the provider exactly as long as they  *)
(* exist.                                                                  *)
EventUnlessDeleted ==
    \A r \in Requests :
        pc[r] = "done" /\ held[r].route # NoRoute /\ answer[r] # 429 =>
            IF usage[r].stored
            THEN /\ usage[r].route =
                       IF LiveRoute(held[r].route) THEN held[r].route ELSE NoRoute
                 /\ usage[r].provider =
                       IF LiveProvider(held[r].provider) THEN held[r].provider ELSE NoProvider
            ELSE route[held[r].route].state = "gone"

(* The least whole number of microcredits that covers tokens at a price.   *)
LeastCover(tokens, price) ==
    CHOOSE n \in 0 .. tokens * price :
        /\ n * Unit >= tokens * price
        /\ \A k \in 0 .. n - 1 : k * Unit < tokens * price

(* A request that succeeded is charged the least amount that covers its    *)
(* prompt and the least that covers its completion, at the prices its      *)
(* route had when it was resolved, whatever became of the route; never a   *)
(* negative amount.  This holds as long as the amount fits in an i64.      *)
ChargedExactly ==
    \A r \in Requests : usage[r].stored /\ usage[r].status = 200 =>
        /\ held[r].input >= 0 /\ held[r].output >= 0
        /\ LET exact == LeastCover(usage[r].prompt, held[r].input)
                        + LeastCover(usage[r].completion, held[r].output) IN
           exact <= MaxI64 => usage[r].cost = exact

(* A well-formed registration of any auth mode is accepted while the       *)
(* process has its secret key and the name is free.                        *)
RegistrationAccepted == refused = {}
=============================================================================
