---------------------------- MODULE CatalogProofs ----------------------------
(***************************************************************************)
(* Proofs about Catalog, for any number of providers, routes,              *)
(* administrators and requests, every set of prices, token counts and      *)
(* secret keys, and every width of the amounts.                            *)
(***************************************************************************)
EXTENDS Catalog, TLAPS, FiniteSetTheorems

Work ==
    [step : {"idle", "insert", "audit"}, provider : Providers \cup {NoProvider},
     route : Routes \cup {NoRoute}, row : RouteRow]
Resolved ==
    [route : Routes \cup {NoRoute}, provider : Providers \cup {NoProvider},
     input : Int, output : Int]
UsageRow ==
    [stored : BOOLEAN, route : Routes \cup {NoRoute}, provider : Providers \cup {NoProvider},
     status : Answers, prompt : Nat, completion : Nat, cost : Int]

LocalTypes ==
    /\ admin \in [Admins -> Work]
    /\ held \in [Requests -> Resolved]
    /\ usage \in [Requests -> UsageRow]

(* A provider that is registered can be called: its API key was sealed for *)
(* it, under some key.                                                     *)
SealedOK == \A p \in Providers : LiveProvider(p) =>
    /\ provider[p].mode = "api_key"
    /\ provider[p].sealed.key # 0 /\ provider[p].sealed.of = p

(* A route has its provider, and prices that are not negative.             *)
RoutesOK == \A x \in Routes : LiveRoute(x) =>
    /\ route[x].provider \in Providers /\ LiveProvider(route[x].provider)
    /\ route[x].model \in Models
    /\ route[x].input >= 0 /\ route[x].output >= 0

(* A model has one route.                                                  *)
UniqueOK == \A x, y \in Routes :
    LiveRoute(x) /\ LiveRoute(y) /\ route[x].model = route[y].model => x = y

(* The row an administrator is about to insert.                            *)
WorkOK(a) == admin[a].step = "insert" =>
    /\ admin[a].route \in Routes
    /\ admin[a].row.state = "live" /\ admin[a].row.provider \in Providers
    /\ admin[a].row.model \in Models
    /\ admin[a].row.input >= 0 /\ admin[a].row.output >= 0

(* A request has nothing stored before it is metered, and is charged by    *)
(* the prices it holds.                                                    *)
RequestOK(r) ==
    /\ pc[r] \in {"idle", "call", "stream"} => ~usage[r].stored
    /\ pc[r] = "idle" => held[r].route = NoRoute
    /\ pc[r] \in {"call", "stream"} => held[r].route # NoRoute
    /\ held[r].route # NoRoute =>
           /\ held[r].route \in Routes /\ held[r].provider \in Providers
           /\ held[r].input >= 0 /\ held[r].output >= 0
    /\ usage[r].stored => held[r].route # NoRoute
    /\ usage[r].stored /\ usage[r].status = 200 =>
           LET charge == Charge(usage[r].prompt, usage[r].completion, held[r]) IN
           usage[r].cost = IF charge > 0 THEN charge ELSE 0

(* What a row of usage_events refers to, for a request that held h.        *)
RefersOK(u, h) ==
    /\ u.route = IF LiveRoute(h.route) THEN h.route ELSE NoRoute
    /\ u.provider = IF LiveProvider(h.provider) THEN h.provider ELSE NoProvider

(* The rows a request holds exist, or did; they belong together as long as *)
(* they exist.  Its event refers to them, and is only missing if the route *)
(* is gone.                                                                *)
LinkOK(r) == held[r].route # NoRoute =>
    /\ route[held[r].route].state # "free" /\ provider[held[r].provider].state # "free"
    /\ LiveRoute(held[r].route) => route[held[r].route].provider = held[r].provider
    /\ usage[r].stored => RefersOK(usage[r], held[r])
    /\ pc[r] = "done" /\ answer[r] # 429 /\ ~usage[r].stored =>
           route[held[r].route].state = "gone"

CatalogInv ==
    /\ TypeOK
    /\ LocalTypes
    /\ SealedOK
    /\ RoutesOK
    /\ UniqueOK
    /\ \A a \in Admins : WorkOK(a)
    /\ \A r \in Requests : RequestOK(r)
    /\ \A r \in Requests : LinkOK(r)

-----------------------------------------------------------------------------
(* Arithmetic of calculate_usage_charge.                                   *)

(* Rounding up: the quotient covers the value, and one less does not.      *)
LEMMA CeilCovers ==
    ASSUME NEW v \in Nat, NEW u \in Nat \ {0}
    PROVE  /\ CeilDiv(v, u) \in 0 .. v
           /\ CeilDiv(v, u) * u >= v
           /\ \A k \in 0 .. CeilDiv(v, u) - 1 : k * u < v
<1>1. CASE v = 0
  BY <1>1 DEF CeilDiv
<1>2. CASE v # 0
  <2> DEFINE c == (v + u - 1) \div u
  <2>1. CeilDiv(v, u) = c
    BY <1>2 DEF CeilDiv
  <2>2. v + u - 1 \in Nat
    OBVIOUS
  <2>3. c \in Nat /\ u * c <= v + u - 1 /\ v + u - 1 < u * c + u
    BY <2>2
  <2> HIDE DEF c
  <2>4. c * u = u * c /\ c * u \in Nat
    BY <2>3
  <2>5. \A k \in 0 .. c - 1 : k * u <= (c - 1) * u
    BY <2>3
  <2>6. (c - 1) * u = c * u - u
    BY <2>3
  <2>7. c <= v
    <3>1. SUFFICES ASSUME c >= v + 1 PROVE FALSE
      BY <2>3
    <3>2. c * u >= (v + 1) * u /\ (v + 1) * u = v * u + u /\ v * u >= v
      BY <2>3, <3>1
    <3>3. QED
      BY <2>3, <2>4, <3>2
  <2>8. \A k \in 0 .. c - 1 : k * u < v
    <3>1. TAKE k \in 0 .. c - 1
    <3>2. k * u \in Int /\ k * u <= c * u - u
      BY <2>3, <2>5, <2>6
    <3>3. QED
      BY <2>3, <2>4, <3>2
  <2>9. QED
    BY <2>1, <2>3, <2>4, <2>7, <2>8
<1>3. QED
  BY <1>1, <1>2

(* An amount that fits is kept by the conversion.                          *)
LEMMA FitsI64 ==
    ASSUME NEW v \in 0 .. MaxI64
    PROVE  AsI64(v) = v
<1>1. MaxI64 \in Nat
  BY CatalogAssumption
<1>2. ASSUME NEW a \in Nat, NEW b \in Nat, a < b PROVE a % b = a
  BY <1>2
<1>3. (v + MaxI64 + 1) % (2 * (MaxI64 + 1)) = v + MaxI64 + 1
  BY <1>1, <1>2
<1>4. QED
  BY <1>1, <1>3 DEF AsI64

(* Rounding up finds the least amount that covers.                         *)
LEMMA CeilIsLeast ==
    ASSUME NEW t \in Nat, NEW p \in Nat
    PROVE  LeastCover(t, p) = CeilDiv(t * p, Unit)
<1> DEFINE v    == t * p
           c    == CeilDiv(v, Unit)
           P(n) == n * Unit >= v /\ \A k \in 0 .. n - 1 : k * Unit < v
<1>1. v \in Nat /\ Unit \in Nat \ {0}
  BY CatalogAssumption
<1>2. c \in 0 .. v /\ P(c)
  BY <1>1, CeilCovers
<1>3. LeastCover(t, p) = CHOOSE n \in 0 .. v : P(n)
  BY DEF LeastCover
<1> HIDE DEF v, c
<1>4. ASSUME NEW n \in 0 .. v, P(n) PROVE n = c
  <2>1. n \in Nat /\ c \in Nat /\ n * Unit \in Nat /\ c * Unit \in Nat
    BY <1>1, <1>2
  <2>2. ~(n < c)
    <3>1. n < c => n \in 0 .. c - 1
      BY <2>1
    <3>2. QED
      BY <1>1, <1>2, <1>4, <2>1, <3>1
  <2>3. ~(c < n)
    <3>1. c < n => c \in 0 .. n - 1
      BY <2>1
    <3>2. QED
      BY <1>1, <1>2, <1>4, <2>1, <3>1
  <2>4. QED
    BY <2>1, <2>2, <2>3
<1> HIDE DEF P
<1>5. (CHOOSE n \in 0 .. v : P(n)) = c
  BY <1>2, <1>4
<1>6. QED
  BY <1>3, <1>5 DEF v, c

(* A charge is a whole number.                                             *)
LEMMA ChargeType ==
    ASSUME NEW i \in Nat, NEW o \in Nat, NEW price \in Resolved
    PROVE  Charge(i, o, price) \in Int
<1>1. Unit \in Nat \ {0} /\ MaxI64 \in Nat /\ price.input \in Int /\ price.output \in Int
  BY CatalogAssumption DEF Resolved
<1>2. i * price.input \in Int /\ o * price.output \in Int
  BY <1>1
<1>3. \A v \in Int : CeilDiv(v, Unit) \in Int
  BY <1>1 DEF CeilDiv
<1>4. \A v \in Int : AsI64(v) \in Int
  BY <1>1 DEF AsI64
<1>5. CeilDiv(i * price.input, Unit) + CeilDiv(o * price.output, Unit) \in Int
  BY <1>2, <1>3
<1>6. QED
  BY <1>4, <1>5 DEF Charge

-----------------------------------------------------------------------------
(* The empty rows are rows.                                                *)
LEMMA FreeRows ==
    /\ FreeProvider \in ProviderRow /\ FreeRoute \in RouteRow
    /\ [FreeRoute EXCEPT !.state = "gone"] \in RouteRow
    /\ [FreeRoute EXCEPT !.state = "gone"].state = "gone"
<1>1. FreeProvider \in ProviderRow
  BY DEF FreeProvider, NoSeal, ProviderRow
<1>2. FreeRoute \in RouteRow
  BY DEF FreeRoute, RouteRow
<1>3. QED
  BY <1>1, <1>2 DEF RouteRow

(* The initial state.                                                      *)
LEMMA InitInv == Init => CatalogInv
<1>1. SUFFICES ASSUME Init PROVE CatalogInv
  OBVIOUS
<1>2. FreeProvider \in ProviderRow
  BY FreeRows
<1>3. FreeRoute \in RouteRow
  BY FreeRows
<1>4. NoWork \in Work
  BY <1>3 DEF NoWork, Work
<1>5. Nothing \in Resolved /\ NoUsage \in UsageRow
  BY DEF Nothing, Resolved, NoUsage, UsageRow, Answers
<1>6. /\ \A p \in Providers : provider[p].state = "free"
      /\ \A x \in Routes : route[x].state = "free"
  BY <1>1 DEF Init, FreeProvider, FreeRoute
<1>7. TypeOK
  BY <1>1, <1>2, <1>3, <1>6 DEF Init, TypeOK, LiveRoute, Places, Answers
<1>8. LocalTypes
  BY <1>1, <1>4, <1>5 DEF Init, LocalTypes
<1>9. SealedOK /\ RoutesOK /\ UniqueOK
  BY <1>6 DEF SealedOK, RoutesOK, UniqueOK, LiveProvider, LiveRoute
<1>10. \A a \in Admins : WorkOK(a)
  BY <1>1 DEF Init, WorkOK, NoWork
<1>11. ASSUME NEW r \in Requests PROVE RequestOK(r) /\ LinkOK(r)
  <2>1. pc[r] = "idle" /\ held[r].route = NoRoute /\ ~usage[r].stored
    BY <1>1 DEF Init, NoUsage, Nothing
  <2>2. QED
    BY <2>1 DEF RequestOK, LinkOK
<1>12. QED
  BY <1>7, <1>8, <1>9, <1>10, <1>11 DEF CatalogInv

-----------------------------------------------------------------------------
(* What the parts of the invariant depend on.                              *)

(* Rows that were taken into use keep what they are.                       *)
TablesGrow ==
    /\ \A x \in Routes : route[x].state # "free" => route'[x] = route[x]
    /\ \A p \in Providers : provider[p].state # "free" => provider'[p] = provider[p]

(* What a request refers to when the tables only grow.                     *)
LEMMA LinkKept ==
    ASSUME CatalogInv, TablesGrow, NEW r \in Requests,
           held'[r] = held[r], usage'[r] = usage[r], answer'[r] = answer[r],
           pc'[r] = pc[r] \/ pc'[r] = "left"
    PROVE  LinkOK(r)'
<1>1. SUFFICES ASSUME held[r].route # NoRoute PROVE LinkOK(r)'
  BY DEF LinkOK
<1> DEFINE x == held[r].route
           p == held[r].provider
<1>2. x \in Routes /\ p \in Providers
  BY <1>1 DEF CatalogInv, RequestOK
<1>3. /\ route[x].state # "free" /\ provider[p].state # "free"
      /\ LiveRoute(x) => route[x].provider = p
      /\ usage[r].stored => RefersOK(usage[r], held[r])
      /\ pc[r] = "done" /\ answer[r] # 429 /\ ~usage[r].stored => route[x].state = "gone"
  BY <1>1 DEF CatalogInv, LinkOK
<1>4. route'[x] = route[x] /\ provider'[p] = provider[p]
  BY <1>2, <1>3 DEF TablesGrow
<1>5. (LiveRoute(x)' <=> LiveRoute(x)) /\ (LiveProvider(p)' <=> LiveProvider(p))
  BY <1>4 DEF LiveRoute, LiveProvider
<1>6. usage[r].stored => RefersOK(usage[r], held[r])'
  BY <1>3, <1>5 DEF RefersOK
<1>7. QED
  BY <1>3, <1>4, <1>5, <1>6 DEF LinkOK

(* A step that leaves the requests' rows alone.                            *)
LEMMA RequestsKept ==
    ASSUME CatalogInv, UNCHANGED gateway
    PROVE  /\ \A r \in Requests : RequestOK(r)'
           /\ TablesGrow => \A r \in Requests : LinkOK(r)'
           /\ held' \in [Requests -> Resolved] /\ usage' \in [Requests -> UsageRow]
           /\ pc' \in [Requests -> Places]
           /\ answer' \in [Requests -> Answers]
<1>1. UNCHANGED <<pc, held, usage, answer>>
  BY DEF gateway
<1>2. ASSUME NEW r \in Requests PROVE RequestOK(r)'
  BY <1>1 DEF CatalogInv, RequestOK
<1>3. QED
  BY <1>1, <1>2, LinkKept DEF CatalogInv, LocalTypes, TypeOK

(* A row of usage_events that loses a reference keeps the rest.            *)
LEMMA DetachedKept ==
    ASSUME CatalogInv, NEW ps, NEW xs, usage' = Detached(ps, xs), UNCHANGED <<pc, held, answer>>
    PROVE  /\ \A r \in Requests : RequestOK(r)'
           /\ held' \in [Requests -> Resolved] /\ usage' \in [Requests -> UsageRow]
           /\ pc' \in [Requests -> Places]
           /\ answer' \in [Requests -> Answers]
<1>1. ASSUME NEW r \in Requests
      PROVE  /\ usage'[r] \in UsageRow
             /\ usage'[r].stored = usage[r].stored /\ usage'[r].prompt = usage[r].prompt
             /\ usage'[r].completion = usage[r].completion /\ usage'[r].cost = usage[r].cost
             /\ usage'[r].status = usage[r].status
  <2>1. usage[r] \in UsageRow
    BY DEF CatalogInv, LocalTypes
  <2>2. usage'[r] = [usage[r] EXCEPT
            !.provider = IF usage[r].provider \in ps THEN NoProvider ELSE usage[r].provider,
            !.route = IF usage[r].route \in xs THEN NoRoute ELSE usage[r].route]
    BY DEF Detached
  <2>3. QED
    BY <2>1, <2>2 DEF UsageRow
<1>2. usage' \in [Requests -> UsageRow]
  <2>1. usage' = [r \in Requests |-> usage'[r]]
    BY DEF Detached
  <2>2. QED
    BY <1>1, <2>1
<1>3. ASSUME NEW r \in Requests PROVE RequestOK(r)'
  <2>1. RequestOK(r)
    BY DEF CatalogInv
  <2>2. QED
    BY <1>1, <2>1 DEF RequestOK
<1>4. QED
  BY <1>2, <1>3 DEF CatalogInv, LocalTypes, TypeOK

(* The rows that are deleted leave the events that referred to them.       *)
LEMMA DetachedLinks ==
    ASSUME CatalogInv, NEW ps \in SUBSET Providers, NEW xs \in SUBSET Routes,
           usage' = Detached(ps, xs), UNCHANGED <<pc, held, answer>>,
           \A x \in Routes : IF x \in xs THEN route'[x].state = "gone" ELSE route'[x] = route[x],
           \A p \in Providers : IF p \in ps THEN provider'[p].state = "gone"
                                ELSE provider'[p] = provider[p]
    PROVE  \A r \in Requests : LinkOK(r)'
<1>1. SUFFICES ASSUME NEW r \in Requests, held[r].route # NoRoute PROVE LinkOK(r)'
  BY DEF LinkOK
<1> DEFINE x == held[r].route
           p == held[r].provider
<1>2. x \in Routes /\ p \in Providers /\ x # NoRoute /\ p # NoProvider
  BY <1>1, CatalogAssumption DEF CatalogInv, RequestOK
<1>3. /\ route[x].state # "free" /\ provider[p].state # "free"
      /\ LiveRoute(x) => route[x].provider = p
      /\ usage[r].stored => RefersOK(usage[r], held[r])
      /\ pc[r] = "done" /\ answer[r] # 429 /\ ~usage[r].stored => route[x].state = "gone"
  BY <1>1 DEF CatalogInv, LinkOK
<1>4. /\ x \in xs => route'[x].state = "gone"
      /\ x \notin xs => route'[x] = route[x]
      /\ p \in ps => provider'[p].state = "gone"
      /\ p \notin ps => provider'[p] = provider[p]
  BY <1>2
<1>5. /\ usage'[r].stored = usage[r].stored
      /\ usage'[r].route = IF usage[r].route \in xs THEN NoRoute ELSE usage[r].route
      /\ usage'[r].provider = IF usage[r].provider \in ps THEN NoProvider ELSE usage[r].provider
  <2>1. usage[r] \in UsageRow
    BY DEF CatalogInv, LocalTypes
  <2>2. usage'[r] = [usage[r] EXCEPT
            !.provider = IF usage[r].provider \in ps THEN NoProvider ELSE usage[r].provider,
            !.route = IF usage[r].route \in xs THEN NoRoute ELSE usage[r].route]
    BY DEF Detached
  <2>3. QED
    BY <2>1, <2>2 DEF UsageRow
<1>6. /\ LiveRoute(x)' <=> LiveRoute(x) /\ x \notin xs
      /\ LiveProvider(p)' <=> LiveProvider(p) /\ p \notin ps
  BY <1>2, <1>4 DEF LiveRoute, LiveProvider
<1>7. usage[r].stored => RefersOK(usage[r], held[r])'
  BY <1>2, <1>3, <1>5, <1>6, CatalogAssumption DEF RefersOK
<1>8. route'[x].state # "free" /\ provider'[p].state # "free"
  BY <1>3, <1>4
<1>9. /\ LiveRoute(x)' => route'[x].provider = p
      /\ pc[r] = "done" /\ answer[r] # 429 /\ ~usage[r].stored => route'[x].state = "gone"
  BY <1>3, <1>4, <1>6
<1>10. QED
  BY <1>5, <1>7, <1>8, <1>9 DEF LinkOK

(* Tables that do not change.                                              *)
LEMMA TablesKept ==
    ASSUME CatalogInv, UNCHANGED <<provider, route>>
    PROVE  /\ SealedOK' /\ RoutesOK' /\ UniqueOK' /\ TablesGrow
           /\ /\ secretKey' \in SecretKeys
              /\ pc' \in [Requests -> Places]
              /\ answer' \in [Requests -> Answers]
              => TypeOK'
<1>1. SealedOK'
  BY DEF CatalogInv, SealedOK, LiveProvider
<1>2. RoutesOK'
  BY DEF CatalogInv, RoutesOK, LiveProvider, LiveRoute
<1>3. UniqueOK'
  BY DEF CatalogInv, UniqueOK, LiveRoute
<1>4. /\ provider' \in [Providers -> ProviderRow] /\ route' \in [Routes -> RouteRow]
      /\ \A x \in Routes : LiveRoute(x)' => route'[x].provider \in Providers
  BY DEF CatalogInv, TypeOK, LiveRoute
<1>5. TablesGrow
  BY DEF TablesGrow
<1>6. QED
  BY <1>1, <1>2, <1>3, <1>4, <1>5 DEF TypeOK

(* An administrator's request that is over, or has only its audit left.    *)
LEMMA WorkDone ==
    ASSUME CatalogInv, NEW a \in Admins,
           \/ admin' = [admin EXCEPT ![a].step = "audit"]
           \/ admin' = [admin EXCEPT ![a] = [NoWork EXCEPT !.step = "audit"]]
           \/ admin' = [admin EXCEPT ![a] = NoWork]
           \/ UNCHANGED admin
    PROVE  admin' \in [Admins -> Work] /\ \A b \in Admins : WorkOK(b)'
<1>1. admin \in [Admins -> Work] /\ \A b \in Admins : WorkOK(b)
  BY DEF CatalogInv, LocalTypes
<1>2. /\ NoWork \in Work /\ NoWork.step # "insert"
      /\ [NoWork EXCEPT !.step = "audit"] \in Work
      /\ [NoWork EXCEPT !.step = "audit"].step # "insert"
  BY FreeRows DEF NoWork, Work
<1>3. CASE UNCHANGED admin
  BY <1>1, <1>3 DEF WorkOK
<1>4. ASSUME NEW w \in Work, w.step # "insert", admin' = [admin EXCEPT ![a] = w]
      PROVE  admin' \in [Admins -> Work] /\ \A b \in Admins : WorkOK(b)'
  BY <1>1, <1>4 DEF WorkOK
<1>5. CASE admin' = [admin EXCEPT ![a].step = "audit"]
  <2>1. /\ [admin[a] EXCEPT !.step = "audit"] \in Work
        /\ [admin[a] EXCEPT !.step = "audit"].step # "insert"
    BY <1>1 DEF Work
  <2>2. admin' = [admin EXCEPT ![a] = [admin[a] EXCEPT !.step = "audit"]]
    BY <1>5
  <2>3. QED
    BY <1>4, <2>1, <2>2
<1>6. QED
  BY <1>2, <1>3, <1>4, <1>5

-----------------------------------------------------------------------------
(* The administrators' steps.                                              *)

(* create_provider_connection: what is registered was sealed.              *)
LEMMA CreateProviderInv ==
    ASSUME CatalogInv, NEW a \in Admins, NEW p \in Providers, CreateProvider(a, p)
    PROVE  CatalogInv'
<1>1. /\ provider \in [Providers -> ProviderRow] /\ secretKey \in SecretKeys
      /\ provider[p].state = "free"
      /\ UNCHANGED <<secretKey, route, gateway>> /\ p # NoProvider
  BY CatalogAssumption DEF CatalogInv, TypeOK, CreateProvider
<1>2. CASE UNCHANGED <<provider, admin>>
  BY <1>1, <1>2, RequestsKept, TablesKept, WorkDone DEF CatalogInv, TypeOK, LocalTypes
<1>3. ASSUME NEW n \in Names, NEW mode \in Modes, NEW enabled \in BOOLEAN, NEW sealed,
             sealed = Encrypt(secretKey, p, mode = "api_key"), sealed # NoSeal,
             provider' = [provider EXCEPT ![p] =
                 [state |-> "live", name |-> n, mode |-> mode, enabled |-> enabled,
                  sealed |-> sealed]],
             admin' = [admin EXCEPT ![a].step = "audit"]
      PROVE  CatalogInv'
  <2>1. mode = "api_key" /\ secretKey # 0 /\ sealed = [key |-> secretKey, of |-> p]
    BY <1>3 DEF Encrypt
  <2> DEFINE row == [state |-> "live", name |-> n, mode |-> mode, enabled |-> enabled,
                     sealed |-> sealed]
  <2>2. /\ row \in ProviderRow /\ row.state = "live" /\ row.mode = "api_key"
        /\ row.sealed.key # 0 /\ row.sealed.of = p
    BY <1>1, <2>1 DEF ProviderRow
  <2>3. provider' = [provider EXCEPT ![p] = row]
    BY <1>3
  <2> HIDE DEF row
  <2>4. /\ provider' \in [Providers -> ProviderRow] /\ provider'[p] = row
        /\ \A q \in Providers \ {p} : provider'[q] = provider[q]
    BY <1>1, <2>2, <2>3
  <2>5. SealedOK'
    BY <2>2, <2>4 DEF CatalogInv, SealedOK, LiveProvider
  <2>6. RoutesOK' /\ UniqueOK'
    <3>1. \A q \in Providers : LiveProvider(q) => LiveProvider(q)'
      BY <2>2, <2>4 DEF LiveProvider
    <3>2. QED
      BY <1>1, <3>1 DEF CatalogInv, RoutesOK, UniqueOK, LiveRoute
  <2>7. TypeOK'
    BY <1>1, <2>4, RequestsKept DEF CatalogInv, TypeOK, LiveRoute
  <2>8. TablesGrow
    BY <1>1, <2>4 DEF TablesGrow
  <2>9. QED
    BY <1>1, <1>3, <2>5, <2>6, <2>7, <2>8, RequestsKept, WorkDone DEF CatalogInv, LocalTypes
<1>4. PICK n \in Names, mode \in Modes, enabled \in BOOLEAN :
          LET sealed == Encrypt(secretKey, p, mode = "api_key")
              taken  == \E q \in Providers : LiveProvider(q) /\ provider[q].name = n IN
          IF sealed = NoSeal \/ taken
          THEN UNCHANGED <<provider, admin>>
          ELSE /\ provider' = [provider EXCEPT ![p] =
                      [state |-> "live", name |-> n, mode |-> mode, enabled |-> enabled,
                       sealed |-> sealed]]
               /\ admin' = [admin EXCEPT ![a].step = "audit"]
  BY DEF CreateProvider
<1>5. QED
  BY <1>2, <1>3, <1>4

(* A route that is deleted leaves the others as they are.                  *)
LEMMA RoutesGone ==
    ASSUME CatalogInv, NEW xs \in SUBSET Routes,
           route' = [x \in Routes |-> IF x \in xs THEN [FreeRoute EXCEPT !.state = "gone"]
                                      ELSE route[x]]
    PROVE  /\ route' \in [Routes -> RouteRow]
           /\ \A x \in Routes : LiveRoute(x)' => LiveRoute(x) /\ x \notin xs /\ route'[x] = route[x]
           /\ \A x \in Routes :
                  IF x \in xs THEN route'[x].state = "gone" ELSE route'[x] = route[x]
<1>1. [FreeRoute EXCEPT !.state = "gone"] \in RouteRow
      /\ [FreeRoute EXCEPT !.state = "gone"].state = "gone"
  BY FreeRows
<1>2. route \in [Routes -> RouteRow]
  BY DEF CatalogInv, TypeOK
<1> DEFINE gone == [FreeRoute EXCEPT !.state = "gone"]
<1>3. route' = [x \in Routes |-> IF x \in xs THEN gone ELSE route[x]]
  OBVIOUS
<1> HIDE DEF gone
<1>4. gone \in RouteRow /\ gone.state = "gone"
  BY <1>1 DEF gone
<1>5. QED
  BY <1>2, <1>3, <1>4 DEF LiveRoute

(* delete_provider_connection takes the provider's routes with it.         *)
LEMMA DeleteProviderInv ==
    ASSUME CatalogInv, NEW a \in Admins, NEW p \in Providers, DeleteProvider(a, p)
    PROVE  CatalogInv'
<1> DEFINE xs == {x \in Routes : LiveRoute(x) /\ route[x].provider = p}
           gone == [FreeProvider EXCEPT !.state = "gone"]
<1>1. /\ provider' = [provider EXCEPT ![p] = gone]
      /\ route' = [x \in Routes |-> IF x \in xs THEN [FreeRoute EXCEPT !.state = "gone"] ELSE route[x]]
      /\ usage' = Detached({p}, xs) /\ admin' = [admin EXCEPT ![a].step = "audit"]
      /\ UNCHANGED <<secretKey, pc, held, answer>>
      /\ provider \in [Providers -> ProviderRow] /\ secretKey \in SecretKeys
  BY DEF DeleteProvider, CatalogInv, TypeOK
<1>2. gone \in ProviderRow /\ gone.state = "gone"
  BY DEF FreeProvider, NoSeal, ProviderRow
<1> HIDE DEF gone
<1>3. /\ provider' \in [Providers -> ProviderRow] /\ provider'[p].state = "gone"
      /\ \A q \in Providers \ {p} : provider'[q] = provider[q]
  BY <1>1, <1>2
<1>4. /\ route' \in [Routes -> RouteRow]
      /\ \A x \in Routes : LiveRoute(x)' => LiveRoute(x) /\ x \notin xs /\ route'[x] = route[x]
      /\ \A x \in Routes :
             IF x \in xs THEN route'[x].state = "gone" ELSE route'[x] = route[x]
  BY <1>1, RoutesGone
<1>5. SealedOK'
  BY <1>3 DEF CatalogInv, SealedOK, LiveProvider
<1>6. RoutesOK'
  <2>1. SUFFICES ASSUME NEW x \in Routes, LiveRoute(x)'
                 PROVE  /\ route'[x].provider \in Providers /\ LiveProvider(route[x].provider)'
                        /\ route'[x].model \in Models
                        /\ route'[x].input >= 0 /\ route'[x].output >= 0
    BY DEF RoutesOK
  <2>2. LiveRoute(x) /\ route[x].provider # p /\ route'[x] = route[x]
    BY <1>4, <2>1
  <2>3. QED
    BY <1>3, <2>2 DEF CatalogInv, RoutesOK, LiveProvider
<1>7. UniqueOK'
  BY <1>4 DEF CatalogInv, UniqueOK
<1>8. /\ \A r \in Requests : RequestOK(r)'
      /\ held' \in [Requests -> Resolved] /\ usage' \in [Requests -> UsageRow]
      /\ pc' \in [Requests -> Places]
      /\ answer' \in [Requests -> Answers]
  BY <1>1, DetachedKept
<1>9. admin' \in [Admins -> Work] /\ \A b \in Admins : WorkOK(b)'
  BY <1>1, WorkDone
<1>10. TypeOK'
  BY <1>1, <1>3, <1>4, <1>6, <1>8 DEF TypeOK, RoutesOK
<1>11. \A r \in Requests : LinkOK(r)'
  <2> HIDE DEF xs
  <2>1. xs \in SUBSET Routes
    BY DEF xs
  <2>2. QED
    BY <1>1, <1>3, <1>4, <2>1, DetachedLinks
<1>12. QED
  BY <1>5, <1>6, <1>7, <1>8, <1>9, <1>10, <1>11 DEF CatalogInv, LocalTypes

(* delete_model_route.                                                     *)
LEMMA DeleteRouteInv ==
    ASSUME CatalogInv, NEW a \in Admins, NEW x \in Routes, DeleteRoute(a, x)
    PROVE  CatalogInv'
<1>1. /\ route \in [Routes -> RouteRow] /\ secretKey \in SecretKeys
      /\ route' = [route EXCEPT ![x] = [FreeRoute EXCEPT !.state = "gone"]]
      /\ usage' = Detached({}, {x}) /\ admin' = [admin EXCEPT ![a].step = "audit"]
      /\ UNCHANGED <<secretKey, provider, pc, held, answer>>
  BY DEF DeleteRoute, CatalogInv, TypeOK
<1>2. route' = [y \in Routes |-> IF y \in {x} THEN [FreeRoute EXCEPT !.state = "gone"] ELSE route[y]]
  BY <1>1
<1>3. /\ route' \in [Routes -> RouteRow]
      /\ \A y \in Routes : LiveRoute(y)' => LiveRoute(y) /\ route'[y] = route[y]
      /\ \A y \in Routes :
             IF y \in {x} THEN route'[y].state = "gone" ELSE route'[y] = route[y]
  BY <1>2, RoutesGone
<1>4. SealedOK' /\ UniqueOK'
  BY <1>1, <1>3 DEF CatalogInv, SealedOK, LiveProvider, UniqueOK
<1>5. RoutesOK'
  BY <1>1, <1>3 DEF CatalogInv, RoutesOK, LiveProvider
<1>6. /\ \A r \in Requests : RequestOK(r)'
      /\ held' \in [Requests -> Resolved] /\ usage' \in [Requests -> UsageRow]
      /\ pc' \in [Requests -> Places]
      /\ answer' \in [Requests -> Answers]
  BY <1>1, DetachedKept
<1>7. admin' \in [Admins -> Work] /\ \A b \in Admins : WorkOK(b)'
  BY <1>1, WorkDone
<1>8. TypeOK'
  BY <1>1, <1>3, <1>5, <1>6 DEF CatalogInv, TypeOK, RoutesOK
<1>9. \A r \in Requests : LinkOK(r)'
  BY <1>1, <1>3, DetachedLinks
<1>10. QED
  BY <1>4, <1>5, <1>6, <1>7, <1>8, <1>9 DEF CatalogInv, LocalTypes

(* create_model_route up to its INSERT.                                    *)
LEMMA CheckRouteInv ==
    ASSUME CatalogInv, NEW a \in Admins, NEW x \in Routes, NEW p \in Providers, CheckRoute(a, x, p)
    PROVE  CatalogInv'
<1>1. UNCHANGED <<catalog, gateway>> /\ admin \in [Admins -> Work]
  BY DEF CheckRoute, CatalogInv, LocalTypes
<1>2. PICK m \in Models, enabled \in BOOLEAN, i \in Prices, o \in Prices :
        /\ i >= 0 /\ o >= 0
        /\ admin' = [admin EXCEPT ![a] =
               [step |-> "insert", provider |-> p, route |-> x,
                row |-> [state |-> "live", provider |-> p, model |-> m, enabled |-> enabled,
                         input |-> i, output |-> o]]]
  BY DEF CheckRoute
<1> DEFINE row == [state |-> "live", provider |-> p, model |-> m, enabled |-> enabled,
                   input |-> i, output |-> o]
           work == [step |-> "insert", provider |-> p, route |-> x, row |-> row]
<1>3. /\ row \in RouteRow /\ row.state = "live" /\ row.provider = p /\ row.model = m
      /\ row.input >= 0 /\ row.output >= 0
  BY <1>2, CatalogAssumption DEF RouteRow
<1>4. admin' = [admin EXCEPT ![a] = work]
  BY <1>2
<1> HIDE DEF row
<1>5. work \in Work /\ work.step = "insert" /\ work.route = x /\ work.row = row
  BY <1>3 DEF Work
<1> HIDE DEF work
<1>6. admin' \in [Admins -> Work] /\ \A b \in Admins : WorkOK(b)'
  BY <1>1, <1>3, <1>4, <1>5 DEF CatalogInv, WorkOK
<1>7. QED
  BY <1>1, <1>6, RequestsKept, TablesKept DEF CatalogInv, TypeOK, LocalTypes, catalog

(* Its INSERT.                                                             *)
LEMMA InsertRouteInv ==
    ASSUME CatalogInv, NEW a \in Admins, InsertRoute(a)
    PROVE  CatalogInv'
<1>1. /\ UNCHANGED <<secretKey, provider, gateway>> /\ admin[a] \in Work /\ WorkOK(a)
      /\ route \in [Routes -> RouteRow] /\ secretKey \in SecretKeys
      /\ admin[a].step = "insert"
  BY DEF InsertRoute, CatalogInv, LocalTypes, TypeOK
<1>2. admin' \in [Admins -> Work] /\ \A b \in Admins : WorkOK(b)'
  BY WorkDone DEF InsertRoute
<1>3. CASE UNCHANGED route
  BY <1>1, <1>2, <1>3, RequestsKept, TablesKept DEF CatalogInv, TypeOK, LocalTypes
<1>4. CASE /\ route[admin[a].route].state = "free" /\ LiveProvider(admin[a].row.provider)
           /\ ~ \E y \in Routes : LiveRoute(y) /\ route[y].model = admin[a].row.model
           /\ route' = [route EXCEPT ![admin[a].route] = admin[a].row]
  <2> DEFINE x == admin[a].route
             row == admin[a].row
  <2>1. /\ x \in Routes /\ row \in RouteRow /\ row.provider \in Providers /\ row.model \in Models
        /\ row.input >= 0 /\ row.output >= 0
    BY <1>1 DEF WorkOK, Work
  <2> HIDE DEF x, row
  <2>2. /\ LiveProvider(row.provider) /\ \A y \in Routes : LiveRoute(y) => route[y].model # row.model
        /\ route' = [route EXCEPT ![x] = row] /\ route[x].state = "free"
    BY <1>4 DEF x, row
  <2>3. /\ route' \in [Routes -> RouteRow] /\ route'[x] = row
        /\ \A y \in Routes \ {x} : route'[y] = route[y] /\ (LiveRoute(y)' <=> LiveRoute(y))
    BY <1>1, <2>1, <2>2 DEF LiveRoute
  <2>4. RoutesOK'
    <3>1. \A q : LiveProvider(q)' <=> LiveProvider(q)
      BY <1>1 DEF LiveProvider
    <3>2. QED
      BY <2>1, <2>2, <2>3, <3>1 DEF CatalogInv, RoutesOK
  <2>5. UniqueOK'
    <3>1. SUFFICES ASSUME NEW y \in Routes, NEW z \in Routes, LiveRoute(y)', LiveRoute(z)',
                          route'[y].model = route'[z].model
                   PROVE  y = z
      BY DEF UniqueOK
    <3>2. CASE y = x \/ z = x
      BY <2>2, <2>3, <3>1, <3>2
    <3>3. CASE y # x /\ z # x
      BY <2>3, <3>1, <3>3 DEF CatalogInv, UniqueOK
    <3>4. QED
      BY <3>2, <3>3
  <2>6. SealedOK'
    BY <1>1 DEF CatalogInv, SealedOK, LiveProvider
  <2>7. TypeOK'
    BY <1>1, <2>3, <2>4, RequestsKept DEF CatalogInv, TypeOK, RoutesOK
  <2>8. TablesGrow
    BY <1>1, <2>2, <2>3 DEF TablesGrow
  <2>9. QED
    BY <1>1, <1>2, <2>4, <2>5, <2>6, <2>7, <2>8, RequestsKept DEF CatalogInv, LocalTypes
<1>5. QED
  BY <1>3, <1>4 DEF InsertRoute

-----------------------------------------------------------------------------
(* The steps of requests, and the restart.                                 *)

(* A step of one request leaves the tables and the others alone.           *)
LEMMA OthersKept ==
    ASSUME CatalogInv, NEW r \in Requests, UNCHANGED <<catalog, admin>>,
           pc' \in [Requests -> Places], answer' \in [Requests -> Answers],
           held' \in [Requests -> Resolved], usage' \in [Requests -> UsageRow],
           \A q \in Requests : q # r =>
               /\ pc'[q] = pc[q] /\ answer'[q] = answer[q]
               /\ held'[q] = held[q] /\ usage'[q] = usage[q],
           RequestOK(r)', LinkOK(r)'
    PROVE  CatalogInv'
<1>1. UNCHANGED <<secretKey, provider, route>>
  BY DEF catalog
<1>2. SealedOK' /\ RoutesOK' /\ UniqueOK' /\ TablesGrow /\ TypeOK'
  BY <1>1, TablesKept DEF CatalogInv, TypeOK
<1>3. admin' \in [Admins -> Work] /\ \A a \in Admins : WorkOK(a)'
  BY DEF CatalogInv, LocalTypes, WorkOK
<1>4. ASSUME NEW q \in Requests, q # r PROVE RequestOK(q)'
  BY <1>4 DEF CatalogInv, RequestOK
<1>5. ASSUME NEW q \in Requests, q # r PROVE LinkOK(q)'
  BY <1>2, <1>5, LinkKept
<1>6. QED
  BY <1>2, <1>3, <1>4, <1>5 DEF CatalogInv, LocalTypes

(* resolve_model_route: what a request holds is a route with its provider. *)
LEMMA ResolveInv ==
    ASSUME CatalogInv, NEW r \in Requests, NEW m \in Models, ResolveModelRoute(r, m)
    PROVE  CatalogInv'
<1>1. /\ pc[r] = "idle" /\ UNCHANGED <<catalog, admin, usage>> /\ RequestOK(r)
      /\ held \in [Requests -> Resolved] /\ pc \in [Requests -> Places]
      /\ answer \in [Requests -> Answers] /\ usage \in [Requests -> UsageRow]
      /\ route \in [Routes -> RouteRow]
  BY DEF ResolveModelRoute, CatalogInv, LocalTypes, TypeOK
<1>2. ~usage[r].stored /\ held[r].route = NoRoute
  BY <1>1 DEF RequestOK
<1>3. PICK x \in Matching(m) :
        IF Runnable(x)
        THEN /\ pc' = [pc EXCEPT ![r] = "call"]
             /\ held' = [held EXCEPT ![r] =
                    [route |-> x, provider |-> route[x].provider,
                     input |-> route[x].input, output |-> route[x].output]]
             /\ UNCHANGED answer
        ELSE /\ pc' = [pc EXCEPT ![r] = "done"]
             /\ answer' = [answer EXCEPT ![r] = 400]
             /\ UNCHANGED held
  BY DEF ResolveModelRoute
<1>4. x \in Routes /\ LiveRoute(x) /\ route[x] \in RouteRow /\ x # NoRoute
  BY <1>1, <1>3 DEF Matching, LiveRoute
<1>5. /\ route[x].provider \in Providers /\ LiveProvider(route[x].provider)
      /\ route[x].input >= 0 /\ route[x].output >= 0
  BY <1>4 DEF CatalogInv, RoutesOK
<1>6. CASE Runnable(x)
  <2> DEFINE h == [route |-> x, provider |-> route[x].provider,
                   input |-> route[x].input, output |-> route[x].output]
  <2>1. /\ h \in Resolved /\ h.route = x /\ h.provider = route[x].provider
        /\ h.input >= 0 /\ h.output >= 0
    BY <1>4, <1>5 DEF Resolved, RouteRow
  <2>2. pc' = [pc EXCEPT ![r] = "call"] /\ held' = [held EXCEPT ![r] = h] /\ answer' = answer
    BY <1>3, <1>6
  <2> HIDE DEF h
  <2>3. /\ held' \in [Requests -> Resolved] /\ pc' \in [Requests -> Places]
        /\ held'[r] = h /\ pc'[r] = "call" /\ ~usage'[r].stored
        /\ \A q \in Requests : q # r => pc'[q] = pc[q] /\ held'[q] = held[q]
    BY <1>1, <1>2, <2>1, <2>2 DEF Places
  <2>4. RequestOK(r)'
    BY <1>4, <1>5, <2>1, <2>3 DEF RequestOK
  <2>5. LinkOK(r)'
    <3>1. /\ route' = route /\ provider' = provider
          /\ route[x].state = "live" /\ provider[route[x].provider].state = "live"
      BY <1>1, <1>4, <1>5 DEF catalog, LiveRoute, LiveProvider
    <3>2. QED
      BY <2>1, <2>3, <3>1 DEF LinkOK
  <2>6. QED
    BY <1>1, <2>2, <2>3, <2>4, <2>5, OthersKept
<1>7. CASE ~Runnable(x)
  <2>1. pc' = [pc EXCEPT ![r] = "done"] /\ held' = held /\ answer' = [answer EXCEPT ![r] = 400]
    BY <1>3, <1>7
  <2>2. /\ answer' \in [Requests -> Answers] /\ pc' \in [Requests -> Places]
        /\ pc'[r] = "done" /\ ~usage'[r].stored /\ held'[r].route = NoRoute
        /\ \A q \in Requests : q # r => pc'[q] = pc[q] /\ answer'[q] = answer[q]
    BY <1>1, <1>2, <2>1 DEF Places, Answers
  <2>3. RequestOK(r)' /\ LinkOK(r)'
    BY <2>2 DEF RequestOK, LinkOK
  <2>4. QED
    BY <1>1, <2>1, <2>2, <2>3, OthersKept
<1>8. QED
  BY <1>6, <1>7

(* What a request in flight holds.                                         *)
LEMMA InFlight ==
    ASSUME CatalogInv, NEW r \in Requests, pc[r] \in {"call", "stream"}
    PROVE  /\ held[r] \in Resolved /\ held[r].route # NoRoute /\ held[r].provider # NoProvider
           /\ held[r].route \in Routes /\ held[r].provider \in Providers
           /\ held[r].input >= 0 /\ held[r].output >= 0
           /\ ~usage[r].stored /\ LinkOK(r) /\ usage \in [Requests -> UsageRow]
           /\ ~Bound(r) => route[held[r].route].state = "gone"
<1>1. RequestOK(r) /\ LinkOK(r) /\ held[r] \in Resolved /\ usage \in [Requests -> UsageRow]
  BY DEF CatalogInv, LocalTypes
<1>2. /\ held[r].route # NoRoute /\ ~usage[r].stored
      /\ held[r].route \in Routes /\ held[r].provider \in Providers
      /\ held[r].input >= 0 /\ held[r].output >= 0
  BY <1>1 DEF RequestOK
<1>3. route[held[r].route].state \in {"live", "gone"}
  <2>1. route[held[r].route].state # "free"
    BY <1>1, <1>2 DEF LinkOK
  <2>2. route[held[r].route] \in RouteRow
    BY <1>2 DEF CatalogInv, TypeOK
  <2>3. QED
    BY <2>1, <2>2 DEF RouteRow
<1>4. LiveRoute(held[r].route) => Bound(r)
  BY <1>1, <1>2 DEF LinkOK, CatalogInv, RoutesOK, Bound
<1>5. ~Bound(r) => route[held[r].route].state = "gone"
  BY <1>2, <1>3, <1>4 DEF LiveRoute
<1>6. QED
  BY <1>1, <1>2, <1>5, CatalogAssumption

(* How a request ends after record_usage was called for it.                *)
LEMMA RecordInv ==
    ASSUME CatalogInv, NEW r \in Requests, pc[r] \in {"call", "stream"},
           NEW status \in {200, 402, 502}, NEW i \in Nat, NEW o \in Nat, NEW enough \in BOOLEAN,
           NEW s \in Answers, RecordUsage(r, status, i, o, enough), Ends(r, s)
    PROVE  CatalogInv'
<1> DEFINE v == Verdict(r, status, i, o, enough)
           c == Charge(i, o, held[r])
           w == [stored |-> TRUE, route |-> held[r].route, provider |-> held[r].provider,
                 status |-> v, prompt |-> i, completion |-> o,
                 cost |-> IF v = 200 /\ c > 0 THEN c ELSE 0]
<1>1. /\ held[r] \in Resolved /\ held[r].route # NoRoute /\ held[r].provider # NoProvider
      /\ held[r].route \in Routes /\ held[r].provider \in Providers
      /\ held[r].input >= 0 /\ held[r].output >= 0
      /\ ~usage[r].stored /\ LinkOK(r) /\ usage \in [Requests -> UsageRow]
      /\ ~Bound(r) => route[held[r].route].state = "gone"
  BY InFlight
<1>2. /\ pc \in [Requests -> Places] /\ answer \in [Requests -> Answers]
      /\ held \in [Requests -> Resolved]
      /\ pc' = [pc EXCEPT ![r] = "done"] /\ UNCHANGED <<catalog, admin, held>>
      /\ answer' = answer \/ answer' = [answer EXCEPT ![r] = s]
  BY DEF CatalogInv, TypeOK, LocalTypes, Ends
<1>3. /\ pc' \in [Requests -> Places] /\ answer' \in [Requests -> Answers]
      /\ held' = held /\ pc'[r] = "done" /\ route' = route /\ provider' = provider
      /\ \A q \in Requests : q # r => pc'[q] = pc[q] /\ answer'[q] = answer[q]
  BY <1>2 DEF Places, catalog
<1>4. ASSUME usage' \in [Requests -> UsageRow],
             \A q \in Requests : q # r => usage'[q] = usage[q],
             RequestOK(r)', LinkOK(r)'
      PROVE  CatalogInv'
  BY <1>2, <1>3, <1>4, OthersKept
<1>5. CASE v = 500
  <2>1. usage' = usage
    BY <1>5 DEF RecordUsage
  <2>2. ~Bound(r)
    BY <1>5 DEF Verdict
  <2>3. RequestOK(r)'
    BY <1>1, <1>3, <2>1 DEF RequestOK
  <2>4. route[held[r].route].state = "gone"
    BY <1>1, <2>2
  <2>5. LinkOK(r)'
    BY <1>1, <1>3, <2>1, <2>4 DEF LinkOK, LiveRoute
  <2>6. QED
    BY <1>1, <1>4, <2>1, <2>3, <2>5
<1>6. CASE v # 500
  <2>1. usage' = [usage EXCEPT ![r] = w]
    BY <1>6 DEF RecordUsage
  <2>2. Bound(r) /\ v \in {200, 402, 502}
    BY <1>6 DEF Verdict
  <2>3. c \in Int
    BY <1>1, ChargeType
  <2> HIDE DEF v, c
  <2>4. /\ w \in UsageRow /\ w.stored /\ w.route = held[r].route /\ w.provider = held[r].provider
        /\ w.status = v /\ w.prompt = i /\ w.completion = o
        /\ w.cost = IF v = 200 /\ c > 0 THEN c ELSE 0
    BY <1>1, <2>2, <2>3 DEF UsageRow, Answers
  <2> HIDE DEF w
  <2>5. /\ usage' \in [Requests -> UsageRow] /\ usage'[r] = w
        /\ \A q \in Requests : q # r => usage'[q] = usage[q]
    BY <1>1, <2>1, <2>4
  <2>6. RequestOK(r)'
    <3>1. Charge(w.prompt, w.completion, held[r]) = c
      BY <2>4 DEF c
    <3>2. w.status = 200 => w.cost = IF c > 0 THEN c ELSE 0
      BY <2>4
    <3>3. QED
      BY <1>1, <1>3, <2>4, <2>5, <3>1, <3>2 DEF RequestOK
  <2>7. LinkOK(r)'
    <3>1. LiveRoute(held[r].route)' /\ LiveProvider(held[r].provider)'
      BY <1>3, <2>2 DEF Bound, LiveRoute, LiveProvider
    <3>2. RefersOK(usage[r], held[r])'
      BY <1>3, <2>4, <2>5, <3>1 DEF RefersOK
    <3>3. QED
      BY <1>1, <1>3, <2>4, <2>5, <3>2 DEF LinkOK, LiveRoute
  <2>8. QED
    BY <1>4, <2>5, <2>6, <2>7
<1>7. QED
  BY <1>5, <1>6

(* The steps that record what became of a request.                         *)
LEMMA RecordingInv ==
    ASSUME CatalogInv, NEW r \in Requests, RefuseCredit(r) \/ UpstreamFails(r) \/ Meter(r)
    PROVE  CatalogInv'
<1>1. Tokens \subseteq Nat
  BY CatalogAssumption
<1>2. CASE RefuseCredit(r)
  <2>1. PICK i \in Tokens, enough \in BOOLEAN : RecordUsage(r, 402, i, 0, enough)
    BY <1>2, Zenon DEF RefuseCredit
  <2>2. pc[r] \in {"call", "stream"} /\ Ends(r, 402)
    BY <1>2 DEF RefuseCredit
  <2>3. i \in Nat /\ 0 \in Nat /\ 402 \in {200, 402, 502} /\ 402 \in Answers
    BY <1>1 DEF Answers
  <2>4. QED
    BY <2>1, <2>2, <2>3, RecordInv
<1>3. CASE UpstreamFails(r)
  <2>1. PICK i \in Tokens, o \in Tokens, enough \in BOOLEAN : RecordUsage(r, 502, i, o, enough)
    BY <1>3, Zenon DEF UpstreamFails
  <2>2. pc[r] \in {"call", "stream"} /\ Ends(r, 502)
    BY <1>3 DEF UpstreamFails
  <2>3. /\ i \in Nat /\ o \in Nat
        /\ 502 \in {200, 402, 502} /\ 502 \in Answers
    BY <1>1 DEF Answers
  <2>4. QED
    BY <2>1, <2>2, <2>3, RecordInv
<1>4. CASE Meter(r)
  <2>1. PICK i \in Tokens, o \in Tokens, enough \in BOOLEAN :
            RecordUsage(r, 200, i, o, enough) /\ Ends(r, Verdict(r, 200, i, o, enough))
    BY <1>4 DEF Meter
  <2>2. pc[r] \in {"call", "stream"} /\ Verdict(r, 200, i, o, enough) \in Answers
    BY <1>4 DEF Meter, Verdict, Answers
  <2>3. QED
    BY <1>1, <2>1, <2>2, RecordInv
<1>5. QED
  BY <1>2, <1>3, <1>4

(* The steps that record nothing.                                          *)
LEMMA UnrecordedInv ==
    ASSUME CatalogInv, NEW r \in Requests, RefuseLimit(r) \/ StartStream(r) \/ Abandon(r)
    PROVE  CatalogInv'
<1>1. /\ pc[r] \in {"call", "stream"} /\ UNCHANGED <<catalog, admin, held, usage>>
      /\ \E to \in {"done", "stream", "left"}, s \in {200, 429} :
            /\ pc' = [pc EXCEPT ![r] = to]
            /\ answer' = answer \/ answer' = [answer EXCEPT ![r] = s]
            /\ to = "done" => answer' = [answer EXCEPT ![r] = 429]
  BY DEF RefuseLimit, StartStream, Abandon, Ends
<1>2. PICK to \in {"done", "stream", "left"}, s \in {200, 429} :
            /\ pc' = [pc EXCEPT ![r] = to]
            /\ answer' = answer \/ answer' = [answer EXCEPT ![r] = s]
            /\ to = "done" => answer' = [answer EXCEPT ![r] = 429]
  BY <1>1
<1>3. /\ pc \in [Requests -> Places] /\ answer \in [Requests -> Answers]
      /\ held \in [Requests -> Resolved] /\ usage \in [Requests -> UsageRow]
      /\ RequestOK(r) /\ LinkOK(r)
  BY DEF CatalogInv, LocalTypes, TypeOK
<1>4. /\ pc' \in [Requests -> Places] /\ answer' \in [Requests -> Answers]
      /\ pc'[r] = to /\ (to = "done" => answer'[r] = 429)
      /\ \A q \in Requests : q # r => pc'[q] = pc[q] /\ answer'[q] = answer[q]
  BY <1>2, <1>3 DEF Places, Answers
<1>5. RequestOK(r)'
  BY <1>1, <1>3, <1>4 DEF RequestOK
<1>6. LinkOK(r)'
  <2>1. route' = route /\ provider' = provider /\ held' = held /\ usage' = usage
    BY <1>1 DEF catalog
  <2>2. ~(pc'[r] = "done" /\ answer'[r] # 429)
    BY <1>4
  <2>3. ~usage[r].stored
    BY <1>1, <1>3 DEF RequestOK
  <2>4. QED
    BY <1>3, <2>1, <2>2, <2>3 DEF LinkOK, LiveRoute
<1>7. QED
  BY <1>1, <1>3, <1>4, <1>5, <1>6, OthersKept

(* A restart drops what is in flight and keeps the tables.                 *)
LEMMA RestartInv ==
    ASSUME CatalogInv, NEW k \in SecretKeys, Restart(k)
    PROVE  CatalogInv'
<1>1. /\ secretKey' = k /\ UNCHANGED <<provider, route, held, usage, answer>>
      /\ pc \in [Requests -> Places]
      /\ admin' = [a \in Admins |-> NoWork]
      /\ pc' = [r \in Requests |-> IF pc[r] \in {"call", "stream"} THEN "left" ELSE pc[r]]
  BY DEF Restart, CatalogInv, TypeOK
<1>2. NoWork \in Work /\ NoWork.step # "insert"
  BY FreeRows DEF NoWork, Work
<1>3. admin' \in [Admins -> Work] /\ \A a \in Admins : WorkOK(a)'
  BY <1>1, <1>2 DEF WorkOK
<1>4. pc' \in [Requests -> Places]
  BY <1>1 DEF Places
<1>5. ASSUME NEW r \in Requests PROVE RequestOK(r)' /\ LinkOK(r)'
  <2>1. RequestOK(r)
    BY DEF CatalogInv
  <2>2. pc'[r] = pc[r] \/ pc'[r] = "left"
    BY <1>1
  <2>3. RequestOK(r)'
    BY <1>1, <2>1, <2>2 DEF RequestOK
  <2>4. TablesGrow
    BY <1>1 DEF TablesGrow
  <2>5. QED
    BY <1>1, <2>2, <2>3, <2>4, LinkKept
<1>6. TypeOK'
  BY <1>1, <1>4, TablesKept DEF CatalogInv, TypeOK
<1>7. QED
  BY <1>1, <1>3, <1>5, <1>6, TablesKept DEF CatalogInv, LocalTypes

(* Every step keeps the invariant.                                         *)
LEMMA NextInv == CatalogInv /\ [Next]_vars => CatalogInv'
<1>1. SUFFICES ASSUME CatalogInv, [Next]_vars PROVE CatalogInv'
  OBVIOUS
<1>2. ASSUME NEW a \in Admins, Audit(a) PROVE CatalogInv'
  BY <1>1, <1>2, RequestsKept, TablesKept, WorkDone
     DEF Audit, CatalogInv, TypeOK, LocalTypes, catalog
<1>3. CASE UNCHANGED vars
  <2>1. UNCHANGED <<secretKey, provider, route, admin, gateway>>
    BY <1>3 DEF vars, catalog
  <2>2. admin' \in [Admins -> Work] /\ \A b \in Admins : WorkOK(b)'
    BY <1>1, <2>1 DEF CatalogInv, LocalTypes, WorkOK
  <2>3. QED
    BY <1>1, <2>1, <2>2, RequestsKept, TablesKept DEF CatalogInv, TypeOK, LocalTypes
<1>4. QED
  BY <1>1, <1>2, <1>3, CreateProviderInv, DeleteProviderInv, CheckRouteInv, InsertRouteInv,
     DeleteRouteInv, ResolveInv, RecordingInv, UnrecordedInv, RestartInv DEF Next

-----------------------------------------------------------------------------
(* Main results.                                                           *)

(* CatalogInv is an invariant.                                             *)
THEOREM Inductive == Spec => []CatalogInv
<1>1. Init => CatalogInv
  BY InitInv
<1>2. CatalogInv /\ [Next]_vars => CatalogInv'
  BY NextInv
<1>3. QED
  BY <1>1, <1>2, PTL DEF Spec

(* A request that resolved a route and was neither refused by the limits   *)
(* nor abandoned has its usage event unless its route was deleted while it *)
(* ran, and the event refers to the rows that still exist, whatever        *)
(* administrators delete between resolve_model_route and record_usage, or  *)
(* afterwards.                                                             *)
THEOREM EventsSurviveDeletions == Spec => []EventUnlessDeleted
<1>1. CatalogInv => EventUnlessDeleted
  BY DEF CatalogInv, LinkOK, RefersOK, EventUnlessDeleted
<1>2. QED
  BY <1>1, Inductive, PTL

(* GET /v1/models lists a model exactly when resolve_model_route finds one *)
(* route for it; no route outlives its provider; and only another secret   *)
(* key keeps a listed model from being served.                             *)
THEOREM ListIsResolved == Spec => []ListedResolves
<1>1. CatalogInv => ListedResolves
  <2>1. SUFFICES ASSUME CatalogInv PROVE ListedResolves
    OBVIOUS
  <2>2. ASSUME NEW m \in Models PROVE m \in ListedModels <=> Cardinality(Matching(m)) = 1
    <3>1. m \in ListedModels <=> Matching(m) # {}
      BY DEF ListedModels, Matching
    <3>2. \A x, y \in Matching(m) : x = y
      BY <2>1 DEF Matching, CatalogInv, UniqueOK
    <3>3. CASE Matching(m) = {}
      BY <3>1, <3>3, FS_EmptySet
    <3>4. CASE Matching(m) # {}
      <4>1. PICK x : Matching(m) = {x}
        BY <3>2, <3>4
      <4>2. QED
        BY <3>1, <3>4, <4>1, FS_Singleton
    <3>5. QED
      BY <3>3, <3>4
  <2>3. \A x \in Routes : LiveRoute(x) => LiveProvider(route[x].provider)
    BY <2>1 DEF CatalogInv, RoutesOK
  <2>4. ASSUME NEW m \in Models, NEW x \in Matching(m), ~Runnable(x)
        PROVE  provider[route[x].provider].sealed.key # secretKey
    <3> DEFINE p == route[x].provider
    <3>1. p \in Providers /\ LiveProvider(p)
      BY <2>1 DEF Matching, CatalogInv, RoutesOK
    <3>2. provider[p].mode = "api_key" /\ provider[p].sealed.key # 0 /\ provider[p].sealed.of = p
      BY <2>1, <3>1 DEF CatalogInv, SealedOK
    <3>3. provider[p].sealed \in [key : SecretKeys \cup {0}, of : Providers \cup {NoProvider}]
      <4>1. provider[p] \in ProviderRow
        BY <2>1, <3>1 DEF CatalogInv, TypeOK
      <4>2. QED
        BY <4>1 DEF ProviderRow
    <3>4. ~Decrypts(secretKey, p, provider[p].sealed)
      BY <2>4, <3>2 DEF Runnable
    <3> HIDE DEF p
    <3>5. provider[p].sealed = [key |-> provider[p].sealed.key, of |-> provider[p].sealed.of]
      BY <3>3
    <3>6. provider[p].sealed.key # secretKey
      BY <3>2, <3>4, <3>5 DEF Decrypts
    <3>7. QED
      BY <3>6 DEF p
  <2>5. QED
    BY <2>2, <2>3, <2>4 DEF ListedResolves
<1>2. QED
  BY <1>1, Inductive, PTL

(* A request is charged the least amount that covers its prompt, plus the  *)
(* least that covers its completion, at the prices it resolved, as long as *)
(* the amount fits in an i64: for every price, token count and unit.       *)
THEOREM ChargesAreExact == Spec => []ChargedExactly
<1>1. CatalogInv => ChargedExactly
  <2>1. SUFFICES ASSUME CatalogInv, NEW r \in Requests, usage[r].stored, usage[r].status = 200
                 PROVE  /\ held[r].input >= 0 /\ held[r].output >= 0
                        /\ LET exact == LeastCover(usage[r].prompt, held[r].input)
                                        + LeastCover(usage[r].completion, held[r].output) IN
                           exact <= MaxI64 => usage[r].cost = exact
    BY DEF ChargedExactly
  <2> DEFINE i == CeilDiv(usage[r].prompt * held[r].input, Unit)
             o == CeilDiv(usage[r].completion * held[r].output, Unit)
  <2>2. /\ usage[r].prompt \in Nat /\ usage[r].completion \in Nat
        /\ held[r].input \in Nat /\ held[r].output \in Nat
        /\ LET charge == Charge(usage[r].prompt, usage[r].completion, held[r]) IN
           usage[r].cost = IF charge > 0 THEN charge ELSE 0
    <3>1. usage[r] \in UsageRow /\ held[r] \in Resolved /\ RequestOK(r)
      BY <2>1 DEF CatalogInv, LocalTypes
    <3>2. held[r].input \in Int /\ held[r].output \in Int
      BY <3>1 DEF Resolved
    <3>3. usage[r].prompt \in Nat /\ usage[r].completion \in Nat
      BY <3>1 DEF UsageRow
    <3>4. QED
      BY <2>1, <3>1, <3>2, <3>3 DEF RequestOK
  <2>3. /\ LeastCover(usage[r].prompt, held[r].input) = i
        /\ LeastCover(usage[r].completion, held[r].output) = o
    BY <2>2, CeilIsLeast
  <2>4. i \in Nat /\ o \in Nat
    <3>1. usage[r].prompt * held[r].input \in Nat /\ usage[r].completion * held[r].output \in Nat
      BY <2>2
    <3>2. Unit \in Nat \ {0}
      BY CatalogAssumption
    <3>3. QED
      BY <3>1, <3>2, CeilCovers
  <2>5. usage[r].cost = IF AsI64(i + o) > 0 THEN AsI64(i + o) ELSE 0
    BY <2>2 DEF Charge
  <2> HIDE DEF i, o
  <2>6. i + o <= MaxI64 => AsI64(i + o) = i + o
    BY <2>4, FitsI64, CatalogAssumption
  <2>7. i + o <= MaxI64 => usage[r].cost = i + o
    BY <2>4, <2>5, <2>6
  <2>8. QED
    BY <2>2, <2>3, <2>7
<1>2. QED
  BY <1>1, Inductive, PTL
=============================================================================
