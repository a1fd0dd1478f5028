------------------------------- MODULE Limits --------------------------------
(***************************************************************************)
(* Runtime limits of the gateway (crates/mizan-limits/src/lib.rs): request *)
(* and token windows and concurrency slots, kept as expiring counters in   *)
(* Redis.  Each EVAL script is atomic; between the scripts of one request  *)
(* those of others run, keys expire, Redis fails and requests die.         *)
(*                                                                         *)
(* Time is a Tick that ages the keys; a key of age zero left is deleted.   *)
(***************************************************************************)
EXTENDS Integers, Sequences, FiniteSets

CONSTANTS
    Requests,            \* gateway requests over the life of the system
    Scopes,              \* limit scopes: API keys, users, providers
    ScopeLists,          \* the scope lists a request may carry, in order
    Tokens,              \* estimated prompt tokens a request may carry
    RequestsPerWindow,   \* policy; 0 turns the dimension off
    TokensPerWindow,
    ConcurrentRequests,
    WindowSeconds,       \* TTL of request and token counters, in ticks
    LeaseSeconds,        \* TTL of a concurrency counter, in ticks
    MaxRun,              \* longest time a request is in flight, in ticks
    Faults               \* TRUE: Redis calls may fail, requests be dropped

(* acquire_runtime_limits is called with an API key, a user and, on a      *)
(* routed model, a provider: no two scopes of a request are the same.      *)
NoRepeats(l) == \A i, j \in DOMAIN l : l[i] = l[j] => i = j

ASSUME LimitsAssumption ==
    /\ ScopeLists \subseteq Seq(Scopes)
    /\ Tokens \subseteq Nat
    /\ {RequestsPerWindow, TokensPerWindow, ConcurrentRequests} \subseteq Nat
    /\ {WindowSeconds, LeaseSeconds, MaxRun} \subseteq Nat
    /\ Faults \in BOOLEAN
    /\ \A l \in ScopeLists : NoRepeats(l)

Dims == {"rpm", "tpm", "concurrency"}
Keys == Dims \X Scopes

VARIABLES
    store,    \* store[k]: [val, ttl] of a Redis key, val 0 when it is absent
    pc,       \* where the request is
    scopes,   \* scope list of the request
    tokens,   \* its token estimate
    pos,      \* index of the scope being checked
    held,     \* concurrency scopes acquired and not yet given back
    age,      \* ticks the request has been running
    result,
    lost,     \* history: slots of a scope that nobody will give back
              \* (meaningful while the scope is not tainted)
    tainted   \* history: scopes whose counter expired under an owner

locals == <<scopes, tokens, pos>>
vars == <<store, pc, locals, held, age, result, lost, tainted>>

Absent == [val |-> 0, ttl |-> 0]
Checking == {"rpm", "tpm", "concurrency", "undo"}
PcSet == {"idle", "running", "rollback", "release", "done"} \cup Checking

Init ==
    /\ store = [k \in Keys |-> Absent]
    /\ pc = [r \in Requests |-> "idle"]
    /\ scopes = [r \in Requests |-> <<>>]
    /\ tokens = [r \in Requests |-> 0]
    /\ pos = [r \in Requests |-> 1]
    /\ held = [r \in Requests |-> {}]
    /\ age = [r \in Requests |-> 0]
    /\ result = [r \in Requests |-> "none"]
    /\ lost = [s \in Scopes |-> 0]
    /\ tainted = {}

Disabled == RequestsPerWindow = 0 /\ TokensPerWindow = 0 /\ ConcurrentRequests = 0

Scope(r) == scopes[r][pos[r]]

-----------------------------------------------------------------------------
(* The two Redis scripts.                                                  *)

(* Mutants: EXPIRE only when the counter is 1, whatever the amount was; no *)
(* EXPIRE at all.                                                          *)
IncrementedExpiresAtOne(k, n, ttl) ==
    LET v == store[k].val + n IN
    [store EXCEPT ![k] = [val |-> v, ttl |-> IF v = 1 THEN ttl ELSE @.ttl]]

IncrementedNoExpire(k, n, ttl) == [store EXCEPT ![k].val = @ + n]

(* increment_window_counter: the TTL is set by the increment that creates  *)
(* the key, and by no later one.                                           *)
Incremented(k, n, ttl) ==
    LET v == store[k].val + n IN
    [store EXCEPT ![k] = [val |-> v, ttl |-> IF v = n THEN ttl ELSE @.ttl]]

(* Mutant: DECR without looking whether the key is there or used up.       *)
ReleasedBlindly(k) == [store EXCEPT ![k].val = @ - 1]

(* release_key.                                                            *)
Released(k) ==
    IF store[k].val = 0 THEN store
    ELSE [store EXCEPT ![k] = IF @.val - 1 <= 0 THEN Absent
                              ELSE [val |-> @.val - 1, ttl |-> @.ttl]]

Key(d, s) == <<d, s>>
Ttl(n) == IF n = 0 THEN 1 ELSE n       \* ttl_seconds.max(1)

(* Requests that have a share in the concurrency counter of s and will     *)
(* give it back.                                                           *)
Owners(s) == {r \in Requests : s \in held[r] \/ (pc[r] = "undo" /\ Scope(r) = s)}

Goto(r, l) == pc' = [pc EXCEPT ![r] = l]

(* check_and_acquire fails: the slots acquired so far are given back.      *)
Fail(r, e) ==
    /\ Goto(r, "rollback")
    /\ result' = [result EXCEPT ![r] = e]

(* The next check that does something: a dimension that is off, and a      *)
(* token check without tokens, returns at once.                            *)
FromRpm(n) == IF RequestsPerWindow > 0 THEN "rpm"
              ELSE IF TokensPerWindow > 0 /\ n > 0 THEN "tpm" ELSE "concurrency"
FromTpm(n) == IF TokensPerWindow > 0 /\ n > 0 THEN "tpm" ELSE "concurrency"

(* All checks of this scope passed.                                        *)
Advance(r) ==
    IF pos[r] < Len(scopes[r])
    THEN /\ pos' = [pos EXCEPT ![r] = @ + 1]
         /\ Goto(r, FromRpm(tokens[r]))
         /\ UNCHANGED result
    ELSE /\ Goto(r, "running")
         /\ result' = [result EXCEPT ![r] = "admitted"]
         /\ UNCHANGED pos

-----------------------------------------------------------------------------
(* check_and_acquire.                                                      *)

Start(r) ==
    /\ pc[r] = "idle"
    /\ \E l \in ScopeLists, n \in Tokens :
        /\ scopes' = [scopes EXCEPT ![r] = l]
        /\ tokens' = [tokens EXCEPT ![r] = n]
        /\ IF Disabled \/ l = <<>>
           THEN Goto(r, "running") /\ result' = [result EXCEPT ![r] = "admitted"]
           ELSE Goto(r, FromRpm(n)) /\ UNCHANGED result
    /\ UNCHANGED <<store, pos, held, age, lost, tainted>>

(* get_connection fails before anything was counted.                       *)
ConnectError(r) ==
    /\ Faults
    /\ pc[r] = FromRpm(tokens[r]) /\ pos[r] = 1
    /\ Goto(r, "done")
    /\ result' = [result EXCEPT ![r] = "error"]
    /\ UNCHANGED <<store, locals, held, age, lost, tainted>>

CheckRequestCounter(r) ==
    LET k == Key("rpm", Scope(r)) IN
    /\ pc[r] = "rpm"
    /\ store' = Incremented(k, 1, Ttl(WindowSeconds))
    /\ IF store'[k].val > RequestsPerWindow
       THEN Fail(r, "limited")
       ELSE Goto(r, FromTpm(tokens[r])) /\ UNCHANGED result
    /\ UNCHANGED <<locals, held, age, lost, tainted>>

CheckTokenCounter(r) ==
    LET k == Key("tpm", Scope(r)) IN
    /\ pc[r] = "tpm"
    /\ store' = Incremented(k, tokens[r], Ttl(WindowSeconds))
    /\ IF store'[k].val > TokensPerWindow
       THEN Fail(r, "limited")
       ELSE Goto(r, "concurrency") /\ UNCHANGED result
    /\ UNCHANGED <<locals, held, age, lost, tainted>>

(* Mutant: the limit is compared with the count before the increment.      *)
AcquireConcurrencyOffByOne(r) ==
    LET s == Scope(r)
        k == Key("concurrency", s) IN
    /\ pc[r] = "concurrency"
    /\ IF ConcurrentRequests = 0
       THEN UNCHANGED <<store, held>> /\ Advance(r)
       ELSE /\ store' = Incremented(k, 1, Ttl(LeaseSeconds))
            /\ IF store[k].val > ConcurrentRequests
               THEN Goto(r, "undo") /\ UNCHANGED <<held, pos, result>>
               ELSE held' = [held EXCEPT ![r] = @ \cup {s}] /\ Advance(r)
    /\ UNCHANGED <<scopes, tokens, age, lost, tainted>>

(* acquire_concurrency_lease up to its increment: over the limit, the      *)
(* increment has to be undone by a second script.                          *)
AcquireConcurrency(r) ==
    LET s == Scope(r)
        k == Key("concurrency", s) IN
    /\ pc[r] = "concurrency"
    /\ IF ConcurrentRequests = 0
       THEN UNCHANGED <<store, held>> /\ Advance(r)
       ELSE /\ store' = Incremented(k, 1, Ttl(LeaseSeconds))
            /\ IF store'[k].val > ConcurrentRequests
               THEN Goto(r, "undo") /\ UNCHANGED <<held, pos, result>>
               ELSE held' = [held EXCEPT ![r] = @ \cup {s}] /\ Advance(r)
    /\ UNCHANGED <<scopes, tokens, age, lost, tainted>>

(* Mutant: a refused request leaves its increment behind.                  *)
UndoConcurrencyForgotten(r) ==
    /\ pc[r] = "undo"
    /\ Fail(r, "limited")
    /\ UNCHANGED <<store, locals, held, age, lost, tainted>>

UndoConcurrency(r) ==
    /\ pc[r] = "undo"
    /\ store' = Released(Key("concurrency", Scope(r)))
    /\ Fail(r, "limited")
    /\ UNCHANGED <<locals, held, age, lost, tainted>>

(* A script fails, before or after Redis ran it; the error is returned     *)
(* after the acquired slots are given back.                                *)
ScriptError(r) ==
    LET s == Scope(r) IN
    /\ Faults
    /\ pc[r] \in Checking
    /\ pc[r] = "concurrency" => ConcurrentRequests > 0
    /\ Fail(r, "error")
    /\ \/ /\ UNCHANGED store
          /\ lost' = IF pc[r] = "undo" THEN [lost EXCEPT ![s] = @ + 1] ELSE lost
       \/ /\ pc[r] = "rpm"
          /\ store' = Incremented(Key("rpm", s), 1, Ttl(WindowSeconds))
          /\ UNCHANGED lost
       \/ /\ pc[r] = "tpm"
          /\ store' = Incremented(Key("tpm", s), tokens[r], Ttl(WindowSeconds))
          /\ UNCHANGED lost
       \/ /\ pc[r] = "concurrency"
          /\ store' = Incremented(Key("concurrency", s), 1, Ttl(LeaseSeconds))
          /\ lost' = [lost EXCEPT ![s] = @ + 1]
       \/ /\ pc[r] = "undo"
          /\ store' = Released(Key("concurrency", s))
          /\ UNCHANGED lost
    /\ UNCHANGED <<locals, held, age, tainted>>

-----------------------------------------------------------------------------
(* The request is served, then its lease is released.                      *)

EndRun(r) ==
    /\ pc[r] = "running"
    /\ Goto(r, "release")
    /\ age' = [age EXCEPT ![r] = 0]
    /\ UNCHANGED <<store, locals, held, result, lost, tainted>>

(* release_keys, one key: a failed release is remembered but does not stop *)
(* the others; the slot stays counted.                                     *)
ReleaseOne(r) ==
    /\ pc[r] \in {"rollback", "release"}
    /\ \E s \in held[r] :
        /\ held' = [held EXCEPT ![r] = @ \ {s}]
        /\ \/ store' = Released(Key("concurrency", s)) /\ UNCHANGED lost
           \/ /\ Faults
              /\ lost' = [lost EXCEPT ![s] = @ + 1]
              /\ UNCHANGED store
    /\ UNCHANGED <<pc, locals, age, result, tainted>>

ReleaseDone(r) ==
    /\ pc[r] \in {"rollback", "release"}
    /\ held[r] = {}
    /\ Goto(r, "done")
    /\ UNCHANGED <<store, locals, held, age, result, lost, tainted>>

(* The process dies, or the future that owns the lease is dropped: nobody  *)
(* gives the slots back.                                                   *)
Die(r) ==
    /\ Faults
    /\ pc[r] \notin {"idle", "done"}
    /\ Goto(r, "done")
    /\ held' = [held EXCEPT ![r] = {}]
    /\ age' = [age EXCEPT ![r] = 0]
    /\ lost' = [s \in Scopes |-> IF r \in Owners(s) THEN lost[s] + 1 ELSE lost[s]]
    /\ UNCHANGED <<store, locals, result, tainted>>

(* One tick of the clock.  A counter that expires takes with it the shares *)
(* of those who still hold it, and the lost ones.                          *)
Expires(k) == store[k].ttl = 1

Tick ==
    /\ \A r \in Requests : pc[r] = "running" => age[r] < MaxRun
    /\ \E k \in Keys : store[k].ttl > 0
    /\ age' = [r \in Requests |-> IF pc[r] = "running" THEN age[r] + 1 ELSE age[r]]
    /\ store' = [k \in Keys |-> IF Expires(k) THEN Absent
                    ELSE IF store[k].ttl = 0 THEN store[k]
                    ELSE [store[k] EXCEPT !.ttl = @ - 1]]
    /\ lost' = [s \in Scopes |-> IF Expires(Key("concurrency", s)) THEN 0 ELSE lost[s]]
    /\ tainted' = {s \in Scopes : \/ s \in tainted
                                  \/ Expires(Key("concurrency", s)) /\ Owners(s) # {}}
    /\ UNCHANGED <<pc, locals, held, result>>

Step(r) ==
    \/ CheckRequestCounter(r) \/ CheckTokenCounter(r) \/ AcquireConcurrency(r)
    \/ UndoConcurrency(r) \/ EndRun(r) \/ ReleaseOne(r) \/ ReleaseDone(r)

Fault(r) == ConnectError(r) \/ ScriptError(r) \/ Die(r)

(* Every request is over and every counter has expired.                    *)
Terminated ==
    /\ \A r \in Requests : pc[r] = "done"
    /\ \A k \in Keys : store[k].ttl = 0
    /\ UNCHANGED vars

Next == \/ \E r \in Requests : Start(r) \/ Step(r) \/ Fault(r)
        \/ Tick \/ Terminated

Spec == Init /\ [][Next]_vars

(* Time passes, and a request in flight goes on.                           *)
FairSpec == Spec /\ WF_vars(Tick) /\ \A r \in Requests : WF_vars(Step(r))

-----------------------------------------------------------------------------
(* Properties.                                                             *)

(* Shape of the state; a counter is never negative.                        *)
TypeOK ==
    /\ store \in [Keys -> [val : Nat, ttl : Nat]]
    /\ pc \in [Requests -> PcSet]
    /\ scopes \in [Requests -> Seq(Scopes)]
    /\ tokens \in [Requests -> Nat]
    /\ pos \in [Requests -> Nat \ {0}]
    /\ held \in [Requests -> SUBSET Scopes]
    /\ age \in [Requests -> 0 .. MaxRun]
    /\ result \in [Requests -> {"none", "admitted", "limited", "error"}]
    /\ lost \in [Scopes -> Nat]
    /\ tainted \subseteq Scopes

(* No counter outlives its window: whatever increments, releases, failures *)
(* and expiries do, a key that exists has a TTL.  A counter without one    *)
(* would block its API key, user or provider for good.                     *)
EveryCounterExpires == \A k \in Keys : store[k].val > 0 <=> store[k].ttl > 0

(* While a scope's counter has not expired under an owner, it counts every *)
(* slot that is held or lost and no other: refused and failed admissions   *)
(* give back exactly what they took.                                       *)
SlotsAccounted ==
    \A s \in Scopes \ tainted : ConcurrentRequests > 0 =>
        store[Key("concurrency", s)].val = Cardinality(Owners(s)) + lost[s]

(* Requests of scope s being served, whether they hold their slot or not.  *)
Running(s) == {r \in Requests : /\ pc[r] = "running"
                                /\ \E i \in DOMAIN scopes[r] : scopes[r][i] = s}

(* As long as no counter expired under an owner, no scope has more         *)
(* requests in flight than the policy allows.                              *)
LimitHoldsUntilExpiry ==
    ConcurrentRequests > 0 =>
        \A s \in Scopes \ tainted : Cardinality(Running(s)) <= ConcurrentRequests

(* Every counter starts over: slots lost to a crash, a dropped request or  *)
(* a failed release block nobody for longer than the TTL.                  *)
CountersReset == \A k \in Keys : store[k].val > 0 ~> store[k].val = 0

==============================================================================
