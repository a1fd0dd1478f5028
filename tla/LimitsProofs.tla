---------------------------- MODULE LimitsProofs -----------------------------
(***************************************************************************)
(* Proofs about Limits, for any number of requests and scopes, every       *)
(* policy and every TTL, with failing scripts, dropped requests and        *)
(* counters that expire under their owners.                                *)
(***************************************************************************)
EXTENDS Limits, TLAPS, FiniteSetTheorems

Counters == [Keys -> [val : Nat, ttl : Nat]]

(* A store whose counters all have a TTL, and none that is used up has.    *)
Sound(st) == st \in Counters /\ \A k \in Keys : st[k].val > 0 <=> st[k].ttl > 0

(* How far a request has come, and what it holds: while it checks a scope, *)
(* a slot of each earlier one, and none of this or a later one; while it   *)
(* runs, one of each.                                                      *)
Progress(r) ==
    /\ NoRepeats(scopes[r])
    /\ pc[r] = "idle" => held[r] = {} /\ pos[r] = 1
    /\ pc[r] = "tpm" => tokens[r] > 0
    /\ pc[r] \in Checking =>
           /\ pos[r] <= Len(scopes[r])
           /\ \A i \in DOMAIN scopes[r] : i >= pos[r] => scopes[r][i] \notin held[r]
           /\ ConcurrentRequests > 0 =>
                  \A i \in DOMAIN scopes[r] : i < pos[r] => scopes[r][i] \in held[r]
    /\ pc[r] = "running" /\ ConcurrentRequests > 0 =>
           \A i \in DOMAIN scopes[r] : scopes[r][i] \in held[r]

Val(s)     == store[Key("concurrency", s)].val
Holders(s) == {r \in Requests : s \in held[r]}

(* Owners are finitely many; the counter of an untainted scope counts them *)
(* and the lost slots, and was at most the limit when a slot was granted.  *)
SlotInv(s) ==
    /\ IsFiniteSet(Owners(s))
    /\ s \notin tainted => /\ Val(s) = Cardinality(Owners(s)) + lost[s]
                           /\ Cardinality(Holders(s)) <= ConcurrentRequests

LimitsInv ==
    /\ TypeOK
    /\ Sound(store)
    /\ \A r \in Requests : Progress(r)
    /\ ConcurrentRequests > 0 => \A s \in Scopes : SlotInv(s)

-----------------------------------------------------------------------------
(* The two scripts.                                                        *)

(* An increment keeps the store sound, adds to one counter, and leaves the *)
(* others alone.                                                           *)
LEMMA IncrementKeeps ==
    ASSUME Sound(store), NEW k \in Keys, NEW n \in Nat \ {0}, NEW t \in Nat \ {0}
    PROVE  /\ Sound(Incremented(k, n, t))
           /\ Incremented(k, n, t)[k].val = store[k].val + n
           /\ \A j \in Keys \ {k} : Incremented(k, n, t)[j] = store[j]
<1> DEFINE v   == store[k].val + n
           new == [val |-> v, ttl |-> IF v = n THEN t ELSE store[k].ttl]
<1>1. store \in Counters /\ store[k].val \in Nat /\ store[k].ttl \in Nat
      /\ (store[k].val > 0 <=> store[k].ttl > 0)
  BY DEF Sound, Counters
<1>2. Incremented(k, n, t) = [store EXCEPT ![k] = new]
  BY DEF Incremented
<1>3. new \in [val : Nat, ttl : Nat] /\ new.val = v /\ new.val > 0 /\ new.ttl > 0
  BY <1>1
<1> HIDE DEF new
<1>4. QED
  BY <1>1, <1>2, <1>3 DEF Sound, Counters

(* A release keeps the store sound, takes one from a counter that is not   *)
(* used up, and leaves the others alone.                                   *)
LEMMA ReleaseKeeps ==
    ASSUME Sound(store), NEW k \in Keys
    PROVE  /\ Sound(Released(k))
           /\ store[k].val > 0 => Released(k)[k].val = store[k].val - 1
           /\ \A j \in Keys \ {k} : Released(k)[j] = store[j]
<1> DEFINE new == IF store[k].val - 1 <= 0 THEN Absent
                  ELSE [val |-> store[k].val - 1, ttl |-> store[k].ttl]
<1>1. store \in Counters /\ store[k] \in [val : Nat, ttl : Nat]
      /\ (store[k].val > 0 <=> store[k].ttl > 0)
  BY DEF Sound, Counters
<1>2. CASE store[k].val = 0
  BY <1>2 DEF Released
<1>3. CASE store[k].val # 0
  <2>1. Released(k) = [store EXCEPT ![k] = new]
    BY <1>3 DEF Released
  <2>2. /\ new \in [val : Nat, ttl : Nat] /\ new.val = store[k].val - 1
        /\ (new.val > 0 <=> new.ttl > 0)
    BY <1>1, <1>3 DEF Absent
  <2> HIDE DEF new
  <2>3. QED
    BY <1>1, <2>1, <2>2 DEF Sound, Counters
<1>4. QED
  BY <1>2, <1>3

(* The initial state satisfies the invariant.                              *)
LEMMA InitInv == Init => LimitsInv
<1>1. SUFFICES ASSUME Init PROVE LimitsInv
  OBVIOUS
<1>2. TypeOK /\ Sound(store)
  BY <1>1, LimitsAssumption DEF Init, TypeOK, Sound, Counters, Absent, PcSet
<1>3. ASSUME NEW r \in Requests PROVE Progress(r)
  BY <1>1 DEF Init, Progress, Checking, NoRepeats
<1>4. ASSUME NEW s \in Scopes PROVE SlotInv(s)
  <2>1. Owners(s) = {} /\ Holders(s) = {}
    BY <1>1 DEF Init, Owners, Holders
  <2>2. Val(s) = 0 /\ lost[s] = 0
    BY <1>1 DEF Init, Val, Key, Keys, Dims, Absent
  <2>3. QED
    BY <2>1, <2>2, FS_EmptySet, LimitsAssumption DEF SlotInv
<1>5. QED
  BY <1>2, <1>3, <1>4 DEF LimitsInv

-----------------------------------------------------------------------------
(* Types, the store, and what a step leaves alone.                         *)

(* A step of one request.                                                  *)
Act(r) == Start(r) \/ Step(r) \/ Fault(r)

(* The scope being checked is one of the request's, and not yet held.      *)
LEMMA CheckingScope ==
    ASSUME TypeOK, NEW r \in Requests, Progress(r), pc[r] \in Checking
    PROVE  /\ Scope(r) \in Scopes /\ pos[r] \in DOMAIN scopes[r] /\ Scope(r) \notin held[r]
           /\ \A d \in Dims : Key(d, Scope(r)) \in Keys
<1>1. scopes[r] \in Seq(Scopes) /\ pos[r] \in Nat \ {0} /\ pos[r] <= Len(scopes[r])
  BY DEF TypeOK, Progress
<1>2. pos[r] \in DOMAIN scopes[r] /\ Scope(r) \in Scopes
  BY <1>1 DEF Scope
<1>3. Scope(r) \notin held[r]
  BY <1>1, <1>2 DEF Progress, Scope
<1>4. QED
  BY <1>2, <1>3 DEF Key, Keys

(* TTLs are positive.                                                      *)
LEMMA TtlPositive == \A n \in Nat : Ttl(n) \in Nat \ {0}
  BY DEF Ttl

(* Every step of a request keeps the store sound.                          *)
LEMMA ActStore ==
    ASSUME LimitsInv, NEW r \in Requests, Act(r)
    PROVE  Sound(store')
<1>1. TypeOK /\ Sound(store) /\ Progress(r)
  BY DEF LimitsInv
<1>2. {WindowSeconds, LeaseSeconds} \subseteq Nat /\ {"rpm", "tpm", "concurrency"} \subseteq Dims
  BY LimitsAssumption DEF Dims
<1>3. ASSUME pc[r] \in Checking
      PROVE  /\ Sound(Incremented(Key("rpm", Scope(r)), 1, Ttl(WindowSeconds)))
             /\ pc[r] = "tpm" => Sound(Incremented(Key("tpm", Scope(r)), tokens[r], Ttl(WindowSeconds)))
             /\ Sound(Incremented(Key("concurrency", Scope(r)), 1, Ttl(LeaseSeconds)))
             /\ Sound(Released(Key("concurrency", Scope(r))))
  <2>1. \A d \in Dims : Key(d, Scope(r)) \in Keys
    BY <1>1, <1>3, CheckingScope
  <2>2. Ttl(WindowSeconds) \in Nat \ {0} /\ Ttl(LeaseSeconds) \in Nat \ {0}
    BY <1>2, TtlPositive
  <2>3. pc[r] = "tpm" => tokens[r] \in Nat \ {0}
    BY <1>1 DEF Progress, TypeOK
  <2>4. QED
    BY <1>1, <1>2, <2>1, <2>2, <2>3, IncrementKeeps, ReleaseKeeps
<1>4. CASE store' = store
  BY <1>1, <1>4
<1>5. CASE CheckRequestCounter(r) \/ CheckTokenCounter(r) \/ AcquireConcurrency(r) \/ UndoConcurrency(r)
           \/ ScriptError(r)
  <2>1. pc[r] \in Checking
    BY <1>5 DEF CheckRequestCounter, CheckTokenCounter, AcquireConcurrency, UndoConcurrency,
                ScriptError, Checking
  <2>2. \/ store' = store
        \/ store' = Incremented(Key("rpm", Scope(r)), 1, Ttl(WindowSeconds))
        \/ pc[r] = "tpm" /\ store' = Incremented(Key("tpm", Scope(r)), tokens[r], Ttl(WindowSeconds))
        \/ store' = Incremented(Key("concurrency", Scope(r)), 1, Ttl(LeaseSeconds))
        \/ store' = Released(Key("concurrency", Scope(r)))
    BY <1>5, Zenon DEF CheckRequestCounter, CheckTokenCounter, AcquireConcurrency,
                UndoConcurrency, ScriptError
  <2>3. QED
    BY <1>1, <1>3, <2>1, <2>2
<1>6. CASE ReleaseOne(r)
  <2>1. PICK s \in held[r] : store' = store \/ store' = Released(Key("concurrency", s))
    BY <1>6 DEF ReleaseOne
  <2>2. Key("concurrency", s) \in Keys
    BY <1>1, <2>1 DEF TypeOK, Key, Keys, Dims
  <2>3. QED
    BY <1>1, <2>1, <2>2, ReleaseKeeps
<1>7. QED
  BY <1>4, <1>5, <1>6 DEF Act, Step, Fault, Start, ConnectError, EndRun, ReleaseDone, Die

(* The types of what is not the store.                                     *)
LEMMA ActTypes ==
    ASSUME LimitsInv, NEW r \in Requests, Act(r)
    PROVE  TypeOK'
<1>1. TypeOK /\ Progress(r) /\ store' \in [Keys -> [val : Nat, ttl : Nat]]
  BY ActStore DEF LimitsInv, Sound, Counters
<1>2. FromRpm(tokens[r]) \in Checking /\ FromTpm(tokens[r]) \in Checking
  BY DEF FromRpm, FromTpm, Checking
<1>3. pc[r] \in Checking => Scope(r) \in Scopes
  BY <1>1, CheckingScope
<1> USE <1>1 DEF TypeOK, locals
<1>4. CASE Start(r)
  <2>1. PICK l \in ScopeLists, n \in Tokens :
            /\ scopes' = [scopes EXCEPT ![r] = l]
            /\ tokens' = [tokens EXCEPT ![r] = n]
            /\ IF Disabled \/ l = <<>>
               THEN Goto(r, "running") /\ result' = [result EXCEPT ![r] = "admitted"]
               ELSE Goto(r, FromRpm(n)) /\ UNCHANGED result
    BY <1>4 DEF Start
  <2>2. l \in Seq(Scopes) /\ n \in Nat /\ FromRpm(n) \in PcSet
    BY LimitsAssumption DEF FromRpm, PcSet, Checking
  <2>3. scopes' \in [Requests -> Seq(Scopes)] /\ tokens' \in [Requests -> Nat]
    BY <2>1, <2>2
  <2>4. pc' \in [Requests -> PcSet]
    BY <2>1, <2>2 DEF Goto, PcSet
  <2>5. result' \in [Requests -> {"none", "admitted", "limited", "error"}]
    BY <2>1
  <2>6. QED
    BY <1>4, <2>3, <2>4, <2>5 DEF Start
<1>5. CASE ConnectError(r)
  BY <1>5 DEF ConnectError, Goto, PcSet
<1>6. CASE CheckRequestCounter(r) \/ CheckTokenCounter(r)
  <2>1. pc' \in [Requests -> PcSet]
    BY <1>2, <1>6 DEF CheckRequestCounter, CheckTokenCounter, Fail, Goto, PcSet, Checking
  <2>2. result' \in [Requests -> {"none", "admitted", "limited", "error"}]
    BY <1>6 DEF CheckRequestCounter, CheckTokenCounter, Fail
  <2>3. QED
    BY <1>6, <2>1, <2>2 DEF CheckRequestCounter, CheckTokenCounter
<1>7. CASE AcquireConcurrency(r)
  <2>1. Scope(r) \in Scopes
    BY <1>3, <1>7 DEF AcquireConcurrency, Checking
  <2>2. pc' \in [Requests -> PcSet]
    BY <1>2, <1>7 DEF AcquireConcurrency, Advance, Goto, PcSet, Checking
  <2>3. pos' \in [Requests -> Nat \ {0}]
    <3>1. pos' = pos \/ pos' = [pos EXCEPT ![r] = pos[r] + 1]
      BY <1>7 DEF AcquireConcurrency, Advance
    <3>2. pos \in [Requests -> Nat \ {0}] /\ pos[r] + 1 \in Nat \ {0}
      OBVIOUS
    <3>3. QED
      BY <3>1, <3>2
  <2>4. result' \in [Requests -> {"none", "admitted", "limited", "error"}]
    BY <1>7 DEF AcquireConcurrency, Advance
  <2>5. held' \in [Requests -> SUBSET Scopes]
    <3>1. held' = held \/ held' = [held EXCEPT ![r] = held[r] \cup {Scope(r)}]
      BY <1>7 DEF AcquireConcurrency
    <3>2. held \in [Requests -> SUBSET Scopes] /\ held[r] \cup {Scope(r)} \in SUBSET Scopes
      BY <2>1
    <3>3. QED
      BY <3>1, <3>2
  <2>6. QED
    BY <1>7, <2>2, <2>3, <2>4, <2>5 DEF AcquireConcurrency
<1>8. CASE UndoConcurrency(r)
  BY <1>8 DEF UndoConcurrency, Fail, Goto, PcSet
<1>9. CASE ScriptError(r)
  <2>1. Scope(r) \in Scopes
    BY <1>3, <1>9 DEF ScriptError
  <2>2. lost' \in [Scopes -> Nat]
    <3>1. lost' = lost \/ lost' = [lost EXCEPT ![Scope(r)] = lost[Scope(r)] + 1]
      BY <1>9 DEF ScriptError
    <3>2. lost \in [Scopes -> Nat] /\ lost[Scope(r)] + 1 \in Nat
      BY <2>1
    <3>3. QED
      BY <3>1, <3>2
  <2>3. pc' \in [Requests -> PcSet] /\ result' \in [Requests -> {"none", "admitted", "limited", "error"}]
    BY <1>9 DEF ScriptError, Fail, Goto, PcSet
  <2>4. QED
    BY <1>9, <2>2, <2>3 DEF ScriptError
<1>10. CASE EndRun(r)
  BY <1>10, LimitsAssumption DEF EndRun, Goto, PcSet
<1>11. CASE ReleaseOne(r)
  <2>1. held' \in [Requests -> SUBSET Scopes]
    BY <1>11 DEF ReleaseOne
  <2>2. lost' \in [Scopes -> Nat]
    <3>1. PICK s \in held[r] : lost' = lost \/ lost' = [lost EXCEPT ![s] = lost[s] + 1]
      BY <1>11 DEF ReleaseOne
    <3>2. lost \in [Scopes -> Nat] /\ s \in Scopes /\ lost[s] + 1 \in Nat
      BY <3>1
    <3>3. QED
      BY <3>1, <3>2
  <2>3. QED
    BY <1>11, <2>1, <2>2 DEF ReleaseOne
<1>12. CASE ReleaseDone(r)
  BY <1>12 DEF ReleaseDone, Goto, PcSet
<1>13. CASE Die(r)
  BY <1>13, LimitsAssumption DEF Die, Goto, PcSet
<1>14. QED
  BY <1>4, <1>5, <1>6, <1>7, <1>8, <1>9, <1>10, <1>11, <1>12, <1>13 DEF Act, Step, Fault

(* A step of a request leaves the others where they are.                   *)
LEMMA ActElsewhere ==
    ASSUME LimitsInv, NEW r \in Requests, Act(r), NEW q \in Requests \ {r}
    PROVE  /\ pc'[q] = pc[q] /\ scopes'[q] = scopes[q] /\ tokens'[q] = tokens[q]
           /\ pos'[q] = pos[q] /\ held'[q] = held[q]
<1>1. TypeOK
  BY DEF LimitsInv
<1> USE DEF locals
<1>2. CASE Start(r)
  <2>1. PICK l \in ScopeLists, n \in Tokens :
            /\ scopes' = [scopes EXCEPT ![r] = l]
            /\ tokens' = [tokens EXCEPT ![r] = n]
            /\ \/ pc' = [pc EXCEPT ![r] = "running"]
               \/ pc' = [pc EXCEPT ![r] = FromRpm(n)]
    BY <1>2 DEF Start, Goto
  <2>2. UNCHANGED <<pos, held>>
    BY <1>2 DEF Start
  <2>3. QED
    BY <1>1, <2>1, <2>2 DEF TypeOK
<1>3. CASE AcquireConcurrency(r)
  <2>1. PICK p : pc' = [pc EXCEPT ![r] = p]
    BY <1>3 DEF AcquireConcurrency, Advance, Goto
  <2>2. pos' = pos \/ pos' = [pos EXCEPT ![r] = pos[r] + 1]
    BY <1>3 DEF AcquireConcurrency, Advance
  <2>3. held' = held \/ held' = [held EXCEPT ![r] = held[r] \cup {Scope(r)}]
    BY <1>3 DEF AcquireConcurrency
  <2>4. UNCHANGED <<scopes, tokens>>
    BY <1>3 DEF AcquireConcurrency
  <2>5. QED
    BY <1>1, <2>1, <2>2, <2>3, <2>4 DEF TypeOK
<1>4. CASE ReleaseOne(r)
  <2>1. PICK s \in held[r] : held' = [held EXCEPT ![r] = held[r] \ {s}]
    BY <1>4 DEF ReleaseOne
  <2>2. UNCHANGED <<pc, scopes, tokens, pos>>
    BY <1>4 DEF ReleaseOne
  <2>3. QED
    BY <1>1, <2>1, <2>2 DEF TypeOK
<1>5. CASE Die(r)
  BY <1>1, <1>5 DEF Die, Goto, TypeOK
<1>6. CASE \/ ConnectError(r) \/ CheckRequestCounter(r) \/ CheckTokenCounter(r)
           \/ UndoConcurrency(r) \/ ScriptError(r) \/ EndRun(r) \/ ReleaseDone(r)
  <2>1. UNCHANGED <<scopes, tokens, pos, held>>
    BY <1>6 DEF ConnectError, CheckRequestCounter, CheckTokenCounter, UndoConcurrency,
                ScriptError, EndRun, ReleaseDone
  <2>2. PICK p : pc' = [pc EXCEPT ![r] = p]
    BY <1>6 DEF ConnectError, CheckRequestCounter, CheckTokenCounter, UndoConcurrency,
                ScriptError, EndRun, ReleaseDone, Goto, Fail
  <2>3. QED
    BY <1>1, <2>1, <2>2 DEF TypeOK
<1>7. QED
  BY <1>2, <1>3, <1>4, <1>5, <1>6 DEF Act, Step, Fault

(* All checks of a scope passed: the next scope, or the request runs.      *)
LEMMA AcquireProgress ==
    ASSUME LimitsInv, NEW r \in Requests, AcquireConcurrency(r)
    PROVE  Progress(r)'
<1>1. TypeOK /\ Progress(r) /\ pc[r] = "concurrency" /\ UNCHANGED <<scopes, tokens>>
  BY DEF LimitsInv, AcquireConcurrency
<1>2. /\ scopes[r] \in Seq(Scopes) /\ pos[r] \in Nat \ {0} /\ pos[r] <= Len(scopes[r])
      /\ DOMAIN scopes[r] = 1 .. Len(scopes[r]) /\ Len(scopes[r]) \in Nat
      /\ NoRepeats(scopes[r]) /\ pos[r] \in DOMAIN scopes[r]
  BY <1>1 DEF Progress, TypeOK, Checking
<1>3. CASE Goto(r, "undo") /\ UNCHANGED <<held, pos>>
  <2>1. pc'[r] = "undo"
    BY <1>1, <1>3 DEF Goto, TypeOK
  <2>2. QED
    BY <1>1, <1>3, <2>1 DEF Progress, Checking
<1>4. CASE Advance(r) /\ (IF ConcurrentRequests = 0 THEN held' = held
                          ELSE held' = [held EXCEPT ![r] = held[r] \cup {Scope(r)}])
  <2>1. /\ \A i \in DOMAIN scopes[r] : i > pos[r] => scopes[r][i] \notin held'[r]
        /\ ConcurrentRequests > 0 =>
               \A i \in DOMAIN scopes[r] : i <= pos[r] => scopes[r][i] \in held'[r]
    <3>1. held'[r] = IF ConcurrentRequests = 0 THEN held[r] ELSE held[r] \cup {scopes[r][pos[r]]}
      BY <1>1, <1>4 DEF TypeOK, Scope
    <3>2. /\ \A i \in DOMAIN scopes[r] : i >= pos[r] => scopes[r][i] \notin held[r]
          /\ ConcurrentRequests > 0 =>
                 \A i \in DOMAIN scopes[r] : i < pos[r] => scopes[r][i] \in held[r]
      BY <1>1 DEF Progress, Checking
    <3>3. \A i \in DOMAIN scopes[r] : i > pos[r] => scopes[r][i] # scopes[r][pos[r]]
      BY <1>2 DEF NoRepeats
    <3>4. \A i \in DOMAIN scopes[r] : i > pos[r] => scopes[r][i] \notin held'[r]
      BY <1>2, <3>1, <3>2, <3>3
    <3>5. ASSUME ConcurrentRequests > 0, NEW i \in DOMAIN scopes[r], i <= pos[r]
          PROVE  scopes[r][i] \in held'[r]
      <4>1. held'[r] = held[r] \cup {scopes[r][pos[r]]}
        BY <3>1, <3>5
      <4>2. i < pos[r] \/ i = pos[r]
        BY <1>2, <3>5
      <4>3. QED
        BY <3>2, <3>5, <4>1, <4>2
    <3>6. QED
      BY <3>4, <3>5
  <2>2. CASE pos[r] < Len(scopes[r])
    <3>1. pos'[r] = pos[r] + 1 /\ pc'[r] = FromRpm(tokens[r])
      BY <1>1, <1>4, <2>2 DEF Advance, Goto, TypeOK
    <3>2. pc'[r] \in Checking /\ pc'[r] \notin {"idle", "running"}
          /\ (pc'[r] = "tpm" => tokens[r] > 0)
      BY <3>1 DEF FromRpm, Checking
    <3>3. \A i \in DOMAIN scopes[r] : /\ i >= pos[r] + 1 => i > pos[r]
                                      /\ i < pos[r] + 1 => i <= pos[r]
      BY <1>2
    <3>4. pos[r] + 1 <= Len(scopes[r])
      BY <1>2, <2>2
    <3>5. /\ \A i \in DOMAIN scopes[r] : i >= pos[r] + 1 => scopes[r][i] \notin held'[r]
          /\ ConcurrentRequests > 0 =>
                 \A i \in DOMAIN scopes[r] : i < pos[r] + 1 => scopes[r][i] \in held'[r]
      BY <2>1, <3>3
    <3>6. scopes'[r] = scopes[r] /\ tokens'[r] = tokens[r]
      BY <1>1
    <3>7. QED
      BY <1>2, <3>1, <3>2, <3>4, <3>5, <3>6 DEF Progress
  <2>3. CASE ~(pos[r] < Len(scopes[r]))
    <3>1. pc'[r] = "running"
      BY <1>1, <1>4, <2>3 DEF Advance, Goto, TypeOK
    <3>2. \A i \in DOMAIN scopes[r] : i <= pos[r]
      BY <1>2, <2>3
    <3>3. ConcurrentRequests > 0 => \A i \in DOMAIN scopes[r] : scopes[r][i] \in held'[r]
      BY <2>1, <3>2
    <3>4. scopes'[r] = scopes[r]
      BY <1>1
    <3>5. QED
      BY <1>2, <3>1, <3>3, <3>4 DEF Progress, Checking
  <2>4. QED
    BY <2>2, <2>3
<1>5. QED
  BY <1>3, <1>4 DEF AcquireConcurrency

(* A request that acts goes on as Progress says.                           *)
LEMMA ActProgress ==
    ASSUME LimitsInv, NEW r \in Requests, Act(r)
    PROVE  Progress(r)'
<1>1. TypeOK /\ Progress(r)
  BY DEF LimitsInv
<1>2. CASE Start(r)
  <2>1. PICK l \in ScopeLists, n \in Tokens :
            /\ scopes' = [scopes EXCEPT ![r] = l]
            /\ tokens' = [tokens EXCEPT ![r] = n]
            /\ IF Disabled \/ l = <<>>
               THEN Goto(r, "running") /\ result' = [result EXCEPT ![r] = "admitted"]
               ELSE Goto(r, FromRpm(n)) /\ UNCHANGED result
    BY <1>2 DEF Start
  <2>2. scopes'[r] = l /\ tokens'[r] = n /\ held'[r] = {} /\ pos'[r] = 1
    BY <1>1, <1>2, <2>1 DEF Start, TypeOK, Progress
  <2>3. l \in Seq(Scopes) /\ NoRepeats(l) /\ n \in Nat
    BY LimitsAssumption
  <2>4. CASE Disabled \/ l = <<>>
    <3>1. pc'[r] = "running"
      BY <1>1, <2>1, <2>4 DEF Goto, TypeOK
    <3>2. ConcurrentRequests > 0 => l = <<>>
      BY <2>4, LimitsAssumption DEF Disabled
    <3>3. l = <<>> => DOMAIN l = {}
      OBVIOUS
    <3>4. QED
      BY <2>2, <2>3, <3>1, <3>2, <3>3 DEF Progress, Checking
  <2>5. CASE ~(Disabled \/ l = <<>>)
    <3>1. pc'[r] = FromRpm(n)
      BY <1>1, <2>1, <2>5 DEF Goto, TypeOK
    <3>2. pc'[r] \in Checking /\ pc'[r] \notin {"idle", "running"} /\ (pc'[r] = "tpm" => n > 0)
      BY <3>1 DEF FromRpm, Checking
    <3>3. 1 <= Len(l) /\ \A i \in DOMAIN l : ~(i < 1)
      BY <2>3, <2>5
    <3>4. QED
      BY <2>2, <2>3, <3>2, <3>3 DEF Progress
  <2>6. QED
    BY <2>4, <2>5
<1>3. CASE AcquireConcurrency(r)
  BY <1>3, AcquireProgress
<1>4. CASE CheckRequestCounter(r) \/ CheckTokenCounter(r)
  <2>1. /\ pc[r] \in Checking /\ UNCHANGED <<scopes, tokens, pos, held>>
        /\ pc'[r] \in {"rollback", "concurrency", FromTpm(tokens[r])}
    BY <1>1, <1>4 DEF CheckRequestCounter, CheckTokenCounter, Fail, Goto, TypeOK, locals, Checking
  <2>2. pc'[r] = "tpm" => tokens[r] > 0
    BY <2>1 DEF FromTpm
  <2>3. pc'[r] \in Checking \cup {"rollback"} /\ pc'[r] \notin {"idle", "running"}
    BY <2>1 DEF FromTpm, Checking
  <2>4. QED
    BY <1>1, <2>1, <2>2, <2>3 DEF Progress, Checking
<1>5. CASE \/ ConnectError(r) \/ UndoConcurrency(r) \/ ScriptError(r) \/ EndRun(r) \/ ReleaseDone(r)
           \/ Die(r)
  <2>1. pc'[r] \in {"rollback", "release", "done"} /\ UNCHANGED scopes
    BY <1>1, <1>5 DEF ConnectError, UndoConcurrency, ScriptError, EndRun, ReleaseDone, Die,
                      Goto, Fail, TypeOK, locals
  <2>2. QED
    BY <1>1, <2>1 DEF Progress, Checking
<1>6. CASE ReleaseOne(r)
  <2>1. pc'[r] \in {"rollback", "release"} /\ UNCHANGED scopes
    BY <1>6 DEF ReleaseOne, locals
  <2>2. QED
    BY <1>1, <2>1 DEF Progress, Checking
<1>7. QED
  BY <1>2, <1>3, <1>4, <1>5, <1>6 DEF Act, Step, Fault

-----------------------------------------------------------------------------
(* The slots of a scope.                                                   *)

(* Whether a request has a share in the counter of s.                      *)
Owns(r, s) == s \in held[r] \/ (pc[r] = "undo" /\ Scope(r) = s)

(* The ways a step of a request changes the share of that request in the   *)
(* counter of s, the counter, and the lost slots of s.                     *)
SlotMove(r, s) ==
    \/ (Owns(r, s)' <=> Owns(r, s)) /\ Val(s)' = Val(s) /\ lost'[s] = lost[s]
    \/ ~Owns(r, s) /\ Owns(r, s)' /\ Val(s)' = Val(s) + 1 /\ lost'[s] = lost[s]
    \/ Owns(r, s) /\ ~Owns(r, s)' /\ lost'[s] = lost[s] /\ (Val(s) > 0 => Val(s)' = Val(s) - 1)
    \/ Owns(r, s) /\ ~Owns(r, s)' /\ Val(s)' = Val(s) /\ lost'[s] = lost[s] + 1
    \/ (Owns(r, s)' <=> Owns(r, s)) /\ Val(s)' = Val(s) + 1 /\ lost'[s] = lost[s] + 1

(* A slot is granted only within the limit.                                *)
Granted(r, s) == s \in held'[r] => s \in held[r] \/ Val(s)' <= ConcurrentRequests

(* Scripts on a counter leave those of other dimensions and scopes alone.  *)
LEMMA KeysDiffer ==
    ASSUME NEW s \in Scopes, NEW t \in Scopes
    PROVE  /\ Key("concurrency", s) \in Keys /\ Key("rpm", t) \in Keys /\ Key("tpm", t) \in Keys
           /\ Key("concurrency", s) # Key("rpm", t) /\ Key("concurrency", s) # Key("tpm", t)
           /\ s # t => Key("concurrency", s) # Key("concurrency", t)
  BY DEF Key, Keys, Dims

(* What the scripts do to the concurrency counter of s.                    *)
LEMMA ScriptVal ==
    ASSUME LimitsInv, NEW r \in Requests, pc[r] \in Checking, NEW s \in Scopes
    PROVE  /\ store' = Incremented(Key("rpm", Scope(r)), 1, Ttl(WindowSeconds)) => Val(s)' = Val(s)
           /\ pc[r] = "tpm" /\ store' = Incremented(Key("tpm", Scope(r)), tokens[r], Ttl(WindowSeconds))
                  => Val(s)' = Val(s)
           /\ store' = Incremented(Key("concurrency", Scope(r)), 1, Ttl(LeaseSeconds)) =>
                  Val(s)' = IF s = Scope(r) THEN Val(s) + 1 ELSE Val(s)
<1>1. TypeOK /\ Sound(store) /\ Progress(r) /\ Scope(r) \in Scopes
  BY CheckingScope DEF LimitsInv
<1>2. Ttl(WindowSeconds) \in Nat \ {0} /\ Ttl(LeaseSeconds) \in Nat \ {0} /\ 1 \in Nat \ {0}
  BY TtlPositive, LimitsAssumption
<1>3. pc[r] = "tpm" => tokens[r] \in Nat \ {0}
  BY <1>1 DEF Progress, TypeOK
<1>4. store' = Incremented(Key("rpm", Scope(r)), 1, Ttl(WindowSeconds)) => Val(s)' = Val(s)
  BY <1>1, <1>2, KeysDiffer, IncrementKeeps DEF Val
<1>5. pc[r] = "tpm" /\ store' = Incremented(Key("tpm", Scope(r)), tokens[r], Ttl(WindowSeconds))
          => Val(s)' = Val(s)
  BY <1>1, <1>2, <1>3, KeysDiffer, IncrementKeeps DEF Val
<1>6. store' = Incremented(Key("concurrency", Scope(r)), 1, Ttl(LeaseSeconds)) =>
          Val(s)' = IF s = Scope(r) THEN Val(s) + 1 ELSE Val(s)
  <2>1. CASE s = Scope(r)
    BY <1>1, <1>2, <2>1, KeysDiffer, IncrementKeeps DEF Val
  <2>2. CASE s # Scope(r)
    BY <1>1, <1>2, <2>2, KeysDiffer, IncrementKeeps DEF Val
  <2>3. QED
    BY <2>1, <2>2
<1>7. QED
  BY <1>4, <1>5, <1>6

(* What a release does to it.                                              *)
LEMMA ReleaseVal ==
    ASSUME LimitsInv, NEW s \in Scopes, NEW t \in Scopes,
           store' = Released(Key("concurrency", t))
    PROVE  /\ s # t => Val(s)' = Val(s)
           /\ s = t /\ Val(s) > 0 => Val(s)' = Val(s) - 1
<1>1. Sound(store)
  BY DEF LimitsInv
<1>2. CASE s = t
  BY <1>1, <1>2, KeysDiffer, ReleaseKeeps DEF Val
<1>3. CASE s # t
  BY <1>1, <1>3, KeysDiffer, ReleaseKeeps DEF Val
<1>4. QED
  BY <1>2, <1>3

(* A step that changes neither the counter nor what is held, nor begins or *)
(* ends an undo.                                                           *)
LEMMA QuietSlots ==
    ASSUME NEW r \in Requests, NEW s \in Scopes, held'[r] = held[r],
           pc[r] # "undo", pc'[r] # "undo", Val(s)' = Val(s), lost'[s] = lost[s]
    PROVE  SlotMove(r, s) /\ Granted(r, s)
<1>1. Owns(r, s)' <=> Owns(r, s)
  BY DEF Owns
<1>2. QED
  BY <1>1 DEF SlotMove, Granted

(* acquire_concurrency_lease: a share is taken with the increment, granted *)
(* or to be undone.                                                        *)
LEMMA AcquireSlots ==
    ASSUME LimitsInv, NEW r \in Requests, AcquireConcurrency(r), NEW s \in Scopes,
           ConcurrentRequests > 0
    PROVE  SlotMove(r, s) /\ Granted(r, s)
<1>1. TypeOK /\ Progress(r) /\ pc[r] = "concurrency" /\ pc[r] \in Checking
  BY DEF LimitsInv, AcquireConcurrency, Checking
<1>2. Scope(r) \in Scopes /\ Scope(r) \notin held[r] /\ UNCHANGED <<scopes, tokens, lost>>
  BY <1>1, CheckingScope DEF AcquireConcurrency
<1>3. store' = Incremented(Key("concurrency", Scope(r)), 1, Ttl(LeaseSeconds))
  BY LimitsAssumption DEF AcquireConcurrency
<1>4. Val(s)' = IF s = Scope(r) THEN Val(s) + 1 ELSE Val(s)
  BY <1>1, <1>3, ScriptVal
<1>5. CASE Goto(r, "undo") /\ UNCHANGED <<held, pos>>
  <2>1. pc'[r] = "undo" /\ Scope(r)' = Scope(r)
    BY <1>1, <1>2, <1>5 DEF Goto, TypeOK, Scope
  <2>2. Owns(r, s)' <=> s \in held[r] \/ s = Scope(r)
    BY <1>5, <2>1 DEF Owns
  <2>3. Owns(r, s) <=> s \in held[r]
    BY <1>1 DEF Owns
  <2>4. SlotMove(r, s)
    BY <1>2, <1>4, <2>2, <2>3 DEF SlotMove
  <2>5. QED
    BY <1>5, <2>4 DEF Granted
<1>6. CASE /\ ~(store'[Key("concurrency", Scope(r))].val > ConcurrentRequests)
           /\ held' = [held EXCEPT ![r] = held[r] \cup {Scope(r)}] /\ Advance(r)
  <2>1. pc'[r] # "undo"
    BY <1>1, <1>6 DEF Advance, Goto, TypeOK, FromRpm
  <2>2. held'[r] = held[r] \cup {Scope(r)}
    BY <1>1, <1>6 DEF TypeOK
  <2>3. (Owns(r, s) <=> s \in held[r]) /\ (Owns(r, s)' <=> s \in held[r] \/ s = Scope(r))
    BY <1>1, <2>1, <2>2 DEF Owns
  <2>4. SlotMove(r, s)
    BY <1>2, <1>4, <2>3 DEF SlotMove
  <2>5. s = Scope(r) => Val(s)' <= ConcurrentRequests
    <3>1. SUFFICES ASSUME s = Scope(r) PROVE Val(s)' <= ConcurrentRequests
      OBVIOUS
    <3>2. Val(s)' = store'[Key("concurrency", Scope(r))].val
      BY <3>1 DEF Val, Key
    <3>3. Val(s) \in Nat
      BY <1>1, KeysDiffer DEF Val, TypeOK
    <3>4. Val(s)' \in Nat
      BY <1>4, <3>3
    <3>5. QED
      BY <1>6, <3>2, <3>4, LimitsAssumption
  <2>6. QED
    BY <2>2, <2>4, <2>5 DEF Granted
<1>7. QED
  BY <1>5, <1>6, LimitsAssumption DEF AcquireConcurrency

(* A share is undone, or lost with a script that fails.                    *)
LEMMA UndoSlots ==
    ASSUME LimitsInv, NEW r \in Requests, UndoConcurrency(r) \/ ScriptError(r), NEW s \in Scopes,
           ConcurrentRequests > 0
    PROVE  SlotMove(r, s) /\ Granted(r, s)
<1>1. TypeOK /\ Progress(r) /\ pc[r] \in Checking /\ held' = held
  BY DEF LimitsInv, UndoConcurrency, ScriptError, Checking
<1>2. Scope(r) \in Scopes /\ Scope(r) \notin held[r]
  BY <1>1, CheckingScope
<1>3. pc'[r] = "rollback"
  BY <1>1 DEF UndoConcurrency, ScriptError, Fail, Goto, TypeOK
<1>4. Owns(r, s)' <=> s \in held[r]
  BY <1>1, <1>3 DEF Owns
<1>5. Owns(r, s) <=> s \in held[r] \/ (pc[r] = "undo" /\ s = Scope(r))
  BY DEF Owns
<1>6. CASE pc[r] = "undo" /\ lost' = lost /\ store' = Released(Key("concurrency", Scope(r)))
  <2>1. /\ s # Scope(r) => Val(s)' = Val(s)
        /\ s = Scope(r) /\ Val(s) > 0 => Val(s)' = Val(s) - 1
    BY <1>2, <1>6, ReleaseVal
  <2>2. QED
    BY <1>1, <1>2, <1>4, <1>5, <1>6, <2>1 DEF SlotMove, Granted
<1>7. CASE pc[r] = "undo" /\ lost' = [lost EXCEPT ![Scope(r)] = lost[Scope(r)] + 1] /\ store' = store
  <2>1. lost'[s] = IF s = Scope(r) THEN lost[s] + 1 ELSE lost[s]
    BY <1>1, <1>2, <1>7 DEF TypeOK
  <2>2. Val(s)' = Val(s)
    BY <1>7 DEF Val
  <2>3. QED
    BY <1>1, <1>2, <1>4, <1>5, <1>7, <2>1, <2>2 DEF SlotMove, Granted
<1>8. CASE pc[r] # "undo"
  <2>1. ScriptError(r)
    BY <1>8 DEF UndoConcurrency
  <2>2. CASE lost' = lost /\ (\/ store' = store
                              \/ store' = Incremented(Key("rpm", Scope(r)), 1, Ttl(WindowSeconds))
                              \/ pc[r] = "tpm" /\ store' = Incremented(Key("tpm", Scope(r)), tokens[r],
                                                                       Ttl(WindowSeconds)))
    <3>1. Val(s)' = Val(s)
      <4>1. CASE store' = store
        BY <4>1 DEF Val
      <4>2. QED
        BY <1>1, <2>2, <4>1, ScriptVal
    <3>2. QED
      BY <1>1, <1>3, <1>8, <2>2, <3>1, QuietSlots
  <2>3. CASE /\ store' = Incremented(Key("concurrency", Scope(r)), 1, Ttl(LeaseSeconds))
             /\ lost' = [lost EXCEPT ![Scope(r)] = lost[Scope(r)] + 1]
    <3>1. lost'[s] = IF s = Scope(r) THEN lost[s] + 1 ELSE lost[s]
      BY <1>1, <1>2, <2>3 DEF TypeOK
    <3>2. Val(s)' = IF s = Scope(r) THEN Val(s) + 1 ELSE Val(s)
      BY <1>1, <2>3, ScriptVal
    <3>3. QED
      BY <1>1, <1>4, <1>5, <1>8, <3>1, <3>2 DEF SlotMove, Granted
  <2>4. QED
    BY <1>8, <2>1, <2>2, <2>3 DEF ScriptError
<1>9. QED
  BY <1>6, <1>7, <1>8 DEF UndoConcurrency, ScriptError

(* A share is given back, or lost with a release that fails.               *)
LEMMA ReleaseSlots ==
    ASSUME LimitsInv, NEW r \in Requests, ReleaseOne(r), NEW s \in Scopes
    PROVE  SlotMove(r, s) /\ Granted(r, s)
<1>1. TypeOK /\ pc[r] # "undo" /\ pc'[r] # "undo"
  BY DEF LimitsInv, ReleaseOne
<1>2. PICK t \in held[r] :
          /\ held' = [held EXCEPT ![r] = held[r] \ {t}]
          /\ \/ store' = Released(Key("concurrency", t)) /\ lost' = lost
             \/ store' = store /\ lost' = [lost EXCEPT ![t] = lost[t] + 1]
  BY DEF ReleaseOne
<1>3. t \in Scopes /\ held'[r] = held[r] \ {t}
  BY <1>1, <1>2 DEF TypeOK
<1>4. (Owns(r, s) <=> s \in held[r]) /\ (Owns(r, s)' <=> s \in held[r] /\ s # t)
  BY <1>1, <1>3 DEF Owns
<1>5. CASE store' = Released(Key("concurrency", t)) /\ lost' = lost
  <2>1. /\ s # t => Val(s)' = Val(s)
        /\ s = t /\ Val(s) > 0 => Val(s)' = Val(s) - 1
    BY <1>3, <1>5, ReleaseVal
  <2>2. QED
    BY <1>2, <1>3, <1>4, <1>5, <2>1 DEF SlotMove, Granted
<1>6. CASE store' = store /\ lost' = [lost EXCEPT ![t] = lost[t] + 1]
  <2>1. lost'[s] = IF s = t THEN lost[s] + 1 ELSE lost[s]
    BY <1>1, <1>3, <1>6 DEF TypeOK
  <2>2. Val(s)' = Val(s)
    BY <1>6 DEF Val
  <2>3. QED
    BY <1>2, <1>3, <1>4, <2>1, <2>2 DEF SlotMove, Granted
<1>7. QED
  BY <1>2, <1>5, <1>6

(* Every step of a request moves the slots of a scope in one of these      *)
(* ways.                                                                   *)
LEMMA ActSlots ==
    ASSUME LimitsInv, NEW r \in Requests, Act(r), NEW s \in Scopes, ConcurrentRequests > 0
    PROVE  SlotMove(r, s) /\ Granted(r, s)
<1>1. TypeOK /\ Progress(r)
  BY DEF LimitsInv
<1>2. CASE Start(r) \/ ConnectError(r) \/ EndRun(r) \/ ReleaseDone(r)
  <2>1. UNCHANGED <<held, store, lost>>
    BY <1>2 DEF Start, ConnectError, EndRun, ReleaseDone
  <2>2. pc[r] # "undo" /\ pc'[r] # "undo"
    BY <1>1, <1>2 DEF Start, ConnectError, EndRun, ReleaseDone, Goto, FromRpm, TypeOK
  <2>3. Val(s)' = Val(s)
    BY <2>1 DEF Val
  <2>4. QED
    BY <2>1, <2>2, <2>3, QuietSlots
<1>3. CASE CheckRequestCounter(r) \/ CheckTokenCounter(r)
  <2>1. UNCHANGED <<held, lost>> /\ pc[r] # "undo" /\ pc[r] \in Checking
    BY <1>3 DEF CheckRequestCounter, CheckTokenCounter, Checking
  <2>2. pc'[r] # "undo"
    BY <1>1, <1>3 DEF CheckRequestCounter, CheckTokenCounter, Fail, Goto, FromTpm, TypeOK
  <2>3. Val(s)' = Val(s)
    BY <1>3, <2>1, ScriptVal DEF CheckRequestCounter, CheckTokenCounter
  <2>4. QED
    BY <2>1, <2>2, <2>3, QuietSlots
<1>4. CASE Die(r)
  <2>1. Owners(s) = {q \in Requests : Owns(q, s)}
    BY DEF Owners, Owns
  <2>2. lost'[s] = IF Owns(r, s) THEN lost[s] + 1 ELSE lost[s]
    BY <1>4, <2>1 DEF Die
  <2>3. held'[r] = {} /\ pc'[r] = "done"
    BY <1>1, <1>4 DEF Die, Goto, TypeOK
  <2>4. ~Owns(r, s)'
    BY <2>3 DEF Owns
  <2>5. Val(s)' = Val(s)
    BY <1>4 DEF Die, Val
  <2>6. QED
    BY <2>2, <2>3, <2>4, <2>5 DEF SlotMove, Granted
<1>5. QED
  BY <1>2, <1>3, <1>4, AcquireSlots, UndoSlots, ReleaseSlots DEF Act, Step, Fault

(* The other requests keep their shares.                                   *)
LEMMA OwnersMove ==
    ASSUME LimitsInv, NEW r \in Requests, Act(r), NEW s \in Scopes
    PROVE  /\ Owners(s)' = IF Owns(r, s)' THEN Owners(s) \cup {r} ELSE Owners(s) \ {r}
           /\ r \in Owners(s) <=> Owns(r, s)
           /\ s \in held'[r] => Owns(r, s)'
           /\ ~(s \in held'[r]) \/ s \in held[r] => Holders(s)' \subseteq Holders(s)
<1>1. Owners(s) = {q \in Requests : Owns(q, s)} /\ Owners(s)' = {q \in Requests : Owns(q, s)'}
  BY DEF Owners, Owns
<1>2. ASSUME NEW q \in Requests \ {r}
      PROVE  (Owns(q, s)' <=> Owns(q, s)) /\ held'[q] = held[q]
  BY ActElsewhere DEF Owns, Scope
<1>3. s \in held'[r] => Owns(r, s)'
  BY DEF Owns
<1> HIDE DEF Owns
<1>4. Owners(s)' = IF Owns(r, s)' THEN Owners(s) \cup {r} ELSE Owners(s) \ {r}
  <2>1. ASSUME NEW q
        PROVE  q \in Owners(s)' <=>
                   q \in (IF Owns(r, s)' THEN Owners(s) \cup {r} ELSE Owners(s) \ {r})
    <3>1. CASE q = r
      BY <1>1, <3>1
    <3>2. CASE q # r
      BY <1>1, <1>2, <3>2
    <3>3. QED
      BY <3>1, <3>2
  <2>2. QED
    BY <2>1, Zenon
<1>5. ~(s \in held'[r]) \/ s \in held[r] => Holders(s)' \subseteq Holders(s)
  <2>1. Holders(s)' = {q \in Requests : s \in held'[q]}
    BY DEF Holders
  <2>2. QED
    BY <1>2, <2>1 DEF Holders
<1>6. QED
  BY <1>1, <1>3, <1>4, <1>5

(* Those who hold a slot have a share.                                     *)
LEMMA HoldersOwn ==
    ASSUME NEW s \in Scopes, IsFiniteSet(Owners(s))
    PROVE  /\ IsFiniteSet(Holders(s)) /\ Cardinality(Holders(s)) \in Nat
           /\ Cardinality(Owners(s)) \in Nat /\ Cardinality(Holders(s)) <= Cardinality(Owners(s))
<1>1. Holders(s) \in SUBSET Owners(s)
  BY DEF Holders, Owners
<1>2. QED
  BY <1>1, FS_Subset, FS_CardinalityType

(* A step of a request keeps the slots accounted for, and within the       *)
(* limit.                                                                  *)
LEMMA ActSlotInv ==
    ASSUME LimitsInv, NEW r \in Requests, Act(r), NEW s \in Scopes, ConcurrentRequests > 0
    PROVE  SlotInv(s)'
<1> DEFINE n == Cardinality(Owners(s))
<1>1. TypeOK /\ SlotInv(s) /\ SlotMove(r, s) /\ Granted(r, s) /\ IsFiniteSet(Owners(s))
  BY ActSlots DEF LimitsInv, SlotInv
<1>2. n \in Nat /\ Val(s) \in Nat /\ lost[s] \in Nat /\ ConcurrentRequests \in Nat
  BY <1>1, FS_CardinalityType, KeysDiffer, LimitsAssumption DEF TypeOK, Val
<1>3. tainted' = tainted
  BY DEF Act, Start, Step, Fault, CheckRequestCounter, CheckTokenCounter, AcquireConcurrency,
         UndoConcurrency, EndRun, ReleaseOne, ReleaseDone, ConnectError, ScriptError, Die
<1>4. IsFiniteSet(Owners(s)') /\ Cardinality(Owners(s)') =
          IF Owns(r, s)' THEN IF Owns(r, s) THEN n ELSE n + 1
          ELSE IF Owns(r, s) THEN n - 1 ELSE n
  <2>1. CASE Owns(r, s)'
    BY <1>1, <2>1, OwnersMove, FS_AddElement
  <2>2. CASE ~Owns(r, s)'
    BY <1>1, <2>2, OwnersMove, FS_RemoveElement
  <2>3. QED
    BY <2>1, <2>2
<1>5. Owns(r, s) => n > 0
  BY <1>1, <1>2, OwnersMove, FS_EmptySet
<1>6. ASSUME s \notin tainted
      PROVE  Val(s)' = Cardinality(Owners(s)') + lost'[s]
  <2>1. Val(s) = n + lost[s]
    BY <1>1, <1>6 DEF SlotInv
  <2>2. Owns(r, s) => Val(s) > 0
    BY <1>2, <1>5, <2>1
  <2> HIDE DEF n
  <2>3. QED
    BY <1>1, <1>2, <1>4, <2>1, <2>2 DEF SlotMove
<1>7. ASSUME s \notin tainted
      PROVE  Cardinality(Holders(s)') <= ConcurrentRequests
  <2>1. CASE ~(s \in held'[r]) \/ s \in held[r]
    <3>1. Holders(s)' \in SUBSET Holders(s)
      BY <2>1, OwnersMove
    <3>2. /\ IsFiniteSet(Holders(s)) /\ Cardinality(Holders(s)) \in Nat
          /\ Cardinality(Holders(s)) <= ConcurrentRequests
      BY <1>1, <1>7, HoldersOwn DEF SlotInv
    <3>3. IsFiniteSet(Holders(s)') /\ Cardinality(Holders(s)') <= Cardinality(Holders(s))
      BY <3>1, <3>2, FS_Subset
    <3>4. Cardinality(Holders(s)') \in Nat
      BY <3>3, FS_CardinalityType
    <3>5. QED
      BY <1>2, <3>2, <3>3, <3>4
  <2>2. CASE s \in held'[r] /\ s \notin held[r]
    <3>1. Val(s)' <= ConcurrentRequests
      BY <1>1, <2>2 DEF Granted
    <3>2. Holders(s)' \in SUBSET (Owners(s)')
      BY DEF Holders, Owners
    <3>3. IsFiniteSet(Holders(s)') /\ Cardinality(Holders(s)') <= Cardinality(Owners(s)')
      BY <1>4, <3>2, FS_Subset
    <3>4. Cardinality(Holders(s)') \in Nat /\ Cardinality(Owners(s)') \in Nat
      BY <1>4, <3>3, FS_CardinalityType
    <3>5. lost'[s] \in Nat
      BY ActTypes DEF TypeOK
    <3>6. QED
      BY <1>2, <1>6, <1>7, <3>1, <3>3, <3>4, <3>5
  <2>3. QED
    BY <2>1, <2>2
<1>8. QED
  BY <1>3, <1>4, <1>6, <1>7 DEF SlotInv

-----------------------------------------------------------------------------
(* Time.                                                                   *)

(* A tick ages the counters; one that expires is used up.                  *)
LEMMA TickStore ==
    ASSUME LimitsInv, Tick
    PROVE  /\ Sound(store')
           /\ \A k \in Keys : store'[k].val = IF Expires(k) THEN 0 ELSE store[k].val
<1>1. Sound(store)
  BY DEF LimitsInv
<1>2. ASSUME NEW k \in Keys
      PROVE  /\ store'[k] \in [val : Nat, ttl : Nat]
             /\ store'[k].val > 0 <=> store'[k].ttl > 0
             /\ store'[k].val = IF Expires(k) THEN 0 ELSE store[k].val
  <2>1. /\ store[k] \in [val : Nat, ttl : Nat] /\ (store[k].val > 0 <=> store[k].ttl > 0)
        /\ store[k].ttl \in Nat
    BY <1>1 DEF Sound, Counters
  <2>2. store'[k] = IF Expires(k) THEN Absent
                    ELSE IF store[k].ttl = 0 THEN store[k]
                    ELSE [store[k] EXCEPT !.ttl = store[k].ttl - 1]
    BY DEF Tick
  <2>3. CASE Expires(k)
    BY <2>2, <2>3 DEF Absent
  <2>4. CASE ~Expires(k) /\ store[k].ttl = 0
    BY <2>1, <2>2, <2>4
  <2>5. CASE ~Expires(k) /\ store[k].ttl # 0
    <3>1. store[k].ttl - 1 \in Nat /\ store[k].ttl - 1 > 0 /\ store[k].ttl > 0
      BY <2>1, <2>5 DEF Expires
    <3>2. store'[k] = [store[k] EXCEPT !.ttl = store[k].ttl - 1]
      BY <2>2, <2>5
    <3>3. QED
      BY <2>1, <2>5, <3>1, <3>2
  <2>6. QED
    BY <2>3, <2>4, <2>5
<1>3. store' = [k \in Keys |-> store'[k]]
  BY DEF Tick
<1>4. QED
  BY <1>2, <1>3 DEF Sound, Counters

(* A tick keeps the invariant: a counter that expires has no owner, or its *)
(* scope is tainted from now on.                                           *)
LEMMA TickInv ==
    ASSUME LimitsInv, Tick
    PROVE  LimitsInv'
<1>1. TypeOK /\ UNCHANGED <<pc, locals, held, result>>
  BY DEF LimitsInv, Tick
<1>2. TypeOK'
  <2>1. store' \in [Keys -> [val : Nat, ttl : Nat]]
    BY TickStore DEF Sound, Counters
  <2>2. age' \in [Requests -> 0 .. MaxRun]
    BY <1>1, LimitsAssumption DEF Tick, TypeOK
  <2>3. lost' \in [Scopes -> Nat]
    BY <1>1 DEF Tick, TypeOK
  <2>4. tainted' \subseteq Scopes
    BY DEF Tick
  <2>5. QED
    BY <1>1, <2>1, <2>2, <2>3, <2>4 DEF TypeOK, locals
<1>3. ASSUME NEW r \in Requests PROVE Progress(r)'
  <2>1. Progress(r)
    BY DEF LimitsInv
  <2>2. QED
    BY <1>1, <2>1 DEF Progress, locals
<1>4. ASSUME NEW s \in Scopes, ConcurrentRequests > 0 PROVE SlotInv(s)'
  <2>1. SlotInv(s)
    BY <1>4 DEF LimitsInv
  <2>2. Owners(s)' = Owners(s) /\ Holders(s)' = Holders(s)
    BY <1>1 DEF Owners, Holders, Scope, locals
  <2>3. Val(s)' = IF Expires(Key("concurrency", s)) THEN 0 ELSE Val(s)
    BY TickStore, KeysDiffer DEF Val
  <2>4. lost'[s] = IF Expires(Key("concurrency", s)) THEN 0 ELSE lost[s]
    BY DEF Tick
  <2>5. s \notin tainted' =>
            s \notin tainted /\ (Expires(Key("concurrency", s)) => Owners(s) = {})
    BY DEF Tick
  <2>6. QED
    BY <2>1, <2>2, <2>3, <2>4, <2>5, FS_EmptySet DEF SlotInv
<1>5. QED
  BY <1>2, <1>3, <1>4, TickStore DEF LimitsInv

(* Every step keeps the invariant.                                         *)
LEMMA NextInv == LimitsInv /\ [Next]_vars => LimitsInv'
<1>1. SUFFICES ASSUME LimitsInv, [Next]_vars PROVE LimitsInv'
  OBVIOUS
<1>2. ASSUME NEW r \in Requests, Act(r) PROVE LimitsInv'
  <2>1. TypeOK' /\ Sound(store')
    BY <1>1, <1>2, ActStore, ActTypes
  <2>2. ASSUME NEW q \in Requests PROVE Progress(q)'
    <3>1. CASE q = r
      BY <1>1, <1>2, <3>1, ActProgress
    <3>2. CASE q # r
      <4>1. Progress(q)
        BY <1>1 DEF LimitsInv
      <4>2. /\ pc'[q] = pc[q] /\ scopes'[q] = scopes[q] /\ tokens'[q] = tokens[q]
            /\ pos'[q] = pos[q] /\ held'[q] = held[q]
        BY <1>1, <1>2, <3>2, ActElsewhere
      <4>3. QED
        BY <4>1, <4>2 DEF Progress
    <3>3. QED
      BY <3>1, <3>2
  <2>3. ASSUME NEW s \in Scopes, ConcurrentRequests > 0 PROVE SlotInv(s)'
    BY <1>1, <1>2, <2>3, ActSlotInv
  <2>4. QED
    BY <2>1, <2>2, <2>3 DEF LimitsInv
<1>3. CASE Tick
  BY <1>1, <1>3, TickInv
<1>4. CASE UNCHANGED vars
  BY <1>1, <1>4 DEF LimitsInv, TypeOK, Sound, Progress, SlotInv, Owners, Holders, Val, Scope,
                    vars, locals
<1>5. QED
  BY <1>1, <1>2, <1>3, <1>4 DEF Next, Act, Terminated

-----------------------------------------------------------------------------
(* Main results.                                                           *)

(* LimitsInv is an invariant.                                              *)
THEOREM Inductive == Spec => []LimitsInv
<1>1. Init => LimitsInv
  BY InitInv
<1>2. LimitsInv /\ [Next]_vars => LimitsInv'
  BY NextInv
<1>3. QED
  BY <1>1, <1>2, PTL DEF Spec

(* The limiter's state has its shape in every reachable state: no counter  *)
(* is ever negative, and no request runs longer than MaxRun ticks.         *)
THEOREM TypesHold == Spec => []TypeOK
<1>1. LimitsInv => TypeOK
  BY DEF LimitsInv
<1>2. QED
  BY <1>1, Inductive, PTL

(* Every counter that exists has a TTL, whatever fails and expires: the    *)
(* increment that creates a key is the one that sets its TTL, and a        *)
(* release never leaves a key behind that it used up.                      *)
THEOREM CountersExpire == Spec => []EveryCounterExpires
<1>1. LimitsInv => EveryCounterExpires
  BY DEF LimitsInv, Sound, EveryCounterExpires
<1>2. QED
  BY <1>1, Inductive, PTL

(* The counter of a scope counts the slots held, about to be undone or     *)
(* lost, and no other, until it expires under an owner.                    *)
THEOREM SlotsAdd == Spec => []SlotsAccounted
<1>1. LimitsInv => SlotsAccounted
  <2>1. SUFFICES ASSUME LimitsInv, NEW s \in Scopes \ tainted, ConcurrentRequests > 0
                 PROVE  store[Key("concurrency", s)].val = Cardinality(Owners(s)) + lost[s]
    BY DEF SlotsAccounted
  <2>2. SlotInv(s)
    BY <2>1 DEF LimitsInv
  <2>3. QED
    BY <2>1, <2>2 DEF SlotInv, Val
<1>2. QED
  BY <1>1, Inductive, PTL

(* No scope serves more requests at once than concurrent_requests, until   *)
(* its counter expires under an owner.                                     *)
THEOREM LimitHolds == Spec => []LimitHoldsUntilExpiry
<1>1. LimitsInv => LimitHoldsUntilExpiry
  <2>1. SUFFICES ASSUME LimitsInv, NEW s \in Scopes \ tainted, ConcurrentRequests > 0
                 PROVE  Cardinality(Running(s)) <= ConcurrentRequests
    BY DEF LimitHoldsUntilExpiry
  <2>2. /\ IsFiniteSet(Holders(s)) /\ Cardinality(Holders(s)) \in Nat
        /\ Cardinality(Holders(s)) <= ConcurrentRequests
    <3>1. SlotInv(s)
      BY <2>1 DEF LimitsInv
    <3>2. QED
      BY <2>1, <3>1, HoldersOwn DEF SlotInv
  <2>3. ASSUME NEW r \in Running(s) PROVE r \in Holders(s)
    <3>1. PICK i \in DOMAIN scopes[r] : scopes[r][i] = s
      BY DEF Running
    <3>2. r \in Requests /\ pc[r] = "running" /\ Progress(r)
      BY <2>1 DEF Running, LimitsInv
    <3>3. QED
      BY <2>1, <3>1, <3>2 DEF Progress, Holders
  <2>4. IsFiniteSet(Running(s)) /\ Cardinality(Running(s)) <= Cardinality(Holders(s))
    <3>1. Running(s) \in SUBSET Holders(s)
      BY <2>3
    <3>2. QED
      BY <2>2, <3>1, FS_Subset
  <2>5. QED
    BY <2>2, <2>4, FS_CardinalityType, LimitsAssumption
<1>2. QED
  BY <1>1, Inductive, PTL
=============================================================================
