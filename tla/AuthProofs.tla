------------------------------ MODULE AuthProofs -----------------------------
(***************************************************************************)
(* Proofs about Auth, for any number of users, sessions, keys, tasks and   *)
(* processes that start at once.                                           *)
(***************************************************************************)
EXTENDS Auth, TLAPS

SessionOps == {"create_key", "list_keys", "revoke_key", "me"}
KeyCalls   == {"api_key", "role", "serve", "serve_admin"}

SeedSteps  == {"seed_find", "seed_again", "seed_create", "seed_promote"}

(* What a task knows of the tables is still true of them: the rows it was  *)
(* given exist, the owner it read is their owner, the role it seeds with   *)
(* is one that was asked for; a credential that was dead when the task     *)
(* began has not come back to life, and a user who was no administrator    *)
(* then has not become one, or the task would not lack the role any more.  *)
TaskInv(t) ==
    /\ pc[t] \in SeedSteps => job[t].role \in asked
    /\ pc[t] \in {"register", "session"} => job[t].who \in Emails
    /\ pc[t] = "session" => role[job[t].who] # "none"
    /\ pc[t] \in {"lookup", "expire"} =>
           /\ job[t].session \in Sessions /\ session[job[t].session].owner # NoUser
           /\ job[t].op \in SessionOps
           /\ job[t].op = "revoke_key" => job[t].key \in Keys
    /\ pc[t] \in SessionOps =>
           /\ job[t].session \in Sessions /\ job[t].who \in Emails
           /\ session[job[t].session].owner = job[t].who
           /\ pc[t] = "revoke_key" => job[t].key \in Keys
    /\ pc[t] \in KeyCalls =>
           job[t].key \in Keys /\ key[job[t].key].owner # NoUser
    /\ late[t] = "dead" => \/ pc[t] = "expire"
                           \/ pc[t] = "lookup" /\ (session[job[t].session].revoked
                                                   \/ Expired(job[t].session))
                           \/ pc[t] = "api_key" /\ key[job[t].key].revoked
    /\ late[t] = "role" =>
           /\ job[t].op = "admin"
           /\ \/ pc[t] = "api_key" /\ role[key[job[t].key].owner] # "admin"
              \/ pc[t] = "role" /\ job[t].role # "admin"

(* Sessions and keys belong to users.                                      *)
OwnersExist ==
    /\ \A s \in Sessions : session[s].owner # NoUser => role[session[s].owner] # "none"
    /\ \A k \in Keys : key[k].owner # NoUser => role[key[k].owner] # "none"

AuthInv ==
    /\ TypeOK
    /\ SeedTakesEffect
    /\ OwnersExist
    /\ \A t \in Tasks : TaskInv(t)

(* What no step undoes: users stay, rows keep their owner and expiry, and  *)
(* what is revoked stays revoked.                                          *)
TablesGrow ==
    /\ now' >= now /\ asked \subseteq asked'
    /\ \A e \in Emails : role[e] # "none" => role'[e] # "none"
    /\ \A s \in Sessions : session[s].owner # NoUser =>
           /\ session'[s].owner = session[s].owner
           /\ session'[s].expires = session[s].expires
           /\ session[s].revoked => session'[s].revoked
    /\ \A k \in Keys : key[k].owner # NoUser =>
           /\ key'[k].owner = key[k].owner
           /\ key[k].revoked => key'[k].revoked

-----------------------------------------------------------------------------
(* The initial state satisfies the invariant.                              *)
LEMMA InitInv == Init => AuthInv
<1>1. SUFFICES ASSUME Init PROVE AuthInv
  OBVIOUS
<1>2. late \in [Tasks -> {"no", "dead", "role"}] /\ \A t \in Tasks : late[t] = "no"
  BY <1>1 DEF Init
<1>3. job \in [Tasks -> [op : PcSet \cup {"none", "seed", "login", "user", "admin"},
                         who : Emails \cup {NoUser}, session : Sessions \cup {NoSession},
                         key : Keys \cup {NoKey}, role : Roles, read : Nat]]
  BY <1>1 DEF Init, NoJob, Roles
<1>4. TypeOK
  BY <1>1, <1>2, <1>3 DEF Init, TypeOK, PcSet, Roles
<1>5. SeedTakesEffect /\ OwnersExist
  BY <1>1 DEF Init, SeedTakesEffect, OwnersExist
<1>6. \A t \in Tasks : TaskInv(t)
  BY <1>1, <1>2 DEF Init, TaskInv, SessionOps, KeyCalls, SeedSteps
<1>7. QED
  BY <1>4, <1>5, <1>6 DEF AuthInv

(* The steps that only move a task on.                                     *)
Quiet(t) ==
    \/ (\E r \in SeedRoles : StartSeed(t, r)) \/ FindSeedUser(t) \/ LookupSession(t) \/ ReadAccount(t)
    \/ ResolveApiKey(t) \/ RequireAdminRole(t) \/ Serve(t) \/ Dropped(t)
    \/ \E e \in Emails : StartRegister(t, e) \/ Login(t, e)
    \/ \E s \in Sessions, k \in Keys \cup {NoKey}, op \in SessionOps :
           StartSessionCall(t, s, op, k)
    \/ \E k \in Keys, op \in {"user", "admin"} : StartKeyCall(t, k, op)

(* The steps of a task that write a table.                                 *)
Writing(t) ==
    \/ PromoteSeedUser(t) \/ CreateSeedUser(t) \/ Register(t)
    \/ \E s \in Sessions : CreateSession(t, s)
    \/ RevokeExpired(t) \/ RevokeApiKey(t)
    \/ \E k \in Keys : CreateApiKey(t, k)

(* A step of the system is one of these.                                   *)
LEMMA NextCases ==
    Next <=> \/ \E t \in Tasks : Quiet(t) \/ Writing(t)
             \/ \E s \in Sessions : Logout(s)
             \/ Tick
  BY Zenon DEF Next, Work, Quiet, Writing, SessionOps

-----------------------------------------------------------------------------
(* Types.                                                                  *)

Job == [op : PcSet \cup {"none", "seed", "login", "user", "admin"},
        who : Emails \cup {NoUser}, session : Sessions \cup {NoSession},
        key : Keys \cup {NoKey}, role : Roles, read : Nat]

(* A task that ends is idle and typed.                                     *)
LEMMA EndType ==
    ASSUME TypeOK, NEW t \in Tasks, End(t)
    PROVE  pc' \in [Tasks -> PcSet] /\ job' \in [Tasks -> Job] /\ late' \in [Tasks -> {"no", "dead", "role"}]
<1>1. NoJob \in Job
  BY DEF NoJob, Job, Roles
<1>2. late' \in [Tasks -> {"no", "dead", "role"}]
  BY DEF TypeOK, End
<1>3. pc' \in [Tasks -> PcSet] /\ job' \in [Tasks -> Job]
  BY <1>1 DEF TypeOK, End, PcSet, Job
<1>4. QED
  BY <1>2, <1>3

(* A task that begins is typed.                                            *)
LEMMA BeginType ==
    ASSUME TypeOK, NEW t \in Tasks, NEW p \in PcSet, NEW j \in Job, Begin(t, p, j)
    PROVE  pc' \in [Tasks -> PcSet] /\ job' \in [Tasks -> Job]
  BY DEF TypeOK, Begin, Job

(* The fields of a task's job.                                             *)
LEMMA JobFields ==
    ASSUME TypeOK, NEW t \in Tasks
    PROVE  /\ job[t] \in Job
           /\ job[t].who \in Emails \cup {NoUser}
           /\ job[t].session \in Sessions \cup {NoSession}
           /\ job[t].key \in Keys \cup {NoKey}
           /\ job[t].role \in Roles
           /\ job[t].read \in Nat
           /\ pc[t] \in PcSet
<1>1. job[t] \in Job /\ pc[t] \in PcSet
  BY DEF TypeOK, Job
<1>2. QED
  BY <1>1 DEF Job

(* The steps that write no table keep the types.                           *)
LEMMA QuietType ==
    ASSUME AuthInv, NEW t \in Tasks, Quiet(t)
    PROVE  TypeOK'
<1>1. TypeOK /\ TaskInv(t)
  BY DEF AuthInv
<1>2. UNCHANGED <<now, tables>>
  BY Zenon DEF Quiet, StartSeed, FindSeedUser, LookupSession, ReadAccount, ResolveApiKey,
         RequireAdminRole, Serve, Dropped, StartRegister, Login, StartSessionCall,
         StartKeyCall
<1>3. SUFFICES /\ pc' \in [Tasks -> PcSet] /\ job' \in [Tasks -> Job]
               /\ late' \in [Tasks -> {"no", "dead", "role"}] /\ seeded' \in BOOLEAN
               /\ asked' \subseteq SeedRoles
  BY <1>1, <1>2 DEF TypeOK, tables, Job
<1>4. seeded' \in BOOLEAN /\ asked' \subseteq SeedRoles
  BY <1>1, Zenon DEF TypeOK, Quiet, StartSeed, FindSeedUser, LookupSession, ReadAccount, ResolveApiKey,
         RequireAdminRole, Serve, Dropped, StartRegister, Login, StartSessionCall,
         StartKeyCall, Seeded
<1>5. ASSUME NEW p \in PcSet, Goto(t, p)
      PROVE  /\ pc' \in [Tasks -> PcSet] /\ job' \in [Tasks -> Job]
             /\ late' \in [Tasks -> {"no", "dead", "role"}]
  BY <1>1, <1>5 DEF Goto, TypeOK, Job
<1>6. CASE End(t)
  BY <1>1, <1>4, <1>6, EndType
<1>7. ASSUME NEW r \in SeedRoles, StartSeed(t, r)
      PROVE  /\ pc' \in [Tasks -> PcSet] /\ job' \in [Tasks -> Job]
             /\ late' \in [Tasks -> {"no", "dead", "role"}]
  <2>1. [NoJob EXCEPT !.op = "seed", !.who = SeedEmail, !.role = r] \in Job
    BY AuthAssumption DEF NoJob, Job, Roles
  <2>2. late' \in [Tasks -> {"no", "dead", "role"}]
    BY <1>1, <1>7 DEF StartSeed, TypeOK
  <2>3. QED
    BY <1>1, <1>4, <1>7, <2>1, <2>2, BeginType DEF StartSeed, PcSet
<1>8. CASE FindSeedUser(t)
  <2>1. End(t) \/ \E p \in PcSet : Goto(t, p)
    BY <1>8, Zenon DEF FindSeedUser, Seeded, PcSet
  <2>2. QED
    BY <1>4, <1>5, <1>6, <2>1
<1>9. CASE LookupSession(t)
  <2>1. SUFFICES ASSUME ~End(t), ~Goto(t, "expire")
                 PROVE  /\ pc' \in [Tasks -> PcSet] /\ job' \in [Tasks -> Job]
                        /\ late' \in [Tasks -> {"no", "dead", "role"}]
    BY <1>4, <1>5, <1>6 DEF PcSet
  <2> DEFINE o == session[job[t].session].owner
  <2>2. /\ pc[t] = "lookup"
        /\ pc' = [pc EXCEPT ![t] = job[t].op]
        /\ job' = [job EXCEPT ![t].who = o]
        /\ UNCHANGED late
    BY <1>9, <2>1 DEF LookupSession
  <2>3. job[t].op \in PcSet /\ job[t].session \in Sessions
    BY <1>1, <2>2 DEF TaskInv, SessionOps, PcSet
  <2>4. o \in Emails \cup {NoUser}
    BY <1>1, <2>3 DEF TypeOK
  <2> HIDE DEF o
  <2>5. [job[t] EXCEPT !.who = o] \in Job
    BY <1>1, <2>4, JobFields DEF Job
  <2>6. QED
    BY <1>1, <2>2, <2>3, <2>5 DEF TypeOK, Job
<1>10. CASE ReadAccount(t) \/ Serve(t) \/ Dropped(t)
  BY <1>6, <1>10 DEF ReadAccount, Serve, Dropped
<1>11. CASE ResolveApiKey(t)
  <2>1. SUFFICES ASSUME OpenKey(job[t].key)
                 PROVE  /\ pc' \in [Tasks -> PcSet] /\ job' \in [Tasks -> Job]
                        /\ late' \in [Tasks -> {"no", "dead", "role"}]
    BY <1>4, <1>6, <1>11 DEF ResolveApiKey
  <2> DEFINE o == key[job[t].key].owner
  <2>2. /\ pc[t] = "api_key"
        /\ pc' = [pc EXCEPT ![t] = IF job[t].op = "admin" THEN "role" ELSE "serve"]
        /\ job' = [job EXCEPT ![t].who = o, ![t].role = role[o]]
        /\ UNCHANGED late
    BY <1>11, <2>1 DEF ResolveApiKey
  <2>3. job[t].key \in Keys /\ o # NoUser
    BY <1>1, <2>2 DEF TaskInv, KeyCalls
  <2>4. o \in Emails
    BY <1>1, <2>3 DEF TypeOK
  <2>5. role[o] \in Roles
    BY <1>1, <2>4 DEF TypeOK
  <2> HIDE DEF o
  <2>6. [job[t] EXCEPT !.who = o, !.role = role[o]] \in Job
    BY <1>1, <2>4, <2>5, JobFields DEF Job
  <2>7. QED
    BY <1>1, <2>2, <2>6 DEF TypeOK, Job, PcSet
<1>12. CASE RequireAdminRole(t)
  BY <1>4, <1>5, <1>6, <1>12 DEF RequireAdminRole, PcSet
<1>13. ASSUME NEW e \in Emails, StartRegister(t, e) \/ Login(t, e)
       PROVE  /\ pc' \in [Tasks -> PcSet] /\ job' \in [Tasks -> Job]
              /\ late' \in [Tasks -> {"no", "dead", "role"}]
  <2>1. /\ [NoJob EXCEPT !.op = "register", !.who = e] \in Job
        /\ [NoJob EXCEPT !.op = "login", !.who = e, !.read = now] \in Job
    BY <1>1 DEF NoJob, Job, Roles, TypeOK, PcSet
  <2>2. late' \in [Tasks -> {"no", "dead", "role"}]
    BY <1>1, <1>13 DEF StartRegister, Login, TypeOK
  <2>3. QED
    BY <1>1, <1>13, <2>1, <2>2, BeginType DEF StartRegister, Login, PcSet
<1>14. ASSUME NEW s \in Sessions, NEW k \in Keys \cup {NoKey}, NEW op \in SessionOps,
              StartSessionCall(t, s, op, k)
       PROVE  /\ pc' \in [Tasks -> PcSet] /\ job' \in [Tasks -> Job]
              /\ late' \in [Tasks -> {"no", "dead", "role"}]
  <2>1. [NoJob EXCEPT !.op = op, !.session = s, !.key = k] \in Job
    BY <1>14 DEF NoJob, Job, Roles, PcSet, SessionOps
  <2>2. late' \in [Tasks -> {"no", "dead", "role"}]
    BY <1>1, <1>14 DEF StartSessionCall, TypeOK
  <2>3. QED
    BY <1>1, <1>14, <2>1, <2>2, BeginType DEF StartSessionCall, PcSet
<1>15. ASSUME NEW k \in Keys, NEW op \in {"user", "admin"}, StartKeyCall(t, k, op)
       PROVE  /\ pc' \in [Tasks -> PcSet] /\ job' \in [Tasks -> Job]
              /\ late' \in [Tasks -> {"no", "dead", "role"}]
  <2>1. [NoJob EXCEPT !.op = op, !.key = k] \in Job
    BY DEF NoJob, Job, Roles
  <2>2. late' \in [Tasks -> {"no", "dead", "role"}]
    BY <1>1, <1>15 DEF StartKeyCall, TypeOK
  <2>3. QED
    BY <1>1, <1>15, <2>1, <2>2, BeginType DEF StartKeyCall, PcSet
<1>16. QED
  BY <1>4, <1>7, <1>8, <1>9, <1>10, <1>11, <1>12, <1>13, <1>14, <1>15 DEF Quiet

(* The steps that write a table keep the types.                            *)
LEMMA WritingType ==
    ASSUME AuthInv, NEW t \in Tasks, Writing(t)
    PROVE  TypeOK'
<1>1. TypeOK /\ TaskInv(t)
  BY DEF AuthInv
<1>2. seeded' \in BOOLEAN /\ now' \in Nat /\ asked' \subseteq SeedRoles
  BY <1>1, Zenon DEF TypeOK, Writing, PromoteSeedUser, CreateSeedUser, Register, CreateSession,
         RevokeExpired, RevokeApiKey, CreateApiKey, Seeded
<1>3. SUFFICES ASSUME TRUE
               PROVE  /\ role' \in [Emails -> Roles]
                      /\ session' \in [Sessions -> [owner : Emails \cup {NoUser}, expires : Nat,
                                                    revoked : BOOLEAN]]
                      /\ key' \in [Keys -> [owner : Emails \cup {NoUser}, revoked : BOOLEAN]]
  <2>1. End(t) \/ (Goto(t, "seed_again") /\ pc[t] = "seed_create") \/ PromoteSeedUser(t)
    BY Zenon DEF Writing, PromoteSeedUser, CreateSeedUser, Register, CreateSession,
           RevokeExpired, RevokeApiKey, CreateApiKey, Seeded
  <2>2. /\ pc' \in [Tasks -> PcSet] /\ job' \in [Tasks -> Job]
        /\ late' \in [Tasks -> {"no", "dead", "role"}]
    <3>1. CASE End(t)
      BY <1>1, <3>1, EndType
    <3>2. CASE Goto(t, "seed_again")
      BY <1>1, <3>2 DEF Goto, TypeOK, Job, PcSet
    <3>3. CASE PromoteSeedUser(t)
      <4>1. NoJob \in Job
        BY DEF NoJob, Job, Roles
      <4>2. QED
        BY <1>1, <3>3, <4>1 DEF PromoteSeedUser, TypeOK, Job, PcSet
    <3>4. QED
      BY <2>1, <3>1, <3>2, <3>3
  <2>3. QED
    BY <1>2, <1>3, <2>2 DEF TypeOK, Job
<1>4. CASE PromoteSeedUser(t) \/ CreateSeedUser(t) \/ Register(t)
  BY <1>1, <1>4, JobFields DEF PromoteSeedUser, CreateSeedUser, Register, TypeOK, Roles
<1>5. ASSUME NEW s \in Sessions, CreateSession(t, s)
      PROVE  session' \in [Sessions -> [owner : Emails \cup {NoUser}, expires : Nat,
                                        revoked : BOOLEAN]]
  <2>1. job[t].who \in Emails /\ job[t].read \in Nat
    BY <1>1, <1>5, JobFields DEF CreateSession, TaskInv
  <2>2. [owner |-> job[t].who, expires |-> job[t].read + SessionTtl, revoked |-> FALSE]
            \in [owner : Emails \cup {NoUser}, expires : Nat, revoked : BOOLEAN]
    BY <2>1, AuthAssumption
  <2>3. QED
    BY <1>1, <1>5, <2>2, Zenon DEF CreateSession, TypeOK
<1>6. CASE RevokeExpired(t)
  BY <1>1, <1>6 DEF RevokeExpired, TypeOK
<1>7. CASE RevokeApiKey(t)
  BY <1>1, <1>7 DEF RevokeApiKey, TypeOK
<1>8. ASSUME NEW k \in Keys, CreateApiKey(t, k)
      PROVE  key' \in [Keys -> [owner : Emails \cup {NoUser}, revoked : BOOLEAN]]
  <2>1. job[t].who \in Emails
    BY <1>1, <1>8 DEF CreateApiKey, TaskInv, SessionOps
  <2>2. QED
    BY <1>1, <1>8, <2>1 DEF CreateApiKey, TypeOK
<1>9. QED
  BY <1>1, <1>4, <1>5, <1>6, <1>7, <1>8
     DEF Writing, TypeOK, PromoteSeedUser, CreateSeedUser, Register, CreateSession,
         RevokeExpired, RevokeApiKey, CreateApiKey

(* Logout and the clock keep the types.                                    *)
LEMMA OtherType ==
    ASSUME AuthInv, Tick \/ (\E s \in Sessions : Logout(s)) \/ UNCHANGED vars
    PROVE  TypeOK'
<1>1. TypeOK
  BY DEF AuthInv
<1>2. CASE Tick
  BY <1>1, <1>2 DEF Tick, TypeOK, tables
<1>3. ASSUME NEW s \in Sessions, Logout(s) PROVE TypeOK'
  BY <1>1, <1>3 DEF Logout, TypeOK
<1>4. CASE UNCHANGED vars
  BY <1>1, <1>4 DEF vars, tables, TypeOK
<1>5. QED
  BY <1>2, <1>3, <1>4

(* Every step keeps the types.                                             *)
LEMMA NextType == AuthInv /\ [Next]_vars => TypeOK'
  BY NextCases, QuietType, WritingType, OtherType

-----------------------------------------------------------------------------
(* No step undoes what a table says.                                       *)
LEMMA NextGrows == AuthInv /\ [Next]_vars => TablesGrow
<1>1. SUFFICES ASSUME AuthInv, [Next]_vars PROVE TablesGrow
  OBVIOUS
<1>2. TypeOK
  BY <1>1 DEF AuthInv
<1>3. CASE UNCHANGED <<now, tables>> /\ asked \subseteq asked'
  BY <1>2, <1>3 DEF TablesGrow, tables, TypeOK
<1>4. ASSUME NEW t \in Tasks, Quiet(t) PROVE UNCHANGED <<now, tables>> /\ asked \subseteq asked'
  BY <1>4, Zenon DEF Quiet, StartSeed, FindSeedUser, LookupSession, ReadAccount, ResolveApiKey,
         RequireAdminRole, Serve, Dropped, StartRegister, Login, StartSessionCall,
         StartKeyCall
<1>5. CASE Tick
  BY <1>2, <1>5 DEF Tick, TablesGrow, tables, TypeOK
<1>6. ASSUME NEW s \in Sessions, Logout(s) PROVE TablesGrow
  BY <1>2, <1>6 DEF Logout, TablesGrow, TypeOK
<1>7. ASSUME NEW t \in Tasks, Writing(t) PROVE TablesGrow
  <2>1. TaskInv(t)
    BY <1>1 DEF AuthInv
  <2>2. CASE PromoteSeedUser(t) \/ CreateSeedUser(t) \/ Register(t)
    <3>1. pc[t] \in SeedSteps => job[t].role # "none"
      BY <1>2, <2>1, AuthAssumption DEF TaskInv, TypeOK
    <3>2. QED
      BY <1>2, <2>2, <3>1
         DEF PromoteSeedUser, CreateSeedUser, Register, TablesGrow, TypeOK, SeedSteps
  <2>3. ASSUME NEW s \in Sessions, CreateSession(t, s) PROVE TablesGrow
    BY <1>2, <2>3 DEF CreateSession, TablesGrow, TypeOK
  <2>4. CASE RevokeExpired(t)
    BY <1>2, <2>4 DEF RevokeExpired, TablesGrow, TypeOK
  <2>5. CASE RevokeApiKey(t)
    BY <1>2, <2>5 DEF RevokeApiKey, TablesGrow, TypeOK
  <2>6. ASSUME NEW k \in Keys, CreateApiKey(t, k) PROVE TablesGrow
    BY <1>2, <2>6 DEF CreateApiKey, TablesGrow, TypeOK
  <2>7. QED
    BY <1>7, <2>2, <2>3, <2>4, <2>5, <2>6 DEF Writing
<1>8. QED
  BY <1>1, <1>3, <1>4, <1>5, <1>6, <1>7, NextCases DEF vars

(* Only a seed that finds another role changes the role of a user.         *)
LEMMA RoleMoves ==
    ASSUME AuthInv, [Next]_vars, NEW e \in Emails, role[e] # "none"
    PROVE  role'[e] = role[e] \/ (e = SeedEmail /\ \E t \in Tasks : PromoteSeedUser(t))
<1>1. TypeOK
  BY DEF AuthInv
<1>2. ASSUME NEW t \in Tasks, Quiet(t) PROVE role' = role
  BY <1>2, Zenon DEF Quiet, StartSeed, FindSeedUser, LookupSession, ReadAccount, ResolveApiKey,
         RequireAdminRole, Serve, Dropped, StartRegister, Login, StartSessionCall,
         StartKeyCall, tables
<1>3. ASSUME NEW t \in Tasks, Writing(t)
      PROVE  role'[e] = role[e] \/ (e = SeedEmail /\ PromoteSeedUser(t))
  <2>1. CASE PromoteSeedUser(t) \/ CreateSeedUser(t) \/ Register(t)
    BY <1>1, <2>1 DEF PromoteSeedUser, CreateSeedUser, Register, TypeOK
  <2>2. QED
    BY <1>3, <2>1 DEF Writing, CreateSession, RevokeExpired, RevokeApiKey, CreateApiKey
<1>4. QED
  BY <1>2, <1>3, NextCases DEF Logout, Tick, vars, tables

(* A request that lacks the role of an administrator since it began is     *)
(* one of a user who still lacks it.                                       *)
LEMMA StillLacksRole ==
    ASSUME AuthInv, [Next]_vars, NEW u \in Tasks,
           pc[u] = "api_key", late[u] = "role", late'[u] = "role"
    PROVE  role'[key[job[u].key].owner] # "admin"
<1> DEFINE o == key[job[u].key].owner
<1>1. TypeOK /\ TaskInv(u) /\ OwnersExist
  BY DEF AuthInv
<1>2. job[u].key \in Keys /\ o # NoUser /\ role[o] # "admin"
  BY <1>1 DEF TaskInv, KeyCalls
<1>3. o \in Emails /\ role[o] # "none"
  BY <1>1, <1>2 DEF TypeOK, OwnersExist
<1>4. ASSUME NEW t \in Tasks, PromoteSeedUser(t), o = SeedEmail
      PROVE  role'[o] # "admin"
  <2>1. job[t].role # "admin"
    BY <1>4 DEF PromoteSeedUser
  <2>2. QED
    BY <1>1, <1>4, <2>1, AuthAssumption DEF PromoteSeedUser, TypeOK
<1> HIDE DEF o
<1>5. role'[o] # "admin"
  BY <1>2, <1>3, <1>4, RoleMoves
<1>6. QED
  BY <1>5 DEF o

(* A task that does not move keeps what it knows, whatever the others do.  *)
LEMMA BystanderKeeps ==
    ASSUME AuthInv, TablesGrow, NEW u \in Tasks, TypeOK',
           pc'[u] = pc[u], job'[u] = job[u], late'[u] \in {late[u], "no"},
           pc[u] = "api_key" /\ late[u] = "role" /\ late'[u] = "role" =>
               role'[key[job[u].key].owner] # "admin"
    PROVE  TaskInv(u)'
<1> DEFINE s == job[u].session
           k == job[u].key
<1>1. TypeOK /\ TaskInv(u)
  BY DEF AuthInv
<1>2. pc[u] \in {"lookup", "expire"} \cup SessionOps =>
          /\ s \in Sessions
          /\ session'[s].owner = session[s].owner /\ session[s].owner # NoUser
          /\ session[s].revoked => session'[s].revoked
          /\ Expired(s) => Expired(s)'
  <2>1. SUFFICES ASSUME pc[u] \in {"lookup", "expire"} \cup SessionOps
                 PROVE  s \in Sessions /\ session[s].owner # NoUser
    <3>1. SUFFICES ASSUME s \in Sessions, session[s].owner # NoUser
                   PROVE  /\ session'[s].owner = session[s].owner
                          /\ session[s].revoked => session'[s].revoked
                          /\ Expired(s) => Expired(s)'
      BY <2>1
    <3>2. session[s].expires \in Nat /\ now \in Nat /\ now' \in Nat
      BY <1>1, <3>1 DEF TypeOK
    <3>3. /\ session'[s].owner = session[s].owner
          /\ session'[s].expires = session[s].expires
          /\ session[s].revoked => session'[s].revoked
          /\ now' >= now
      BY <3>1 DEF TablesGrow
    <3>4. QED
      BY <3>2, <3>3 DEF Expired
  <2>2. QED
    BY <1>1, <2>1, AuthAssumption DEF TaskInv
<1>3. pc[u] \in KeyCalls =>
          /\ k \in Keys
          /\ key'[k].owner = key[k].owner /\ key[k].owner # NoUser
          /\ key[k].revoked => key'[k].revoked
  BY <1>1 DEF TaskInv, TablesGrow, TypeOK
<1> HIDE DEF s, k
<1>4. /\ pc'[u] \in SeedSteps => job'[u].role \in asked'
      /\ pc'[u] \in {"register", "session"} => job'[u].who \in Emails
      /\ pc'[u] = "session" => role'[job'[u].who] # "none"
  BY <1>1 DEF TaskInv, TablesGrow
<1>5. /\ pc'[u] \in {"lookup", "expire"} =>
             /\ job'[u].session \in Sessions /\ session'[job'[u].session].owner # NoUser
             /\ job'[u].op \in SessionOps
             /\ job'[u].op = "revoke_key" => job'[u].key \in Keys
      /\ pc'[u] \in SessionOps =>
             /\ job'[u].session \in Sessions /\ job'[u].who \in Emails
             /\ session'[job'[u].session].owner = job'[u].who
             /\ pc'[u] = "revoke_key" => job'[u].key \in Keys
  BY <1>1, <1>2 DEF TaskInv, s
<1>6. pc'[u] \in KeyCalls => job'[u].key \in Keys /\ key'[job'[u].key].owner # NoUser
  BY <1>1, <1>3 DEF TaskInv, KeyCalls, k
<1>7. late'[u] = "dead" => \/ pc'[u] = "expire"
                           \/ pc'[u] = "lookup" /\ (session'[job'[u].session].revoked
                                                    \/ Expired(job[u].session)')
                           \/ pc'[u] = "api_key" /\ key'[job'[u].key].revoked
  BY <1>1, <1>2, <1>3 DEF TaskInv, KeyCalls, s, k
<1>8. Expired(job[u].session)' => session'[job'[u].session].expires <= now'
  BY DEF Expired
<1>9. late'[u] = "role" =>
          /\ job'[u].op = "admin"
          /\ \/ pc'[u] = "api_key" /\ role'[key'[job'[u].key].owner] # "admin"
             \/ pc'[u] = "role" /\ job'[u].role # "admin"
  BY <1>1, <1>3 DEF TaskInv, KeyCalls, k
<1>10. QED
  BY <1>4, <1>5, <1>6, <1>7, <1>8, <1>9, Zenon DEF TaskInv, Expired

(* A task that has ended knows nothing.                                    *)
LEMMA EndedKeeps ==
    ASSUME TypeOK, NEW t \in Tasks, End(t)
    PROVE  TaskInv(t)'
<1>1. pc'[t] = "idle" /\ late'[t] = "no"
  BY DEF End, TypeOK
<1>2. QED
  BY <1>1 DEF TaskInv, SessionOps, KeyCalls, SeedSteps

(* A task that begins without a credential has nothing to remember.        *)
LEMMA IdleIsNotLate ==
    ASSUME AuthInv, NEW t \in Tasks, pc[t] \notin {"lookup", "expire", "api_key", "role"}
    PROVE  late[t] = "no"
  BY DEF AuthInv, TaskInv, TypeOK

(* A step that writes no table leaves its task with what it has read.      *)
LEMMA QuietKeeps ==
    ASSUME AuthInv, NEW t \in Tasks, Quiet(t)
    PROVE  TaskInv(t)'
<1>1. TypeOK /\ TaskInv(t)
  BY DEF AuthInv
<1>2. UNCHANGED <<now, role, session, key>>
  BY Zenon DEF Quiet, StartSeed, FindSeedUser, LookupSession, ReadAccount, ResolveApiKey,
         RequireAdminRole, Serve, Dropped, StartRegister, Login, StartSessionCall,
         StartKeyCall, tables
<1>3. CASE End(t)
  BY <1>1, <1>3, EndedKeeps
<1>4. ASSUME NEW r \in SeedRoles, StartSeed(t, r) PROVE TaskInv(t)'
  <2>1. pc'[t] = "seed_find" /\ late'[t] = "no" /\ job'[t].role \in asked'
    BY <1>1, <1>4, IdleIsNotLate DEF StartSeed, Begin, TypeOK, NoJob
  <2>2. QED
    BY <2>1 DEF TaskInv, SessionOps, KeyCalls, SeedSteps
<1>5. CASE FindSeedUser(t)
  <2>1. SUFFICES ASSUME ~End(t) PROVE TaskInv(t)'
    BY <1>3
  <2>2. /\ pc'[t] \in {"seed_promote", "seed_create"} /\ late'[t] = "no"
        /\ job'[t].role \in asked'
    BY <1>1, <1>5, <2>1, IdleIsNotLate
       DEF FindSeedUser, Seeded, Goto, TypeOK, TaskInv, SeedSteps
  <2>3. QED
    BY <2>2 DEF TaskInv, SessionOps, KeyCalls, SeedSteps
<1>6. CASE LookupSession(t)
  <2>1. SUFFICES ASSUME ~End(t) PROVE TaskInv(t)'
    BY <1>3
  <2>2. pc[t] = "lookup" /\ OpenSession(job[t].session) /\ job[t].session \in Sessions
    BY <1>1, <1>6, <2>1 DEF LookupSession, TaskInv
  <2>3. CASE Expired(job[t].session)
    <3>1. pc'[t] = "expire" /\ job'[t] = job[t] /\ late'[t] = late[t]
      BY <1>1, <1>6, <2>1, <2>2, <2>3 DEF LookupSession, Goto, TypeOK
    <3>2. QED
      BY <1>1, <1>2, <2>2, <3>1 DEF TaskInv, SessionOps, KeyCalls, SeedSteps
  <2>4. CASE ~Expired(job[t].session)
    <3>1. /\ pc'[t] = job[t].op /\ job'[t].session = job[t].session
          /\ job'[t].key = job[t].key /\ late'[t] = late[t]
          /\ job'[t].who = session[job[t].session].owner
      BY <1>1, <1>6, <2>2, <2>4 DEF LookupSession, TypeOK
    <3>2. late[t] = "no"
      BY <1>1, <2>2, <2>4 DEF TaskInv, OpenSession, TypeOK
    <3>3. session[job[t].session].owner \in Emails
      BY <1>1, <2>2 DEF OpenSession, TypeOK
    <3>4. /\ job[t].op \in SessionOps
          /\ job[t].op = "revoke_key" => job[t].key \in Keys
      BY <1>1, <2>2 DEF TaskInv
    <3>5. QED
      BY <1>2, <2>2, <3>1, <3>2, <3>3, <3>4 DEF TaskInv, SessionOps, KeyCalls, SeedSteps
  <2>5. QED
    BY <2>3, <2>4
<1>7. CASE ReadAccount(t) \/ Serve(t) \/ Dropped(t)
  BY <1>3, <1>7 DEF ReadAccount, Serve, Dropped
<1>8. CASE ResolveApiKey(t)
  <2>1. SUFFICES ASSUME ~End(t) PROVE TaskInv(t)'
    BY <1>3
  <2>2. pc[t] = "api_key" /\ OpenKey(job[t].key) /\ job[t].key \in Keys
    BY <1>1, <1>8, <2>1 DEF ResolveApiKey, TaskInv, KeyCalls
  <2>3. /\ pc'[t] \in {"role", "serve"} /\ job'[t].key = job[t].key
        /\ late'[t] = late[t] /\ job'[t].role = role[key[job[t].key].owner]
        /\ job'[t].op = job[t].op /\ (job[t].op = "admin" => pc'[t] = "role")
    BY <1>1, <1>8, <2>2 DEF ResolveApiKey, TypeOK
  <2>4. /\ late[t] \in {"no", "role"}
        /\ late[t] = "role" => job[t].op = "admin" /\ role[key[job[t].key].owner] # "admin"
    BY <1>1, <2>2 DEF TaskInv, OpenKey, TypeOK
  <2>5. QED
    BY <1>2, <2>2, <2>3, <2>4 DEF TaskInv, SessionOps, KeyCalls, SeedSteps, OpenKey
<1>9. CASE RequireAdminRole(t)
  <2>1. SUFFICES ASSUME ~End(t) PROVE TaskInv(t)'
    BY <1>3
  <2>2. /\ pc[t] = "role" /\ job[t].role = "admin"
        /\ pc'[t] = "serve_admin" /\ job'[t] = job[t] /\ late'[t] = late[t]
    BY <1>1, <1>9, <2>1 DEF RequireAdminRole, Goto, TypeOK
  <2>3. late[t] = "no"
    BY <1>1, <2>2 DEF TaskInv, TypeOK
  <2>4. QED
    BY <1>1, <1>2, <2>2, <2>3 DEF TaskInv, SessionOps, KeyCalls, SeedSteps
<1>10. ASSUME NEW e \in Emails, StartRegister(t, e) \/ Login(t, e) PROVE TaskInv(t)'
  <2>1. pc'[t] \in {"register", "session"} /\ job'[t].who = e /\ late'[t] = "no"
    <3>1. pc[t] = "idle" /\ late' = late
      BY <1>10 DEF StartRegister, Login, Begin
    <3>2. late'[t] = "no"
      BY <3>1, IdleIsNotLate
    <3>3. pc'[t] \in {"register", "session"} /\ job'[t].who = e
      <4>1. CASE StartRegister(t, e)
        BY <1>1, <4>1 DEF StartRegister, Begin, TypeOK, NoJob
      <4>2. CASE Login(t, e)
        BY <1>1, <4>2 DEF Login, Begin, TypeOK, NoJob
      <4>3. QED
        BY <1>10, <4>1, <4>2
    <3>4. QED
      BY <3>2, <3>3
  <2>2. pc'[t] = "session" => role'[e] # "none"
    BY <1>1, <1>2, <1>10 DEF StartRegister, Login, Begin, TypeOK, UserFound
  <2>3. QED
    BY <2>1, <2>2 DEF TaskInv, SessionOps, KeyCalls, SeedSteps
<1>11. ASSUME NEW s \in Sessions, NEW k \in Keys \cup {NoKey}, NEW op \in SessionOps,
              StartSessionCall(t, s, op, k)
       PROVE  TaskInv(t)'
  <2>1. /\ pc'[t] = "lookup" /\ job'[t].session = s /\ job'[t].op = op /\ job'[t].key = k
        /\ session[s].owner # NoUser /\ (op = "revoke_key" => k \in Keys)
    BY <1>1, <1>11 DEF StartSessionCall, Begin, TypeOK, NoJob
  <2>2. late'[t] # "role" /\ (late'[t] = "dead" => session[s].revoked \/ Expired(s))
    BY <1>1, <1>11 DEF StartSessionCall, TypeOK
  <2>3. late'[t] = "dead" => session'[s].revoked \/ session'[s].expires <= now'
    BY <1>2, <2>2 DEF Expired
  <2>4. QED
    BY <1>2, <1>11, <2>1, <2>2, <2>3 DEF TaskInv, SessionOps, KeyCalls, SeedSteps, Expired
<1>12. ASSUME NEW k \in Keys, NEW op \in {"user", "admin"}, StartKeyCall(t, k, op)
       PROVE  TaskInv(t)'
  <2>1. pc'[t] = "api_key" /\ job'[t].key = k /\ key[k].owner # NoUser /\ job'[t].op = op
    BY <1>1, <1>12 DEF StartKeyCall, Begin, TypeOK, NoJob
  <2>2. /\ late'[t] = "dead" => key[k].revoked
        /\ late'[t] = "role" => op = "admin" /\ role[key[k].owner] # "admin"
    BY <1>1, <1>12 DEF StartKeyCall, TypeOK
  <2>3. QED
    BY <1>2, <2>1, <2>2 DEF TaskInv, SessionOps, KeyCalls, SeedSteps
<1>13. QED
  BY <1>4, <1>5, <1>6, <1>7, <1>8, <1>9, <1>10, <1>11, <1>12 DEF Quiet

(* A step that writes a table ends its task, or sends the seed back to     *)
(* look again.                                                             *)
LEMMA WritingKeeps ==
    ASSUME AuthInv, NEW t \in Tasks, Writing(t)
    PROVE  TaskInv(t)'
<1>1. TypeOK /\ TaskInv(t)
  BY DEF AuthInv
<1>2. End(t) \/ (CreateSeedUser(t) /\ Goto(t, "seed_again")) \/ PromoteSeedUser(t)
  BY Zenon DEF Writing, PromoteSeedUser, CreateSeedUser, Register, CreateSession,
         RevokeExpired, RevokeApiKey, CreateApiKey, Seeded
<1>3. CASE End(t)
  BY <1>1, <1>3, EndedKeeps
<1>4. CASE CreateSeedUser(t) /\ Goto(t, "seed_again")
  <2>1. pc'[t] = "seed_again" /\ late'[t] = "no" /\ job'[t].role \in asked'
    BY <1>1, <1>4, IdleIsNotLate DEF CreateSeedUser, Goto, TypeOK, TaskInv, SeedSteps
  <2>2. QED
    BY <2>1 DEF TaskInv, SessionOps, KeyCalls, SeedSteps
<1>5. CASE PromoteSeedUser(t)
  <2>1. pc'[t] = "idle" /\ late'[t] = "no"
    BY <1>1, <1>5, IdleIsNotLate DEF PromoteSeedUser, TypeOK
  <2>2. QED
    BY <2>1 DEF TaskInv, SessionOps, KeyCalls, SeedSteps
<1>6. QED
  BY <1>2, <1>3, <1>4, <1>5

(* Only the task that moves changes its own state.                         *)
LEMMA OthersStay ==
    ASSUME TypeOK, NEW t \in Tasks, NEW u \in Tasks \ {t}, Quiet(t) \/ Writing(t)
    PROVE  pc'[u] = pc[u] /\ job'[u] = job[u] /\ late'[u] \in {late[u], "no"}
<1>1. \/ End(t) \/ PromoteSeedUser(t) \/ (\E p \in PcSet : Goto(t, p))
      \/ /\ \E p : pc' = [pc EXCEPT ![t] = p]
         /\ \E j : job' = [job EXCEPT ![t] = j]
         /\ UNCHANGED late \/ \E b : late' = [late EXCEPT ![t] = b]
  BY Zenon DEF Quiet, StartSeed, FindSeedUser, LookupSession, ReadAccount, ResolveApiKey,
         RequireAdminRole, Serve, Dropped, StartRegister, Login, StartSessionCall,
         StartKeyCall, Writing, CreateSeedUser, Register, CreateSession,
         RevokeExpired, RevokeApiKey, CreateApiKey, Seeded, Begin, PcSet
<1>2. CASE PromoteSeedUser(t)
  BY <1>2 DEF PromoteSeedUser, TypeOK
<1>3. QED
  BY <1>1, <1>2 DEF End, Goto, TypeOK

-----------------------------------------------------------------------------
(* A seed that returns leaves a role that was asked for, whoever else      *)
(* seeds or registers the address.                                         *)
LEMMA SeedKeeps == AuthInv /\ [Next]_vars => SeedTakesEffect'
<1>1. SUFFICES ASSUME AuthInv, [Next]_vars PROVE SeedTakesEffect'
  OBVIOUS
<1>2. TypeOK /\ SeedTakesEffect /\ TablesGrow
  BY <1>1, NextGrows DEF AuthInv
<1>3. ASSUME NEW t \in Tasks,
             FindSeedUser(t) \/ PromoteSeedUser(t) \/ CreateSeedUser(t), seeded'
      PROVE  role'[SeedEmail] \in asked'
  <2>1. job[t].role \in asked /\ asked' = asked
    BY <1>1, <1>3 DEF AuthInv, TaskInv, SeedSteps, FindSeedUser, PromoteSeedUser, CreateSeedUser
  <2>2. CASE FindSeedUser(t)
    BY <1>2, <1>3, <2>1, <2>2 DEF FindSeedUser, tables, SeedTakesEffect
  <2>3. CASE PromoteSeedUser(t)
    BY <1>2, <2>1, <2>3, AuthAssumption DEF PromoteSeedUser, TypeOK
  <2>4. CASE CreateSeedUser(t)
    BY <1>2, <1>3, <2>1, <2>4, AuthAssumption DEF CreateSeedUser, TypeOK, SeedTakesEffect
  <2>5. QED
    BY <1>3, <2>2, <2>3, <2>4
<1>4. seeded' => role'[SeedEmail] \in asked'
  <2>1. SUFFICES ASSUME seeded',
                        ~\E t \in Tasks : FindSeedUser(t) \/ PromoteSeedUser(t) \/ CreateSeedUser(t)
                 PROVE  role'[SeedEmail] \in asked'
    BY <1>3
  <2>2. seeded' = seeded
    BY <1>1, <2>1, Zenon
       DEF Next, Work, vars, StartSeed, Register, LookupSession, RevokeExpired, RevokeApiKey,
           ReadAccount, ResolveApiKey, RequireAdminRole, Serve, Dropped, StartRegister, Login,
           CreateSession, StartSessionCall, CreateApiKey, StartKeyCall, Logout, Tick
  <2>3. role[SeedEmail] \in asked /\ role[SeedEmail] # "none" /\ asked \subseteq asked'
    BY <1>2, <2>1, <2>2, AuthAssumption DEF SeedTakesEffect, TypeOK, TablesGrow
  <2>4. role'[SeedEmail] = role[SeedEmail]
    BY <1>1, <2>1, <2>3, RoleMoves, AuthAssumption
  <2>5. QED
    BY <2>3, <2>4
<1>5. ASSUME NEW t \in Tasks, pc'[t] = "seed_again" PROVE role'[SeedEmail] # "none"
  <2>1. SUFFICES ASSUME pc[t] # "seed_again" PROVE role[SeedEmail] # "none"
    BY <1>2, <1>5, AuthAssumption DEF SeedTakesEffect, TablesGrow
  <2>2. CASE Quiet(t)
    <3>1. \/ End(t) \/ LookupSession(t) \/ ResolveApiKey(t)
          \/ \E p \in PcSet \ {"seed_again"} : pc' = [pc EXCEPT ![t] = p]
      BY <2>2, Zenon
         DEF Quiet, StartSeed, FindSeedUser, ReadAccount, RequireAdminRole, Serve, Dropped,
             StartRegister, Login, StartSessionCall, StartKeyCall, Seeded, Begin, Goto, PcSet
    <3>2. TaskInv(t)
      BY <1>1 DEF AuthInv
    <3>3. CASE LookupSession(t) /\ ~End(t)
      <4>1. pc'[t] \in SessionOps \cup {"expire"}
        BY <1>2, <3>2, <3>3 DEF LookupSession, Goto, TaskInv, TypeOK
      <4>2. QED
        BY <1>5, <4>1 DEF SessionOps
    <3>4. CASE End(t) \/ ResolveApiKey(t)
      BY <1>2, <1>5, <3>4 DEF ResolveApiKey, End, TypeOK
    <3>5. QED
      BY <1>2, <1>5, <3>1, <3>3, <3>4 DEF TypeOK
  <2>3. CASE Writing(t)
    <3>1. End(t) \/ role[SeedEmail] # "none" \/ PromoteSeedUser(t)
      BY <2>3, Zenon DEF Writing, PromoteSeedUser, CreateSeedUser, Register, CreateSession,
             RevokeExpired, RevokeApiKey, CreateApiKey, Seeded
    <3>2. QED
      BY <1>2, <1>5, <3>1 DEF End, PromoteSeedUser, TypeOK
  <2>4. CASE pc'[t] = pc[t]
    BY <1>5, <2>1, <2>4
  <2>5. ASSUME NEW u \in Tasks \ {t}, Quiet(u) \/ Writing(u) PROVE pc'[t] = pc[t]
    BY <1>2, <2>5, OthersStay
  <2>6. QED
    BY <1>1, <2>2, <2>3, <2>4, <2>5, NextCases DEF Logout, Tick, vars
<1>6. QED
  BY <1>4, <1>5 DEF SeedTakesEffect

(* Sessions and keys are only given to users, who are never deleted.       *)
LEMMA OwnersKeep == AuthInv /\ [Next]_vars => OwnersExist'
<1>1. SUFFICES ASSUME AuthInv, [Next]_vars PROVE OwnersExist'
  OBVIOUS
<1>2. TypeOK /\ OwnersExist /\ TablesGrow
  BY <1>1, NextGrows DEF AuthInv
<1>3. \A e \in Emails : role[e] # "none" => role'[e] # "none"
  BY <1>2 DEF TablesGrow
<1>4. ASSUME NEW s \in Sessions, session'[s].owner # NoUser
      PROVE  role'[session'[s].owner] # "none"
  <2>1. CASE session'[s].owner = session[s].owner
    BY <1>2, <1>3, <1>4, <2>1 DEF OwnersExist, TypeOK
  <2>2. ASSUME NEW t \in Tasks, NEW o \in Sessions, CreateSession(t, o)
        PROVE  role'[session'[s].owner] # "none"
    <3>1. job[t].who \in Emails /\ role[job[t].who] # "none"
      BY <1>1, <2>2 DEF AuthInv, TaskInv, CreateSession
    <3>2. session'[s].owner \in {session[s].owner, job[t].who}
      BY <1>2, <2>2 DEF CreateSession, TypeOK
    <3>3. QED
      BY <1>3, <2>1, <3>1, <3>2
  <2>3. ASSUME NEW t \in Tasks, RevokeExpired(t) PROVE session'[s].owner = session[s].owner
    BY <1>2, <2>3 DEF RevokeExpired, TypeOK
  <2>4. ASSUME NEW o \in Sessions, Logout(o) PROVE session'[s].owner = session[s].owner
    BY <1>2, <2>4 DEF Logout, TypeOK
  <2>5. UNCHANGED session \/ \/ \E t \in Tasks, o \in Sessions : CreateSession(t, o)
                             \/ \E t \in Tasks : RevokeExpired(t)
                             \/ \E o \in Sessions : Logout(o)
    BY <1>1, Zenon
       DEF Next, Work, vars, StartSeed, FindSeedUser, PromoteSeedUser, CreateSeedUser, Register,
           LookupSession, RevokeApiKey, ReadAccount, ResolveApiKey, RequireAdminRole, Serve,
           Dropped, StartRegister, Login, StartSessionCall, CreateApiKey, StartKeyCall, Tick,
           tables
  <2>6. QED
    BY <2>1, <2>2, <2>3, <2>4, <2>5
<1>5. ASSUME NEW k \in Keys, key'[k].owner # NoUser
      PROVE  role'[key'[k].owner] # "none"
  <2>1. CASE key'[k].owner = key[k].owner
    BY <1>2, <1>3, <1>5, <2>1 DEF OwnersExist, TypeOK
  <2>2. ASSUME NEW t \in Tasks, NEW m \in Keys, CreateApiKey(t, m)
        PROVE  role'[key'[k].owner] # "none"
    <3>1. /\ job[t].session \in Sessions /\ job[t].who \in Emails
          /\ session[job[t].session].owner = job[t].who
      BY <1>1, <2>2 DEF AuthInv, TaskInv, CreateApiKey, SessionOps
    <3>2. role[job[t].who] # "none"
      BY <1>2, <3>1, AuthAssumption DEF OwnersExist
    <3>3. key'[k].owner \in {key[k].owner, job[t].who}
      BY <1>2, <2>2 DEF CreateApiKey, TypeOK
    <3>4. QED
      BY <1>3, <2>1, <3>1, <3>2, <3>3
  <2>3. ASSUME NEW t \in Tasks, RevokeApiKey(t) PROVE key'[k].owner = key[k].owner
    BY <1>2, <2>3 DEF RevokeApiKey, TypeOK
  <2>4. UNCHANGED key \/ \/ \E t \in Tasks, m \in Keys : CreateApiKey(t, m)
                         \/ \E t \in Tasks : RevokeApiKey(t)
    BY <1>1, Zenon
       DEF Next, Work, vars, StartSeed, FindSeedUser, PromoteSeedUser, CreateSeedUser, Register,
           LookupSession, RevokeExpired, ReadAccount, ResolveApiKey, RequireAdminRole, Serve,
           Dropped, StartRegister, Login, StartSessionCall, CreateSession, StartKeyCall, Logout,
           Tick, tables
  <2>5. QED
    BY <2>1, <2>2, <2>3, <2>4
<1>6. QED
  BY <1>4, <1>5 DEF OwnersExist

(* Every step keeps the invariant.                                         *)
LEMMA NextInv == AuthInv /\ [Next]_vars => AuthInv'
<1>1. SUFFICES ASSUME AuthInv, [Next]_vars PROVE AuthInv'
  OBVIOUS
<1>2. TypeOK /\ TypeOK' /\ SeedTakesEffect' /\ OwnersExist' /\ TablesGrow
  BY <1>1, NextType, SeedKeeps, OwnersKeep, NextGrows DEF AuthInv
<1>3. ASSUME NEW u \in Tasks PROVE TaskInv(u)'
  <2>1. CASE pc'[u] = pc[u] /\ job'[u] = job[u] /\ late'[u] \in {late[u], "no"}
    BY <1>1, <1>2, <2>1, BystanderKeeps, StillLacksRole
  <2>2. CASE Quiet(u) \/ Writing(u)
    BY <1>1, <2>2, QuietKeeps, WritingKeeps
  <2>3. ASSUME NEW t \in Tasks, u # t, Quiet(t) \/ Writing(t)
        PROVE  pc'[u] = pc[u] /\ job'[u] = job[u] /\ late'[u] \in {late[u], "no"}
    BY <1>2, <2>3, OthersStay
  <2>4. QED
    BY <1>1, <2>1, <2>2, <2>3, NextCases DEF Logout, Tick, vars
<1>4. QED
  BY <1>2, <1>3 DEF AuthInv

(* In every state what tasks know of the tables is true of them.           *)
THEOREM Inductive == Spec => []AuthInv
  BY InitInv, NextInv, PTL DEF Spec

(* However many processes seed at once and whoever registers the address,  *)
(* a seed that returned Ok has left a user with a role that was asked for, *)
(* the configured one where all processes agree, and the "existed          *)
(* concurrently but cannot be resolved" error is never reached.            *)
THEOREM SeedWorks == Spec => []SeedTakesEffect
<1>1. AuthInv => SeedTakesEffect
  BY DEF AuthInv
<1>2. QED
  BY <1>1, Inductive, PTL

(* A request that begins with a revoked key, or with a session that was    *)
(* logged out or has expired, never gets past the lookup.                  *)
THEOREM DeadStayOut == Spec => []DeadCredentialRefused
<1>1. AuthInv => DeadCredentialRefused
  BY DEF AuthInv, TaskInv, DeadCredentialRefused
<1>2. QED
  BY <1>1, Inductive, PTL

(* However seeds with different roles promote and demote a user, a request *)
(* behind require_admin_role is one of a user who has been an              *)
(* administrator since it began.                                           *)
THEOREM DemotedStayOut == Spec => []DemotedIsRefused
<1>1. AuthInv => DemotedIsRefused
  BY DEF AuthInv, TaskInv, DemotedIsRefused
<1>2. QED
  BY <1>1, Inductive, PTL

(* API keys are created and revoked only under a session of their owner.   *)
THEOREM OwnersOnly == Spec => OwnerActs
<1>1. AuthInv /\ [Next]_vars =>
          [\A k \in Keys : key'[k] # key[k] =>
              \E t \in Tasks : /\ pc[t] \in {"create_key", "revoke_key"}
                               /\ session[job[t].session].owner = key'[k].owner]_vars
  <2>1. SUFFICES ASSUME AuthInv, Next, NEW k \in Keys, key'[k] # key[k]
                 PROVE  \E t \in Tasks : /\ pc[t] \in {"create_key", "revoke_key"}
                                         /\ session[job[t].session].owner = key'[k].owner
    OBVIOUS
  <2>2. TypeOK
    BY <2>1 DEF AuthInv
  <2>3. PICK t \in Tasks : RevokeApiKey(t) \/ \E m \in Keys : CreateApiKey(t, m)
    BY <2>1, Zenon
       DEF Next, Work, StartSeed, FindSeedUser, PromoteSeedUser, CreateSeedUser, Register,
           LookupSession, RevokeExpired, ReadAccount, ResolveApiKey, RequireAdminRole, Serve,
           Dropped, StartRegister, Login, CreateSession, StartSessionCall, StartKeyCall,
           Logout, Tick, tables
  <2>4. TaskInv(t)
    BY <2>1 DEF AuthInv
  <2>5. CASE RevokeApiKey(t)
    BY <2>1, <2>2, <2>4, <2>5 DEF RevokeApiKey, TaskInv, TypeOK, SessionOps
  <2>6. ASSUME NEW m \in Keys, CreateApiKey(t, m)
        PROVE  /\ pc[t] = "create_key"
               /\ session[job[t].session].owner = key'[k].owner
    BY <2>1, <2>2, <2>4, <2>6 DEF CreateApiKey, TaskInv, TypeOK, SessionOps
  <2>7. QED
    BY <2>3, <2>5, <2>6
<1>2. QED
  BY <1>1, Inductive, PTL DEF Spec, OwnerActs
==============================================================================
