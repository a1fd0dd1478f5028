-------------------------------- MODULE Auth --------------------------------
(* Accounts, sessions and API keys: mizan-api/src/auth.rs.  The seeding of *)
(* the administrator by every process that starts, registration, login and *)
(* logout, the session-protected API-key endpoints, and the API-key        *)
(* middleware with the role check of the administrators' routes.  A task   *)
(* is one request, or one start-up; it may be suspended at each statement. *)
(*                                                                         *)
(* Left out: hashing of tokens and passwords (a token stands for its row,  *)
(* a password is right or wrong), e-mail normalisation, labels and         *)
(* response bodies.  Users are never deleted, and users.email is UNIQUE,   *)
(* so an e-mail names its user.                                            *)
EXTENDS Integers, FiniteSets

CONSTANTS
    Emails,     \* normalised e-mail addresses
    SeedEmail,  \* config.admin_seed_email
    SeedRoles,  \* what config.admin_seed_role may be, one per process
    NoUser,     \* no e-mail address
    Sessions,   \* session ids
    NoSession,  \* none of them
    Keys,       \* API-key ids
    NoKey,      \* none of them
    Tasks,      \* requests and start-ups in flight
    SessionTtl, \* SESSION_TTL_SECONDS
    MaxTime,    \* bound on the clock
    Faults      \* statements fail and tasks are dropped

ASSUME AuthAssumption ==
    /\ SeedEmail \in Emails /\ NoUser \notin Emails /\ "none" \notin SeedRoles
    /\ NoSession \notin Sessions /\ NoKey \notin Keys
    /\ SessionTtl \in Nat /\ MaxTime \in Nat /\ Faults \in BOOLEAN

VARIABLES
    now,     \* the clock, in seconds
    role,    \* table users: the role of each e-mail, "none" without a row
    session, \* table sessions
    key,     \* table api_keys
    pc,      \* what a task does next
    job,     \* its parameters and what it has read
    asked,   \* history: the roles that processes have seeded with
    seeded,  \* history: some ensure_admin_seed has returned Ok
    late     \* history: what the task lacks since it began: a live credential,
             \* or the role of an administrator

tables == <<role, session, key>>
vars   == <<now, tables, pc, job, asked, seeded, late>>

NoJob == [op |-> "none", who |-> NoUser, session |-> NoSession, key |-> NoKey,
          role |-> "none", read |-> 0]

Init ==
    /\ now = 0
    /\ role = [e \in Emails |-> "none"]
    /\ session = [s \in Sessions |-> [owner |-> NoUser, expires |-> 0, revoked |-> FALSE]]
    /\ key = [k \in Keys |-> [owner |-> NoUser, revoked |-> FALSE]]
    /\ pc = [t \in Tasks |-> "idle"]
    /\ job = [t \in Tasks |-> NoJob]
    /\ asked = {}
    /\ seeded = FALSE
    /\ late = [t \in Tasks |-> "no"]

-----------------------------------------------------------------------------
Begin(t, p, j) ==
    /\ pc[t] = "idle"
    /\ pc' = [pc EXCEPT ![t] = p]
    /\ job' = [job EXCEPT ![t] = j]

Goto(t, p) == pc' = [pc EXCEPT ![t] = p] /\ UNCHANGED <<job, late>>

(* The task answers, or is dropped, and is free again.                     *)
End(t) ==
    /\ pc' = [pc EXCEPT ![t] = "idle"]
    /\ job' = [job EXCEPT ![t] = NoJob]
    /\ late' = [late EXCEPT ![t] = "no"]

(* find_user_by_email finds a row.                                         *)
UserFound(e) == role[e] # "none"

(* The row a session or key token resolves to.                             *)
OpenSession(s) == session[s].owner # NoUser /\ ~session[s].revoked
OpenKey(k)     == key[k].owner # NoUser /\ ~key[k].revoked
Expired(s)     == session[s].expires <= now

-----------------------------------------------------------------------------
(* ensure_admin_seed, run by every process that starts.  Each process has  *)
(* its own configuration, and so its own role to seed with.                *)

StartSeed(t, r) ==
    /\ Begin(t, "seed_find", [NoJob EXCEPT !.op = "seed", !.who = SeedEmail, !.role = r])
    /\ asked' = asked \cup {r}
    /\ UNCHANGED <<now, tables, seeded, late>>

(* The seed has returned Ok.                                               *)
Seeded(t) == End(t) /\ seeded' = TRUE

(* find_user_by_email, and again after a duplicate insert: a user of       *)
(* another role gets the configured one, and without a user one is created. *)
(* The error of the second lookup, "existed concurrently but cannot be     *)
(* resolved", is the last case.                                            *)
FindSeedUser(t) ==
    /\ pc[t] \in {"seed_find", "seed_again"}
    /\ CASE role[SeedEmail] = job[t].role -> Seeded(t)
         [] UserFound(SeedEmail) /\ role[SeedEmail] # job[t].role ->
                Goto(t, "seed_promote") /\ UNCHANGED seeded
         [] ~UserFound(SeedEmail) /\ pc[t] = "seed_find" ->
                Goto(t, "seed_create") /\ UNCHANGED seeded
         [] OTHER -> End(t) /\ UNCHANGED seeded
    /\ UNCHANGED <<now, tables, asked>>

(* UPDATE users SET role = ?, which may as well demote an administrator.   *)
(* A request that waited as an ordinary user's is one of an administrator  *)
(* from now on.                                                            *)
PromoteSeedUser(t) ==
    /\ pc[t] = "seed_promote"
    /\ role' = [role EXCEPT ![SeedEmail] = job[t].role]
    /\ pc' = [pc EXCEPT ![t] = "idle"]
    /\ job' = [job EXCEPT ![t] = NoJob]
    /\ late' = [u \in Tasks |->
           IF /\ late[u] = "role" /\ job[t].role = "admin"
              /\ key[job[u].key].owner = SeedEmail
           THEN "no" ELSE late[u]]
    /\ seeded' = TRUE
    /\ UNCHANGED <<now, session, key, asked>>

(* Mutant: a duplicate is taken for a seed of another process.             *)
CreateSeedUserDuplicateOk(t) ==
    /\ pc[t] = "seed_create"
    /\ role' = IF role[SeedEmail] = "none"
               THEN [role EXCEPT ![SeedEmail] = job[t].role] ELSE role
    /\ Seeded(t)
    /\ UNCHANGED <<now, session, key, asked>>

(* create_user: somebody may have registered the address in between.       *)
CreateSeedUser(t) ==
    /\ pc[t] = "seed_create"
    /\ IF role[SeedEmail] = "none"
       THEN role' = [role EXCEPT ![SeedEmail] = job[t].role] /\ Seeded(t)
       ELSE Goto(t, "seed_again") /\ UNCHANGED <<role, seeded>>
    /\ UNCHANGED <<now, session, key, asked>>

-----------------------------------------------------------------------------
(* register, login and logout.                                             *)

StartRegister(t, e) ==
    /\ Begin(t, "register", [NoJob EXCEPT !.op = "register", !.who = e])
    /\ UNCHANGED <<now, tables, asked, seeded, late>>

(* create_user: a duplicate e-mail is refused.                             *)
Register(t) ==
    /\ pc[t] = "register"
    /\ role' = IF role[job[t].who] = "none"
               THEN [role EXCEPT ![job[t].who] = "member"] ELSE role
    /\ End(t)
    /\ UNCHANGED <<now, session, key, asked, seeded>>

(* login up to create_session: the user is found, the password is right,   *)
(* and create_session has read the clock.  Otherwise the task answers 401  *)
(* and has changed nothing.                                                *)
Login(t, e) ==
    /\ UserFound(e)
    /\ Begin(t, "session", [NoJob EXCEPT !.op = "login", !.who = e, !.read = now])
    /\ UNCHANGED <<now, tables, asked, seeded, late>>

CreateSession(t, s) ==
    /\ pc[t] = "session" /\ session[s].owner = NoUser
    /\ session' = [session EXCEPT ![s] =
           [owner |-> job[t].who, expires |-> job[t].read + SessionTtl, revoked |-> FALSE]]
    /\ End(t)
    /\ UNCHANGED <<now, role, key, asked, seeded>>

(* logout: one UPDATE, whatever the expiry.                                *)
Logout(s) ==
    /\ OpenSession(s)
    /\ session' = [session EXCEPT ![s].revoked = TRUE]
    /\ UNCHANGED <<now, role, key, pc, job, asked, seeded, late>>

-----------------------------------------------------------------------------
(* create_api_key, list_api_keys, revoke_api_key and me: the session is    *)
(* looked up first.                                                        *)

StartSessionCall(t, s, op, k) ==
    /\ session[s].owner # NoUser
    /\ k # NoKey <=> op = "revoke_key"
    /\ k # NoKey => key[k].owner # NoUser
    /\ Begin(t, "lookup", [NoJob EXCEPT !.op = op, !.session = s, !.key = k])
    /\ late' = [late EXCEPT ![t] = IF session[s].revoked \/ Expired(s)
                                    THEN "dead" ELSE "no"]
    /\ UNCHANGED <<now, tables, asked, seeded>>

(* Mutant: a session may be used in the second it expires.                 *)
LookupSessionLastSecond(t) ==
    LET s == job[t].session IN
    /\ pc[t] = "lookup"
    /\ IF ~OpenSession(s) THEN End(t)
       ELSE IF session[s].expires < now THEN Goto(t, "expire")
       ELSE /\ pc' = [pc EXCEPT ![t] = job[t].op]
            /\ job' = [job EXCEPT ![t].who = session[s].owner]
            /\ UNCHANGED late
    /\ UNCHANGED <<now, tables, asked, seeded>>

(* session_user_id_from_header: SELECT ... WHERE revoked = 0, then the     *)
(* expiry is compared.                                                     *)
LookupSession(t) ==
    LET s == job[t].session IN
    /\ pc[t] = "lookup"
    /\ IF ~OpenSession(s) THEN End(t)
       ELSE IF Expired(s) THEN Goto(t, "expire")
       ELSE /\ pc' = [pc EXCEPT ![t] = job[t].op]
            /\ job' = [job EXCEPT ![t].who = session[s].owner]
            /\ UNCHANGED late
    /\ UNCHANGED <<now, tables, asked, seeded>>

(* An expired session is marked revoked; a failure of that is ignored.     *)
RevokeExpired(t) ==
    /\ pc[t] = "expire"
    /\ session' = [session EXCEPT ![job[t].session].revoked = TRUE]
    /\ End(t)
    /\ UNCHANGED <<now, role, key, asked, seeded>>

CreateApiKey(t, k) ==
    /\ pc[t] = "create_key" /\ key[k].owner = NoUser
    /\ key' = [key EXCEPT ![k] = [owner |-> job[t].who, revoked |-> FALSE]]
    /\ End(t)
    /\ UNCHANGED <<now, role, session, asked, seeded>>

(* Mutant: the owner is not part of the UPDATE's condition.                *)
RevokeAnyApiKey(t) ==
    /\ pc[t] = "revoke_key"
    /\ key' = [key EXCEPT ![job[t].key].revoked = TRUE]
    /\ End(t)
    /\ UNCHANGED <<now, role, session, asked, seeded>>

(* revoke_api_key_by_owner: UPDATE ... WHERE id AND user_id AND revoked = 0 *)
RevokeApiKey(t) ==
    /\ pc[t] = "revoke_key"
    /\ key' = IF key[job[t].key].owner = job[t].who
              THEN [key EXCEPT ![job[t].key].revoked = TRUE] ELSE key
    /\ End(t)
    /\ UNCHANGED <<now, role, session, asked, seeded>>

(* list_api_keys_for_user and find_user_role_by_id only read.              *)
ReadAccount(t) ==
    /\ pc[t] \in {"list_keys", "me"}
    /\ End(t)
    /\ UNCHANGED <<now, tables, asked, seeded>>

-----------------------------------------------------------------------------
(* Requests with an API key: the gateway, the lists, administration.       *)

StartKeyCall(t, k, op) ==
    /\ key[k].owner # NoUser
    /\ Begin(t, "api_key", [NoJob EXCEPT !.op = op, !.key = k])
    /\ late' = [late EXCEPT ![t] = IF key[k].revoked THEN "dead"
                                    ELSE IF op = "admin" /\ role[key[k].owner] # "admin"
                                         THEN "role" ELSE "no"]
    /\ UNCHANGED <<now, tables, asked, seeded>>

(* api_key_auth: one SELECT gives the key's owner and his role, which are  *)
(* not looked at again.                                                    *)
ResolveApiKey(t) ==
    /\ pc[t] = "api_key"
    /\ IF OpenKey(job[t].key)
       THEN /\ pc' = [pc EXCEPT ![t] = IF job[t].op = "admin" THEN "role" ELSE "serve"]
            /\ job' = [job EXCEPT ![t].who = key[job[t].key].owner,
                                  ![t].role = role[key[job[t].key].owner]]
            /\ UNCHANGED late
       ELSE End(t)
    /\ UNCHANGED <<now, tables, asked, seeded>>

(* Mutant: only the role of registered users is kept out.                  *)
RequireNotMember(t) ==
    /\ pc[t] = "role"
    /\ IF job[t].role # "member" THEN Goto(t, "serve_admin") ELSE End(t)
    /\ UNCHANGED <<now, tables, asked, seeded>>

RequireAdminRole(t) ==
    /\ pc[t] = "role"
    /\ IF job[t].role = "admin" THEN Goto(t, "serve_admin") ELSE End(t)
    /\ UNCHANGED <<now, tables, asked, seeded>>

(* The handler behind the middleware, modelled elsewhere.                  *)
Serve(t) ==
    /\ pc[t] \in {"serve", "serve_admin"}
    /\ End(t)
    /\ UNCHANGED <<now, tables, asked, seeded>>

-----------------------------------------------------------------------------
(* A statement fails, the client leaves, or the process stops.             *)
Dropped(t) ==
    /\ Faults /\ pc[t] # "idle"
    /\ End(t)
    /\ UNCHANGED <<now, tables, asked, seeded>>

Tick ==
    /\ now < MaxTime
    /\ now' = now + 1
    /\ UNCHANGED <<tables, pc, job, asked, seeded, late>>

Work(t) ==
    \/ FindSeedUser(t) \/ PromoteSeedUser(t) \/ CreateSeedUser(t)
    \/ Register(t) \/ LookupSession(t) \/ RevokeExpired(t)
    \/ RevokeApiKey(t) \/ ReadAccount(t)
    \/ ResolveApiKey(t) \/ RequireAdminRole(t) \/ Serve(t)

Next ==
    \/ \E t \in Tasks : Work(t) \/ Dropped(t)
    \/ \E t \in Tasks, r \in SeedRoles : StartSeed(t, r)
    \/ \E t \in Tasks, e \in Emails : StartRegister(t, e) \/ Login(t, e)
    \/ \E t \in Tasks, s \in Sessions : CreateSession(t, s)
    \/ \E t \in Tasks, s \in Sessions, k \in Keys \cup {NoKey} :
           \E op \in {"create_key", "list_keys", "revoke_key", "me"} :
               StartSessionCall(t, s, op, k)
    \/ \E t \in Tasks, k \in Keys : \/ CreateApiKey(t, k)
                                    \/ \E op \in {"user", "admin"} : StartKeyCall(t, k, op)
    \/ \E s \in Sessions : Logout(s)
    \/ Tick

Spec == Init /\ [][Next]_vars

-----------------------------------------------------------------------------
(* Properties.                                                             *)

Roles == {"none", "member"} \cup SeedRoles
PcSet == {"idle", "seed_find", "seed_again", "seed_create", "seed_promote", "register",
          "session", "lookup", "expire", "create_key", "list_keys", "revoke_key", "me",
          "api_key", "role", "serve", "serve_admin"}

(* Shape of the state.                                                     *)
TypeOK ==
    /\ now \in Nat
    /\ role \in [Emails -> Roles]
    /\ session \in [Sessions -> [owner : Emails \cup {NoUser}, expires : Nat,
                                 revoked : BOOLEAN]]
    /\ key \in [Keys -> [owner : Emails \cup {NoUser}, revoked : BOOLEAN]]
    /\ pc \in [Tasks -> PcSet]
    /\ job \in [Tasks -> [op : PcSet \cup {"none", "seed", "login", "user", "admin"},
                          who : Emails \cup {NoUser}, session : Sessions \cup {NoSession},
                          key : Keys \cup {NoKey}, role : Roles, read : Nat]]
    /\ asked \subseteq SeedRoles
    /\ seeded \in BOOLEAN
    /\ late \in [Tasks -> {"no", "dead", "role"}]

(* Once a process has started with the seed configured, the seeded user    *)
(* exists and has a role that some process was configured with: where all  *)
(* are configured alike, that one, however many processes seed at once and *)
(* whoever registers the address meanwhile; and a duplicate insert never   *)
(* ends in the "cannot be resolved" error.                                 *)
SeedTakesEffect ==
    /\ seeded => role[SeedEmail] \in asked
    /\ \A t \in Tasks : pc[t] = "seed_again" => role[SeedEmail] # "none"

(* A request that begins after its session was logged out or has expired,  *)
(* or after its key was revoked, does not get past the lookup; one that    *)
(* began before may.                                                       *)
DeadCredentialRefused ==
    \A t \in Tasks : late[t] = "dead" => pc[t] \in {"lookup", "expire", "api_key"}

(* An API key is created or revoked only by a request that came with a     *)
(* session of the key's own user.                                          *)
OwnerActs ==
    [][\A k \in Keys : key'[k] # key[k] =>
          \E t \in Tasks : /\ pc[t] \in {"create_key", "revoke_key"}
                           /\ session[job[t].session].owner = key'[k].owner]_vars

(* The role is read with the key and may change before it is checked and   *)
(* before the handler runs.  Still, a request on an administrators' route  *)
(* whose user was no administrator when it began, one that another seed    *)
(* has demoted included, is served only if a seed has made him one since.  *)
DemotedIsRefused ==
    \A t \in Tasks : late[t] = "role" => pc[t] \in {"api_key", "role"}
=============================================================================
