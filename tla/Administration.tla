--------------------------- MODULE Administration ---------------------------
(***************************************************************************)
(* What administrators change besides videos and Bunny's settings: roles,  *)
(* the records of signing keys, the security policy of a tier; and the row *)
(* that each of their sign-ins leaves in the audit log.  Every handler has *)
(* a DbContext of its own and other requests run between any two of its    *)
(* awaits; Identity detects a user saved meanwhile by its ConcurrencyStamp,*)
(* nothing else does.                                                      *)
(* The authorisation of the caller comes from its cookie and not from the  *)
(* rows: a revoked administrator goes on until the cookie is renewed, so   *)
(* nothing here depends on who calls.                                      *)
(***************************************************************************)
EXTENDS Integers, FiniteSets

CONSTANTS
  User,       \* accounts
  Role,       \* IdentitySeeder.AllRoles, or some of them
  AdminRole,  \* the one that has a guard
  Seeded,     \* the account of Seed:AdminEmail, or none
  Purpose,    \* purposes of signing keys
  Video,      \* videos, all of the tier whose policy is edited
  Ticket,     \* sign-ins, each with a cookie of its own
  UserOf,     \* UserOf[t]: who signs in with t
  Request,    \* requests that may be in flight at one time
  None,       \* no argument
  PolicyTtl,  \* VideoSecurityPolicyService.CacheTtl in ticks
  Slowest,    \* bound: ticks between reading a policy and caching it
  MaxVersion, \* bound: rotations of a key
  MaxEdits    \* bound: edits of the policy

ASSUME AdministrationAssumption ==
  /\ IsFiniteSet(User) /\ User # {}
  /\ AdminRole \in Role
  /\ Seeded \subseteq User
  /\ UserOf \in [Ticket -> User]
  /\ PolicyTtl \in Nat \ {0}
  /\ Slowest \in Nat /\ MaxVersion \in Nat /\ MaxEdits \in Nat

VARIABLES
  \* roles
  roles,     \* AspNetUserRoles: pairs of a user and a role
  current,   \* requests whose copy of a user has the ConcurrencyStamp of the row
  overlap,   \* history: one revocation has counted while another that had
             \* counted was about to remove a different Admin, and no seeded
             \* account has been restored since
  \* signing keys
  active,    \* active[p]: versions with IsActive
  latest,    \* latest[p]: the highest version, 0 if there is none
  lock,      \* the request whose transaction holds SQLite's write lock
  \* the policy, numbered by its edits
  policy,    \* the row
  replaced,  \* replaced[n]: ticks since edit n+1 replaced policy n
  cache,     \* cache[v]: the entry of v, one or none
  \* sign-ins
  fresh,     \* tickets issued within FreshSignInWindow
  marked,    \* keys of tickets in the IMemoryCache
  written,   \* written[t]: AdminLogin rows this process has written, at most 2
  presented, \* history: fresh tickets that a request of this process has shown
  lost,      \* history: those whose row this process has failed to write
  twice,     \* history: those looked up by a request between another's look
             \* and its mark
  \* requests
  pc,        \* pc[r]: where it is
  arg,       \* arg[r]: what it is about
  tracked,   \* tracked[r]: the active versions it has loaded
  top,       \* top[r]: the highest version it has read
  fetched,   \* fetched[r]: the policy it has read
  took       \* took[r]: ticks since it has

roleVars == <<roles, current, overlap>>
keyVars == <<active, latest, lock>>
policyVars == <<policy, replaced, cache>>
signInVars == <<fresh, marked, written, presented, lost, twice>>
reads == <<tracked, top, fetched, took>>
vars == <<roles, current, overlap, active, latest, lock, policy, replaced, cache,
          fresh, marked, written, presented, lost, twice, pc, arg, tracked, top,
          fetched, took>>

Admins == {u \in User : <<u, AdminRole>> \in roles}
Entry == [policy : 0..MaxEdits, age : 0..PolicyTtl - 1]
Horizon == PolicyTtl + Slowest

Label == {"idle", "count", "remove", "add", "max", "commit", "fill", "judge",
          "mark", "write"}
Subject == (User \X Role) \cup Purpose \cup Video \cup Ticket \cup {None}

RequestsOK ==
  /\ pc \in [Request -> Label]
  /\ arg \in [Request -> Subject]
  /\ tracked \in [Request -> SUBSET (1..MaxVersion)]
  /\ top \in [Request -> 0..MaxVersion]
  /\ fetched \in [Request -> 0..MaxEdits]
  /\ took \in [Request -> 0..Slowest]

TypeOK ==
  /\ roles \in SUBSET (User \X Role) /\ current \in SUBSET Request
  /\ overlap \in BOOLEAN
  /\ active \in [Purpose -> SUBSET (1..MaxVersion)]
  /\ latest \in [Purpose -> 0..MaxVersion]
  /\ lock \in SUBSET Request
  /\ policy \in 0..MaxEdits
  /\ replaced \in [0..MaxEdits -> 0..Horizon + 1]
  /\ cache \in [Video -> SUBSET Entry]
  /\ fresh \in SUBSET Ticket /\ presented \in SUBSET Ticket
  /\ lost \in SUBSET Ticket /\ twice \in SUBSET Ticket
  /\ marked \in SUBSET (Ticket \cup User)
  /\ written \in [Ticket -> 0..2]
  /\ RequestsOK

Init ==
  /\ roles = {<<u, AdminRole>> : u \in User}
  /\ current = {} /\ overlap = FALSE
  /\ active = [p \in Purpose |-> {}] /\ latest = [p \in Purpose |-> 0]
  /\ lock = {}
  /\ policy = 0 /\ replaced = [n \in 0..MaxEdits |-> 0]
  /\ cache = [v \in Video |-> {}]
  /\ fresh = {} /\ marked = {} /\ presented = {} /\ lost = {} /\ twice = {}
  /\ written = [t \in Ticket |-> 0]
  /\ pc = [r \in Request |-> "idle"] /\ arg = [r \in Request |-> None]
  /\ tracked = [r \in Request |-> {}] /\ top = [r \in Request |-> 0]
  /\ fetched = [r \in Request |-> 0] /\ took = [r \in Request |-> 0]
-----------------------------------------------------------------------------
Begin(r, label, subject) ==
  /\ pc[r] = "idle"
  /\ pc' = [pc EXCEPT ![r] = label]
  /\ arg' = [arg EXCEPT ![r] = subject]

Goto(r, label) == pc' = [pc EXCEPT ![r] = label] /\ UNCHANGED arg

Respond(r) ==
  /\ pc' = [pc EXCEPT ![r] = "idle"]
  /\ arg' = [arg EXCEPT ![r] = None]
  /\ tracked' = [tracked EXCEPT ![r] = {}]
  /\ top' = [top EXCEPT ![r] = 0]
  /\ fetched' = [fetched EXCEPT ![r] = 0]
  /\ took' = [took EXCEPT ![r] = 0]

(* SQLite has one writer: a save waits for a transaction under way. *)
MayWrite(r) == lock \subseteq {r}
-----------------------------------------------------------------------------
(* RolesController.Grant and Revoke.  FindByIdAsync loads the user with its
   ConcurrencyStamp. *)
Grant(r, u, role) ==
  /\ Begin(r, "add", <<u, role>>)
  /\ current' = current \cup {r}
  /\ UNCHANGED <<roles, overlap, keyVars, policyVars, signInVars, reads>>

Revoke(r, u, role) ==
  /\ Begin(r, IF role = AdminRole THEN "count" ELSE "remove", <<u, role>>)
  /\ current' = current \cup {r}
  /\ UNCHANGED <<roles, overlap, keyVars, policyVars, signInVars, reads>>

(* Mutant of CountAdmins: the last Admin counts as one too many to refuse. *)
RefusesNone(r) ==
  /\ pc[r] = "count"
  /\ IF Cardinality(Admins) < 1 /\ arg[r][1] \in Admins
     THEN Respond(r) /\ current' = current \ {r} /\ UNCHANGED overlap
     ELSE /\ Goto(r, "remove")
          /\ overlap' = (overlap \/ \E q \in Request \ {r} :
                           /\ pc[q] = "remove" /\ arg[q][2] = AdminRole
                           /\ arg[q][1] # arg[r][1])
          /\ UNCHANGED <<current, reads>>
  /\ UNCHANGED <<roles, keyVars, policyVars, signInVars>>

(* GetUsersInRoleAsync, and the refusal to revoke the last Admin. *)
CountAdmins(r) ==
  /\ pc[r] = "count"
  /\ IF Cardinality(Admins) <= 1 /\ arg[r][1] \in Admins
     THEN Respond(r) /\ current' = current \ {r} /\ UNCHANGED overlap
     ELSE /\ Goto(r, "remove")
          /\ overlap' = (overlap \/ \E q \in Request \ {r} :
                           /\ pc[q] = "remove" /\ arg[q][2] = AdminRole
                           /\ arg[q][1] # arg[r][1])
          /\ UNCHANGED <<current, reads>>
  /\ UNCHANGED <<roles, keyVars, policyVars, signInVars>>

(* UserManager saves the user with a new stamp, or fails because the stamp is
   not the one it has loaded.  A user who has the role already, or has lost
   it, is not saved at all. *)
SavesUser(r, new) ==
  LET u == arg[r][1]
  IN IF r \in current /\ new # roles
     THEN /\ roles' = new
          /\ current' = {q \in current : arg[q][1] # u}
     ELSE /\ current' = current \ {r} /\ UNCHANGED roles

AddToRoleAsync(r) ==
  /\ pc[r] = "add" /\ MayWrite(r)
  /\ SavesUser(r, roles \cup {arg[r]})
  /\ Respond(r)
  /\ UNCHANGED <<overlap, keyVars, policyVars, signInVars>>

RemoveFromRoleAsync(r) ==
  /\ pc[r] = "remove" /\ MayWrite(r)
  /\ SavesUser(r, roles \ {arg[r]})
  /\ Respond(r)
  /\ UNCHANGED <<overlap, keyVars, policyVars, signInVars>>
-----------------------------------------------------------------------------
(* Mutant of Rotate: without the transaction. *)
RotateUnlocked(r, p) ==
  /\ latest[p] < MaxVersion /\ MayWrite(r)
  /\ Begin(r, "max", p)
  /\ tracked' = [tracked EXCEPT ![r] = active[p]]
  /\ UNCHANGED <<roleVars, keyVars, policyVars, signInVars, top, fetched, took>>

(* KeyRotationController.Rotate: BEGIN IMMEDIATE, and the versions to retire. *)
Rotate(r, p) ==
  /\ latest[p] < MaxVersion /\ lock = {}
  /\ Begin(r, "max", p)
  /\ lock' = {r}
  /\ tracked' = [tracked EXCEPT ![r] = active[p]]
  /\ UNCHANGED <<roleVars, active, latest, policyVars, signInVars, top, fetched, took>>

MaxAsync(r) ==
  /\ pc[r] = "max"
  /\ top' = [top EXCEPT ![r] = latest[arg[r]]]
  /\ Goto(r, "commit")
  /\ UNCHANGED <<roleVars, keyVars, policyVars, signInVars, tracked, fetched, took>>

(* The save and the commit; a version that exists violates the index. *)
CommitAsync(r) ==
  LET p == arg[r]
  IN /\ pc[r] = "commit"
     /\ IF top[r] = latest[p] /\ latest[p] < MaxVersion
        THEN /\ latest' = [latest EXCEPT ![p] = top[r] + 1]
             /\ active' = [active EXCEPT ![p] = (@ \ tracked[r]) \cup {top[r] + 1}]
        ELSE UNCHANGED <<latest, active>>
     /\ lock' = lock \ {r}
     /\ Respond(r)
     /\ UNCHANGED <<roleVars, policyVars, signInVars>>
-----------------------------------------------------------------------------
(* PoliciesController.Edit: its load and its save, which changes something. *)
EditPolicy ==
  /\ policy < MaxEdits /\ lock = {}
  /\ policy' = policy + 1
  /\ UNCHANGED <<roleVars, keyVars, replaced, cache, signInVars, pc, arg, reads>>

(* Mutant of GetForVideoAsync: the expiration is sliding. *)
GetSliding(r, v) ==
  /\ \/ /\ cache[v] = {}
        /\ Begin(r, "fill", v)
        /\ fetched' = [fetched EXCEPT ![r] = policy]
        /\ UNCHANGED cache
     \/ \E e \in cache[v] :
          /\ Begin(r, "judge", v)
          /\ fetched' = [fetched EXCEPT ![r] = e.policy]
          /\ cache' = [cache EXCEPT ![v] = {[e EXCEPT !.age = 0]}]
  /\ UNCHANGED <<roleVars, keyVars, policy, replaced, signInVars, tracked, top, took>>

(* VideoSecurityPolicyService.GetForVideoAsync, which every judgement on a
   session of the video starts with. *)
GetForVideoAsync(r, v) ==
  /\ \/ /\ cache[v] = {}
        /\ Begin(r, "fill", v)
        /\ fetched' = [fetched EXCEPT ![r] = policy]
     \/ \E e \in cache[v] :
          /\ Begin(r, "judge", v)
          /\ fetched' = [fetched EXCEPT ![r] = e.policy]
  /\ UNCHANGED <<roleVars, keyVars, policyVars, signInVars, tracked, top, took>>

(* _cache.Set, over whatever another request has cached meanwhile. *)
CacheSet(r) ==
  /\ pc[r] = "fill"
  /\ cache' = [cache EXCEPT ![arg[r]] = {[policy |-> fetched[r], age |-> 0]}]
  /\ Goto(r, "judge")
  /\ UNCHANGED <<roleVars, keyVars, policy, replaced, signInVars, reads>>

(* The caller has used the policy. *)
Judged(r) ==
  /\ pc[r] = "judge"
  /\ Respond(r)
  /\ UNCHANGED <<roleVars, keyVars, policyVars, signInVars>>

(* Time: entries expire, replaced policies get older, fills take longer. *)
Tick ==
  /\ \A r \in Request : pc[r] = "fill" => took[r] < Slowest
  /\ \E v \in Video : cache[v] # {} \/ \E r \in Request : pc[r] = "fill"
  /\ replaced' = [n \in 0..MaxEdits |->
                    IF n < policy /\ replaced[n] <= Horizon THEN replaced[n] + 1
                                                            ELSE replaced[n]]
  /\ cache' = [v \in Video |-> {[e EXCEPT !.age = @ + 1] :
                                 e \in {e \in cache[v] : e.age + 1 < PolicyTtl}}]
  /\ took' = [r \in Request |-> IF pc[r] = "fill" THEN took[r] + 1 ELSE took[r]]
  /\ UNCHANGED <<roleVars, keyVars, policy, signInVars, pc, arg, tracked, top,
                 fetched>>
-----------------------------------------------------------------------------
(* Mutant of Key: the cache is asked for the user. *)
KeyOfUser(t) == UserOf[t]

(* The cache key, made of the user and IssuedUtc. *)
Key(t) == t

(* AdminLoginAuditMiddleware.InvokeAsync: a request with ticket t of a user
   in any role, issued a moment ago, whose key is not in the cache. *)
Look(r, t) ==
  /\ t \in fresh
  /\ presented' = presented \cup {t}
  /\ IF Key(t) \in marked
     THEN UNCHANGED <<pc, arg, twice>>
     ELSE /\ Begin(r, "mark", t)
          /\ twice' = IF \E q \in Request : pc[q] = "mark" /\ arg[q] = t
                      THEN twice \cup {t} ELSE twice
  /\ UNCHANGED <<roleVars, keyVars, policyVars, fresh, marked, written, lost, reads>>

(* Mutant of Mark: the key is not cached. *)
MarkForgotten(r) ==
  /\ pc[r] = "mark"
  /\ Goto(r, "write")
  /\ UNCHANGED <<roleVars, keyVars, policyVars, signInVars, reads>>

Mark(r) ==
  /\ pc[r] = "mark"
  /\ marked' = marked \cup {Key(arg[r])}
  /\ Goto(r, "write")
  /\ UNCHANGED <<roleVars, keyVars, policyVars, fresh, written, presented, lost,
                 twice, reads>>

(* AuditLogService.WriteAsync; whatever it throws is swallowed, and so is a
   request given up meanwhile. *)
WriteAsync(r) ==
  /\ pc[r] = "write" /\ MayWrite(r)
  /\ \/ /\ written' = [written EXCEPT ![arg[r]] = IF @ < 2 THEN @ + 1 ELSE @]
        /\ UNCHANGED lost
     \/ lost' = lost \cup {arg[r]} /\ UNCHANGED written
  /\ Respond(r)
  /\ UNCHANGED <<roleVars, keyVars, policyVars, fresh, marked, presented, twice>>

SignIn(t) ==
  /\ t \notin fresh \cup presented
  /\ fresh' = fresh \cup {t}
  /\ UNCHANGED <<roleVars, keyVars, policyVars, marked, written, presented, lost,
                 twice, pc, arg, reads>>

(* FreshSignInWindow is over. *)
GrowsOld(t) ==
  /\ t \in fresh
  /\ fresh' = fresh \ {t}
  /\ UNCHANGED <<roleVars, keyVars, policyVars, marked, written, presented, lost,
                 twice, pc, arg, reads>>

(* CacheTtl is over, which is longer than FreshSignInWindow. *)
Evict(k) ==
  /\ k \in marked /\ \A t \in fresh : Key(t) # k
  /\ marked' = marked \ {k}
  /\ UNCHANGED <<roleVars, keyVars, policyVars, fresh, written, presented, lost,
                 twice, pc, arg, reads>>
-----------------------------------------------------------------------------
(* A save fails, an exception escapes, or the client goes away. *)
Abort(r) ==
  /\ pc[r] \in {"count", "remove", "add", "max", "commit", "fill", "judge"}
  /\ current' = current \ {r}
  /\ lock' = lock \ {r}
  /\ Respond(r)
  /\ UNCHANGED <<roles, overlap, active, latest, policyVars, signInVars>>

(* The process starts anew, and IdentitySeeder.SeedAsync makes the configured
   account an Admin again. *)
Restart ==
  /\ roles' = roles \cup {<<u, AdminRole>> : u \in Seeded}
  /\ current' = {} /\ overlap' = (overlap /\ Seeded = {})
  /\ lock' = {}
  /\ cache' = [v \in Video |-> {}]
  /\ marked' = {} /\ presented' = {} /\ lost' = {} /\ twice' = {}
  /\ written' = [t \in Ticket |-> 0]
  /\ pc' = [r \in Request |-> "idle"] /\ arg' = [r \in Request |-> None]
  /\ tracked' = [r \in Request |-> {}] /\ top' = [r \in Request |-> 0]
  /\ fetched' = [r \in Request |-> 0] /\ took' = [r \in Request |-> 0]
  /\ UNCHANGED <<active, latest, policy, replaced, fresh>>

Roles(r) ==
  \/ \E u \in User, role \in Role : Grant(r, u, role) \/ Revoke(r, u, role)
  \/ CountAdmins(r) \/ AddToRoleAsync(r) \/ RemoveFromRoleAsync(r)

Keys(r) == (\E p \in Purpose : Rotate(r, p)) \/ MaxAsync(r) \/ CommitAsync(r)

Policies(r) == (\E v \in Video : GetForVideoAsync(r, v)) \/ CacheSet(r) \/ Judged(r)

SignIns(r) == (\E t \in Ticket : Look(r, t)) \/ Mark(r) \/ WriteAsync(r)

Next ==
  \/ \E r \in Request : Roles(r) \/ Keys(r) \/ Policies(r) \/ SignIns(r) \/ Abort(r)
  \/ EditPolicy \/ Tick \/ Restart
  \/ \E t \in Ticket : SignIn(t) \/ GrowsOld(t)
  \/ \E k \in marked : Evict(k)

Spec == Init /\ [][Next]_vars
-----------------------------------------------------------------------------
(* RolesController.cs:111, "refuse to revoke the last Admin user".  There is
   an Admin as long as no two revocations of different Admins overlap between
   the count of one and the removal of the other; two of the same one cannot
   both succeed. *)
LastAdminKept == overlap \/ Admins # {}

(* However rotations overlap, fail or are cut off, a purpose has one active
   version from its first rotation on, and it is the highest. *)
OneActiveVersion ==
  \A p \in Purpose : active[p] = IF latest[p] = 0 THEN {} ELSE {latest[p]}

(* An edited policy takes effect: a judgement never uses one that was replaced
   longer ago than a cache entry lives and a fill of the cache takes, however
   often the video is judged meanwhile. *)
PolicyTakesEffect ==
  [][\A r \in Request :
       pc[r] # "judge" /\ pc'[r] = "judge" => replaced[fetched'[r]] <= Horizon]_vars

(* Every sign-in that has been seen fresh has its row, or a request is about
   to write it, or writing it failed; that of another cookie of the same
   administrator does not count. *)
SignInRecorded ==
  \A t \in presented \ lost :
    written[t] > 0 \/ \E r \in Request : pc[r] \in {"mark", "write"} /\ arg[r] = t

(* AdminLoginAuditMiddleware.cs:13, "writes a single AdminLogin row": one by
   each process, unless a second request looked the ticket up between the
   first one's look and its mark. *)
SignInOnce == \A t \in Ticket : written[t] > 1 => t \in twice
=============================================================================
