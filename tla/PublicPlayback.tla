--------------------------- MODULE PublicPlayback ---------------------------
(***************************************************************************)
(* Who gets a playback session of one video, and with which heartbeat      *)
(* token.  A visitor without an account opens /demo or a signed /embed     *)
(* link and gets a page with a bootstrap id; the page trades the id, once, *)
(* for a session of a user made up for it.  A signed-in viewer asks for a  *)
(* session directly and needs a grant, which administrators give and take. *)
(* Requests overlap at every await.  How a session goes on and ends is the *)
(* subject of PlaybackSessions.                                            *)
(***************************************************************************)
EXTENDS FiniteSets

CONSTANTS
  Viewer,    \* signed-in users
  Owner,     \* those of them who uploaded the video (CreatedByUserId)
  Page,      \* bootstrap ids; the made-up user id is a keyed hash of the
             \* bootstrap, the address and the browser: one for each page
  Request,   \* requests in flight at one time
  Session,   \* ids of playback sessions
  Row,       \* ids of VideoAccessGrant rows
  Key,       \* values EmbedTokenKey may have
  SecureWebRtc  \* the video's provider: SecureWebRtc or else BunnyStream

ASSUME PublicPlaybackAssumption ==
  /\ Owner \subseteq Viewer
  /\ Viewer \cap Page = {} /\ "none" \notin Viewer \cup Page
  /\ Session # {} /\ Page # {} /\ Key # {}
  /\ SecureWebRtc \in BOOLEAN

User == Viewer \cup Page

VARIABLES
  \* the video and the options
  status,     \* Video.Status
  allowDemo,  \* Video.AllowPublicDemo
  embedKey,   \* BunnyOptions.EmbedTokenKey
  links,      \* keys with which a live embed link is signed
  \* PublicPlaybackBootstrapStore
  kind,       \* kind[p]: how page p was opened, "none" before
  cache,      \* pages whose bootstrap is in the memory cache
  expiredPages,  \* pages whose bootstrap is older than BootstrapTtl
  raced,      \* history: bootstraps that two requests held before a Remove
  \* VideoAccessGrants
  grantee,    \* grantee[g]: the user of row g, "none" while there is no row
  revokedRows, expiredRows,
  \* PlaybackSessions
  user,       \* user[s]: UserId, "none" while there is no row
  hash,       \* hash[s]: which token HeartbeatTokenHash is of
  answered,   \* answered[s]: the token the client was given with the session
  \* requests
  pc, who,    \* where request r is, and the user it is about
  sid,        \* sid[r]: the session it has created
  loaded,     \* loaded[r]: the grants it has read
  seen        \* seen[r]: history, what has held since it began

video == <<status, allowDemo, embedKey, links>>
store == <<kind, cache, expiredPages, raced>>
grants == <<grantee, revokedRows, expiredRows>>
sessions == <<user, hash, answered>>
vars == <<status, allowDemo, embedKey, links, kind, cache, expiredPages, raced,
          grantee, revokedRows, expiredRows, user, hash, answered, pc, who,
          sid, loaded, seen>>

Tokens == {"none", "CreateAsync", "Bootstrap"}

TypeOK ==
  /\ status \in {"Processing", "Ready", "Deleted"}
  /\ allowDemo \in BOOLEAN
  /\ embedKey \in Key \cup {"none"}
  /\ links \in SUBSET Key
  /\ kind \in [Page -> {"none", "Demo", "Embed"}]
  /\ cache \in SUBSET Page /\ expiredPages \in SUBSET Page
  /\ raced \in SUBSET Page
  /\ grantee \in [Row -> User \cup {"none"}]
  /\ revokedRows \in SUBSET Row /\ expiredRows \in SUBSET Row
  /\ user \in [Session -> User \cup {"none"}]
  /\ hash \in [Session -> Tokens]
  /\ answered \in [Session -> Tokens \cup {"no answer"}]
  /\ pc \in [Request -> {"idle", "remove", "check", "grant", "authorize",
                         "ready", "insert", "start", "token", "answer",
                         "add", "revoke"}]
  /\ who \in [Request -> User \cup {"none"}]
  /\ sid \in [Request -> Session \cup {"none"}]
  /\ loaded \in [Request -> SUBSET Row]
  /\ seen \in [Request -> SUBSET {"ready", "demo", "entitled"}]

Init ==
  /\ status = "Ready" /\ allowDemo = TRUE
  /\ embedKey \in Key \cup {"none"}
  /\ links = {}
  /\ kind = [p \in Page |-> "none"]
  /\ cache = {} /\ expiredPages = {} /\ raced = {}
  /\ grantee = [g \in Row |-> "none"]
  /\ revokedRows = {} /\ expiredRows = {}
  /\ user = [s \in Session |-> "none"]
  /\ hash = [s \in Session |-> "none"]
  /\ answered = [s \in Session |-> "no answer"]
  /\ pc = [r \in Request |-> "idle"]
  /\ who = [r \in Request |-> "none"]
  /\ sid = [r \in Request |-> "none"]
  /\ loaded = [r \in Request |-> {}]
  /\ seen = [r \in Request |-> {}]

Public(u) == u \in Page
Absent(s) == user[s] = "none"

(* VideoEntitlementService.IsAuthorizedAsync.  The grant is read after the
   video; both reads see committed rows only. *)
IsAuthorizedAsync(u) ==
  /\ status # "Deleted"
  /\ \/ u \in Owner
     \/ \E g \in Row : grantee[g] = u /\ g \notin revokedRows \cup expiredRows
-----------------------------------------------------------------------------
Goto(r, label) == pc' = [pc EXCEPT ![r] = label]

(* A request ends: its DbContext is disposed with what it tracked. *)
Finish(r) ==
  /\ Goto(r, "idle")
  /\ who' = [who EXCEPT ![r] = "none"]
  /\ sid' = [sid EXCEPT ![r] = "none"]
  /\ loaded' = [loaded EXCEPT ![r] = {}]

Begin(r, label, u) ==
  /\ pc[r] = "idle"
  /\ Goto(r, label)
  /\ who' = [who EXCEPT ![r] = u]
  /\ UNCHANGED <<sid, loaded>>

Step(r, from, to) == pc[r] = from /\ Goto(r, to) /\ UNCHANGED <<who, sid, loaded>>

(* EmbedCodesController.Generate: a link for fifteen minutes. *)
Generate ==
  /\ embedKey # "none"
  /\ links' = links \cup {embedKey}
  /\ UNCHANGED <<status, allowDemo, embedKey, store, grants, sessions, pc, who,
                 sid, loaded>>

(* PublicPlaybackBootstrapStore.Create. *)
Create(p, how) ==
  /\ kind[p] = "none"
  /\ kind' = [kind EXCEPT ![p] = how]
  /\ cache' = cache \cup {p}
  /\ UNCHANGED <<expiredPages, raced>>

(* EmbedController.Watch and DemoController.Watch change nothing but the
   store, once: one step each. *)
WatchEmbed(p) ==
  /\ embedKey \in links
  /\ status = "Ready"
  /\ Create(p, "Embed")
  /\ UNCHANGED <<video, grants, sessions, pc, who, sid, loaded>>

WatchDemo(p) ==
  /\ embedKey # "none"
  /\ status = "Ready" /\ allowDemo
  /\ Create(p, "Demo")
  /\ UNCHANGED <<video, grants, sessions, pc, who, sid, loaded>>

(* TryConsume: TryGetValue, then Remove.  The cache may still hold a bootstrap
   that is past its ExpiresAt. *)
TryGetValue(r, p) ==
  /\ p \in cache
  /\ Begin(r, "remove", p)
  /\ raced' = IF \E q \in Request : pc[q] = "remove" /\ who[q] = p
              THEN raced \cup {p} ELSE raced
  /\ UNCHANGED <<video, kind, cache, expiredPages, grants, sessions>>

(* Mutant of Remove: the entry stays in the cache until it expires. *)
NotRemoved(r) ==
  /\ pc[r] = "remove"
  /\ IF who[r] \in expiredPages
     THEN Finish(r)
     ELSE Goto(r, "check") /\ UNCHANGED <<who, sid, loaded>>
  /\ UNCHANGED <<video, store, grants, sessions>>

Remove(r) ==
  /\ pc[r] = "remove"
  /\ cache' = cache \ {who[r]}
  /\ IF who[r] \in expiredPages
     THEN Finish(r)
     ELSE Goto(r, "check") /\ UNCHANGED <<who, sid, loaded>>
  /\ UNCHANGED <<video, kind, expiredPages, raced, grants, sessions>>

Playable(p) ==
  embedKey # "none" /\ status = "Ready" /\ (kind[p] = "Demo" => allowDemo)

(* Mutant of CheckVideo: the page has asked, Bootstrap does not ask again. *)
PageWasChecked(r) ==
  /\ Step(r, "check", "grant")
  /\ UNCHANGED <<video, store, grants, sessions>>

(* Bootstrap asks again what the page asked; a refusal costs the id. *)
CheckVideo(r) ==
  /\ pc[r] = "check"
  /\ IF Playable(who[r]) THEN Step(r, "check", "grant") ELSE Finish(r)
  /\ UNCHANGED <<video, store, grants, sessions>>

NewRow(u, g) ==
  /\ grantee[g] = "none"
  /\ grantee' = [grantee EXCEPT ![g] = u]
  /\ UNCHANGED <<revokedRows, expiredRows>>

(* The temporary grant, saved on its own before the session exists. *)
AddTemporaryGrant(r) ==
  /\ Step(r, "grant", "authorize")
  /\ \E g \in Row : NewRow(who[r], g)
  /\ UNCHANGED <<video, store, sessions>>

(* VideosController.CreateSession: a signed-in viewer goes straight to
   CreateAsync. *)
CreateSession(r, u) ==
  /\ Begin(r, "authorize", u)
  /\ UNCHANGED <<video, store, grants, sessions>>
-----------------------------------------------------------------------------
(* PlaybackSessionService.CreateAsync, one step for each await that the state
   here depends on: entitlement, the video, the save, the worker. *)
Authorize(r) ==
  /\ pc[r] = "authorize"
  /\ IF IsAuthorizedAsync(who[r]) THEN Step(r, "authorize", "ready") ELSE Finish(r)
  /\ UNCHANGED <<video, store, grants, sessions>>

CheckReady(r) ==
  /\ pc[r] = "ready"
  /\ IF status = "Ready" THEN Step(r, "ready", "insert") ELSE Finish(r)
  /\ UNCHANGED <<video, store, grants, sessions>>

SaveSession(r) ==
  /\ pc[r] = "insert"
  /\ \E s \in Session :
       /\ Absent(s)
       /\ user' = [user EXCEPT ![s] = who[r]]
       /\ hash' = [hash EXCEPT ![s] = IF SecureWebRtc THEN "CreateAsync" ELSE "none"]
       /\ sid' = [sid EXCEPT ![r] = s]
  /\ Goto(r, IF SecureWebRtc THEN "start"
             ELSE IF Public(who[r]) THEN "token" ELSE "answer")
  /\ UNCHANGED <<video, store, grants, answered, who, loaded>>

(* StartAsync of the worker; when it throws the session is revoked, which
   PlaybackSessions models, and the client gets an error. *)
StartWorker(r) ==
  /\ pc[r] = "start"
  /\ \/ Step(r, "start", IF Public(who[r]) THEN "token" ELSE "answer")
     \/ Finish(r)
  /\ UNCHANGED <<video, store, grants, sessions>>

(* Mutant of SaveToken: a session that has a token keeps it. *)
TokenKept(r) ==
  /\ Step(r, "token", "answer")
  /\ hash' = [hash EXCEPT ![sid[r]] = IF @ = "none" THEN "Bootstrap" ELSE @]
  /\ UNCHANGED <<video, store, grants, user, answered>>

(* Bootstrap's second save: a token of its own in place of CreateAsync's. *)
SaveToken(r) ==
  /\ Step(r, "token", "answer")
  /\ hash' = [hash EXCEPT ![sid[r]] = "Bootstrap"]
  /\ UNCHANGED <<video, store, grants, user, answered>>

(* The response: Bootstrap's token, or the one of CreateAsync's response. *)
Answer(r) ==
  /\ pc[r] = "answer"
  /\ answered' = [answered EXCEPT ![sid[r]] =
       IF Public(who[r]) THEN "Bootstrap"
       ELSE IF SecureWebRtc THEN "CreateAsync" ELSE "none"]
  /\ Finish(r)
  /\ UNCHANGED <<video, store, grants, user, hash>>

(* An await throws or the client has gone; what is saved stays saved. *)
Abort(r) ==
  /\ pc[r] # "idle"
  /\ Finish(r)
  /\ UNCHANGED <<video, store, grants, sessions>>
-----------------------------------------------------------------------------
(* Whether a heartbeat for s that carries the token its client was given is
   heard: RecordHeartbeatAsync asks for the token of a session that has one,
   EmbedController.Heartbeat also refuses a public session that has none. *)
TokenAccepted(s) ==
  /\ hash[s] # "none" => answered[s] = hash[s]
  /\ Public(user[s]) => hash[s] # "none"

(* AdminController.Grant: a query for an unrevoked row, expired or not, then
   the insert. *)
Grant(r, u) ==
  /\ \A g \in Row : grantee[g] = u => g \in revokedRows
  /\ Begin(r, "add", u)
  /\ UNCHANGED <<video, store, grants, sessions>>

SaveGrant(r) ==
  /\ pc[r] = "add"
  /\ \E g \in Row : NewRow(who[r], g)
  /\ Finish(r)
  /\ UNCHANGED <<video, store, sessions>>

(* AdminRevocationController.RevokeUserAccess: loads the unrevoked rows, then
   saves Revoked in each; rows added in between stay, sessions go on. *)
RevokeUserAccess(r, u) ==
  LET rows == {g \in Row : grantee[g] = u /\ g \notin revokedRows}
  IN /\ rows # {}
     /\ pc[r] = "idle"
     /\ Goto(r, "revoke")
     /\ who' = [who EXCEPT ![r] = u]
     /\ loaded' = [loaded EXCEPT ![r] = rows]
     /\ UNCHANGED <<video, store, grants, sessions, sid>>

SaveRevocation(r) ==
  /\ pc[r] = "revoke"
  /\ revokedRows' = revokedRows \cup loaded[r]
  /\ Finish(r)
  /\ UNCHANGED <<video, store, grantee, expiredRows, sessions>>
-----------------------------------------------------------------------------
(* The environment: the catalog, the settings, the clock. *)
Requests == <<pc, who, sid, loaded>>

StatusChanges ==
  /\ \/ status' \in {"Processing", "Ready", "Deleted"} \ {status}
        /\ UNCHANGED allowDemo
     \/ allowDemo' = ~allowDemo /\ UNCHANGED status
  /\ UNCHANGED <<embedKey, links, store, grants, sessions, Requests>>

KeyChanges ==
  /\ embedKey' \in Key \ {embedKey}
  /\ UNCHANGED <<status, allowDemo, links, store, grants, sessions, Requests>>

LinkExpires ==
  /\ \E k \in links : links' = links \ {k}
  /\ UNCHANGED <<status, allowDemo, embedKey, store, grants, sessions, Requests>>

(* The two minutes are over; the cache drops the entry then or later, and in
   any case when the process restarts. *)
BootstrapExpires(p) ==
  /\ \/ p \in cache \ expiredPages /\ expiredPages' = expiredPages \cup {p}
        /\ UNCHANGED cache
     \/ p \in cache /\ cache' = cache \ {p} /\ UNCHANGED expiredPages
  /\ UNCHANGED <<video, kind, raced, grants, sessions, Requests>>

(* Only the temporary grants of public users carry an ExpiresAt. *)
GrantExpires(g) ==
  /\ grantee[g] \in Page /\ g \notin expiredRows
  /\ expiredRows' = expiredRows \cup {g}
  /\ UNCHANGED <<video, store, grantee, revokedRows, sessions, Requests>>

(* History: what has held at some moment since the request began. *)
Holding(r) ==
  {f \in {"ready", "demo", "entitled"} :
     \/ f = "ready" /\ status = "Ready"
     \/ f = "demo" /\ (who[r] \in Page /\ kind[who[r]] = "Demo" => allowDemo)
     \/ f = "entitled" /\ \/ who[r] \in Owner
                          \/ \E g \in Row : /\ grantee[g] = who[r]
                                            /\ g \notin revokedRows
                                            /\ g \notin expiredRows}
Remember ==
  seen' = [r \in Request |->
             IF pc'[r] \in {"idle", "add", "revoke"} THEN {}
             ELSE Holding(r)' \cup seen[r]]

Next ==
  \/ \E r \in Request :
       \/ \E p \in Page : TryGetValue(r, p) /\ Remember
       \/ Remove(r) /\ Remember
       \/ CheckVideo(r) /\ Remember
       \/ AddTemporaryGrant(r) /\ Remember
       \/ \E u \in Viewer : CreateSession(r, u) /\ Remember
       \/ Authorize(r) /\ Remember
       \/ CheckReady(r) /\ Remember
       \/ SaveSession(r) /\ Remember
       \/ StartWorker(r) /\ Remember
       \/ SaveToken(r) /\ Remember
       \/ Answer(r) /\ Remember
       \/ \E u \in Viewer : Grant(r, u) /\ Remember
       \/ SaveGrant(r) /\ Remember
       \/ \E u \in User : RevokeUserAccess(r, u) /\ Remember
       \/ SaveRevocation(r) /\ Remember
       \/ Abort(r) /\ Remember
  \/ Generate /\ Remember
  \/ \E p \in Page :
       \/ WatchEmbed(p) /\ Remember
       \/ WatchDemo(p) /\ Remember
       \/ BootstrapExpires(p) /\ Remember
  \/ StatusChanges /\ Remember
  \/ KeyChanges /\ Remember
  \/ LinkExpires /\ Remember
  \/ \E g \in Row : GrantExpires(g) /\ Remember

Spec == Init /\ [][Next]_vars
-----------------------------------------------------------------------------
(* A session is only ever created by a request during which the video was
   ready, the user was entitled to it and, for a page opened as a demo, public
   demos were allowed: whatever administrators change meanwhile, a permission
   that was gone before the request began creates nothing. *)
PermittedDuringRequest ==
  \A r \in Request :
    pc[r] \in {"start", "token", "answer"} => seen[r] = {"ready", "demo", "entitled"}

(* A bootstrap buys one session, unless two requests held it before either of
   them had removed it from the cache. *)
OneSessionPerPage ==
  \A s, t \in Session :
    Public(user[s]) /\ user[t] = user[s] /\ s # t => user[s] \in raced

(* A client that has been answered can be heard: the token it was given is the
   one the row asks for, although two saves write it. *)
AnsweredTokenWorks ==
  \A s \in Session : answered[s] # "no answer" => TokenAccepted(s)
=============================================================================
