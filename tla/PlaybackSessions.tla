-------------------------- MODULE PlaybackSessions --------------------------
(***************************************************************************)
(* The life of the PlaybackSession rows of one video: creation, heartbeat, *)
(* security events, seek, close, administrative revocation and the cleanup *)
(* service, each a request handler with a DbContext of its own.  A handler *)
(* reads rows, works on its tracked copies and writes the changed columns  *)
(* back in one SaveChangesAsync; other handlers run between any two of its *)
(* awaits and nothing detects that a row changed meanwhile.                *)
(* The media worker is the set of sessions with a live FFmpeg process:     *)
(* MediaWorker shows that it behaves as such a registry.                   *)
(* Time appears as two facts about a session, both set by the environment: *)
(* its ExpiresAt has passed, its last heartbeat is StaleSessionTimeout old.*)
(***************************************************************************)
EXTENDS Integers, FiniteSets

CONSTANTS
  Session,       \* ids of playback sessions (Guid.NewGuid, never reused)
  User,          \* users who watch the video
  Request,       \* request handlers that may be in flight at one time
  Creators,      \* those of them that may run CreateAsync
  PublicUser,    \* users that EmbedController.Bootstrap makes up, one a page
  Cleaner,       \* the ExpiredSessionCleanupService loop
  Ops,           \* the operations the environment calls
  SecureWebRtc,  \* the video's provider: SecureWebRtc or else BunnyStream
  MaxConcurrentSessions,    \* policy; 0 is no limit
  AutoRevokeRiskThreshold,  \* policy
  HeartbeatGains,  \* what one heartbeat may add to the risk score
  EventGains,      \* what one security event may add, RiskIncrementFor
  BatchSize        \* rows one cleanup query returns at most

ASSUME SessionsAssumption ==
  /\ Session # {} /\ User # {}
  /\ Cleaner \notin Request
  /\ Creators \subseteq Request /\ IsFiniteSet(Creators)
  /\ PublicUser \subseteq User
  /\ SecureWebRtc \in BOOLEAN
  /\ MaxConcurrentSessions \in Nat
  /\ AutoRevokeRiskThreshold \in Nat \ {0}
  /\ HeartbeatGains \subseteq Nat
  /\ EventGains \subseteq Nat \ {0}
  /\ BatchSize \in Nat \ {0}

VARIABLES
  \* the database
  created,   \* sessions that have a row
  user,      \* user[s]: UserId
  older,     \* older[s]: the sessions whose CreatedAt precedes that of s
  revoked,   \* sessions whose row says Revoked
  reason,    \* reason[s]: RevocationReason, told apart by who gives it
  risk,      \* risk[s]: RiskScore
  tokens,    \* sessions whose row has a HeartbeatTokenHash
  \* time
  allocated, \* sessions whose CreatedAt has been taken, saved or not
  expired,   \* sessions whose ExpiresAt has passed
  stale,     \* sessions whose last sign of life is StaleSessionTimeout ago
  revived,   \* history: sessions that cleanup has marked, and that a heartbeat
             \* or a seek was saved for since then
  \* the media worker
  worker,    \* sessions with a live FFmpeg process
  raced,     \* history: sessions whose process was started again after the
             \* session was marked revoked, by a row or in another handler
  \* request handlers
  pc,        \* pc[r]: where handler r is
  op,        \* op[r]: the operation it runs
  sid,       \* sid[r]: the session it is about
  mark,      \* mark[r]: tracked rows on which it has set Revoked
  todo,      \* todo[r]: StopAsync calls it has still to make
  score      \* score[r]: the RiskScore it has computed for sid[r], 0 if unchanged

rows == <<created, user, older, revoked, reason, risk, tokens>>
time == <<allocated, expired, stale, revived>>
media == <<worker, raced>>
handlers == <<pc, op, sid, mark, todo, score>>
vars == <<created, user, older, revoked, reason, risk, tokens, allocated,
          expired, stale, revived, worker, raced, pc, op, sid, mark, todo, score>>

Actor == Request \cup {Cleaner}
Operations == {"create", "heartbeat", "event", "seek", "close", "revoke",
               "revokeAll", "cleanup"}
ReasonOf == [o \in Operations |->
  CASE o = "create"                -> "ConcurrentSessionLimit"
    [] o = "heartbeat"             -> "RiskAutoRevoke"
    [] o = "event"                 -> "EventAutoRevoke"
    [] o = "close"                 -> "ClientClosed"
    [] o = "revoke"                -> "admin-revoke"
    [] o = "revokeAll"             -> "admin-revoke-all"
    [] OTHER                       -> "cleanup"]
Reasons == {"none", "SecureMediaWorkerStartFailed", "ConcurrentSessionLimit",
            "RiskAutoRevoke", "EventAutoRevoke", "ClientClosed",
            "admin-revoke", "admin-revoke-all", "cleanup"}

TypeOK ==
  /\ created \in SUBSET Session
  /\ user \in [Session -> User]
  /\ older \in [Session -> SUBSET Session]
  /\ revoked \in SUBSET Session
  /\ reason \in [Session -> Reasons]
  /\ risk \in [Session -> Nat]
  /\ tokens \in SUBSET Session
  /\ allocated \in SUBSET Session
  /\ expired \in SUBSET Session
  /\ stale \in SUBSET Session /\ revived \in SUBSET Session
  /\ worker \in SUBSET Session
  /\ raced \in SUBSET Session
  /\ pc \in [Actor -> {"idle", "stop", "staleQuery", "stopStale", "seek",
                       "save", "start", "compensate", "token"}]
  /\ op \in [Actor -> Operations \cup {"none"}]
  /\ sid \in [Actor -> Session]
  /\ mark \in [Actor -> SUBSET Session]
  /\ todo \in [Actor -> SUBSET Session]
  /\ score \in [Actor -> Nat]

AnySession == CHOOSE s \in Session : TRUE

Init ==
  /\ created = {} /\ revoked = {} /\ tokens = {} /\ allocated = {} /\ expired = {}
  /\ stale = {} /\ revived = {} /\ worker = {} /\ raced = {}
  /\ user = [s \in Session |-> CHOOSE u \in User : TRUE]
  /\ older = [s \in Session |-> {}]
  /\ reason = [s \in Session |-> "none"]
  /\ risk = [s \in Session |-> 0]
  /\ pc = [r \in Actor |-> "idle"]
  /\ op = [r \in Actor |-> "none"]
  /\ sid = [r \in Actor |-> AnySession]
  /\ mark = [r \in Actor |-> {}]
  /\ todo = [r \in Actor |-> {}]
  /\ score = [r \in Actor |-> 0]

Unrevoked == created \ revoked
Active(u) == {s \in Unrevoked \ expired : user[s] = u}

(* A client learns the id and the token of its session from the response of
   CreateAsync, or of Bootstrap; an administrator finds it in the database.
   A public viewer without a token is refused. *)
Answered(s) ==
  /\ \A r \in Actor : pc[r] \in {"start", "compensate", "token"} => sid[r] # s
  /\ user[s] \in PublicUser => s \in tokens
-----------------------------------------------------------------------------
(* Handler r has read its rows: it goes on at label, about session s, with
   the rows in marks set to Revoked and the workers in stops to be stopped. *)
Loaded(r, o, label, s, marks, stops, newScore) ==
  /\ o \in Ops
  /\ pc[r] = "idle"
  /\ pc' = [pc EXCEPT ![r] = label]
  /\ op' = [op EXCEPT ![r] = o]
  /\ sid' = [sid EXCEPT ![r] = s]
  /\ mark' = [mark EXCEPT ![r] = marks]
  /\ todo' = [todo EXCEPT ![r] = stops]
  /\ score' = [score EXCEPT ![r] = newScore]

Finish(r) ==
  /\ pc' = [pc EXCEPT ![r] = "idle"]
  /\ op' = [op EXCEPT ![r] = "none"]
  /\ sid' = [sid EXCEPT ![r] = AnySession]
  /\ mark' = [mark EXCEPT ![r] = {}]
  /\ todo' = [todo EXCEPT ![r] = {}]
  /\ score' = [score EXCEPT ![r] = 0]

(* Mutant of Evicted: one session fewer is revoked. *)
EvictedOneLess(u, V) ==
  LET A == Active(u)
  IN IF MaxConcurrentSessions = 0 \/ Cardinality(A) <= MaxConcurrentSessions
     THEN V = {}
     ELSE /\ V \subseteq A
          /\ Cardinality(V) = Cardinality(A) - MaxConcurrentSessions
          /\ \A v \in V, w \in A \ V : v \in older[w]

(* The sessions CreateAsync revokes to make room: as many of the oldest as
   leave fewer than MaxConcurrentSessions. *)
Evicted(u, V) ==
  LET A == Active(u)
  IN IF MaxConcurrentSessions = 0 \/ Cardinality(A) < MaxConcurrentSessions
     THEN V = {}
     ELSE /\ V \subseteq A
          /\ Cardinality(V) = Cardinality(A) - MaxConcurrentSessions + 1
          /\ \A v \in V, w \in A \ V : v \in older[w]

(* CreateAsync of an entitled user, up to its first SaveChangesAsync.  The id
   of a public user comes from a bootstrap that only one request consumes. *)
CreateAsync(r, u, s) ==
  /\ r \in Creators
  /\ s \notin allocated
  /\ u \in PublicUser => \A t \in allocated : user[t] # u
  /\ allocated' = allocated \cup {s}
  /\ user' = [user EXCEPT ![s] = u]
  /\ older' = [older EXCEPT ![s] = allocated]
  /\ \E V \in SUBSET Session :
       Evicted(u, V) /\ Loaded(r, "create", "save", s, V, {}, 0)
  /\ UNCHANGED <<created, revoked, reason, risk, tokens, expired, stale, revived,
                 media>>

(* Mutant of RecordHeartbeatAsync: the worker of the session it revokes is not
   stopped. *)
HeartbeatStopsNone(r, s, g) ==
  /\ Answered(s)
  /\ s \in Unrevoked \ expired
  /\ Loaded(r, "heartbeat", "save", s,
            IF risk[s] + g >= AutoRevokeRiskThreshold THEN {s} ELSE {},
            {}, IF g = 0 THEN 0 ELSE risk[s] + g)
  /\ UNCHANGED <<rows, time, media>>

(* RecordHeartbeatAsync: an expired, revoked or foreign session is refused;
   g is what this heartbeat adds to the score.  The worker is stopped before
   the revocation is saved. *)
RecordHeartbeatAsync(r, s, g) ==
  /\ Answered(s)
  /\ s \in Unrevoked \ expired
  /\ IF risk[s] + g >= AutoRevokeRiskThreshold
     THEN Loaded(r, "heartbeat", "stop", s, {s}, {s}, risk[s] + g)
     ELSE Loaded(r, "heartbeat", "save", s, {}, {}, IF g = 0 THEN 0 ELSE risk[s] + g)
  /\ UNCHANGED <<rows, time, media>>

(* Mutant of ApplyRiskAsync: more than the threshold instead of at least it. *)
RiskAboveThreshold(r, s, g) ==
  /\ Answered(s)
  /\ s \in Unrevoked
  /\ Loaded(r, "event", "save", s,
            IF risk[s] + g > AutoRevokeRiskThreshold THEN {s} ELSE {},
            {}, risk[s] + g)
  /\ UNCHANGED <<rows, time, media>>

(* SecurityEventService.ApplyRiskAsync: knows no worker to stop and does not
   look at ExpiresAt. *)
ApplyRiskAsync(r, s, g) ==
  /\ Answered(s)
  /\ s \in Unrevoked
  /\ Loaded(r, "event", "save", s,
            IF risk[s] + g >= AutoRevokeRiskThreshold THEN {s} ELSE {},
            {}, risk[s] + g)
  /\ UNCHANGED <<rows, time, media>>

(* SecurePlaybackController: ValidateSessionAsync, then Seek or Close. *)
Seek(r, s) ==
  /\ SecureWebRtc /\ Answered(s)
  /\ s \in Unrevoked \ expired
  /\ Loaded(r, "seek", "seek", s, {}, {}, 0)
  /\ UNCHANGED <<rows, time, media>>

Close(r, s) ==
  /\ SecureWebRtc /\ Answered(s)
  /\ s \in Unrevoked \ expired
  /\ Loaded(r, "close", "stop", s, {s}, {s}, 0)
  /\ UNCHANGED <<rows, time, media>>

(* RevokeAsync asks neither whether the session is revoked nor expired. *)
RevokeAsync(r, s) ==
  /\ s \in created
  /\ Loaded(r, "revoke", "stop", s, {s}, {s}, 0)
  /\ UNCHANGED <<rows, time, media>>

RevokeAllForVideoAsync(r) ==
  LET active == Unrevoked \ expired
  IN /\ active # {}
     /\ Loaded(r, "revokeAll", "stop", AnySession, active, active, 0)
     /\ UNCHANGED <<rows, time, media>>

(* The rows a query limited by Take(BatchSize) may return. *)
Batches(S) ==
  {B \in SUBSET S : Cardinality(B) = IF Cardinality(S) < BatchSize
                                     THEN Cardinality(S) ELSE BatchSize}

(* Mutant of RunOnceAsync: workers of expired rows are stopped, the rows are
   not marked. *)
ExpiredNotMarked ==
  /\ \E E \in Batches(Unrevoked \cap expired) :
       Loaded(Cleaner, "cleanup", IF E = {} THEN "staleQuery" ELSE "stop",
              AnySession, {}, E, 0)
  /\ UNCHANGED <<rows, time, media>>

(* ExpiredSessionCleanupService.RunOnceAsync: the query for expired rows, the
   stops, the query for stale rows against the database as it is then, the
   stops, one save for all. *)
RunOnceAsync ==
  /\ \E E \in Batches(Unrevoked \cap expired) :
       Loaded(Cleaner, "cleanup", IF E = {} THEN "staleQuery" ELSE "stop",
              AnySession, E, E, 0)
  /\ UNCHANGED <<rows, time, media>>

(* Mutant of StaleQuery: the last heartbeat is not looked at. *)
AnyAgeQuery ==
  /\ pc[Cleaner] = "staleQuery"
  /\ \E S \in Batches(Unrevoked \cap tokens) :
       /\ mark' = [mark EXCEPT ![Cleaner] = @ \cup S]
       /\ todo' = [todo EXCEPT ![Cleaner] = S]
       /\ pc' = [pc EXCEPT ![Cleaner] = IF S # {} THEN "stopStale" ELSE "save"]
  /\ UNCHANGED <<rows, time, media, op, sid, score>>

(* Of the sessions that have a token, secure and public ones, those that have
   gone silent. *)
StaleQuery ==
  /\ pc[Cleaner] = "staleQuery"
  /\ \E S \in Batches(Unrevoked \cap tokens \cap stale) :
       /\ mark' = [mark EXCEPT ![Cleaner] = @ \cup S]
       /\ todo' = [todo EXCEPT ![Cleaner] = S]
       /\ pc' = [pc EXCEPT ![Cleaner] = IF S # {} THEN "stopStale" ELSE "save"]
  /\ UNCHANGED <<rows, time, media, op, sid, score>>
-----------------------------------------------------------------------------
(* One StopAsync of the handler's loop. *)
StopAsync(r, s) ==
  /\ pc[r] \in {"stop", "stopStale"}
  /\ s \in todo[r]
  /\ worker' = worker \ {s}
  /\ raced' = raced \ {s}
  /\ todo' = [todo EXCEPT ![r] = @ \ {s}]
  /\ pc' = [pc EXCEPT ![r] = IF todo[r] # {s} THEN @
                             ELSE IF op[r] = "cleanup" /\ @ = "stop"
                             THEN "staleQuery" ELSE "save"]
  /\ UNCHANGED <<rows, time, op, sid, mark, score>>

WorkerStarted(s) ==
  /\ worker' = worker \cup {s}
  /\ raced' = IF s \in revoked \/ \E a \in Actor : s \in mark[a]
              THEN raced \cup {s} ELSE raced

(* SeekAsync of the worker; when the new process does not start, the old one
   is gone all the same and the request fails. *)
SeekAsync(r) ==
  /\ pc[r] = "seek"
  /\ \/ /\ WorkerStarted(sid[r])
        /\ pc' = [pc EXCEPT ![r] = "save"]
        /\ UNCHANGED <<op, sid, mark, todo, score>>
     \/ /\ worker' = worker \ {sid[r]}
        /\ raced' = raced \ {sid[r]}
        /\ Finish(r)
  /\ UNCHANGED <<rows, time>>

(* Mutant of WriteRevocations: Update(session), which writes every column as
   the handler loaded it. *)
WholeRowWritten(r, why) ==
  /\ revoked' = (IF op[r] \in {"heartbeat", "event"} THEN revoked \ {sid[r]}
                                                   ELSE revoked) \cup mark[r]
  /\ reason' = [s \in Session |-> IF s \in mark[r] THEN why ELSE reason[s]]

(* SaveChangesAsync: only the columns the handler changed are written. *)
WriteRevocations(r, why) ==
  /\ revoked' = revoked \cup mark[r]
  /\ reason' = [s \in Session |-> IF s \in mark[r] THEN why ELSE reason[s]]

Goto(r, label) ==
  /\ pc' = [pc EXCEPT ![r] = label]
  /\ mark' = [mark EXCEPT ![r] = {}]
  /\ UNCHANGED <<op, sid, todo, score>>

(* CreateAsync returns, to Bootstrap when the viewer is a public one. *)
Return(r) == IF user[sid[r]] \in PublicUser THEN Goto(r, "token") ELSE Finish(r)

SaveChangesAsync(r) ==
  /\ pc[r] = "save"
  /\ WriteRevocations(r, ReasonOf[op[r]])
  /\ risk' = IF score[r] = 0 THEN risk ELSE [risk EXCEPT ![sid[r]] = score[r]]
  /\ created' = IF op[r] = "create" THEN created \cup {sid[r]} ELSE created
  /\ IF op[r] \in {"heartbeat", "seek"}
     THEN /\ stale' = stale \ {sid[r]}
          /\ revived' = revived \cup ({sid[r]} \cap mark[Cleaner])
     ELSE /\ revived' = IF r = Cleaner THEN {} ELSE revived
          /\ UNCHANGED stale
  /\ tokens' = IF op[r] = "create" /\ SecureWebRtc THEN tokens \cup {sid[r]}
               ELSE tokens
  /\ IF op[r] # "create" THEN Finish(r)
     ELSE IF SecureWebRtc THEN Goto(r, "start")
     ELSE Return(r)
  /\ UNCHANGED <<user, older, allocated, expired, media>>

(* CreateAsync after its save: the worker starts, or fails to and the session
   is revoked again. *)
StartAsync(r) ==
  /\ pc[r] = "start"
  /\ \/ WorkerStarted(sid[r]) /\ Return(r)
     \/ /\ pc' = [pc EXCEPT ![r] = "compensate"]
        /\ mark' = [mark EXCEPT ![r] = {sid[r]}]
        /\ UNCHANGED <<media, op, sid, todo, score>>
  /\ UNCHANGED <<rows, time>>

SaveStartFailed(r) ==
  /\ pc[r] = "compensate"
  /\ WriteRevocations(r, "SecureMediaWorkerStartFailed")
  /\ Finish(r)
  /\ UNCHANGED <<created, user, older, risk, tokens, time, media>>

(* Bootstrap gives the session a token in a save of its own. *)
Bootstrap(r) ==
  /\ pc[r] = "token"
  /\ tokens' = tokens \cup {sid[r]}
  /\ Finish(r)
  /\ UNCHANGED <<created, user, older, revoked, reason, risk, time, media>>

(* A save fails (busy database, unique index), the client goes away, an
   exception escapes: what the handler has not saved is lost. *)
Abort(r) ==
  /\ pc[r] # "idle"
  /\ Finish(r)
  /\ UNCHANGED <<rows, time, media>>

(* The container restarts: handlers and FFmpeg processes are gone. *)
Restart ==
  /\ worker # {} \/ \E r \in Actor : pc[r] # "idle"
  /\ worker' = {} /\ raced' = {}
  /\ pc' = [r \in Actor |-> "idle"]
  /\ op' = [r \in Actor |-> "none"]
  /\ sid' = [r \in Actor |-> AnySession]
  /\ mark' = [r \in Actor |-> {}]
  /\ todo' = [r \in Actor |-> {}]
  /\ score' = [r \in Actor |-> 0]
  /\ UNCHANGED <<rows, time>>

(* Environment *)
Expire(s) ==
  /\ s \in created \ expired
  /\ expired' = expired \cup {s}
  /\ UNCHANGED <<rows, allocated, stale, revived, media, handlers>>

(* A heartbeat or a seek takes less than StaleSessionTimeout. *)
GoStale(s) ==
  /\ s \in Unrevoked \ stale
  /\ \A r \in Request : op[r] \in {"heartbeat", "seek"} => sid[r] # s
  /\ stale' = stale \cup {s}
  /\ UNCHANGED <<rows, allocated, expired, revived, media, handlers>>

WorkerExits(s) ==
  /\ s \in worker
  /\ worker' = worker \ {s}
  /\ raced' = raced \ {s}
  /\ UNCHANGED <<rows, time, handlers>>
-----------------------------------------------------------------------------
Next ==
  \/ \E r \in Request :
       \/ \E u \in User, s \in Session : CreateAsync(r, u, s)
       \/ \E s \in Session :
            \/ \E g \in HeartbeatGains : RecordHeartbeatAsync(r, s, g)
            \/ \E g \in EventGains : ApplyRiskAsync(r, s, g)
            \/ Seek(r, s)
            \/ Close(r, s)
            \/ RevokeAsync(r, s)
       \/ RevokeAllForVideoAsync(r)
       \/ SeekAsync(r)
       \/ StartAsync(r)
       \/ SaveStartFailed(r)
       \/ Bootstrap(r)
  \/ RunOnceAsync
  \/ StaleQuery
  \/ \E r \in Actor :
       \/ \E s \in Session : StopAsync(r, s)
       \/ SaveChangesAsync(r)
       \/ Abort(r)
  \/ Restart
  \/ \E s \in Session : Expire(s) \/ GoStale(s) \/ WorkerExits(s)

Spec == Init /\ [][Next]_vars

(* Requests come and go as they please, but time passes, and every cleanup
   pass gets a chance: the loop starts one each Interval, and a step of it that
   fails now and then (busy database) does not fail for ever. *)
Fairness ==
  /\ \A s \in Session : WF_vars(Expire(s))
  /\ WF_vars(RunOnceAsync)
  /\ SF_vars(\E s \in Session : StopAsync(Cleaner, s) /\ pc[Cleaner] = "stop")
  /\ SF_vars(\E s \in Session : StopAsync(Cleaner, s) /\ pc[Cleaner] = "stopStale")
  /\ SF_vars(StaleQuery)
  /\ SF_vars(SaveChangesAsync(Cleaner))

FairSpec == Spec /\ Fairness
-----------------------------------------------------------------------------
(* A session whose stored risk score has reached the policy's threshold is
   revoked, whichever of heartbeat and security event pushed it there and
   however their reads and saves interleave. *)
RiskRevokes ==
  \A s \in created : risk[s] >= AutoRevokeRiskThreshold => s \in revoked

(* Revocation is final: no handler that read the row before it was revoked
   brings the session back with its own later save. *)
RevocationFinal == [][revoked \subseteq revoked']_vars

(* Cleanup ends no session that is alive: one that it revokes has expired, or
   has a token and has gone stale, or came back to life only after its rows
   were read, by a heartbeat or a seek saved while it was stopping workers. *)
CleanupSparesLive ==
  [][\A s \in revoked' \ revoked :
       reason'[s] = "cleanup" =>
         s \in expired \cup (stale \cap tokens) \cup revived]_vars

(* Where a worker that outlives its session can come from.  A process runs
   only for a session with a row, and when the row is revoked the process
   survived because the revocation came from the concurrency limit or from a
   security event, which stop no worker, or because a seek or the creation
   started it again meanwhile.  Heartbeat, close, both administrative
   revocations and cleanup leave none. *)
WorkerAccounted ==
  /\ worker \subseteq created
  /\ \A s \in worker \cap revoked :
       \/ s \in raced
       \/ reason[s] \in {"ConcurrentSessionLimit", "EventAutoRevoke"}

(* Every session ends: whatever the clients do, and however often a save
   fails, each row is revoked in the end, even when more sessions expire than
   one cleanup batch holds. *)
EverySessionEnds == \A s \in Session : (s \in created) ~> (s \in revoked)

(* PRD.md:66, "Risk auto-revocation stops the secure worker." *)
AutoRevokeStopsWorker ==
  \A s \in revoked :
    reason[s] \in {"RiskAutoRevoke", "EventAutoRevoke"}
      /\ (\A r \in Actor : s \notin mark[r])
      => s \notin worker

Slots == INSTANCE SessionSlots WITH active <- [u \in User |-> Active(u)],
                                    Limit <- MaxConcurrentSessions,
                                    Overlap <- Cardinality(Creators)

(* However many creations overlap, every step of a handler opens one session
   at the price of the user's oldest, ends sessions, or leaves them alone; the
   limit is exceeded by fewer sessions than there are creations at a time. *)
ImplementsSlots == Slots!SlotsSpec
=============================================================================
