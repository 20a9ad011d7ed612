----------------------- MODULE PlaybackSessionsProofs -----------------------
(***************************************************************************)
(* Theorems about PlaybackSessions for any sets of sessions, users and     *)
(* handlers, any policy and any number of creations that overlap.  IInv    *)
(* carries the safety properties; SlotInv, on top of it, that              *)
(* PlaybackSessions implements SessionSlots.                               *)
(***************************************************************************)
EXTENDS PlaybackSessions, FiniteSetTheorems, TLAPS

Stopping == {"heartbeat", "close", "revoke", "revokeAll", "cleanup"}
Opening == {"start", "compensate"}

(* What the label of a handler says about its operation and its locals. *)
HandlersOK ==
  \A r \in Actor :
    /\ pc[r] = "idle" => mark[r] = {} /\ todo[r] = {} /\ score[r] = 0 /\ op[r] = "none"
    /\ pc[r] # "idle" => op[r] \in Operations \cap Ops
    /\ pc[r] \in {"save", "staleQuery", "seek", "token"} \cup Opening => todo[r] = {}
    /\ pc[r] \in {"stop", "staleQuery", "stopStale"} => op[r] \in Stopping
    /\ pc[r] = "seek" => op[r] = "seek"
    /\ pc[r] \in Opening =>
         op[r] = "create" /\ sid[r] \in created /\ mark[r] \subseteq {sid[r]}
    /\ pc[r] = "token" => op[r] = "create" /\ sid[r] \in created /\ mark[r] = {}
    /\ op[r] \in {"heartbeat", "event", "seek"} => sid[r] \in created
    /\ op[r] = "seek" => mark[r] = {}
    /\ op[r] = "create" =>
         sid[r] \in allocated /\ pc[r] \in {"save", "token"} \cup Opening
    /\ score[r] # 0 => op[r] \in {"heartbeat", "event"}
    /\ score[r] >= AutoRevokeRiskThreshold => sid[r] \in mark[r]

(* A session is created by one handler, and until that has answered nobody
   seeks it and no process runs for it. *)
CreatorOK ==
  /\ created \subseteq allocated
  /\ \A r \in Actor : op[r] = "create" =>
       /\ pc[r] = "save" => sid[r] \notin created
       /\ pc[r] \in Opening => sid[r] \notin worker
       /\ \A q \in Actor :
            /\ op[q] = "create" /\ sid[q] = sid[r] => q = r
            /\ op[q] = "seek" => sid[q] # sid[r]

(* A score is stored for created sessions only, and not without the
   revocation it calls for. *)
RiskOK ==
  \A s \in Session :
    /\ s \notin created => risk[s] = 0
    /\ risk[s] >= AutoRevokeRiskThreshold => s \in revoked

(* A session a stopping handler has dealt with has no process, unless one was
   started again. *)
StoppedOK ==
  \A r \in Actor : op[r] \in Stopping =>
    \A s \in worker : s \in mark[r] /\ s \notin todo[r] => s \in raced

(* Cleanup marks what has expired or gone stale, and of what it has marked
   only a heartbeat or a seek that is saved later is no longer stale. *)
CleanerOK ==
  /\ \A r \in Actor : op[r] = "cleanup" => r = Cleaner
  /\ op[Cleaner] \in {"none", "cleanup"}
  /\ mark[Cleaner] \subseteq expired \cup (stale \cap tokens) \cup revived

IInv ==
  /\ TypeOK
  /\ HandlersOK
  /\ CreatorOK
  /\ RiskOK
  /\ StoppedOK
  /\ CleanerOK
  /\ WorkerAccounted
-----------------------------------------------------------------------------
USE SessionsAssumption

LEMMA Identifiers == AnySession \in Session /\ Request \subseteq Actor /\ Cleaner \in Actor
BY DEF AnySession, Actor

LEMMA InitIInv == Init => IInv
BY Identifiers DEF Init, IInv, TypeOK, HandlersOK, CreatorOK, RiskOK, StoppedOK,
   CleanerOK, WorkerAccounted, Reasons, Operations, Opening, Stopping

LEMMA CreateAsyncIInv ==
  ASSUME IInv, NEW r \in Request, NEW u \in User, NEW s \in Session, CreateAsync(r, u, s)
  PROVE  IInv'
<1>1. TypeOK'
  BY Identifiers DEF IInv, TypeOK, HandlersOK, Reasons, Operations, CreateAsync, Loaded, rows, time, media, handlers
<1>2. HandlersOK'
  BY Identifiers DEF IInv, TypeOK, HandlersOK, CreatorOK, Opening, Stopping, Operations, CreateAsync, Loaded, rows, time, media, handlers
<1>3. CreatorOK'
  BY Identifiers DEF IInv, TypeOK, HandlersOK, CreatorOK, WorkerAccounted, Opening, Stopping, Operations, CreateAsync, Loaded, rows, time, media, handlers
<1>4. RiskOK'
  BY Identifiers DEF IInv, TypeOK, HandlersOK, CreatorOK, RiskOK, Opening, CreateAsync, Loaded, rows, time, media, handlers
<1>5. StoppedOK'
  BY Identifiers DEF IInv, TypeOK, HandlersOK, CreatorOK, StoppedOK, WorkerAccounted, Opening, Stopping, CreateAsync, Loaded, rows, time, media, handlers
<1>6. WorkerAccounted'
  BY Identifiers DEF IInv, TypeOK, HandlersOK, CreatorOK, StoppedOK, WorkerAccounted, Opening, Stopping, Operations, CreateAsync, Loaded, rows, time, media, handlers
<1>7. CleanerOK'
  BY Identifiers DEF IInv, TypeOK, HandlersOK, CleanerOK, Opening, Stopping, Operations, CreateAsync, Loaded, rows, time, media, handlers
<1>. QED  BY <1>1, <1>2, <1>3, <1>4, <1>5, <1>6, <1>7 DEF IInv

LEMMA RecordHeartbeatAsyncIInv ==
  ASSUME IInv, NEW r \in Request, NEW s \in Session, NEW g \in HeartbeatGains,
         RecordHeartbeatAsync(r, s, g)
  PROVE  IInv'
<1>. DEFINE sum == risk[s] + g
<1>0. sum \in Nat
  BY DEF IInv, TypeOK
<1>1. TypeOK'
  <2>. SUFFICES ASSUME NEW label \in {"stop", "save"}, NEW o \in Operations, NEW marks \in SUBSET Session,
                       NEW stops \in SUBSET Session, NEW new \in Nat,
                       Loaded(r, o, label, s, marks, stops, new),
                       UNCHANGED <<rows, time, media>>
                PROVE  TypeOK'
    BY <1>0 DEF RecordHeartbeatAsync, Operations
  <2>. QED  BY Identifiers DEF IInv, TypeOK, Loaded, rows, time, media
<1>2. HandlersOK'
  BY Identifiers DEF IInv, TypeOK, HandlersOK, CreatorOK, Opening, Stopping, Operations, RecordHeartbeatAsync, Loaded, Answered, Unrevoked, rows, time, media, handlers
<1>3. CreatorOK'
  <2>. SUFFICES ASSUME NEW label, NEW marks, NEW stops, NEW new,
                       Loaded(r, "heartbeat", label, s, marks, stops, new),
                       UNCHANGED <<rows, time, media>>
                PROVE  CreatorOK'
    BY DEF RecordHeartbeatAsync
  <2>. QED  BY Identifiers DEF IInv, TypeOK, CreatorOK, Loaded, rows, time, media
<1>4. RiskOK'
  BY Identifiers DEF IInv, TypeOK, HandlersOK, CreatorOK, RiskOK, Opening, RecordHeartbeatAsync, Loaded, Answered, Unrevoked, rows, time, media, handlers
<1>5. StoppedOK'
  BY Identifiers DEF IInv, TypeOK, HandlersOK, CreatorOK, StoppedOK, WorkerAccounted, Opening, Stopping, RecordHeartbeatAsync, Loaded, Answered, Unrevoked, rows, time, media, handlers
<1>6. WorkerAccounted'
  BY Identifiers DEF IInv, TypeOK, HandlersOK, CreatorOK, StoppedOK, WorkerAccounted, Opening, Stopping, Operations, RecordHeartbeatAsync, Loaded, Answered, Unrevoked, rows, time, media, handlers
<1>7. CleanerOK'
  BY Identifiers DEF IInv, TypeOK, HandlersOK, CleanerOK, Opening, Stopping, Operations, RecordHeartbeatAsync, Loaded, Answered, Unrevoked, rows, time, media, handlers
<1>. QED  BY <1>1, <1>2, <1>3, <1>4, <1>5, <1>6, <1>7 DEF IInv

LEMMA ApplyRiskAsyncIInv ==
  ASSUME IInv, NEW r \in Request, NEW s \in Session, NEW g \in EventGains,
         ApplyRiskAsync(r, s, g)
  PROVE  IInv'
<1>1. TypeOK'
  BY Identifiers DEF IInv, TypeOK, HandlersOK, Reasons, Operations, ApplyRiskAsync, Loaded, Answered, Unrevoked, rows, time, media, handlers
<1>2. HandlersOK'
  BY Identifiers DEF IInv, TypeOK, HandlersOK, CreatorOK, Opening, Stopping, Operations, ApplyRiskAsync, Loaded, Answered, Unrevoked, rows, time, media, handlers
<1>3. CreatorOK'
  BY Identifiers DEF IInv, TypeOK, HandlersOK, CreatorOK, WorkerAccounted, Opening, Stopping, Operations, ApplyRiskAsync, Loaded, Answered, Unrevoked, rows, time, media, handlers
<1>4. RiskOK'
  BY Identifiers DEF IInv, TypeOK, HandlersOK, CreatorOK, RiskOK, Opening, ApplyRiskAsync, Loaded, Answered, Unrevoked, rows, time, media, handlers
<1>5. StoppedOK'
  BY Identifiers DEF IInv, TypeOK, HandlersOK, CreatorOK, StoppedOK, WorkerAccounted, Opening, Stopping, ApplyRiskAsync, Loaded, Answered, Unrevoked, rows, time, media, handlers
<1>6. WorkerAccounted'
  BY Identifiers DEF IInv, TypeOK, HandlersOK, CreatorOK, StoppedOK, WorkerAccounted, Opening, Stopping, Operations, ApplyRiskAsync, Loaded, Answered, Unrevoked, rows, time, media, handlers
<1>7. CleanerOK'
  BY Identifiers DEF IInv, TypeOK, HandlersOK, CleanerOK, Opening, Stopping, Operations, ApplyRiskAsync, Loaded, Answered, Unrevoked, rows, time, media, handlers
<1>. QED  BY <1>1, <1>2, <1>3, <1>4, <1>5, <1>6, <1>7 DEF IInv

LEMMA SeekIInv ==
  ASSUME IInv, NEW r \in Request, NEW s \in Session, Seek(r, s)
  PROVE  IInv'
<1>1. TypeOK'
  BY Identifiers DEF IInv, TypeOK, HandlersOK, Reasons, Operations, Seek, Loaded, Answered, Unrevoked, rows, time, media, handlers
<1>2. HandlersOK'
  BY Identifiers DEF IInv, TypeOK, HandlersOK, CreatorOK, Opening, Stopping, Operations, Seek, Loaded, Answered, Unrevoked, rows, time, media, handlers
<1>3. CreatorOK'
  BY Identifiers DEF IInv, TypeOK, HandlersOK, CreatorOK, WorkerAccounted, Opening, Stopping, Operations, Seek, Loaded, Answered, Unrevoked, rows, time, media, handlers
<1>4. RiskOK'
  BY Identifiers DEF IInv, TypeOK, HandlersOK, CreatorOK, RiskOK, Opening, Seek, Loaded, Answered, Unrevoked, rows, time, media, handlers
<1>5. StoppedOK'
  BY Identifiers DEF IInv, TypeOK, HandlersOK, CreatorOK, StoppedOK, WorkerAccounted, Opening, Stopping, Seek, Loaded, Answered, Unrevoked, rows, time, media, handlers
<1>6. WorkerAccounted'
  BY Identifiers DEF IInv, TypeOK, HandlersOK, CreatorOK, StoppedOK, WorkerAccounted, Opening, Stopping, Operations, Seek, Loaded, Answered, Unrevoked, rows, time, media, handlers
<1>7. CleanerOK'
  BY Identifiers DEF IInv, TypeOK, HandlersOK, CleanerOK, Opening, Stopping, Operations, Seek, Loaded, Answered, Unrevoked, rows, time, media, handlers
<1>. QED  BY <1>1, <1>2, <1>3, <1>4, <1>5, <1>6, <1>7 DEF IInv

LEMMA CloseIInv ==
  ASSUME IInv, NEW r \in Request, NEW s \in Session, Close(r, s)
  PROVE  IInv'
<1>1. TypeOK'
  BY Identifiers DEF IInv, TypeOK, HandlersOK, Reasons, Operations, Close, Loaded, Answered, Unrevoked, rows, time, media, handlers
<1>2. HandlersOK'
  BY Identifiers DEF IInv, TypeOK, HandlersOK, CreatorOK, Opening, Stopping, Operations, Close, Loaded, Answered, Unrevoked, rows, time, media, handlers
<1>3. CreatorOK'
  BY Identifiers DEF IInv, TypeOK, HandlersOK, CreatorOK, WorkerAccounted, Opening, Stopping, Operations, Close, Loaded, Answered, Unrevoked, rows, time, media, handlers
<1>4. RiskOK'
  BY Identifiers DEF IInv, TypeOK, HandlersOK, CreatorOK, RiskOK, Opening, Close, Loaded, Answered, Unrevoked, rows, time, media, handlers
<1>5. StoppedOK'
  BY Identifiers DEF IInv, TypeOK, HandlersOK, CreatorOK, StoppedOK, WorkerAccounted, Opening, Stopping, Close, Loaded, Answered, Unrevoked, rows, time, media, handlers
<1>6. WorkerAccounted'
  BY Identifiers DEF IInv, TypeOK, HandlersOK, CreatorOK, StoppedOK, WorkerAccounted, Opening, Stopping, Operations, Close, Loaded, Answered, Unrevoked, rows, time, media, handlers
<1>7. CleanerOK'
  BY Identifiers DEF IInv, TypeOK, HandlersOK, CleanerOK, Opening, Stopping, Operations, Close, Loaded, Answered, Unrevoked, rows, time, media, handlers
<1>. QED  BY <1>1, <1>2, <1>3, <1>4, <1>5, <1>6, <1>7 DEF IInv

LEMMA RevokeAsyncIInv ==
  ASSUME IInv, NEW r \in Request, NEW s \in Session, RevokeAsync(r, s)
  PROVE  IInv'
<1>1. TypeOK'
  BY Identifiers DEF IInv, TypeOK, HandlersOK, Reasons, Operations, RevokeAsync, Loaded, rows, time, media, handlers
<1>2. HandlersOK'
  BY Identifiers DEF IInv, TypeOK, HandlersOK, CreatorOK, Opening, Stopping, Operations, RevokeAsync, Loaded, rows, time, media, handlers
<1>3. CreatorOK'
  BY Identifiers DEF IInv, TypeOK, HandlersOK, CreatorOK, WorkerAccounted, Opening, Stopping, Operations, RevokeAsync, Loaded, rows, time, media, handlers
<1>4. RiskOK'
  BY Identifiers DEF IInv, TypeOK, HandlersOK, CreatorOK, RiskOK, Opening, RevokeAsync, Loaded, rows, time, media, handlers
<1>5. StoppedOK'
  BY Identifiers DEF IInv, TypeOK, HandlersOK, CreatorOK, StoppedOK, WorkerAccounted, Opening, Stopping, RevokeAsync, Loaded, rows, time, media, handlers
<1>6. WorkerAccounted'
  BY Identifiers DEF IInv, TypeOK, HandlersOK, CreatorOK, StoppedOK, WorkerAccounted, Opening, Stopping, Operations, RevokeAsync, Loaded, rows, time, media, handlers
<1>7. CleanerOK'
  BY Identifiers DEF IInv, TypeOK, HandlersOK, CleanerOK, Opening, Stopping, Operations, RevokeAsync, Loaded, rows, time, media, handlers
<1>. QED  BY <1>1, <1>2, <1>3, <1>4, <1>5, <1>6, <1>7 DEF IInv

LEMMA RevokeAllForVideoAsyncIInv ==
  ASSUME IInv, NEW r \in Request, RevokeAllForVideoAsync(r)
  PROVE  IInv'
<1>1. TypeOK'
  BY Identifiers DEF IInv, TypeOK, HandlersOK, Reasons, Operations, RevokeAllForVideoAsync, Loaded, Unrevoked, rows, time, media, handlers
<1>2. HandlersOK'
  BY Identifiers DEF IInv, TypeOK, HandlersOK, CreatorOK, Opening, Stopping, Operations, RevokeAllForVideoAsync, Loaded, Unrevoked, rows, time, media, handlers
<1>3. CreatorOK'
  BY Identifiers DEF IInv, TypeOK, HandlersOK, CreatorOK, WorkerAccounted, Opening, Stopping, Operations, RevokeAllForVideoAsync, Loaded, Unrevoked, rows, time, media, handlers
<1>4. RiskOK'
  BY Identifiers DEF IInv, TypeOK, HandlersOK, CreatorOK, RiskOK, Opening, RevokeAllForVideoAsync, Loaded, Unrevoked, rows, time, media, handlers
<1>5. StoppedOK'
  BY Identifiers DEF IInv, TypeOK, HandlersOK, CreatorOK, StoppedOK, WorkerAccounted, Opening, Stopping, RevokeAllForVideoAsync, Loaded, Unrevoked, rows, time, media, handlers
<1>6. WorkerAccounted'
  BY Identifiers DEF IInv, TypeOK, HandlersOK, CreatorOK, StoppedOK, WorkerAccounted, Opening, Stopping, Operations, RevokeAllForVideoAsync, Loaded, Unrevoked, rows, time, media, handlers
<1>7. CleanerOK'
  BY Identifiers DEF IInv, TypeOK, HandlersOK, CleanerOK, Opening, Stopping, Operations, RevokeAllForVideoAsync, Loaded, Unrevoked, rows, time, media, handlers
<1>. QED  BY <1>1, <1>2, <1>3, <1>4, <1>5, <1>6, <1>7 DEF IInv

LEMMA RunOnceAsyncIInv ==
  ASSUME IInv, RunOnceAsync
  PROVE  IInv'
<1>1. TypeOK'
  BY Identifiers DEF IInv, TypeOK, HandlersOK, Reasons, Operations, RunOnceAsync, Loaded, Unrevoked, Batches, rows, time, media, handlers
<1>2. HandlersOK'
  BY Identifiers DEF IInv, TypeOK, HandlersOK, CreatorOK, Opening, Stopping, Operations, RunOnceAsync, Loaded, Unrevoked, Batches, rows, time, media, handlers
<1>3. CreatorOK'
  BY Identifiers DEF IInv, TypeOK, HandlersOK, CreatorOK, WorkerAccounted, Opening, Stopping, Operations, RunOnceAsync, Loaded, Unrevoked, Batches, rows, time, media, handlers
<1>4. RiskOK'
  BY Identifiers DEF IInv, TypeOK, HandlersOK, CreatorOK, RiskOK, Opening, RunOnceAsync, Loaded, Unrevoked, Batches, rows, time, media, handlers
<1>5. StoppedOK'
  BY Identifiers DEF IInv, TypeOK, HandlersOK, CreatorOK, StoppedOK, WorkerAccounted, Opening, Stopping, RunOnceAsync, Loaded, Unrevoked, Batches, rows, time, media, handlers
<1>6. WorkerAccounted'
  BY Identifiers DEF IInv, TypeOK, HandlersOK, CreatorOK, StoppedOK, WorkerAccounted, Opening, Stopping, Operations, RunOnceAsync, Loaded, Unrevoked, Batches, rows, time, media, handlers
<1>7. CleanerOK'
  BY Identifiers DEF IInv, TypeOK, HandlersOK, CleanerOK, Opening, Stopping, Operations, RunOnceAsync, Loaded, Unrevoked, Batches, rows, time, media, handlers
<1>. QED  BY <1>1, <1>2, <1>3, <1>4, <1>5, <1>6, <1>7 DEF IInv

LEMMA StaleQueryIInv ==
  ASSUME IInv, StaleQuery
  PROVE  IInv'
<1>1. TypeOK'
  BY Identifiers DEF IInv, TypeOK, HandlersOK, Reasons, Operations, StaleQuery, Unrevoked, Batches, rows, time, media, handlers
<1>2. HandlersOK'
  BY Identifiers DEF IInv, TypeOK, HandlersOK, CreatorOK, Opening, Stopping, Operations, StaleQuery, Unrevoked, Batches, rows, time, media, handlers
<1>3. CreatorOK'
  BY Identifiers DEF IInv, TypeOK, HandlersOK, CreatorOK, WorkerAccounted, Opening, Stopping, Operations, StaleQuery, Unrevoked, Batches, rows, time, media, handlers
<1>4. RiskOK'
  BY Identifiers DEF IInv, TypeOK, HandlersOK, CreatorOK, RiskOK, Opening, StaleQuery, Unrevoked, Batches, rows, time, media, handlers
<1>5. StoppedOK'
  BY Identifiers DEF IInv, TypeOK, HandlersOK, CreatorOK, StoppedOK, WorkerAccounted, Opening, Stopping, StaleQuery, Unrevoked, Batches, rows, time, media, handlers
<1>6. WorkerAccounted'
  BY Identifiers DEF IInv, TypeOK, HandlersOK, CreatorOK, StoppedOK, WorkerAccounted, Opening, Stopping, Operations, StaleQuery, Unrevoked, Batches, rows, time, media, handlers
<1>7. CleanerOK'
  BY Identifiers DEF IInv, TypeOK, HandlersOK, CleanerOK, Opening, Stopping, Operations, StaleQuery, Unrevoked, Batches, rows, time, media, handlers
<1>. QED  BY <1>1, <1>2, <1>3, <1>4, <1>5, <1>6, <1>7 DEF IInv

LEMMA StopAsyncIInv ==
  ASSUME IInv, NEW r \in Actor, NEW s \in Session, StopAsync(r, s)
  PROVE  IInv'
<1>1. TypeOK'
  BY Identifiers DEF IInv, TypeOK, HandlersOK, Reasons, Operations, StopAsync, rows, time, media, handlers
<1>2. HandlersOK'
  BY Identifiers DEF IInv, TypeOK, HandlersOK, CreatorOK, Opening, Stopping, Operations, StopAsync, rows, time, media, handlers
<1>3. CreatorOK'
  BY Identifiers DEF IInv, TypeOK, HandlersOK, CreatorOK, WorkerAccounted, Opening, Stopping, Operations, StopAsync, rows, time, media, handlers
<1>4. RiskOK'
  BY Identifiers DEF IInv, TypeOK, HandlersOK, CreatorOK, RiskOK, Opening, StopAsync, rows, time, media, handlers
<1>5. StoppedOK'
  BY Identifiers DEF IInv, TypeOK, HandlersOK, CreatorOK, StoppedOK, WorkerAccounted, Opening, Stopping, StopAsync, rows, time, media, handlers
<1>6. WorkerAccounted'
  BY Identifiers DEF IInv, TypeOK, HandlersOK, CreatorOK, StoppedOK, WorkerAccounted, Opening, Stopping, Operations, StopAsync, rows, time, media, handlers
<1>7. CleanerOK'
  BY Identifiers DEF IInv, TypeOK, HandlersOK, CleanerOK, Opening, Stopping, Operations, StopAsync, rows, time, media, handlers
<1>. QED  BY <1>1, <1>2, <1>3, <1>4, <1>5, <1>6, <1>7 DEF IInv

LEMMA SeekAsyncIInv ==
  ASSUME IInv, NEW r \in Request, SeekAsync(r)
  PROVE  IInv'
<1>1. TypeOK'
  <2>1. worker' \in SUBSET Session /\ raced' \in SUBSET Session
    BY Identifiers DEF IInv, TypeOK, SeekAsync, WorkerStarted
  <2>2. pc' \in [Actor -> {"idle", "stop", "staleQuery", "stopStale", "seek",
                          "save", "start", "compensate", "token"}]
    BY Identifiers DEF IInv, TypeOK, SeekAsync, Finish
  <2>3. CASE UNCHANGED <<op, sid, mark, todo, score>>
    BY <2>1, <2>2, <2>3 DEF IInv, TypeOK, SeekAsync, rows, time
  <2>4. CASE Finish(r)
    BY <2>1, <2>2, <2>4, Identifiers DEF IInv, TypeOK, SeekAsync, Finish, rows, time
  <2>. QED  BY <2>3, <2>4 DEF SeekAsync
<1>2. HandlersOK'
  BY Identifiers DEF IInv, TypeOK, HandlersOK, CreatorOK, Opening, Stopping, Operations, SeekAsync, WorkerStarted, Finish, rows, time, media, handlers
<1>3. CreatorOK'
  <2>1. /\ pc[r] = "seek" /\ op[r] = "seek" /\ CreatorOK
        /\ UNCHANGED <<created, allocated>> /\ worker' \subseteq worker \cup {sid[r]}
    BY Identifiers DEF IInv, HandlersOK, SeekAsync, WorkerStarted, rows, time
  <2>2. CASE Finish(r)
    <3>1. \A q \in Actor \ {r} : pc'[q] = pc[q] /\ op'[q] = op[q] /\ sid'[q] = sid[q]
      BY <2>2, Identifiers DEF IInv, TypeOK, Finish
    <3>2. op'[r] = "none"
      BY <2>2, Identifiers DEF IInv, TypeOK, Finish
    <3>. QED  BY <2>1, <3>1, <3>2, Identifiers DEF CreatorOK, Opening
  <2>3. CASE pc' = [pc EXCEPT ![r] = "save"] /\ UNCHANGED <<op, sid, mark, todo, score>>
    BY <2>1, <2>3, Identifiers DEF IInv, TypeOK, CreatorOK, Opening
  <2>. QED  BY <2>2, <2>3 DEF SeekAsync
<1>4. RiskOK'
  BY Identifiers DEF IInv, TypeOK, HandlersOK, CreatorOK, RiskOK, Opening, SeekAsync, WorkerStarted, Finish, rows, time, media, handlers
<1>5. StoppedOK'
  BY Identifiers DEF IInv, TypeOK, HandlersOK, CreatorOK, StoppedOK, WorkerAccounted, Opening, Stopping, SeekAsync, WorkerStarted, Finish, rows, time, media, handlers
<1>6. WorkerAccounted'
  BY Identifiers DEF IInv, TypeOK, HandlersOK, CreatorOK, StoppedOK, WorkerAccounted, Opening, Stopping, Operations, SeekAsync, WorkerStarted, Finish, rows, time, media, handlers
<1>7. CleanerOK'
  BY Identifiers DEF IInv, TypeOK, HandlersOK, CleanerOK, Opening, Stopping, Operations, SeekAsync, WorkerStarted, Finish, rows, time, media, handlers
<1>. QED  BY <1>1, <1>2, <1>3, <1>4, <1>5, <1>6, <1>7 DEF IInv

LEMMA SaveChangesAsyncIInv ==
  ASSUME IInv, NEW r \in Actor, SaveChangesAsync(r)
  PROVE  IInv'
<1>1. TypeOK'
  <2>1. ReasonOf[op[r]] \in Reasons
    BY DEF IInv, HandlersOK, SaveChangesAsync, ReasonOf, Reasons, Operations
  <2>2. revoked' \in SUBSET Session /\ reason' \in [Session -> Reasons]
    BY <2>1 DEF IInv, TypeOK, SaveChangesAsync, WriteRevocations
  <2>3. risk' \in [Session -> Nat] /\ created' \in SUBSET Session /\ stale' \in SUBSET Session
    BY DEF IInv, TypeOK, SaveChangesAsync
  <2>7. revived' \in SUBSET Session
    BY Identifiers DEF IInv, TypeOK, SaveChangesAsync
  <2>4. /\ pc' \in [Actor -> {"idle", "stop", "staleQuery", "stopStale", "seek",
                             "save", "start", "compensate", "token"}]
        /\ mark' \in [Actor -> SUBSET Session]
    BY DEF IInv, TypeOK, SaveChangesAsync, Finish, Goto, Return
  <2>8. tokens' \in SUBSET Session
    BY Identifiers DEF IInv, TypeOK, SaveChangesAsync
  <2>5. CASE UNCHANGED <<op, sid, todo, score>>
    BY <2>2, <2>3, <2>7, <2>8, <2>4, <2>5 DEF IInv, TypeOK, SaveChangesAsync, media
  <2>6. CASE Finish(r)
    BY <2>2, <2>3, <2>7, <2>8, <2>4, <2>6, Identifiers DEF IInv, TypeOK, SaveChangesAsync, Finish, Goto, Return, media
  <2>. QED  BY <2>5, <2>6 DEF SaveChangesAsync, Goto, Return
<1>2. HandlersOK'
  <2>1. /\ pc[r] = "save" /\ op[r] \in Operations \cap Ops /\ todo[r] = {}
        /\ created' = IF op[r] = "create" THEN created \cup {sid[r]} ELSE created
        /\ UNCHANGED allocated /\ HandlersOK
    BY DEF IInv, HandlersOK, SaveChangesAsync
  <2>2. CASE Finish(r)
    BY <2>1, <2>2, Identifiers DEF IInv, TypeOK, HandlersOK, Opening, Stopping, Finish
  <2>3. ASSUME NEW label \in {"start", "token"}, Goto(r, label), op[r] = "create"
        PROVE  HandlersOK'
    BY <2>1, <2>3 DEF IInv, TypeOK, HandlersOK, Opening, Stopping, Goto
  <2>. QED  BY <2>2, <2>3 DEF SaveChangesAsync, Return
<1>3. CreatorOK'
  <2>1. /\ pc[r] = "save" /\ CreatorOK /\ sid[r] \in Session
        /\ created' = IF op[r] = "create" THEN created \cup {sid[r]} ELSE created
        /\ UNCHANGED <<allocated, worker>>
        /\ op[r] = "create" => sid[r] \notin worker /\ sid[r] \in allocated
    BY DEF IInv, TypeOK, HandlersOK, CreatorOK, WorkerAccounted, SaveChangesAsync, media
  <2>2. CASE Finish(r)
    <3>1. \A q \in Actor \ {r} : pc'[q] = pc[q] /\ op'[q] = op[q] /\ sid'[q] = sid[q]
      BY <2>2 DEF IInv, TypeOK, Finish
    <3>2. op'[r] = "none"
      BY <2>2 DEF IInv, TypeOK, Finish
    <3>. QED  BY <2>1, <3>1, <3>2 DEF CreatorOK, Opening
  <2>3. ASSUME NEW label \in {"start", "token"}, Goto(r, label), op[r] = "create"
        PROVE  CreatorOK'
    <3>1. /\ \A q \in Actor \ {r} : pc'[q] = pc[q]
          /\ UNCHANGED <<op, sid>> /\ pc'[r] \in {"start", "token"}
      BY <2>3 DEF IInv, TypeOK, Goto
    <3>. QED  BY <2>1, <2>3, <3>1 DEF CreatorOK, Opening
  <2>. QED  BY <2>2, <2>3 DEF SaveChangesAsync, Return
<1>4. RiskOK'
  BY Identifiers DEF IInv, TypeOK, HandlersOK, CreatorOK, RiskOK, Opening, SaveChangesAsync, WriteRevocations, Finish, Goto, Return, ReasonOf, rows, time, media, handlers
<1>5. StoppedOK'
  BY Identifiers DEF IInv, TypeOK, HandlersOK, CreatorOK, StoppedOK, WorkerAccounted, Opening, Stopping, SaveChangesAsync, WriteRevocations, Finish, Goto, Return, ReasonOf, rows, time, media, handlers
<1>6. WorkerAccounted'
  BY Identifiers DEF IInv, TypeOK, HandlersOK, CreatorOK, StoppedOK, WorkerAccounted, Opening, Stopping, Operations, SaveChangesAsync, WriteRevocations, Finish, Goto, Return, ReasonOf, rows, time, media, handlers
<1>7. CleanerOK'
  BY Identifiers DEF IInv, TypeOK, HandlersOK, CleanerOK, Opening, Stopping, Operations, SaveChangesAsync, WriteRevocations, Finish, Goto, Return, ReasonOf, rows, time, media, handlers
<1>. QED  BY <1>1, <1>2, <1>3, <1>4, <1>5, <1>6, <1>7 DEF IInv

LEMMA StartAsyncIInv ==
  ASSUME IInv, NEW r \in Request, StartAsync(r)
  PROVE  IInv'
<1>1. TypeOK'
  <2>1. CASE WorkerStarted(sid[r]) /\ Return(r)
    <3>1. worker' \in SUBSET Session /\ raced' \in SUBSET Session
      BY <2>1, Identifiers DEF IInv, TypeOK, WorkerStarted
    <3>2. CASE Finish(r)
      BY <2>1, <3>1, <3>2, Identifiers DEF IInv, TypeOK, StartAsync, Finish, rows, time
    <3>3. CASE Goto(r, "token")
      BY <2>1, <3>1, <3>3, Identifiers DEF IInv, TypeOK, StartAsync, Goto, rows, time
    <3>. QED  BY <2>1, <3>2, <3>3 DEF Return
  <2>2. CASE ~ (WorkerStarted(sid[r]) /\ Return(r))
    BY <2>2, Identifiers DEF IInv, TypeOK, StartAsync, rows, time, media
  <2>. QED  BY <2>1, <2>2
<1>2. HandlersOK'
  BY Identifiers DEF IInv, TypeOK, HandlersOK, CreatorOK, Opening, Stopping, Operations, StartAsync, WorkerStarted, Finish, Goto, Return, rows, time, media, handlers
<1>3. CreatorOK'
  BY Identifiers DEF IInv, TypeOK, HandlersOK, CreatorOK, WorkerAccounted, Opening, Stopping, Operations, StartAsync, WorkerStarted, Finish, Goto, Return, rows, time, media, handlers
<1>4. RiskOK'
  BY Identifiers DEF IInv, TypeOK, HandlersOK, CreatorOK, RiskOK, Opening, StartAsync, WorkerStarted, Finish, Goto, Return, rows, time, media, handlers
<1>5. StoppedOK'
  BY Identifiers DEF IInv, TypeOK, HandlersOK, CreatorOK, StoppedOK, WorkerAccounted, Opening, Stopping, StartAsync, WorkerStarted, Finish, Goto, Return, rows, time, media, handlers
<1>6. WorkerAccounted'
  BY Identifiers DEF IInv, TypeOK, HandlersOK, CreatorOK, StoppedOK, WorkerAccounted, Opening, Stopping, Operations, StartAsync, WorkerStarted, Finish, Goto, Return, rows, time, media, handlers
<1>7. CleanerOK'
  BY Identifiers DEF IInv, TypeOK, HandlersOK, CleanerOK, Opening, Stopping, Operations, StartAsync, WorkerStarted, Finish, Goto, Return, rows, time, media, handlers
<1>. QED  BY <1>1, <1>2, <1>3, <1>4, <1>5, <1>6, <1>7 DEF IInv

LEMMA SaveStartFailedIInv ==
  ASSUME IInv, NEW r \in Request, SaveStartFailed(r)
  PROVE  IInv'
<1>1. TypeOK'
  BY Identifiers DEF IInv, TypeOK, HandlersOK, Reasons, Operations, SaveStartFailed, WriteRevocations, Finish, rows, time, media, handlers
<1>2. HandlersOK'
  BY Identifiers DEF IInv, TypeOK, HandlersOK, CreatorOK, Opening, Stopping, Operations, SaveStartFailed, WriteRevocations, Finish, rows, time, media, handlers
<1>3. CreatorOK'
  BY Identifiers DEF IInv, TypeOK, HandlersOK, CreatorOK, WorkerAccounted, Opening, Stopping, Operations, SaveStartFailed, WriteRevocations, Finish, rows, time, media, handlers
<1>4. RiskOK'
  BY Identifiers DEF IInv, TypeOK, HandlersOK, CreatorOK, RiskOK, Opening, SaveStartFailed, WriteRevocations, Finish, rows, time, media, handlers
<1>5. StoppedOK'
  BY Identifiers DEF IInv, TypeOK, HandlersOK, CreatorOK, StoppedOK, WorkerAccounted, Opening, Stopping, SaveStartFailed, WriteRevocations, Finish, rows, time, media, handlers
<1>6. WorkerAccounted'
  BY Identifiers DEF IInv, TypeOK, HandlersOK, CreatorOK, StoppedOK, WorkerAccounted, Opening, Stopping, Operations, SaveStartFailed, WriteRevocations, Finish, rows, time, media, handlers
<1>7. CleanerOK'
  BY Identifiers DEF IInv, TypeOK, HandlersOK, CleanerOK, Opening, Stopping, Operations, SaveStartFailed, WriteRevocations, Finish, rows, time, media, handlers
<1>. QED  BY <1>1, <1>2, <1>3, <1>4, <1>5, <1>6, <1>7 DEF IInv

LEMMA BootstrapIInv ==
  ASSUME IInv, NEW r \in Request, Bootstrap(r)
  PROVE  IInv'
<1>1. TypeOK'
  BY Identifiers DEF IInv, TypeOK, HandlersOK, Reasons, Operations, Bootstrap, Finish, rows, time, media, handlers
<1>2. HandlersOK'
  BY Identifiers DEF IInv, TypeOK, HandlersOK, CreatorOK, Opening, Stopping, Operations, Bootstrap, Finish, rows, time, media, handlers
<1>3. CreatorOK'
  BY Identifiers DEF IInv, TypeOK, HandlersOK, CreatorOK, WorkerAccounted, Opening, Stopping, Operations, Bootstrap, Finish, rows, time, media, handlers
<1>4. RiskOK'
  BY Identifiers DEF IInv, TypeOK, HandlersOK, CreatorOK, RiskOK, Opening, Bootstrap, Finish, rows, time, media, handlers
<1>5. StoppedOK'
  BY Identifiers DEF IInv, TypeOK, HandlersOK, CreatorOK, StoppedOK, WorkerAccounted, Opening, Stopping, Bootstrap, Finish, rows, time, media, handlers
<1>6. WorkerAccounted'
  BY Identifiers DEF IInv, TypeOK, HandlersOK, CreatorOK, StoppedOK, WorkerAccounted, Opening, Stopping, Operations, Bootstrap, Finish, rows, time, media, handlers
<1>7. CleanerOK'
  BY Identifiers DEF IInv, TypeOK, HandlersOK, CleanerOK, Opening, Stopping, Operations, Bootstrap, Finish, rows, time, media, handlers
<1>. QED  BY <1>1, <1>2, <1>3, <1>4, <1>5, <1>6, <1>7 DEF IInv

LEMMA AbortIInv ==
  ASSUME IInv, NEW r \in Actor, Abort(r)
  PROVE  IInv'
<1>1. TypeOK'
  BY Identifiers DEF IInv, TypeOK, HandlersOK, Reasons, Operations, Abort, Finish, rows, time, media, handlers
<1>2. HandlersOK'
  BY Identifiers DEF IInv, TypeOK, HandlersOK, CreatorOK, Opening, Stopping, Operations, Abort, Finish, rows, time, media, handlers
<1>3. CreatorOK'
  BY Identifiers DEF IInv, TypeOK, HandlersOK, CreatorOK, WorkerAccounted, Opening, Stopping, Operations, Abort, Finish, rows, time, media, handlers
<1>4. RiskOK'
  BY Identifiers DEF IInv, TypeOK, HandlersOK, CreatorOK, RiskOK, Opening, Abort, Finish, rows, time, media, handlers
<1>5. StoppedOK'
  BY Identifiers DEF IInv, TypeOK, HandlersOK, CreatorOK, StoppedOK, WorkerAccounted, Opening, Stopping, Abort, Finish, rows, time, media, handlers
<1>6. WorkerAccounted'
  BY Identifiers DEF IInv, TypeOK, HandlersOK, CreatorOK, StoppedOK, WorkerAccounted, Opening, Stopping, Operations, Abort, Finish, rows, time, media, handlers
<1>7. CleanerOK'
  BY Identifiers DEF IInv, TypeOK, HandlersOK, CleanerOK, Opening, Stopping, Operations, Abort, Finish, rows, time, media, handlers
<1>. QED  BY <1>1, <1>2, <1>3, <1>4, <1>5, <1>6, <1>7 DEF IInv

LEMMA RestartIInv ==
  ASSUME IInv, Restart
  PROVE  IInv'
<1>1. TypeOK'
  BY Identifiers DEF IInv, TypeOK, HandlersOK, Reasons, Operations, Restart, rows, time, media, handlers
<1>2. HandlersOK'
  BY Identifiers DEF IInv, TypeOK, HandlersOK, CreatorOK, Opening, Stopping, Operations, Restart, rows, time, media, handlers
<1>3. CreatorOK'
  BY Identifiers DEF IInv, TypeOK, HandlersOK, CreatorOK, WorkerAccounted, Opening, Stopping, Operations, Restart, rows, time, media, handlers
<1>4. RiskOK'
  BY Identifiers DEF IInv, TypeOK, HandlersOK, CreatorOK, RiskOK, Opening, Restart, rows, time, media, handlers
<1>5. StoppedOK'
  BY Identifiers DEF IInv, TypeOK, HandlersOK, CreatorOK, StoppedOK, WorkerAccounted, Opening, Stopping, Restart, rows, time, media, handlers
<1>6. WorkerAccounted'
  BY Identifiers DEF IInv, TypeOK, HandlersOK, CreatorOK, StoppedOK, WorkerAccounted, Opening, Stopping, Operations, Restart, rows, time, media, handlers
<1>7. CleanerOK'
  BY Identifiers DEF IInv, TypeOK, HandlersOK, CleanerOK, Opening, Stopping, Operations, Restart, rows, time, media, handlers
<1>. QED  BY <1>1, <1>2, <1>3, <1>4, <1>5, <1>6, <1>7 DEF IInv

LEMMA EnvironmentIInv ==
  ASSUME IInv, NEW s \in Session, Expire(s) \/ GoStale(s) \/ WorkerExits(s)
  PROVE  IInv'
<1>1. TypeOK'
  BY Identifiers DEF IInv, TypeOK, HandlersOK, Reasons, Operations, Expire, GoStale, WorkerExits, rows, time, media, handlers
<1>2. HandlersOK'
  BY Identifiers DEF IInv, TypeOK, HandlersOK, CreatorOK, Opening, Stopping, Operations, Expire, GoStale, WorkerExits, rows, time, media, handlers
<1>3. CreatorOK'
  BY Identifiers DEF IInv, TypeOK, HandlersOK, CreatorOK, WorkerAccounted, Opening, Stopping, Operations, Expire, GoStale, WorkerExits, rows, time, media, handlers
<1>4. RiskOK'
  BY Identifiers DEF IInv, TypeOK, HandlersOK, CreatorOK, RiskOK, Opening, Expire, GoStale, WorkerExits, rows, time, media, handlers
<1>5. StoppedOK'
  BY Identifiers DEF IInv, TypeOK, HandlersOK, CreatorOK, StoppedOK, WorkerAccounted, Opening, Stopping, Expire, GoStale, WorkerExits, rows, time, media, handlers
<1>6. WorkerAccounted'
  BY Identifiers DEF IInv, TypeOK, HandlersOK, CreatorOK, StoppedOK, WorkerAccounted, Opening, Stopping, Operations, Expire, GoStale, WorkerExits, rows, time, media, handlers
<1>7. CleanerOK'
  BY Identifiers DEF IInv, TypeOK, HandlersOK, CleanerOK, Opening, Stopping, Operations, Expire, GoStale, WorkerExits, rows, time, media, handlers
<1>. QED  BY <1>1, <1>2, <1>3, <1>4, <1>5, <1>6, <1>7 DEF IInv
-----------------------------------------------------------------------------
LEMMA NextIInv == IInv /\ [Next]_vars => IInv'
<1>. SUFFICES ASSUME IInv, [Next]_vars
              PROVE  IInv'
  OBVIOUS
<1>1. ASSUME NEW r \in Request,
             \/ \E u \in User, s \in Session : CreateAsync(r, u, s)
             \/ \E s \in Session :
                  \/ \E g \in HeartbeatGains : RecordHeartbeatAsync(r, s, g)
                  \/ \E g \in EventGains : ApplyRiskAsync(r, s, g)
                  \/ Seek(r, s)
                  \/ Close(r, s)
                  \/ RevokeAsync(r, s)
             \/ RevokeAllForVideoAsync(r)
             \/ SeekAsync(r)
             \/ StartAsync(r)
             \/ SaveStartFailed(r)
             \/ Bootstrap(r)
      PROVE  IInv'
  BY <1>1, CreateAsyncIInv, RecordHeartbeatAsyncIInv, ApplyRiskAsyncIInv,
     SeekIInv, CloseIInv, RevokeAsyncIInv, RevokeAllForVideoAsyncIInv,
     SeekAsyncIInv, StartAsyncIInv, SaveStartFailedIInv,
     BootstrapIInv
<1>2. ASSUME NEW r \in Actor,
             (\E s \in Session : StopAsync(r, s)) \/ SaveChangesAsync(r) \/ Abort(r)
      PROVE  IInv'
  BY <1>2, StopAsyncIInv, SaveChangesAsyncIInv, AbortIInv
<1>3. CASE RunOnceAsync \/ StaleQuery \/ Restart
  BY <1>3, RunOnceAsyncIInv, StaleQueryIInv, RestartIInv
<1>4. CASE \E s \in Session : Expire(s) \/ GoStale(s) \/ WorkerExits(s)
  BY <1>4, EnvironmentIInv
<1>5. CASE UNCHANGED vars
  BY <1>5 DEF vars, IInv, TypeOK, HandlersOK, CreatorOK, RiskOK, StoppedOK,
     CleanerOK, WorkerAccounted
<1>. QED  BY <1>1, <1>2, <1>3, <1>4, <1>5 DEF Next

(* The inductive invariant holds in every reachable state. *)
THEOREM InvariantHolds == Spec => []IInv
BY InitIInv, NextIInv, PTL DEF Spec

(* Rows, workers and the locals of the handlers keep their types. *)
THEOREM TypeCorrect == Spec => []TypeOK
<1>1. IInv => TypeOK
  BY DEF IInv
<1>. QED  BY <1>1, InvariantHolds, PTL

(* No stored risk score reaches the threshold without the session being
   revoked, for any number of heartbeats and events in flight. *)
THEOREM RiskRevokesHolds == Spec => []RiskRevokes
<1>1. IInv => RiskRevokes
  BY DEF IInv, TypeOK, RiskOK, RiskRevokes
<1>. QED  BY <1>1, InvariantHolds, PTL

(* A process that outlives its session's revocation has one of the three
   causes that WorkerAccounted names. *)
THEOREM WorkerAccountedHolds == Spec => []WorkerAccounted
<1>1. IInv => WorkerAccounted
  BY DEF IInv
<1>. QED  BY <1>1, InvariantHolds, PTL

(* Only a save writes revocations. *)
LEMMA OnlySavesRevoke ==
  ASSUME [Next]_vars, revoked' # revoked
  PROVE  \E r \in Actor : SaveChangesAsync(r) \/ SaveStartFailed(r)
<1>1. ASSUME NEW r \in Request, NEW s \in Session,
             \/ \E u \in User : CreateAsync(r, u, s)
             \/ \E g \in HeartbeatGains : RecordHeartbeatAsync(r, s, g)
             \/ \E g \in EventGains : ApplyRiskAsync(r, s, g)
             \/ Seek(r, s) \/ Close(r, s) \/ RevokeAsync(r, s)
      PROVE  revoked' = revoked
  BY <1>1 DEF CreateAsync, RecordHeartbeatAsync, ApplyRiskAsync, Seek, Close,
              RevokeAsync, rows
<1>2. ASSUME NEW r \in Request,
             RevokeAllForVideoAsync(r) \/ SeekAsync(r) \/ StartAsync(r) \/ Bootstrap(r)
      PROVE  revoked' = revoked
  BY <1>2 DEF RevokeAllForVideoAsync, SeekAsync, StartAsync, Bootstrap, rows
<1>3. ASSUME NEW r \in Actor, Abort(r) \/ \E s \in Session : StopAsync(r, s)
      PROVE  revoked' = revoked
  BY <1>3 DEF Abort, StopAsync, rows
<1>4. ASSUME NEW s \in Session, Expire(s) \/ GoStale(s) \/ WorkerExits(s)
      PROVE  revoked' = revoked
  BY <1>4 DEF Expire, GoStale, WorkerExits, rows
<1>5. CASE RunOnceAsync \/ StaleQuery \/ Restart \/ UNCHANGED vars
  BY <1>5 DEF RunOnceAsync, StaleQuery, Restart, vars, rows
<1>. QED  BY <1>1, <1>2, <1>3, <1>4, <1>5, Identifiers DEF Next

(* No step of any handler takes a revocation back. *)
THEOREM RevocationFinalHolds == Spec => RevocationFinal
<1>1. [Next]_vars => revoked \subseteq revoked'
  <2>. SUFFICES ASSUME [Next]_vars
                PROVE  revoked \subseteq revoked'
    OBVIOUS
  <2>1. ASSUME NEW r \in Actor, SaveChangesAsync(r) \/ SaveStartFailed(r)
        PROVE  revoked \subseteq revoked'
    BY <2>1 DEF SaveChangesAsync, SaveStartFailed, WriteRevocations
  <2>2. CASE UNCHANGED revoked
    BY <2>2
  <2>3. CASE [Next]_vars /\ revoked' # revoked
    <3>1. \E r \in Actor : SaveChangesAsync(r) \/ SaveStartFailed(r)
      BY <2>3, OnlySavesRevoke
    <3>. QED  BY <3>1, <2>1
  <2>. QED  BY <2>2, <2>3
<1>. QED  BY <1>1, PTL DEF Spec, RevocationFinal

LEMMA OnlyCleanup ==
  ASSUME NEW o \in Operations, ReasonOf[o] = "cleanup"
  PROVE  o \in {"seek", "cleanup"}
BY DEF ReasonOf, Operations

(* What cleanup revokes has expired, has a token and has gone stale, or was
   one of these when its row was read. *)
THEOREM CleanupSparesLiveHolds == Spec => CleanupSparesLive
<1>1. ASSUME IInv, [Next]_vars, NEW s \in revoked' \ revoked, reason'[s] = "cleanup"
      PROVE  s \in expired \cup (stale \cap tokens) \cup revived
  <2>1. PICK r \in Actor : SaveChangesAsync(r) \/ SaveStartFailed(r)
    BY <1>1, OnlySavesRevoke
  <2>2. s \in Session /\ s \in mark[r]
    BY <1>1, <2>1 DEF SaveChangesAsync, SaveStartFailed, WriteRevocations, IInv, TypeOK
  <2>3. SaveChangesAsync(r) /\ ReasonOf[op[r]] = "cleanup"
    BY <1>1, <2>1, <2>2 DEF SaveChangesAsync, SaveStartFailed, WriteRevocations
  <2>4. op[r] = "cleanup"
    <3>1. op[r] \in Operations
      BY <1>1, <2>3 DEF SaveChangesAsync, IInv, HandlersOK
    <3>2. op[r] # "seek"
      BY <1>1, <2>2 DEF IInv, HandlersOK
    <3>. QED  BY <2>3, <3>1, <3>2, OnlyCleanup
  <2>. QED  BY <1>1, <2>2, <2>4 DEF IInv, CleanerOK
<1>2. IInv /\ [Next]_vars =>
        \A s \in revoked' \ revoked :
          reason'[s] = "cleanup" => s \in expired \cup (stale \cap tokens) \cup revived
  BY <1>1
<1>. QED  BY <1>2, InvariantHolds, PTL DEF Spec, CleanupSparesLive
-----------------------------------------------------------------------------
(* CreatedAt orders the sessions. *)
AgeOK ==
  /\ IsFiniteSet(allocated)
  /\ \A s \in allocated : s \notin older[s] /\ older[s] \subseteq allocated
  /\ \A s, t \in allocated : s = t \/ s \in older[t] \/ t \in older[s]
  /\ \A s, t \in allocated : s \in older[t] => older[s] \subseteq older[t]

(* What ends a session, or is about to, refers to a row. *)
RowsOK ==
  /\ revoked \subseteq created /\ expired \subseteq created
  /\ \A r \in Actor : mark[r] \subseteq created

(* Creation r has read its rows and has still to save; the sessions it leaves
   to its user, those among them that are older than one it ends, and the
   creations for the same user that are ahead of it. *)
Waiting(r) == op[r] = "create" /\ pc[r] = "save"
Kept(r) == Active(user[sid[r]]) \ mark[r]
Spared(r) == {w \in Kept(r) : \E v \in mark[r] : v \notin older[w]}
Ahead(r) == {q \in Creators : /\ Waiting(q)
                              /\ user[sid[q]] = user[sid[r]]
                              /\ sid[q] \in older[sid[r]]}

(* What r has not counted was saved by a creation that was ahead of it, and
   those that are still ahead are as many fewer.  A creation behind it needs no
   room of r's: it has counted r among those ahead of itself. *)
Room(r) ==
  /\ r \in Creators
  /\ mark[r] \subseteq older[sid[r]]
  /\ \A v \in mark[r] : user[v] = user[sid[r]]
  /\ MaxConcurrentSessions > 0 =>
       Cardinality(Kept(r)) + Cardinality(Ahead(r))
         <= MaxConcurrentSessions + Cardinality(Creators) - 2
  /\ Cardinality(Spared(r)) + Cardinality(Ahead(r)) <= Cardinality(Creators) - 1
  /\ Cardinality(Creators) = 1 => created \subseteq older[sid[r]]

RoomOK ==
  /\ \A r \in Actor : op[r] = "create" => r \in Creators
  /\ \A r \in Actor : Waiting(r) => Room(r)

SlotInv == AgeOK /\ RowsOK /\ RoomOK
-----------------------------------------------------------------------------
(* A step that opens no session: rows are revoked and expire, and a creation
   that waits for its save waits on. *)
Quiet ==
  /\ UNCHANGED <<created, user, older, allocated>>
  /\ revoked \subseteq revoked' /\ revoked' \subseteq created
  /\ expired \subseteq expired' /\ expired' \subseteq created
  /\ \A r \in Actor :
       /\ mark'[r] \subseteq created
       /\ op'[r] = "create" =>
            /\ op[r] = "create"
            /\ pc'[r] = "save" =>
                 pc[r] = "save" /\ sid'[r] = sid[r] /\ mark'[r] = mark[r]

LEMMA LoadedQuiet ==
  ASSUME IInv, RowsOK, NEW r \in Actor, NEW o \in Operations \ {"create"}, NEW label,
         NEW s, NEW marks \in SUBSET created, NEW stops, NEW newScore,
         Loaded(r, o, label, s, marks, stops, newScore),
         UNCHANGED <<rows, time, media>>
  PROVE  Quiet
BY DEF IInv, TypeOK, RowsOK, Quiet, Loaded, rows, time

LEMMA FinishQuiet ==
  ASSUME IInv, RowsOK, NEW r \in Actor, Finish(r), UNCHANGED <<rows, time>>
  PROVE  Quiet
BY DEF IInv, TypeOK, RowsOK, Quiet, Finish, rows, time

LEMMA RequestQuiet ==
  ASSUME IInv, RowsOK, NEW r \in Request,
         \/ \E s \in Session :
              \/ \E g \in HeartbeatGains : RecordHeartbeatAsync(r, s, g)
              \/ \E g \in EventGains : ApplyRiskAsync(r, s, g)
              \/ Seek(r, s)
              \/ Close(r, s)
              \/ RevokeAsync(r, s)
         \/ RevokeAllForVideoAsync(r)
         \/ RunOnceAsync
  PROVE  Quiet
<1>1. ASSUME NEW s \in Session, NEW g \in HeartbeatGains, RecordHeartbeatAsync(r, s, g)
      PROVE  Quiet
  <2>1. {s} \in SUBSET created /\ {} \in SUBSET created
    BY <1>1 DEF RecordHeartbeatAsync, Unrevoked
  <2>. QED  BY <1>1, <2>1, Identifiers, LoadedQuiet DEF RecordHeartbeatAsync, Operations
<1>2. ASSUME NEW s \in Session, NEW g \in EventGains, ApplyRiskAsync(r, s, g)
      PROVE  Quiet
  <2>1. (IF risk[s] + g >= AutoRevokeRiskThreshold THEN {s} ELSE {}) \in SUBSET created
    BY <1>2 DEF ApplyRiskAsync, Unrevoked
  <2>. QED  BY <1>2, <2>1, Identifiers, LoadedQuiet DEF ApplyRiskAsync, Operations
<1>3. ASSUME NEW s \in Session, Seek(r, s) \/ Close(r, s) \/ RevokeAsync(r, s)
      PROVE  Quiet
  <2>1. {s} \in SUBSET created /\ {} \in SUBSET created
    BY <1>3 DEF Seek, Close, RevokeAsync, Unrevoked
  <2>2. CASE Seek(r, s)
    BY <2>1, <2>2, Identifiers, LoadedQuiet DEF Seek, Operations
  <2>3. CASE Close(r, s)
    BY <2>1, <2>3, Identifiers, LoadedQuiet DEF Close, Operations
  <2>4. CASE RevokeAsync(r, s)
    BY <2>1, <2>4, Identifiers, LoadedQuiet DEF RevokeAsync, Operations
  <2>. QED  BY <1>3, <2>2, <2>3, <2>4
<1>4. CASE RevokeAllForVideoAsync(r)
  <2>1. Unrevoked \ expired \in SUBSET created
    BY DEF Unrevoked
  <2>. QED  BY <1>4, <2>1, Identifiers, LoadedQuiet DEF RevokeAllForVideoAsync, Operations
<1>5. CASE RunOnceAsync
  <2>1. Batches(Unrevoked \cap expired) \subseteq SUBSET created
    BY DEF Unrevoked, Batches
  <2>. QED  BY <1>5, <2>1, Identifiers, LoadedQuiet DEF RunOnceAsync, Operations
<1>. QED  BY <1>1, <1>2, <1>3, <1>4, <1>5

LEMMA HandlerQuiet ==
  ASSUME IInv, RowsOK, NEW r \in Actor,
         \/ \E s \in Session : StopAsync(r, s)
         \/ SeekAsync(r)
         \/ SaveChangesAsync(r) /\ op[r] # "create"
         \/ StartAsync(r)
         \/ SaveStartFailed(r)
         \/ Bootstrap(r)
         \/ Abort(r)
  PROVE  Quiet
<1>1. ASSUME NEW s \in Session, StopAsync(r, s)
      PROVE  Quiet
  BY <1>1 DEF IInv, TypeOK, HandlersOK, RowsOK, Quiet, StopAsync, Stopping, rows, time
<1>2. CASE SeekAsync(r)
  <2>1. CASE Finish(r)
    BY <1>2, <2>1, FinishQuiet DEF SeekAsync
  <2>2. CASE ~Finish(r)
    BY <1>2, <2>2 DEF IInv, TypeOK, HandlersOK, RowsOK, Quiet, SeekAsync, rows, time
  <2>. QED  BY <2>1, <2>2
<1>3. CASE SaveChangesAsync(r) /\ op[r] # "create"
  BY <1>3 DEF IInv, TypeOK, RowsOK, Quiet, SaveChangesAsync, WriteRevocations, Finish
<1>4. CASE StartAsync(r)
  <2>1. CASE Finish(r)
    BY <1>4, <2>1, FinishQuiet DEF StartAsync
  <2>2. CASE ~Finish(r)
    BY <1>4, <2>2
       DEF IInv, TypeOK, HandlersOK, RowsOK, Quiet, StartAsync, Return, Goto, Opening, rows, time
  <2>. QED  BY <2>1, <2>2
<1>5. CASE SaveStartFailed(r)
  BY <1>5 DEF IInv, TypeOK, RowsOK, Quiet, SaveStartFailed, WriteRevocations, Finish, time
<1>6. CASE Bootstrap(r)
  BY <1>6 DEF IInv, TypeOK, RowsOK, Quiet, Bootstrap, Finish, time
<1>7. CASE Abort(r)
  BY <1>7, FinishQuiet DEF Abort
<1>. QED  BY <1>1, <1>2, <1>3, <1>4, <1>5, <1>6, <1>7

LEMMA BackgroundQuiet ==
  ASSUME IInv, RowsOK,
         \/ StaleQuery \/ Restart
         \/ \E s \in Session : Expire(s) \/ GoStale(s) \/ WorkerExits(s)
         \/ UNCHANGED vars
  PROVE  Quiet
<1>1. CASE StaleQuery
  <2>1. PICK S \in SUBSET created : mark' = [mark EXCEPT ![Cleaner] = @ \cup S]
    BY <1>1 DEF StaleQuery, Unrevoked, Batches
  <2>2. mark[Cleaner] \cup S \subseteq created
    BY Identifiers DEF RowsOK
  <2>. QED
    BY <1>1, <2>1, <2>2, Identifiers
       DEF IInv, TypeOK, CleanerOK, RowsOK, Quiet, StaleQuery, rows, time
<1>2. CASE Restart
  BY <1>2 DEF RowsOK, Quiet, Restart, rows, time
<1>3. ASSUME NEW s \in Session, Expire(s) \/ GoStale(s) \/ WorkerExits(s)
      PROVE  Quiet
  BY <1>3 DEF RowsOK, Quiet, Expire, GoStale, WorkerExits, rows, time, handlers
<1>4. CASE UNCHANGED vars
  BY <1>4 DEF RowsOK, Quiet, vars
<1>. QED  BY <1>1, <1>2, <1>3, <1>4
-----------------------------------------------------------------------------
LEMMA ActiveRows ==
  ASSUME IInv, NEW u
  PROVE  Active(u) \subseteq created /\ Active(u) \subseteq allocated
BY DEF IInv, CreatorOK, Active, Unrevoked

LEMMA CreatorsFinite == IsFiniteSet(Creators) /\ Cardinality(Creators) \in Nat
BY FS_CardinalityType

LEMMA Counted ==
  ASSUME IInv, AgeOK, NEW r
  PROVE  /\ IsFiniteSet(Kept(r)) /\ Cardinality(Kept(r)) \in Nat
         /\ IsFiniteSet(Spared(r)) /\ Cardinality(Spared(r)) \in Nat
         /\ IsFiniteSet(Ahead(r)) /\ Cardinality(Ahead(r)) \in Nat
<1>1. /\ Kept(r) \in SUBSET allocated
      /\ Spared(r) \in SUBSET Kept(r)
      /\ Ahead(r) \in SUBSET Creators
  BY ActiveRows DEF Kept, Spared, Ahead
<1>2. IsFiniteSet(Kept(r)) /\ IsFiniteSet(Ahead(r))
  BY <1>1, CreatorsFinite, FS_Subset DEF AgeOK
<1>3. IsFiniteSet(Spared(r))
  BY <1>1, <1>2, FS_Subset
<1>. QED  BY <1>2, <1>3, FS_CardinalityType

(* A creation whose counts only shrink keeps its room. *)
LEMMA RoomShrinks ==
  ASSUME IInv, AgeOK, NEW r, Room(r),
         sid'[r] = sid[r], mark'[r] = mark[r],
         user'[sid[r]] = user[sid[r]], older'[sid[r]] = older[sid[r]],
         \A v \in mark[r] : user'[v] = user[v],
         Kept(r)' \subseteq Kept(r), Spared(r)' \subseteq Spared(r),
         Ahead(r)' \subseteq Ahead(r),
         Cardinality(Creators) = 1 => created' \subseteq created
  PROVE  Room(r)'
<1>1. /\ Cardinality(Kept(r)') <= Cardinality(Kept(r)) /\ Cardinality(Kept(r)') \in Nat
      /\ Cardinality(Spared(r)') <= Cardinality(Spared(r)) /\ Cardinality(Spared(r)') \in Nat
      /\ Cardinality(Ahead(r)') <= Cardinality(Ahead(r)) /\ Cardinality(Ahead(r)') \in Nat
  BY Counted, FS_Subset, FS_CardinalityType
<1>2. MaxConcurrentSessions > 0 =>
        Cardinality(Kept(r)') + Cardinality(Ahead(r)')
          <= MaxConcurrentSessions + Cardinality(Creators) - 2
  BY <1>1, Counted, CreatorsFinite DEF Room
<1>3. Cardinality(Spared(r)') + Cardinality(Ahead(r)') <= Cardinality(Creators) - 1
  BY <1>1, Counted, CreatorsFinite DEF Room
<1>. QED  BY <1>2, <1>3 DEF Room

LEMMA InitSlotInv == Init => SlotInv
BY FS_EmptySet DEF Init, SlotInv, AgeOK, RowsOK, RoomOK, Waiting

LEMMA QuietSlotInv ==
  ASSUME IInv, SlotInv, Quiet
  PROVE  SlotInv'
<1>1. AgeOK'
  BY DEF SlotInv, AgeOK, Quiet
<1>2. RowsOK'
  BY DEF SlotInv, RowsOK, Quiet
<1>3. ASSUME NEW r \in Actor, Waiting(r)'
      PROVE  Room(r)'
  <2>1. /\ UNCHANGED <<created, user, older, allocated>>
        /\ Waiting(r) /\ sid'[r] = sid[r] /\ mark'[r] = mark[r]
    BY <1>3 DEF Quiet, Waiting
  <2>2. Room(r)
    BY <2>1 DEF SlotInv, RoomOK
  <2>3. Kept(r)' \subseteq Kept(r)
    BY <2>1 DEF Quiet, Kept, Active, Unrevoked
  <2>4. Spared(r)' \subseteq Spared(r)
    BY <2>1, <2>3 DEF Spared
  <2>5. Ahead(r)' \subseteq Ahead(r)
    BY <2>1, Identifiers, SessionsAssumption DEF Quiet, Ahead, Waiting, Actor
  <2>. QED  BY <2>1, <2>2, <2>3, <2>4, <2>5, RoomShrinks DEF SlotInv
<1>4. RoomOK'
  BY <1>3 DEF RoomOK, SlotInv, Quiet
<1>. QED  BY <1>1, <1>2, <1>4 DEF SlotInv

(* What CreateAsync leaves of the user's sessions is fewer than the limit and
   younger than what it ends. *)
LEMMA EvictedLeaves ==
  ASSUME NEW u, NEW V, Evicted(u, V), IsFiniteSet(Active(u))
  PROVE  /\ V \subseteq Active(u)
         /\ \A v \in V, w \in Active(u) \ V : v \in older[w]
         /\ MaxConcurrentSessions > 0 => Cardinality(Active(u) \ V) < MaxConcurrentSessions
<1>. DEFINE A == Active(u)
<1>1. CASE MaxConcurrentSessions = 0 \/ Cardinality(A) < MaxConcurrentSessions
  <2>1. V = {} /\ A \ V = A
    BY <1>1 DEF Evicted
  <2>. QED  BY <1>1, <2>1
<1>2. CASE ~(MaxConcurrentSessions = 0 \/ Cardinality(A) < MaxConcurrentSessions)
  <2>1. /\ V \subseteq A
        /\ Cardinality(V) = Cardinality(A) - MaxConcurrentSessions + 1
        /\ \A v \in V, w \in A \ V : v \in older[w]
    BY <1>2 DEF Evicted
  <2>2. IsFiniteSet(V) /\ IsFiniteSet(A \ V)
    BY <2>1, FS_Subset
  <2>3. V \cup (A \ V) = A /\ V \cap (A \ V) = {}
    BY <2>1
  <2>4. Cardinality(V \cup (A \ V))
          = Cardinality(V) + Cardinality(A \ V) - Cardinality(V \cap (A \ V))
    BY <2>2, FS_Union
  <2>5. Cardinality({}) = 0
    BY FS_EmptySet
  <2>6. Cardinality(V) \in Nat /\ Cardinality(A \ V) \in Nat /\ Cardinality(A) \in Nat
    BY <2>2, FS_CardinalityType
  <2>. HIDE DEF A
  <2>7. Cardinality(A) = Cardinality(V) + Cardinality(A \ V) - Cardinality({})
    BY <2>3, <2>4
  <2>8. Cardinality(A \ V) < MaxConcurrentSessions
    BY <2>1, <2>5, <2>6, <2>7
  <2>. QED  BY <2>1, <2>8 DEF A
<1>. QED  BY <1>1, <1>2

LEMMA CreateAsyncSlotInv ==
  ASSUME IInv, SlotInv, NEW r \in Request, NEW u \in User, NEW s \in Session,
         CreateAsync(r, u, s)
  PROVE  SlotInv'
<1>1. PICK V \in SUBSET Session :
         Evicted(u, V) /\ Loaded(r, "create", "save", s, V, {}, 0)
  BY DEF CreateAsync
<1>2. /\ r \in Creators /\ s \notin allocated /\ allocated' = allocated \cup {s}
      /\ user'[s] = u /\ \A t \in allocated : user'[t] = user[t]
      /\ older'[s] = allocated /\ \A t \in allocated : older'[t] = older[t]
      /\ UNCHANGED <<created, revoked, expired>>
  BY DEF CreateAsync, IInv, TypeOK
<1>3. /\ op'[r] = "create" /\ pc'[r] = "save" /\ sid'[r] = s /\ mark'[r] = V
      /\ op[r] # "create" /\ op[r] = "none"
      /\ \A q \in Actor \ {r} : op'[q] = op[q] /\ pc'[q] = pc[q] /\ sid'[q] = sid[q]
                                /\ mark'[q] = mark[q]
  BY <1>1, Identifiers DEF Loaded, IInv, TypeOK, HandlersOK
<1>4. created \subseteq allocated
  BY DEF IInv, CreatorOK
<1>5. \A w \in User : Active(w)' = Active(w)
  BY <1>2, <1>4 DEF Active, Unrevoked
<1>6. /\ V \subseteq Active(u)
      /\ \A v \in V, w \in Active(u) \ V : v \in older[w]
      /\ MaxConcurrentSessions > 0 => Cardinality(Active(u) \ V) < MaxConcurrentSessions
      /\ Active(u) \subseteq created
  <2>1. Active(u) \in SUBSET allocated /\ Active(u) \subseteq created
    BY ActiveRows
  <2>2. IsFiniteSet(Active(u))
    BY <2>1, FS_Subset DEF SlotInv, AgeOK
  <2>. QED  BY <1>1, <2>1, <2>2, EvictedLeaves
<1>7. AgeOK'
  <2>1. IsFiniteSet(allocated')
    BY <1>2, FS_AddElement DEF SlotInv, AgeOK
  <2>2. \A t \in allocated' : t \notin older'[t] /\ older'[t] \subseteq allocated'
    BY <1>2 DEF SlotInv, AgeOK
  <2>3. \A t, q \in allocated' : t = q \/ t \in older'[q] \/ q \in older'[t]
    BY <1>2 DEF SlotInv, AgeOK
  <2>4. \A t, q \in allocated' : t \in older'[q] => older'[t] \subseteq older'[q]
    BY <1>2 DEF SlotInv, AgeOK
  <2>. QED  BY <2>1, <2>2, <2>3, <2>4 DEF AgeOK
<1>8. RowsOK'
  BY <1>2, <1>3, <1>6 DEF SlotInv, RowsOK
<1>9. Room(r)'
  <2>1. Kept(r)' = Active(u) \ V
    BY <1>2, <1>3, <1>5 DEF Kept
  <2>2. Spared(r)' = {}
    BY <1>2, <1>3, <1>4, <1>6, <2>1 DEF Spared
  <2>3. Ahead(r)' \in SUBSET (Creators \ {r})
    BY <1>2, <1>3 DEF Ahead, SlotInv, AgeOK
  <2>4. /\ IsFiniteSet(Ahead(r)') /\ Cardinality(Ahead(r)') \in Nat
        /\ Cardinality(Ahead(r)') <= Cardinality(Creators) - 1
    <3>1. IsFiniteSet(Creators \ {r}) /\ Cardinality(Creators \ {r}) = Cardinality(Creators) - 1
      BY <1>2, CreatorsFinite, FS_RemoveElement
    <3>. QED  BY <2>3, <3>1, FS_Subset, FS_CardinalityType
  <2>5. Cardinality(Active(u) \ V) \in Nat
    <3>1. Active(u) \ V \in SUBSET allocated
      BY ActiveRows
    <3>. QED  BY <3>1, FS_Subset, FS_CardinalityType DEF SlotInv, AgeOK
  <2>6. MaxConcurrentSessions > 0 =>
          Cardinality(Kept(r)') + Cardinality(Ahead(r)')
            <= MaxConcurrentSessions + Cardinality(Creators) - 2
    BY <1>6, <2>1, <2>4, <2>5, CreatorsFinite
  <2>7. Cardinality(Spared(r)') + Cardinality(Ahead(r)') <= Cardinality(Creators) - 1
    BY <2>2, <2>4, FS_EmptySet, CreatorsFinite
  <2>8. /\ mark'[r] \subseteq older'[sid'[r]] /\ created' \subseteq older'[sid'[r]]
        /\ \A v \in mark'[r] : user'[v] = user'[sid'[r]]
    BY <1>2, <1>3, <1>4, <1>6 DEF Active
  <2>. QED  BY <1>2, <2>6, <2>7, <2>8 DEF Room
<1>10. ASSUME NEW q \in Actor \ {r}, Waiting(q)'
       PROVE  Room(q)'
  <2>1. Waiting(q) /\ Room(q) /\ sid[q] \in allocated
    BY <1>3, <1>10 DEF Waiting, SlotInv, RoomOK, IInv, HandlersOK
  <2>2. /\ sid'[q] = sid[q] /\ mark'[q] = mark[q] /\ mark[q] \subseteq allocated
        /\ user'[sid[q]] = user[sid[q]] /\ older'[sid[q]] = older[sid[q]]
    BY <1>2, <1>3, <1>4, <2>1 DEF SlotInv, RowsOK
  <2>3. user[sid[q]] \in User
    BY DEF IInv, TypeOK
  <2>4. Kept(q)' = Kept(q)
    BY <1>5, <2>2, <2>3 DEF Kept
  <2>5. Spared(q)' \subseteq Spared(q)
    <3>1. Kept(q) \subseteq allocated
      BY ActiveRows DEF Kept
    <3>. QED  BY <1>2, <2>2, <2>4, <3>1 DEF Spared
  <2>6. Ahead(q)' \subseteq Ahead(q)
    <3>1. s \notin older[sid[q]]
      BY <1>2, <2>1 DEF SlotInv, AgeOK
    <3>2. \A c \in Creators : Waiting(c) => sid[c] \in allocated
      BY Identifiers, SessionsAssumption DEF Waiting, IInv, HandlersOK, Actor
    <3>. QED
      BY <1>2, <1>3, <2>2, <3>1, <3>2, SessionsAssumption DEF Ahead, Waiting, Actor
  <2>. QED  BY <1>2, <2>1, <2>2, <2>4, <2>5, <2>6, RoomShrinks DEF SlotInv
<1>11. RoomOK'
  BY <1>2, <1>3, <1>9, <1>10 DEF RoomOK, SlotInv
<1>. QED  BY <1>7, <1>8, <1>11 DEF SlotInv

(* A save of creation r for user u: u has the sessions r kept and the new one,
   everybody else has what they had. *)
LEMMA SaveCreatedActive ==
  ASSUME IInv, SlotInv, NEW r \in Actor, SaveChangesAsync(r), op[r] = "create"
  PROVE  /\ Waiting(r) /\ Room(r)
         /\ sid[r] \in Session /\ sid[r] \in allocated /\ sid[r] \notin created
         /\ user[sid[r]] \in User
         /\ created' = created \cup {sid[r]}
         /\ UNCHANGED <<user, older, allocated>>
         /\ \A w \in User : Active(w)' = IF w = user[sid[r]] THEN Kept(r) \cup {sid[r]}
                                                          ELSE Active(w)
<1>. DEFINE s == sid[r]
            u == user[s]
<1>1. /\ Waiting(r) /\ Room(r) /\ u \in User
      /\ s \in Session /\ s \in allocated /\ s \notin created
  BY DEF SaveChangesAsync, Waiting, SlotInv, RoomOK, IInv, TypeOK, HandlersOK, CreatorOK
<1>2. /\ created' = created \cup {s} /\ revoked' = revoked \cup mark[r]
      /\ UNCHANGED <<user, older, allocated, expired>>
  BY DEF SaveChangesAsync, WriteRevocations
<1>3. s \notin revoked /\ s \notin expired /\ s \notin mark[r]
  BY <1>1 DEF SlotInv, RowsOK
<1>4. \A v \in mark[r] : user[v] = u
  BY <1>1 DEF Room
<1>5. {t \in (created' \ revoked') \ expired' : user'[t] = u} = Kept(r) \cup {s}
  BY <1>2, <1>3 DEF Kept, Active, Unrevoked
<1>6. ASSUME NEW w \in User, w # u
      PROVE  {t \in (created' \ revoked') \ expired' : user'[t] = w} = Active(w)
  BY <1>2, <1>4, <1>6 DEF Active, Unrevoked
<1>. HIDE DEF u, s
<1>7. \A w \in User : Active(w)' = IF w = u THEN Kept(r) \cup {s} ELSE Active(w)
  BY <1>5, <1>6 DEF Active, Unrevoked
<1>. QED  BY <1>1, <1>2, <1>7 DEF u, s

LEMMA OneMoreOrLess ==
  ASSUME NEW A, IsFiniteSet(A), NEW x, NEW B
  PROVE  /\ B \subseteq A \cup {x} =>
              Cardinality(B) \in Nat /\ Cardinality(B) <= Cardinality(A) + 1
         /\ x \in A /\ B \subseteq A \ {x} =>
              Cardinality(B) \in Nat /\ Cardinality(B) <= Cardinality(A) - 1
<1>1. Cardinality(A) \in Nat
  BY FS_CardinalityType
<1>2. ASSUME B \subseteq A \cup {x}
      PROVE  Cardinality(B) \in Nat /\ Cardinality(B) <= Cardinality(A) + 1
  <2>1. /\ IsFiniteSet(A \cup {x})
        /\ Cardinality(A \cup {x}) = IF x \in A THEN Cardinality(A) ELSE Cardinality(A) + 1
    BY FS_AddElement
  <2>2. /\ IsFiniteSet(B) /\ Cardinality(B) <= Cardinality(A \cup {x})
        /\ Cardinality(B) \in Nat
    BY <1>2, <2>1, FS_Subset, FS_CardinalityType
  <2>. QED  BY <1>1, <2>1, <2>2
<1>3. ASSUME x \in A, B \subseteq A \ {x}
      PROVE  Cardinality(B) \in Nat /\ Cardinality(B) <= Cardinality(A) - 1
  <2>1. IsFiniteSet(A \ {x}) /\ Cardinality(A \ {x}) = Cardinality(A) - 1
    BY <1>3, FS_RemoveElement
  <2>. QED  BY <1>3, <2>1, FS_Subset, FS_CardinalityType
<1>. QED  BY <1>2, <1>3

LEMMA SaveCreatedSlotInv ==
  ASSUME IInv, SlotInv, NEW r \in Actor, SaveChangesAsync(r), op[r] = "create"
  PROVE  SlotInv'
<1>. DEFINE s == sid[r]
            u == user[s]
<1>1. /\ Waiting(r) /\ Room(r) /\ s \in allocated /\ s \notin created /\ u \in User
      /\ created' = created \cup {s} /\ UNCHANGED <<user, older, allocated>>
      /\ \A w \in User : Active(w)' = IF w = u THEN Kept(r) \cup {s} ELSE Active(w)
  BY SaveCreatedActive
<1>2. /\ op'[r] \in {"create", "none"} /\ ~ Waiting(r)'
      /\ \A q \in Actor \ {r} : op'[q] = op[q] /\ pc'[q] = pc[q] /\ sid'[q] = sid[q]
                                /\ mark'[q] = mark[q]
      /\ mark'[r] = {} /\ revoked' = revoked \cup mark[r] /\ expired' = expired
  BY DEF SaveChangesAsync, Finish, Goto, Return, WriteRevocations, Waiting, IInv, TypeOK
<1>3. AgeOK'
  BY <1>1 DEF SlotInv, AgeOK
<1>4. RowsOK'
  BY <1>1, <1>2 DEF SlotInv, RowsOK
<1>5. ASSUME NEW q \in Actor, Waiting(q)'
      PROVE  Room(q)'
  <2>1. /\ q # r /\ Waiting(q) /\ Room(q) /\ sid'[q] = sid[q] /\ mark'[q] = mark[q]
        /\ sid[q] # s /\ sid[q] \in allocated /\ user[sid[q]] \in User
    BY <1>1, <1>2, <1>5 DEF Waiting, SlotInv, RoomOK, IInv, TypeOK, HandlersOK, CreatorOK
  <2>2. q \in Creators /\ r \in Creators /\ Cardinality(Creators) # 1
    <3>1. q \in Creators /\ r \in Creators
      BY <1>1, <2>1 DEF Room
    <3>. QED  BY <2>1, <3>1, CreatorsFinite, FS_Singleton
  <2>3. Ahead(q)' \subseteq Ahead(q) \ {r}
    BY <1>1, <1>2, <2>1, SessionsAssumption DEF Ahead, Waiting, Actor
  <2>4. CASE user[sid[q]] # u
    <3>1. Kept(q)' = Kept(q)
      BY <1>1, <2>1, <2>4 DEF Kept
    <3>2. Spared(q)' \subseteq Spared(q)
      BY <1>1, <2>1, <3>1 DEF Spared
    <3>. QED  BY <1>1, <2>1, <2>2, <2>3, <3>1, <3>2, RoomShrinks DEF SlotInv
  <2>5. CASE user[sid[q]] = u /\ s \in older[sid[q]]
    <3>1. r \in Ahead(q) /\ Ahead(q)' \subseteq Ahead(q) \ {r}
      BY <1>1, <2>2, <2>3, <2>5 DEF Ahead
    <3>2. Kept(q)' \subseteq Kept(q) \cup {s}
      BY <1>1, <2>1, <2>5 DEF Kept
    <3>3. Spared(q)' \subseteq Spared(q) \cup {s}
      BY <1>1, <2>1, <3>2 DEF Spared
    <3>4. /\ Cardinality(Ahead(q)') \in Nat /\ Cardinality(Ahead(q)') <= Cardinality(Ahead(q)) - 1
          /\ Cardinality(Kept(q)') \in Nat /\ Cardinality(Kept(q)') <= Cardinality(Kept(q)) + 1
          /\ Cardinality(Spared(q)') \in Nat
          /\ Cardinality(Spared(q)') <= Cardinality(Spared(q)) + 1
      BY <3>1, <3>2, <3>3, Counted, OneMoreOrLess DEF SlotInv
    <3>5. MaxConcurrentSessions > 0 =>
            Cardinality(Kept(q)') + Cardinality(Ahead(q)')
              <= MaxConcurrentSessions + Cardinality(Creators) - 2
      BY <2>1, <3>4, Counted, CreatorsFinite DEF Room, SlotInv
    <3>6. Cardinality(Spared(q)') + Cardinality(Ahead(q)') <= Cardinality(Creators) - 1
      BY <2>1, <3>4, Counted, CreatorsFinite DEF Room, SlotInv
    <3>. QED  BY <1>1, <2>1, <2>2, <3>5, <3>6 DEF Room
  <2>6. CASE user[sid[q]] = u /\ s \notin older[sid[q]]
    <3>1. sid[q] \in older[s] /\ older[sid[q]] \subseteq older[s] /\ sid[q] \notin older[sid[q]]
      BY <1>1, <2>1, <2>6 DEF SlotInv, AgeOK
    <3>2. q \in Ahead(r) /\ Ahead(q)' \subseteq Ahead(r) \ {q}
      BY <2>1, <2>2, <2>3, <2>6, <3>1 DEF Ahead
    <3>3. Kept(q)' \subseteq Kept(r) \cup {s}
      BY <1>1, <2>1, <2>6 DEF Kept
    <3>4. Spared(q)' \subseteq Spared(q)
      <4>1. mark[q] \subseteq older[s]
        BY <2>1, <3>1 DEF Room
      <4>. QED  BY <1>1, <2>1, <2>6, <4>1 DEF Spared, Kept
    <3>5. /\ Cardinality(Ahead(q)') \in Nat /\ Cardinality(Ahead(q)') <= Cardinality(Ahead(r)) - 1
          /\ Cardinality(Kept(q)') \in Nat /\ Cardinality(Kept(q)') <= Cardinality(Kept(r)) + 1
      BY <3>2, <3>3, Counted, OneMoreOrLess DEF SlotInv
    <3>6. /\ Cardinality(Spared(q)') \in Nat
          /\ Cardinality(Spared(q)') <= Cardinality(Spared(q))
          /\ Cardinality(Ahead(q)') <= Cardinality(Ahead(q))
      BY <2>3, <3>4, Counted, FS_Subset, FS_CardinalityType DEF SlotInv
    <3>7. MaxConcurrentSessions > 0 =>
            Cardinality(Kept(q)') + Cardinality(Ahead(q)')
              <= MaxConcurrentSessions + Cardinality(Creators) - 2
      BY <1>1, <3>5, Counted, CreatorsFinite DEF Room, SlotInv
    <3>8. Cardinality(Spared(q)') + Cardinality(Ahead(q)') <= Cardinality(Creators) - 1
      BY <2>1, <3>5, <3>6, Counted, CreatorsFinite DEF Room, SlotInv
    <3>. QED  BY <1>1, <2>1, <2>2, <3>7, <3>8 DEF Room
  <2>. QED  BY <2>4, <2>5, <2>6
<1>6. RoomOK'
  BY <1>1, <1>2, <1>5 DEF RoomOK, SlotInv
<1>. QED  BY <1>3, <1>4, <1>6 DEF SlotInv

LEMMA StepKinds ==
  ASSUME IInv, RowsOK, [Next]_vars
  PROVE  \/ Quiet
         \/ \E r \in Request, u \in User, s \in Session : CreateAsync(r, u, s)
         \/ \E r \in Actor : SaveChangesAsync(r) /\ op[r] = "create"
<1>1. ASSUME NEW r \in Request,
             \/ \E u \in User, s \in Session : CreateAsync(r, u, s)
             \/ \E s \in Session :
                  \/ \E g \in HeartbeatGains : RecordHeartbeatAsync(r, s, g)
                  \/ \E g \in EventGains : ApplyRiskAsync(r, s, g)
                  \/ Seek(r, s)
                  \/ Close(r, s)
                  \/ RevokeAsync(r, s)
             \/ RevokeAllForVideoAsync(r)
             \/ SeekAsync(r)
             \/ StartAsync(r)
             \/ SaveStartFailed(r)
             \/ Bootstrap(r)
      PROVE  Quiet \/ \E u \in User, s \in Session : CreateAsync(r, u, s)
  BY <1>1, Identifiers, RequestQuiet, HandlerQuiet
<1>2. ASSUME NEW r \in Actor,
             (\E s \in Session : StopAsync(r, s)) \/ SaveChangesAsync(r) \/ Abort(r)
      PROVE  Quiet \/ (SaveChangesAsync(r) /\ op[r] = "create")
  BY <1>2, HandlerQuiet
<1>3. ASSUME RunOnceAsync
      PROVE  Quiet
  <2>1. \E E \in SUBSET created : \E label : Loaded(Cleaner, "cleanup", label, AnySession, E, E, 0)
    BY <1>3 DEF RunOnceAsync, Batches, Unrevoked
  <2>. QED  BY <1>3, <2>1, Identifiers, LoadedQuiet DEF RunOnceAsync, Operations
<1>4. CASE \/ StaleQuery \/ Restart
           \/ \E s \in Session : Expire(s) \/ GoStale(s) \/ WorkerExits(s)
           \/ UNCHANGED vars
  BY <1>4, BackgroundQuiet
<1>. QED  BY <1>1, <1>2, <1>3, <1>4 DEF Next

LEMMA NextSlotInv ==
  ASSUME IInv, SlotInv, [Next]_vars
  PROVE  SlotInv'
<1>1. \/ Quiet
      \/ \E r \in Request, u \in User, s \in Session : CreateAsync(r, u, s)
      \/ \E r \in Actor : SaveChangesAsync(r) /\ op[r] = "create"
  BY StepKinds DEF SlotInv
<1>. QED  BY <1>1, QuietSlotInv, CreateAsyncSlotInv, SaveCreatedSlotInv
-----------------------------------------------------------------------------
LEMMA SlotsCardinality == \A S : Slots!Cardinality(S) = Cardinality(S)
BY DEF Slots!Cardinality, Cardinality

LEMMA InitSlots == Init => Slots!SlotsInit
BY DEF Init, Slots!SlotsInit, Active, Unrevoked

LEMMA QuietEndsSessions ==
  ASSUME Quiet
  PROVE  Slots!EndSessions
<1>1. \A u \in User : Active(u)' \subseteq Active(u)
  BY DEF Quiet, Active, Unrevoked
<1>2. older' = older
  BY DEF Quiet
<1>. QED  BY <1>1, <1>2 DEF Slots!EndSessions, Slots!AgesKept

LEMMA CreateAsyncKeepsSlots ==
  ASSUME IInv, NEW r \in Request, NEW u \in User, NEW s \in Session, CreateAsync(r, u, s)
  PROVE  Slots!EndSessions
<1>1. \A t \in created : user'[t] = user[t] /\ older'[t] = older[t]
  BY DEF CreateAsync, IInv, TypeOK, CreatorOK
<1>2. \A w \in User : Active(w)' = Active(w) /\ Active(w) \subseteq created
  BY <1>1 DEF CreateAsync, Active, Unrevoked
<1>. QED  BY <1>1, <1>2 DEF Slots!EndSessions, Slots!AgesKept

LEMMA SaveCreatedOpens ==
  ASSUME IInv, SlotInv, NEW r \in Actor, SaveChangesAsync(r), op[r] = "create"
  PROVE  Slots!Open(user[sid[r]], sid[r], Kept(r))
<1>. DEFINE s == sid[r]
            u == user[s]
            ended == Active(u) \ Kept(r)
            spared == {w \in Kept(r) : \E v \in ended : v \notin older[w]}
<1>1. /\ Room(r) /\ s \notin created /\ u \in User /\ older' = older
      /\ \A w \in User : Active(w)' = IF w = u THEN Kept(r) \cup {s} ELSE Active(w)
  BY SaveCreatedActive
<1>2. \A v \in User : s \notin Active(v)
  BY <1>1, ActiveRows
<1>3. MaxConcurrentSessions > 0 =>
        Cardinality(Kept(r)) + 1 <= MaxConcurrentSessions + (Cardinality(Creators) - 1)
  BY <1>1, Counted, CreatorsFinite DEF Room, SlotInv
<1>4. Cardinality(spared) <= Cardinality(Creators) - 1
  <2>1. spared \subseteq Spared(r)
    BY DEF Spared, Kept
  <2>2. Cardinality(spared) \in Nat /\ Cardinality(spared) <= Cardinality(Spared(r))
    BY <2>1, Counted, FS_Subset, FS_CardinalityType DEF SlotInv
  <2>. QED  BY <1>1, <2>2, Counted, CreatorsFinite DEF Room, SlotInv
<1>5. Cardinality(Creators) = 1 => Kept(r) \subseteq older'[s]
  BY <1>1, ActiveRows DEF Room, Kept
<1>6. [w \in User |-> Active(w)]' = [[w \in User |-> Active(w)] EXCEPT ![u] = Kept(r) \cup {s}]
  <2>. HIDE DEF u, s
  <2>. QED  BY <1>1
<1>. QED
  BY <1>1, <1>2, <1>3, <1>4, <1>5, <1>6, SlotsCardinality DEF Slots!Open, Slots!AgesKept

LEMMA NextImplementsSlots ==
  ASSUME IInv, SlotInv, [Next]_vars
  PROVE  [Slots!SlotsNext]_(Slots!vars)
<1>1. ASSUME Quiet
      PROVE  Slots!SlotsNext
  BY <1>1, QuietEndsSessions DEF Slots!SlotsNext
<1>2. ASSUME NEW r \in Request, NEW u \in User, NEW s \in Session, CreateAsync(r, u, s)
      PROVE  Slots!SlotsNext
  BY <1>2, CreateAsyncKeepsSlots DEF Slots!SlotsNext
<1>3. ASSUME NEW r \in Actor, SaveChangesAsync(r), op[r] = "create"
      PROVE  Slots!SlotsNext
  <2>1. PICK u \in User, s \in Session : u = user[sid[r]] /\ s = sid[r]
    BY DEF IInv, TypeOK
  <2>2. \E kept \in SUBSET Active(u) : kept = Kept(r)
    BY <2>1 DEF Kept
  <2>3. PICK kept \in SUBSET Active(u) : kept = Kept(r)
    BY <2>2
  <2>4. Slots!Open(u, s, kept)
    BY <1>3, <2>1, <2>3, SaveCreatedOpens
  <2>5. s \in Active(u)'
    BY <1>3, <2>1, SaveCreatedActive
  <2>6. s \in [w \in User |-> Active(w)]'[u] /\ kept \in SUBSET [w \in User |-> Active(w)][u]
    BY <2>5
  <2>. QED  BY <2>4, <2>6 DEF Slots!SlotsNext
<1>4. \/ Quiet
      \/ \E r \in Request, u \in User, s \in Session : CreateAsync(r, u, s)
      \/ \E r \in Actor : SaveChangesAsync(r) /\ op[r] = "create"
  BY StepKinds DEF SlotInv
<1>. QED  BY <1>1, <1>2, <1>3, <1>4

(* However many creations overlap, for any policy: a saved creation opens one
   session and ends the oldest of its user's as it found them, no other step of
   any handler brings a session in, and of n creations that may overlap one
   leaves at most n - 1 sessions more than the limit, and at most n - 1 that
   are older than one it ended. *)
THEOREM ImplementsSlotsHolds == Spec => ImplementsSlots
<1>1. Init => SlotInv /\ Slots!SlotsInit
  BY InitSlotInv, InitSlots
<1>2. IInv /\ SlotInv /\ [Next]_vars => SlotInv' /\ [Slots!SlotsNext]_(Slots!vars)
  BY NextSlotInv, NextImplementsSlots
<1>. QED
  BY <1>1, <1>2, InvariantHolds, PTL DEF Spec, ImplementsSlots, Slots!SlotsSpec
=============================================================================
