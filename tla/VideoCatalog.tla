---------------------------- MODULE VideoCatalog ----------------------------
(***************************************************************************)
(* The Videos table and everyone who sets a video's Status: Bunny's        *)
(* webhooks with their idempotency records, the administrator's create,    *)
(* upload, refresh, sync and delete.  A handler reads rows, waits for      *)
(* Bunny, for a file or for another save, and writes the columns it has    *)
(* changed; nothing detects that a row changed meanwhile.                  *)
(* Bunny is external: its videos change status by themselves, and any      *)
(* webhook may be delivered late, again, out of order or never.            *)
(***************************************************************************)
EXTENDS Integers, FiniteSets

CONSTANTS
  Video,        \* videos, by BunnyVideoId
  Local,        \* those of them that only CreateSecure makes
  Event,        \* webhook events, by EventId
  EventVideo,   \* EventVideo[e]: the video of event e
  Awaited,      \* the events that Bunny delivers until they are accepted
  EventCode,    \* EventCode[e]: Payload.Status of event e, NoCode when absent
  Body,         \* request bodies with which an event may be delivered
  Codes,        \* status codes Bunny's API returns
  File,         \* protected source files, each written by one upload
  Request,      \* handlers that may be in flight at one time
  Webhooks,     \* those of them that may run the webhook
  Ops           \* the operations the environment calls, "abort" if they may fail

NoCode == -1
Absent == -2    \* Bunny has no such video

ASSUME CatalogAssumption ==
  /\ Video # {} /\ Event # {} /\ Body # {}
  /\ Local \subseteq Video
  /\ Awaited \subseteq Event
  /\ EventVideo \in [Event -> Video \ Local]
  /\ EventCode \in [Event -> Nat \cup {NoCode}]
  /\ Codes \subseteq Nat
  /\ Webhooks \subseteq Request

VARIABLES
  \* the database
  status,     \* status[v]: Video.Status, "none" while there is no row
  provider,   \* provider[v]: PlaybackProvider
  source,     \* source[v]: the files that ProtectedSourcePath names, one or none
  events,     \* events[e]: WebhookEvent row: "none", "pending" or "processed"
  receipts,   \* bodies with a BunnyWebhookReceipt
  \* the outside
  bunny,      \* bunny[v]: Bunny's code for the video, or Absent
  complete,   \* source files whose copy has ended
  started,    \* source files that exist
  emitted,    \* events that have happened at Bunny
  accepted,   \* those of them that Bunny has had a 202 for
  unknown,    \* those of them accepted for a video without a row
  \* handlers
  pc,         \* pc[r]: where handler r is
  about,      \* about[r]: the video, the event and the body it handles
  seen,       \* seen[r]: Status of the rows it has loaded, "none" for others
  want,       \* want[r]: Status it is about to write, "none" for others
  clash       \* handlers whose DbContext tracks a row that violates an index

database == <<status, provider, source, events, receipts>>
outside == <<bunny, complete, started, emitted, accepted, unknown>>
handlers == <<pc, about, seen, want, clash>>
vars == <<status, provider, source, events, receipts, bunny, complete,
          started, emitted, accepted, unknown, pc, about, seen, want, clash>>

Statuses == {"Created", "Uploading", "Processing", "Failed", "Ready", "Deleted"}
Nothing == [v \in Video |-> "none"]
Row(v) == [Nothing EXCEPT ![v] = status[v]]
Idle == [video |-> CHOOSE v \in Video : TRUE, event |-> CHOOSE e \in Event : TRUE,
         body |-> CHOOSE b \in Body : TRUE, file |-> {}]

TypeOK ==
  /\ status \in [Video -> Statuses \cup {"none"}]
  /\ provider \in [Video -> {"BunnyStream", "SecureWebRtc"}]
  /\ source \in [Video -> SUBSET File]
  /\ events \in [Event -> {"none", "pending", "processed"}]
  /\ receipts \in SUBSET (Event \X Body)
  /\ bunny \in [Video -> Codes \cup {0, Absent}]
  /\ complete \in SUBSET File /\ started \in SUBSET File
  /\ emitted \in SUBSET Event
  /\ accepted \in SUBSET Event /\ unknown \in SUBSET Event
  /\ pc \in [Request -> {"idle", "saveReceipt", "loadVideo", "loadEvent",
                         "insertEvent", "updateEvent", "apply", "mark",
                         "insertRow", "fetch", "refresh", "list", "loadAll",
                         "saveAll", "deleteAtBunny", "saveDeleted",
                         "insertSecure", "copy", "saveSource"}]
  /\ about \in [Request -> [video : Video, event : Event, body : Body,
                            file : SUBSET File]]
  /\ seen \in [Request -> [Video -> Statuses \cup {"none"}]]
  /\ want \in [Request -> [Video -> Statuses \cup {"none"}]]
  /\ clash \in SUBSET Request

Init ==
  /\ status = Nothing
  /\ provider = [v \in Video |-> "BunnyStream"]
  /\ source = [v \in Video |-> {}]
  /\ events = [e \in Event |-> "none"]
  /\ receipts = {}
  /\ bunny = [v \in Video |-> Absent]
  /\ complete = {} /\ started = {}
  /\ emitted = {} /\ accepted = {} /\ unknown = {}
  /\ pc = [r \in Request |-> "idle"]
  /\ about = [r \in Request |-> Idle]
  /\ seen = [r \in Request |-> Nothing]
  /\ want = [r \in Request |-> Nothing]
  /\ clash = {}

HasRow(v) == status[v] # "none"
videoOf(r) == about[r].video
eventOf(r) == about[r].event

(* Mutant of MapStatus: an upload that failed is taken for a finished one. *)
FailedIsReady(code) ==
  CASE code = 0 -> "Created"
    [] code \in 4..6 -> "Ready"
    [] code \in 7..8 -> "Failed"
    [] OTHER -> "Processing"

(* BunnyWebhookController.MapStatus, and MapBunnyStatus of both admin
   controllers, which differs for codes 7 and 8. *)
MapStatus(code) ==
  CASE code = 0 -> "Created"
    [] code = 4 -> "Ready"
    [] code \in 5..8 -> "Failed"
    [] OTHER -> "Processing"

MapBunnyStatus(code) ==
  IF code \in {7, 8} THEN "Processing" ELSE MapStatus(code)

StatusRank == [s \in Statuses |->
  CASE s = "Created" -> 0 [] s = "Uploading" -> 1 [] s = "Processing" -> 2
    [] s = "Failed" -> 3 [] s = "Ready" -> 4 [] s = "Deleted" -> 5]

AllowsTransition(current, next) ==
  current # "Deleted" /\ StatusRank[next] >= StatusRank[current]
-----------------------------------------------------------------------------
(* Handler r starts operation o about subject and goes on at label; it has
   loaded the statuses in loaded and means to write those in intent. *)
Begin(r, o, label, subject, loaded, intent) ==
  /\ o \in Ops
  /\ pc[r] = "idle"
  /\ pc' = [pc EXCEPT ![r] = label]
  /\ about' = [about EXCEPT ![r] = subject]
  /\ seen' = [seen EXCEPT ![r] = loaded]
  /\ want' = [want EXCEPT ![r] = intent]
  /\ UNCHANGED clash

AboutVideo(v) == [Idle EXCEPT !.video = v]

Goto(r, label) == pc' = [pc EXCEPT ![r] = label]

Respond(r) ==
  /\ pc' = [pc EXCEPT ![r] = "idle"]
  /\ about' = [about EXCEPT ![r] = Idle]
  /\ seen' = [seen EXCEPT ![r] = Nothing]
  /\ want' = [want EXCEPT ![r] = Nothing]
  /\ clash' = clash \ {r}

(* SaveChangesAsync of tracked videos: Status is written where the handler
   has set it to something else than it loaded. *)
Written(r, new) ==
  [v \in Video |-> IF new[v] \notin {"none", seen[r][v]} THEN new[v]
                                                         ELSE status[v]]
-----------------------------------------------------------------------------
(* BunnyWebhookController.Post of a verified request of the configured
   library.  When the body has no receipt yet, one is inserted. *)
Post(r, e, b) ==
  /\ r \in Webhooks /\ e \in emitted
  /\ Begin(r, "webhook",
           IF <<e, b>> \in receipts THEN "loadVideo" ELSE "saveReceipt",
           [AboutVideo(EventVideo[e]) EXCEPT !.event = e, !.body = b],
           Nothing, Nothing)
  /\ UNCHANGED <<database, outside>>

(* The unique violation of a concurrent duplicate is caught, but the context
   keeps the new receipt and tries to insert it in each later save. *)
SaveReceipt(r) ==
  /\ pc[r] = "saveReceipt"
  /\ LET receipt == <<about[r].event, about[r].body>>
     IN /\ receipts' = receipts \cup {receipt}
        /\ clash' = IF receipt \in receipts THEN clash \cup {r} ELSE clash
  /\ Goto(r, "loadVideo")
  /\ UNCHANGED <<status, provider, source, events, outside, about, seen, want>>

Accept(r) ==
  /\ accepted' = accepted \cup {eventOf(r)}
  /\ Respond(r)

LoadVideo(r) ==
  /\ pc[r] = "loadVideo"
  /\ IF HasRow(videoOf(r))
     THEN /\ seen' = [seen EXCEPT ![r] = Row(videoOf(r))]
          /\ Goto(r, "loadEvent")
          /\ UNCHANGED <<about, want, clash, outside>>
     ELSE /\ Accept(r)
          /\ unknown' = unknown \cup {eventOf(r)}
          /\ UNCHANGED <<bunny, complete, started, emitted>>
  /\ UNCHANGED database

(* Mutant of LoadEvent: an event that has a row counts as a duplicate. *)
PendingIsDuplicate(r) ==
  /\ pc[r] = "loadEvent"
  /\ IF events[eventOf(r)] # "none"
     THEN Accept(r)
     ELSE /\ Goto(r, "insertEvent")
          /\ UNCHANGED <<accepted, about, seen, want, clash>>
  /\ UNCHANGED <<database, bunny, complete, started, emitted, unknown>>

LoadEvent(r) ==
  /\ pc[r] = "loadEvent"
  /\ IF events[eventOf(r)] = "processed"
     THEN Accept(r)
     ELSE /\ Goto(r, IF events[eventOf(r)] = "none" THEN "insertEvent"
                                                    ELSE "updateEvent")
          /\ UNCHANGED <<accepted, about, seen, want, clash>>
  /\ UNCHANGED <<database, bunny, complete, started, emitted, unknown>>

(* A unique violation makes the handler look the event up again.  Its next
   save repeats the insertion that failed, so unless the event turns out to
   be processed the request ends with an error. *)
InsertEvent(r) ==
  /\ pc[r] = "insertEvent"
  /\ LET e == eventOf(r)
     IN CASE events[e] = "none" /\ r \notin clash ->
               /\ events' = [events EXCEPT ![e] = "pending"]
               /\ Goto(r, "apply")
               /\ UNCHANGED <<accepted, about, seen, want, clash>>
          [] events[e] = "processed" -> Accept(r) /\ UNCHANGED events
          [] OTHER -> Respond(r) /\ UNCHANGED <<events, accepted>>
  /\ UNCHANGED <<status, provider, source, receipts, bunny, complete, started,
                 emitted, unknown>>

UpdateRefused(r) ==
  /\ pc[r] = "updateEvent"
  /\ Respond(r)
  /\ UNCHANGED <<database, outside>>

(* Attempts, RawPayload, ReceivedAt and LastError are written; ProcessedAt,
   which another handler may have set by now, is not. *)
UpdateEvent(r) ==
  /\ pc[r] = "updateEvent"
  /\ IF r \in clash
     THEN Respond(r)
     ELSE Goto(r, "apply") /\ UNCHANGED <<about, seen, want, clash>>
  /\ UNCHANGED <<database, outside>>

(* The transition is judged by the status that LoadVideo saw. *)
NewStatus(r) ==
  LET code == EventCode[eventOf(r)]
  IN IF code # NoCode /\ AllowsTransition(seen[r][videoOf(r)], MapStatus(code))
     THEN [Nothing EXCEPT ![videoOf(r)] = MapStatus(code)]
     ELSE Nothing

(* Mutant of SaveStatus: the event is marked as processed before the status
   is saved. *)
MarkedBeforeStatus(r) ==
  \/ /\ pc[r] = "apply"
     /\ events[eventOf(r)] = "pending"
     /\ events' = [events EXCEPT ![eventOf(r)] = "processed"]
     /\ UNCHANGED <<status, pc>>
     /\ UNCHANGED <<provider, source, receipts, outside, about, seen, want, clash>>
  \/ /\ pc[r] = "apply"
     /\ events[eventOf(r)] = "processed"
     /\ status' = Written(r, NewStatus(r))
     /\ Goto(r, "mark")
     /\ UNCHANGED <<provider, source, events, receipts, outside, about, seen, want,
                    clash>>

SaveStatus(r) ==
  /\ pc[r] = "apply"
  /\ status' = Written(r, NewStatus(r))
  /\ Goto(r, "mark")
  /\ UNCHANGED <<provider, source, events, receipts, outside, about, seen, want,
                 clash>>

MarkProcessed(r) ==
  /\ pc[r] = "mark"
  /\ events' = [events EXCEPT ![eventOf(r)] = "processed"]
  /\ Accept(r)
  /\ UNCHANGED <<status, provider, source, receipts, bunny, complete, started,
                 emitted, unknown>>

(* One of the two saves fails; the best-effort save of LastError that follows
   succeeds and takes along what the first one had to write.  The answer is
   500. *)
SaveLastError(r) ==
  /\ EventCode[eventOf(r)] # NoCode
  /\ \/ pc[r] = "apply" /\ status' = Written(r, NewStatus(r)) /\ UNCHANGED events
     \/ /\ pc[r] = "mark" /\ UNCHANGED status
        /\ events' = [events EXCEPT ![eventOf(r)] = "processed"]
  /\ Respond(r)
  /\ UNCHANGED <<provider, source, receipts, outside>>
-----------------------------------------------------------------------------
(* AdminVideosController.Create: the video exists at Bunny before its row. *)
Create(r, v) ==
  /\ v \notin Local /\ bunny[v] = Absent /\ ~ HasRow(v)
  /\ bunny' = [bunny EXCEPT ![v] = 0]
  /\ Begin(r, "create", "insertRow", AboutVideo(v), Nothing, Nothing)
  /\ UNCHANGED <<database, complete, started, emitted, accepted, unknown>>

InsertRow(r) ==
  /\ pc[r] = "insertRow"
  /\ status' = IF HasRow(videoOf(r)) THEN status
               ELSE [status EXCEPT ![videoOf(r)] = "Uploading"]
  /\ Respond(r)
  /\ UNCHANGED <<provider, source, events, receipts, outside>>

(* AdminVideosController.Get and AdminController.SyncOne load the row, ask
   Bunny, and write what it answers, whatever the row says by then.  Get
   leaves a protected video alone; it saves a copy loaded anew, so that it
   writes whenever the answer differs from the status at that moment.  That it
   may find nothing new and not save at all is one of Abort's behaviours. *)
Get(r, v) ==
  /\ HasRow(v) /\ provider[v] = "BunnyStream"
  /\ Begin(r, "get", "fetch", AboutVideo(v), Nothing, Nothing)
  /\ UNCHANGED <<database, outside>>

SyncOne(r, v) ==
  /\ HasRow(v)
  /\ Begin(r, "sync", "fetch", AboutVideo(v), Row(v), Nothing)
  /\ UNCHANGED <<database, outside>>

GetVideoAsync(r) ==
  /\ pc[r] = "fetch"
  /\ bunny[videoOf(r)] # Absent
  /\ want' = [want EXCEPT ![r][videoOf(r)] = MapBunnyStatus(bunny[videoOf(r)])]
  /\ Goto(r, "refresh")
  /\ UNCHANGED <<database, outside, about, seen, clash>>

SaveRefresh(r) ==
  /\ pc[r] = "refresh"
  /\ status' = Written(r, want[r])
  /\ Respond(r)
  /\ UNCHANGED <<provider, source, events, receipts, outside>>

(* AdminController.SyncAll: Bunny's list, then the rows not deleted, then one
   save of all updates and imports. *)
SyncAll(r) ==
  /\ Begin(r, "syncAll", "list", Idle, Nothing, Nothing)
  /\ UNCHANGED <<database, outside>>

ListVideosAsync(r) ==
  /\ pc[r] = "list"
  /\ want' = [want EXCEPT ![r] =
                [v \in Video |-> IF bunny[v] = Absent THEN "none"
                                 ELSE MapBunnyStatus(bunny[v])]]
  /\ Goto(r, "loadAll")
  /\ UNCHANGED <<database, outside, about, seen, clash>>

LoadAll(r) ==
  /\ pc[r] = "loadAll"
  /\ seen' = [seen EXCEPT ![r] =
                [v \in Video |-> IF status[v] = "Deleted" THEN "none" ELSE status[v]]]
  /\ Goto(r, "saveAll")
  /\ UNCHANGED <<database, outside, about, want, clash>>

(* An import whose BunnyVideoId has a row by now, or has had a deleted one
   all along, violates the index and undoes the whole save. *)
SaveAll(r) ==
  /\ pc[r] = "saveAll"
  /\ LET imports == {v \in Video : want[r][v] # "none" /\ seen[r][v] = "none"}
     IN status' = IF \E v \in imports : HasRow(v) THEN status ELSE Written(r, want[r])
  /\ Respond(r)
  /\ UNCHANGED <<provider, source, events, receipts, outside>>

(* AdminVideosController.Delete: best effort at Bunny, then the row. *)
Delete(r, v) ==
  /\ HasRow(v)
  /\ Begin(r, "delete",
           IF provider[v] = "BunnyStream" THEN "deleteAtBunny" ELSE "saveDeleted",
           AboutVideo(v), Row(v), [Nothing EXCEPT ![v] = "Deleted"])
  /\ UNCHANGED <<database, outside>>

DeleteVideoAsync(r) ==
  /\ pc[r] = "deleteAtBunny"
  /\ bunny' \in {bunny, [bunny EXCEPT ![videoOf(r)] = Absent]}
  /\ Goto(r, "saveDeleted")
  /\ UNCHANGED <<database, complete, started, emitted, accepted, unknown, about,
                 seen, want, clash>>

SaveDeleted(r) ==
  /\ pc[r] = "saveDeleted"
  /\ status' = Written(r, want[r])
  /\ Respond(r)
  /\ UNCHANGED <<provider, source, events, receipts, outside>>
-----------------------------------------------------------------------------
(* AdminVideosController.CreateSecure: a row first, then the file. *)
CreateSecure(r, v) ==
  /\ v \in Local /\ ~ HasRow(v)
  /\ Begin(r, "createSecure", "copy", AboutVideo(v),
           [Nothing EXCEPT ![v] = "Uploading"], Nothing)
  /\ status' = [status EXCEPT ![v] = "Uploading"]
  /\ provider' = [provider EXCEPT ![v] = "SecureWebRtc"]
  /\ UNCHANGED <<source, events, receipts, outside>>

UploadProtectedSource(r, v) ==
  /\ HasRow(v)
  /\ Begin(r, "upload", "copy", AboutVideo(v), Row(v), Nothing)
  /\ UNCHANGED <<database, outside>>

(* Mutant of SaveSourceAsync: the path is returned while the copy runs. *)
CopyNotAwaited(r, f) ==
  /\ pc[r] = "copy"
  /\ f \notin started
  /\ started' = started \cup {f}
  /\ about' = [about EXCEPT ![r].file = {f}]
  /\ want' = [want EXCEPT ![r][videoOf(r)] = "Ready"]
  /\ Goto(r, "saveSource")
  /\ UNCHANGED <<database, bunny, complete, emitted, accepted, unknown, seen, clash>>

(* FileSystemProtectedMediaStorage.SaveSourceAsync: a new file for each
   upload, and the copying into it. *)
SaveSourceAsync(r, f) ==
  /\ pc[r] = "copy"
  /\ \/ /\ about[r].file = {} /\ f \notin started
        /\ started' = started \cup {f}
        /\ about' = [about EXCEPT ![r].file = {f}]
        /\ UNCHANGED <<complete, pc, want>>
     \/ /\ f \in about[r].file
        /\ complete' = complete \cup {f}
        /\ want' = [want EXCEPT ![r][videoOf(r)] = "Ready"]
        /\ Goto(r, "saveSource")
        /\ UNCHANGED <<started, about>>
  /\ UNCHANGED <<database, bunny, emitted, accepted, unknown, seen, clash>>

SaveProtectedSourceAsync(r) ==
  /\ pc[r] = "saveSource"
  /\ status' = Written(r, want[r])
  /\ provider' = [provider EXCEPT ![videoOf(r)] = "SecureWebRtc"]
  /\ source' = [source EXCEPT ![videoOf(r)] = about[r].file]
  /\ Respond(r)
  /\ UNCHANGED <<events, receipts, outside>>

(* The client goes away, a save fails or the server restarts: what is not
   saved is lost, a file stays as it is, Bunny gets no 202. *)
Abort(r) ==
  /\ "abort" \in Ops
  /\ pc[r] # "idle"
  /\ Respond(r)
  /\ UNCHANGED <<database, outside>>

(* ExpiredSessionCleanupService.RunOnceAsync: receipts past their retention,
   which are older than any request under way has met. *)
PruneReceipts ==
  \E old \in SUBSET receipts \ {{}} :
    /\ \A r \in clash : <<eventOf(r), about[r].body>> \notin old
    /\ receipts' = receipts \ old
    /\ UNCHANGED <<status, provider, source, events, outside, handlers>>

(* Bunny: the video gets another status, of which an event tells that may be
   delivered at any time from now on. *)
Transcode(v, code) ==
  /\ bunny[v] # Absent /\ bunny[v] # code
  /\ bunny' = [bunny EXCEPT ![v] = code]
  /\ emitted' = emitted \cup {e \in Event :
                 EventVideo[e] = v /\ EventCode[e] \in {code, NoCode}}
  /\ UNCHANGED <<database, complete, started, accepted, unknown, handlers>>
-----------------------------------------------------------------------------
Webhook(r) ==
  \/ \E e \in Event, b \in Body : Post(r, e, b)
  \/ SaveReceipt(r) \/ LoadVideo(r) \/ LoadEvent(r) \/ InsertEvent(r)
  \/ UpdateEvent(r) \/ SaveStatus(r) \/ MarkProcessed(r) \/ SaveLastError(r)

Creates(r) == \E v \in Video : Create(r, v) \/ CreateSecure(r, v)

Admin(r) ==
  \/ \E v \in Video :
       Get(r, v) \/ SyncOne(r, v) \/ Delete(r, v) \/ UploadProtectedSource(r, v)
  \/ InsertRow(r) \/ GetVideoAsync(r) \/ SaveRefresh(r)
  \/ SyncAll(r) \/ ListVideosAsync(r) \/ LoadAll(r) \/ SaveAll(r)
  \/ DeleteVideoAsync(r) \/ SaveDeleted(r)
  \/ \E f \in File : SaveSourceAsync(r, f)
  \/ SaveProtectedSourceAsync(r)

Next ==
  \/ \E r \in Request : Webhook(r) \/ Creates(r) \/ Admin(r) \/ Abort(r)
  \/ \E v \in Video, code \in Codes : Transcode(v, code)
  \/ PruneReceipts

Spec == Init /\ [][Next]_vars

(* Bunny delivers an awaited event until it is accepted, no step of the webhook
   fails for ever, and a request that hangs is given up. *)
Fairness ==
  /\ \A r \in Request : WF_vars(Abort(r))
  /\ \A e \in Awaited :
    LET handles(r) == r \in Webhooks /\ eventOf(r) = e
    IN /\ SF_vars(\E r \in Request, b \in Body : e \notin accepted /\ Post(r, e, b))
       /\ SF_vars(\E r \in Request : handles(r) /\ SaveReceipt(r))
       /\ SF_vars(\E r \in Request : handles(r) /\ LoadVideo(r))
       /\ SF_vars(\E r \in Request : handles(r) /\ LoadEvent(r))
       /\ SF_vars(\E r \in Request : handles(r) /\ InsertEvent(r))
       /\ SF_vars(\E r \in Request : handles(r) /\ UpdateEvent(r))
       /\ SF_vars(\E r \in Request : handles(r) /\ SaveStatus(r))
       /\ SF_vars(\E r \in Request : handles(r) /\ MarkProcessed(r))

FairSpec == Spec /\ Fairness
-----------------------------------------------------------------------------
(* However deliveries of an event overlap, an event that was processed stays
   so: a duplicate that read it as pending does not open it again. *)
ProcessedFinal ==
  [][\A e \in Event : events[e] = "processed" => events'[e] = "processed"]_vars

(* Bunny gets a 202 only for an event that has been processed, or whose video
   had no row at that time: whatever fails, no other event is lost. *)
AcceptedProcessed ==
  \A e \in accepted \ unknown : events[e] = "processed"

(* The effect of a processed event stays, while the webhook runs one request
   at a time and nobody refreshes or deletes the video: its status is at least
   as advanced as every processed event says, in whatever order they came and
   wherever a request failed. *)
ProcessedApplied ==
  \A e \in Event :
    events[e] = "processed" /\ EventCode[e] # NoCode =>
      StatusRank[status[EventVideo[e]]] >= StatusRank[MapStatus(EventCode[e])]

(* A protected video that is Ready has a source file, and the file has been
   copied to its end: neither an upload cut short, nor one that follows or
   overlaps another, nor a sync leaves the row with half a file or none. *)
ReadyHasSource ==
  \A v \in Video :
    provider[v] = "SecureWebRtc" /\ status[v] = "Ready" =>
      source[v] # {} /\ source[v] \subseteq complete

(* Every awaited event is accepted in the end, whatever fails, whatever is left
   of the attempts before, and however often other events come in between. *)
EveryEventAnswered == \A e \in Awaited : (e \in emitted) ~> (e \in accepted)
=============================================================================
