-------------------------- MODULE VideoCatalogProofs --------------------------
(***************************************************************************)
(* Theorems about VideoCatalog, about its history, and about UploadPage    *)
(* over it, for any videos, events, files, submissions and handlers, with  *)
(* every operation called at any time and every step able to fail.         *)
(***************************************************************************)
EXTENDS UploadPage, CatalogHistory, TLAPS

DatabaseType ==
  /\ status \in [Video -> Statuses \cup {"none"}]
  /\ provider \in [Video -> {"BunnyStream", "SecureWebRtc"}]
  /\ source \in [Video -> SUBSET File]
  /\ events \in [Event -> {"none", "pending", "processed"}]
  /\ receipts \in SUBSET (Event \X Body)

OutsideType ==
  /\ bunny \in [Video -> Codes \cup {0, Absent}]
  /\ complete \in SUBSET File /\ started \in SUBSET File
  /\ emitted \in SUBSET Event
  /\ accepted \in SUBSET Event /\ unknown \in SUBSET Event

Label == {"idle", "saveReceipt", "loadVideo", "loadEvent", "insertEvent", "updateEvent",
          "apply", "mark", "insertRow", "fetch", "refresh", "list", "loadAll", "saveAll",
          "deleteAtBunny", "saveDeleted", "insertSecure", "copy", "saveSource"}
Subject == [video : Video, event : Event, body : Body, file : SUBSET File]
Rows == [Video -> Statuses \cup {"none"}]

HandlersType ==
  /\ pc \in [Request -> Label] /\ about \in [Request -> Subject]
  /\ seen \in [Request -> Rows] /\ want \in [Request -> Rows]
  /\ clash \in SUBSET Request

AtWebhook(r) ==
  pc[r] \in {"saveReceipt", "loadVideo", "loadEvent", "insertEvent", "updateEvent",
             "apply", "mark"}

(* What a handler is about to write.  The webhook and Bunny's list know of no
   local video; an upload waits with the path until the copy has ended. *)
HandlerOK(r) ==
  /\ AtWebhook(r) => videoOf(r) \notin Local
  /\ pc[r] \in {"refresh", "loadAll", "saveAll"} =>
       \A v \in Local : want[r][v] = "none"
  /\ pc[r] \in {"fetch", "copy"} => want[r] = Nothing
  /\ pc[r] = "copy" => \A f, g \in about[r].file : f = g
  /\ pc[r] \in {"deleteAtBunny", "saveDeleted"} =>
       \A v \in Video : want[r][v] # "Ready"
  /\ pc[r] = "saveSource" =>
       /\ about[r].file # {} /\ about[r].file \subseteq complete
       /\ \A v \in Video \ {videoOf(r)} : want[r][v] = "none"

(* Only a local video is protected before it has a source, and then nobody
   makes it Ready. *)
SourceOK ==
  /\ \A v \in Local : bunny[v] = Absent
  /\ \A v \in Video : source[v] \subseteq complete
  /\ \A v \in Video : provider[v] = "SecureWebRtc" /\ source[v] = {} =>
                        v \in Local /\ status[v] # "Ready"

IInv ==
  /\ DatabaseType /\ OutsideType /\ HandlersType
  /\ SourceOK /\ \A r \in Request : HandlerOK(r)
  /\ AcceptedProcessed

USE CatalogAssumption
-----------------------------------------------------------------------------
LEMMA Types == DatabaseType /\ OutsideType /\ HandlersType <=> TypeOK
BY DEF TypeOK, DatabaseType, OutsideType, HandlersType, Label, Subject, Rows

LEMMA IdleTypes == Idle \in Subject /\ Idle.file = {} /\ Nothing \in Rows
BY DEF Idle, Subject, Nothing, Rows

LEMMA AboutTypes ==
  ASSUME NEW v \in Video
  PROVE  AboutVideo(v) \in Subject /\ AboutVideo(v).video = v /\ AboutVideo(v).file = {}
BY IdleTypes DEF AboutVideo, Subject

LEMMA RowTypes ==
  ASSUME DatabaseType, NEW v \in Video
  PROVE  Row(v) \in Rows /\ Nothing[v] = "none"
BY IdleTypes DEF DatabaseType, Row, Rows, Nothing

LEMMA StatusTypes ==
  ASSUME NEW code
  PROVE  MapStatus(code) \in Statuses /\ MapBunnyStatus(code) \in Statuses
BY DEF MapStatus, MapBunnyStatus, Statuses

LEMMA WrittenTypes ==
  ASSUME DatabaseType, HandlersType, NEW r \in Request, NEW new \in Rows
  PROVE  /\ Written(r, new) \in Rows
         /\ \A v \in Video : Written(r, new)[v] = "Ready" =>
                               status[v] = "Ready" \/ new[v] = "Ready"
         /\ \A v \in Video : new[v] = "none" => Written(r, new)[v] = status[v]
BY DEF Written, DatabaseType, HandlersType, Rows

LEMMA NewStatusTypes ==
  ASSUME HandlersType, NEW r \in Request
  PROVE  /\ NewStatus(r) \in Rows
         /\ \A v \in Video : v # videoOf(r) => NewStatus(r)[v] = "none"
<1>1. videoOf(r) \in Video
  BY DEF HandlersType, Subject, videoOf
<1>2. MapStatus(EventCode[eventOf(r)]) \in Statuses
  BY StatusTypes
<1>. QED  BY <1>1, <1>2, IdleTypes DEF NewStatus, Nothing, Rows

LEMMA InitIInv == Init => IInv
<1>. SUFFICES ASSUME Init  PROVE IInv
  OBVIOUS
<1>1. DatabaseType /\ OutsideType
  BY IdleTypes DEF Init, DatabaseType, OutsideType, Rows
<1>2. HandlersType
  BY IdleTypes DEF Init, HandlersType, Label
<1>3. SourceOK /\ AcceptedProcessed /\ \A r \in Request : HandlerOK(r)
  BY DEF Init, SourceOK, AcceptedProcessed, HandlerOK, AtWebhook, Nothing
<1>. QED  BY <1>1, <1>2, <1>3 DEF IInv
-----------------------------------------------------------------------------
(* Handlers other than r are where they were. *)
OthersStay(r) ==
  \A q \in Request \ {r} :
    /\ pc'[q] = pc[q] /\ about'[q] = about[q]
    /\ want'[q] = want[q] /\ seen'[q] = seen[q]

LEMMA HandlersStay ==
  ASSUME \A q \in Request : HandlerOK(q), NEW r \in Request, OthersStay(r), HandlerOK(r)',
         complete \subseteq complete'
  PROVE  \A q \in Request : HandlerOK(q)'
<1>. SUFFICES ASSUME NEW q \in Request, q # r  PROVE HandlerOK(q)'
  OBVIOUS
<1>. pc'[q] = pc[q] /\ about'[q] = about[q] /\ want'[q] = want[q] /\ HandlerOK(q)
  BY DEF OthersStay
<1>. QED  BY DEF HandlerOK, AtWebhook, videoOf

LEMMA BeginOK ==
  ASSUME HandlersType, NEW r \in Request, NEW o, NEW label \in Label,
         NEW subject \in Subject, NEW loaded \in Rows, NEW intent \in Rows,
         Begin(r, o, label, subject, loaded, intent)
  PROVE  /\ HandlersType' /\ OthersStay(r)
         /\ pc'[r] = label /\ about'[r] = subject /\ want'[r] = intent
BY DEF HandlersType, Begin, OthersStay

LEMMA RespondOK ==
  ASSUME HandlersType, NEW r \in Request, Respond(r)
  PROVE  HandlersType' /\ OthersStay(r) /\ HandlerOK(r)'
<1>1. "idle" \in Label
  BY DEF Label
<1>2. HandlersType' /\ OthersStay(r) /\ pc'[r] = "idle"
  BY <1>1, IdleTypes DEF HandlersType, Respond, OthersStay
<1>. QED  BY <1>2 DEF HandlerOK, AtWebhook

LEMMA GotoOK ==
  ASSUME HandlersType, NEW r \in Request, NEW label \in Label, Goto(r, label)
  PROVE  /\ pc' \in [Request -> Label] /\ pc'[r] = label
         /\ \A q \in Request \ {r} : pc'[q] = pc[q]
BY DEF HandlersType, Goto

LEMMA SubjectTypes ==
  ASSUME HandlersType, NEW r \in Request
  PROVE  /\ videoOf(r) \in Video /\ eventOf(r) \in Event /\ about[r].body \in Body
         /\ about[r].file \in SUBSET File
BY DEF HandlersType, Subject, videoOf, eventOf

(* A handler that has written nothing that matters here and has ended. *)
LEMMA Ended ==
  ASSUME IInv, NEW r \in Request, Respond(r), DatabaseType', OutsideType', SourceOK',
         AcceptedProcessed', complete \subseteq complete'
  PROVE  IInv'
BY RespondOK, HandlersStay DEF IInv

LEMMA Begun ==
  ASSUME IInv, NEW r \in Request, NEW o, NEW label \in Label,
         NEW subject \in Subject, NEW loaded \in Rows, NEW intent \in Rows,
         Begin(r, o, label, subject, loaded, intent), HandlerOK(r)',
         UNCHANGED <<source, events, complete, accepted, unknown>>,
         DatabaseType', OutsideType', SourceOK'
  PROVE  IInv'
<1>1. AcceptedProcessed'
  BY DEF AcceptedProcessed, IInv
<1>2. HandlersType' /\ OthersStay(r)
  BY BeginOK DEF IInv
<1>3. \A q \in Request : HandlerOK(q)'
  BY <1>2, HandlersStay DEF IInv
<1>. QED  BY <1>1, <1>2, <1>3 DEF IInv

LEMMA DatabaseKept ==
  ASSUME IInv, UNCHANGED database
  PROVE  DatabaseType' /\ (UNCHANGED outside => OutsideType' /\ SourceOK' /\ AcceptedProcessed')
BY DEF IInv, DatabaseType, OutsideType, SourceOK, AcceptedProcessed, database, outside
-----------------------------------------------------------------------------
LEMMA PostKeeps ==
  ASSUME IInv, NEW r \in Request, NEW e \in Event, NEW b \in Body, Post(r, e, b)
  PROVE  IInv'
<1>. DEFINE label == IF <<e, b>> \in receipts THEN "loadVideo" ELSE "saveReceipt"
            subject == [AboutVideo(EventVideo[e]) EXCEPT !.event = e, !.body = b]
<1>1. /\ label \in Label /\ label \in {"loadVideo", "saveReceipt"}
      /\ subject \in Subject /\ subject.video \notin Local
  <2>1. EventVideo[e] \in Video \ Local
    OBVIOUS
  <2>2. AboutVideo(EventVideo[e]) \in Subject /\ AboutVideo(EventVideo[e]).video = EventVideo[e]
    BY <2>1, AboutTypes
  <2>. QED  BY <2>1, <2>2 DEF Label, Subject
<1>. HIDE DEF label, subject
<1>2. Begin(r, "webhook", label, subject, Nothing, Nothing) /\ UNCHANGED <<database, outside>>
  BY DEF Post, label, subject
<1>3. HandlerOK(r)'
  <2>. pc'[r] = label /\ about'[r] = subject
    BY <1>1, <1>2, BeginOK, IdleTypes DEF IInv
  <2>. QED  BY <1>1 DEF HandlerOK, videoOf
<1>. QED  BY <1>1, <1>2, <1>3, IdleTypes, Begun, DatabaseKept DEF database, outside

LEMMA SaveReceiptKeeps ==
  ASSUME IInv, NEW r \in Request, SaveReceipt(r)
  PROVE  IInv'
<1>1. /\ "loadVideo" \in Label /\ Goto(r, "loadVideo") /\ pc[r] = "saveReceipt"
      /\ UNCHANGED <<status, provider, source, events, outside, about, seen, want>>
      /\ receipts' = receipts \cup {<<eventOf(r), about[r].body>>}
      /\ clash' \in SUBSET Request
  BY DEF SaveReceipt, Label, eventOf, IInv, HandlersType
<1>2. DatabaseType' /\ OutsideType' /\ SourceOK' /\ AcceptedProcessed'
  BY <1>1, SubjectTypes DEF IInv, DatabaseType, OutsideType, SourceOK, AcceptedProcessed, outside
<1>3. HandlersType' /\ OthersStay(r) /\ HandlerOK(r)'
  BY <1>1, GotoOK DEF IInv, HandlersType, OthersStay, HandlerOK, AtWebhook, videoOf
<1>. QED  BY <1>1, <1>2, <1>3, HandlersStay DEF IInv, outside

LEMMA LoadVideoKeeps ==
  ASSUME IInv, NEW r \in Request, LoadVideo(r)
  PROVE  IInv'
<1>1. CASE HasRow(videoOf(r))
  <2>1. /\ "loadEvent" \in Label /\ Goto(r, "loadEvent") /\ pc[r] = "loadVideo"
        /\ seen' = [seen EXCEPT ![r] = Row(videoOf(r))]
        /\ UNCHANGED <<database, outside, about, want, clash>>
    BY <1>1 DEF LoadVideo, Label
  <2>2. DatabaseType' /\ OutsideType' /\ SourceOK' /\ AcceptedProcessed'
    BY <2>1, DatabaseKept
  <2>3. HandlersType' /\ OthersStay(r) /\ HandlerOK(r)'
    <3>. Row(videoOf(r)) \in Rows
      BY SubjectTypes, RowTypes DEF IInv
    <3>. QED  BY <2>1, GotoOK DEF IInv, HandlersType, OthersStay, HandlerOK, AtWebhook, videoOf
  <2>. QED  BY <2>1, <2>2, <2>3, HandlersStay DEF IInv, outside
<1>2. CASE ~ HasRow(videoOf(r))
  <2>1. /\ Respond(r) /\ UNCHANGED <<database, bunny, complete, started, emitted>>
        /\ accepted' = accepted \cup {eventOf(r)} /\ unknown' = unknown \cup {eventOf(r)}
    BY <1>2 DEF LoadVideo, Accept
  <2>2. DatabaseType' /\ OutsideType' /\ SourceOK' /\ AcceptedProcessed'
    BY <2>1, SubjectTypes DEF IInv, DatabaseType, OutsideType, SourceOK, AcceptedProcessed,
                              database
  <2>. QED  BY <2>1, <2>2, Ended
<1>. QED  BY <1>1, <1>2

(* The webhook's answer to an event that is processed. *)
LEMMA Accepted ==
  ASSUME IInv, NEW r \in Request, Accept(r), events'[eventOf(r)] = "processed",
         \A e \in Event : events[e] = "processed" => events'[e] = "processed",
         events' \in [Event -> {"none", "pending", "processed"}],
         UNCHANGED <<status, provider, source, receipts, bunny, complete, started, emitted,
                     unknown>>
  PROVE  IInv'
<1>1. DatabaseType' /\ OutsideType' /\ SourceOK' /\ AcceptedProcessed'
  BY SubjectTypes DEF IInv, DatabaseType, OutsideType, SourceOK, AcceptedProcessed, Accept
<1>. QED  BY <1>1, Ended DEF Accept

LEMMA LoadEventKeeps ==
  ASSUME IInv, NEW r \in Request, LoadEvent(r)
  PROVE  IInv'
<1>1. CASE events[eventOf(r)] = "processed"
  BY <1>1, Accepted DEF LoadEvent, database, IInv, DatabaseType
<1>2. CASE events[eventOf(r)] # "processed"
  <2>. DEFINE label == IF events[eventOf(r)] = "none" THEN "insertEvent" ELSE "updateEvent"
  <2>1. /\ label \in Label /\ label \in {"insertEvent", "updateEvent"}
        /\ Goto(r, label) /\ pc[r] = "loadEvent"
        /\ UNCHANGED <<database, outside, about, seen, want, clash>>
    BY <1>2 DEF LoadEvent, Label, outside
  <2>. HIDE DEF label
  <2>2. DatabaseType' /\ OutsideType' /\ SourceOK' /\ AcceptedProcessed'
    BY <2>1, DatabaseKept
  <2>3. HandlersType' /\ OthersStay(r) /\ HandlerOK(r)'
    BY <2>1, GotoOK DEF IInv, HandlersType, OthersStay, HandlerOK, AtWebhook, videoOf
  <2>. QED  BY <2>1, <2>2, <2>3, HandlersStay DEF IInv, outside
<1>. QED  BY <1>1, <1>2

LEMMA InsertEventKeeps ==
  ASSUME IInv, NEW r \in Request, InsertEvent(r)
  PROVE  IInv'
<1>. DEFINE e == eventOf(r)
<1>0. UNCHANGED <<status, provider, source, receipts, bunny, complete, started, emitted, unknown>>
  BY DEF InsertEvent
<1>1. CASE events[e] = "none" /\ r \notin clash
  <2>1. /\ "apply" \in Label /\ Goto(r, "apply") /\ pc[r] = "insertEvent"
        /\ events' = [events EXCEPT ![e] = "pending"]
        /\ UNCHANGED <<accepted, about, seen, want, clash>>
    BY <1>1 DEF InsertEvent, Label
  <2>2. DatabaseType' /\ OutsideType' /\ SourceOK' /\ AcceptedProcessed'
    BY <1>0, <1>1, <2>1 DEF IInv, DatabaseType, OutsideType, SourceOK, AcceptedProcessed
  <2>3. HandlersType' /\ OthersStay(r) /\ HandlerOK(r)'
    BY <2>1, GotoOK DEF IInv, HandlersType, OthersStay, HandlerOK, AtWebhook, videoOf
  <2>. QED  BY <1>0, <2>1, <2>2, <2>3, HandlersStay DEF IInv
<1>2. CASE events[e] = "processed"
  <2>1. Accept(r) /\ UNCHANGED events
    BY <1>2 DEF InsertEvent
  <2>. QED  BY <1>0, <1>2, <2>1, Accepted DEF IInv, DatabaseType
<1>3. CASE ~(events[e] = "none" /\ r \notin clash) /\ events[e] # "processed"
  <2>1. Respond(r) /\ UNCHANGED <<events, accepted>>
    BY <1>3 DEF InsertEvent
  <2>. QED  BY <1>0, <2>1, DatabaseKept, Ended DEF database, outside
<1>. QED  BY <1>1, <1>2, <1>3

LEMMA UpdateEventKeeps ==
  ASSUME IInv, NEW r \in Request, UpdateEvent(r)
  PROVE  IInv'
<1>1. DatabaseType' /\ OutsideType' /\ SourceOK' /\ AcceptedProcessed'
  BY DatabaseKept DEF UpdateEvent
<1>2. CASE Respond(r)
  BY <1>1, <1>2, Ended DEF UpdateEvent, outside
<1>3. CASE Goto(r, "apply") /\ UNCHANGED <<about, seen, want, clash>>
  <2>1. "apply" \in Label /\ pc[r] = "updateEvent"
    BY DEF UpdateEvent, Label
  <2>2. HandlersType' /\ OthersStay(r) /\ HandlerOK(r)'
    BY <1>3, <2>1, GotoOK DEF IInv, HandlersType, OthersStay, HandlerOK, AtWebhook, videoOf
  <2>. QED  BY <1>1, <2>2, HandlersStay DEF IInv, UpdateEvent, outside
<1>. QED  BY <1>2, <1>3 DEF UpdateEvent

(* A save of statuses none of which makes a protected video Ready that was not. *)
LEMMA StatusSaved ==
  ASSUME IInv, NEW r \in Request, NEW new \in Rows, status' = Written(r, new),
         UNCHANGED <<provider, source, bunny, complete, started>>,
         \A v \in Local : new[v] # "Ready"
  PROVE  status' \in Rows /\ SourceOK'
<1>1. /\ status' \in Rows
      /\ \A v \in Video : status'[v] = "Ready" => status[v] = "Ready" \/ new[v] = "Ready"
  BY WrittenTypes DEF IInv
<1>. QED  BY <1>1 DEF IInv, SourceOK

LEMMA SaveStatusKeeps ==
  ASSUME IInv, NEW r \in Request, SaveStatus(r)
  PROVE  IInv'
<1>1. /\ "mark" \in Label /\ Goto(r, "mark") /\ pc[r] = "apply"
      /\ status' = Written(r, NewStatus(r))
      /\ UNCHANGED <<provider, source, events, receipts, outside, about, seen, want, clash>>
  BY DEF SaveStatus, Label
<1>2. NewStatus(r) \in Rows /\ \A v \in Local : NewStatus(r)[v] # "Ready"
  BY <1>1, NewStatusTypes DEF IInv, HandlerOK, AtWebhook
<1>3. status' \in Rows /\ SourceOK'
  BY <1>1, <1>2, StatusSaved DEF outside
<1>4. DatabaseType' /\ OutsideType' /\ AcceptedProcessed'
  BY <1>1, <1>3 DEF IInv, DatabaseType, OutsideType, AcceptedProcessed, outside, Rows
<1>5. HandlersType' /\ OthersStay(r) /\ HandlerOK(r)'
  BY <1>1, GotoOK DEF IInv, HandlersType, OthersStay, HandlerOK, AtWebhook, videoOf
<1>. QED  BY <1>1, <1>3, <1>4, <1>5, HandlersStay DEF IInv, outside

LEMMA MarkProcessedKeeps ==
  ASSUME IInv, NEW r \in Request, MarkProcessed(r)
  PROVE  IInv'
<1>. eventOf(r) \in Event
  BY SubjectTypes DEF IInv
<1>. QED  BY Accepted DEF MarkProcessed, IInv, DatabaseType

LEMMA SaveLastErrorKeeps ==
  ASSUME IInv, NEW r \in Request, SaveLastError(r)
  PROVE  IInv'
<1>0. Respond(r) /\ UNCHANGED <<provider, source, receipts, outside>>
  BY DEF SaveLastError
<1>1. CASE pc[r] = "apply" /\ status' = Written(r, NewStatus(r)) /\ UNCHANGED events
  <2>1. NewStatus(r) \in Rows /\ \A v \in Local : NewStatus(r)[v] # "Ready"
    BY <1>1, NewStatusTypes DEF IInv, HandlerOK, AtWebhook
  <2>2. status' \in Rows /\ SourceOK'
    BY <1>0, <1>1, <2>1, StatusSaved DEF outside
  <2>3. DatabaseType' /\ OutsideType' /\ AcceptedProcessed'
    BY <1>0, <1>1, <2>2 DEF IInv, DatabaseType, OutsideType, AcceptedProcessed, outside, Rows
  <2>. QED  BY <1>0, <2>2, <2>3, Ended DEF outside
<1>2. CASE /\ pc[r] = "mark" /\ UNCHANGED status
           /\ events' = [events EXCEPT ![eventOf(r)] = "processed"]
  <2>1. DatabaseType' /\ OutsideType' /\ SourceOK' /\ AcceptedProcessed'
    BY <1>0, <1>2, SubjectTypes DEF IInv, DatabaseType, OutsideType, SourceOK,
                                    AcceptedProcessed, outside
  <2>. QED  BY <1>0, <2>1, Ended DEF outside
<1>. QED  BY <1>1, <1>2 DEF SaveLastError
-----------------------------------------------------------------------------
LEMMA CreateKeeps ==
  ASSUME IInv, NEW r \in Request, NEW v \in Video, Create(r, v)
  PROVE  IInv'
<1>1. /\ "insertRow" \in Label /\ v \notin Local /\ bunny' = [bunny EXCEPT ![v] = 0]
      /\ Begin(r, "create", "insertRow", AboutVideo(v), Nothing, Nothing)
      /\ UNCHANGED <<database, complete, started, emitted, accepted, unknown>>
  BY DEF Create, Label
<1>2. DatabaseType' /\ OutsideType' /\ SourceOK'
  BY <1>1 DEF IInv, DatabaseType, OutsideType, SourceOK, database
<1>3. HandlerOK(r)'
  BY <1>1, BeginOK, IdleTypes, AboutTypes DEF IInv, HandlerOK, AtWebhook
<1>. QED  BY <1>1, <1>2, <1>3, IdleTypes, AboutTypes, Begun DEF database

LEMMA InsertRowKeeps ==
  ASSUME IInv, NEW r \in Request, InsertRow(r)
  PROVE  IInv'
<1>1. videoOf(r) \in Video
  BY SubjectTypes DEF IInv
<1>2. /\ status' \in Rows /\ \A v \in Video : status'[v] = "Ready" => status[v] = "Ready"
      /\ Respond(r) /\ UNCHANGED <<provider, source, events, receipts, outside>>
  BY <1>1 DEF InsertRow, IInv, DatabaseType, Rows, Statuses
<1>3. DatabaseType' /\ OutsideType' /\ SourceOK' /\ AcceptedProcessed'
  BY <1>2 DEF IInv, DatabaseType, OutsideType, SourceOK, AcceptedProcessed, outside, Rows
<1>. QED  BY <1>2, <1>3, Ended DEF outside

(* Operations that begin with reading one row. *)
LEMMA ReadKeeps ==
  ASSUME IInv, NEW r \in Request, NEW v \in Video, NEW o, NEW loaded \in Rows,
         NEW intent \in Rows, NEW label \in Label,
         Begin(r, o, label, AboutVideo(v), loaded, intent), UNCHANGED <<database, outside>>,
         \/ label \in {"fetch", "copy"} /\ intent = Nothing
         \/ label \in {"deleteAtBunny", "saveDeleted"} /\ \A w \in Video : intent[w] # "Ready"
  PROVE  IInv'
<1>1. AboutVideo(v) \in Subject
  BY AboutTypes
<1>2. HandlerOK(r)'
  BY <1>1, BeginOK, AboutTypes DEF IInv, HandlerOK, AtWebhook
<1>. QED  BY <1>1, <1>2, Begun, DatabaseKept DEF database, outside

LEMMA ReadsKeep ==
  ASSUME IInv, NEW r \in Request, NEW v \in Video,
         Get(r, v) \/ SyncOne(r, v) \/ Delete(r, v) \/ UploadProtectedSource(r, v)
  PROVE  IInv'
<1>1. /\ {"fetch", "copy", "deleteAtBunny", "saveDeleted"} \subseteq Label
      /\ Row(v) \in Rows /\ Nothing \in Rows
  BY IdleTypes, RowTypes DEF IInv, Label
<1>2. CASE Get(r, v)
  BY <1>1, <1>2, ReadKeeps DEF Get
<1>3. CASE SyncOne(r, v)
  BY <1>1, <1>3, ReadKeeps DEF SyncOne
<1>4. CASE UploadProtectedSource(r, v)
  BY <1>1, <1>4, ReadKeeps DEF UploadProtectedSource
<1>5. CASE Delete(r, v)
  <2>1. /\ [Nothing EXCEPT ![v] = "Deleted"] \in Rows
        /\ \A w \in Video : [Nothing EXCEPT ![v] = "Deleted"][w] # "Ready"
    BY DEF Nothing, Rows, Statuses
  <2>. QED  BY <1>1, <1>5, <2>1, ReadKeeps DEF Delete
<1>. QED  BY <1>2, <1>3, <1>4, <1>5

LEMMA GetVideoAsyncKeeps ==
  ASSUME IInv, NEW r \in Request, GetVideoAsync(r)
  PROVE  IInv'
<1>. DEFINE new == MapBunnyStatus(bunny[videoOf(r)])
<1>1. /\ "refresh" \in Label /\ Goto(r, "refresh") /\ pc[r] = "fetch"
      /\ bunny[videoOf(r)] # Absent /\ want' = [want EXCEPT ![r][videoOf(r)] = new]
      /\ UNCHANGED <<database, outside, about, seen, clash>>
  BY DEF GetVideoAsync, Label
<1>2. new \in Statuses /\ videoOf(r) \in Video /\ videoOf(r) \notin Local /\ want[r] = Nothing
  BY <1>1, StatusTypes, SubjectTypes DEF IInv, SourceOK, HandlerOK
<1>. HIDE DEF new
<1>3. want' \in [Request -> Rows] /\ \A v \in Local : want'[r][v] = "none"
  BY <1>1, <1>2 DEF IInv, HandlersType, Rows, Nothing
<1>4. HandlersType' /\ OthersStay(r) /\ HandlerOK(r)'
  BY <1>1, <1>3, GotoOK DEF IInv, HandlersType, OthersStay, HandlerOK, AtWebhook
<1>. QED  BY <1>1, <1>4, DatabaseKept, HandlersStay DEF IInv, outside

LEMMA SavesKeep ==
  ASSUME IInv, NEW r \in Request, SaveRefresh(r) \/ SaveAll(r) \/ SaveDeleted(r)
  PROVE  IInv'
<1>1. /\ Respond(r) /\ UNCHANGED <<provider, source, events, receipts, outside>>
      /\ status' = status \/ status' = Written(r, want[r])
      /\ pc[r] \in {"refresh", "saveAll", "saveDeleted"}
  BY DEF SaveRefresh, SaveAll, SaveDeleted
<1>2. want[r] \in Rows /\ \A v \in Local : want[r][v] # "Ready"
  BY <1>1 DEF IInv, HandlersType, HandlerOK
<1>3. status' \in Rows /\ SourceOK'
  <2>1. CASE status' = status
    BY <1>1, <2>1 DEF IInv, DatabaseType, Rows, SourceOK, outside
  <2>2. CASE status' = Written(r, want[r])
    BY <1>1, <1>2, <2>2, StatusSaved DEF outside
  <2>. QED  BY <1>1, <2>1, <2>2
<1>4. DatabaseType' /\ OutsideType' /\ AcceptedProcessed'
  BY <1>1, <1>3 DEF IInv, DatabaseType, OutsideType, AcceptedProcessed, outside, Rows
<1>. QED  BY <1>1, <1>3, <1>4, Ended DEF outside

LEMMA SyncAllKeeps ==
  ASSUME IInv, NEW r \in Request, SyncAll(r)
  PROVE  IInv'
<1>1. /\ "list" \in Label /\ Begin(r, "syncAll", "list", Idle, Nothing, Nothing)
      /\ UNCHANGED <<database, outside>>
  BY DEF SyncAll, Label
<1>2. HandlerOK(r)'
  BY <1>1, BeginOK, IdleTypes DEF IInv, HandlerOK, AtWebhook
<1>. QED  BY <1>1, <1>2, IdleTypes, Begun, DatabaseKept DEF database, outside

LEMMA ListVideosAsyncKeeps ==
  ASSUME IInv, NEW r \in Request, ListVideosAsync(r)
  PROVE  IInv'
<1>. DEFINE listed == [v \in Video |-> IF bunny[v] = Absent THEN "none"
                                       ELSE MapBunnyStatus(bunny[v])]
<1>1. /\ "loadAll" \in Label /\ Goto(r, "loadAll") /\ want' = [want EXCEPT ![r] = listed]
      /\ UNCHANGED <<database, outside, about, seen, clash>>
  BY DEF ListVideosAsync, Label
<1>2. listed \in Rows /\ \A v \in Local : listed[v] = "none"
  BY StatusTypes DEF Rows, IInv, SourceOK
<1>. HIDE DEF listed
<1>3. HandlersType' /\ OthersStay(r) /\ HandlerOK(r)'
  BY <1>1, <1>2, GotoOK DEF IInv, HandlersType, OthersStay, HandlerOK, AtWebhook
<1>. QED  BY <1>1, <1>3, DatabaseKept, HandlersStay DEF IInv, outside

LEMMA LoadAllKeeps ==
  ASSUME IInv, NEW r \in Request, LoadAll(r)
  PROVE  IInv'
<1>. DEFINE loaded == [v \in Video |-> IF status[v] = "Deleted" THEN "none" ELSE status[v]]
<1>1. /\ "saveAll" \in Label /\ Goto(r, "saveAll") /\ seen' = [seen EXCEPT ![r] = loaded]
      /\ UNCHANGED <<database, outside, about, want, clash>> /\ pc[r] = "loadAll"
  BY DEF LoadAll, Label
<1>2. loaded \in Rows
  BY DEF Rows, IInv, DatabaseType
<1>. HIDE DEF loaded
<1>3. HandlersType' /\ OthersStay(r) /\ HandlerOK(r)'
  BY <1>1, <1>2, GotoOK DEF IInv, HandlersType, OthersStay, HandlerOK, AtWebhook
<1>. QED  BY <1>1, <1>3, DatabaseKept, HandlersStay DEF IInv, outside

LEMMA DeleteVideoAsyncKeeps ==
  ASSUME IInv, NEW r \in Request, DeleteVideoAsync(r)
  PROVE  IInv'
<1>1. /\ "saveDeleted" \in Label /\ Goto(r, "saveDeleted") /\ pc[r] = "deleteAtBunny"
      /\ bunny' = bunny \/ bunny' = [bunny EXCEPT ![videoOf(r)] = Absent]
      /\ UNCHANGED <<database, complete, started, emitted, accepted, unknown, about, seen,
                     want, clash>>
  BY DEF DeleteVideoAsync, Label
<1>2. DatabaseType' /\ OutsideType' /\ SourceOK' /\ AcceptedProcessed'
  BY <1>1, SubjectTypes DEF IInv, DatabaseType, OutsideType, SourceOK, AcceptedProcessed,
                            database
<1>3. HandlersType' /\ OthersStay(r) /\ HandlerOK(r)'
  BY <1>1, GotoOK DEF IInv, HandlersType, OthersStay, HandlerOK, AtWebhook
<1>. QED  BY <1>1, <1>2, <1>3, HandlersStay DEF IInv
-----------------------------------------------------------------------------
LEMMA CreateSecureKeeps ==
  ASSUME IInv, NEW r \in Request, NEW v \in Video, CreateSecure(r, v)
  PROVE  IInv'
<1>. DEFINE loaded == [Nothing EXCEPT ![v] = "Uploading"]
<1>1. /\ "copy" \in Label /\ v \in Local
      /\ Begin(r, "createSecure", "copy", AboutVideo(v), loaded, Nothing)
      /\ status' = [status EXCEPT ![v] = "Uploading"]
      /\ provider' = [provider EXCEPT ![v] = "SecureWebRtc"]
      /\ UNCHANGED <<source, events, receipts, outside>>
  BY DEF CreateSecure, Label
<1>2. loaded \in Rows
  BY IdleTypes DEF Rows, Statuses
<1>. HIDE DEF loaded
<1>3. DatabaseType' /\ OutsideType' /\ SourceOK'
  BY <1>1 DEF IInv, DatabaseType, OutsideType, SourceOK, Statuses, outside
<1>4. HandlerOK(r)'
  BY <1>1, <1>2, BeginOK, IdleTypes, AboutTypes DEF IInv, HandlerOK, AtWebhook
<1>. QED  BY <1>1, <1>2, <1>3, <1>4, IdleTypes, AboutTypes, Begun DEF outside

LEMMA SaveSourceAsyncKeeps ==
  ASSUME IInv, NEW r \in Request, NEW f \in File, SaveSourceAsync(r, f)
  PROVE  IInv'
<1>0. /\ UNCHANGED <<database, bunny, emitted, accepted, unknown, seen, clash>>
      /\ pc[r] = "copy" /\ want[r] = Nothing /\ videoOf(r) \in Video
  BY SubjectTypes DEF SaveSourceAsync, IInv, HandlerOK
<1>1. CASE /\ started' = started \cup {f} /\ about' = [about EXCEPT ![r].file = {f}]
           /\ UNCHANGED <<complete, pc, want>>
  <2>1. DatabaseType' /\ OutsideType' /\ SourceOK' /\ AcceptedProcessed'
    BY <1>0, <1>1 DEF IInv, DatabaseType, OutsideType, SourceOK, AcceptedProcessed, database
  <2>2. about' \in [Request -> Subject]
    BY <1>1 DEF IInv, HandlersType, Subject
  <2>3. HandlersType' /\ OthersStay(r) /\ HandlerOK(r)'
    BY <1>0, <1>1, <2>2 DEF IInv, HandlersType, OthersStay, HandlerOK, AtWebhook
  <2>. QED  BY <1>1, <2>1, <2>3, HandlersStay DEF IInv
<1>2. CASE /\ f \in about[r].file /\ complete' = complete \cup {f}
           /\ want' = [want EXCEPT ![r][videoOf(r)] = "Ready"]
           /\ Goto(r, "saveSource") /\ UNCHANGED <<started, about>>
  <2>. "saveSource" \in Label
    BY DEF Label
  <2>1. DatabaseType' /\ OutsideType' /\ SourceOK' /\ AcceptedProcessed'
    BY <1>0, <1>2 DEF IInv, DatabaseType, OutsideType, SourceOK, AcceptedProcessed, database
  <2>2. /\ want' \in [Request -> Rows]
        /\ \A v \in Video \ {videoOf(r)} : want'[r][v] = "none"
    BY <1>0, <1>2 DEF IInv, HandlersType, Rows, Statuses, Nothing
  <2>3. about'[r].file # {} /\ about'[r].file \subseteq complete'
    BY <1>0, <1>2 DEF IInv, HandlerOK
  <2>4. HandlersType' /\ OthersStay(r)
    BY <1>0, <1>2, <2>2, GotoOK DEF IInv, HandlersType, OthersStay
  <2>5. HandlerOK(r)'
    BY <1>2, <2>2, <2>3, GotoOK DEF IInv, HandlerOK, AtWebhook, videoOf
  <2>. QED  BY <1>2, <2>1, <2>4, <2>5, HandlersStay DEF IInv
<1>. QED  BY <1>1, <1>2 DEF SaveSourceAsync

LEMMA SaveProtectedSourceAsyncKeeps ==
  ASSUME IInv, NEW r \in Request, SaveProtectedSourceAsync(r)
  PROVE  IInv'
<1>. DEFINE v == videoOf(r)
<1>1. /\ Respond(r) /\ status' = Written(r, want[r]) /\ pc[r] = "saveSource"
      /\ provider' = [provider EXCEPT ![v] = "SecureWebRtc"]
      /\ source' = [source EXCEPT ![v] = about[r].file]
      /\ UNCHANGED <<events, receipts, outside>>
  BY DEF SaveProtectedSourceAsync
<1>2. /\ v \in Video /\ want[r] \in Rows /\ about[r].file \in SUBSET File
      /\ about[r].file # {} /\ about[r].file \subseteq complete
      /\ \A w \in Video \ {v} : want[r][w] = "none"
  BY <1>1, SubjectTypes DEF IInv, HandlersType, HandlerOK
<1>3. status' \in Rows /\ \A w \in Video \ {v} : status'[w] = status[w]
  BY <1>1, <1>2, WrittenTypes DEF IInv
<1>4. DatabaseType' /\ OutsideType' /\ AcceptedProcessed'
  BY <1>1, <1>2, <1>3 DEF IInv, DatabaseType, OutsideType, AcceptedProcessed, outside, Rows
<1>5. SourceOK'
  BY <1>1, <1>2, <1>3 DEF IInv, DatabaseType, SourceOK, outside
<1>. QED  BY <1>1, <1>4, <1>5, Ended DEF outside

LEMMA AbortKeeps ==
  ASSUME IInv, NEW r \in Request, Abort(r)
  PROVE  IInv'
BY DatabaseKept, Ended DEF Abort, outside

LEMMA TranscodeKeeps ==
  ASSUME IInv, NEW v \in Video, NEW code \in Codes, Transcode(v, code)
  PROVE  IInv'
<1>1. DatabaseType' /\ OutsideType' /\ SourceOK' /\ AcceptedProcessed'
  BY DEF Transcode, IInv, DatabaseType, OutsideType, SourceOK, AcceptedProcessed, database
<1>2. HandlersType' /\ \A r \in Request : HandlerOK(r)'
  BY DEF Transcode, IInv, HandlersType, HandlerOK, AtWebhook, videoOf, handlers
<1>. QED  BY <1>1, <1>2 DEF IInv

LEMMA PruneKeeps ==
  ASSUME IInv, PruneReceipts  PROVE  IInv'
<1>1. DatabaseType' /\ OutsideType' /\ SourceOK' /\ AcceptedProcessed'
  BY DEF PruneReceipts, IInv, DatabaseType, OutsideType, SourceOK, AcceptedProcessed, outside
<1>2. HandlersType' /\ \A r \in Request : HandlerOK(r)'
  BY DEF PruneReceipts, IInv, HandlersType, HandlerOK, AtWebhook, videoOf, handlers, outside
<1>. QED  BY <1>1, <1>2 DEF IInv

LEMMA NextIInv == IInv /\ [Next]_vars => IInv'
<1>. SUFFICES ASSUME IInv, [Next]_vars  PROVE IInv'
  OBVIOUS
<1>1. ASSUME NEW r \in Request, Webhook(r)  PROVE IInv'
  BY <1>1, PostKeeps, SaveReceiptKeeps, LoadVideoKeeps, LoadEventKeeps, InsertEventKeeps,
     UpdateEventKeeps, SaveStatusKeeps, MarkProcessedKeeps, SaveLastErrorKeeps DEF Webhook
<1>2. ASSUME NEW r \in Request, Creates(r)  PROVE IInv'
  BY <1>2, CreateKeeps, CreateSecureKeeps DEF Creates
<1>3. ASSUME NEW r \in Request, Admin(r)  PROVE IInv'
  BY <1>3, ReadsKeep, InsertRowKeeps, GetVideoAsyncKeeps, SavesKeep, SyncAllKeeps,
     ListVideosAsyncKeeps, LoadAllKeeps, DeleteVideoAsyncKeeps, SaveSourceAsyncKeeps,
     SaveProtectedSourceAsyncKeeps DEF Admin
<1>4. ASSUME NEW r \in Request, Abort(r)  PROVE IInv'
  BY <1>4, AbortKeeps
<1>5. ASSUME NEW v \in Video, NEW code \in Codes, Transcode(v, code)  PROVE IInv'
  BY <1>5, TranscodeKeeps
<1>6. CASE UNCHANGED vars
  <2>1. DatabaseType' /\ OutsideType' /\ SourceOK' /\ AcceptedProcessed'
    BY <1>6, DatabaseKept DEF vars, database, outside
  <2>2. HandlersType' /\ \A r \in Request : HandlerOK(r)'
    BY <1>6 DEF vars, IInv, HandlersType, HandlerOK, AtWebhook, videoOf
  <2>. QED  BY <2>1, <2>2 DEF IInv
<1>7. CASE PruneReceipts
  BY <1>7, PruneKeeps
<1>. QED  BY <1>1, <1>2, <1>3, <1>4, <1>5, <1>6, <1>7 DEF Next

LEMMA InvariantHolds == Spec => []IInv
BY InitIInv, NextIInv, PTL DEF Spec
-----------------------------------------------------------------------------
(* Everyone but the webhook. *)
Others(r) == Creates(r) \/ Admin(r) \/ Abort(r)

LEMMA OutsideStays ==
  ASSUME \/ \E v \in Video, code \in Codes : Transcode(v, code)
         \/ PruneReceipts
         \/ UNCHANGED vars
  PROVE  UNCHANGED <<status, provider, source, events, pc, about, seen, want>>
BY DEF Transcode, PruneReceipts, database, handlers, vars
-----------------------------------------------------------------------------
(* The upload page over the catalogue. *)
USE UploadAssumption

FormType ==
  /\ stage \in [Submission -> {"idle", "creating", "sending", "complete", "failed",
                               "silent"}]
  /\ call \in [Submission -> Request] /\ target \in [Submission -> Video]
  /\ tries \in [Submission -> 0..Retries] /\ received \in [Video -> 0..Chunks]

HandlerStep(r) == Webhook(r) \/ Creates(r) \/ Admin(r) \/ Abort(r)

(* What a step of the page, or while the page is open, is to the catalogue. *)
CatalogStep ==
  \/ UNCHANGED vars
  \/ \E r \in Request : HandlerStep(r)
  \/ \E v \in Video, code \in Codes : (code = Finished => Whole(v)) /\ Transcode(v, code)
  \/ PruneReceipts

(* What Bunny says is finished, and what is about to be called so, is whole. *)
HandlerWhole(r) ==
  /\ AtWebhook(r) => eventOf(r) \in emitted /\ videoOf(r) = EventVideo[eventOf(r)]
  /\ pc[r] \in {"refresh", "loadAll", "saveAll"} =>
       \A v \in Video : want[r][v] = "Ready" => Whole(v)

WholeInv ==
  /\ \A v \in Video : bunny[v] = Finished => Whole(v)
  /\ \A e \in emitted : EventCode[e] = Finished => Whole(EventVideo[e])
  /\ \A r \in Request : HandlerWhole(r)
  /\ ReadyIsWhole

(* The request of a submission is its own, and has got no further than the page
   has heard. *)
SubmissionOK(u) ==
  /\ stage[u] = "creating" =>
       /\ videoOf(call[u]) = target[u]
       /\ IF target[u] \in Local
          THEN pc[call[u]] \in {"copy", "saveSource"} /\ HasRow(target[u])
          ELSE pc[call[u]] = "insertRow"
       /\ \A w \in Submission \ {u} : stage[w] = "creating" => call[w] # call[u]
  /\ stage[u] = "sending" => target[u] \notin Local /\ HasRow(target[u])

PageInv ==
  /\ IInv /\ FormType /\ WholeInv
  /\ \A u \in Submission : SubmissionOK(u)
  /\ CompleteIsWhole

LEMMA UploadTypes == FormType /\ TypeOK <=> UploadTypeOK
BY DEF FormType, UploadTypeOK

LEMMA PageInit == UploadInit => PageInv
<1>. SUFFICES ASSUME UploadInit  PROVE PageInv
  OBVIOUS
<1>1. IInv
  BY InitIInv DEF UploadInit
<1>2. FormType
  BY DEF UploadInit, FormType
<1>3. WholeInv
  BY DEF UploadInit, Init, WholeInv, HandlerWhole, AtWebhook, ReadyIsWhole, Nothing,
         Absent, Finished
<1>4. CompleteIsWhole /\ \A u \in Submission : SubmissionOK(u)
  BY DEF UploadInit, CompleteIsWhole, SubmissionOK
<1>. QED  BY <1>1, <1>2, <1>3, <1>4 DEF PageInv

LEMMA CatalogSteps ==
  ASSUME FormType, [UploadNext]_uploadVars
  PROVE  CatalogStep
<1>1. ASSUME NEW u \in Submission, NEW v \in Video, NEW r \in Request, Submit(u, v, r)
      PROVE  CatalogStep
  BY <1>1 DEF Submit, CatalogStep, HandlerStep, Creates
<1>2. ASSUME NEW u \in Submission, SubmitRefused(u) \/ Sends(u) \/ Leave(u)
      PROVE  CatalogStep
  BY <1>2 DEF SubmitRefused, Sends, SendChunk, ChunkFails, ResumedAtEnd, Leave, CatalogStep
<1>3. ASSUME NEW u \in Submission, Answered(u)  PROVE CatalogStep
  BY <1>3 DEF FormType, Answered, CatalogStep, HandlerStep, Admin
<1>4. CASE Elsewhere
  BY <1>4 DEF Elsewhere, CatalogStep, HandlerStep
<1>5. CASE UNCHANGED uploadVars
  BY <1>5 DEF uploadVars, CatalogStep
<1>. QED  BY <1>1, <1>2, <1>3, <1>4, <1>5 DEF UploadNext

LEMMA CatalogStepNext == CatalogStep => [Next]_vars
BY DEF CatalogStep, HandlerStep, Next

LEMMA EndsTypes ==
  ASSUME FormType, NEW u \in Submission, NEW message \in {"sending", "complete", "failed", "silent"},
         Ends(u, message)
  PROVE  /\ stage' = [stage EXCEPT ![u] = message] /\ UNCHANGED target
         /\ stage' \in [Submission -> {"idle", "creating", "sending", "complete", "failed",
                                       "silent"}]
         /\ call' \in [Submission -> Request] /\ target' \in [Submission -> Video]
         /\ tries' \in [Submission -> 0..Retries]
         /\ \A w \in Submission \ {u} : call'[w] = call[w]
<1>. (CHOOSE r \in Request : TRUE) \in Request
  OBVIOUS
<1>. QED  BY DEF FormType, Ends

(* What a step does to the form. *)
FormStep ==
  /\ FormType'
  /\ \A v \in Video : Whole(v) => Whole(v)'

LEMMA RetryTypes ==
  ASSUME FormType, NEW u \in Submission, Retry(u)
  PROVE  /\ stage' \in [Submission -> {"idle", "creating", "sending", "complete", "failed",
                                       "silent"}]
         /\ call' \in [Submission -> Request] /\ target' \in [Submission -> Video]
         /\ tries' \in [Submission -> 0..Retries]
         /\ UNCHANGED target /\ stage'[u] \in {stage[u], "failed"}
         /\ \A w \in Submission \ {u} : stage'[w] = stage[w] /\ call'[w] = call[w]
<1>1. CASE Ends(u, "failed")
  BY <1>1, EndsTypes DEF FormType
<1>2. CASE /\ tries[u] # Retries /\ tries' = [tries EXCEPT ![u] = @ + 1]
           /\ UNCHANGED <<stage, call, target>>
  BY <1>2 DEF FormType
<1>. QED  BY <1>1, <1>2 DEF Retry

LEMMA FormSteps ==
  ASSUME FormType, [UploadNext]_uploadVars
  PROVE  FormStep
<1>1. ASSUME NEW u \in Submission, NEW v \in Video, NEW r \in Request, Submit(u, v, r)
      PROVE  FormStep
  BY <1>1 DEF Submit, FormType, FormStep, Whole
<1>2. ASSUME NEW u \in Submission,
             NEW message \in {"sending", "complete", "failed", "silent"}, Ends(u, message),
             UNCHANGED received
      PROVE  FormStep
  BY <1>2, EndsTypes DEF FormType, FormStep, Whole
<1>3. ASSUME NEW u \in Submission, SubmitRefused(u) \/ Leave(u) \/ ResumedAtEnd(u)
      PROVE  FormStep
  BY <1>2, <1>3 DEF SubmitRefused, Leave, ResumedAtEnd
<1>4. ASSUME NEW u \in Submission, Answered(u)  PROVE FormStep
  BY <1>2, <1>4 DEF Answered, AfterCreate
<1>5. ASSUME NEW u \in Submission, ChunkFails(u)  PROVE FormStep
  BY <1>5, RetryTypes DEF ChunkFails, FormType, FormStep, Whole
<1>6. ASSUME NEW u \in Submission, SendChunk(u)  PROVE FormStep
  <2>1. /\ received' \in [Video -> 0..Chunks]
        /\ \A v \in Video : Whole(v) => Whole(v)'
    BY <1>6 DEF SendChunk, FormType, Whole
  <2>2. CASE Retry(u)
    BY <2>1, <2>2, RetryTypes DEF FormType, FormStep
  <2>3. CASE Ends(u, "complete")
    BY <2>1, <2>3, EndsTypes DEF FormType, FormStep
  <2>4. CASE tries' = [tries EXCEPT ![u] = 0] /\ UNCHANGED <<stage, call, target>>
    BY <2>1, <2>4 DEF FormType, FormStep
  <2>. QED  BY <1>6, <2>2, <2>3, <2>4 DEF SendChunk
<1>7. CASE Elsewhere \/ UNCHANGED uploadVars
  BY <1>7 DEF Elsewhere, form, uploadVars, FormType, FormStep, Whole
<1>. QED  BY <1>1, <1>3, <1>4, <1>5, <1>6, <1>7 DEF UploadNext, Sends

(* A handler's step leaves the other handlers where they are, no row goes, and
   a source is replaced but never removed. *)
LEMMA StepStays ==
  ASSUME HandlersType, NEW r \in Request, HandlerStep(r)
  PROVE  OthersStay(r)
<1>. DEFINE Stays == OthersStay(r)
<1>. USE DEF HandlersType, OthersStay
<1>1. Respond(r) => Stays
  BY DEF Respond
<1>2. ASSUME NEW o, NEW label, NEW subject, NEW loaded, NEW intent,
             Begin(r, o, label, subject, loaded, intent)
      PROVE  Stays
  BY <1>2 DEF Begin
<1>3. ASSUME NEW label, Goto(r, label),
             \A q \in Request \ {r} : /\ about'[q] = about[q] /\ want'[q] = want[q]
                                      /\ seen'[q] = seen[q]
      PROVE  Stays
  BY <1>3 DEF Goto
<1>. HIDE DEF Stays, HandlersType, OthersStay
<1>4. ASSUME NEW e \in Event, NEW b \in Body, Post(r, e, b)  PROVE Stays
  BY <1>2, <1>4 DEF Post
<1>5. ASSUME SaveReceipt(r) \/ LoadVideo(r) \/ LoadEvent(r) \/ InsertEvent(r)
             \/ UpdateEvent(r)
      PROVE  Stays
  BY <1>1, <1>3, <1>5 DEF SaveReceipt, LoadVideo, LoadEvent, InsertEvent, UpdateEvent,
     Accept, HandlersType
<1>6. ASSUME SaveStatus(r) \/ MarkProcessed(r) \/ SaveLastError(r)  PROVE Stays
  BY <1>1, <1>3, <1>6 DEF SaveStatus, MarkProcessed, SaveLastError, Accept
<1>7. ASSUME NEW v \in Video,
             \/ Create(r, v) \/ CreateSecure(r, v) \/ Get(r, v) \/ SyncOne(r, v)
             \/ Delete(r, v) \/ UploadProtectedSource(r, v)
      PROVE  Stays
  BY <1>2, <1>7 DEF Create, CreateSecure, Get, SyncOne, Delete, UploadProtectedSource
<1>8. ASSUME SyncAll(r)  PROVE Stays
  BY <1>2, <1>8 DEF SyncAll
<1>9. ASSUME GetVideoAsync(r) \/ ListVideosAsync(r) \/ LoadAll(r) \/ DeleteVideoAsync(r)
      PROVE  Stays
  BY <1>3, <1>9 DEF GetVideoAsync, ListVideosAsync, LoadAll, DeleteVideoAsync, HandlersType
<1>10. ASSUME \/ InsertRow(r) \/ SaveRefresh(r) \/ SaveAll(r) \/ SaveDeleted(r)
              \/ SaveProtectedSourceAsync(r) \/ Abort(r)
       PROVE  Stays
  BY <1>1, <1>10 DEF InsertRow, SaveRefresh, SaveAll, SaveDeleted,
     SaveProtectedSourceAsync, Abort
<1>11. ASSUME NEW f \in File, SaveSourceAsync(r, f)  PROVE Stays
  BY <1>11 DEF SaveSourceAsync, Stays, OthersStay, HandlersType, Goto
<1>12. Stays
  BY <1>4, <1>5, <1>6, <1>7, <1>8, <1>9, <1>10, <1>11, <1>1
     DEF HandlerStep, Webhook, Creates, Admin, Abort
<1>. QED  BY <1>12 DEF Stays

LEMMA RowsStay ==
  ASSUME IInv, [Next]_vars, NEW v \in Video
  PROVE  /\ HasRow(v) => HasRow(v)'
         /\ source[v] # {} => source'[v] # {}
<1>. DEFINE Kept == (HasRow(v) => HasRow(v)') /\ (source[v] # {} => source'[v] # {})
<1>. HIDE DEF Kept
<1>1. ASSUME NEW r \in Request, NEW new, status' = Written(r, new), UNCHANGED source
      PROVE  Kept
  BY <1>1 DEF Kept, Written, HasRow
<1>2. ASSUME UNCHANGED <<status, source>>  PROVE Kept
  BY <1>2 DEF Kept, HasRow
<1>3. ASSUME NEW r \in Request, Webhook(r)  PROVE Kept
  BY <1>1, <1>2, <1>3 DEF Webhook, Post, SaveReceipt, LoadVideo, LoadEvent, InsertEvent,
     UpdateEvent, SaveStatus, MarkProcessed, SaveLastError, database
<1>4. ASSUME NEW r \in Request, Creates(r)  PROVE Kept
  BY <1>2, <1>4 DEF Creates, Create, CreateSecure, database, Kept, HasRow, IInv, DatabaseType
<1>5. ASSUME NEW r \in Request, SaveProtectedSourceAsync(r)  PROVE Kept
  <2>. about[r].file # {} /\ status' = Written(r, want[r])
    BY <1>5 DEF SaveProtectedSourceAsync, IInv, HandlerOK
  <2>. QED  BY <1>5 DEF SaveProtectedSourceAsync, Kept, HasRow, Written, IInv, DatabaseType
<1>6. ASSUME NEW r \in Request, InsertRow(r)  PROVE Kept
  BY <1>6 DEF InsertRow, Kept, HasRow, IInv, DatabaseType
<1>7. ASSUME NEW r \in Request, Admin(r)  PROVE Kept
  BY <1>1, <1>2, <1>5, <1>6, <1>7 DEF Admin, Get, SyncOne, Delete, UploadProtectedSource,
     GetVideoAsync, SaveRefresh, SyncAll, ListVideosAsync, LoadAll, SaveAll,
     DeleteVideoAsync, SaveDeleted, SaveSourceAsync, database
<1>8. Kept
  BY <1>2, <1>3, <1>4, <1>7, OutsideStays DEF Next, Abort, database
<1>. QED  BY <1>8 DEF Kept

(* What a handler's step may claim. *)
ClaimsWhole ==
  /\ \A v \in Video : bunny'[v] = Finished => bunny[v] = Finished
  /\ UNCHANGED emitted
  /\ \A v \in Video : status'[v] = "Ready" /\ provider'[v] = "BunnyStream" =>
       provider[v] = "BunnyStream" /\ (status[v] = "Ready" \/ Whole(v))

LEMMA WholeKept ==
  ASSUME IInv, WholeInv, ClaimsWhole, NEW r \in Request, OthersStay(r), HandlerWhole(r)',
         \A v \in Video : Whole(v) => Whole(v)'
  PROVE  WholeInv'
<1>1. ASSUME NEW q \in Request, q # r  PROVE HandlerWhole(q)'
  <2>. /\ pc'[q] = pc[q] /\ about'[q] = about[q] /\ want'[q] = want[q] /\ HandlerWhole(q)
       /\ emitted' = emitted
    BY <1>1 DEF OthersStay, WholeInv, ClaimsWhole
  <2>. QED  BY DEF HandlerWhole, AtWebhook, eventOf, videoOf
<1>2. ReadyIsWhole'
  BY DEF WholeInv, ReadyIsWhole, ClaimsWhole
<1>3. /\ \A v \in Video : bunny'[v] = Finished => Whole(v)'
      /\ \A e \in emitted' : EventCode[e] = Finished => Whole(EventVideo[e])'
  BY DEF WholeInv, ClaimsWhole, IInv, OutsideType
<1>. QED  BY <1>1, <1>2, <1>3 DEF WholeInv

LEMMA ReadyCodes ==
  ASSUME NEW code \in Int
  PROVE  (MapStatus(code) = "Ready" \/ MapBunnyStatus(code) = "Ready") => code = Finished
BY DEF MapStatus, MapBunnyStatus, Finished

LEMMA WebhookClaims ==
  ASSUME IInv, WholeInv, NEW r \in Request, Webhook(r),
         \A v \in Video : Whole(v) => Whole(v)'
  PROVE  ClaimsWhole /\ HandlerWhole(r)'
<1>0. /\ videoOf(r) \in Video /\ eventOf(r) \in Event /\ HandlersType /\ HandlerWhole(r)
      /\ UNCHANGED <<provider, bunny, emitted>>
  BY SubjectTypes DEF IInv, WholeInv, Webhook, Post, SaveReceipt, LoadVideo, LoadEvent,
     InsertEvent, UpdateEvent, SaveStatus, MarkProcessed, SaveLastError, database, outside
<1>1. ASSUME AtWebhook(r), NEW label \in Label, Goto(r, label), UNCHANGED about,
             label \notin {"refresh", "loadAll", "saveAll"}
      PROVE  HandlerWhole(r)'
  <2>. pc'[r] = label
    BY <1>0, <1>1, GotoOK
  <2>. QED  BY <1>0, <1>1 DEF HandlerWhole, eventOf, videoOf
<1>2. ASSUME Respond(r)  PROVE HandlerWhole(r)'
  BY <1>0, <1>2 DEF HandlerWhole, AtWebhook, Respond, HandlersType
<1>3. ASSUME NEW e \in Event, NEW b \in Body, Post(r, e, b)  PROVE HandlerWhole(r)'
  <2>. AboutVideo(EventVideo[e]) \in Subject /\ AboutVideo(EventVideo[e]).video = EventVideo[e]
    BY AboutTypes
  <2>. QED  BY <1>0, <1>3 DEF Post, Begin, HandlersType, Subject, HandlerWhole, videoOf, eventOf
<1>4. {"loadVideo", "loadEvent", "insertEvent", "updateEvent", "apply", "mark"} \subseteq Label
  BY DEF Label
<1>5. HandlerWhole(r)'
  <2>1. CASE SaveReceipt(r) \/ LoadVideo(r) \/ LoadEvent(r)
    BY <1>1, <1>2, <1>4, <2>1 DEF SaveReceipt, LoadVideo, LoadEvent, Accept, AtWebhook
  <2>2. CASE InsertEvent(r) \/ UpdateEvent(r) \/ SaveStatus(r)
    BY <1>1, <1>2, <1>4, <2>2 DEF InsertEvent, UpdateEvent, SaveStatus, Accept, AtWebhook
  <2>3. CASE MarkProcessed(r) \/ SaveLastError(r)
    BY <1>2, <2>3 DEF MarkProcessed, SaveLastError, Accept
  <2>. QED  BY <1>3, <2>1, <2>2, <2>3 DEF Webhook
<1>6. ASSUME UNCHANGED status  PROVE ClaimsWhole
  BY <1>0, <1>6 DEF ClaimsWhole
<1>7. ASSUME pc[r] = "apply", status' = Written(r, NewStatus(r))  PROVE ClaimsWhole
  <2>1. \A v \in Video : status'[v] = "Ready" => status[v] = "Ready" \/ NewStatus(r)[v] = "Ready"
    BY <1>0, <1>7, NewStatusTypes, WrittenTypes DEF IInv
  <2>2. ASSUME NEW v \in Video, NewStatus(r)[v] = "Ready"  PROVE Whole(v)
    <3>1. v = videoOf(r) /\ MapStatus(EventCode[eventOf(r)]) = "Ready"
      BY <1>0, <2>2 DEF NewStatus, Nothing
    <3>2. EventCode[eventOf(r)] = Finished
      BY <1>0, <3>1, ReadyCodes DEF NoCode
    <3>. QED  BY <1>0, <1>7, <3>1, <3>2 DEF HandlerWhole, AtWebhook, WholeInv
  <2>. QED  BY <1>0, <2>1, <2>2 DEF ClaimsWhole
<1>8. ClaimsWhole
  BY <1>6, <1>7 DEF Webhook, Post, SaveReceipt, LoadVideo, LoadEvent, InsertEvent,
     UpdateEvent, SaveStatus, MarkProcessed, SaveLastError, database
<1>. QED  BY <1>5, <1>8

LEMMA AdminClaims ==
  ASSUME IInv, WholeInv, NEW r \in Request, Others(r),
         \A v \in Video : Whole(v) => Whole(v)'
  PROVE  ClaimsWhole /\ HandlerWhole(r)'
<1>. DEFINE Result == ClaimsWhole /\ HandlerWhole(r)'
<1>0. /\ HandlersType /\ HandlerOK(r) /\ HandlerWhole(r) /\ videoOf(r) \in Video
      /\ status \in Rows /\ provider \in [Video -> {"BunnyStream", "SecureWebRtc"}]
      /\ bunny \in [Video -> Codes \cup {0, Absent}] /\ want[r] \in Rows
  <2>1. HandlersType /\ videoOf(r) \in Video /\ HandlerOK(r) /\ HandlerWhole(r)
    BY SubjectTypes DEF IInv, WholeInv
  <2>2. want[r] \in Rows
    BY <2>1 DEF HandlersType
  <2>. QED  BY <2>1, <2>2 DEF IInv, DatabaseType, OutsideType, Rows
<1>. \A v \in Video : bunny[v] \in Int
  <2>. ASSUME NEW v \in Video  PROVE bunny[v] \in Codes \cup {0, Absent}
    BY <1>0
  <2>. Codes \cup {0, Absent} \subseteq Int
    BY DEF Absent
  <2>. QED  OBVIOUS
<1>1. ASSUME pc'[r] \notin {"refresh", "loadAll", "saveAll"}, ~ AtWebhook(r)'
      PROVE  HandlerWhole(r)'
  BY <1>1 DEF HandlerWhole
<1>2. ASSUME UNCHANGED <<status, provider, bunny, emitted>>  PROVE ClaimsWhole
  BY <1>2 DEF ClaimsWhole
<1>3. ASSUME Respond(r)  PROVE HandlerWhole(r)'
  BY <1>0, <1>1, <1>3 DEF Respond, HandlersType, AtWebhook
<1>4. ASSUME NEW o, NEW label \in {"insertRow", "copy", "deleteAtBunny", "saveDeleted",
                                   "fetch", "list"},
             NEW subject, NEW loaded, NEW intent, Begin(r, o, label, subject, loaded, intent)
      PROVE  HandlerWhole(r)'
  BY <1>0, <1>1, <1>4 DEF Begin, HandlersType, AtWebhook
<1>. HIDE DEF Result
<1>5. ASSUME NEW v \in Video, Create(r, v)  PROVE Result
  <2>1. HandlerWhole(r)'
    BY <1>4, <1>5 DEF Create
  <2>2. ClaimsWhole
    BY <1>0, <1>5 DEF Create, ClaimsWhole, Finished, database
  <2>. QED  BY <2>1, <2>2 DEF Result
<1>6. ASSUME NEW v \in Video, CreateSecure(r, v)  PROVE Result
  <2>1. HandlerWhole(r)'
    BY <1>4, <1>6 DEF CreateSecure
  <2>2. ClaimsWhole
    BY <1>0, <1>6 DEF CreateSecure, ClaimsWhole, outside, Rows
  <2>. QED  BY <2>1, <2>2 DEF Result
<1>7. ASSUME NEW v \in Video,
             Get(r, v) \/ SyncOne(r, v) \/ Delete(r, v) \/ UploadProtectedSource(r, v)
      PROVE  Result
  <2>1. HandlerWhole(r)'
    BY <1>4, <1>7 DEF Get, SyncOne, Delete, UploadProtectedSource
  <2>. QED  BY <1>2, <1>7, <2>1 DEF Result, Get, SyncOne, Delete, UploadProtectedSource,
                                    database, outside
<1>8. ASSUME SyncAll(r)  PROVE Result
  BY <1>2, <1>4, <1>8 DEF Result, SyncAll, database, outside
<1>9. ASSUME InsertRow(r)  PROVE Result
  <2>1. \A v \in Video : status'[v] = "Ready" => status[v] = "Ready"
    BY <1>0, <1>9 DEF InsertRow, Rows
  <2>. QED  BY <1>3, <1>9, <2>1 DEF Result, InsertRow, ClaimsWhole, outside
<1>10. ASSUME GetVideoAsync(r)  PROVE Result
  <2>1. /\ pc[r] = "fetch" /\ "refresh" \in Label /\ Goto(r, "refresh")
        /\ want' = [want EXCEPT ![r][videoOf(r)] = MapBunnyStatus(bunny[videoOf(r)])]
        /\ UNCHANGED <<database, outside>>
    BY <1>10 DEF GetVideoAsync, Label
  <2>2. pc'[r] = "refresh" /\ want[r] = Nothing
    BY <1>0, <2>1, GotoOK DEF HandlerOK
  <2>3. ASSUME NEW v \in Video, want'[r][v] = "Ready"  PROVE Whole(v)
    <3>1. v = videoOf(r) /\ MapBunnyStatus(bunny[v]) = "Ready"
      BY <1>0, <2>1, <2>2, <2>3 DEF HandlersType, Nothing, Rows
    <3>2. bunny[v] = Finished
      BY <1>0, <3>1, ReadyCodes
    <3>. QED  BY <3>2 DEF WholeInv
  <2>4. HandlerWhole(r)'
    BY <2>2, <2>3 DEF HandlerWhole, AtWebhook
  <2>. QED  BY <1>2, <2>1, <2>4 DEF Result, database, outside
<1>11. ASSUME ListVideosAsync(r)  PROVE Result
  <2>1. /\ "loadAll" \in Label /\ Goto(r, "loadAll")
        /\ \A v \in Video : want'[r][v] = IF bunny[v] = Absent THEN "none"
                                          ELSE MapBunnyStatus(bunny[v])
        /\ UNCHANGED <<database, outside>>
    BY <1>0, <1>11 DEF ListVideosAsync, Label, HandlersType
  <2>2. pc'[r] = "loadAll"
    BY <1>0, <2>1, GotoOK
  <2>3. ASSUME NEW v \in Video, want'[r][v] = "Ready"  PROVE Whole(v)
    <3>1. MapBunnyStatus(bunny[v]) = "Ready"
      BY <2>1, <2>3
    <3>2. bunny[v] = Finished
      BY <1>0, <3>1, ReadyCodes
    <3>. QED  BY <3>2 DEF WholeInv
  <2>4. HandlerWhole(r)'
    BY <2>2, <2>3 DEF HandlerWhole, AtWebhook
  <2>. QED  BY <1>2, <2>1, <2>4 DEF Result, database, outside
<1>12. ASSUME LoadAll(r)  PROVE Result
  <2>1. pc[r] = "loadAll" /\ pc'[r] = "saveAll" /\ UNCHANGED <<database, outside, want>>
    BY <1>0, <1>12 DEF LoadAll, Goto, HandlersType
  <2>2. HandlerWhole(r)'
    BY <1>0, <2>1 DEF HandlerWhole, AtWebhook
  <2>. QED  BY <1>2, <2>1, <2>2 DEF Result, database, outside
<1>13. ASSUME SaveRefresh(r) \/ SaveAll(r) \/ SaveDeleted(r)  PROVE Result
  <2>1. /\ Respond(r) /\ UNCHANGED <<provider, outside>>
        /\ status' = status \/ status' = Written(r, want[r])
        /\ pc[r] \in {"refresh", "saveAll", "saveDeleted"}
    BY <1>13 DEF SaveRefresh, SaveAll, SaveDeleted
  <2>2. \A v \in Video : want[r][v] = "Ready" => Whole(v)
    BY <1>0, <2>1 DEF HandlerOK, HandlerWhole
  <2>3. \A v \in Video : status'[v] = "Ready" => status[v] = "Ready" \/ Whole(v)
    BY <1>0, <2>1, <2>2, WrittenTypes DEF IInv
  <2>. QED  BY <1>3, <2>1, <2>3 DEF Result, ClaimsWhole, outside
<1>14. ASSUME DeleteVideoAsync(r)  PROVE Result
  <2>1. pc'[r] = "saveDeleted"
    BY <1>0, <1>14 DEF DeleteVideoAsync, Goto, HandlersType
  <2>2. ClaimsWhole
    BY <1>0, <1>14 DEF DeleteVideoAsync, ClaimsWhole, database, Absent, Finished
  <2>. QED  BY <1>1, <2>1, <2>2 DEF Result, AtWebhook
<1>15. ASSUME NEW f \in File, SaveSourceAsync(r, f)  PROVE Result
  <2>1. pc'[r] \in {"copy", "saveSource"}
    BY <1>0, <1>15 DEF SaveSourceAsync, Goto, HandlersType
  <2>. QED  BY <1>1, <1>2, <1>15, <2>1 DEF Result, AtWebhook, SaveSourceAsync, database
<1>16. ASSUME SaveProtectedSourceAsync(r)  PROVE Result
  <2>1. /\ \A v \in Video \ {videoOf(r)} : status'[v] = status[v] /\ provider'[v] = provider[v]
        /\ provider'[videoOf(r)] = "SecureWebRtc"
    BY <1>0, <1>16 DEF SaveProtectedSourceAsync, HandlerOK, Written
  <2>. QED  BY <1>3, <1>16, <2>1 DEF Result, SaveProtectedSourceAsync, ClaimsWhole, outside
<1>17. ASSUME Abort(r)  PROVE Result
  BY <1>2, <1>3, <1>17 DEF Result, Abort, database, outside
<1>18. Result
  BY <1>5, <1>6, <1>7, <1>8, <1>9, <1>10, <1>11, <1>12, <1>13, <1>14, <1>15, <1>16, <1>17
     DEF Others, Creates, Admin
<1>. QED  BY <1>18 DEF Result

LEMMA WholeNext ==
  ASSUME IInv, WholeInv, CatalogStep, \A v \in Video : Whole(v) => Whole(v)'
  PROVE  WholeInv'
<1>1. ASSUME NEW r \in Request, HandlerStep(r)  PROVE WholeInv'
  <2>1. OthersStay(r)
    BY <1>1, StepStays DEF IInv
  <2>2. ClaimsWhole /\ HandlerWhole(r)'
    BY <1>1, WebhookClaims, AdminClaims DEF HandlerStep, Others
  <2>. QED  BY <2>1, <2>2, WholeKept
<1>2. ASSUME UNCHANGED <<status, provider, pc, about, want>>,
             \A v \in Video : bunny'[v] = Finished => bunny[v] = Finished \/ Whole(v),
             emitted \subseteq emitted', emitted' \subseteq Event,
             \A e \in emitted' \ emitted : EventCode[e] = Finished => Whole(EventVideo[e])
      PROVE  WholeInv'
  <2>1. \A r \in Request : HandlerWhole(r)'
    BY <1>2 DEF WholeInv, HandlerWhole, AtWebhook, eventOf, videoOf
  <2>2. \A e \in emitted' : EventCode[e] = Finished => Whole(EventVideo[e])'
    BY <1>2 DEF WholeInv
  <2>. QED  BY <1>2, <2>1, <2>2 DEF WholeInv, ReadyIsWhole
<1>3. ASSUME NEW v \in Video, NEW code \in Codes, code = Finished => Whole(v),
             Transcode(v, code)
      PROVE  WholeInv'
  <2>1. /\ UNCHANGED <<status, provider, pc, about, want>>
        /\ \A w \in Video : bunny'[w] = Finished => bunny[w] = Finished \/ Whole(w)
    BY <1>3 DEF Transcode, database, handlers, IInv, OutsideType
  <2>2. /\ emitted \subseteq emitted' /\ emitted' \subseteq Event
        /\ \A e \in emitted' \ emitted : EventVideo[e] = v /\ EventCode[e] \in {code, NoCode}
    BY <1>3 DEF Transcode, IInv, OutsideType
  <2>3. Finished # NoCode
    BY DEF Finished, NoCode
  <2>. QED  BY <1>2, <1>3, <2>1, <2>2, <2>3
<1>4. CASE PruneReceipts \/ UNCHANGED vars
  BY <1>2, <1>4 DEF PruneReceipts, outside, handlers, vars, IInv, OutsideType
<1>. QED  BY <1>1, <1>3, <1>4 DEF CatalogStep

(* What a submission has been told stays so. *)
CompleteOK(u) ==
  stage[u] = "complete" =>
    /\ HasRow(target[u])
    /\ IF target[u] \in Local
       THEN source[target[u]] # {} /\ source[target[u]] \subseteq complete
       ELSE Whole(target[u])

(* A submission that the step is not about. *)
LEMMA SubmissionKept ==
  ASSUME PageInv, IInv', CatalogStep, FormStep, NEW u \in Submission,
         stage'[u] = stage[u], call'[u] = call[u], target'[u] = target[u],
         stage[u] = "creating" =>
           /\ about'[call[u]].video = about[call[u]].video
           /\ \/ pc'[call[u]] = pc[call[u]]
              \/ {pc[call[u]], pc'[call[u]]} \subseteq {"copy", "saveSource"}
           /\ \A w \in Submission \ {u} : stage'[w] = "creating" => call'[w] # call[u]
  PROVE  SubmissionOK(u)' /\ CompleteOK(u)'
<1>1. SubmissionOK(u) /\ CompleteOK(u) /\ target[u] \in Video
  BY DEF PageInv, CompleteIsWhole, CompleteOK, FormType
<1>2. /\ HasRow(target[u]) => HasRow(target[u])'
      /\ source[target[u]] # {} => source'[target[u]] # {}
      /\ source'[target[u]] \subseteq complete'
      /\ Whole(target[u]) => Whole(target[u])'
  <2>1. /\ HasRow(target[u]) => HasRow(target[u])'
        /\ source[target[u]] # {} => source'[target[u]] # {}
    <3>. \A v \in Video : /\ HasRow(v) => HasRow(v)'
                          /\ source[v] # {} => source'[v] # {}
      BY CatalogStepNext, RowsStay DEF PageInv
    <3>. QED  BY <1>1 DEF HasRow
  <2>2. source'[target[u]] \subseteq complete'
    BY <1>1 DEF IInv, SourceOK
  <2>3. Whole(target[u]) => Whole(target[u])'
    BY <1>1 DEF FormStep, Whole
  <2>. QED  BY <2>1, <2>2, <2>3
<1>3. SubmissionOK(u)'
  BY <1>1, <1>2 DEF SubmissionOK, videoOf, HasRow
<1>4. CompleteOK(u)'
  BY <1>1, <1>2 DEF CompleteOK, HasRow, Whole
<1>. QED  BY <1>3, <1>4

(* Two submissions that wait have requests of their own. *)
LEMMA CallsApart ==
  ASSUME PageInv, NEW u \in Submission, stage[u] = "creating"
  PROVE  /\ call[u] \in Request /\ pc[call[u]] # "idle"
         /\ \A w \in Submission \ {u} : stage[w] = "creating" => call[w] # call[u]
BY DEF PageInv, FormType, SubmissionOK

(* Submission u ends, or waits no longer; its request was no other's. *)
LEMMA OneMoves ==
  ASSUME PageInv, IInv', WholeInv', CatalogStep, FormStep, NEW u \in Submission,
         stage'[u] # "creating", UNCHANGED target,
         \A w \in Submission \ {u} :
           /\ stage'[w] = stage[w] /\ call'[w] = call[w]
           /\ stage[w] = "creating" =>
                pc'[call[w]] = pc[call[w]] /\ about'[call[w]] = about[call[w]],
         SubmissionOK(u)', CompleteOK(u)'
  PROVE  PageInv'
<1>1. ASSUME NEW w \in Submission, w # u  PROVE SubmissionOK(w)' /\ CompleteOK(w)'
  <2>1. stage'[w] = stage[w] /\ call'[w] = call[w] /\ target'[w] = target[w]
    BY <1>1
  <2>2. ASSUME stage[w] = "creating", NEW x \in Submission \ {w}, stage'[x] = "creating"
        PROVE  call'[x] # call[w]
    BY <1>1, <2>2, CallsApart
  <2>. QED  BY <1>1, <2>1, <2>2, SubmissionKept
<1>. QED  BY <1>1 DEF PageInv, FormStep, CompleteIsWhole, CompleteOK

LEMMA SubmitKeeps ==
  ASSUME PageInv, IInv', WholeInv', CatalogStep, FormStep,
         NEW u \in Submission, NEW v \in Video, NEW r \in Request, Submit(u, v, r)
  PROVE  PageInv'
<1>1. /\ stage' = [stage EXCEPT ![u] = "creating"] /\ call' = [call EXCEPT ![u] = r]
      /\ target' = [target EXCEPT ![u] = v] /\ pc[r] = "idle"
  BY DEF Submit, Create, CreateSecure, Begin
<1>2. /\ stage'[u] = "creating" /\ call'[u] = r /\ target'[u] = v
      /\ \A w \in Submission \ {u} : stage'[w] = stage[w] /\ call'[w] = call[w]
                                     /\ target'[w] = target[w]
  BY <1>1 DEF PageInv, FormType
<1>3. /\ videoOf(r)' = v
      /\ IF v \in Local THEN pc'[r] = "copy" /\ status'[v] # "none" ELSE pc'[r] = "insertRow"
  <2>1. AboutVideo(v).video = v
    BY AboutTypes
  <2>2. CASE Create(r, v)
    BY <2>1, <2>2 DEF Create, Begin, videoOf, PageInv, IInv, HandlersType
  <2>3. CASE CreateSecure(r, v)
    BY <2>1, <2>3 DEF CreateSecure, Begin, videoOf, PageInv, IInv, HandlersType, DatabaseType
  <2>. QED  BY <2>2, <2>3 DEF Submit
<1>4. OthersStay(r)
  BY StepStays DEF Submit, HandlerStep, Creates, PageInv, IInv
<1>5. \A w \in Submission \ {u} : stage[w] = "creating" => call[w] \in Request \ {r}
  BY <1>1, CallsApart
<1>6. SubmissionOK(u)' /\ CompleteOK(u)'
  BY <1>2, <1>3, <1>5 DEF SubmissionOK, CompleteOK, videoOf, HasRow
<1>7. ASSUME NEW w \in Submission, w # u  PROVE SubmissionOK(w)' /\ CompleteOK(w)'
  <2>1. ASSUME stage[w] = "creating"
        PROVE  /\ about'[call[w]].video = about[call[w]].video /\ pc'[call[w]] = pc[call[w]]
               /\ \A x \in Submission \ {w} : stage'[x] = "creating" => call'[x] # call[w]
    BY <1>2, <1>4, <1>5, <1>7, <2>1, CallsApart DEF OthersStay
  <2>. QED  BY <1>2, <1>7, <2>1, SubmissionKept
<1>. QED  BY <1>6, <1>7 DEF PageInv, FormStep, CompleteIsWhole, CompleteOK

LEMMA AnsweredKeeps ==
  ASSUME PageInv, IInv', WholeInv', CatalogStep, FormStep, NEW u \in Submission, Answered(u)
  PROVE  PageInv'
<1>. DEFINE r == call[u]
            v == target[u]
<1>1. /\ stage[u] = "creating" /\ r \in Request /\ v \in Video /\ videoOf(r) = v
      /\ FormType /\ IInv /\ SubmissionOK(u)
  BY DEF Answered, PageInv, FormType, SubmissionOK
<1>2. PICK message \in {"sending", "complete", "failed", "silent"} : Ends(u, message)
  BY DEF Answered, AfterCreate
<1>3. /\ stage'[u] = message /\ UNCHANGED target
      /\ \A w \in Submission \ {u} : stage'[w] = stage[w] /\ call'[w] = call[w]
  BY <1>1, <1>2, EndsTypes DEF FormType
<1>4. OthersStay(r)
  BY <1>1, StepStays DEF Answered, HandlerStep, Admin, IInv
<1>5. ASSUME NEW w \in Submission \ {u}, stage[w] = "creating"
      PROVE  pc'[call[w]] = pc[call[w]] /\ about'[call[w]] = about[call[w]]
  <2>. call[w] \in Request \ {r}
    BY <1>1, <1>5, CallsApart
  <2>. QED  BY <1>4 DEF OthersStay
<1>6. SubmissionOK(u)' /\ CompleteOK(u)'
  <2>1. CASE message \in {"failed", "silent"}
    BY <1>3, <2>1 DEF SubmissionOK, CompleteOK
  <2>2. CASE message \in {"sending", "complete"}
    <3>0. \/ SaveProtectedSourceAsync(r) /\ AfterCreate(u, TRUE)
          \/ InsertRow(r) /\ AfterCreate(u, ~ HasRow(v))
      <4>1. ~ Ends(u, "silent") /\ ~ Ends(u, "failed")
        BY <1>1, <1>3, <2>2 DEF Ends, FormType
      <4>. QED  BY <4>1 DEF Answered, AfterCreate
    <3>1. CASE SaveProtectedSourceAsync(r) /\ AfterCreate(u, TRUE)
      <4>1. v \in Local
        BY <1>1, <3>1 DEF SaveProtectedSourceAsync, SubmissionOK
      <4>2. message = "complete"
        BY <1>1, <1>3, <3>1, <4>1 DEF AfterCreate, Ends, FormType
      <4>3. /\ source'[v] # {} /\ source'[v] \subseteq complete' /\ status'[v] # "none"
        <5>1. source'[v] = about[r].file /\ about[r].file # {}
          BY <1>1, <3>1 DEF SaveProtectedSourceAsync, IInv, HandlerOK, DatabaseType
        <5>2. status'[v] # "none"
          <6>1. HasRow(v)
            BY <1>1, <4>1 DEF SubmissionOK
          <6>. QED  BY <1>1, <6>1, CatalogStepNext, RowsStay DEF HasRow
        <5>. QED  BY <1>1, <5>1, <5>2 DEF IInv, SourceOK
      <4>. QED  BY <1>3, <4>1, <4>2, <4>3 DEF SubmissionOK, CompleteOK, HasRow
    <3>2. CASE InsertRow(r) /\ AfterCreate(u, ~ HasRow(v))
      <4>1. v \notin Local
        BY <1>1, <3>2 DEF InsertRow, SubmissionOK
      <4>2. message = "sending" /\ ~ HasRow(v)
        BY <1>1, <1>3, <2>2, <3>2, <4>1 DEF AfterCreate, Ends, FormType
      <4>3. status'[v] = "Uploading"
        BY <1>1, <3>2, <4>2 DEF InsertRow, IInv, DatabaseType
      <4>. QED  BY <1>3, <4>1, <4>2, <4>3 DEF SubmissionOK, CompleteOK, HasRow
    <3>. QED  BY <3>0, <3>1, <3>2
  <2>. QED  BY <2>1, <2>2
<1>. QED  BY <1>3, <1>5, <1>6, OneMoves

LEMMA FormAloneKeeps ==
  ASSUME PageInv, IInv', WholeInv', CatalogStep, FormStep, NEW u \in Submission,
         SubmitRefused(u) \/ Sends(u) \/ Leave(u)
  PROVE  PageInv'
<1>1. UNCHANGED vars /\ FormType /\ stage[u] \in {"idle", "creating", "sending"}
  BY DEF SubmitRefused, Sends, SendChunk, ChunkFails, ResumedAtEnd, Leave, PageInv
<1>2. UNCHANGED <<pc, about, status>>
  BY <1>1 DEF vars
<1>3. ASSUME NEW message \in {"failed", "silent"}, Ends(u, message)  PROVE PageInv'
  <2>1. /\ stage'[u] = message /\ UNCHANGED target
        /\ \A w \in Submission \ {u} : stage'[w] = stage[w] /\ call'[w] = call[w]
    BY <1>1, <1>3, EndsTypes DEF FormType
  <2>2. SubmissionOK(u)' /\ CompleteOK(u)'
    BY <2>1 DEF SubmissionOK, CompleteOK
  <2>. QED  BY <1>2, <2>1, <2>2, OneMoves
<1>4. ASSUME stage[u] = "sending", Ends(u, "complete"), Whole(target[u])'  PROVE PageInv'
  <2>1. /\ stage'[u] = "complete" /\ UNCHANGED target
        /\ \A w \in Submission \ {u} : stage'[w] = stage[w] /\ call'[w] = call[w]
    BY <1>1, <1>4, EndsTypes DEF FormType
  <2>2. target[u] \notin Local /\ HasRow(target[u])
    BY <1>4 DEF PageInv, SubmissionOK
  <2>3. SubmissionOK(u)' /\ CompleteOK(u)'
    BY <1>2, <1>4, <2>1, <2>2 DEF SubmissionOK, CompleteOK, HasRow, Whole
  <2>. QED  BY <1>2, <2>1, <2>3, OneMoves
<1>5. ASSUME stage[u] = "sending", UNCHANGED <<stage, call, target>>  PROVE PageInv'
  <2>1. target[u] \notin Local /\ HasRow(target[u])
    BY <1>5 DEF PageInv, SubmissionOK
  <2>2. SubmissionOK(u)' /\ CompleteOK(u)'
    BY <1>2, <1>5, <2>1 DEF SubmissionOK, CompleteOK, HasRow
  <2>3. /\ stage'[u] # "creating" /\ UNCHANGED target
        /\ \A w \in Submission \ {u} : stage'[w] = stage[w] /\ call'[w] = call[w]
    BY <1>5
  <2>4. \A w \in Submission \ {u} : pc'[call[w]] = pc[call[w]] /\ about'[call[w]] = about[call[w]]
    BY <1>2
  <2>. QED  BY <2>2, <2>3, <2>4, OneMoves
<1>6. CASE SubmitRefused(u) \/ Leave(u)
  BY <1>3, <1>6 DEF SubmitRefused, Leave
<1>7. CASE ResumedAtEnd(u)
  <2>. Whole(target[u])'
    BY <1>7 DEF ResumedAtEnd, Ends, Whole
  <2>. QED  BY <1>4, <1>7 DEF ResumedAtEnd
<1>8. CASE ChunkFails(u)
  BY <1>3, <1>5, <1>8 DEF ChunkFails, Retry
<1>9. CASE SendChunk(u)
  <2>1. received[target[u]] + 1 = Chunks => Whole(target[u])'
    <3>1. /\ received' = [received EXCEPT ![target[u]] = received[target[u]] + 1]
          /\ target' = target
      BY <1>9 DEF SendChunk, Retry, Ends
    <3>2. target[u] \in Video /\ received \in [Video -> 0..Chunks]
      BY <1>1 DEF FormType
    <3>. QED  BY <3>1, <3>2 DEF Whole
  <2>. QED  BY <1>3, <1>4, <1>5, <1>9, <2>1 DEF SendChunk, Retry
<1>. QED  BY <1>6, <1>7, <1>8, <1>9 DEF Sends

(* While Elsewhere steps, a submission's own handler only copies. *)
LEMMA OwnHandlerCopies ==
  ASSUME PageInv, NEW r \in Request, Webhook(r) \/ Admin(r) \/ Abort(r),
         pc[r] \in {"copy", "saveSource", "insertRow"}, pc'[r] # "idle"
  PROVE  /\ {pc[r], pc'[r]} \subseteq {"copy", "saveSource"}
         /\ about'[r].video = about[r].video
<1>0. HandlersType
  BY DEF PageInv, IInv
<1>1. ~ Respond(r)
  BY <1>0 DEF Respond, HandlersType
<1>2. ASSUME NEW o, NEW label, NEW subject, NEW loaded, NEW intent
      PROVE  ~ Begin(r, o, label, subject, loaded, intent)
  BY DEF Begin
<1>3. ~ Webhook(r)
  BY <1>2 DEF Webhook, Post, SaveReceipt, LoadVideo, LoadEvent, InsertEvent, UpdateEvent,
     SaveStatus, MarkProcessed, SaveLastError
<1>4. PICK f \in File : SaveSourceAsync(r, f)
  <2>1. ASSUME NEW v \in Video
        PROVE  ~ Get(r, v) /\ ~ SyncOne(r, v) /\ ~ Delete(r, v) /\ ~ UploadProtectedSource(r, v)
    BY <1>2 DEF Get, SyncOne, Delete, UploadProtectedSource
  <2>2. /\ ~ InsertRow(r) /\ ~ SaveProtectedSourceAsync(r) /\ ~ SyncAll(r) /\ ~ Abort(r)
    BY <1>1, <1>2 DEF InsertRow, SaveProtectedSourceAsync, SyncAll, Abort
  <2>3. /\ ~ GetVideoAsync(r) /\ ~ SaveRefresh(r) /\ ~ ListVideosAsync(r) /\ ~ LoadAll(r)
        /\ ~ SaveAll(r) /\ ~ DeleteVideoAsync(r) /\ ~ SaveDeleted(r)
    BY DEF GetVideoAsync, SaveRefresh, ListVideosAsync, LoadAll, SaveAll, DeleteVideoAsync,
           SaveDeleted
  <2>. QED  BY <1>3, <2>1, <2>2, <2>3 DEF Admin
<1>. QED  BY <1>0, <1>4 DEF SaveSourceAsync, Goto, HandlersType, Subject

LEMMA ElsewhereKeeps ==
  ASSUME PageInv, IInv', WholeInv', CatalogStep, FormStep, Elsewhere
  PROVE  PageInv'
<1>1. ASSUME NEW u \in Submission, stage[u] = "creating"
      PROVE  /\ about'[call[u]].video = about[call[u]].video
             /\ \/ pc'[call[u]] = pc[call[u]]
                \/ {pc[call[u]], pc'[call[u]]} \subseteq {"copy", "saveSource"}
  <2>1. /\ call[u] \in Request /\ pc[call[u]] \in {"copy", "saveSource", "insertRow"}
        /\ pc'[call[u]] # "idle"
    BY <1>1 DEF PageInv, SubmissionOK, Elsewhere, FormType
  <2>2. ASSUME NEW r \in Request, Webhook(r) \/ Admin(r) \/ Abort(r), r = call[u]
        PROVE  /\ about'[r].video = about[r].video
               /\ {pc[r], pc'[r]} \subseteq {"copy", "saveSource"}
    BY <2>1, <2>2, OwnHandlerCopies
  <2>3. ASSUME NEW r \in Request, Webhook(r) \/ Admin(r) \/ Abort(r), r # call[u]
        PROVE  about'[call[u]] = about[call[u]] /\ pc'[call[u]] = pc[call[u]]
    <3>. OthersStay(r)
      BY <2>3, StepStays DEF HandlerStep, PageInv, IInv
    <3>. QED  BY <2>1, <2>3 DEF OthersStay
  <2>4. ASSUME NEW v \in Video, NEW code \in Codes, Transcode(v, code)
        PROVE  UNCHANGED <<pc, about>>
    BY <2>4 DEF Transcode, handlers
  <2>5. PruneReceipts => UNCHANGED <<pc, about>>
    BY DEF PruneReceipts, handlers
  <2>. QED  BY <2>2, <2>3, <2>4, <2>5 DEF Elsewhere
<1>2. UNCHANGED <<stage, call, target>>
  BY DEF Elsewhere, form
<1>3. ASSUME NEW u \in Submission  PROVE SubmissionOK(u)' /\ CompleteOK(u)'
  <2>. ASSUME stage[u] = "creating"
       PROVE  \A w \in Submission \ {u} : stage'[w] = "creating" => call'[w] # call[u]
    BY <1>2, CallsApart
  <2>. QED  BY <1>1, <1>2, <1>3, SubmissionKept
<1>. QED  BY <1>3 DEF PageInv, FormStep, CompleteIsWhole, CompleteOK

LEMMA PageNext == PageInv /\ [UploadNext]_uploadVars => PageInv'
<1>. SUFFICES ASSUME PageInv, [UploadNext]_uploadVars  PROVE PageInv'
  OBVIOUS
<1>1. CatalogStep /\ FormStep
  BY CatalogSteps, FormSteps DEF PageInv
<1>2. IInv' /\ WholeInv'
  BY <1>1, CatalogStepNext, NextIInv, WholeNext DEF PageInv, FormStep
<1>3. CASE Elsewhere
  BY <1>1, <1>2, <1>3, ElsewhereKeeps
<1>4. CASE UNCHANGED uploadVars
  <2>1. UNCHANGED <<stage, call, target, pc, about>>
    BY <1>4 DEF uploadVars, vars
  <2>2. ASSUME NEW u \in Submission  PROVE SubmissionOK(u)' /\ CompleteOK(u)'
    BY <1>1, <1>2, <2>1, <2>2, CallsApart, SubmissionKept
  <2>. QED  BY <1>1, <1>2, <2>2 DEF PageInv, FormStep, CompleteIsWhole, CompleteOK
<1>5. ASSUME NEW u \in Submission, NEW v \in Video, NEW r \in Request, Submit(u, v, r)
      PROVE  PageInv'
  BY <1>1, <1>2, <1>5, SubmitKeeps
<1>6. ASSUME NEW u \in Submission, Answered(u)  PROVE PageInv'
  BY <1>1, <1>2, <1>6, AnsweredKeeps
<1>7. ASSUME NEW u \in Submission, SubmitRefused(u) \/ Sends(u) \/ Leave(u)  PROVE PageInv'
  BY <1>1, <1>2, <1>7, FormAloneKeeps
<1>. QED  BY <1>3, <1>4, <1>5, <1>6, <1>7 DEF UploadNext

LEMMA PageHolds == UploadSpec => []PageInv
BY PageInit, PageNext, PTL DEF UploadSpec
-----------------------------------------------------------------------------
(* What the webhook has applied: an event is marked by a handler that has seen
   a status as advanced as the event says, or has written one. *)
EffectOK(r) ==
  /\ AtWebhook(r) => eventOf(r) \in emitted /\ videoOf(r) = EventVideo[eventOf(r)]
  /\ pc[r] \in {"loadEvent", "insertEvent", "updateEvent", "apply"} =>
       /\ seen[r][videoOf(r)] \in Statuses
       /\ StatusRank[seen[r][videoOf(r)]] >= StatusRank[MapStatus(EventCode[eventOf(r)])] =>
            eventOf(r) \in effective
  /\ pc[r] = "mark" /\ EventCode[eventOf(r)] # NoCode => eventOf(r) \in effective

EffectInv ==
  /\ effective \in SUBSET emitted
  /\ \A e \in emitted : InForce(e) => e \in effective
  /\ ProcessedTookEffect
  /\ \A r \in Request : EffectOK(r)

LEMMA EffectInit == HInit => EffectInv
BY DEF HInit, Init, EffectInv, EffectOK, AtWebhook, ProcessedTookEffect

(* The history takes in what is in force, and forgets nothing. *)
LEMMA HistoryKept ==
  ASSUME IInv, EffectInv, effective' = effective \cup {e \in Event : (e \in emitted /\ InForce(e))'},
         emitted \subseteq emitted', emitted' \in SUBSET Event
  PROVE  /\ effective \subseteq effective' /\ effective' \in SUBSET emitted'
         /\ \A e \in Event : e \in emitted' /\ InForce(e)' => e \in effective'
BY DEF EffectInv

LEMMA EmittedKept ==
  ASSUME IInv, Next
  PROVE  emitted \subseteq emitted' /\ emitted' \in SUBSET Event
<1>0. emitted \in SUBSET Event
  BY DEF IInv, OutsideType
<1>1. ASSUME NEW r \in Request, Webhook(r)  PROVE UNCHANGED emitted
  BY <1>1 DEF Webhook, Post, SaveReceipt, LoadVideo, LoadEvent, InsertEvent, UpdateEvent,
     SaveStatus, MarkProcessed, SaveLastError, outside
<1>2. ASSUME NEW r \in Request, Others(r)  PROVE UNCHANGED emitted
  BY <1>2 DEF Others, Creates, Create, CreateSecure, Abort, Admin, Get, SyncOne, Delete,
     UploadProtectedSource, InsertRow, GetVideoAsync, SaveRefresh, SyncAll, ListVideosAsync,
     LoadAll, SaveAll, DeleteVideoAsync, SaveDeleted, SaveSourceAsync,
     SaveProtectedSourceAsync, outside
<1>3. ASSUME NEW v \in Video, NEW code \in Codes, Transcode(v, code)
      PROVE  emitted \subseteq emitted' /\ emitted' \in SUBSET Event
  BY <1>0, <1>3 DEF Transcode
<1>4. ASSUME PruneReceipts  PROVE UNCHANGED emitted
  BY <1>4 DEF PruneReceipts, outside
<1>. QED  BY <1>0, <1>1, <1>2, <1>3, <1>4 DEF Next, Others

(* A handler that is not at the webhook, or has gone on to the next read. *)
LEMMA OtherEffects ==
  ASSUME IInv, EffectInv, effective \subseteq effective', emitted \subseteq emitted',
         NEW q \in Request, about'[q] = about[q], seen'[q] = seen[q],
         \/ pc'[q] = pc[q]
         \/ pc[q] = "saveReceipt" /\ pc'[q] = "loadVideo"
         \/ /\ pc[q] \in {"loadEvent", "insertEvent", "updateEvent"}
            /\ pc'[q] \in {"insertEvent", "updateEvent", "apply"}
  PROVE  EffectOK(q)'
BY DEF EffectInv, EffectOK, AtWebhook, videoOf, eventOf

LEMMA AwayEffects ==
  ASSUME NEW q \in Request, ~ AtWebhook(q)'
  PROVE  EffectOK(q)'
BY DEF EffectOK, AtWebhook

LEMMA RankTypes ==
  /\ StatusRank \in [Statuses -> 0..5] /\ "none" \notin Statuses
  /\ \A s \in Statuses : StatusRank["Deleted"] >= StatusRank[s]
  /\ \A code : MapStatus(code) \in Statuses
BY DEF StatusRank, Statuses, MapStatus

(* A handler of the webhook that ends. *)
LEMMA RespondEffects ==
  ASSUME IInv, NEW r \in Request, Respond(r)
  PROVE  EffectOK(r)'
<1>1. pc'[r] = "idle"
  BY DEF Respond, IInv, HandlersType
<1>. QED  BY <1>1, AwayEffects DEF AtWebhook

LEMMA PostEffects ==
  ASSUME IInv, EffectInv, NEW r \in Request, NEW e \in Event, NEW b \in Body, Post(r, e, b)
  PROVE  EffectOK(r)'
<1>. DEFINE label == IF <<e, b>> \in receipts THEN "loadVideo" ELSE "saveReceipt"
            subject == [AboutVideo(EventVideo[e]) EXCEPT !.event = e, !.body = b]
<1>1. /\ label \in Label /\ label \in {"loadVideo", "saveReceipt"}
      /\ subject \in Subject /\ subject.video = EventVideo[e] /\ subject.event = e
  <2>1. EventVideo[e] \in Video
    OBVIOUS
  <2>2. AboutVideo(EventVideo[e]) \in Subject /\ AboutVideo(EventVideo[e]).video = EventVideo[e]
    BY <2>1, AboutTypes
  <2>. QED  BY <2>2 DEF Label, Subject
<1>. HIDE DEF label, subject
<1>2. /\ Begin(r, "webhook", label, subject, Nothing, Nothing)
      /\ e \in emitted /\ UNCHANGED emitted
  BY DEF Post, label, subject, outside
<1>3. pc'[r] = label /\ about'[r] = subject
  BY <1>1, <1>2, BeginOK, IdleTypes DEF IInv
<1>. QED  BY <1>1, <1>2, <1>3 DEF EffectOK, AtWebhook, videoOf, eventOf

(* LoadVideo sees a status that the history knows. *)
LEMMA LoadEffects ==
  ASSUME IInv, EffectInv, effective \subseteq effective', NEW r \in Request, LoadVideo(r)
  PROVE  EffectOK(r)'
<1>. DEFINE e == eventOf(r)
            v == videoOf(r)
<1>0. /\ v \in Video /\ e \in Event /\ EffectOK(r) /\ pc[r] = "loadVideo"
      /\ e \in emitted /\ v = EventVideo[e]
  BY SubjectTypes DEF IInv, EffectInv, LoadVideo, EffectOK, AtWebhook
<1>1. CASE HasRow(v)
  <2>1. /\ Goto(r, "loadEvent") /\ UNCHANGED <<about, emitted>>
        /\ seen' = [seen EXCEPT ![r] = Row(v)]
    BY <1>1 DEF LoadVideo, outside
  <2>2. pc'[r] = "loadEvent" /\ about'[r] = about[r] /\ seen'[r] = Row(v)
    BY <2>1 DEF Goto, IInv, HandlersType
  <2>3. Row(v)[v] = status[v] /\ status[v] \in Statuses
    BY <1>0, <1>1, IdleTypes DEF Row, Rows, HasRow, IInv, DatabaseType
  <2>4. StatusRank[status[v]] >= StatusRank[MapStatus(EventCode[e])] => e \in effective'
    BY <1>0, <1>1 DEF EffectInv, InForce
  <2>. QED  BY <1>0, <2>1, <2>2, <2>3, <2>4 DEF EffectOK, AtWebhook, videoOf, eventOf
<1>2. CASE ~ HasRow(v)
  BY <1>2, RespondEffects DEF LoadVideo, Accept
<1>. QED  BY <1>1, <1>2

(* After the save of the status the event has taken effect, by this save or
   before the row was loaded. *)
LEMMA SavedEffects ==
  ASSUME IInv, EffectInv, effective \subseteq effective', UNCHANGED emitted,
         \A e \in Event : e \in emitted' /\ InForce(e)' => e \in effective',
         NEW r \in Request, pc[r] = "apply", status' = Written(r, NewStatus(r)),
         NEW e \in Event, e = eventOf(r), EventCode[e] # NoCode
  PROVE  e \in effective'
<1>. DEFINE v == EventVideo[e]
            s == seen[r][v]
            new == MapStatus(EventCode[e])
<1>0. /\ v \in Video /\ v = videoOf(r) /\ e \in emitted /\ s \in Statuses
      /\ StatusRank[s] >= StatusRank[new] => e \in effective
  BY SubjectTypes DEF IInv, EffectInv, EffectOK, AtWebhook
<1>1. new \in Statuses /\ StatusRank[new] \in 0..5 /\ StatusRank[s] \in 0..5
  BY <1>0, RankTypes
<1>2. CASE AllowsTransition(s, new) /\ new # s
  <2>1. NewStatus(r)[v] = new
    BY <1>0, <1>2, IdleTypes DEF NewStatus, Rows
  <2>2. status'[v] = new
    BY <1>0, <1>1, <1>2, <2>1, RankTypes DEF Written
  <2>3. InForce(e)'
    BY <1>0, <1>1, <2>2, RankTypes DEF InForce, HasRow
  <2>. QED  BY <1>0, <2>3
<1>3. CASE new = s
  BY <1>0, <1>1, <1>3
<1>4. CASE ~ AllowsTransition(s, new)
  <2>. StatusRank[s] >= StatusRank[new]
    BY <1>0, <1>1, <1>4, RankTypes DEF AllowsTransition
  <2>. QED  BY <1>0
<1>. QED  BY <1>2, <1>3, <1>4

LEMMA WebhookEffects ==
  ASSUME IInv, EffectInv, effective \subseteq effective', emitted \subseteq emitted',
         \A e \in Event : e \in emitted' /\ InForce(e)' => e \in effective',
         NEW r \in Request, Webhook(r)
  PROVE  EffectOK(r)'
<1>1. ASSUME NEW e \in Event, NEW b \in Body, Post(r, e, b)  PROVE EffectOK(r)'
  BY <1>1, PostEffects
<1>2. ASSUME Respond(r)  PROVE EffectOK(r)'
  BY <1>2, RespondEffects
<1>3. CASE SaveReceipt(r)
  <2>. pc[r] = "saveReceipt" /\ pc'[r] = "loadVideo" /\ UNCHANGED <<about, seen>>
    BY <1>3 DEF SaveReceipt, Goto, IInv, HandlersType
  <2>. QED  BY OtherEffects
<1>4. CASE LoadVideo(r)
  BY <1>4, LoadEffects
<1>5. CASE LoadEvent(r) \/ InsertEvent(r) \/ UpdateEvent(r)
  <2>1. CASE Respond(r)
    BY <1>2, <2>1
  <2>2. CASE ~ Respond(r)
    <3>. /\ pc[r] \in {"loadEvent", "insertEvent", "updateEvent"} /\ UNCHANGED <<about, seen>>
         /\ pc'[r] \in {"insertEvent", "updateEvent", "apply"}
      BY <1>5, <2>2 DEF LoadEvent, InsertEvent, UpdateEvent, Accept, Goto, IInv, HandlersType
    <3>. QED  BY OtherEffects
  <2>. QED  BY <2>1, <2>2
<1>6. CASE SaveStatus(r)
  <2>1. /\ pc[r] = "apply" /\ pc'[r] = "mark" /\ UNCHANGED <<about, emitted>>
        /\ status' = Written(r, NewStatus(r))
    BY <1>6 DEF SaveStatus, Goto, IInv, HandlersType, outside
  <2>2. eventOf(r) \in emitted /\ videoOf(r) = EventVideo[eventOf(r)]
    BY <2>1 DEF EffectInv, EffectOK, AtWebhook
  <2>3. EventCode[eventOf(r)] # NoCode => eventOf(r) \in effective'
    BY <2>1, SubjectTypes, SavedEffects DEF IInv
  <2>. QED  BY <2>1, <2>2, <2>3 DEF EffectOK, AtWebhook, videoOf, eventOf
<1>7. CASE MarkProcessed(r) \/ SaveLastError(r)
  BY <1>2, <1>7 DEF MarkProcessed, SaveLastError, Accept
<1>. QED  BY <1>1, <1>3, <1>4, <1>5, <1>6, <1>7 DEF Webhook

(* Only an event that has taken effect is marked. *)
LEMMA MarksEffective ==
  ASSUME IInv, EffectInv, Next, effective \subseteq effective'
  PROVE  ProcessedTookEffect'
<1>. SUFFICES ASSUME NEW e \in Event, events'[e] = "processed", events[e] # "processed",
                     EventCode[e] # NoCode
              PROVE  e \in effective
  BY DEF EffectInv, ProcessedTookEffect
<1>0. events \in [Event -> {"none", "pending", "processed"}]
  BY DEF IInv, DatabaseType
<1>1. PICK r \in Request : Webhook(r)
  BY OutsideStays DEF Next, Creates, Create, CreateSecure, Abort, Admin, Get, SyncOne, Delete,
     UploadProtectedSource, InsertRow, GetVideoAsync, SaveRefresh, SyncAll, ListVideosAsync,
     LoadAll, SaveAll, DeleteVideoAsync, SaveDeleted, SaveSourceAsync,
     SaveProtectedSourceAsync, database
<1>2. MarkProcessed(r) \/ (SaveLastError(r) /\ pc[r] = "mark")
  BY <1>0, <1>1 DEF Webhook, Post, SaveReceipt, LoadVideo, LoadEvent, InsertEvent, UpdateEvent,
     SaveStatus, SaveLastError, database
<1>3. pc[r] = "mark" /\ events' = [events EXCEPT ![eventOf(r)] = "processed"]
  BY <1>2 DEF MarkProcessed, SaveLastError
<1>. QED  BY <1>0, <1>3 DEF EffectInv, EffectOK

LEMMA LeavesWebhook ==
  ASSUME IInv, NEW r \in Request, Others(r)
  PROVE  ~ AtWebhook(r)'
<1>. DEFINE Away == ~ AtWebhook(r)'
<1>1. ASSUME Respond(r)  PROVE Away
  BY <1>1 DEF Respond, IInv, HandlersType, AtWebhook
<1>2. ASSUME NEW o, NEW label, NEW subject, NEW loaded, NEW intent,
             Begin(r, o, label, subject, loaded, intent),
             label \in {"insertRow", "fetch", "list", "deleteAtBunny", "saveDeleted", "copy"}
      PROVE  Away
  BY <1>2 DEF Begin, IInv, HandlersType, AtWebhook
<1>3. ASSUME NEW label, Goto(r, label),
             label \in {"refresh", "loadAll", "saveAll", "saveDeleted", "saveSource"}
      PROVE  Away
  BY <1>3 DEF Goto, IInv, HandlersType, AtWebhook
<1>. HIDE DEF Away
<1>4. ASSUME NEW v \in Video,
             \/ Create(r, v) \/ CreateSecure(r, v) \/ Get(r, v) \/ SyncOne(r, v)
             \/ Delete(r, v) \/ UploadProtectedSource(r, v)
      PROVE  Away
  BY <1>2, <1>4 DEF Create, CreateSecure, Get, SyncOne, Delete, UploadProtectedSource
<1>5. ASSUME SyncAll(r)  PROVE Away
  BY <1>2, <1>5 DEF SyncAll
<1>6. ASSUME GetVideoAsync(r) \/ ListVideosAsync(r) \/ LoadAll(r) \/ DeleteVideoAsync(r)
      PROVE  Away
  BY <1>3, <1>6 DEF GetVideoAsync, ListVideosAsync, LoadAll, DeleteVideoAsync
<1>7. ASSUME \/ InsertRow(r) \/ SaveRefresh(r) \/ SaveAll(r) \/ SaveDeleted(r)
             \/ SaveProtectedSourceAsync(r) \/ Abort(r)
      PROVE  Away
  BY <1>1, <1>7 DEF InsertRow, SaveRefresh, SaveAll, SaveDeleted, SaveProtectedSourceAsync,
     Abort
<1>8. ASSUME NEW f \in File, SaveSourceAsync(r, f)  PROVE Away
  <2>. pc'[r] \in {"copy", "saveSource"}
    BY <1>8 DEF SaveSourceAsync, Goto, IInv, HandlersType
  <2>. QED  BY DEF Away, AtWebhook
<1>9. Away
  BY <1>4, <1>5, <1>6, <1>7, <1>8 DEF Others, Creates, Admin
<1>. QED  BY <1>9 DEF Away

LEMMA EffectNext == IInv /\ EffectInv /\ [HNext]_hvars => EffectInv'
<1>. SUFFICES ASSUME IInv, EffectInv, [HNext]_hvars  PROVE EffectInv'
  OBVIOUS
<1>1. CASE UNCHANGED hvars
  BY <1>1 DEF hvars, vars, EffectInv, EffectOK, AtWebhook, videoOf, eventOf, InForce, HasRow,
     ProcessedTookEffect
<1>2. CASE HNext
  <2>1. /\ emitted \subseteq emitted' /\ emitted' \in SUBSET Event
        /\ effective \subseteq effective' /\ effective' \in SUBSET emitted'
        /\ \A e \in Event : e \in emitted' /\ InForce(e)' => e \in effective'
    BY <1>2, EmittedKept, HistoryKept DEF HNext
  <2>2. ProcessedTookEffect'
    BY <1>2, <2>1, MarksEffective DEF HNext
  <2>3. ASSUME NEW q \in Request  PROVE EffectOK(q)'
    <3>1. ASSUME NEW r \in Request, Webhook(r)  PROVE EffectOK(q)'
      <4>1. OthersStay(r)
        BY <3>1, StepStays DEF HandlerStep, IInv
      <4>2. CASE q = r
        BY <2>1, <3>1, <4>2, WebhookEffects
      <4>3. CASE q # r
        BY <2>1, <4>1, <4>3, OtherEffects DEF OthersStay
      <4>. QED  BY <4>2, <4>3
    <3>2. ASSUME NEW r \in Request, Others(r)  PROVE EffectOK(q)'
      <4>1. OthersStay(r)
        BY <3>2, StepStays DEF HandlerStep, Others, IInv
      <4>2. CASE q = r
        BY <3>2, <4>2, LeavesWebhook, AwayEffects
      <4>3. CASE q # r
        BY <2>1, <4>1, <4>3, OtherEffects DEF OthersStay
      <4>. QED  BY <4>2, <4>3
    <3>3. ASSUME UNCHANGED <<pc, about, seen>>  PROVE EffectOK(q)'
      BY <2>1, <3>3, OtherEffects
    <3>. QED  BY <1>2, <3>1, <3>2, <3>3, OutsideStays DEF HNext, Next, Others
  <2>. QED  BY <2>1, <2>2, <2>3 DEF EffectInv
<1>. QED  BY <1>1, <1>2

LEMMA HistoryHolds == HSpec => [](IInv /\ EffectInv)
<1>1. HInit => IInv /\ EffectInv
  BY InitIInv, EffectInit DEF HInit
<1>2. IInv /\ [HNext]_hvars => IInv'
  BY NextIInv DEF HNext, hvars
<1>. QED  BY <1>1, <1>2, EffectNext, PTL DEF HSpec
-----------------------------------------------------------------------------
(* Every variable has its type: the rows of BunnyWebhookController and the
   admin controllers, the files, and where each handler is. *)
THEOREM TypeCorrect == Spec => []TypeOK
<1>1. IInv => TypeOK
  BY Types DEF IInv
<1>. QED  BY <1>1, InvariantHolds, PTL

(* BunnyWebhookController.Post answers 202 only to an event that has been
   processed or whose video had no row, for any number of deliveries that
   overlap and fail. *)
THEOREM AcceptedProcessedHolds == Spec => []AcceptedProcessed
<1>1. IInv => AcceptedProcessed
  BY DEF IInv
<1>. QED  BY <1>1, InvariantHolds, PTL

(* A protected video is Ready only with a source that SaveSourceAsync has
   copied to its end, whatever else writes the row's Status. *)
THEOREM ReadyHasSourceHolds == Spec => []ReadyHasSource
<1>1. IInv => ReadyHasSource
  BY DEF IInv, SourceOK, ReadyHasSource
<1>. QED  BY <1>1, InvariantHolds, PTL

(* An event that was processed is not opened again by a duplicate that read it
   as pending. *)
THEOREM ProcessedFinalHolds == Spec => ProcessedFinal
<1>1. IInv /\ [Next]_vars =>
        [\A e \in Event : events[e] = "processed" => events'[e] = "processed"]_vars
  <2>. SUFFICES ASSUME IInv, Next, NEW e \in Event, events[e] = "processed"
                PROVE  events'[e] = "processed"
    OBVIOUS
  <2>. events \in [Event -> {"none", "pending", "processed"}]
    BY DEF IInv, DatabaseType
  <2>1. ASSUME NEW r \in Request, Webhook(r)  PROVE events'[e] = "processed"
    <3>1. CASE InsertEvent(r)
      BY <3>1 DEF InsertEvent
    <3>2. CASE MarkProcessed(r) \/ SaveLastError(r)
      BY <3>2 DEF MarkProcessed, SaveLastError
    <3>3. CASE ~ InsertEvent(r) /\ ~ MarkProcessed(r) /\ ~ SaveLastError(r)
      BY <2>1, <3>3 DEF Webhook, Post, SaveReceipt, LoadVideo, LoadEvent, UpdateEvent,
                        SaveStatus, database
    <3>. QED  BY <3>1, <3>2, <3>3
  <2>2. ASSUME NEW r \in Request, Admin(r)  PROVE UNCHANGED events
    BY <2>2 DEF Admin, Get, SyncOne, Delete, UploadProtectedSource, InsertRow,
                GetVideoAsync, SaveRefresh, SyncAll, ListVideosAsync, LoadAll, SaveAll,
                DeleteVideoAsync, SaveDeleted, SaveSourceAsync, SaveProtectedSourceAsync,
                database
  <2>3. ASSUME NEW r \in Request, Creates(r) \/ Abort(r)  PROVE UNCHANGED events
    BY <2>3 DEF Creates, Create, CreateSecure, Abort, database
  <2>4. ASSUME NEW v \in Video, NEW code \in Codes, Transcode(v, code)
        PROVE  UNCHANGED events
    BY <2>4 DEF Transcode, database
  <2>5. ASSUME PruneReceipts  PROVE UNCHANGED events
    BY <2>5 DEF PruneReceipts
  <2>. QED  BY <2>1, <2>2, <2>3, <2>4, <2>5 DEF Next
<1>. QED  BY <1>1, InvariantHolds, PTL DEF Spec, ProcessedFinal

(* The history has its type, and is a history: it leaves VideoCatalog as it
   is. *)
THEOREM HistoryTypeCorrect == HSpec => []HTypeOK /\ Spec
<1>1. IInv /\ EffectInv => HTypeOK
  BY Types DEF IInv, EffectInv, HTypeOK
<1>2. HInit => Init
  BY DEF HInit
<1>3. [HNext]_hvars => [Next]_vars
  BY DEF HNext, hvars
<1>. QED  BY <1>1, <1>2, <1>3, HistoryHolds, PTL DEF HSpec, Spec

(* BunnyWebhookController.cs:142-158 never marks an event whose status was not
   applied: for any webhooks of a video that overlap, with refreshes, uploads
   and deletions between their steps, and whichever of their saves fail. *)
THEOREM ProcessedTookEffectHolds == HSpec => []ProcessedTookEffect
<1>1. EffectInv => ProcessedTookEffect
  BY DEF EffectInv
<1>. QED  BY <1>1, HistoryHolds, PTL

(* The catalogue behind the upload page is the catalogue: whatever the page
   does, its requests and those of the others are steps of VideoCatalog, so that
   the theorems about that hold here, too. *)
THEOREM PageImplementsCatalog == UploadSpec => Spec
<1>1. UploadInit => Init
  BY DEF UploadInit
<1>2. PageInv /\ [UploadNext]_uploadVars => [Next]_vars
  BY CatalogSteps, CatalogStepNext DEF PageInv
<1>. QED  BY <1>1, <1>2, PageHolds, PTL DEF UploadSpec, Spec

(* The page's variables have their types, the chunks at Bunny and the retries
   their bounds. *)
THEOREM UploadTypeCorrect == UploadSpec => []UploadTypeOK
<1>1. PageInv => UploadTypeOK
  BY Types, UploadTypes DEF PageInv, IInv
<1>. QED  BY <1>1, PageHolds, PTL

(* What admin-upload.js calls complete is at Bunny in full and has a row, and
   what it calls ready is a source that was copied to its end, with any number
   of submissions, administrators and webhooks at the same time. *)
THEOREM CompleteIsWholeHolds == UploadSpec => []CompleteIsWhole
<1>1. PageInv => CompleteIsWhole
  BY DEF PageInv
<1>. QED  BY <1>1, PageHolds, PTL

(* No video at Bunny is Ready in the catalogue before Bunny has all of it: not
   by a webhook, late or repeated, nor by a refresh, a sync or an upload. *)
THEOREM ReadyIsWholeHolds == UploadSpec => []ReadyIsWhole
<1>1. PageInv => ReadyIsWhole
  BY DEF PageInv, WholeInv
<1>. QED  BY <1>1, PageHolds, PTL
=============================================================================
