------------------------ MODULE PublicPlaybackProofs ------------------------
(***************************************************************************)
(* Proofs about PublicPlayback, for any number of viewers, pages, requests *)
(* and sessions.  The invariant has one part for each question: who may    *)
(* still turn a bootstrap into a session (Ticket), which session a request *)
(* writes (Written), and what has held while it ran (Seen).                *)
(***************************************************************************)
EXTENDS PublicPlayback, TLAPS

Label == {"idle", "remove", "check", "grant", "authorize", "ready", "insert",
          "start", "token", "answer", "add", "revoke"}

VideoType ==
  /\ status \in {"Processing", "Ready", "Deleted"} /\ allowDemo \in BOOLEAN
  /\ embedKey \in Key \cup {"none"} /\ links \in SUBSET Key
StoreType ==
  /\ kind \in [Page -> {"none", "Demo", "Embed"}]
  /\ cache \in SUBSET Page /\ expiredPages \in SUBSET Page /\ raced \in SUBSET Page
GrantsType ==
  /\ grantee \in [Row -> User \cup {"none"}]
  /\ revokedRows \in SUBSET Row /\ expiredRows \in SUBSET Row
SessionsType ==
  /\ user \in [Session -> User \cup {"none"}]
  /\ hash \in [Session -> Tokens]
  /\ answered \in [Session -> Tokens \cup {"no answer"}]
RequestsType ==
  /\ pc \in [Request -> Label]
  /\ who \in [Request -> User \cup {"none"}]
  /\ sid \in [Request -> Session \cup {"none"}]
  /\ loaded \in [Request -> SUBSET Row]
SeenType == seen \in [Request -> SUBSET {"ready", "demo", "entitled"}]

Types == /\ VideoType /\ StoreType /\ GrantsType
         /\ SessionsType /\ RequestsType /\ SeenType

(* A request under way is about a user: one of its own, unless it revokes. *)
WhoOK == \A r \in Request :
  /\ pc[r] # "idle" => who[r] \in User
  /\ pc[r] \in {"remove", "check", "grant"} => who[r] \in Page

(* The requests that may still turn bootstrap p into a session. *)
Held(r, p) ==
  who[r] = p /\ pc[r] \in {"remove", "check", "grant", "authorize", "ready", "insert"}

(* One bootstrap is in the cache, or with one request, or in one session. *)
Ticket(p) ==
  /\ kind[p] = "none" =>
       /\ p \notin cache
       /\ \A r \in Request : ~Held(r, p)
       /\ \A s \in Session : user[s] # p
  /\ p \notin raced =>
       /\ p \in cache => \A r \in Request : Held(r, p) => pc[r] = "remove"
       /\ p \in cache => \A s \in Session : user[s] # p
       /\ \A q, r \in Request : Held(q, p) /\ Held(r, p) => q = r
       /\ \A r \in Request : Held(r, p) => \A s \in Session : user[s] # p
       /\ \A s, t \in Session : user[s] = p /\ user[t] = p => s = t

Tickets == \A p \in Page : Ticket(p)

Writing(r) == pc[r] \in {"start", "token", "answer"}
FirstToken == IF SecureWebRtc THEN "CreateAsync" ELSE "none"

(* A request writes a session of its own, not answered yet, and its token is
   of the save that came last. *)
Written(r) ==
  Writing(r) =>
    /\ sid[r] \in Session /\ user[sid[r]] = who[r]
    /\ answered[sid[r]] = "no answer"
    /\ hash[sid[r]] = IF pc[r] = "answer" /\ who[r] \in Page
                      THEN "Bootstrap" ELSE FirstToken
    /\ pc[r] = "token" => who[r] \in Page

Apart == \A q, r \in Request : Writing(q) /\ Writing(r) /\ q # r => sid[q] # sid[r]
Unanswered == \A s \in Session : user[s] = "none" => answered[s] = "no answer"
Writes == (\A r \in Request : Written(r)) /\ Apart /\ Unanswered

(* What a request has asked, it has seen. *)
Checked == {"grant", "authorize", "ready", "insert", "start", "token", "answer"}
Authorized == {"ready", "insert", "start", "token", "answer"}
FoundReady == {"insert", "start", "token", "answer"}
Seen(r) ==
  /\ pc[r] \in Checked => "demo" \in seen[r]
  /\ pc[r] \in Authorized => "entitled" \in seen[r]
  /\ pc[r] \in FoundReady => "ready" \in seen[r]
SeenOK == \A r \in Request : Seen(r)

IInv == Types /\ WhoOK /\ Tickets /\ Writes /\ AnsweredTokenWorks /\ SeenOK
-----------------------------------------------------------------------------
(* Every other request stays where it is. *)
Only(r) ==
  \A q \in Request \ {r} :
    pc'[q] = pc[q] /\ who'[q] = who[q] /\ sid'[q] = sid[q]

LEMMA FinishMoves ==
  ASSUME RequestsType, NEW r \in Request, Finish(r)
  PROVE  RequestsType' /\ Only(r) /\ pc'[r] = "idle"
BY DEF RequestsType, Label, Finish, Goto, Only

LEMMA StepMoves ==
  ASSUME RequestsType, NEW r \in Request, NEW from \in Label, NEW to \in Label,
         Step(r, from, to)
  PROVE  /\ RequestsType' /\ Only(r) /\ pc[r] = from /\ pc'[r] = to
         /\ who' = who /\ sid' = sid
BY DEF RequestsType, Step, Goto, Only

LEMMA BeginMoves ==
  ASSUME RequestsType, NEW r \in Request, NEW to \in Label, NEW u \in User,
         Begin(r, to, u)
  PROVE  /\ RequestsType' /\ Only(r) /\ pc[r] = "idle" /\ pc'[r] = to
         /\ who'[r] = u /\ sid' = sid
BY DEF RequestsType, Begin, Goto, Only

LEMMA RememberType == SeenType /\ Remember => SeenType'
BY DEF SeenType, Remember, Holding

(* A request that stays where it is forgets nothing. *)
LEMMA RememberKeeps ==
  ASSUME SeenType, Remember, NEW r \in Request, Seen(r), pc'[r] = pc[r]
  PROVE  Seen(r)'
BY DEF SeenType, Remember, Seen, Checked, Authorized, FoundReady

(* One that moves on has seen what it saw and what holds now. *)
LEMMA RememberAdds ==
  ASSUME SeenType, Remember, NEW r \in Request, pc'[r] \notin {"idle", "add", "revoke"}
  PROVE  seen[r] \subseteq seen'[r] /\ Holding(r)' \subseteq seen'[r]
BY DEF SeenType, Remember

LEMMA AtRest ==
  ASSUME NEW r \in Request, pc'[r] \in {"idle", "add", "revoke", "remove", "check"}
  PROVE  Seen(r)'
BY DEF Seen, Checked, Authorized, FoundReady

(* A ticket is not multiplied by requests that stay, move on or end. *)
LEMMA TicketShrinks ==
  ASSUME NEW p \in Page, Ticket(p), user' = user, kind' = kind,
         raced \subseteq raced', cache' \subseteq cache,
         \A r \in Request : Held(r, p)' =>
           Held(r, p) /\ (p \in cache' /\ pc[r] = "remove" => pc'[r] = "remove")
  PROVE  Ticket(p)'
BY DEF Ticket

(* Nor by a step that leaves every request alone. *)
LEMMA TicketsElsewhere ==
  ASSUME Tickets, user' = user, kind' = kind, raced' = raced, cache' \subseteq cache,
         pc' = pc, who' = who
  PROVE  Tickets'
<1>1. ASSUME NEW p \in Page PROVE Ticket(p)'
  <2>1. \A r \in Request : Held(r, p)' =>
          Held(r, p) /\ (p \in cache' /\ pc[r] = "remove" => pc'[r] = "remove")
    BY DEF Held
  <2> QED BY <2>1, TicketShrinks DEF Tickets
<1> QED BY <1>1 DEF Tickets

LEMMA WritesElsewhere ==
  ASSUME Writes, AnsweredTokenWorks, UNCHANGED sessions, pc' = pc, who' = who, sid' = sid
  PROVE  Writes' /\ AnsweredTokenWorks'
BY DEF Writes, Written, Apart, Unanswered, Writing, sessions, AnsweredTokenWorks,
       TokenAccepted, Public

LEMMA SeenElsewhere ==
  ASSUME SeenType, SeenOK, Remember, pc' = pc
  PROVE  SeenOK'
BY RememberKeeps DEF SeenOK

(* A request that ends, or moves on before it has a session or with the one it
   has, leaves what the others write alone. *)
LEMMA WritesMove ==
  ASSUME Writes, AnsweredTokenWorks, UNCHANGED sessions, NEW r \in Request, Only(r),
         Writing(r)' => Writing(r) /\ who' = who /\ sid' = sid /\ Written(r)'
  PROVE  Writes' /\ AnsweredTokenWorks'
<1>1. ASSUME NEW q \in Request PROVE Written(q)'
  BY DEF Writes, Written, Writing, sessions, Only
<1>2. Apart'
  BY DEF Writes, Apart, Writing, Only
<1>3. Unanswered' /\ AnsweredTokenWorks'
  BY DEF Writes, Unanswered, sessions, AnsweredTokenWorks, TokenAccepted, Public
<1> QED BY <1>1, <1>2, <1>3 DEF Writes

LEMMA SeenMove ==
  ASSUME SeenType, SeenOK, Remember, NEW r \in Request, Only(r), Seen(r)'
  PROVE  SeenOK'
BY RememberKeeps DEF SeenOK, Only

LEMMA WhoMove ==
  ASSUME WhoOK, NEW r \in Request, Only(r),
         pc'[r] # "idle" => who'[r] \in User,
         pc'[r] \in {"remove", "check", "grant"} => who'[r] \in Page
  PROVE  WhoOK'
BY DEF WhoOK, Only

(* A request ends. *)
LEMMA FinishKeeps ==
  ASSUME IInv, NEW r \in Request, Finish(r), Remember, UNCHANGED video,
         UNCHANGED sessions, UNCHANGED grants, StoreType', kind' = kind,
         raced' = raced, cache' \subseteq cache
  PROVE  IInv'
<1>0. RequestsType' /\ Only(r) /\ pc'[r] = "idle" /\ user' = user
  BY FinishMoves DEF IInv, Types, sessions
<1>1. Types'
  BY <1>0, RememberType DEF IInv, Types, video, sessions, grants, VideoType,
     SessionsType, GrantsType
<1>2. WhoOK'
  BY <1>0, WhoMove DEF IInv
<1>3. Tickets'
  <2>1. ASSUME NEW p \in Page PROVE Ticket(p)'
    <3>1. \A q \in Request : Held(q, p)' =>
            Held(q, p) /\ (p \in cache' /\ pc[q] = "remove" => pc'[q] = "remove")
      BY <1>0 DEF Held, Only
    <3> QED BY <1>0, <3>1, TicketShrinks DEF IInv, Tickets
  <2> QED BY <2>1 DEF Tickets
<1>4. Writes' /\ AnsweredTokenWorks'
  BY <1>0, WritesMove DEF IInv, Writing
<1>5. SeenOK'
  BY <1>0, AtRest, SeenMove DEF IInv, Types
<1> QED BY <1>1, <1>2, <1>3, <1>4, <1>5 DEF IInv

(* A request without a session yet moves on to label to. *)
LEMMA StepKeeps ==
  ASSUME IInv, NEW r \in Request, NEW from \in Label, NEW to \in Label,
         Step(r, from, to), Remember, UNCHANGED video, UNCHANGED sessions,
         GrantsType', StoreType', kind' = kind, raced' = raced, cache' \subseteq cache,
         to \in {"check", "grant", "authorize", "ready", "insert"},
         from \in {"remove", "check", "grant", "authorize", "ready"},
         to \in {"check", "grant"} => from \in {"remove", "check"},
         from = "remove" => who[r] \notin cache',
         Seen(r)'
  PROVE  IInv'
<1>0. /\ RequestsType' /\ Only(r) /\ pc[r] = from /\ pc'[r] = to
      /\ who' = who /\ sid' = sid /\ user' = user
  BY StepMoves DEF IInv, Types, sessions
<1>1. Types'
  BY <1>0, RememberType DEF IInv, Types, video, sessions, VideoType, SessionsType
<1>2. WhoOK'
  <2>1. from # "idle" => who'[r] \in User
    BY <1>0 DEF IInv, WhoOK
  <2>2. to \in {"remove", "check", "grant"} => who'[r] \in Page
    BY <1>0 DEF IInv, WhoOK
  <2> QED BY <1>0, <2>1, <2>2, WhoMove DEF IInv
<1>3. Tickets'
  <2>1. ASSUME NEW p \in Page PROVE Ticket(p)'
    <3>1. \A q \in Request : Held(q, p)' =>
            Held(q, p) /\ (p \in cache' /\ pc[q] = "remove" => pc'[q] = "remove")
      BY <1>0 DEF Held, Only
    <3> QED BY <1>0, <3>1, TicketShrinks DEF IInv, Tickets
  <2> QED BY <2>1 DEF Tickets
<1>4. Writes' /\ AnsweredTokenWorks'
  BY <1>0, WritesMove DEF IInv, Writing
<1>5. SeenOK'
  BY <1>0, SeenMove DEF IInv, Types
<1> QED BY <1>1, <1>2, <1>3, <1>4, <1>5 DEF IInv

(* A request that is not about a session begins. *)
LEMMA BeginKeeps ==
  ASSUME IInv, NEW r \in Request, RequestsType', Only(r), Remember, pc[r] = "idle",
         who'[r] \in User, pc'[r] \in {"add", "revoke"}, sid' = sid,
         UNCHANGED video, UNCHANGED sessions, UNCHANGED grants, UNCHANGED store
  PROVE  IInv'
<1>0. user' = user /\ kind' = kind /\ raced' = raced /\ cache' = cache
  BY DEF sessions, store
<1>1. Types'
  BY RememberType DEF IInv, Types, video, sessions, grants, store, VideoType, StoreType,
     SessionsType, GrantsType
<1>2. WhoOK'
  BY WhoMove DEF IInv
<1>3. Tickets'
  <2>1. ASSUME NEW p \in Page PROVE Ticket(p)'
    <3>1. \A q \in Request : Held(q, p)' =>
            Held(q, p) /\ (p \in cache' /\ pc[q] = "remove" => pc'[q] = "remove")
      BY DEF Held, Only
    <3> QED BY <1>0, <3>1, TicketShrinks DEF IInv, Tickets
  <2> QED BY <2>1 DEF Tickets
<1>4. Writes' /\ AnsweredTokenWorks'
  BY WritesMove DEF IInv, Writing
<1>5. SeenOK'
  BY AtRest, SeenMove DEF IInv, Types
<1> QED BY <1>1, <1>2, <1>3, <1>4, <1>5 DEF IInv
-----------------------------------------------------------------------------
LEMMA InitIInv == Init => IInv
<1> SUFFICES ASSUME Init PROVE IInv
  OBVIOUS
<1>1. VideoType /\ StoreType /\ GrantsType
  BY DEF Init, VideoType, StoreType, GrantsType
<1>2. SessionsType /\ RequestsType /\ SeenType
  BY DEF Init, SessionsType, RequestsType, SeenType, Tokens, Label
<1>3. WhoOK
  BY DEF Init, WhoOK
<1>4. Tickets
  BY PublicPlaybackAssumption DEF Init, Tickets, Ticket, Held
<1>5. Writes /\ AnsweredTokenWorks
  BY DEF Init, Writes, Written, Writing, Apart, Unanswered, AnsweredTokenWorks
<1>6. SeenOK
  BY DEF Init, SeenOK, Seen, Checked, Authorized, FoundReady
<1> QED BY <1>1, <1>2, <1>3, <1>4, <1>5, <1>6 DEF IInv, Types

LEMMA TryGetValueKeeps ==
  ASSUME IInv, NEW r \in Request, NEW p \in Page, TryGetValue(r, p), Remember
  PROVE  IInv'
<1>0. /\ RequestsType' /\ Only(r) /\ pc[r] = "idle" /\ pc'[r] = "remove"
      /\ who'[r] = p /\ sid' = sid
  <2>1. p \in User /\ "remove" \in Label
    BY DEF User, Label
  <2> QED BY <2>1, BeginMoves DEF TryGetValue, IInv, Types
<1>1. /\ user' = user /\ kind' = kind /\ cache' = cache /\ p \in cache
      /\ raced \subseteq raced' /\ raced' \subseteq raced \cup {p}
      /\ p \notin raced' => \A q \in Request : ~(pc[q] = "remove" /\ who[q] = p)
      /\ UNCHANGED sessions
  BY DEF TryGetValue, sessions
<1>2. Types'
  <2>1. StoreType'
    BY <1>1 DEF TryGetValue, IInv, Types, StoreType
  <2> QED BY <1>0, <2>1, RememberType DEF TryGetValue, IInv, Types, video, sessions,
          grants, VideoType, SessionsType, GrantsType
<1>3. WhoOK'
  BY <1>0, WhoMove DEF IInv, User
<1>4. Tickets'
  <2>1. ASSUME NEW o \in Page PROVE Ticket(o)'
    <3>1. CASE o # p
      <4>1. \A q \in Request : Held(q, o)' =>
              Held(q, o) /\ (o \in cache' /\ pc[q] = "remove" => pc'[q] = "remove")
        BY <1>0, <3>1 DEF Held, Only
      <4> QED BY <1>1, <4>1, TicketShrinks DEF IInv, Tickets
    <3>2. CASE o = p
      <4>1. kind[p] # "none"
        BY <1>1 DEF IInv, Tickets, Ticket
      <4>2. ASSUME p \notin raced'
            PROVE  /\ \A q \in Request : Held(q, p)' => q = r
                   /\ \A s \in Session : user[s] # p
        BY <1>0, <1>1, <4>2 DEF IInv, Tickets, Ticket, Held, Only
      <4> QED BY <1>0, <1>1, <3>2, <4>1, <4>2 DEF Ticket
    <3> QED BY <3>1, <3>2
  <2> QED BY <2>1 DEF Tickets
<1>5. Writes' /\ AnsweredTokenWorks'
  BY <1>0, <1>1, WritesMove DEF IInv, Writing
<1>6. SeenOK'
  BY <1>0, AtRest, SeenMove DEF IInv, Types
<1> QED BY <1>2, <1>3, <1>4, <1>5, <1>6 DEF IInv

LEMMA RemoveKeeps ==
  ASSUME IInv, NEW r \in Request, Remove(r), Remember
  PROVE  IInv'
<1>0. /\ pc[r] = "remove" /\ cache' = cache \ {who[r]} /\ kind' = kind
      /\ raced' = raced /\ UNCHANGED video /\ UNCHANGED sessions /\ UNCHANGED grants
      /\ StoreType'
  BY DEF Remove, video, sessions, grants, IInv, Types, StoreType
<1>1. CASE Finish(r)
  BY <1>0, <1>1, FinishKeeps
<1>2. CASE Step(r, "remove", "check")
  <2>1. "remove" \in Label /\ "check" \in Label
    BY DEF Label
  <2>2. pc'[r] = "check"
    BY <1>2, <2>1, StepMoves DEF IInv, Types
  <2>3. Seen(r)'
    BY <2>2, AtRest
  <2>4. GrantsType'
    BY <1>0 DEF IInv, Types, GrantsType, grants
  <2> QED BY <1>0, <1>2, <2>1, <2>3, <2>4, StepKeeps
<1> QED BY <1>1, <1>2 DEF Remove, Step

LEMMA CheckVideoKeeps ==
  ASSUME IInv, NEW r \in Request, CheckVideo(r), Remember
  PROVE  IInv'
<1>0. /\ UNCHANGED video /\ UNCHANGED sessions /\ UNCHANGED grants
      /\ UNCHANGED store /\ kind' = kind /\ raced' = raced /\ cache' = cache
      /\ allowDemo' = allowDemo /\ StoreType' /\ GrantsType'
  BY DEF CheckVideo, video, sessions, grants, store, IInv, Types, StoreType, GrantsType
<1>1. CASE Finish(r)
  BY <1>0, <1>1, FinishKeeps
<1>2. CASE Playable(who[r]) /\ Step(r, "check", "grant")
  <2>1. "check" \in Label /\ "grant" \in Label
    BY DEF Label
  <2>2. pc'[r] = "grant" /\ who' = who
    BY <1>2, <2>1, StepMoves DEF IInv, Types
  <2>3. "demo" \in Holding(r)'
    BY <1>0, <1>2, <2>2 DEF Holding, Playable
  <2>4. Seen(r)'
    BY <2>2, <2>3, RememberAdds DEF IInv, Types, Seen, Checked, Authorized, FoundReady
  <2> QED BY <1>0, <1>2, <2>1, <2>4, StepKeeps
<1> QED BY <1>1, <1>2 DEF CheckVideo

LEMMA NewRowType ==
  ASSUME GrantsType, NEW u \in User, NEW g \in Row, NewRow(u, g)
  PROVE  GrantsType'
BY DEF GrantsType, NewRow

LEMMA AddTemporaryGrantKeeps ==
  ASSUME IInv, NEW r \in Request, AddTemporaryGrant(r), Remember
  PROVE  IInv'
<1>0. /\ UNCHANGED video /\ UNCHANGED sessions /\ UNCHANGED store
      /\ kind' = kind /\ raced' = raced /\ cache' = cache /\ StoreType'
      /\ Step(r, "grant", "authorize")
  BY DEF AddTemporaryGrant, video, sessions, store, IInv, Types, StoreType
<1>1. "grant" \in Label /\ "authorize" \in Label
  BY DEF Label
<1>2. pc[r] = "grant" /\ pc'[r] = "authorize"
  BY <1>0, <1>1, StepMoves DEF IInv, Types
<1>3. GrantsType'
  BY <1>2, NewRowType DEF AddTemporaryGrant, IInv, Types, WhoOK
<1>4. Seen(r)'
  BY <1>2, RememberAdds DEF IInv, Types, SeenOK, Seen, Checked, Authorized, FoundReady
<1> QED BY <1>0, <1>1, <1>3, <1>4, StepKeeps

LEMMA CreateSessionKeeps ==
  ASSUME IInv, NEW r \in Request, NEW u \in Viewer, CreateSession(r, u), Remember
  PROVE  IInv'
<1>0. /\ UNCHANGED video /\ UNCHANGED sessions /\ UNCHANGED store /\ UNCHANGED grants
      /\ user' = user /\ kind' = kind /\ raced' = raced /\ cache' = cache
  BY DEF CreateSession, video, sessions, store, grants
<1>1. /\ RequestsType' /\ Only(r) /\ pc[r] = "idle" /\ pc'[r] = "authorize"
      /\ who'[r] = u /\ sid' = sid
  <2>1. u \in User /\ "authorize" \in Label
    BY DEF User, Label
  <2> QED BY <2>1, BeginMoves DEF CreateSession, IInv, Types
<1>2. u \notin Page /\ u \in User
  BY PublicPlaybackAssumption DEF User
<1>3. Types'
  BY <1>0, <1>1, RememberType DEF IInv, Types, video, sessions, grants, store, VideoType,
     StoreType, SessionsType, GrantsType
<1>4. WhoOK'
  BY <1>1, <1>2, WhoMove DEF IInv
<1>5. Tickets'
  <2>1. ASSUME NEW p \in Page PROVE Ticket(p)'
    <3>1. \A q \in Request : Held(q, p)' =>
            Held(q, p) /\ (p \in cache' /\ pc[q] = "remove" => pc'[q] = "remove")
      BY <1>1, <1>2 DEF Held, Only
    <3> QED BY <1>0, <3>1, TicketShrinks DEF IInv, Tickets
  <2> QED BY <2>1 DEF Tickets
<1>6. Writes' /\ AnsweredTokenWorks'
  BY <1>0, <1>1, WritesMove DEF IInv, Writing
<1>7. SeenOK'
  <2>1. "demo" \in Holding(r)'
    BY <1>1, <1>2 DEF Holding
  <2>2. Seen(r)'
    BY <1>1, <2>1, RememberAdds DEF IInv, Types, Seen, Checked, Authorized, FoundReady
  <2> QED BY <1>1, <2>2, SeenMove DEF IInv, Types
<1> QED BY <1>3, <1>4, <1>5, <1>6, <1>7 DEF IInv

LEMMA AuthorizeKeeps ==
  ASSUME IInv, NEW r \in Request, Authorize(r), Remember
  PROVE  IInv'
<1>0. /\ UNCHANGED video /\ UNCHANGED sessions /\ UNCHANGED grants
      /\ UNCHANGED store /\ kind' = kind /\ raced' = raced /\ cache' = cache
      /\ StoreType' /\ GrantsType' /\ grantee' = grantee
      /\ revokedRows' = revokedRows /\ expiredRows' = expiredRows
  BY DEF Authorize, video, sessions, grants, store, IInv, Types, StoreType, GrantsType
<1>1. CASE Finish(r)
  BY <1>0, <1>1, FinishKeeps
<1>2. CASE IsAuthorizedAsync(who[r]) /\ Step(r, "authorize", "ready")
  <2>1. "authorize" \in Label /\ "ready" \in Label
    BY DEF Label
  <2>2. pc[r] = "authorize" /\ pc'[r] = "ready" /\ who' = who
    BY <1>2, <2>1, StepMoves DEF IInv, Types
  <2>3. "entitled" \in Holding(r)'
    BY <1>0, <1>2, <2>2 DEF Holding, IsAuthorizedAsync
  <2>4. Seen(r)'
    BY <2>2, <2>3, RememberAdds DEF IInv, Types, SeenOK, Seen, Checked, Authorized,
       FoundReady
  <2> QED BY <1>0, <1>2, <2>1, <2>4, StepKeeps
<1> QED BY <1>1, <1>2 DEF Authorize

LEMMA CheckReadyKeeps ==
  ASSUME IInv, NEW r \in Request, CheckReady(r), Remember
  PROVE  IInv'
<1>0. /\ UNCHANGED video /\ UNCHANGED sessions /\ UNCHANGED grants
      /\ UNCHANGED store /\ kind' = kind /\ raced' = raced /\ cache' = cache
      /\ status' = status /\ StoreType' /\ GrantsType'
  BY DEF CheckReady, video, sessions, grants, store, IInv, Types, StoreType, GrantsType
<1>1. CASE Finish(r)
  BY <1>0, <1>1, FinishKeeps
<1>2. CASE status = "Ready" /\ Step(r, "ready", "insert")
  <2>1. "ready" \in Label /\ "insert" \in Label
    BY DEF Label
  <2>2. pc[r] = "ready" /\ pc'[r] = "insert"
    BY <1>2, <2>1, StepMoves DEF IInv, Types
  <2>3. "ready" \in Holding(r)'
    BY <1>0, <1>2 DEF Holding
  <2>4. Seen(r)'
    BY <2>2, <2>3, RememberAdds DEF IInv, Types, SeenOK, Seen, Checked, Authorized,
       FoundReady
  <2> QED BY <1>0, <1>2, <2>1, <2>4, StepKeeps
<1> QED BY <1>1, <1>2 DEF CheckReady

LEMMA SaveSessionKeeps ==
  ASSUME IInv, NEW r \in Request, SaveSession(r), Remember
  PROVE  IInv'
<1>1. PICK s \in Session :
        /\ user[s] = "none"
        /\ user' = [user EXCEPT ![s] = who[r]]
        /\ hash' = [hash EXCEPT ![s] = FirstToken]
        /\ sid' = [sid EXCEPT ![r] = s]
  BY DEF SaveSession, Absent, FirstToken
<1>2. /\ pc[r] = "insert" /\ who' = who /\ answered' = answered /\ loaded' = loaded
      /\ pc' = [pc EXCEPT ![r] = IF SecureWebRtc THEN "start"
                                 ELSE IF who[r] \in Page THEN "token" ELSE "answer"]
      /\ UNCHANGED video /\ UNCHANGED store /\ UNCHANGED grants
      /\ kind' = kind /\ raced' = raced /\ cache' = cache
  BY DEF SaveSession, Goto, Public, video, store, grants
<1>3. who[r] \in User /\ who[r] # "none"
  BY <1>2, PublicPlaybackAssumption DEF IInv, WhoOK, User
<1>4. /\ pc' \in [Request -> Label] /\ pc'[r] \in {"start", "token", "answer"}
      /\ SecureWebRtc => pc'[r] = "start"
      /\ pc'[r] = "token" => who[r] \in Page
      /\ pc'[r] = "answer" => who[r] \notin Page
      /\ sid' \in [Request -> Session \cup {"none"}] /\ sid'[r] = s /\ Only(r)
  BY <1>1, <1>2 DEF IInv, Types, RequestsType, Label, Only
<1>5. /\ user' \in [Session -> User \cup {"none"}] /\ user'[s] = who[r]
      /\ hash' \in [Session -> Tokens] /\ hash'[s] = FirstToken
      /\ \A t \in Session \ {s} : user'[t] = user[t] /\ hash'[t] = hash[t]
  BY <1>1, <1>3 DEF IInv, Types, SessionsType, FirstToken, Tokens
<1>6. Types'
  <2>1. VideoType' /\ StoreType' /\ GrantsType'
    BY <1>2 DEF IInv, Types, video, store, grants, VideoType, StoreType, GrantsType
  <2>2. SessionsType' /\ RequestsType'
    BY <1>2, <1>4, <1>5 DEF IInv, Types, SessionsType, RequestsType
  <2>. QED  BY <2>1, <2>2, RememberType DEF IInv, Types
<1>7. WhoOK'
  BY <1>2, <1>3, <1>4, WhoMove DEF IInv
<1>8. Tickets'
  <2>1. ASSUME NEW p \in Page PROVE Ticket(p)'
    <3>1. /\ ~Held(r, p)' /\ Ticket(p)
          /\ \A q \in Request : Held(q, p)' => Held(q, p) /\ pc'[q] = pc[q] /\ q # r
      BY <1>2, <1>4 DEF Held, Only, IInv, Tickets
    <3>2. CASE who[r] # p
      <4>1. \A t \in Session : user'[t] = p => user[t] = p
        BY <1>5, <3>2
      <4> QED BY <1>2, <3>1, <4>1 DEF Ticket
    <3>3. CASE who[r] = p
      <4>1. Held(r, p) /\ kind[p] # "none"
        BY <1>2, <3>1, <3>3 DEF Held, Ticket
      <4>2. ASSUME p \notin raced
            PROVE  /\ p \notin cache /\ \A q \in Request : ~Held(q, p)'
                   /\ \A t \in Session : user'[t] = p => t = s
        BY <1>2, <1>5, <3>1, <4>1, <4>2 DEF Ticket
      <4> QED BY <1>2, <4>1, <4>2 DEF Ticket
    <3> QED BY <3>2, <3>3
  <2> QED BY <2>1 DEF Tickets
<1>9. ASSUME NEW q \in Request, q # r, Writing(q) PROVE sid[q] \in Session \ {s}
  <2>1. sid[q] \in Session /\ user[sid[q]] = who[q] /\ who[q] \in User
    BY <1>9 DEF IInv, Writes, Written, WhoOK, Writing
  <2> QED BY <1>1, <2>1, PublicPlaybackAssumption DEF User
<1>10. Writes'
  <2>1. ASSUME NEW q \in Request PROVE Written(q)'
    <3>1. CASE q = r
      <4>1. answered[s] = "no answer"
        BY <1>1 DEF IInv, Writes, Unanswered
      <4> QED BY <1>2, <1>4, <1>5, <3>1, <4>1 DEF Written, Writing
    <3>2. CASE q # r
      <4>1. Writing(q)' => /\ Writing(q) /\ sid[q] \in Session \ {s}
                           /\ pc'[q] = pc[q] /\ sid'[q] = sid[q] /\ Written(q)
        BY <1>4, <1>9, <3>2 DEF IInv, Writes, Writing, Only
      <4>2. Writing(q)' => /\ user'[sid[q]] = user[sid[q]]
                           /\ hash'[sid[q]] = hash[sid[q]]
        BY <1>5, <4>1
      <4> QED BY <1>2, <4>1, <4>2 DEF Written, Writing
    <3> QED BY <3>1, <3>2
  <2>2. Apart'
    BY <1>4, <1>9 DEF IInv, Writes, Apart, Writing, Only
  <2>3. Unanswered'
    BY <1>2, <1>3, <1>5 DEF IInv, Writes, Unanswered
  <2> QED BY <2>1, <2>2, <2>3 DEF Writes
<1>11. AnsweredTokenWorks'
  BY <1>1, <1>2, <1>5 DEF IInv, Writes, Unanswered, AnsweredTokenWorks, TokenAccepted, Public
<1>12. SeenOK'
  <2>1. Seen(r)'
    BY <1>2, <1>4, RememberAdds DEF IInv, Types, SeenOK, Seen, Checked, Authorized,
       FoundReady
  <2> QED BY <1>4, <2>1, SeenMove DEF IInv, Types
<1> QED BY <1>6, <1>7, <1>8, <1>10, <1>11, <1>12 DEF IInv

(* A request with its session moves on. *)
LEMMA WriterMoves ==
  ASSUME IInv, NEW r \in Request, NEW from \in {"start", "token"},
         NEW to \in {"token", "answer"}, Step(r, from, to), Remember
  PROVE  /\ RequestsType' /\ Only(r) /\ pc[r] = from /\ pc'[r] = to
         /\ who' = who /\ sid' = sid /\ WhoOK' /\ SeenOK'
         /\ \A p \in Page, q \in Request : Held(q, p)' => Held(q, p) /\ pc'[q] = pc[q]
<1>0. from \in Label /\ to \in Label
  BY DEF Label
<1>1. /\ RequestsType' /\ Only(r) /\ pc[r] = from /\ pc'[r] = to
      /\ who' = who /\ sid' = sid
  BY <1>0, StepMoves DEF IInv, Types
<1>2. WhoOK'
  BY <1>1 DEF IInv, WhoOK, Only
<1>3. SeenOK'
  <2>1. Seen(r)'
    BY <1>1, RememberAdds DEF IInv, Types, SeenOK, Seen, Checked, Authorized, FoundReady
  <2> QED BY <1>1, <2>1, SeenMove DEF IInv, Types
<1>4. \A p \in Page, q \in Request : Held(q, p)' => Held(q, p) /\ pc'[q] = pc[q]
  BY <1>1 DEF Held, Only
<1> QED BY <1>1, <1>2, <1>3, <1>4

LEMMA StartWorkerKeeps ==
  ASSUME IInv, NEW r \in Request, StartWorker(r), Remember
  PROVE  IInv'
<1>0. /\ UNCHANGED video /\ UNCHANGED sessions /\ UNCHANGED grants /\ UNCHANGED store
      /\ kind' = kind /\ raced' = raced /\ cache' = cache /\ user' = user
      /\ VideoType' /\ StoreType' /\ GrantsType' /\ SessionsType'
  BY DEF StartWorker, video, sessions, grants, store, IInv, Types, VideoType, StoreType,
         GrantsType, SessionsType
<1>1. CASE Finish(r)
  BY <1>0, <1>1, FinishKeeps
<1>2. ASSUME NEW to \in {"token", "answer"}, Step(r, "start", to),
             to = IF Public(who[r]) THEN "token" ELSE "answer"
      PROVE  IInv'
  <2>1. /\ RequestsType' /\ Only(r) /\ pc[r] = "start" /\ pc'[r] = to
        /\ who' = who /\ sid' = sid /\ WhoOK' /\ SeenOK'
        /\ \A p \in Page, q \in Request : Held(q, p)' => Held(q, p) /\ pc'[q] = pc[q]
    BY <1>2, WriterMoves
  <2>2. Types'
    BY <1>0, <2>1, RememberType DEF IInv, Types
  <2>3. Tickets'
    BY <1>0, <2>1, TicketShrinks DEF IInv, Tickets
  <2>4. Written(r)'
    BY <1>0, <1>2, <2>1 DEF IInv, Writes, Written, Writing, sessions, Public
  <2>5. Writes' /\ AnsweredTokenWorks'
    BY <1>0, <2>1, <2>4, WritesMove DEF IInv, Writing
  <2> QED BY <2>1, <2>2, <2>3, <2>5 DEF IInv
<1> QED BY <1>1, <1>2 DEF StartWorker

LEMMA SaveTokenKeeps ==
  ASSUME IInv, NEW r \in Request, SaveToken(r), Remember
  PROVE  IInv'
<1>0. /\ UNCHANGED video /\ UNCHANGED grants /\ UNCHANGED store
      /\ kind' = kind /\ raced' = raced /\ cache' = cache /\ user' = user
      /\ answered' = answered /\ hash' = [hash EXCEPT ![sid[r]] = "Bootstrap"]
      /\ VideoType' /\ StoreType' /\ GrantsType'
  BY DEF SaveToken, video, grants, store, IInv, Types, VideoType, StoreType, GrantsType
<1>1. /\ RequestsType' /\ Only(r) /\ pc[r] = "token" /\ pc'[r] = "answer"
      /\ who' = who /\ sid' = sid /\ WhoOK' /\ SeenOK'
      /\ \A p \in Page, q \in Request : Held(q, p)' => Held(q, p) /\ pc'[q] = pc[q]
  BY WriterMoves DEF SaveToken
<1>2. /\ sid[r] \in Session /\ user[sid[r]] = who[r] /\ who[r] \in Page
      /\ answered[sid[r]] = "no answer"
  BY <1>1 DEF IInv, Writes, Written, Writing
<1>3. /\ hash' \in [Session -> Tokens] /\ hash'[sid[r]] = "Bootstrap"
      /\ \A s \in Session \ {sid[r]} : hash'[s] = hash[s]
  BY <1>0, <1>2 DEF IInv, Types, SessionsType, Tokens
<1>4. Types'
  BY <1>0, <1>1, <1>3, RememberType DEF IInv, Types, SessionsType
<1>5. Tickets'
  BY <1>0, <1>1, TicketShrinks DEF IInv, Tickets
<1>6. Writes'
  <2>1. ASSUME NEW q \in Request PROVE Written(q)'
    <3>1. CASE q = r
      BY <1>0, <1>1, <1>2, <1>3, <3>1 DEF Written, Writing
    <3>2. CASE q # r
      <4>1. Writing(q)' => Writing(q) /\ sid[q] \in Session \ {sid[r]}
        BY <1>1, <3>2 DEF IInv, Writes, Written, Apart, Writing, Only
      <4> QED BY <1>0, <1>1, <1>3, <3>2, <4>1 DEF IInv, Writes, Written, Writing, Only
    <3> QED BY <3>1, <3>2
  <2>2. Apart'
    BY <1>1 DEF IInv, Writes, Apart, Writing, Only
  <2>3. Unanswered'
    BY <1>0 DEF IInv, Writes, Unanswered
  <2> QED BY <2>1, <2>2, <2>3 DEF Writes
<1>7. AnsweredTokenWorks'
  BY <1>0, <1>2, <1>3 DEF IInv, AnsweredTokenWorks, TokenAccepted, Public
<1> QED BY <1>1, <1>4, <1>5, <1>6, <1>7 DEF IInv

LEMMA AnswerKeeps ==
  ASSUME IInv, NEW r \in Request, Answer(r), Remember
  PROVE  IInv'
<1> DEFINE token == IF Public(who[r]) THEN "Bootstrap"
                    ELSE IF SecureWebRtc THEN "CreateAsync" ELSE "none"
<1>0. /\ UNCHANGED video /\ UNCHANGED grants /\ UNCHANGED store
      /\ kind' = kind /\ raced' = raced /\ cache' = cache /\ user' = user
      /\ hash' = hash /\ answered' = [answered EXCEPT ![sid[r]] = token]
      /\ VideoType' /\ StoreType' /\ GrantsType' /\ pc[r] = "answer"
  BY DEF Answer, video, grants, store, IInv, Types, VideoType, StoreType, GrantsType
<1>1. RequestsType' /\ Only(r) /\ pc'[r] = "idle"
  BY FinishMoves DEF Answer, IInv, Types
<1>2. PICK s \in Session : s = sid[r]
  BY <1>0 DEF IInv, Writes, Written, Writing
<1>3. user[s] = who[r] /\ who[r] \in User /\ hash[s] = token
  BY <1>0, <1>2, PublicPlaybackAssumption
     DEF IInv, Writes, Written, Writing, FirstToken, Public, WhoOK
<1>4. user[s] # "none"
  BY <1>3, PublicPlaybackAssumption DEF User
<1>5. token \in Tokens
  BY DEF Tokens
<1> HIDE DEF token
<1>6. /\ answered' \in [Session -> Tokens \cup {"no answer"}]
      /\ answered'[s] = token
      /\ \A t \in Session \ {s} : answered'[t] = answered[t]
  BY <1>0, <1>2, <1>5 DEF IInv, Types, SessionsType
<1>7. Types'
  BY <1>0, <1>1, <1>6, RememberType DEF IInv, Types, SessionsType
<1>8. WhoOK'
  BY <1>1, WhoMove DEF IInv
<1>9. Tickets'
  <2>1. \A p \in Page, q \in Request : Held(q, p)' => Held(q, p) /\ pc'[q] = pc[q]
    BY <1>1 DEF Held, Only
  <2> QED BY <1>0, <2>1, TicketShrinks DEF IInv, Tickets
<1>10. Writes'
  <2>1. ASSUME NEW q \in Request PROVE Written(q)'
    <3>1. CASE q = r
      BY <1>1, <3>1 DEF Written, Writing
    <3>2. CASE q # r
      <4>1. Writing(q)' => /\ Writing(q) /\ sid[q] \in Session \ {s} /\ Written(q)
                           /\ pc'[q] = pc[q] /\ sid'[q] = sid[q] /\ who'[q] = who[q]
        BY <1>0, <1>1, <1>2, <3>2 DEF IInv, Writes, Written, Apart, Writing, Only
      <4>2. Writing(q)' => answered'[sid[q]] = answered[sid[q]]
        BY <1>6, <4>1
      <4> QED BY <1>0, <4>1, <4>2 DEF Written, Writing
    <3> QED BY <3>1, <3>2
  <2>2. Apart'
    BY <1>1 DEF IInv, Writes, Apart, Writing, Only
  <2>3. Unanswered'
    BY <1>0, <1>4, <1>6 DEF IInv, Writes, Unanswered
  <2> QED BY <2>1, <2>2, <2>3 DEF Writes
<1>11. AnsweredTokenWorks'
  <2>1. TokenAccepted(s)'
    BY <1>0, <1>3, <1>6, PublicPlaybackAssumption DEF TokenAccepted, Public, token
  <2>2. ASSUME NEW t \in Session \ {s}, answered'[t] # "no answer"
        PROVE  TokenAccepted(t)'
    BY <1>0, <1>6, <2>2 DEF IInv, AnsweredTokenWorks, TokenAccepted, Public
  <2> QED BY <2>1, <2>2 DEF AnsweredTokenWorks
<1>12. SeenOK'
  BY <1>1, AtRest, SeenMove DEF IInv, Types
<1> QED BY <1>7, <1>8, <1>9, <1>10, <1>11, <1>12 DEF IInv

LEMMA AbortKeeps ==
  ASSUME IInv, NEW r \in Request, Abort(r), Remember
  PROVE  IInv'
<1>0. /\ Finish(r) /\ UNCHANGED video /\ UNCHANGED sessions /\ UNCHANGED grants
      /\ kind' = kind /\ raced' = raced /\ cache' = cache /\ StoreType'
  BY DEF Abort, video, sessions, grants, store, IInv, Types, StoreType
<1> QED BY <1>0, FinishKeeps

LEMMA GrantKeeps ==
  ASSUME IInv, NEW r \in Request, Remember,
         \/ \E u \in Viewer : Grant(r, u)
         \/ \E u \in User : RevokeUserAccess(r, u)
  PROVE  IInv'
<1>1. ASSUME NEW u \in Viewer, Grant(r, u) PROVE IInv'
  <2>1. u \in User /\ "add" \in Label
    BY DEF User, Label
  <2>2. /\ RequestsType' /\ Only(r) /\ pc[r] = "idle" /\ pc'[r] = "add"
        /\ who'[r] = u /\ sid' = sid
    BY <1>1, <2>1, BeginMoves DEF Grant, IInv, Types
  <2> QED BY <1>1, <2>1, <2>2, BeginKeeps DEF Grant
<1>2. ASSUME NEW u \in User, RevokeUserAccess(r, u) PROVE IInv'
  <2>1. /\ RequestsType' /\ Only(r) /\ pc[r] = "idle" /\ pc'[r] = "revoke"
        /\ who'[r] = u /\ sid' = sid
    BY <1>2 DEF RevokeUserAccess, Goto, IInv, Types, RequestsType, Label, Only
  <2>2. UNCHANGED video /\ UNCHANGED sessions /\ UNCHANGED grants /\ UNCHANGED store
    BY <1>2 DEF RevokeUserAccess
  <2> QED BY <2>1, <2>2, BeginKeeps
<1> QED BY <1>1, <1>2

(* An administrator's request saves its rows and ends. *)
LEMMA SaveGrantKeeps ==
  ASSUME IInv, NEW r \in Request, SaveGrant(r) \/ SaveRevocation(r), Remember
  PROVE  IInv'
<1>0. /\ UNCHANGED video /\ UNCHANGED sessions /\ UNCHANGED store
      /\ kind' = kind /\ raced' = raced /\ cache' = cache /\ user' = user
      /\ VideoType' /\ StoreType' /\ SessionsType'
  BY DEF SaveGrant, SaveRevocation, video, sessions, store, IInv, Types, VideoType,
         StoreType, SessionsType
<1>1. RequestsType' /\ Only(r) /\ pc'[r] = "idle"
  BY FinishMoves DEF SaveGrant, SaveRevocation, IInv, Types
<1>2. GrantsType'
  <2>1. CASE SaveGrant(r)
    BY <2>1, NewRowType DEF SaveGrant, IInv, Types, WhoOK
  <2>2. CASE SaveRevocation(r)
    BY <2>2 DEF SaveRevocation, IInv, Types, GrantsType, RequestsType
  <2> QED BY <2>1, <2>2
<1>3. Types'
  BY <1>0, <1>1, <1>2, RememberType DEF IInv, Types
<1>4. WhoOK'
  BY <1>1, WhoMove DEF IInv
<1>5. Tickets'
  <2>1. \A p \in Page, q \in Request : Held(q, p)' => Held(q, p) /\ pc'[q] = pc[q]
    BY <1>1 DEF Held, Only
  <2> QED BY <1>0, <2>1, TicketShrinks DEF IInv, Tickets
<1>6. Writes' /\ AnsweredTokenWorks'
  BY <1>0, <1>1, WritesMove DEF IInv, Writing
<1>7. SeenOK'
  BY <1>1, AtRest, SeenMove DEF IInv, Types
<1> QED BY <1>3, <1>4, <1>5, <1>6, <1>7 DEF IInv

(* A page is opened. *)
LEMMA WatchKeeps ==
  ASSUME IInv, NEW p \in Page, WatchEmbed(p) \/ WatchDemo(p), Remember
  PROVE  IInv'
<1>0. /\ UNCHANGED video /\ UNCHANGED sessions /\ UNCHANGED grants
      /\ pc' = pc /\ who' = who /\ sid' = sid /\ loaded' = loaded /\ user' = user
      /\ kind[p] = "none" /\ cache' = cache \cup {p} /\ raced' = raced
      /\ expiredPages' = expiredPages
      /\ \E how \in {"Demo", "Embed"} : kind' = [kind EXCEPT ![p] = how]
  BY DEF WatchEmbed, WatchDemo, Create, sessions
<1>1. /\ StoreType' /\ kind'[p] # "none"
      /\ \A o \in Page \ {p} : kind'[o] = kind[o]
  BY <1>0 DEF IInv, Types, StoreType
<1>2. Types'
  BY <1>0, <1>1, RememberType DEF IInv, Types, video, sessions, grants, VideoType,
     SessionsType, GrantsType, RequestsType
<1>3. WhoOK'
  BY <1>0 DEF IInv, WhoOK
<1>4. Tickets'
  <2>1. ASSUME NEW o \in Page PROVE Ticket(o)'
    <3>1. Ticket(o) /\ \A r \in Request : Held(r, o)' <=> Held(r, o)
      BY <1>0 DEF IInv, Tickets, Held
    <3>2. CASE o = p
      BY <1>0, <1>1, <3>1, <3>2 DEF Ticket
    <3>3. CASE o # p
      BY <1>0, <1>1, <3>1, <3>3 DEF Ticket
    <3> QED BY <3>2, <3>3
  <2> QED BY <2>1 DEF Tickets
<1>5. Writes' /\ AnsweredTokenWorks'
  BY <1>0, WritesElsewhere DEF IInv
<1>6. SeenOK'
  BY <1>0, SeenElsewhere DEF IInv, Types
<1> QED BY <1>2, <1>3, <1>4, <1>5, <1>6 DEF IInv

(* The catalog, the settings, the clock and the administrator's links. *)
LEMMA EnvironmentKeeps ==
  ASSUME IInv, Remember,
         \/ Generate \/ StatusChanges \/ KeyChanges \/ LinkExpires
         \/ \E p \in Page : BootstrapExpires(p)
         \/ \E g \in Row : GrantExpires(g)
  PROVE  IInv'
<1>0. /\ UNCHANGED sessions /\ pc' = pc /\ who' = who /\ sid' = sid /\ loaded' = loaded
      /\ user' = user /\ kind' = kind /\ raced' = raced /\ cache' \subseteq cache
      /\ VideoType' /\ StoreType' /\ GrantsType'
  <2>1. CASE Generate
    BY <2>1 DEF Generate, store, grants, sessions, IInv, Types, VideoType, StoreType,
                GrantsType
  <2>2. CASE StatusChanges
    BY <2>2 DEF StatusChanges, Requests, store, grants, sessions, IInv, Types, VideoType,
                StoreType, GrantsType
  <2>3. CASE KeyChanges
    BY <2>3 DEF KeyChanges, Requests, store, grants, sessions, IInv, Types, VideoType,
                StoreType, GrantsType
  <2>4. CASE LinkExpires
    BY <2>4 DEF LinkExpires, Requests, store, grants, sessions, IInv, Types, VideoType,
                StoreType, GrantsType
  <2>5. ASSUME NEW p \in Page, BootstrapExpires(p) PROVE <1>0!:
    BY <2>5 DEF BootstrapExpires, Requests, video, grants, sessions, IInv, Types,
                VideoType, StoreType, GrantsType
  <2>6. ASSUME NEW g \in Row, GrantExpires(g) PROVE <1>0!:
    BY <2>6 DEF GrantExpires, Requests, video, store, sessions, IInv, Types,
                VideoType, StoreType, GrantsType
  <2> QED BY <2>1, <2>2, <2>3, <2>4, <2>5, <2>6
<1>1. Types'
  BY <1>0, RememberType DEF IInv, Types, sessions, SessionsType, RequestsType
<1>2. WhoOK'
  BY <1>0 DEF IInv, WhoOK
<1>3. Tickets'
  BY <1>0, TicketsElsewhere DEF IInv
<1>4. Writes' /\ AnsweredTokenWorks'
  BY <1>0, WritesElsewhere DEF IInv
<1>5. SeenOK'
  BY <1>0, SeenElsewhere DEF IInv, Types
<1> QED BY <1>1, <1>2, <1>3, <1>4, <1>5 DEF IInv

LEMMA NextIInv == IInv /\ [Next]_vars => IInv'
<1> SUFFICES ASSUME IInv, [Next]_vars PROVE IInv'
  OBVIOUS
<1>1. CASE UNCHANGED vars
  <2>1. Types' /\ WhoOK'
    BY <1>1 DEF vars, IInv, Types, VideoType, StoreType, GrantsType, SessionsType,
                RequestsType, SeenType, WhoOK
  <2>2. Tickets'
    BY <1>1, TicketsElsewhere DEF vars, IInv
  <2>3. Writes' /\ AnsweredTokenWorks'
    BY <1>1, WritesElsewhere DEF vars, sessions, IInv
  <2>4. SeenOK'
    BY <1>1 DEF vars, IInv, SeenOK, Seen
  <2> QED BY <2>1, <2>2, <2>3, <2>4 DEF IInv
<1>2. ASSUME NEW r \in Request, Remember,
             \/ \E p \in Page : TryGetValue(r, p)
             \/ Remove(r) \/ CheckVideo(r) \/ AddTemporaryGrant(r)
             \/ \E u \in Viewer : CreateSession(r, u)
             \/ Authorize(r) \/ CheckReady(r) \/ SaveSession(r)
      PROVE  IInv'
  BY <1>2, TryGetValueKeeps, RemoveKeeps, CheckVideoKeeps, AddTemporaryGrantKeeps,
     CreateSessionKeeps, AuthorizeKeeps, CheckReadyKeeps, SaveSessionKeeps
<1>3. ASSUME NEW r \in Request, Remember,
             \/ StartWorker(r) \/ SaveToken(r) \/ Answer(r) \/ Abort(r)
             \/ \E u \in Viewer : Grant(r, u)
             \/ \E u \in User : RevokeUserAccess(r, u)
             \/ SaveGrant(r) \/ SaveRevocation(r)
      PROVE  IInv'
  BY <1>3, StartWorkerKeeps, SaveTokenKeeps, AnswerKeeps, AbortKeeps, GrantKeeps,
     SaveGrantKeeps
<1>4. ASSUME NEW p \in Page, Remember, WatchEmbed(p) \/ WatchDemo(p) PROVE IInv'
  BY <1>4, WatchKeeps
<1>5. ASSUME Remember,
             \/ Generate \/ StatusChanges \/ KeyChanges \/ LinkExpires
             \/ \E p \in Page : BootstrapExpires(p)
             \/ \E g \in Row : GrantExpires(g)
      PROVE  IInv'
  BY <1>5, EnvironmentKeeps
<1> QED BY <1>1, <1>2, <1>3, <1>4, <1>5 DEF Next

LEMMA Inductive == Spec => []IInv
<1>1. Init => IInv
  BY InitIInv
<1>2. IInv /\ [Next]_vars => IInv'
  BY NextIInv
<1> QED BY <1>1, <1>2, PTL DEF Spec
-----------------------------------------------------------------------------
(* Every row, cache entry and request keeps its type. *)
THEOREM TypeCorrect == Spec => []TypeOK
<1>1. IInv => TypeOK
  BY DEF IInv, Types, VideoType, StoreType, GrantsType, SessionsType, RequestsType,
         SeenType, TypeOK, Label
<1> QED BY <1>1, Inductive, PTL

(* A session is created only by a request during which the video was ready,
   the user entitled and a demo page allowed. *)
THEOREM PermittedDuringRequestHolds == Spec => []PermittedDuringRequest
<1>1. IInv => PermittedDuringRequest
  BY DEF IInv, Types, SeenType, SeenOK, Seen, Checked, Authorized, FoundReady,
         PermittedDuringRequest
<1> QED BY <1>1, Inductive, PTL

(* TryConsume trades a bootstrap for one session, unless two requests held it
   before either removed it. *)
THEOREM OneSessionPerPageHolds == Spec => []OneSessionPerPage
<1>1. IInv => OneSessionPerPage
  BY DEF IInv, Tickets, Ticket, OneSessionPerPage, Public
<1> QED BY <1>1, Inductive, PTL

(* The token a client was answered with is the one its session's row asks for,
   whichever of the two saves wrote it. *)
THEOREM AnsweredTokenWorksHolds == Spec => []AnsweredTokenWorks
<1>1. IInv => AnsweredTokenWorks
  BY DEF IInv
<1> QED BY <1>1, Inductive, PTL

=============================================================================
