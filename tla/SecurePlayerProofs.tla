-------------------------- MODULE SecurePlayerProofs --------------------------
(***************************************************************************)
(* Theorems about SecurePlayer for any number of calls, any film and any   *)
(* number of attempts and processes.                                       *)
(***************************************************************************)
EXTENDS SecurePlayer, TLAPS

PageType ==
  /\ phase \in {"offering", "playing", "ready", "seeking", "failed", "left"}
  /\ installed \in BOOLEAN
  /\ await \in Call \cup {"none"}
  /\ held \in Process \cup {0} /\ newProcess \in Process \cup {0}
  /\ base \in 0..Last /\ newBase \in 0..Last
  /\ heldOpen \in BOOLEAN /\ newOpen \in BOOLEAN
  /\ lastPos \in 0..MaxPos

Label == {"idle", "validate", "attempt", "delay", "stop", "start", "save", "stopClose",
          "saveClose", "answered"}

CallsType ==
  /\ kind \in [Call -> {"none", "offer", "seek", "close"}]
  /\ at \in [Call -> Label]
  /\ position \in [Call -> Nat]
  /\ attempt \in [Call -> 0..MaxAttempts]
  /\ result \in [Call -> Process \cup {0}]

ServerType ==
  /\ ended \in BOOLEAN /\ lastKnown \in Nat
  /\ streaming \in Process \cup {0} /\ started \in Process
  /\ start \in [Process -> 0..Last]
  /\ overlapped \in BOOLEAN

(* One peer at a time: the new one belongs to the phases in which the old one
   is closed.  An awaited call is of the kind the page waits for. *)
PeersOK ==
  /\ newOpen => phase \in {"offering", "playing"}
  /\ phase \in {"offering", "playing"} => ~heldOpen

AwaitOK ==
  /\ phase = "seeking" => await # "none" /\ kind[await] = "seek"
  /\ phase = "offering" /\ await # "none" => kind[await] = "offer"
  /\ await # "none" => at[await] # "idle" /\ phase \in {"offering", "seeking"}

(* A call under way is of the kind whose handler it runs, and its position has
   been clamped unless it was refused. *)
CallOK(c) ==
  /\ at[c] = "idle" => kind[c] = "none"
  /\ at[c] \in {"attempt", "delay"} => kind[c] = "offer" /\ attempt[c] # 0
  /\ at[c] = "attempt" => attempt[c] <= MaxAttempts
  /\ at[c] = "delay" => attempt[c] < MaxAttempts
  /\ at[c] \in {"stop", "start", "save"} => kind[c] = "seek"
  /\ at[c] \notin {"idle", "validate"} /\ (at[c] = "answered" => result[c] # 0) =>
       position[c] <= Last

Seeking(c) == kind[c] = "seek" /\ at[c] # "answered"

(* Processes are numbered as they start; only the last one may stream. *)
WorkerOK ==
  /\ streaming \in {0, started} /\ held <= started /\ newProcess <= started
  /\ \A c \in Call : result[c] <= started

(* What holds as long as no two seeks have been in flight together: a page that
   connects is alone with its stream, which was started where the page thinks. *)
Aligned ==
  /\ \A c, d \in Call : Seeking(c) /\ Seeking(d) => c = d
  /\ phase \in {"offering", "playing"} => \A c \in Call : ~Seeking(c)
  /\ phase = "seeking" => \A c \in Call : Seeking(c) => c = await
  /\ \A c \in Call : at[c] = "start" => streaming = 0
  /\ \A c \in Call : at[c] = "save" => position[c] = start[started]
  /\ phase = "seeking" /\ at[await] = "answered" /\ result[await] # 0 =>
       position[await] = start[started]
  /\ phase \in {"offering", "playing"} /\ streaming # 0 => newBase = start[streaming]
  /\ Watching => base = start[held]

IInv ==
  /\ PageType /\ CallsType /\ ServerType
  /\ PeersOK /\ AwaitOK /\ (\A c \in Call : CallOK(c)) /\ WorkerOK
  /\ overlapped \/ Aligned

USE SecurePlayerAssumption
-----------------------------------------------------------------------------
LEMMA Types == PageType /\ CallsType /\ ServerType <=> TypeOK
BY DEF TypeOK, PageType, CallsType, ServerType, Label

LEMMA InitIInv == Init => IInv
<1>. SUFFICES ASSUME Init  PROVE IInv
  OBVIOUS
<1>1. PageType /\ CallsType
  <2>. 0 \in 0..Last /\ 0 \in 0..MaxPos /\ 0 \in 0..MaxAttempts
    OBVIOUS
  <2>. QED  BY DEF Init, PageType, CallsType, Label
<1>4. ServerType
  <2>. 1 \in Process /\ 0 \in 0..Last
    BY DEF Process
  <2>. QED  BY DEF Init, ServerType
<1>2. PeersOK /\ AwaitOK /\ WorkerOK /\ \A c \in Call : CallOK(c)
  BY DEF Init, PeersOK, AwaitOK, WorkerOK, CallOK
<1>3. Aligned
  BY DEF Init, Aligned, Seeking, Watching, Process
<1>. QED  BY <1>1, <1>2, <1>3, <1>4 DEF IInv
-----------------------------------------------------------------------------
(* What a step of the server does to call c. *)
Only(c) ==
  \A d \in Call \ {c} :
    /\ kind'[d] = kind[d] /\ at'[d] = at[d] /\ position'[d] = position[d]
    /\ attempt'[d] = attempt[d] /\ result'[d] = result[d]

LEMMA CallsOnly ==
  ASSUME \A d \in Call : CallOK(d), NEW c \in Call, Only(c), CallOK(c)'
  PROVE  \A d \in Call : CallOK(d)'
BY DEF Only, CallOK

LEMMA SendOK ==
  ASSUME CallsType, NEW c \in Call, NEW what \in {"offer", "seek", "close"}, NEW p \in Nat,
         Send(c, what, p)
  PROVE  /\ CallsType' /\ Only(c) /\ CallOK(c)' /\ at[c] = "idle"
         /\ at'[c] = "validate" /\ kind'[c] = what
<1>1. CallsType' /\ Only(c) /\ at'[c] = "validate" /\ kind'[c] = what /\ at[c] = "idle"
  BY DEF CallsType, Send, Only, Label
<1>. QED  BY <1>1 DEF CallOK

LEMMA FreeOK ==
  ASSUME CallsType, NEW c \in Call, Free(c)
  PROVE  /\ CallsType' /\ Only(c) /\ CallOK(c)'
         /\ at'[c] = "idle" /\ kind'[c] = "none" /\ result'[c] = 0
<1>1. CallsType' /\ Only(c) /\ at'[c] = "idle" /\ kind'[c] = "none" /\ result'[c] = 0
  BY DEF CallsType, Free, Only, Label
<1>. QED  BY <1>1 DEF CallOK

LEMMA RespondOK ==
  ASSUME CallsType, NEW c \in Call, NEW value \in Process \cup {0}, Respond(c, value),
         value # 0 => position[c] <= Last
  PROVE  /\ CallsType' /\ Only(c) /\ CallOK(c)'
         /\ at'[c] \in {"answered", "idle"} /\ ~Seeking(c)' /\ result'[c] \in {0, value}
         /\ await = c => /\ at'[c] = "answered" /\ kind'[c] = kind[c]
                         /\ result'[c] = value /\ position'[c] = position[c]
<1>1. CASE await = c
  <2>1. /\ CallsType' /\ Only(c) /\ at'[c] = "answered" /\ result'[c] = value
        /\ kind'[c] = kind[c] /\ position'[c] = position[c]
    BY <1>1 DEF CallsType, Respond, Only, Label
  <2>. QED  BY <2>1 DEF CallOK, Seeking
<1>2. CASE await # c
  BY <1>2, FreeOK DEF Respond, Seeking
<1>. QED  BY <1>1, <1>2

(* A step of the server leaves the page alone. *)
LEMMA ServerAwaits ==
  ASSUME IInv, NEW c \in Call, Only(c), UNCHANGED page, at[c] # "idle",
         await = c => at'[c] # "idle" /\ kind'[c] = kind[c]
  PROVE  PageType' /\ PeersOK' /\ AwaitOK'
<1>1. PageType' /\ PeersOK'
  BY DEF IInv, PageType, PeersOK, page, peers
<1>2. AwaitOK'
  BY DEF IInv, PageType, AwaitOK, Only, page
<1>. QED  BY <1>1, <1>2

LEMMA StartedType == IInv => started \in Nat /\ 0 <= started /\ streaming <= started
BY DEF IInv, ServerType, WorkerOK, Process

(* The handler of c has answered and changed nothing that matters here. *)
LEMMA Answered ==
  ASSUME IInv, NEW c \in Call, NEW value \in Process \cup {0}, Respond(c, value),
         value <= started, value # 0 => position[c] <= Last, at[c] \notin {"idle", "answered"},
         value # 0 /\ ~overlapped /\ phase = "seeking" /\ await = c => position[c] = start[started],
         UNCHANGED <<page, started, start, overlapped>>, streaming' \in {0, streaming},
         lastKnown' \in Nat, ended' \in BOOLEAN
  PROVE  IInv'
<1>1. /\ CallsType' /\ Only(c) /\ CallOK(c)' /\ at'[c] \in {"answered", "idle"} /\ ~Seeking(c)'
      /\ result'[c] \in {0, value}
      /\ await = c => /\ at'[c] = "answered" /\ kind'[c] = kind[c]
                      /\ result'[c] = value /\ position'[c] = position[c]
  BY RespondOK DEF IInv
<1>2. PageType' /\ PeersOK' /\ AwaitOK'
  BY <1>1, ServerAwaits
<1>3. ServerType' /\ WorkerOK'
  <2>1. started \in Nat
    BY DEF IInv, ServerType, Process
  <2>2. \A d \in Call : result'[d] <= started
    BY <1>1, <2>1 DEF IInv, WorkerOK, Only
  <2>. QED  BY <2>2 DEF IInv, ServerType, WorkerOK, page, peers
<1>4. \A d \in Call : CallOK(d)'
  BY <1>1, CallsOnly DEF IInv
<1>5. ASSUME ~overlapped  PROVE Aligned'
  <2>. Aligned
    BY <1>5 DEF IInv
  <2>1. \A d \in Call : Seeking(d)' => Seeking(d) /\ d # c
    BY <1>1 DEF Seeking, Only
  <2>2. \A d \in Call : at'[d] \in {"start", "save"} =>
          d # c /\ at'[d] = at[d] /\ position'[d] = position[d]
    BY <1>1 DEF Only
  <2>3. phase' = "seeking" /\ at'[await'] = "answered" /\ result'[await'] # 0 =>
          position'[await'] = start'[started']
    <3>1. CASE await = c
      BY <1>1, <1>5, <3>1 DEF page
    <3>2. CASE await # c
      BY <1>1, <3>2 DEF page, Only, IInv, AwaitOK, PageType, Aligned
    <3>. QED  BY <3>1, <3>2
  <2>4. (phase' \in {"offering", "playing"} /\ streaming' # 0 => newBase' = start'[streaming'])
        /\ (Watching' => base' = start'[held'])
    BY DEF Aligned, Watching, page, peers
  <2>. QED  BY <2>1, <2>2, <2>3, <2>4 DEF Aligned, page
<1>. QED  BY <1>1, <1>2, <1>3, <1>4, <1>5 DEF IInv

(* The handler of c goes on. *)
LEMMA Moved ==
  ASSUME IInv, NEW c \in Call, NEW to \in Label, at[c] \notin {"idle", "answered"},
         CallsType', Only(c), at'[c] = to, kind'[c] = kind[c], result'[c] = result[c],
         CallOK(c)', UNCHANGED <<page, row, started, start, overlapped>>,
         streaming' \in {0, streaming}, to \notin {"idle", "answered", "save"},
         to = "start" => streaming' = 0
  PROVE  IInv'
<1>1. \A d \in Call : kind'[d] = kind[d]
  BY DEF Only
<1>2. PageType' /\ PeersOK' /\ AwaitOK'
  BY ServerAwaits
<1>3. ServerType' /\ WorkerOK'
  BY DEF IInv, ServerType, WorkerOK, page, peers, row, Only
<1>4. \A d \in Call : CallOK(d)'
  BY CallsOnly DEF IInv
<1>5. ASSUME ~overlapped  PROVE Aligned'
  <2>. Aligned
    BY <1>5 DEF IInv
  <2>1. \A d \in Call : Seeking(d)' => Seeking(d)
    BY <1>1 DEF Seeking, Only
  <2>2. \A d \in Call : /\ at'[d] = "start" => streaming' = 0
                        /\ at'[d] = "save" => position'[d] = start'[started']
    BY <1>1 DEF Only, Aligned
  <2>3. phase' = "seeking" /\ at'[await'] = "answered" /\ result'[await'] # 0 =>
          position'[await'] = start'[started']
    BY <1>1 DEF page, Only, IInv, AwaitOK, PageType, Aligned
  <2>4. (phase' \in {"offering", "playing"} /\ streaming' # 0 => newBase' = start'[streaming'])
        /\ (Watching' => base' = start'[held'])
    BY DEF Aligned, Watching, page, peers
  <2>. QED  BY <2>1, <2>2, <2>3, <2>4 DEF Aligned, page
<1>. QED  BY <1>2, <1>3, <1>4, <1>5 DEF IInv

LEMMA MoveOK ==
  ASSUME CallsType, NEW c \in Call, NEW to \in Label, Move(c, to)
  PROVE  /\ CallsType' /\ Only(c) /\ at'[c] = to
         /\ kind' = kind /\ position' = position /\ attempt' = attempt /\ result' = result
BY DEF CallsType, Move, Only

LEMMA ClampOK == \A p \in Nat : Clamp(p) \in 0..Last
BY DEF Clamp

LEMMA ValidateKeeps ==
  ASSUME IInv, NEW c \in Call, ValidateSessionAsync(c)
  PROVE  IInv'
<1>0. at[c] = "validate" /\ UNCHANGED <<page, row, worker, overlapped>>
  BY DEF ValidateSessionAsync
<1>1. CASE ended
  BY <1>0, <1>1, StartedType, Answered DEF ValidateSessionAsync, row, worker, IInv, ServerType
<1>2. CASE ~ended
  <2>. DEFINE to == CASE kind[c] = "offer" -> "attempt"
                      [] kind[c] = "seek"  -> "stop"
                      [] OTHER             -> "stopClose"
  <2>1. /\ at' = [at EXCEPT ![c] = to]
        /\ position' = [position EXCEPT ![c] = Clamp(position[c])]
        /\ attempt' = [attempt EXCEPT ![c] = IF kind[c] = "offer" THEN 1 ELSE 0]
        /\ UNCHANGED <<kind, result>>
    BY <1>2 DEF ValidateSessionAsync
  <2>2. to \in {"attempt", "stop", "stopClose"} /\ to \in Label
    BY DEF Label
  <2>3. to = "stop" <=> kind[c] = "seek"
    OBVIOUS
  <2>4. to = "attempt" <=> kind[c] = "offer"
    OBVIOUS
  <2>. HIDE DEF to
  <2>5. CallsType' /\ Only(c) /\ at'[c] = to /\ kind' = kind /\ result' = result
    BY <2>1, <2>2, ClampOK DEF IInv, CallsType, Only
  <2>6. CallOK(c)'
    <3>. position'[c] \in 0..Last /\ attempt'[c] = IF kind[c] = "offer" THEN 1 ELSE 0
      BY <2>1, ClampOK DEF IInv, CallsType
    <3>. QED  BY <2>2, <2>3, <2>4, <2>5 DEF CallOK
  <2>. QED  BY <1>0, <2>2, <2>5, <2>6, Moved DEF worker
<1>. QED  BY <1>1, <1>2

LEMMA AttemptKeeps ==
  ASSUME IInv, NEW c \in Call, Attempt(c)
  PROVE  IInv'
<1>0. /\ at[c] = "attempt" /\ UNCHANGED <<page, row, worker, overlapped>>
      /\ "delay" \in Label /\ kind[c] = "offer" /\ position[c] <= Last /\ attempt[c] # 0
  BY DEF Attempt, Label, IInv, CallOK
<1>. lastKnown \in Nat /\ ended \in BOOLEAN /\ streaming \in Process \cup {0}
  BY DEF IInv, ServerType
<1>1. CASE streaming # 0 /\ Respond(c, streaming)
  <2>. ~(phase = "seeking" /\ await = c)
    BY <1>0 DEF IInv, AwaitOK
  <2>. QED  BY <1>0, <1>1, StartedType, Answered DEF row, worker
<1>2. CASE attempt[c] < MaxAttempts /\ Move(c, "delay")
  <2>1. CallsType' /\ Only(c) /\ at'[c] = "delay" /\ kind' = kind /\ position' = position
        /\ attempt' = attempt /\ result' = result
    BY <1>0, <1>2, MoveOK DEF IInv
  <2>2. CallOK(c)'
    BY <1>0, <1>2, <2>1 DEF CallOK
  <2>. QED  BY <1>0, <2>1, <2>2, Moved DEF worker
<1>3. CASE Respond(c, 0)
  BY <1>0, <1>3, StartedType, Answered DEF row, worker
<1>. QED  BY <1>1, <1>2, <1>3 DEF Attempt

LEMMA DelayKeeps ==
  ASSUME IInv, NEW c \in Call, Delay(c)
  PROVE  IInv'
<1>0. at[c] = "delay" /\ UNCHANGED <<page, row, worker, overlapped>>
  BY DEF Delay
<1>. lastKnown \in Nat /\ ended \in BOOLEAN
  BY DEF IInv, ServerType
<1>1. CASE /\ at' = [at EXCEPT ![c] = "attempt"]
           /\ attempt' = [attempt EXCEPT ![c] = attempt[c] + 1]
           /\ UNCHANGED <<kind, position, result>>
  <2>0. kind[c] = "offer" /\ position[c] <= Last /\ attempt[c] < MaxAttempts
    BY <1>0 DEF IInv, CallOK
  <2>1. /\ CallsType' /\ Only(c) /\ at'[c] = "attempt" /\ kind' = kind /\ position' = position
        /\ attempt'[c] = attempt[c] + 1 /\ attempt[c] \in Nat /\ result' = result
    BY <1>1, <2>0 DEF IInv, CallsType, Only, Label
  <2>2. CallOK(c)'
    BY <2>0, <2>1 DEF CallOK
  <2>. QED  BY <1>0, <2>1, <2>2, Moved DEF worker, Label
<1>2. CASE Respond(c, 0)
  BY <1>0, <1>2, StartedType, Answered DEF row, worker
<1>. QED  BY <1>1, <1>2 DEF Delay

LEMMA StopWorkerKeeps ==
  ASSUME IInv, NEW c \in Call, StopWorker(c)
  PROVE  IInv'
<1>0. /\ at[c] = "stop" /\ streaming' = 0 /\ Move(c, "start") /\ "start" \in Label
      /\ UNCHANGED <<page, row, started, start, overlapped>>
      /\ kind[c] = "seek" /\ position[c] <= Last
  BY DEF StopWorker, Label, IInv, CallOK
<1>1. /\ CallsType' /\ Only(c) /\ at'[c] = "start" /\ kind' = kind /\ position' = position
      /\ result' = result
  BY <1>0, MoveOK DEF IInv
<1>2. CallOK(c)'
  BY <1>0, <1>1 DEF CallOK
<1>. QED  BY <1>0, <1>1, <1>2, Moved

LEMMA StopForCloseKeeps ==
  ASSUME IInv, NEW c \in Call, StopForClose(c)
  PROVE  IInv'
<1>0. /\ at[c] = "stopClose" /\ streaming' = 0 /\ Move(c, "saveClose") /\ "saveClose" \in Label
      /\ UNCHANGED <<page, row, started, start, overlapped>>
      /\ position[c] <= Last
  BY DEF StopForClose, Label, IInv, CallOK
<1>1. /\ CallsType' /\ Only(c) /\ at'[c] = "saveClose" /\ kind' = kind /\ position' = position
      /\ result' = result
  BY <1>0, MoveOK DEF IInv
<1>2. CallOK(c)'
  BY <1>0, <1>1 DEF CallOK
<1>. QED  BY <1>0, <1>1, <1>2, Moved

(* The new process is the last one, started at the position of the only seek. *)
LEMMA StartWorkerKeeps ==
  ASSUME IInv, NEW c \in Call, StartWorker(c)
  PROVE  IInv'
<1>0. /\ at[c] = "start" /\ UNCHANGED <<page, row, overlapped>> /\ "save" \in Label
      /\ kind[c] = "seek" /\ position[c] \in 0..Last
  BY DEF StartWorker, Label, IInv, CallOK, CallsType
<1>. lastKnown \in Nat /\ ended \in BOOLEAN
  BY DEF IInv, ServerType
<1>1. CASE Move(c, "save") /\ (overlapped => UNCHANGED worker \/ streaming = 0)
           /\ (\/ /\ streaming = 0 /\ started < MaxProcess
                  /\ started' = started + 1 /\ streaming' = started + 1
                  /\ start' = [start EXCEPT ![started + 1] = position[c]]
               \/ streaming # 0 /\ UNCHANGED worker)
  <2>1. /\ CallsType' /\ Only(c) /\ at'[c] = "save" /\ kind' = kind /\ position' = position
        /\ result' = result
    BY <1>0, <1>1, MoveOK DEF IInv
  <2>2. CallOK(c)'
    BY <1>0, <2>1 DEF CallOK
  <2>3. PageType' /\ PeersOK' /\ AwaitOK'
    BY <1>0, <2>1, ServerAwaits
  <2>4. \A d \in Call : CallOK(d)'
    BY <2>1, <2>2, CallsOnly DEF IInv
  <2>5. started \in Process /\ started \in Nat /\ held' = held /\ newProcess' = newProcess /\ streaming \in {0, started} /\ started' \in Nat /\ started <= started'
        /\ held <= started /\ newProcess <= started /\ held \in Nat /\ newProcess \in Nat
    BY <1>0, <1>1 DEF IInv, ServerType, WorkerOK, Process, worker, PageType, page, peers
  <2>6. ServerType' /\ WorkerOK'
    <3>1. CASE streaming # 0 /\ UNCHANGED worker
      BY <1>0, <2>1, <3>1 DEF IInv, ServerType, WorkerOK, worker, row, page, peers
    <3>2. CASE /\ streaming = 0 /\ started < MaxProcess
               /\ started' = started + 1 /\ streaming' = started + 1
               /\ start' = [start EXCEPT ![started + 1] = position[c]]
      <4>. started + 1 \in Process
        BY <2>5, <3>2 DEF Process
      <4>. ServerType'
        BY <1>0, <3>2 DEF IInv, ServerType, row
      <4>. \A d \in Call : result'[d] <= started'
        BY <2>1, <2>5, <3>2 DEF IInv, CallsType, WorkerOK, Process
      <4>. WorkerOK'
        BY <2>5, <3>2 DEF WorkerOK
      <4>. QED  OBVIOUS
    <3>. QED  BY <1>1, <3>1, <3>2
  <2>7. ASSUME ~overlapped  PROVE Aligned'
    <3>. Aligned
      BY <2>7 DEF IInv
    <3>1. /\ streaming = 0 /\ started < MaxProcess /\ started' = started + 1
          /\ streaming' = started + 1 /\ start' = [start EXCEPT ![started + 1] = position[c]]
      BY <1>0, <1>1 DEF Aligned
    <3>2. start'[started'] = position[c] /\ started' \in Process
      BY <2>5, <3>1 DEF IInv, ServerType, Process
    <3>3. Seeking(c) /\ \A d \in Call : Seeking(d)' => Seeking(d)
      BY <1>0, <2>1 DEF Seeking, Only
    <3>4. \A d \in Call : at'[d] \in {"start", "save"} => d = c
      BY <2>1, <3>3 DEF Aligned, Seeking, IInv, CallOK, Only
    <3>5. phase \notin {"offering", "playing"} /\ (phase = "seeking" => await = c)
      BY <3>3 DEF Aligned
    <3>6. ~Watching'
      BY <2>5, <3>1 DEF Watching
    <3>. QED  BY <1>0, <2>1, <3>1, <3>2, <3>3, <3>4, <3>5, <3>6 DEF Aligned, page
  <2>. QED  BY <1>0, <2>1, <2>3, <2>4, <2>6, <2>7 DEF IInv
<1>2. CASE streaming = 0 /\ Respond(c, 0) /\ UNCHANGED worker
  BY <1>0, <1>2, StartedType, Answered DEF row, worker
<1>. QED  BY <1>1, <1>2 DEF StartWorker

LEMMA SaveSeekKeeps ==
  ASSUME IInv, NEW c \in Call, SaveSeek(c)
  PROVE  IInv'
<1>1. /\ at[c] = "save" /\ lastKnown' = position[c] /\ Respond(c, started)
      /\ UNCHANGED <<page, ended, worker, overlapped>>
      /\ position[c] <= Last /\ position[c] \in Nat /\ started \in Process
      /\ ended \in BOOLEAN
      /\ ~overlapped => position[c] = start[started]
  BY DEF SaveSeek, IInv, CallOK, CallsType, ServerType, Aligned
<1>. QED  BY <1>1, StartedType, Answered DEF worker

LEMMA SaveCloseKeeps ==
  ASSUME IInv, NEW c \in Call, SaveClose(c)
  PROVE  IInv'
<1>. lastKnown \in Nat
  BY DEF IInv, ServerType
<1>. QED  BY StartedType, Answered DEF SaveClose, worker

LEMMA HandlerFailsKeeps ==
  ASSUME IInv, NEW c \in Call, HandlerFails(c)
  PROVE  IInv'
<1>. lastKnown \in Nat /\ ended \in BOOLEAN
  BY DEF IInv, ServerType
<1>. QED  BY StartedType, Answered DEF HandlerFails, worker, row

LEMMA StreamEnds ==
  ASSUME IInv, UNCHANGED <<page, calls, lastKnown, started, start, overlapped>>,
         streaming' = 0, ended' \in BOOLEAN
  PROVE  IInv'
<1>1. PageType' /\ CallsType' /\ ServerType' /\ PeersOK' /\ AwaitOK' /\ WorkerOK'
  BY DEF IInv, PageType, CallsType, ServerType, PeersOK, AwaitOK, WorkerOK, page, peers,
         calls
<1>2. \A c \in Call : CallOK(c)'
  BY DEF IInv, CallOK, calls
<1>3. Aligned => Aligned'
  BY DEF Aligned, Seeking, Watching, page, peers, calls
<1>. QED  BY <1>1, <1>2, <1>3 DEF IInv
-----------------------------------------------------------------------------
(* The page. *)
LEMMA SendOfferKeeps ==
  ASSUME IInv, NEW c \in Call, SendOffer(c)
  PROVE  IInv'
<1>0. /\ phase = "offering" /\ await = "none" /\ await' = c /\ Send(c, "offer", 0)
      /\ UNCHANGED <<phase, installed, lastPos, peers, row, worker, overlapped>>
  BY DEF SendOffer
<1>1. /\ CallsType' /\ Only(c) /\ CallOK(c)' /\ at[c] = "idle"
      /\ at'[c] = "validate" /\ kind'[c] = "offer"
  BY <1>0, SendOK DEF IInv
<1>2. PageType' /\ PeersOK' /\ ServerType' /\ WorkerOK'
  BY <1>0 DEF IInv, PageType, PeersOK, ServerType, WorkerOK, peers, row, worker, Send
<1>3. AwaitOK'
  BY <1>0, <1>1 DEF AwaitOK
<1>4. \A d \in Call : CallOK(d)'
  BY <1>1, CallsOnly DEF IInv
<1>5. ASSUME ~overlapped  PROVE Aligned'
  <2>. Aligned
    BY <1>5 DEF IInv
  <2>1. \A d \in Call : ~Seeking(d)' /\ at'[d] \notin {"start", "save"}
    BY <1>0, <1>1 DEF Aligned, Seeking, Only, IInv, CallOK
  <2>2. (streaming' # 0 => newBase' = start'[streaming']) /\ (Watching' => base' = start'[held'])
    BY <1>0 DEF Aligned, Watching, peers, worker
  <2>. QED  BY <1>0, <2>1, <2>2 DEF Aligned
<1>. QED  BY <1>0, <1>1, <1>2, <1>3, <1>4, <1>5 DEF IInv

(* The page takes the answer of call c, which is free again. *)
LEMMA Taken ==
  ASSUME IInv, NEW c \in Call, at[c] = "answered", Free(c)
  PROVE  /\ CallsType' /\ \A d \in Call : CallOK(d)'
         /\ \A d \in Call : result'[d] <= started
         /\ \A d \in Call : /\ Seeking(d)' <=> Seeking(d)
                            /\ at'[d] \in {"start", "save"} =>
                                 at'[d] = at[d] /\ position'[d] = position[d]
<1>1. CallsType' /\ Only(c) /\ CallOK(c)' /\ at'[c] = "idle" /\ kind'[c] = "none"
  BY FreeOK DEF IInv
<1>2. \A d \in Call : CallOK(d)'
  BY <1>1, CallsOnly DEF IInv
<1>3. \A d \in Call : result'[d] <= started
  BY <1>1, StartedType, FreeOK DEF IInv, WorkerOK, Only
<1>4. \A d \in Call : /\ Seeking(d)' <=> Seeking(d)
                      /\ at'[d] \in {"start", "save"} =>
                           at'[d] = at[d] /\ position'[d] = position[d]
  BY <1>1 DEF Only, Seeking
<1>. QED  BY <1>1, <1>2, <1>3, <1>4


LEMMA OfferAnsweredKeeps ==
  ASSUME IInv, NEW c \in Call, OfferAnswered(c)
  PROVE  IInv'
<1>0. /\ phase = "offering" /\ at[c] = "answered" /\ result[c] # 0
      /\ newProcess' = result[c] /\ phase' = "playing" /\ await' = "none" /\ Free(c)
      /\ UNCHANGED <<installed, lastPos, held, base, heldOpen, newOpen, newBase, row,
                     worker, overlapped>>
  BY DEF OfferAnswered
<1>1. /\ CallsType' /\ (\A d \in Call : CallOK(d)')
      /\ \A d \in Call : result'[d] <= started
      /\ \A d \in Call : /\ Seeking(d)' <=> Seeking(d)
                         /\ at'[d] \in {"start", "save"} =>
                              at'[d] = at[d] /\ position'[d] = position[d]
  BY <1>0, Taken
<1>2. PageType' /\ PeersOK' /\ AwaitOK'
  BY <1>0 DEF IInv, PageType, PeersOK, AwaitOK, CallsType
<1>3. ServerType' /\ WorkerOK'
  BY <1>0, <1>1 DEF IInv, ServerType, WorkerOK, row, worker
<1>4. Aligned => Aligned'
  BY <1>0, <1>1 DEF Aligned, Watching, worker
<1>. QED  BY <1>0, <1>1, <1>2, <1>3, <1>4 DEF IInv

LEMMA SeekAnsweredKeeps ==
  ASSUME IInv, NEW c \in Call, SeekAnswered(c)
  PROVE  IInv'
<1>0. /\ phase = "seeking" /\ await = c /\ at[c] = "answered" /\ result[c] # 0
      /\ heldOpen' = FALSE /\ newOpen' = TRUE /\ newBase' = position[c]
      /\ phase' = "offering" /\ await' = "none" /\ Free(c)
      /\ UNCHANGED <<installed, lastPos, held, base, newProcess, row, worker, overlapped>>
  BY DEF SeekAnswered
<1>1. /\ CallsType' /\ (\A d \in Call : CallOK(d)')
      /\ \A d \in Call : result'[d] <= started
      /\ \A d \in Call : /\ Seeking(d)' <=> Seeking(d)
                         /\ at'[d] \in {"start", "save"} =>
                              at'[d] = at[d] /\ position'[d] = position[d]
  BY <1>0, Taken
<1>2. position[c] \in 0..Last
  BY <1>0 DEF IInv, CallOK, CallsType
<1>3. PageType' /\ PeersOK' /\ AwaitOK'
  BY <1>0, <1>2 DEF IInv, PageType, PeersOK, AwaitOK
<1>4. ServerType' /\ WorkerOK'
  BY <1>0, <1>1 DEF IInv, ServerType, WorkerOK, row, worker
<1>5. Aligned => Aligned'
  <2>. SUFFICES ASSUME Aligned  PROVE Aligned'
    OBVIOUS
  <2>1. \A d \in Call : ~Seeking(d)
    BY <1>0 DEF Aligned, Seeking
  <2>2. position[c] = start[started] /\ streaming \in {0, started}
    BY <1>0 DEF Aligned, IInv, WorkerOK
  <2>. QED  BY <1>0, <1>1, <2>1, <2>2 DEF Aligned, Watching, worker
<1>. QED  BY <1>0, <1>1, <1>3, <1>4, <1>5 DEF IInv

LEMMA SeekRefusedKeeps ==
  ASSUME IInv, NEW c \in Call, SeekRefused(c)
  PROVE  IInv'
<1>0. /\ phase = "seeking" /\ await = c /\ at[c] = "answered"
      /\ phase' = "ready" /\ await' = "none" /\ Free(c)
      /\ UNCHANGED <<installed, lastPos, peers, row, worker, overlapped>>
  BY DEF SeekRefused
<1>1. /\ CallsType' /\ (\A d \in Call : CallOK(d)')
      /\ \A d \in Call : result'[d] <= started
      /\ \A d \in Call : /\ Seeking(d)' <=> Seeking(d)
                         /\ at'[d] \in {"start", "save"} =>
                              at'[d] = at[d] /\ position'[d] = position[d]
  BY <1>0, Taken
<1>2. PageType' /\ PeersOK' /\ AwaitOK'
  BY <1>0 DEF IInv, PageType, PeersOK, AwaitOK, peers
<1>3. ServerType' /\ WorkerOK'
  BY <1>0, <1>1 DEF IInv, ServerType, WorkerOK, row, worker, peers
<1>4. Aligned => Aligned'
  BY <1>0, <1>1 DEF Aligned, Watching, worker, peers
<1>. QED  BY <1>0, <1>1, <1>2, <1>3, <1>4 DEF IInv

LEMMA OfferRefusedKeeps ==
  ASSUME IInv, NEW c \in Call, OfferRefused(c)
  PROVE  IInv'
<1>0. /\ at[c] = "answered" /\ await' = "none" /\ Free(c) /\ StartFailed
      /\ UNCHANGED <<lastPos, row, worker, overlapped>>
  BY DEF OfferRefused
<1>1. /\ CallsType' /\ (\A d \in Call : CallOK(d)')
      /\ \A d \in Call : result'[d] <= started
      /\ \A d \in Call : /\ Seeking(d)' <=> Seeking(d)
                         /\ at'[d] \in {"start", "save"} =>
                              at'[d] = at[d] /\ position'[d] = position[d]
  BY <1>0, Taken
<1>2. PageType' /\ PeersOK' /\ AwaitOK'
  <2>1. PageType'
    <3>. 0 \in 0..Last /\ PageType
      BY DEF IInv
    <3>. QED  BY <1>0 DEF StartFailed, PageType
  <2>2. PeersOK' /\ AwaitOK'
    BY <1>0 DEF StartFailed, PeersOK, AwaitOK
  <2>. QED  BY <2>1, <2>2
<1>3. ServerType' /\ WorkerOK'
  BY <1>0, <1>1, StartedType DEF StartFailed, IInv, ServerType, WorkerOK, row, worker
<1>4. Aligned => Aligned'
  BY <1>0, <1>1 DEF StartFailed, Aligned, Watching, worker
<1>. QED  BY <1>0, <1>1, <1>2, <1>3, <1>4 DEF IInv

(* Steps that leave the calls alone. *)
LEMMA StartedKeeps ==
  ASSUME IInv, phase = "playing", Started,
         UNCHANGED <<await, lastPos, calls, row, worker, overlapped>>
  PROVE  IInv'
<1>1. await = "none"
  BY DEF IInv, AwaitOK
<1>2. PageType' /\ PeersOK' /\ AwaitOK'
  <2>1. PageType'
    <3>. 0 \in 0..Last /\ PageType
      BY DEF IInv
    <3>. QED  BY DEF Started, PageType
  <2>2. PeersOK' /\ AwaitOK'
    BY <1>1 DEF Started, PeersOK, AwaitOK
  <2>. QED  BY <2>1, <2>2
<1>3. CallsType' /\ (\A c \in Call : CallOK(c)') /\ ServerType' /\ WorkerOK'
  BY StartedType DEF Started, IInv, CallsType, CallOK, ServerType, WorkerOK, calls, row, worker
<1>4. Aligned => Aligned'
  BY DEF Started, Aligned, Seeking, Watching, calls, worker
<1>. QED  BY <1>2, <1>3, <1>4 DEF IInv

LEMMA ClickKeeps ==
  ASSUME IInv, NEW c \in Call, NEW e \in Elapsed, NEW target \in 0..(Last + 2),
         Click(c, e, target)
  PROVE  IInv'
<1>0. /\ phase = "ready" /\ Send(c, "seek", target) /\ phase' = "seeking" /\ await' = c
      /\ overlapped' = (overlapped \/ SeekInFlight)
      /\ UNCHANGED <<installed, lastPos, peers, row, worker>>
  BY DEF Click
<1>1. /\ CallsType' /\ Only(c) /\ CallOK(c)' /\ at[c] = "idle"
      /\ at'[c] = "validate" /\ kind'[c] = "seek"
  BY <1>0, SendOK DEF IInv
<1>2. PageType' /\ PeersOK' /\ ServerType' /\ WorkerOK'
  BY <1>0 DEF IInv, PageType, PeersOK, ServerType, WorkerOK, peers, row, worker, Send
<1>3. AwaitOK'
  BY <1>0, <1>1 DEF AwaitOK
<1>4. \A d \in Call : CallOK(d)'
  BY <1>1, CallsOnly DEF IInv
<1>5. ASSUME ~overlapped'  PROVE Aligned'
  <2>. Aligned
    BY <1>0, <1>5 DEF IInv
  <2>1. \A d \in Call : ~Seeking(d)
    BY <1>0, <1>5 DEF SeekInFlight, Seeking
  <2>2. \A d \in Call : Seeking(d)' => d = c
    BY <1>1, <2>1 DEF Only, Seeking
  <2>3. \A d \in Call : at'[d] \notin {"start", "save"}
    BY <1>1, <2>1 DEF Only, Seeking, IInv, CallOK
  <2>4. Watching' => base' = start'[held']
    BY <1>0 DEF Aligned, Watching, peers, worker
  <2>. QED  BY <1>0, <1>1, <2>2, <2>3, <2>4 DEF Aligned
<1>. QED  BY <1>0, <1>1, <1>2, <1>3, <1>4, <1>5 DEF IInv

LEMMA CallLostKeeps ==
  ASSUME IInv, CallLost
  PROVE  IInv'
<1>0. UNCHANGED <<lastPos, calls, row, worker, overlapped>> /\ await' = "none"
  BY DEF CallLost
<1>1. CallsType' /\ (\A c \in Call : CallOK(c)') /\ ServerType'
  BY <1>0 DEF IInv, CallsType, CallOK, ServerType, calls, row, worker
<1>2. CASE phase = "seeking" /\ phase' = "ready" /\ UNCHANGED <<installed, peers>>
  <2>1. PageType' /\ PeersOK' /\ AwaitOK' /\ WorkerOK'
    BY <1>0, <1>2 DEF IInv, PageType, PeersOK, AwaitOK, WorkerOK, peers, calls, worker
  <2>2. Aligned => Aligned'
    BY <1>0, <1>2 DEF Aligned, Seeking, Watching, peers, calls, worker
  <2>. QED  BY <1>0, <1>1, <2>1, <2>2 DEF IInv
<1>3. CASE phase = "offering" /\ StartFailed
  <2>1. PageType' /\ PeersOK' /\ AwaitOK'
    <3>. 0 \in 0..Last /\ PageType
      BY DEF IInv
    <3>1. PageType'
      BY <1>0, <1>3 DEF StartFailed, PageType
    <3>. QED  BY <1>0, <1>3, <3>1 DEF StartFailed, PeersOK, AwaitOK
  <2>2. WorkerOK'
    BY <1>0, <1>3, StartedType DEF StartFailed, IInv, WorkerOK, calls, worker
  <2>3. Aligned => Aligned'
    BY <1>0, <1>3 DEF StartFailed, Aligned, Seeking, Watching, calls, worker
  <2>. QED  BY <1>0, <1>1, <2>1, <2>2, <2>3 DEF IInv
<1>. QED  BY <1>2, <1>3 DEF CallLost

LEMMA HeartbeatKeeps ==
  ASSUME IInv, NEW e \in Elapsed, Heartbeat(e)
  PROVE  IInv'
<1>0. /\ UNCHANGED <<phase, installed, await, peers, calls, ended, worker, overlapped>>
      /\ lastKnown' \in Nat /\ lastPos' \in 0..MaxPos
  <2>. lastKnown \in Nat /\ lastPos \in 0..MaxPos /\ base \in 0..Last /\ e \in Nat
    BY DEF IInv, ServerType, PageType
  <2>. QED  BY DEF Heartbeat, CurrentSecurePosition
<1>1. PageType' /\ CallsType' /\ ServerType' /\ PeersOK' /\ AwaitOK' /\ WorkerOK'
  BY <1>0 DEF IInv, PageType, CallsType, ServerType, PeersOK, AwaitOK, WorkerOK, peers, calls,
              worker
<1>2. \A c \in Call : CallOK(c)'
  BY <1>0 DEF IInv, CallOK, calls
<1>3. Aligned => Aligned'
  BY <1>0 DEF Aligned, Seeking, Watching, peers, calls, worker
<1>. QED  BY <1>0, <1>1, <1>2, <1>3 DEF IInv

LEMMA LeaveKeeps ==
  ASSUME IInv, Leave
  PROVE  IInv'
<1>0. /\ phase' = "left" /\ await' = "none" /\ heldOpen' = FALSE /\ newOpen' = FALSE
      /\ held' = 0 /\ base' = 0 /\ newBase' = 0 /\ newProcess' = 0
      /\ UNCHANGED <<installed, lastPos, row, worker, overlapped>>
  BY DEF Leave
<1>1. PageType' /\ PeersOK' /\ AwaitOK' /\ ServerType'
  <2>. 0 \in 0..Last /\ PageType /\ ServerType
    BY DEF IInv
  <2>1. PageType' /\ ServerType'
    BY <1>0 DEF PageType, ServerType, row, worker
  <2>. QED  BY <1>0, <2>1 DEF PeersOK, AwaitOK
<1>2. /\ CallsType' /\ (\A d \in Call : CallOK(d)') /\ result' = result
      /\ \A d \in Call : /\ Seeking(d)' => Seeking(d)
                         /\ at'[d] \in {"start", "save"} =>
                              at'[d] = at[d] /\ position'[d] = position[d]
  <2>1. CASE \E c \in Call : Send(c, "close", 0)
    <3>1. PICK c \in Call : Send(c, "close", 0)
      BY <2>1
    <3>2. /\ CallsType' /\ Only(c) /\ CallOK(c)' /\ at'[c] = "validate" /\ kind'[c] = "close"
          /\ result' = result
      BY <3>1, SendOK DEF IInv, Send
    <3>. QED  BY <3>2, CallsOnly DEF IInv, Only, Seeking
  <2>2. CASE UNCHANGED calls
    BY <2>2 DEF IInv, CallsType, CallOK, Seeking, calls
  <2>. QED  BY <2>1, <2>2 DEF Leave
<1>3. WorkerOK'
  BY <1>0, <1>2, StartedType DEF IInv, WorkerOK, worker
<1>4. Aligned => Aligned'
  BY <1>0, <1>2 DEF Aligned, Watching, worker
<1>. QED  BY <1>0, <1>1, <1>2, <1>3, <1>4 DEF IInv
-----------------------------------------------------------------------------
LEMMA NextIInv == IInv /\ [Next]_vars => IInv'
<1>. SUFFICES ASSUME IInv, [Next]_vars  PROVE IInv'
  OBVIOUS
<1>1. CASE PageStep
  BY <1>1, SendOfferKeeps, OfferAnsweredKeeps, OfferRefusedKeeps, SeekAnsweredKeeps,
     SeekRefusedKeeps, StartedKeeps DEF PageStep, PlaySettles
<1>2. CASE PlayRejected
  BY <1>2, StartedKeeps DEF PlayRejected
<1>3. CASE CallLost \/ Leave \/ (\E e \in Elapsed : Heartbeat(e))
  BY <1>3, CallLostKeeps, LeaveKeeps, HeartbeatKeeps
<1>4. CASE \E c \in Call, e \in Elapsed, target \in 0..(Last + 2) : Click(c, e, target)
  BY <1>4, ClickKeeps
<1>5. ASSUME NEW c \in Call, ServerStep(c) \/ HandlerFails(c)  PROVE IInv'
  BY <1>5, ValidateKeeps, AttemptKeeps, DelayKeeps, StopWorkerKeeps, StartWorkerKeeps,
     SaveSeekKeeps, StopForCloseKeeps, SaveCloseKeeps, HandlerFailsKeeps DEF ServerStep
<1>6. CASE ProcessExits \/ SessionEnds
  <2>. ended \in BOOLEAN
    BY DEF IInv, ServerType
  <2>. QED  BY <1>6, StreamEnds DEF ProcessExits, SessionEnds, row
<1>7. CASE UNCHANGED vars
  <2>1. PageType' /\ CallsType' /\ ServerType' /\ PeersOK' /\ AwaitOK' /\ WorkerOK'
    BY <1>7 DEF vars, IInv, PageType, CallsType, ServerType, PeersOK, AwaitOK, WorkerOK
  <2>2. \A c \in Call : CallOK(c)'
    BY <1>7 DEF vars, IInv, CallOK
  <2>3. Aligned => Aligned'
    BY <1>7 DEF vars, Aligned, Seeking, Watching
  <2>. QED  BY <1>7, <2>1, <2>2, <2>3 DEF IInv, vars
<1>. QED  BY <1>1, <1>2, <1>3, <1>4, <1>5, <1>6, <1>7 DEF Next

LEMMA InvariantHolds == Spec => []IInv
BY InitIInv, NextIInv, PTL DEF Spec
-----------------------------------------------------------------------------
(* Every variable of the page and of SecurePlaybackController has its type:
   in particular no FFmpeg process starts beyond the film's last position. *)
THEOREM TypeCorrect == Spec => []TypeOK
<1>1. IInv => TypeOK
  BY Types DEF IInv
<1>. QED  BY <1>1, InvariantHolds, PTL

(* reconnectSecureAt and startSecureWebRtc never have two peers open. *)
THEOREM OnePeerHolds == Spec => []OnePeer
<1>1. IInv => OnePeer
  BY DEF IInv, PeersOK, OnePeer
<1>. QED  BY <1>1, InvariantHolds, PTL

(* basePositionSeconds is where the stream that is watched was started, for
   any number of seeks of which no two were in flight together. *)
THEOREM BaseMatchesStreamHolds == Spec => []BaseMatchesStream
<1>1. IInv => BaseMatchesStream
  BY DEF IInv, Aligned, BaseMatchesStream
<1>. QED  BY <1>1, InvariantHolds, PTL
=============================================================================
