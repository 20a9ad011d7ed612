----------------------------- MODULE MediaWorker ----------------------------
(***************************************************************************)
(* FfmpegSecureMediaWorker: a singleton whose ConcurrentDictionary maps a  *)
(* session to the FFmpeg process that publishes its media.  StartAsync,    *)
(* SeekAsync and StopAsync run on any number of request threads at once    *)
(* and hold no lock, so every dictionary operation and every operation on  *)
(* a process is a step of its own.  A fire-and-forget drain per process    *)
(* waits for its exit.  Dispose runs when the host stops.                  *)
(***************************************************************************)
EXTENDS FiniteSets

CONSTANTS Session,  \* playback sessions
          Call,     \* threads that may be inside the worker at one time
          Proc,     \* operating-system process instances, each used once
          None      \* null

ASSUME MediaWorkerAssumption == None \notin Proc /\ None \notin Session

VARIABLES
  processes,  \* the dictionary _processes: Session -> Proc or None
  life,       \* life[p]: none (not started), running, killed (signalled), exited
  owner,      \* owner[p]: the session p was started for
  disposed,   \* processes whose handle was disposed
  drain,      \* drain[p]: none, reading, disposing, done (DrainAsync of p)
  pc,         \* pc[c]: where call c is
  op,         \* op[c]: start, seek, stop, dispose or none
  target,     \* target[c]: the session call c is about
  held,       \* held[c]: the process in call c's local variable
  sweep,      \* the keys Dispose has still to visit
  host,       \* up, disposing, down
  late,       \* calls that were still inside the worker when Dispose began
  missed      \* missed[c]: the process c registered since then, or None

registry == <<processes, life, owner, disposed, drain>>
locals == <<pc, op, target, held>>
shutdown == <<sweep, host, late, missed>>
vars == <<processes, life, owner, disposed, drain, pc, op, target, held,
          sweep, host, late, missed>>

Labels == {"idle", "lookup", "check", "spawn", "add", "killDup", "disposeDup",
           "remove", "kill", "dispose", "nextKey"}

TypeOK ==
  /\ processes \in [Session -> Proc \cup {None}]
  /\ life \in [Proc -> {"none", "running", "killed", "exited"}]
  /\ owner \in [Proc -> Session \cup {None}]
  /\ disposed \in SUBSET Proc
  /\ drain \in [Proc -> {"none", "reading", "disposing", "done"}]
  /\ pc \in [Call -> Labels]
  /\ op \in [Call -> {"none", "start", "seek", "stop", "dispose"}]
  /\ target \in [Call -> Session \cup {None}]
  /\ held \in [Call -> Proc \cup {None}]
  /\ sweep \in SUBSET Session
  /\ host \in {"up", "disposing", "down"}
  /\ late \in SUBSET Call
  /\ missed \in [Call -> Proc \cup {None}]

Init ==
  /\ processes = [s \in Session |-> None]
  /\ life = [p \in Proc |-> "none"]
  /\ owner = [p \in Proc |-> None]
  /\ disposed = {}
  /\ drain = [p \in Proc |-> "none"]
  /\ pc = [c \in Call |-> "idle"]
  /\ op = [c \in Call |-> "none"]
  /\ target = [c \in Call |-> None]
  /\ held = [c \in Call |-> None]
  /\ sweep = {}
  /\ host = "up"
  /\ late = {}
  /\ missed = [c \in Call |-> None]
-----------------------------------------------------------------------------
Enter(c, o, s, label) ==
  /\ host = "up"
  /\ pc[c] = "idle"
  /\ pc' = [pc EXCEPT ![c] = label]
  /\ op' = [op EXCEPT ![c] = o]
  /\ target' = [target EXCEPT ![c] = s]
  /\ UNCHANGED <<registry, shutdown, held>>

Goto(c, label) ==
  /\ pc' = [pc EXCEPT ![c] = label]
  /\ UNCHANGED <<op, target>>

Return(c) ==
  /\ pc' = [pc EXCEPT ![c] = "idle"]
  /\ op' = [op EXCEPT ![c] = "none"]
  /\ target' = [target EXCEPT ![c] = None]
  /\ held' = [held EXCEPT ![c] = None]

(* StopProcess returns to its caller: StopAsync ends, SeekAsync starts the
   process again, Dispose takes its next key. *)
StopProcessReturns(c) ==
  CASE op[c] = "seek"    -> Goto(c, "lookup") /\ held' = [held EXCEPT ![c] = None]
    [] op[c] = "dispose" -> Goto(c, "nextKey") /\ held' = [held EXCEPT ![c] = None]
    [] OTHER             -> Return(c)

StartAsync(c, s) == Enter(c, "start", s, "lookup")
SeekAsync(c, s) == Enter(c, "seek", s, "remove")
StopAsync(c, s) == Enter(c, "stop", s, "remove")
-----------------------------------------------------------------------------
(* StartProcessAsync: the token is cancelled, the worker is switched off or
   the video has no source; nothing is started. *)
StartSkipped(c) ==
  /\ pc[c] = "lookup"
  /\ Return(c)
  /\ UNCHANGED <<registry, shutdown>>

TryGetValue(c) ==
  /\ pc[c] = "lookup"
  /\ IF processes[target[c]] = None
     THEN Goto(c, "spawn") /\ UNCHANGED held
     ELSE Goto(c, "check") /\ held' = [held EXCEPT ![c] = processes[target[c]]]
  /\ UNCHANGED <<registry, shutdown>>

(* existing.HasExited: a process that still runs ends the call; a handle that
   another call disposed meanwhile makes it throw; an exited process is
   replaced. *)
HasExited(c) ==
  /\ pc[c] = "check"
  /\ IF held[c] \notin disposed /\ life[held[c]] = "exited"
     THEN Goto(c, "spawn") /\ held' = [held EXCEPT ![c] = None]
     ELSE Return(c)
  /\ UNCHANGED <<registry, shutdown>>

ProcessStart(c, p) ==
  /\ pc[c] = "spawn"
  /\ life[p] = "none"
  /\ life' = [life EXCEPT ![p] = "running"]
  /\ owner' = [owner EXCEPT ![p] = target[c]]
  /\ held' = [held EXCEPT ![c] = p]
  /\ Goto(c, "add")
  /\ UNCHANGED <<processes, disposed, drain, shutdown>>

(* Process.Start throws or returns null, e.g. there is no ffmpeg binary. *)
ProcessStartFails(c) ==
  /\ pc[c] = "spawn"
  /\ Return(c)
  /\ UNCHANGED <<registry, shutdown>>

(* Mutant of TryAdd: the dictionary's indexer, which overwrites. *)
AddOverwrites(c) ==
  /\ pc[c] = "add"
  /\ processes' = [processes EXCEPT ![target[c]] = held[c]]
  /\ drain' = [drain EXCEPT ![held[c]] = "reading"]
  /\ missed' = IF host = "up" THEN missed ELSE [missed EXCEPT ![c] = held[c]]
  /\ Return(c)
  /\ UNCHANGED <<life, owner, disposed, sweep, host, late>>

TryAdd(c) ==
  /\ pc[c] = "add"
  /\ processes[target[c]] = None
  /\ processes' = [processes EXCEPT ![target[c]] = held[c]]
  /\ drain' = [drain EXCEPT ![held[c]] = "reading"]
  /\ missed' = IF host = "up" THEN missed ELSE [missed EXCEPT ![c] = held[c]]
  /\ Return(c)
  /\ UNCHANGED <<life, owner, disposed, sweep, host, late>>

(* Mutant of TryAddFails: the loser of the race is forgotten. *)
DuplicateForgotten(c) ==
  /\ pc[c] = "add"
  /\ processes[target[c]] # None
  /\ Return(c)
  /\ UNCHANGED <<registry, shutdown>>

TryAddFails(c) ==
  /\ pc[c] = "add"
  /\ processes[target[c]] # None
  /\ Goto(c, "killDup")
  /\ UNCHANGED <<registry, shutdown, held>>

KillHeld(c, from, to) ==
  /\ pc[c] = from
  /\ life' = [life EXCEPT ![held[c]] = IF @ = "running" THEN "killed" ELSE @]
  /\ Goto(c, to)
  /\ UNCHANGED <<processes, owner, disposed, drain, held, shutdown>>

KillDuplicate(c) == KillHeld(c, "killDup", "disposeDup")

DisposeDuplicate(c) ==
  /\ pc[c] = "disposeDup"
  /\ disposed' = disposed \cup {held[c]}
  /\ Return(c)
  /\ UNCHANGED <<processes, life, owner, drain, shutdown>>
-----------------------------------------------------------------------------
(* StopProcess *)
(* Mutant of TryRemove: TryGetValue, which leaves the entry. *)
RemoveOnlyLooks(c) ==
  /\ pc[c] = "remove"
  /\ processes[target[c]] # None
  /\ held' = [held EXCEPT ![c] = processes[target[c]]]
  /\ Goto(c, "kill")
  /\ UNCHANGED <<registry, shutdown>>

TryRemove(c) ==
  /\ pc[c] = "remove"
  /\ processes[target[c]] # None
  /\ held' = [held EXCEPT ![c] = processes[target[c]]]
  /\ processes' = [processes EXCEPT ![target[c]] = None]
  /\ Goto(c, "kill")
  /\ UNCHANGED <<life, owner, disposed, drain, shutdown>>

TryRemoveFails(c) ==
  /\ pc[c] = "remove"
  /\ processes[target[c]] = None
  /\ StopProcessReturns(c)
  /\ UNCHANGED <<registry, shutdown>>

(* Mutant of KillRemoved: no Kill before Dispose. *)
RemovedNotKilled(c) ==
  /\ pc[c] = "kill"
  /\ Goto(c, "dispose")
  /\ UNCHANGED <<registry, held, shutdown>>

KillRemoved(c) == KillHeld(c, "kill", "dispose")

DisposeRemoved(c) ==
  /\ pc[c] = "dispose"
  /\ disposed' = disposed \cup {held[c]}
  /\ StopProcessReturns(c)
  /\ UNCHANGED <<processes, life, owner, drain, shutdown>>
-----------------------------------------------------------------------------
(* DrainAsync of process p, on the thread pool *)
(* Mutant of DrainRemoves: no Dispose after the removal. *)
DrainLeavesHandle(p) ==
  /\ drain[p] = "reading"
  /\ life[p] = "exited"
  /\ processes[owner[p]] = p
  /\ processes' = [processes EXCEPT ![owner[p]] = None]
  /\ drain' = [drain EXCEPT ![p] = "done"]
  /\ UNCHANGED <<life, owner, disposed, locals, shutdown>>

DrainRemoves(p) ==
  /\ drain[p] = "reading"
  /\ life[p] = "exited"
  /\ processes[owner[p]] = p
  /\ processes' = [processes EXCEPT ![owner[p]] = None]
  /\ drain' = [drain EXCEPT ![p] = "disposing"]
  /\ UNCHANGED <<life, owner, disposed, locals, shutdown>>

(* Mutant of DrainFindsOther: the entry is removed by its key alone. *)
DrainRemovesByKey(p) ==
  /\ drain[p] = "reading"
  /\ life[p] = "exited"
  /\ processes[owner[p]] # p
  /\ processes' = [processes EXCEPT ![owner[p]] = None]
  /\ drain' = [drain EXCEPT ![p] = "done"]
  /\ UNCHANGED <<life, owner, disposed, locals, shutdown>>

DrainFindsOther(p) ==
  /\ drain[p] = "reading"
  /\ life[p] = "exited"
  /\ processes[owner[p]] # p
  /\ drain' = [drain EXCEPT ![p] = "done"]
  /\ UNCHANGED <<processes, life, owner, disposed, locals, shutdown>>

DrainDisposes(p) ==
  /\ drain[p] = "disposing"
  /\ disposed' = disposed \cup {p}
  /\ drain' = [drain EXCEPT ![p] = "done"]
  /\ UNCHANGED <<processes, life, owner, locals, shutdown>>

(* Reading a pipe throws, because the handle was disposed or otherwise. *)
DrainFails(p) ==
  /\ drain[p] = "reading"
  /\ drain' = [drain EXCEPT ![p] = "done"]
  /\ UNCHANGED <<processes, life, owner, disposed, locals, shutdown>>

(* FFmpeg reaches the end of its source or fails. *)
ProcessExits(p) ==
  /\ life[p] = "running"
  /\ life' = [life EXCEPT ![p] = "exited"]
  /\ UNCHANGED <<processes, owner, disposed, drain, locals, shutdown>>

(* The signal takes effect some time after Kill returned. *)
KilledProcessExits(p) ==
  /\ life[p] = "killed"
  /\ life' = [life EXCEPT ![p] = "exited"]
  /\ UNCHANGED <<processes, owner, disposed, drain, locals, shutdown>>
-----------------------------------------------------------------------------
(* Mutant of Dispose: it begins by clearing the dictionary. *)
DisposeClearsFirst(c) ==
  /\ host = "up"
  /\ pc[c] = "idle"
  /\ host' = "disposing"
  /\ processes' = [s \in Session |-> None]
  /\ sweep' = {}
  /\ late' = {d \in Call : pc[d] # "idle"}
  /\ pc' = [pc EXCEPT ![c] = "nextKey"]
  /\ op' = [op EXCEPT ![c] = "dispose"]
  /\ UNCHANGED <<life, owner, disposed, drain, target, held, missed>>

(* Dispose, on the thread that stops the host: no call enters any more, but
   those that outlived the shutdown timeout go on. *)
Dispose(c) ==
  /\ host = "up"
  /\ pc[c] = "idle"
  /\ host' = "disposing"
  /\ sweep' = {s \in Session : processes[s] # None}
  /\ late' = {d \in Call : pc[d] # "idle"}
  /\ pc' = [pc EXCEPT ![c] = "nextKey"]
  /\ op' = [op EXCEPT ![c] = "dispose"]
  /\ UNCHANGED <<registry, target, held, missed>>

NextKey(c, s) ==
  /\ pc[c] = "nextKey"
  /\ s \in sweep
  /\ sweep' = sweep \ {s}
  /\ target' = [target EXCEPT ![c] = s]
  /\ pc' = [pc EXCEPT ![c] = "remove"]
  /\ UNCHANGED <<registry, op, held, host, late, missed>>

DisposeReturns(c) ==
  /\ pc[c] = "nextKey"
  /\ sweep = {}
  /\ host' = "down"
  /\ Return(c)
  /\ UNCHANGED <<registry, sweep, late, missed>>
-----------------------------------------------------------------------------
(* The steps a thread inside the worker goes on to take by itself. *)
CallStep(c) ==
  \/ TryGetValue(c)
  \/ HasExited(c)
  \/ \E p \in Proc : ProcessStart(c, p)
  \/ ProcessStartFails(c)
  \/ TryAdd(c)
  \/ TryAddFails(c)
  \/ KillDuplicate(c)
  \/ DisposeDuplicate(c)
  \/ TryRemove(c)
  \/ TryRemoveFails(c)
  \/ KillRemoved(c)
  \/ DisposeRemoved(c)
  \/ \E s \in Session : NextKey(c, s)
  \/ DisposeReturns(c)

DrainStep(p) == DrainRemoves(p) \/ DrainFindsOther(p) \/ DrainDisposes(p)

Next ==
  \/ \E c \in Call :
       \/ \E s \in Session : StartAsync(c, s) \/ SeekAsync(c, s) \/ StopAsync(c, s)
       \/ StartSkipped(c)
       \/ CallStep(c)
       \/ Dispose(c)
  \/ \E p \in Proc :
       \/ DrainStep(p)
       \/ DrainFails(p)
       \/ ProcessExits(p)
       \/ KilledProcessExits(p)

Spec == Init /\ [][Next]_vars

(* A thread that entered the worker runs on, a killed process dies, a drain
   gets scheduled.  Nobody has to call the worker, and a process that is not
   killed may run for ever. *)
Fairness ==
  /\ \A c \in Call : WF_vars(CallStep(c))
  /\ \A p \in Proc : WF_vars(DrainStep(p)) /\ WF_vars(KilledProcessExits(p))

FairSpec == Spec /\ Fairness
-----------------------------------------------------------------------------
(* Call c alone is responsible for process p: it has started it and not yet
   registered it, or has taken it out and not yet disposed it. *)
Holds(c, p) ==
  /\ held[c] = p
  /\ pc[c] \in {"add", "killDup", "disposeDup", "kill", "dispose"}

(* No FFmpeg process runs unattended: one that runs is the one registered
   for its session, or a call still has it in hand and will register or kill
   it.  The TryAdd failure branch, StopProcess and the drain's removal of
   exactly its own entry must work together for this. *)
NoOrphan ==
  \A p \in Proc : life[p] = "running" =>
    \/ processes[owner[p]] = p
    \/ \E c \in Call : Holds(c, p) /\ pc[c] \in {"add", "killDup", "kill"}

(* The dictionary never leads a caller to a disposed handle, and a handle is
   disposed only when its process is dying or dead: once it is disposed
   nobody could kill the process any more. *)
DisposedIsDead ==
  \A p \in disposed : life[p] \in {"killed", "exited"}
                      /\ \A s \in Session : processes[s] # p

(* A process that has not exited leaves the dictionary only into the hands of
   the call that goes on to kill it; in particular the drain of an old
   process never takes away its successor's entry. *)
RemovedToBeKilled ==
  [][\A s \in Session :
       (processes[s] # None /\ processes'[s] # processes[s]) =>
         \/ life[processes[s]] = "exited"
         \/ \E c \in Call : held'[c] = processes[s] /\ pc'[c] = "kill"]_vars

(* What Dispose leaves running is the work of calls that outlived the shutdown,
   one process each at most: such a call still has it in hand, or has
   registered it after Dispose began.  Whatever was registered before has been
   killed, or is about to be by the call that took it out. *)
DisposeStopsAll ==
  host = "down" => \A p \in Proc : life[p] = "running" =>
    \E c \in late :
      \/ missed[c] = None /\ Holds(c, p)
      \/ missed[c] = p /\ processes[owner[p]] = p

(* StopAsync and SeekAsync end the process that was registered when they
   reached the dictionary, even when another stop or seek took it first. *)
StopEndsProcess ==
  \A c \in Call, p \in Proc :
    (pc[c] = "remove" /\ processes[target[c]] = p) ~> (life[p] = "exited")

(* No process handle leaks: that of a process that exited is disposed, unless
   its drain failed and left it in the dictionary. *)
HandlesReleased ==
  \A p \in Proc :
    (life[p] = "exited") ~>
      (p \in disposed \/ (drain[p] = "done" /\ processes[owner[p]] = p))

(* The worker implements WorkerRegistry: a session's live process is the one
   in the dictionary, as long as it runs. *)
liveWorker ==
  [s \in Session |->
     IF processes[s] \in Proc /\ life[processes[s]] = "running"
     THEN processes[s] ELSE None]

endedProcs ==
  {p \in Proc : \/ life[p] \in {"killed", "exited"}
                \/ \E c \in Call : Holds(c, p) /\ pc[c] \in {"killDup", "kill"}}

Registry == INSTANCE WorkerRegistry WITH worker <- liveWorker, ended <- endedProcs

(* Every step of the threads, drains and processes is a step of the abstract
   registry or changes nothing there. *)
ImplementsRegistry == Registry!RegistrySpec
=============================================================================
