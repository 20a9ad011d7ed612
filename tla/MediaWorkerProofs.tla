-------------------------- MODULE MediaWorkerProofs -------------------------
(***************************************************************************)
(* Theorems about MediaWorker for any sets of sessions, threads and        *)
(* processes.  IInv strengthens the safety invariants to an inductive one: *)
(* a process is at all times unused, registered, in the hands of exactly   *)
(* one call, in the hands of its drain, or done with.                      *)
(***************************************************************************)
EXTENDS MediaWorker, TLAPS

OwnLabels == {"add", "killDup", "disposeDup", "kill", "dispose"}

(* A call past its entry knows its session, and holds a process where its
   local variable is used. *)
CallsOK ==
  \A c \in Call :
    /\ pc[c] \notin {"idle", "nextKey"} => target[c] \in Session
    /\ pc[c] \in OwnLabels \cup {"check"} => held[c] \in Proc

(* What a call has in hand was started for its session, is in no dictionary
   entry and still has its handle. *)
HeldOK ==
  \A c \in Call : pc[c] \in OwnLabels =>
    /\ life[held[c]] # "none"
    /\ owner[held[c]] = target[c]
    /\ held[c] \notin disposed
    /\ \A s \in Session : processes[s] # held[c]
    /\ drain[held[c]] # "disposing"
    /\ pc[c] = "add" => life[held[c]] # "killed"
    /\ pc[c] \in {"disposeDup", "dispose"} => life[held[c]] # "running"

HolderUnique ==
  \A c, d \in Call :
    pc[c] \in OwnLabels /\ pc[d] \in OwnLabels /\ held[c] = held[d] => c = d

RegisteredOK ==
  \A s \in Session : processes[s] # None =>
    /\ life[processes[s]] \in {"running", "exited"}
    /\ owner[processes[s]] = s
    /\ processes[s] \notin disposed
    /\ drain[processes[s]] # "disposing"

ProcOK ==
  \A p \in Proc :
    /\ life[p] = "none" => drain[p] = "none" /\ p \notin disposed
    /\ drain[p] = "disposing" => life[p] = "exited"
    /\ p \in disposed => life[p] \in {"killed", "exited"}

IInv ==
  /\ TypeOK
  /\ CallsOK
  /\ HeldOK
  /\ HolderUnique
  /\ RegisteredOK
  /\ ProcOK
  /\ NoOrphan
-----------------------------------------------------------------------------
USE MediaWorkerAssumption

LEMMA InitIInv == Init => IInv
BY DEF Init, IInv, TypeOK, CallsOK, HeldOK, HolderUnique, RegisteredOK, ProcOK,
       NoOrphan, OwnLabels, Labels

LEMMA EnterIInv ==
  ASSUME IInv, NEW c \in Call, NEW s \in Session, StartAsync(c, s) \/ SeekAsync(c, s) \/ StopAsync(c, s)
  PROVE  IInv'
<1>1. TypeOK'
  BY DEF IInv, TypeOK, Labels, StartAsync, SeekAsync, StopAsync, Enter, registry, shutdown
<1>2. CallsOK'
  BY DEF IInv, TypeOK, CallsOK, OwnLabels, StartAsync, SeekAsync, StopAsync, Enter, registry, shutdown
<1>3. HeldOK'
  BY DEF IInv, TypeOK, HeldOK, CallsOK, OwnLabels, HolderUnique, RegisteredOK, ProcOK, StartAsync, SeekAsync, StopAsync, Enter, registry, shutdown
<1>4. HolderUnique'
  BY DEF IInv, TypeOK, HolderUnique, HeldOK, OwnLabels, CallsOK, RegisteredOK, ProcOK, StartAsync, SeekAsync, StopAsync, Enter, registry, shutdown
<1>5. RegisteredOK'
  BY DEF IInv, TypeOK, RegisteredOK, HeldOK, OwnLabels, CallsOK, ProcOK, StartAsync, SeekAsync, StopAsync, Enter, registry, shutdown
<1>6. ProcOK'
  BY DEF IInv, TypeOK, ProcOK, HeldOK, OwnLabels, CallsOK, RegisteredOK, StartAsync, SeekAsync, StopAsync, Enter, registry, shutdown
<1>7. NoOrphan'
  BY DEF IInv, TypeOK, NoOrphan, Holds, HeldOK, CallsOK, OwnLabels, RegisteredOK, HolderUnique, ProcOK, StartAsync, SeekAsync, StopAsync, Enter, registry, shutdown
<1>. QED  BY <1>1, <1>2, <1>3, <1>4, <1>5, <1>6, <1>7 DEF IInv

LEMMA StartSkippedIInv ==
  ASSUME IInv, NEW c \in Call, StartSkipped(c)
  PROVE  IInv'
<1>1. TypeOK'
  BY DEF IInv, TypeOK, Labels, StartSkipped, Return, registry, shutdown
<1>2. CallsOK'
  BY DEF IInv, TypeOK, CallsOK, OwnLabels, StartSkipped, Return, registry, shutdown
<1>3. HeldOK'
  BY DEF IInv, TypeOK, HeldOK, CallsOK, OwnLabels, HolderUnique, RegisteredOK, ProcOK, StartSkipped, Return, registry, shutdown
<1>4. HolderUnique'
  BY DEF IInv, TypeOK, HolderUnique, HeldOK, OwnLabels, CallsOK, RegisteredOK, ProcOK, StartSkipped, Return, registry, shutdown
<1>5. RegisteredOK'
  BY DEF IInv, TypeOK, RegisteredOK, HeldOK, OwnLabels, CallsOK, ProcOK, StartSkipped, Return, registry, shutdown
<1>6. ProcOK'
  BY DEF IInv, TypeOK, ProcOK, HeldOK, OwnLabels, CallsOK, RegisteredOK, StartSkipped, Return, registry, shutdown
<1>7. NoOrphan'
  BY DEF IInv, TypeOK, NoOrphan, Holds, HeldOK, CallsOK, OwnLabels, RegisteredOK, HolderUnique, ProcOK, StartSkipped, Return, registry, shutdown
<1>. QED  BY <1>1, <1>2, <1>3, <1>4, <1>5, <1>6, <1>7 DEF IInv

LEMMA TryGetValueIInv ==
  ASSUME IInv, NEW c \in Call, TryGetValue(c)
  PROVE  IInv'
<1>1. TypeOK'
  BY DEF IInv, TypeOK, CallsOK, OwnLabels, Labels, TryGetValue, Goto, registry, shutdown
<1>2. CallsOK'
  BY DEF IInv, TypeOK, CallsOK, OwnLabels, TryGetValue, Goto, registry, shutdown
<1>3. HeldOK'
  BY DEF IInv, TypeOK, HeldOK, CallsOK, OwnLabels, HolderUnique, RegisteredOK, ProcOK, TryGetValue, Goto, registry, shutdown
<1>4. HolderUnique'
  BY DEF IInv, TypeOK, HolderUnique, HeldOK, OwnLabels, CallsOK, RegisteredOK, ProcOK, TryGetValue, Goto, registry, shutdown
<1>5. RegisteredOK'
  BY DEF IInv, TypeOK, RegisteredOK, HeldOK, OwnLabels, CallsOK, ProcOK, TryGetValue, Goto, registry, shutdown
<1>6. ProcOK'
  BY DEF IInv, TypeOK, ProcOK, HeldOK, OwnLabels, CallsOK, RegisteredOK, TryGetValue, Goto, registry, shutdown
<1>7. NoOrphan'
  BY DEF IInv, TypeOK, NoOrphan, Holds, HeldOK, CallsOK, OwnLabels, RegisteredOK, HolderUnique, ProcOK, TryGetValue, Goto, registry, shutdown
<1>. QED  BY <1>1, <1>2, <1>3, <1>4, <1>5, <1>6, <1>7 DEF IInv

LEMMA HasExitedIInv ==
  ASSUME IInv, NEW c \in Call, HasExited(c)
  PROVE  IInv'
<1>1. TypeOK'
  BY DEF IInv, TypeOK, Labels, HasExited, Goto, Return, registry, shutdown
<1>2. CallsOK'
  BY DEF IInv, TypeOK, CallsOK, OwnLabels, HasExited, Goto, Return, registry, shutdown
<1>3. HeldOK'
  BY DEF IInv, TypeOK, HeldOK, CallsOK, OwnLabels, HolderUnique, RegisteredOK, ProcOK, HasExited, Goto, Return, registry, shutdown
<1>4. HolderUnique'
  BY DEF IInv, TypeOK, HolderUnique, HeldOK, OwnLabels, CallsOK, RegisteredOK, ProcOK, HasExited, Goto, Return, registry, shutdown
<1>5. RegisteredOK'
  BY DEF IInv, TypeOK, RegisteredOK, HeldOK, OwnLabels, CallsOK, ProcOK, HasExited, Goto, Return, registry, shutdown
<1>6. ProcOK'
  BY DEF IInv, TypeOK, ProcOK, HeldOK, OwnLabels, CallsOK, RegisteredOK, HasExited, Goto, Return, registry, shutdown
<1>7. NoOrphan'
  BY DEF IInv, TypeOK, NoOrphan, Holds, HeldOK, CallsOK, OwnLabels, RegisteredOK, HolderUnique, ProcOK, HasExited, Goto, Return, registry, shutdown
<1>. QED  BY <1>1, <1>2, <1>3, <1>4, <1>5, <1>6, <1>7 DEF IInv

LEMMA ProcessStartIInv ==
  ASSUME IInv, NEW c \in Call, NEW p \in Proc, ProcessStart(c, p)
  PROVE  IInv'
<1>1. TypeOK'
  BY DEF IInv, TypeOK, Labels, ProcessStart, Goto, shutdown
<1>2. CallsOK'
  BY DEF IInv, TypeOK, CallsOK, OwnLabels, ProcessStart, Goto, shutdown
<1>3. HeldOK'
  BY DEF IInv, TypeOK, HeldOK, CallsOK, OwnLabels, HolderUnique, RegisteredOK, ProcOK, ProcessStart, Goto, shutdown
<1>4. HolderUnique'
  BY DEF IInv, TypeOK, HolderUnique, HeldOK, OwnLabels, CallsOK, RegisteredOK, ProcOK, ProcessStart, Goto, shutdown
<1>5. RegisteredOK'
  BY DEF IInv, TypeOK, RegisteredOK, HeldOK, OwnLabels, CallsOK, ProcOK, ProcessStart, Goto, shutdown
<1>6. ProcOK'
  BY DEF IInv, TypeOK, ProcOK, HeldOK, OwnLabels, CallsOK, RegisteredOK, ProcessStart, Goto, shutdown
<1>7. NoOrphan'
  BY DEF IInv, TypeOK, NoOrphan, Holds, HeldOK, CallsOK, OwnLabels, RegisteredOK, HolderUnique, ProcOK, ProcessStart, Goto, shutdown
<1>. QED  BY <1>1, <1>2, <1>3, <1>4, <1>5, <1>6, <1>7 DEF IInv

LEMMA ProcessStartFailsIInv ==
  ASSUME IInv, NEW c \in Call, ProcessStartFails(c)
  PROVE  IInv'
<1>1. TypeOK'
  BY DEF IInv, TypeOK, Labels, ProcessStartFails, Return, registry, shutdown
<1>2. CallsOK'
  BY DEF IInv, TypeOK, CallsOK, OwnLabels, ProcessStartFails, Return, registry, shutdown
<1>3. HeldOK'
  BY DEF IInv, TypeOK, HeldOK, CallsOK, OwnLabels, HolderUnique, RegisteredOK, ProcOK, ProcessStartFails, Return, registry, shutdown
<1>4. HolderUnique'
  BY DEF IInv, TypeOK, HolderUnique, HeldOK, OwnLabels, CallsOK, RegisteredOK, ProcOK, ProcessStartFails, Return, registry, shutdown
<1>5. RegisteredOK'
  BY DEF IInv, TypeOK, RegisteredOK, HeldOK, OwnLabels, CallsOK, ProcOK, ProcessStartFails, Return, registry, shutdown
<1>6. ProcOK'
  BY DEF IInv, TypeOK, ProcOK, HeldOK, OwnLabels, CallsOK, RegisteredOK, ProcessStartFails, Return, registry, shutdown
<1>7. NoOrphan'
  BY DEF IInv, TypeOK, NoOrphan, Holds, HeldOK, CallsOK, OwnLabels, RegisteredOK, HolderUnique, ProcOK, ProcessStartFails, Return, registry, shutdown
<1>. QED  BY <1>1, <1>2, <1>3, <1>4, <1>5, <1>6, <1>7 DEF IInv

LEMMA TryAddIInv ==
  ASSUME IInv, NEW c \in Call, TryAdd(c)
  PROVE  IInv'
<1>1. TypeOK'
  BY DEF IInv, TypeOK, Labels, TryAdd, Return, shutdown
<1>2. CallsOK'
  BY DEF IInv, TypeOK, CallsOK, OwnLabels, TryAdd, Return, shutdown
<1>3. HeldOK'
  BY DEF IInv, TypeOK, HeldOK, CallsOK, OwnLabels, HolderUnique, RegisteredOK, ProcOK, TryAdd, Return, shutdown
<1>4. HolderUnique'
  BY DEF IInv, TypeOK, HolderUnique, HeldOK, OwnLabels, CallsOK, RegisteredOK, ProcOK, TryAdd, Return, shutdown
<1>5. RegisteredOK'
  BY DEF IInv, TypeOK, RegisteredOK, HeldOK, OwnLabels, CallsOK, ProcOK, TryAdd, Return, shutdown
<1>6. ProcOK'
  BY DEF IInv, TypeOK, ProcOK, HeldOK, OwnLabels, CallsOK, RegisteredOK, TryAdd, Return, shutdown
<1>7. NoOrphan'
  BY DEF IInv, TypeOK, NoOrphan, Holds, HeldOK, CallsOK, OwnLabels, RegisteredOK, HolderUnique, ProcOK, TryAdd, Return, shutdown
<1>. QED  BY <1>1, <1>2, <1>3, <1>4, <1>5, <1>6, <1>7 DEF IInv

LEMMA TryAddFailsIInv ==
  ASSUME IInv, NEW c \in Call, TryAddFails(c)
  PROVE  IInv'
<1>1. TypeOK'
  BY DEF IInv, TypeOK, Labels, TryAddFails, Goto, registry, shutdown
<1>2. CallsOK'
  BY DEF IInv, TypeOK, CallsOK, OwnLabels, TryAddFails, Goto, registry, shutdown
<1>3. HeldOK'
  BY DEF IInv, TypeOK, HeldOK, CallsOK, OwnLabels, HolderUnique, RegisteredOK, ProcOK, TryAddFails, Goto, registry, shutdown
<1>4. HolderUnique'
  BY DEF IInv, TypeOK, HolderUnique, HeldOK, OwnLabels, CallsOK, RegisteredOK, ProcOK, TryAddFails, Goto, registry, shutdown
<1>5. RegisteredOK'
  BY DEF IInv, TypeOK, RegisteredOK, HeldOK, OwnLabels, CallsOK, ProcOK, TryAddFails, Goto, registry, shutdown
<1>6. ProcOK'
  BY DEF IInv, TypeOK, ProcOK, HeldOK, OwnLabels, CallsOK, RegisteredOK, TryAddFails, Goto, registry, shutdown
<1>7. NoOrphan'
  BY DEF IInv, TypeOK, NoOrphan, Holds, HeldOK, CallsOK, OwnLabels, RegisteredOK, HolderUnique, ProcOK, TryAddFails, Goto, registry, shutdown
<1>. QED  BY <1>1, <1>2, <1>3, <1>4, <1>5, <1>6, <1>7 DEF IInv

LEMMA KillDuplicateIInv ==
  ASSUME IInv, NEW c \in Call, KillDuplicate(c)
  PROVE  IInv'
<1>1. TypeOK'
  BY DEF IInv, TypeOK, Labels, KillDuplicate, KillHeld, Goto, shutdown
<1>2. CallsOK'
  BY DEF IInv, TypeOK, CallsOK, OwnLabels, KillDuplicate, KillHeld, Goto, shutdown
<1>3. HeldOK'
  BY DEF IInv, TypeOK, HeldOK, CallsOK, OwnLabels, HolderUnique, RegisteredOK, ProcOK, KillDuplicate, KillHeld, Goto, shutdown
<1>4. HolderUnique'
  BY DEF IInv, TypeOK, HolderUnique, HeldOK, OwnLabels, CallsOK, RegisteredOK, ProcOK, KillDuplicate, KillHeld, Goto, shutdown
<1>5. RegisteredOK'
  BY DEF IInv, TypeOK, RegisteredOK, HeldOK, OwnLabels, CallsOK, ProcOK, KillDuplicate, KillHeld, Goto, shutdown
<1>6. ProcOK'
  BY DEF IInv, TypeOK, ProcOK, HeldOK, OwnLabels, CallsOK, RegisteredOK, KillDuplicate, KillHeld, Goto, shutdown
<1>7. NoOrphan'
  BY DEF IInv, TypeOK, NoOrphan, Holds, HeldOK, CallsOK, OwnLabels, RegisteredOK, HolderUnique, ProcOK, KillDuplicate, KillHeld, Goto, shutdown
<1>. QED  BY <1>1, <1>2, <1>3, <1>4, <1>5, <1>6, <1>7 DEF IInv

LEMMA DisposeDuplicateIInv ==
  ASSUME IInv, NEW c \in Call, DisposeDuplicate(c)
  PROVE  IInv'
<1>1. TypeOK'
  BY DEF IInv, TypeOK, CallsOK, OwnLabels, Labels, DisposeDuplicate, Return, shutdown
<1>2. CallsOK'
  BY DEF IInv, TypeOK, CallsOK, OwnLabels, DisposeDuplicate, Return, shutdown
<1>3. HeldOK'
  BY DEF IInv, TypeOK, HeldOK, CallsOK, OwnLabels, HolderUnique, RegisteredOK, ProcOK, DisposeDuplicate, Return, shutdown
<1>4. HolderUnique'
  BY DEF IInv, TypeOK, HolderUnique, HeldOK, OwnLabels, CallsOK, RegisteredOK, ProcOK, DisposeDuplicate, Return, shutdown
<1>5. RegisteredOK'
  BY DEF IInv, TypeOK, RegisteredOK, HeldOK, OwnLabels, CallsOK, ProcOK, DisposeDuplicate, Return, shutdown
<1>6. ProcOK'
  BY DEF IInv, TypeOK, ProcOK, HeldOK, OwnLabels, CallsOK, RegisteredOK, DisposeDuplicate, Return, shutdown
<1>7. NoOrphan'
  BY DEF IInv, TypeOK, NoOrphan, Holds, HeldOK, CallsOK, OwnLabels, RegisteredOK, HolderUnique, ProcOK, DisposeDuplicate, Return, shutdown
<1>. QED  BY <1>1, <1>2, <1>3, <1>4, <1>5, <1>6, <1>7 DEF IInv

LEMMA TryRemoveIInv ==
  ASSUME IInv, NEW c \in Call, TryRemove(c)
  PROVE  IInv'
<1>1. TypeOK'
  BY DEF IInv, TypeOK, CallsOK, OwnLabels, Labels, TryRemove, Goto, shutdown
<1>2. CallsOK'
  BY DEF IInv, TypeOK, CallsOK, OwnLabels, TryRemove, Goto, shutdown
<1>3. HeldOK'
  BY DEF IInv, TypeOK, HeldOK, CallsOK, OwnLabels, HolderUnique, RegisteredOK, ProcOK, TryRemove, Goto, shutdown
<1>4. HolderUnique'
  BY DEF IInv, TypeOK, HolderUnique, HeldOK, OwnLabels, CallsOK, RegisteredOK, ProcOK, TryRemove, Goto, shutdown
<1>5. RegisteredOK'
  BY DEF IInv, TypeOK, RegisteredOK, HeldOK, OwnLabels, CallsOK, ProcOK, TryRemove, Goto, shutdown
<1>6. ProcOK'
  BY DEF IInv, TypeOK, ProcOK, HeldOK, OwnLabels, CallsOK, RegisteredOK, TryRemove, Goto, shutdown
<1>7. NoOrphan'
  BY DEF IInv, TypeOK, NoOrphan, Holds, HeldOK, CallsOK, OwnLabels, RegisteredOK, HolderUnique, ProcOK, TryRemove, Goto, shutdown
<1>. QED  BY <1>1, <1>2, <1>3, <1>4, <1>5, <1>6, <1>7 DEF IInv

LEMMA TryRemoveFailsIInv ==
  ASSUME IInv, NEW c \in Call, TryRemoveFails(c)
  PROVE  IInv'
<1>1. TypeOK'
  BY DEF IInv, TypeOK, Labels, TryRemoveFails, StopProcessReturns, Goto, Return, registry, shutdown
<1>2. CallsOK'
  BY DEF IInv, TypeOK, CallsOK, OwnLabels, TryRemoveFails, StopProcessReturns, Goto, Return, registry, shutdown
<1>3. HeldOK'
  BY DEF IInv, TypeOK, HeldOK, CallsOK, OwnLabels, HolderUnique, RegisteredOK, ProcOK, TryRemoveFails, StopProcessReturns, Goto, Return, registry, shutdown
<1>4. HolderUnique'
  BY DEF IInv, TypeOK, HolderUnique, HeldOK, OwnLabels, CallsOK, RegisteredOK, ProcOK, TryRemoveFails, StopProcessReturns, Goto, Return, registry, shutdown
<1>5. RegisteredOK'
  BY DEF IInv, TypeOK, RegisteredOK, HeldOK, OwnLabels, CallsOK, ProcOK, TryRemoveFails, StopProcessReturns, Goto, Return, registry, shutdown
<1>6. ProcOK'
  BY DEF IInv, TypeOK, ProcOK, HeldOK, OwnLabels, CallsOK, RegisteredOK, TryRemoveFails, StopProcessReturns, Goto, Return, registry, shutdown
<1>7. NoOrphan'
  BY DEF IInv, TypeOK, NoOrphan, Holds, HeldOK, CallsOK, OwnLabels, RegisteredOK, HolderUnique, ProcOK, TryRemoveFails, StopProcessReturns, Goto, Return, registry, shutdown
<1>. QED  BY <1>1, <1>2, <1>3, <1>4, <1>5, <1>6, <1>7 DEF IInv

LEMMA KillRemovedIInv ==
  ASSUME IInv, NEW c \in Call, KillRemoved(c)
  PROVE  IInv'
<1>1. TypeOK'
  BY DEF IInv, TypeOK, Labels, KillRemoved, KillHeld, Goto, shutdown
<1>2. CallsOK'
  BY DEF IInv, TypeOK, CallsOK, OwnLabels, KillRemoved, KillHeld, Goto, shutdown
<1>3. HeldOK'
  BY DEF IInv, TypeOK, HeldOK, CallsOK, OwnLabels, HolderUnique, RegisteredOK, ProcOK, KillRemoved, KillHeld, Goto, shutdown
<1>4. HolderUnique'
  BY DEF IInv, TypeOK, HolderUnique, HeldOK, OwnLabels, CallsOK, RegisteredOK, ProcOK, KillRemoved, KillHeld, Goto, shutdown
<1>5. RegisteredOK'
  BY DEF IInv, TypeOK, RegisteredOK, HeldOK, OwnLabels, CallsOK, ProcOK, KillRemoved, KillHeld, Goto, shutdown
<1>6. ProcOK'
  BY DEF IInv, TypeOK, ProcOK, HeldOK, OwnLabels, CallsOK, RegisteredOK, KillRemoved, KillHeld, Goto, shutdown
<1>7. NoOrphan'
  BY DEF IInv, TypeOK, NoOrphan, Holds, HeldOK, CallsOK, OwnLabels, RegisteredOK, HolderUnique, ProcOK, KillRemoved, KillHeld, Goto, shutdown
<1>. QED  BY <1>1, <1>2, <1>3, <1>4, <1>5, <1>6, <1>7 DEF IInv

LEMMA DisposeRemovedIInv ==
  ASSUME IInv, NEW c \in Call, DisposeRemoved(c)
  PROVE  IInv'
<1>1. TypeOK'
  BY DEF IInv, TypeOK, CallsOK, OwnLabels, Labels, DisposeRemoved, StopProcessReturns, Goto, Return, shutdown
<1>2. CallsOK'
  BY DEF IInv, TypeOK, CallsOK, OwnLabels, DisposeRemoved, StopProcessReturns, Goto, Return, shutdown
<1>3. HeldOK'
  BY DEF IInv, TypeOK, HeldOK, CallsOK, OwnLabels, HolderUnique, RegisteredOK, ProcOK, DisposeRemoved, StopProcessReturns, Goto, Return, shutdown
<1>4. HolderUnique'
  BY DEF IInv, TypeOK, HolderUnique, HeldOK, OwnLabels, CallsOK, RegisteredOK, ProcOK, DisposeRemoved, StopProcessReturns, Goto, Return, shutdown
<1>5. RegisteredOK'
  BY DEF IInv, TypeOK, RegisteredOK, HeldOK, OwnLabels, CallsOK, ProcOK, DisposeRemoved, StopProcessReturns, Goto, Return, shutdown
<1>6. ProcOK'
  BY DEF IInv, TypeOK, ProcOK, HeldOK, OwnLabels, CallsOK, RegisteredOK, DisposeRemoved, StopProcessReturns, Goto, Return, shutdown
<1>7. NoOrphan'
  BY DEF IInv, TypeOK, NoOrphan, Holds, HeldOK, CallsOK, OwnLabels, RegisteredOK, HolderUnique, ProcOK, DisposeRemoved, StopProcessReturns, Goto, Return, shutdown
<1>. QED  BY <1>1, <1>2, <1>3, <1>4, <1>5, <1>6, <1>7 DEF IInv

LEMMA DrainRemovesIInv ==
  ASSUME IInv, NEW p \in Proc, DrainRemoves(p)
  PROVE  IInv'
<1>1. TypeOK'
  BY DEF IInv, TypeOK, Labels, DrainRemoves, locals, shutdown
<1>2. CallsOK'
  BY DEF IInv, TypeOK, CallsOK, OwnLabels, DrainRemoves, locals, shutdown
<1>3. HeldOK'
  BY DEF IInv, TypeOK, HeldOK, CallsOK, OwnLabels, HolderUnique, RegisteredOK, ProcOK, DrainRemoves, locals, shutdown
<1>4. HolderUnique'
  BY DEF IInv, TypeOK, HolderUnique, HeldOK, OwnLabels, CallsOK, RegisteredOK, ProcOK, DrainRemoves, locals, shutdown
<1>5. RegisteredOK'
  BY DEF IInv, TypeOK, RegisteredOK, HeldOK, OwnLabels, CallsOK, ProcOK, DrainRemoves, locals, shutdown
<1>6. ProcOK'
  BY DEF IInv, TypeOK, ProcOK, HeldOK, OwnLabels, CallsOK, RegisteredOK, DrainRemoves, locals, shutdown
<1>7. NoOrphan'
  BY DEF IInv, TypeOK, NoOrphan, Holds, HeldOK, CallsOK, OwnLabels, RegisteredOK, HolderUnique, ProcOK, DrainRemoves, locals, shutdown
<1>. QED  BY <1>1, <1>2, <1>3, <1>4, <1>5, <1>6, <1>7 DEF IInv

LEMMA DrainEndsIInv ==
  ASSUME IInv, NEW p \in Proc, DrainFindsOther(p) \/ DrainFails(p)
  PROVE  IInv'
<1>1. TypeOK'
  BY DEF IInv, TypeOK, Labels, DrainFindsOther, DrainFails, locals, shutdown
<1>2. CallsOK'
  BY DEF IInv, TypeOK, CallsOK, OwnLabels, DrainFindsOther, DrainFails, locals, shutdown
<1>3. HeldOK'
  BY DEF IInv, TypeOK, HeldOK, CallsOK, OwnLabels, HolderUnique, RegisteredOK, ProcOK, DrainFindsOther, DrainFails, locals, shutdown
<1>4. HolderUnique'
  BY DEF IInv, TypeOK, HolderUnique, HeldOK, OwnLabels, CallsOK, RegisteredOK, ProcOK, DrainFindsOther, DrainFails, locals, shutdown
<1>5. RegisteredOK'
  BY DEF IInv, TypeOK, RegisteredOK, HeldOK, OwnLabels, CallsOK, ProcOK, DrainFindsOther, DrainFails, locals, shutdown
<1>6. ProcOK'
  BY DEF IInv, TypeOK, ProcOK, HeldOK, OwnLabels, CallsOK, RegisteredOK, DrainFindsOther, DrainFails, locals, shutdown
<1>7. NoOrphan'
  BY DEF IInv, TypeOK, NoOrphan, Holds, HeldOK, CallsOK, OwnLabels, RegisteredOK, HolderUnique, ProcOK, DrainFindsOther, DrainFails, locals, shutdown
<1>. QED  BY <1>1, <1>2, <1>3, <1>4, <1>5, <1>6, <1>7 DEF IInv

LEMMA DrainDisposesIInv ==
  ASSUME IInv, NEW p \in Proc, DrainDisposes(p)
  PROVE  IInv'
<1>1. TypeOK'
  BY DEF IInv, TypeOK, Labels, DrainDisposes, locals, shutdown
<1>2. CallsOK'
  BY DEF IInv, TypeOK, CallsOK, OwnLabels, DrainDisposes, locals, shutdown
<1>3. HeldOK'
  BY DEF IInv, TypeOK, HeldOK, CallsOK, OwnLabels, HolderUnique, RegisteredOK, ProcOK, DrainDisposes, locals, shutdown
<1>4. HolderUnique'
  BY DEF IInv, TypeOK, HolderUnique, HeldOK, OwnLabels, CallsOK, RegisteredOK, ProcOK, DrainDisposes, locals, shutdown
<1>5. RegisteredOK'
  BY DEF IInv, TypeOK, RegisteredOK, HeldOK, OwnLabels, CallsOK, ProcOK, DrainDisposes, locals, shutdown
<1>6. ProcOK'
  BY DEF IInv, TypeOK, ProcOK, HeldOK, OwnLabels, CallsOK, RegisteredOK, DrainDisposes, locals, shutdown
<1>7. NoOrphan'
  BY DEF IInv, TypeOK, NoOrphan, Holds, HeldOK, CallsOK, OwnLabels, RegisteredOK, HolderUnique, ProcOK, DrainDisposes, locals, shutdown
<1>. QED  BY <1>1, <1>2, <1>3, <1>4, <1>5, <1>6, <1>7 DEF IInv

LEMMA ProcessExitsIInv ==
  ASSUME IInv, NEW p \in Proc, ProcessExits(p) \/ KilledProcessExits(p)
  PROVE  IInv'
<1>1. TypeOK'
  BY DEF IInv, TypeOK, Labels, ProcessExits, KilledProcessExits, locals, shutdown
<1>2. CallsOK'
  BY DEF IInv, TypeOK, CallsOK, OwnLabels, ProcessExits, KilledProcessExits, locals, shutdown
<1>3. HeldOK'
  BY DEF IInv, TypeOK, HeldOK, CallsOK, OwnLabels, HolderUnique, RegisteredOK, ProcOK, ProcessExits, KilledProcessExits, locals, shutdown
<1>4. HolderUnique'
  BY DEF IInv, TypeOK, HolderUnique, HeldOK, OwnLabels, CallsOK, RegisteredOK, ProcOK, ProcessExits, KilledProcessExits, locals, shutdown
<1>5. RegisteredOK'
  BY DEF IInv, TypeOK, RegisteredOK, HeldOK, OwnLabels, CallsOK, ProcOK, ProcessExits, KilledProcessExits, locals, shutdown
<1>6. ProcOK'
  BY DEF IInv, TypeOK, ProcOK, HeldOK, OwnLabels, CallsOK, RegisteredOK, ProcessExits, KilledProcessExits, locals, shutdown
<1>7. NoOrphan'
  BY DEF IInv, TypeOK, NoOrphan, Holds, HeldOK, CallsOK, OwnLabels, RegisteredOK, HolderUnique, ProcOK, ProcessExits, KilledProcessExits, locals, shutdown
<1>. QED  BY <1>1, <1>2, <1>3, <1>4, <1>5, <1>6, <1>7 DEF IInv

LEMMA DisposeStepsIInv ==
  ASSUME IInv, NEW c \in Call, Dispose(c) \/ (\E s \in Session : NextKey(c, s)) \/ DisposeReturns(c)
  PROVE  IInv'
<1>1. TypeOK'
  BY DEF IInv, TypeOK, Labels, Dispose, NextKey, DisposeReturns, Return, registry, shutdown
<1>2. CallsOK'
  BY DEF IInv, TypeOK, CallsOK, OwnLabels, Dispose, NextKey, DisposeReturns, Return, registry, shutdown
<1>3. HeldOK'
  BY DEF IInv, TypeOK, HeldOK, CallsOK, OwnLabels, HolderUnique, RegisteredOK, ProcOK, Dispose, NextKey, DisposeReturns, Return, registry, shutdown
<1>4. HolderUnique'
  BY DEF IInv, TypeOK, HolderUnique, HeldOK, OwnLabels, CallsOK, RegisteredOK, ProcOK, Dispose, NextKey, DisposeReturns, Return, registry, shutdown
<1>5. RegisteredOK'
  BY DEF IInv, TypeOK, RegisteredOK, HeldOK, OwnLabels, CallsOK, ProcOK, Dispose, NextKey, DisposeReturns, Return, registry, shutdown
<1>6. ProcOK'
  BY DEF IInv, TypeOK, ProcOK, HeldOK, OwnLabels, CallsOK, RegisteredOK, Dispose, NextKey, DisposeReturns, Return, registry, shutdown
<1>7. NoOrphan'
  BY DEF IInv, TypeOK, NoOrphan, Holds, HeldOK, CallsOK, OwnLabels, RegisteredOK, HolderUnique, ProcOK, Dispose, NextKey, DisposeReturns, Return, registry, shutdown
<1>. QED  BY <1>1, <1>2, <1>3, <1>4, <1>5, <1>6, <1>7 DEF IInv

LEMMA StutterIInv == ASSUME IInv, UNCHANGED vars PROVE IInv'
BY DEF vars, IInv, TypeOK, CallsOK, HeldOK, HolderUnique, RegisteredOK, ProcOK,
       NoOrphan, Holds

LEMMA NextIInv == IInv /\ [Next]_vars => IInv'
<1>. SUFFICES ASSUME IInv, [Next]_vars PROVE IInv'
  OBVIOUS
<1>1. CASE \E c \in Call : \E s \in Session :
             StartAsync(c, s) \/ SeekAsync(c, s) \/ StopAsync(c, s)
  BY <1>1, EnterIInv
<1>2. ASSUME NEW c \in Call, CallStep(c) PROVE IInv'
  BY <1>2, TryGetValueIInv, HasExitedIInv, ProcessStartIInv,
     ProcessStartFailsIInv, TryAddIInv, TryAddFailsIInv, KillDuplicateIInv,
     DisposeDuplicateIInv, TryRemoveIInv, TryRemoveFailsIInv, KillRemovedIInv,
     DisposeRemovedIInv, DisposeStepsIInv
     DEF CallStep
<1>3. ASSUME NEW c \in Call, StartSkipped(c) \/ Dispose(c) PROVE IInv'
  BY <1>3, StartSkippedIInv, DisposeStepsIInv
<1>4. ASSUME NEW p \in Proc,
             DrainStep(p) \/ DrainFails(p) \/ ProcessExits(p) \/ KilledProcessExits(p)
      PROVE  IInv'
  BY <1>4, DrainRemovesIInv, DrainEndsIInv, DrainDisposesIInv, ProcessExitsIInv
     DEF DrainStep
<1>5. CASE UNCHANGED vars
  BY <1>5, StutterIInv
<1>. QED
  BY <1>1, <1>2, <1>3, <1>4, <1>5 DEF Next

(* The strengthened invariant holds in every reachable state. *)
THEOREM InvariantHolds == Spec => []IInv
BY InitIInv, NextIInv, PTL DEF Spec

(* Every variable keeps its type. *)
THEOREM TypeCorrect == Spec => []TypeOK
BY InvariantHolds, PTL DEF IInv

(* A running FFmpeg process is always registered for its session or in the
   hands of a call that will register or kill it. *)
THEOREM NoOrphanHolds == Spec => []NoOrphan
BY InvariantHolds, PTL DEF IInv

(* A disposed handle is never in the dictionary and belongs to a process that
   was killed or has exited. *)
THEOREM DisposedIsDeadHolds == Spec => []DisposedIsDead
<1>1. IInv => DisposedIsDead
  BY DEF IInv, TypeOK, RegisteredOK, ProcOK, DisposedIsDead
<1>. QED  BY <1>1, InvariantHolds, PTL
-----------------------------------------------------------------------------
(* A process that has not exited leaves the dictionary only into the hands of
   the call that goes on to kill it. *)
THEOREM RemovedToBeKilledHolds == Spec => RemovedToBeKilled
<1>. DEFINE A == \A s \in Session :
       (processes[s] # None /\ processes'[s] # processes[s]) =>
         \/ life[processes[s]] = "exited"
         \/ \E c \in Call : held'[c] = processes[s] /\ pc'[c] = "kill"
<1>1. ASSUME IInv, [Next]_vars PROVE [A]_vars
  <2>. SUFFICES ASSUME NEW s \in Session, processes[s] # None,
                       processes'[s] # processes[s]
                PROVE  \/ life[processes[s]] = "exited"
                       \/ \E c \in Call : held'[c] = processes[s] /\ pc'[c] = "kill"
    OBVIOUS
  <2>1. \/ \E c \in Call : TryAdd(c) \/ TryRemove(c)
        \/ \E p \in Proc : DrainRemoves(p)
    BY <1>1 DEF Next, vars, CallStep, DrainStep, registry, shutdown, locals,
       StartAsync, SeekAsync, StopAsync, Enter, StartSkipped, TryGetValue,
       HasExited, ProcessStart, ProcessStartFails, TryAddFails, KillHeld,
       KillDuplicate, DisposeDuplicate, TryRemoveFails, KillRemoved,
       DisposeRemoved, DrainFindsOther, DrainDisposes, DrainFails,
       ProcessExits, KilledProcessExits, Dispose, NextKey, DisposeReturns
  <2>2. ASSUME NEW c \in Call, TryAdd(c) PROVE FALSE
    BY <1>1, <2>2 DEF TryAdd, IInv, TypeOK, CallsOK, OwnLabels
  <2>3. ASSUME NEW c \in Call, TryRemove(c)
        PROVE  \E d \in Call : held'[d] = processes[s] /\ pc'[d] = "kill"
    BY <1>1, <2>3 DEF TryRemove, Goto, IInv, TypeOK
  <2>4. ASSUME NEW p \in Proc, DrainRemoves(p)
        PROVE  life[processes[s]] = "exited"
    BY <1>1, <2>4 DEF DrainRemoves, IInv, TypeOK
  <2>. QED  BY <2>1, <2>2, <2>3, <2>4
<1>. QED  BY <1>1, InvariantHolds, PTL DEF Spec, RemovedToBeKilled
-----------------------------------------------------------------------------
(* A process that was started has an owner. *)
OwnerOK == \A p \in Proc : life[p] # "none" => owner[p] \in Session

(* Once Dispose has begun, one thread disposes and any others are calls that
   outlived the shutdown.  Each entry is still to be visited, or in the hands of
   the thread that disposes, or was registered by one of the others. *)
Disposer(c) == op[c] = "dispose" /\ pc[c] \in {"nextKey", "remove", "kill", "dispose"}
Elsewhere(c) == op[c] # "dispose" /\ pc[c] # "nextKey"

AloneOK ==
  /\ \A c \in Call \ late : pc[c] # "idle" => Disposer(c) /\ host = "disposing"
  /\ \A c, d \in Call \ late : pc[c] # "idle" /\ pc[d] # "idle" => c = d

LateOK ==
  \A c \in late : Elsewhere(c) /\ (missed[c] # None => pc[c] = "idle")

VisitedOK ==
  \A s \in Session : processes[s] # None =>
    \/ host = "disposing" /\ s \in sweep
    \/ \E c \in Call \ late : pc[c] = "remove" /\ target[c] = s
    \/ \E c \in late : missed[c] = processes[s]

UpOK == \A c \in Call : Elsewhere(c) /\ missed[c] = None

ShutdownOK ==
  /\ host = "up" => UpOK
  /\ host # "up" => AloneOK /\ LateOK /\ VisitedOK

LEMMA OwnerStep ==
  ASSUME IInv, OwnerOK, [Next]_vars
  PROVE  OwnerOK'
<1>1. ASSUME NEW c \in Call, NEW p \in Proc, ProcessStart(c, p) PROVE OwnerOK'
  BY <1>1 DEF ProcessStart, OwnerOK, IInv, TypeOK, CallsOK
<1>2. CASE owner' = owner /\ \A p \in Proc : life[p] = "none" => life'[p] = "none"
  BY <1>2 DEF OwnerOK
<1>3. CASE [Next]_vars /\ ~(\E c \in Call, p \in Proc : ProcessStart(c, p))
  <2>1. owner' = owner
    BY <1>3 DEF Next, vars, registry, shutdown, StartAsync, SeekAsync, StopAsync, Enter,
       StartSkipped, CallStep, TryGetValue, HasExited, ProcessStartFails, TryAdd,
       TryAddFails, KillDuplicate, KillHeld, DisposeDuplicate, TryRemove, TryRemoveFails,
       KillRemoved, DisposeRemoved, NextKey, DisposeReturns, Dispose, DrainStep,
       DrainRemoves, DrainFindsOther, DrainDisposes, DrainFails, ProcessExits,
       KilledProcessExits
  <2>2. ASSUME NEW c \in Call, NEW from, NEW to, KillHeld(c, from, to)
        PROVE  \A p \in Proc : life[p] = "none" => life'[p] = "none"
    BY <2>2 DEF KillHeld, IInv, TypeOK
  <2>3. ASSUME NEW p \in Proc, ProcessExits(p) \/ KilledProcessExits(p)
        PROVE  \A q \in Proc : life[q] = "none" => life'[q] = "none"
    BY <2>3 DEF ProcessExits, KilledProcessExits, IInv, TypeOK
  <2>4. CASE life' = life
    BY <2>1, <2>4 DEF OwnerOK
  <2>5. CASE life' # life
    <3>1. \/ \E c \in Call : KillDuplicate(c) \/ KillRemoved(c)
          \/ \E p \in Proc : ProcessExits(p) \/ KilledProcessExits(p)
      BY <1>3, <2>5 DEF Next, vars, registry, shutdown, StartAsync, SeekAsync, StopAsync,
         Enter, StartSkipped, CallStep, TryGetValue, HasExited, ProcessStartFails, TryAdd,
         TryAddFails, DisposeDuplicate, TryRemove, TryRemoveFails, DisposeRemoved, NextKey,
         DisposeReturns, Dispose, DrainStep, DrainRemoves, DrainFindsOther, DrainDisposes,
         DrainFails
    <3> QED BY <2>1, <2>2, <2>3, <3>1, <1>2 DEF KillDuplicate, KillRemoved
  <2> QED BY <2>4, <2>5
<1> QED BY <1>1, <1>3

LEMMA DisposeBegins ==
  ASSUME IInv, UpOK, NEW c \in Call, Dispose(c)
  PROVE  ShutdownOK'
<1>1. /\ host' = "disposing" /\ processes' = processes /\ missed' = missed
      /\ late' = {d \in Call : pc[d] # "idle"}
      /\ pc[c] = "idle" /\ sweep' = {s \in Session : processes[s] # None}
      /\ pc' = [pc EXCEPT ![c] = "nextKey"] /\ op' = [op EXCEPT ![c] = "dispose"]
  BY DEF Dispose, registry
<1>2. AloneOK'
  BY <1>1 DEF AloneOK, Disposer, IInv, TypeOK
<1>3. LateOK'
  BY <1>1 DEF LateOK, UpOK, Elsewhere, IInv, TypeOK
<1>4. VisitedOK'
  BY <1>1 DEF VisitedOK
<1> QED BY <1>1, <1>2, <1>3, <1>4 DEF ShutdownOK

(* A step of a call that does not dispose. *)
LEMMA CallAway ==
  ASSUME IInv, NEW c \in Call, Elsewhere(c), CallStep(c) \/ StartSkipped(c)
  PROVE  /\ Elsewhere(c)' /\ pc[c] # "idle" /\ UNCHANGED <<sweep, host, late>>
         /\ \A d \in Call \ {c} : pc'[d] = pc[d] /\ op'[d] = op[d] /\ target'[d] = target[d]
         /\ \/ UNCHANGED missed /\ \A s \in Session : processes'[s] \in {processes[s], None}
            \/ TryAdd(c)
<1>0. op[c] # "dispose" /\ pc[c] # "nextKey"
  BY DEF Elsewhere
<1>. DEFINE Moved == /\ Elsewhere(c)'
                     /\ \A d \in Call \ {c} : /\ pc'[d] = pc[d] /\ op'[d] = op[d]
                                              /\ target'[d] = target[d]
<1>1. ASSUME Return(c) PROVE Moved
  BY <1>1 DEF Return, Elsewhere, IInv, TypeOK
<1>2. ASSUME NEW label \in Labels \ {"nextKey"}, Goto(c, label) PROVE Moved
  BY <1>0, <1>2 DEF Goto, Elsewhere, IInv, TypeOK
<1>3. ASSUME StopProcessReturns(c) PROVE Moved
  BY <1>0, <1>1, <1>2, <1>3 DEF StopProcessReturns, Labels
<1>. HIDE DEF Moved
<1>4. /\ pc[c] # "idle" /\ UNCHANGED <<sweep, host, late>>
      /\ TryAdd(c) \/ UNCHANGED missed
  BY <1>0 DEF CallStep, StartSkipped, TryGetValue, HasExited, ProcessStart,
     ProcessStartFails, TryAdd, TryAddFails, KillDuplicate, KillHeld, DisposeDuplicate,
     TryRemove, TryRemoveFails, KillRemoved, DisposeRemoved, NextKey, DisposeReturns, shutdown
<1>5. TryAdd(c) \/ \A s \in Session : processes'[s] \in {processes[s], None}
  BY <1>0 DEF CallStep, StartSkipped, TryGetValue, HasExited, ProcessStart,
     ProcessStartFails, TryAddFails, KillDuplicate, KillHeld, DisposeDuplicate,
     TryRemove, TryRemoveFails, KillRemoved, DisposeRemoved, NextKey, DisposeReturns,
     registry, IInv, TypeOK
<1>6. Moved
  <2>1. CASE TryRemoveFails(c) \/ DisposeRemoved(c)
    BY <1>3, <2>1 DEF TryRemoveFails, DisposeRemoved
  <2>2. CASE ~(TryRemoveFails(c) \/ DisposeRemoved(c))
    <3>1. Return(c) \/ \E label \in Labels \ {"nextKey"} : Goto(c, label)
      BY <1>0, <2>2 DEF CallStep, StartSkipped, TryGetValue, HasExited, ProcessStart,
         ProcessStartFails, TryAdd, TryAddFails, KillDuplicate, KillHeld, DisposeDuplicate,
         TryRemove, KillRemoved, NextKey, DisposeReturns, Labels
    <3> QED BY <1>1, <1>2, <3>1
  <2> QED BY <2>1, <2>2
<1> QED BY <1>4, <1>5, <1>6 DEF Moved

(* Before Dispose begins no thread disposes and none has registered anything. *)
LEMMA CallsWhileUp ==
  ASSUME IInv, UpOK, host = "up", NEW c \in Call, CallStep(c) \/ StartSkipped(c)
  PROVE  UpOK' /\ host' = host
<1>1. Elsewhere(c)
  BY DEF UpOK
<1>2. UNCHANGED missed
  BY <1>1, CallAway DEF TryAdd
<1> QED BY <1>1, <1>2, CallAway DEF UpOK, Elsewhere

(* A call that outlived the shutdown. *)
LEMMA LateSteps ==
  ASSUME IInv, host # "up", AloneOK, LateOK, VisitedOK, NEW c \in late,
         CallStep(c) \/ StartSkipped(c)
  PROVE  AloneOK' /\ LateOK' /\ VisitedOK'
<1>0. c \in Call /\ late \in SUBSET Call /\ Elsewhere(c)
  BY DEF IInv, TypeOK, LateOK
<1>1. /\ Elsewhere(c)' /\ pc[c] # "idle" /\ UNCHANGED <<sweep, host, late>>
      /\ \A d \in Call \ {c} : pc'[d] = pc[d] /\ op'[d] = op[d] /\ target'[d] = target[d]
  BY <1>0, CallAway
<1>2. missed[c] = None
  BY <1>1 DEF LateOK
<1>3. AloneOK'
  BY <1>0, <1>1 DEF AloneOK, Disposer
<1>4. CASE UNCHANGED missed /\ \A s \in Session : processes'[s] \in {processes[s], None}
  <2>1. LateOK'
    BY <1>0, <1>1, <1>2, <1>4 DEF LateOK, Elsewhere
  <2>2. VisitedOK'
    <3>1. SUFFICES ASSUME NEW s \in Session, processes'[s] # None
                   PROVE  \/ host' = "disposing" /\ s \in sweep'
                          \/ \E d \in Call \ late : pc'[d] = "remove" /\ target'[d] = s
                          \/ \E d \in late : missed'[d] = processes'[s]
      BY <1>1 DEF VisitedOK
    <3>2. processes'[s] = processes[s]
      BY <1>4, <3>1
    <3> QED BY <1>0, <1>1, <1>4, <3>1, <3>2 DEF VisitedOK
  <2> QED BY <1>3, <2>1, <2>2
<1>5. CASE TryAdd(c)
  <2>1. /\ pc[c] = "add" /\ held[c] \in Proc /\ target[c] \in Session
        /\ processes' = [processes EXCEPT ![target[c]] = held[c]]
        /\ missed' = [missed EXCEPT ![c] = held[c]] /\ pc'[c] = "idle"
    BY <1>0, <1>5 DEF TryAdd, Return, IInv, TypeOK, CallsOK, OwnLabels
  <2>2. LateOK'
    BY <1>0, <1>1, <2>1 DEF LateOK, Elsewhere, IInv, TypeOK
  <2>3. VisitedOK'
    <3>1. SUFFICES ASSUME NEW s \in Session, processes'[s] # None
                   PROVE  \/ host' = "disposing" /\ s \in sweep'
                          \/ \E d \in Call \ late : pc'[d] = "remove" /\ target'[d] = s
                          \/ \E d \in late : missed'[d] = processes'[s]
      BY <1>1 DEF VisitedOK
    <3>2. CASE s = target[c]
      BY <2>1, <3>2 DEF IInv, TypeOK
    <3>3. CASE s # target[c]
      <4>1. processes'[s] = processes[s]
        BY <2>1, <3>3
      <4>2. \A d \in Call : missed[d] # None => missed'[d] = missed[d]
        BY <1>2, <2>1 DEF IInv, TypeOK
      <4> QED BY <1>0, <1>1, <3>1, <4>1, <4>2 DEF VisitedOK
    <3> QED BY <3>2, <3>3
  <2> QED BY <1>3, <2>2, <2>3
<1> QED BY <1>0, <1>4, <1>5, CallAway

(* The thread that disposes. *)
LEMMA DisposerSteps ==
  ASSUME IInv, host # "up", AloneOK, LateOK, VisitedOK, NEW c \in Call \ late,
         CallStep(c) \/ StartSkipped(c)
  PROVE  host' # "up" /\ AloneOK' /\ LateOK' /\ VisitedOK'
<1>0. /\ Disposer(c) /\ host = "disposing" /\ \A d \in Call \ late : d # c => pc[d] = "idle"
      /\ late \in SUBSET Call
  <2>1. pc[c] # "idle"
    BY DEF CallStep, StartSkipped, TryGetValue, HasExited, ProcessStart, ProcessStartFails,
       TryAdd, TryAddFails, KillDuplicate, KillHeld, DisposeDuplicate, TryRemove,
       TryRemoveFails, KillRemoved, DisposeRemoved, NextKey, DisposeReturns
  <2> QED BY <2>1 DEF AloneOK, IInv, TypeOK
<1>1. \/ TryRemove(c) \/ TryRemoveFails(c) \/ KillRemoved(c) \/ DisposeRemoved(c)
      \/ (\E s \in Session : NextKey(c, s)) \/ DisposeReturns(c)
  BY <1>0 DEF Disposer, CallStep, StartSkipped, TryGetValue, HasExited, ProcessStart,
     ProcessStartFails, TryAdd, TryAddFails, KillDuplicate, KillHeld, DisposeDuplicate
<1>2. CASE TryRemove(c)
  <2>1. AloneOK' /\ LateOK'
    BY <1>0, <1>2 DEF AloneOK, LateOK, Elsewhere, Disposer, TryRemove, Goto, shutdown, IInv, TypeOK
  <2>2. VisitedOK'
    BY <1>0, <1>2 DEF VisitedOK, TryRemove, Goto, shutdown, IInv, TypeOK
  <2> QED BY <1>0, <1>2, <2>1, <2>2 DEF TryRemove, shutdown
<1>3. CASE TryRemoveFails(c)
  <2>1. pc' = [pc EXCEPT ![c] = "nextKey"] /\ UNCHANGED <<op, target, processes, shutdown>>
    BY <1>0, <1>3 DEF TryRemoveFails, StopProcessReturns, Disposer, Goto, registry
  <2>2. AloneOK' /\ LateOK'
    BY <1>0, <2>1 DEF AloneOK, LateOK, Elsewhere, Disposer, shutdown, IInv, TypeOK
  <2>3. VisitedOK'
    BY <1>0, <1>3, <2>1 DEF VisitedOK, TryRemoveFails, shutdown, IInv, TypeOK
  <2> QED BY <1>0, <2>1, <2>2, <2>3 DEF shutdown
<1>4. CASE KillRemoved(c)
  <2>1. /\ pc[c] = "kill" /\ pc' = [pc EXCEPT ![c] = "dispose"]
        /\ UNCHANGED <<op, target, processes, shutdown>>
    BY <1>4 DEF KillRemoved, KillHeld, Goto
  <2> QED BY <1>0, <2>1 DEF AloneOK, LateOK, Elsewhere, VisitedOK, Disposer, shutdown, IInv, TypeOK
<1>5. CASE DisposeRemoved(c)
  <2>1. /\ pc[c] = "dispose" /\ pc' = [pc EXCEPT ![c] = "nextKey"]
        /\ UNCHANGED <<op, target, processes, shutdown>>
    BY <1>0, <1>5 DEF DisposeRemoved, StopProcessReturns, Disposer, Goto
  <2> QED BY <1>0, <2>1 DEF AloneOK, LateOK, Elsewhere, VisitedOK, Disposer, shutdown, IInv, TypeOK
<1>6. ASSUME NEW s \in Session, NextKey(c, s)
      PROVE  host' # "up" /\ AloneOK' /\ LateOK' /\ VisitedOK'
  <2>1. AloneOK' /\ LateOK'
    BY <1>0, <1>6 DEF AloneOK, LateOK, Elsewhere, Disposer, NextKey, IInv, TypeOK
  <2>2. VisitedOK'
    BY <1>0, <1>6 DEF VisitedOK, NextKey, registry, IInv, TypeOK
  <2> QED BY <1>0, <1>6, <2>1, <2>2 DEF NextKey
<1>7. CASE DisposeReturns(c)
  <2>1. /\ \A d \in Call \ late : pc'[d] = "idle"
        /\ \A d \in late : pc'[d] = pc[d] /\ op'[d] = op[d]
        /\ UNCHANGED <<processes, late, missed>> /\ host' = "down"
    BY <1>0, <1>7 DEF DisposeReturns, Return, registry, IInv, TypeOK
  <2>2. AloneOK' /\ LateOK'
    BY <2>1 DEF AloneOK, LateOK, Elsewhere
  <2>3. VisitedOK'
    BY <1>0, <1>7, <2>1 DEF VisitedOK, DisposeReturns
  <2> QED BY <2>1, <2>2, <2>3
<1> QED BY <1>1, <1>2, <1>3, <1>4, <1>5, <1>6, <1>7

LEMMA ShutdownStep ==
  ASSUME IInv, ShutdownOK, [Next]_vars
  PROVE  ShutdownOK'
<1>1. ASSUME NEW c \in Call, Dispose(c) PROVE ShutdownOK'
  BY <1>1, DisposeBegins DEF ShutdownOK, Dispose
<1>2. ASSUME NEW c \in Call, CallStep(c) \/ StartSkipped(c) PROVE ShutdownOK'
  <2>1. CASE host = "up"
    BY <1>2, <2>1, CallsWhileUp DEF ShutdownOK
  <2>2. CASE host # "up" /\ c \in late
    <3>1. UNCHANGED host
      BY <1>2, <2>2, CallAway DEF ShutdownOK, LateOK
    <3> QED BY <1>2, <2>2, <3>1, LateSteps DEF ShutdownOK
  <2>3. CASE host # "up" /\ c \notin late
    BY <1>2, <2>3, DisposerSteps DEF ShutdownOK
  <2> QED BY <2>1, <2>2, <2>3
<1>3. ASSUME NEW c \in Call, NEW s \in Session,
             StartAsync(c, s) \/ SeekAsync(c, s) \/ StopAsync(c, s)
      PROVE  ShutdownOK'
  BY <1>3 DEF StartAsync, SeekAsync, StopAsync, Enter, shutdown, ShutdownOK, UpOK, Elsewhere,
     IInv, TypeOK
<1>4. ASSUME NEW p \in Proc,
             DrainStep(p) \/ DrainFails(p) \/ ProcessExits(p) \/ KilledProcessExits(p)
      PROVE  ShutdownOK'
  <2>1. UNCHANGED locals /\ UNCHANGED shutdown
    BY <1>4 DEF DrainStep, DrainRemoves, DrainFindsOther, DrainDisposes, DrainFails,
       ProcessExits, KilledProcessExits
  <2>2. \A s \in Session : processes'[s] \in {processes[s], None}
    BY <1>4 DEF DrainStep, DrainRemoves, DrainFindsOther, DrainDisposes, DrainFails,
       ProcessExits, KilledProcessExits, IInv, TypeOK
  <2>3. (AloneOK => AloneOK') /\ (LateOK => LateOK') /\ (UpOK => UpOK')
    BY <2>1 DEF UpOK, AloneOK, LateOK, Elsewhere, Disposer, locals, shutdown
  <2>4. VisitedOK => VisitedOK'
    BY <2>1, <2>2 DEF VisitedOK, locals, shutdown
  <2> QED BY <2>1, <2>3, <2>4 DEF ShutdownOK, shutdown
<1>5. CASE UNCHANGED vars
  BY <1>5 DEF vars, ShutdownOK, UpOK, AloneOK, LateOK, Elsewhere, VisitedOK, Disposer
<1> QED BY <1>1, <1>2, <1>3, <1>4, <1>5 DEF Next

(* When Dispose has returned it has visited every entry there was: a process
   that still runs is that of a call which outlived the shutdown, and no such
   call has more than one. *)
THEOREM DisposeStopsAllHolds == Spec => []DisposeStopsAll
<1>1. Init => OwnerOK /\ ShutdownOK
  BY DEF Init, OwnerOK, ShutdownOK, UpOK, Elsewhere
<1>2. IInv /\ OwnerOK /\ ShutdownOK /\ [Next]_vars => (OwnerOK /\ ShutdownOK)'
  BY OwnerStep, ShutdownStep
<1>3. IInv /\ OwnerOK /\ ShutdownOK => DisposeStopsAll
  <2> SUFFICES ASSUME IInv, OwnerOK, ShutdownOK, host = "down",
                      NEW p \in Proc, life[p] = "running"
               PROVE  \E c \in late : \/ missed[c] = None /\ Holds(c, p)
                                      \/ missed[c] = p /\ processes[owner[p]] = p
    BY DEF DisposeStopsAll
  <2>1. \A c \in Call \ late : pc[c] = "idle"
    BY DEF ShutdownOK, AloneOK
  <2>2. CASE processes[owner[p]] = p
    <3>1. owner[p] \in Session /\ processes[owner[p]] # None
      BY <2>2, MediaWorkerAssumption DEF OwnerOK
    <3> QED BY <2>1, <2>2, <3>1 DEF ShutdownOK, VisitedOK
  <2>3. CASE \E c \in Call : Holds(c, p)
    BY <2>1, <2>3 DEF Holds, ShutdownOK, LateOK
  <2> QED BY <2>2, <2>3 DEF IInv, NoOrphan
<1> QED BY <1>1, <1>2, <1>3, InvariantHolds, PTL DEF Spec
-----------------------------------------------------------------------------
(* Refinement of WorkerRegistry. *)
abstract == <<liveWorker, endedProcs>>

(* Steps that leave the dictionary, the lives and the held processes of the
   killing calls as they are to the abstract registry. *)
LEMMA SilentSteps ==
  ASSUME IInv, NEW c \in Call,
         \/ \E s \in Session : StartAsync(c, s) \/ SeekAsync(c, s) \/ StopAsync(c, s)
         \/ StartSkipped(c) \/ TryGetValue(c) \/ HasExited(c)
         \/ \E p \in Proc : ProcessStart(c, p)
         \/ ProcessStartFails(c) \/ KillDuplicate(c) \/ DisposeDuplicate(c)
         \/ TryRemoveFails(c) \/ KillRemoved(c) \/ DisposeRemoved(c)
         \/ Dispose(c) \/ (\E s \in Session : NextKey(c, s)) \/ DisposeReturns(c)
  PROVE  UNCHANGED abstract
<1>1. liveWorker' = liveWorker
  BY DEF IInv, TypeOK, CallsOK, HeldOK, RegisteredOK, OwnLabels, liveWorker,
     StartAsync, SeekAsync, StopAsync, Enter, StartSkipped, TryGetValue,
     HasExited, ProcessStart, ProcessStartFails, KillDuplicate, KillRemoved,
     KillHeld, DisposeDuplicate, TryRemoveFails, DisposeRemoved, Dispose,
     NextKey, DisposeReturns, registry, shutdown
<1>2. endedProcs' = endedProcs
  <2>1. CASE \/ \E s \in Session : StartAsync(c, s) \/ SeekAsync(c, s) \/ StopAsync(c, s)
             \/ StartSkipped(c) \/ TryGetValue(c) \/ HasExited(c)
             \/ ProcessStartFails(c) \/ DisposeDuplicate(c)
             \/ TryRemoveFails(c) \/ DisposeRemoved(c)
             \/ Dispose(c) \/ (\E s \in Session : NextKey(c, s)) \/ DisposeReturns(c)
    BY <2>1 DEF IInv, TypeOK, CallsOK, OwnLabels, endedProcs, Holds,
       StartAsync, SeekAsync, StopAsync, Enter, StartSkipped, TryGetValue,
       HasExited, ProcessStartFails, DisposeDuplicate, TryRemoveFails,
       StopProcessReturns, Goto, Return, DisposeRemoved, Dispose, NextKey,
       DisposeReturns, registry, shutdown
  <2>2. ASSUME NEW p \in Proc, ProcessStart(c, p) PROVE endedProcs' = endedProcs
    BY <2>2 DEF IInv, TypeOK, CallsOK, HeldOK, OwnLabels, endedProcs, Holds,
       ProcessStart, Goto
  <2>3. CASE KillDuplicate(c) \/ KillRemoved(c)
    BY <2>3 DEF IInv, TypeOK, CallsOK, HeldOK, HolderUnique, OwnLabels,
       endedProcs, Holds, KillDuplicate, KillRemoved, KillHeld, Goto
  <2>. QED  BY <2>1, <2>2, <2>3
<1>. QED  BY <1>1, <1>2 DEF abstract

LEMMA SilentProcSteps ==
  ASSUME IInv, NEW p \in Proc,
         DrainStep(p) \/ DrainFails(p) \/ KilledProcessExits(p)
  PROVE  UNCHANGED abstract
<1>1. liveWorker' = liveWorker
  BY DEF IInv, TypeOK, RegisteredOK, liveWorker, DrainStep, DrainRemoves,
     DrainFindsOther, DrainDisposes, DrainFails, KilledProcessExits
<1>2. endedProcs' = endedProcs
  BY DEF IInv, TypeOK, endedProcs, Holds, DrainStep, DrainRemoves,
     DrainFindsOther, DrainDisposes, DrainFails, KilledProcessExits, locals
<1>. QED  BY <1>1, <1>2 DEF abstract

LEMMA TryAddRefines ==
  ASSUME IInv, NEW c \in Call, TryAdd(c)
  PROVE  Registry!Launch(target[c], held[c]) \/ UNCHANGED abstract
<1>1. endedProcs' = endedProcs
  BY DEF IInv, TypeOK, CallsOK, HeldOK, HolderUnique, OwnLabels, endedProcs,
     Holds, TryAdd, Return
<1>2. CASE life[held[c]] = "running"
  <2>1. /\ liveWorker[target[c]] = None
        /\ liveWorker' = [liveWorker EXCEPT ![target[c]] = held[c]]
        /\ \A t \in Session : liveWorker[t] # held[c]
    BY <1>2 DEF IInv, TypeOK, CallsOK, HeldOK, OwnLabels, liveWorker, TryAdd
  <2>2. held[c] \notin endedProcs
    BY <1>2 DEF IInv, TypeOK, CallsOK, HolderUnique, OwnLabels, endedProcs,
       Holds, TryAdd
  <2>. QED  BY <1>1, <2>1, <2>2 DEF Registry!Launch
<1>3. CASE life[held[c]] # "running"
  <2>1. liveWorker' = liveWorker
    BY <1>3 DEF IInv, TypeOK, CallsOK, OwnLabels, liveWorker, TryAdd
  <2>. QED  BY <1>1, <2>1 DEF abstract
<1>. QED  BY <1>2, <1>3

LEMMA TryAddFailsRefines ==
  ASSUME IInv, NEW c \in Call, TryAddFails(c)
  PROVE  Registry!End(held[c]) \/ UNCHANGED abstract
<1>1. liveWorker' = liveWorker
  BY DEF IInv, TypeOK, liveWorker, TryAddFails, registry
<1>2. endedProcs' = endedProcs \cup {held[c]}
  BY DEF IInv, TypeOK, CallsOK, HeldOK, OwnLabels, endedProcs, Holds,
     TryAddFails, Goto, registry
<1>3. \A t \in Session : liveWorker[t] # held[c]
  BY DEF IInv, TypeOK, CallsOK, HeldOK, OwnLabels, liveWorker, TryAddFails
<1>4. liveWorker = [s \in Session |->
                      IF liveWorker[s] = held[c] THEN None ELSE liveWorker[s]]
  BY <1>3 DEF liveWorker
<1>5. CASE held[c] \in endedProcs
  BY <1>1, <1>2, <1>5 DEF abstract
<1>6. CASE held[c] \notin endedProcs
  BY <1>1, <1>2, <1>4, <1>6 DEF Registry!End
<1>. QED  BY <1>5, <1>6

LEMMA TryRemoveRefines ==
  ASSUME IInv, NEW c \in Call, TryRemove(c)
  PROVE  Registry!End(processes[target[c]]) \/ UNCHANGED abstract
<1>. DEFINE p == processes[target[c]]
<1>1. p \in Proc /\ life[p] \in {"running", "exited"}
      /\ (\A s \in Session : processes[s] = p => s = target[c])
  BY DEF IInv, TypeOK, CallsOK, RegisteredOK, OwnLabels, TryRemove
<1>2. endedProcs' = endedProcs \cup {p}
  BY <1>1 DEF IInv, TypeOK, CallsOK, OwnLabels, endedProcs, Holds, TryRemove, Goto
<1>3. liveWorker' = [s \in Session |->
                       IF liveWorker[s] = p THEN None ELSE liveWorker[s]]
  BY <1>1 DEF IInv, TypeOK, CallsOK, liveWorker, TryRemove
<1>4. CASE p \in endedProcs
  <2>1. life[p] = "exited"
    BY <1>1, <1>4 DEF IInv, TypeOK, CallsOK, HeldOK, OwnLabels, endedProcs,
       Holds, TryRemove
  <2>2. liveWorker' = liveWorker
    BY <1>1, <2>1 DEF IInv, TypeOK, CallsOK, liveWorker, TryRemove
  <2>. QED  BY <1>2, <1>4, <2>2 DEF abstract
<1>5. CASE p \notin endedProcs
  BY <1>2, <1>3, <1>5 DEF Registry!End
<1>. QED  BY <1>4, <1>5

LEMMA ProcessExitsRefines ==
  ASSUME IInv, NEW p \in Proc, ProcessExits(p)
  PROVE  Registry!End(p) \/ UNCHANGED abstract
<1>1. endedProcs' = endedProcs \cup {p}
  BY DEF IInv, TypeOK, endedProcs, Holds, ProcessExits, locals
<1>2. liveWorker' = [s \in Session |->
                       IF liveWorker[s] = p THEN None ELSE liveWorker[s]]
  BY DEF IInv, TypeOK, liveWorker, ProcessExits
<1>3. CASE p \in endedProcs
  <2>1. \A s \in Session : processes[s] # p
    BY <1>3 DEF IInv, HeldOK, OwnLabels, endedProcs, Holds, ProcessExits
  <2>2. liveWorker' = liveWorker
    BY <2>1 DEF IInv, TypeOK, liveWorker, ProcessExits
  <2>. QED  BY <1>1, <1>3, <2>2 DEF abstract
<1>4. CASE p \notin endedProcs
  BY <1>1, <1>2, <1>4 DEF Registry!End
<1>. QED  BY <1>3, <1>4

LEMMA StepRefines == IInv /\ [Next]_vars => [Registry!RegistryNext]_abstract
<1>. SUFFICES ASSUME IInv, [Next]_vars
              PROVE  Registry!RegistryNext \/ UNCHANGED abstract
  OBVIOUS
<1>1. ASSUME NEW c \in Call,
             \/ \E s \in Session : StartAsync(c, s) \/ SeekAsync(c, s) \/ StopAsync(c, s)
             \/ StartSkipped(c) \/ CallStep(c) \/ Dispose(c)
      PROVE  Registry!RegistryNext \/ UNCHANGED abstract
  <2>1. CASE TryAdd(c)
    BY <2>1, TryAddRefines DEF Registry!RegistryNext, IInv, CallsOK, TryAdd, OwnLabels
  <2>2. CASE TryAddFails(c)
    BY <2>2, TryAddFailsRefines DEF Registry!RegistryNext, IInv, CallsOK, TryAddFails, OwnLabels
  <2>3. CASE TryRemove(c)
    <3>1. processes[target[c]] \in Proc
      BY <2>3 DEF TryRemove, IInv, TypeOK, CallsOK
    <3>. QED  BY <2>3, <3>1, TryRemoveRefines DEF Registry!RegistryNext
  <2>. QED  BY <1>1, <2>1, <2>2, <2>3, SilentSteps DEF CallStep
<1>2. ASSUME NEW p \in Proc,
             DrainStep(p) \/ DrainFails(p) \/ ProcessExits(p) \/ KilledProcessExits(p)
      PROVE  Registry!RegistryNext \/ UNCHANGED abstract
  BY <1>2, SilentProcSteps, ProcessExitsRefines DEF Registry!RegistryNext
<1>3. CASE UNCHANGED vars
  BY <1>3 DEF vars, abstract, liveWorker, endedProcs, Holds
<1>. QED  BY <1>1, <1>2, <1>3 DEF Next

(* The worker with all its threads implements the abstract registry: at most
   one live process per session, and no process ever serves twice. *)
THEOREM WorkerImplementsRegistry == Spec => ImplementsRegistry
<1>1. Init => Registry!RegistryInit
  BY DEF Init, Registry!RegistryInit, liveWorker, endedProcs, Holds
<1>. QED
  BY <1>1, StepRefines, InvariantHolds, PTL
     DEF Spec, ImplementsRegistry, Registry!RegistrySpec, Registry!registryVars, abstract
=============================================================================
