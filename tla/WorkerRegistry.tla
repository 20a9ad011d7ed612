--------------------------- MODULE WorkerRegistry ---------------------------
(***************************************************************************)
(* What FfmpegSecureMediaWorker promises its callers, without threads: a   *)
(* session has at most one live media process, a process serves one        *)
(* session, and a process that ended is never launched again.              *)
(***************************************************************************)

CONSTANTS Session,  \* playback sessions
          Proc,     \* operating-system process instances
          None      \* no process, not in Proc

VARIABLES worker,   \* worker[s]: the live process that serves session s
          ended     \* processes that were stopped, discarded or exited

registryVars == <<worker, ended>>

RegistryTypeOK ==
  /\ worker \in [Session -> Proc \cup {None}]
  /\ ended \in SUBSET Proc

RegistryInit ==
  /\ worker = [s \in Session |-> None]
  /\ ended = {}

(* Session s, which has no live process, gets p, which never served anyone. *)
Launch(s, p) ==
  /\ worker[s] = None
  /\ p \notin ended
  /\ \A t \in Session : worker[t] # p
  /\ worker' = [worker EXCEPT ![s] = p]
  /\ UNCHANGED ended

(* p stops, is discarded or exits; whoever it served has no process now. *)
End(p) ==
  /\ p \notin ended
  /\ worker' = [s \in Session |-> IF worker[s] = p THEN None ELSE worker[s]]
  /\ ended' = ended \cup {p}

RegistryNext ==
  \E p \in Proc : End(p) \/ \E s \in Session : Launch(s, p)

RegistrySpec == RegistryInit /\ [][RegistryNext]_registryVars
=============================================================================
