------------------------------ MODULE UploadPage ------------------------------
(***************************************************************************)
(* The upload form (admin-upload.js) in front of the catalogue.  A submit  *)
(* posts a protected file, or has a video created and then sends the file  *)
(* to Bunny in chunks.  The form does not disable its button, so several   *)
(* submissions may run.  A fetch that is rejected is caught by nobody: the *)
(* page then says nothing more.  The TUS client is external: it goes on    *)
(* where Bunny says it has got to, and starts counting its retries again   *)
(* after each chunk.                                                       *)
(* Here Bunny can finish a video only when it has all of it.               *)
(***************************************************************************)
EXTENDS VideoCatalog

CONSTANTS
  Submission,  \* submissions of the form
  Chunks,      \* chunks of a file
  Retries      \* entries of retryDelays

Finished == 4  \* Bunny's code

ASSUME UploadAssumption ==
  /\ Chunks \in Nat \ {0} /\ Retries \in Nat
  /\ Request # {}

VARIABLES
  stage,    \* stage[u]: what submission u awaits, or how its log ends
  call,     \* call[u]: the handler of its request
  target,   \* target[u]: its video
  tries,    \* tries[u]: retries since the last chunk that arrived
  received  \* received[v]: chunks of video v at Bunny

form == <<stage, call, target, tries, received>>
uploadVars == <<vars, stage, call, target, tries, received>>

UploadTypeOK ==
  /\ TypeOK
  /\ stage \in [Submission -> {"idle", "creating", "sending", "complete",
                               "failed", "silent"}]
  /\ call \in [Submission -> Request]
  /\ target \in [Submission -> Video]
  /\ tries \in [Submission -> 0..Retries]
  /\ received \in [Video -> 0..Chunks]

UploadInit ==
  /\ Init
  /\ stage = [u \in Submission |-> "idle"]
  /\ call = [u \in Submission |-> CHOOSE r \in Request : TRUE]
  /\ target = [u \in Submission |-> CHOOSE v \in Video : TRUE]
  /\ tries = [u \in Submission |-> 0]
  /\ received = [v \in Video |-> 0]

Whole(v) == received[v] = Chunks

Ends(u, message) ==
  /\ stage' = [stage EXCEPT ![u] = message]
  /\ call' = [call EXCEPT ![u] = CHOOSE r \in Request : TRUE]
  /\ tries' = [tries EXCEPT ![u] = 0]
  /\ UNCHANGED target
-----------------------------------------------------------------------------
(* The submit handler up to its fetch, in either mode. *)
Submit(u, v, r) ==
  /\ stage[u] = "idle"
  /\ stage' = [stage EXCEPT ![u] = "creating"]
  /\ call' = [call EXCEPT ![u] = r]
  /\ target' = [target EXCEPT ![u] = v]
  /\ Create(r, v) \/ CreateSecure(r, v)
  /\ UNCHANGED <<tries, received>>

(* The request is refused, or does not get there. *)
SubmitRefused(u) ==
  /\ stage[u] = "idle"
  /\ Ends(u, "failed") \/ Ends(u, "silent")
  /\ UNCHANGED <<received, vars>>

(* Mutant of AfterCreate: resp.ok is not looked at. *)
StatusIgnored(u, ok) ==
  Ends(u, IF target[u] \in Local THEN "complete" ELSE "sending")

AfterCreate(u, ok) ==
  Ends(u, IF ~ ok THEN "failed"
          ELSE IF target[u] \in Local THEN "complete" ELSE "sending")

(* The handler ends: its answer is a success, an error, or lost. *)
Answered(u) ==
  /\ stage[u] = "creating"
  /\ \/ /\ SaveProtectedSourceAsync(call[u])
        /\ AfterCreate(u, TRUE) \/ Ends(u, "silent")
     \/ /\ InsertRow(call[u])
        /\ AfterCreate(u, ~ HasRow(target[u])) \/ Ends(u, "silent")
     \/ /\ Abort(call[u])
        /\ AfterCreate(u, FALSE) \/ Ends(u, "silent")
  /\ UNCHANGED received

(* Mutant of Retry: the delays begin anew when they are used up. *)
RetryForEver(u) ==
  /\ tries' = [tries EXCEPT ![u] = IF @ = Retries THEN 0 ELSE @ + 1]
  /\ UNCHANGED <<stage, call, target>>

Retry(u) ==
  IF tries[u] = Retries
  THEN Ends(u, "failed")
  ELSE /\ tries' = [tries EXCEPT ![u] = @ + 1]
       /\ UNCHANGED <<stage, call, target>>

(* A chunk arrives, and the answer to it perhaps not. *)
SendChunk(u) ==
  /\ stage[u] = "sending"
  /\ bunny[target[u]] # Absent
  /\ ~ Whole(target[u])
  /\ received' = [received EXCEPT ![target[u]] = @ + 1]
  /\ \/ IF received[target[u]] + 1 = Chunks
        THEN Ends(u, "complete")
        ELSE tries' = [tries EXCEPT ![u] = 0] /\ UNCHANGED <<stage, call, target>>
     \/ Retry(u)
  /\ UNCHANGED vars

ChunkFails(u) ==
  /\ stage[u] = "sending"
  /\ Retry(u)
  /\ UNCHANGED <<received, vars>>

(* A retry asks Bunny for the offset, and there is nothing left to send. *)
ResumedAtEnd(u) ==
  /\ stage[u] = "sending"
  /\ bunny[target[u]] # Absent
  /\ Whole(target[u])
  /\ Ends(u, "complete")
  /\ UNCHANGED <<received, vars>>

(* The page is closed. *)
Leave(u) ==
  /\ stage[u] \in {"creating", "sending"}
  /\ Ends(u, "silent")
  /\ UNCHANGED <<received, vars>>

(* The rest of the catalogue goes on as it does without the page, except that
   Bunny finishes nothing that it has only in part. *)
Elsewhere ==
  /\ \/ \E r \in Request : Webhook(r) \/ Admin(r) \/ Abort(r)
     \/ \E v \in Video, code \in Codes :
          (code = Finished => Whole(v)) /\ Transcode(v, code)
     \/ PruneReceipts
  /\ \A u \in Submission : stage[u] = "creating" => pc'[call[u]] # "idle"
  /\ UNCHANGED form
-----------------------------------------------------------------------------
Sends(u) == SendChunk(u) \/ ChunkFails(u) \/ ResumedAtEnd(u)

UploadNext ==
  \/ \E u \in Submission :
       \/ \E v \in Video, r \in Request : Submit(u, v, r)
       \/ SubmitRefused(u) \/ Answered(u) \/ Sends(u) \/ Leave(u)
  \/ Elsewhere

(* The TUS client goes on while its page is open. *)
UploadSpec ==
  /\ UploadInit /\ [][UploadNext]_uploadVars
  /\ Fairness
  /\ \A u \in Submission : WF_uploadVars(Sends(u))
-----------------------------------------------------------------------------
(* When the page says that an upload is complete, or a protected source ready,
   it is: Bunny has every chunk and the catalogue a row for it, or the row
   names a whole file; whatever failed, was repeated or got lost before. *)
CompleteIsWhole ==
  \A u \in Submission : stage[u] = "complete" =>
    /\ HasRow(target[u])
    /\ IF target[u] \in Local
       THEN source[target[u]] # {} /\ source[target[u]] \subseteq complete
       ELSE Whole(target[u])

(* The catalogue calls a video at Bunny Ready only when all of it has been
   uploaded: neither a late or repeated webhook nor an upload that failed half
   way gets a video there. *)
ReadyIsWhole ==
  \A v \in Video : provider[v] = "BunnyStream" /\ status[v] = "Ready" => Whole(v)

(* A submission comes to an end: attempts that go on failing are given up. *)
SubmitSettles ==
  \A u \in Submission :
    stage[u] \in {"creating", "sending"} ~>
      stage[u] \in {"complete", "failed", "silent"}
=============================================================================
