---------------------------- MODULE SessionSlots ----------------------------
(***************************************************************************)
(* What CreateAsync promises about concurrent sessions.  Opening a session *)
(* ends some of the user's oldest, so that those left and the new one stay *)
(* within the policy's limit; sessions may end at any time.  Of creations  *)
(* that overlap none sees what the others open: each may leave one session *)
(* more, and one that is older than another it ends.                       *)
(***************************************************************************)
EXTENDS FiniteSets, Integers

CONSTANTS User,
          Limit,    \* MaxConcurrentSessions; 0 is no limit
          Overlap   \* how many creations may overlap, this one included

VARIABLES active,   \* active[u]: the active sessions of u
          older     \* older[s]: the sessions whose CreatedAt precedes that of s

vars == <<active, older>>

SlotsInit == \A u \in User : active[u] = {}

(* Sessions that go on keep their age. *)
AgesKept == \A u \in User : \A s \in active[u] : older'[s] = older[s]

(* s opens, and of the sessions of u only those in kept go on. *)
Open(u, s, kept) ==
  LET ended == active[u] \ kept
      spared == {w \in kept : \E v \in ended : v \notin older[w]}
  IN /\ \A v \in User : s \notin active[v]
     /\ Limit > 0 => Cardinality(kept) + 1 <= Limit + (Overlap - 1)
     /\ Cardinality(spared) <= Overlap - 1
     /\ Overlap = 1 => kept \subseteq older'[s]
     /\ active' = [active EXCEPT ![u] = kept \cup {s}]
     /\ AgesKept

EndSessions ==
  /\ \A u \in User : active'[u] \subseteq active[u]
  /\ AgesKept

SlotsNext ==
  \/ \E u \in User : \E s \in active'[u], kept \in SUBSET active[u] : Open(u, s, kept)
  \/ EndSessions

SlotsSpec == SlotsInit /\ [][SlotsNext]_vars
=============================================================================
