-------------------------- MODULE MCAdministration --------------------------
(***************************************************************************)
(* Model checking of Administration: two administrators, one of whom signs *)
(* in twice.  Roles, keys, policies and sign-ins share no state except the *)
(* write lock, which only rotations hold: each behaviour checked is one of *)
(* a single part, with all requests at work in it.                         *)
(***************************************************************************)
EXTENDS Administration, TLC

CONSTANT u1

VARIABLE part

userOf == [t \in Ticket |-> u1]

Labels == [roles    |-> {"count", "remove", "add"},
           keys     |-> {"max", "commit"},
           policies |-> {"fill", "judge"},
           signIns  |-> {"mark", "write"}]

PartInit == Init /\ part \in DOMAIN Labels

PartNext ==
  /\ Next
  /\ \A r \in Request : pc'[r] \in Labels[part] \cup {"idle"}
  /\ part = "policies" \/ policy' = policy
  /\ part = "signIns" \/ fresh' = {}
  /\ UNCHANGED part

PartSpec == PartInit /\ [][PartNext]_<<vars, part>>

Symmetry == Permutations(Request) \cup Permutations(Ticket)
=============================================================================
