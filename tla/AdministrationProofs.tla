------------------------ MODULE AdministrationProofs ------------------------
(***************************************************************************)
(* Theorems about Administration for any accounts, roles, keys, videos,    *)
(* sign-ins and requests, with all of them at work at the same time.       *)
(***************************************************************************)
EXTENDS Administration, FiniteSetTheorems, TLAPS

AtSignIn(r) == pc[r] \in {"mark", "write"}

(* What a request is about. *)
ArgsOK ==
  \A r \in Request :
    /\ pc[r] \in {"count", "remove", "add"} => arg[r] \in User \X Role
    /\ pc[r] = "count" => arg[r][2] = AdminRole
    /\ pc[r] \in {"max", "commit"} => arg[r] \in Purpose
    /\ pc[r] \in {"fill", "judge"} => arg[r] \in Video
    /\ AtSignIn(r) => arg[r] \in Ticket

(* While no two revocations overlap, those that have counted are about one
   Admin, and as long as that user is as they have loaded it there is another
   one. *)
RevokesAdmin(r) == pc[r] = "remove" /\ arg[r][2] = AdminRole

OneRevoked ==
  /\ Admins # {}
  /\ \A r, q \in Request :
       RevokesAdmin(r) /\ RevokesAdmin(q) => arg[r][1] = arg[q][1]
  /\ \A r \in current : RevokesAdmin(r) => \E u \in Admins : u # arg[r][1]

RolesOK == overlap \/ OneRevoked

(* One rotation is under way at a time, and what it has read is still so. *)
KeysOK ==
  /\ OneActiveVersion
  /\ \A r \in Request :
       /\ pc[r] \in {"max", "commit"} =>
            lock = {r} /\ tracked[r] = active[arg[r]]
       /\ pc[r] = "commit" => top[r] = latest[arg[r]]

(* A policy that is read or cached was in force when its fill began. *)
PolicyOK ==
  /\ \A n \in policy..MaxEdits : replaced[n] = 0
  /\ \A r \in Request : pc[r] = "fill" => replaced[fetched[r]] <= took[r]
  /\ \A v \in Video : \A e \in cache[v] : replaced[e.policy] <= e.age + Slowest

(* Unless two looks have overlapped, a ticket has one request about it or one
   row, and cannot come again without its key. *)
SignInOK ==
  /\ marked \subseteq presented
  /\ \A r \in Request : AtSignIn(r) => arg[r] \in presented
  /\ \A t \in Ticket : written[t] > 0 => t \in presented
  /\ \A r \in Request : pc[r] = "write" => arg[r] \in marked \/ arg[r] \notin fresh
  /\ \A t \in Ticket : written[t] > 0 => t \in marked \/ t \notin fresh
  /\ \A t \in Ticket \ twice :
       /\ written[t] <= 1
       /\ \A r \in Request : AtSignIn(r) /\ arg[r] = t => written[t] = 0
       /\ \A r, q \in Request :
            AtSignIn(r) /\ AtSignIn(q) /\ arg[r] = t /\ arg[q] = t => r = q
  /\ SignInRecorded

RolesType ==
  /\ roles \in SUBSET (User \X Role) /\ current \in SUBSET Request
  /\ overlap \in BOOLEAN

KeysType ==
  /\ active \in [Purpose -> SUBSET (1..MaxVersion)]
  /\ latest \in [Purpose -> 0..MaxVersion]
  /\ lock \in SUBSET Request

PolicyType ==
  /\ policy \in 0..MaxEdits
  /\ replaced \in [0..MaxEdits -> 0..Horizon + 1]
  /\ cache \in [Video -> SUBSET Entry]

SignInType ==
  /\ fresh \in SUBSET Ticket /\ presented \in SUBSET Ticket
  /\ lost \in SUBSET Ticket /\ twice \in SUBSET Ticket
  /\ marked \in SUBSET (Ticket \cup User)
  /\ written \in [Ticket -> 0..2]

RolesPart == RolesType /\ RolesOK
KeysPart == KeysType /\ KeysOK
PolicyPart == PolicyType /\ PolicyOK
SignInPart == SignInType /\ SignInOK

IInv == RequestsOK /\ ArgsOK /\ RolesPart /\ KeysPart /\ PolicyPart /\ SignInPart
-----------------------------------------------------------------------------
USE AdministrationAssumption

LEMMA TypeOfParts ==
  IInv <=> TypeOK /\ ArgsOK /\ RolesOK /\ KeysOK /\ PolicyOK /\ SignInOK
BY DEF IInv, TypeOK, RolesPart, KeysPart, PolicyPart, SignInPart, RolesType, KeysType,
       PolicyType, SignInType

LEMMA InitIInv == Init => IInv
<1>. SUFFICES ASSUME Init  PROVE IInv
  OBVIOUS
<1>1. RequestsOK /\ ArgsOK
  BY DEF Init, RequestsOK, Label, Subject, ArgsOK, AtSignIn
<1>2. RolesPart
  <2>1. RolesType
    <3>. roles \in SUBSET (User \X Role)
      BY DEF Init
    <3>. QED  BY DEF Init, RolesType
  <2>2. RolesOK
    BY DEF Init, RolesOK, OneRevoked, Admins, RevokesAdmin
  <2>. QED  BY <2>1, <2>2 DEF RolesPart
<1>3. KeysPart
  BY DEF Init, KeysPart, KeysType, KeysOK, OneActiveVersion
<1>4. PolicyPart
  BY DEF Init, PolicyPart, PolicyType, PolicyOK, Horizon
<1>5. SignInPart
  BY DEF Init, SignInPart, SignInType, SignInOK, SignInRecorded, AtSignIn
<1>. QED  BY <1>1, <1>2, <1>3, <1>4, <1>5 DEF IInv

(* A user among more than one Admin, or among none of them, leaves one. *)
LEMMA AnotherAdmin ==
  ASSUME NEW u \in User, Admins # {}, ~(Cardinality(Admins) <= 1 /\ u \in Admins)
  PROVE  \E w \in Admins : w # u
<1>1. Cardinality({u}) = 1
  BY FS_Singleton
<1>. SUFFICES ASSUME Admins = {u}  PROVE FALSE
  OBVIOUS
<1>. QED  BY <1>1


(* Requests other than r are where they were. *)
Elsewhere(r) ==
  \A q \in Request \ {r} :
    /\ pc'[q] = pc[q] /\ arg'[q] = arg[q]
    /\ tracked'[q] = tracked[q] /\ top'[q] = top[q]
    /\ fetched'[q] = fetched[q] /\ took'[q] = took[q]

LEMMA RolesElsewhere ==
  ASSUME RolesPart, NEW r \in Request, Elsewhere(r), UNCHANGED <<roles, overlap>>,
         current' \in SUBSET Request, current' \ {r} \subseteq current,
         pc'[r] # "remove"
  PROVE  RolesPart'
<1>1. \A q \in Request : RevokesAdmin(q)' => RevokesAdmin(q) /\ q # r /\ arg'[q] = arg[q]
  BY DEF Elsewhere, RevokesAdmin
<1>2. Admins' = Admins
  BY DEF Admins
<1>3. RolesOK'
  <2>. CASE overlap
    BY DEF RolesOK, OneRevoked
  <2>. CASE ~overlap
    BY <1>1, <1>2 DEF RolesOK, OneRevoked, RolesPart, RolesType
  <2>. QED  OBVIOUS
<1>. QED  BY <1>3 DEF RolesPart, RolesType

LEMMA KeysElsewhere ==
  ASSUME KeysPart, NEW r \in Request, Elsewhere(r), UNCHANGED keyVars,
         pc'[r] \notin {"max", "commit"}
  PROVE  KeysPart'
<1>1. OneActiveVersion'
  BY DEF KeysPart, KeysOK, OneActiveVersion, keyVars
<1>2. KeysType'
  BY DEF KeysPart, KeysType, keyVars
<1>. SUFFICES ASSUME NEW q \in Request, pc'[q] \in {"max", "commit"}
              PROVE  /\ lock' = {q} /\ tracked'[q] = active'[arg'[q]]
                     /\ pc'[q] = "commit" => top'[q] = latest'[arg'[q]]
  BY <1>1, <1>2 DEF KeysPart, KeysOK
<1>3. q # r
  OBVIOUS
<1>. QED  BY <1>3 DEF KeysPart, KeysOK, Elsewhere, keyVars

LEMMA PolicyElsewhere ==
  ASSUME PolicyPart, NEW r \in Request, Elsewhere(r), UNCHANGED policyVars,
         pc'[r] # "fill"
  PROVE  PolicyPart'
BY DEF PolicyPart, PolicyType, PolicyOK, Elsewhere, policyVars

LEMMA SignInElsewhere ==
  ASSUME SignInPart, NEW r \in Request, Elsewhere(r), UNCHANGED signInVars,
         ~AtSignIn(r), pc'[r] \notin {"mark", "write"}
  PROVE  SignInPart'
<1>1. \A q \in Request : AtSignIn(q)' => AtSignIn(q) /\ q # r
  BY DEF Elsewhere, AtSignIn
<1>2. SignInRecorded'
  <2>. SUFFICES ASSUME NEW t \in presented \ lost, ~(written[t] > 0)
                PROVE  \E q \in Request : pc'[q] \in {"mark", "write"} /\ arg'[q] = t
    BY DEF SignInRecorded, signInVars
  <2>1. PICK q \in Request : pc[q] \in {"mark", "write"} /\ arg[q] = t
    BY DEF SignInPart, SignInOK, SignInRecorded
  <2>2. q # r
    BY <2>1 DEF AtSignIn
  <2>. QED  BY <2>1, <2>2 DEF Elsewhere
<1>. QED  BY <1>1, <1>2 DEF SignInPart, SignInType, SignInOK, Elsewhere, AtSignIn, signInVars

LEMMA ArgsElsewhere ==
  ASSUME ArgsOK, NEW r \in Request, Elsewhere(r),
         \/ pc'[r] = "idle"
         \/ pc'[r] \in {"count", "remove", "add"} /\ arg'[r] \in User \X Role
              /\ (pc'[r] = "count" => arg'[r][2] = AdminRole)
         \/ pc'[r] \in {"max", "commit"} /\ arg'[r] \in Purpose
         \/ pc'[r] \in {"fill", "judge"} /\ arg'[r] \in Video
         \/ pc'[r] \in {"mark", "write"} /\ arg'[r] \in Ticket
  PROVE  ArgsOK'
BY DEF ArgsOK, Elsewhere, AtSignIn

LEMMA BeginOK ==
  ASSUME RequestsOK, NEW r \in Request, NEW label \in Label, NEW subject \in Subject,
         Begin(r, label, subject), UNCHANGED reads
  PROVE  RequestsOK' /\ Elsewhere(r) /\ pc'[r] = label /\ arg'[r] = subject
BY DEF RequestsOK, Begin, Elsewhere, reads

LEMMA GotoOK ==
  ASSUME RequestsOK, NEW r \in Request, NEW label \in Label, Goto(r, label),
         UNCHANGED reads
  PROVE  RequestsOK' /\ Elsewhere(r) /\ pc'[r] = label /\ arg'[r] = arg[r]
BY DEF RequestsOK, Goto, Elsewhere, reads

LEMMA RespondOK ==
  ASSUME RequestsOK, NEW r \in Request, Respond(r)
  PROVE  RequestsOK' /\ Elsewhere(r) /\ pc'[r] = "idle"
<1>1. None \in Subject /\ "idle" \in Label
  BY DEF Subject, Label
<1>. QED  BY <1>1 DEF RequestsOK, Respond, Elsewhere

-----------------------------------------------------------------------------
(* Roles. *)
LEMMA GrantKeeps ==
  ASSUME IInv, NEW r \in Request, NEW u \in User, NEW role \in Role, Grant(r, u, role)
  PROVE  IInv'
<1>. DEFINE subject == <<u, role>>
<1>0. subject \in Subject /\ subject \in User \X Role /\ "add" \in Label
  BY DEF Subject, Label
<1>. HIDE DEF subject
<1>1. RequestsOK' /\ Elsewhere(r) /\ pc'[r] = "add" /\ arg'[r] = subject
  BY <1>0, BeginOK DEF Grant, IInv, subject
<1>2. ArgsOK'
  BY <1>0, <1>1, ArgsElsewhere DEF IInv
<1>3. RolesPart'
  <2>. current' \in SUBSET Request /\ current' \ {r} \subseteq current
    BY DEF Grant, IInv, RolesPart, RolesType
  <2>. QED  BY <1>1, RolesElsewhere DEF Grant, IInv
<1>4. KeysPart' /\ PolicyPart'
  BY <1>1, KeysElsewhere, PolicyElsewhere DEF Grant, IInv
<1>5. SignInPart'
  BY <1>1, SignInElsewhere DEF Grant, Begin, IInv, AtSignIn
<1>. QED  BY <1>1, <1>2, <1>3, <1>4, <1>5 DEF IInv

(* A revocation that need not count removes a role without a guard. *)
LEMMA RevokeKeeps ==
  ASSUME IInv, NEW r \in Request, NEW u \in User, NEW role \in Role, Revoke(r, u, role)
  PROVE  IInv'
<1>. DEFINE subject == <<u, role>>
            label == IF role = AdminRole THEN "count" ELSE "remove"
<1>0. /\ subject \in Subject /\ subject \in User \X Role /\ label \in Label
      /\ label \in {"count", "remove"}
      /\ subject[2] = role /\ (label = "count" <=> role = AdminRole)
  BY DEF Subject, Label
<1>. HIDE DEF subject, label
<1>1. RequestsOK' /\ Elsewhere(r) /\ pc'[r] = label /\ arg'[r] = subject
  BY <1>0, BeginOK DEF Revoke, IInv, subject, label
<1>2. ArgsOK'
  BY <1>0, <1>1, ArgsElsewhere DEF IInv
<1>3. RolesPart'
  <2>1. RolesType'
    BY DEF Revoke, IInv, RolesPart, RolesType
  <2>2. \A q \in Request :
          RevokesAdmin(q)' => RevokesAdmin(q) /\ q # r /\ arg'[q] = arg[q]
    BY <1>0, <1>1 DEF Elsewhere, RevokesAdmin
  <2>3. Admins' = Admins /\ overlap' = overlap /\ current' = current \cup {r}
    BY DEF Admins, Revoke
  <2>4. RolesOK'
    BY <2>2, <2>3 DEF RolesOK, OneRevoked, RolesPart, RolesType, IInv
  <2>. QED  BY <2>1, <2>4 DEF RolesPart
<1>4. KeysPart' /\ PolicyPart'
  BY <1>0, <1>1, KeysElsewhere, PolicyElsewhere DEF Revoke, IInv
<1>5. SignInPart'
  BY <1>0, <1>1, SignInElsewhere DEF Revoke, Begin, IInv, AtSignIn
<1>. QED  BY <1>1, <1>2, <1>3, <1>4, <1>5 DEF IInv

LEMMA CountAdminsKeeps ==
  ASSUME IInv, NEW r \in Request, CountAdmins(r)
  PROVE  IInv'
<1>. DEFINE refuses == Cardinality(Admins) <= 1 /\ arg[r][1] \in Admins
<1>0. /\ arg[r] \in User \X Role /\ arg[r][2] = AdminRole /\ pc[r] = "count"
      /\ "remove" \in Label
  BY DEF CountAdmins, IInv, ArgsOK, Label
<1>A. CASE refuses
  <2>. current' = current \ {r} /\ Respond(r) /\ UNCHANGED overlap
    BY <1>A DEF CountAdmins
  <2>1. RequestsOK' /\ Elsewhere(r) /\ pc'[r] = "idle"
    BY RespondOK DEF IInv
  <2>2. ArgsOK'
    BY <2>1, ArgsElsewhere DEF IInv
  <2>3. RolesPart'
    <3>. current' \in SUBSET Request
      BY DEF IInv, RolesPart, RolesType
    <3>. QED  BY <2>1, RolesElsewhere DEF CountAdmins, IInv
  <2>4. KeysPart' /\ PolicyPart'
    BY <2>1, KeysElsewhere, PolicyElsewhere DEF CountAdmins, IInv
  <2>5. SignInPart'
    BY <1>0, <2>1, SignInElsewhere DEF CountAdmins, IInv, AtSignIn
  <2>. QED  BY <2>1, <2>2, <2>3, <2>4, <2>5 DEF IInv
<1>B. CASE ~refuses
  <2>. DEFINE Other == \E q \in Request \ {r} :
                         /\ pc[q] = "remove" /\ arg[q][2] = AdminRole
                         /\ arg[q][1] # arg[r][1]
  <2>0. /\ Goto(r, "remove") /\ UNCHANGED <<current, reads, roles>>
        /\ overlap' = (overlap \/ Other)
    BY <1>B DEF CountAdmins
  <2>1. RequestsOK' /\ Elsewhere(r) /\ pc'[r] = "remove" /\ arg'[r] = arg[r]
    BY <1>0, <2>0, GotoOK DEF IInv
  <2>2. ArgsOK'
    BY <1>0, <2>1, ArgsElsewhere DEF IInv
  <2>3. RolesPart'
    <3>1. RolesType'
      BY <2>0 DEF IInv, RolesPart, RolesType
    <3>2. CASE overlap'
      BY <3>1, <3>2 DEF RolesOK, OneRevoked, RolesPart
    <3>3. CASE ~overlap'
      <4>1. ~overlap /\ ~Other
        BY <2>0, <3>3
      <4>2. Admins' = Admins /\ Admins # {}
        BY <2>0, <4>1 DEF Admins, RolesOK, OneRevoked, RolesPart, IInv
      <4>3. \E u \in Admins : u # arg[r][1]
        BY <1>0, <1>B, <4>2, AnotherAdmin
      <4>4. \A q \in Request : RevokesAdmin(q)' => arg'[q][1] = arg[r][1]
        BY <2>1, <4>1 DEF Elsewhere, RevokesAdmin
      <4>. QED  BY <3>1, <4>2, <4>3, <4>4 DEF RolesOK, OneRevoked, RolesPart, RolesType
    <3>. QED  BY <3>2, <3>3
  <2>4. KeysPart' /\ PolicyPart'
    BY <2>1, KeysElsewhere, PolicyElsewhere DEF CountAdmins, IInv
  <2>5. SignInPart'
    BY <1>0, <2>1, SignInElsewhere DEF CountAdmins, IInv, AtSignIn
  <2>. QED  BY <2>1, <2>2, <2>3, <2>4, <2>5 DEF IInv
<1>. QED  BY <1>A, <1>B

(* What AddToRoleAsync and RemoveFromRoleAsync have in common. *)
LEMMA SavedKeeps ==
  ASSUME IInv, NEW r \in Request, NEW new \in SUBSET (User \X Role), SavesUser(r, new),
         Respond(r), pc[r] \in {"add", "remove"}, RolesOK',
         UNCHANGED <<overlap, keyVars, policyVars, signInVars>>
  PROVE  IInv'
<1>1. RequestsOK' /\ Elsewhere(r) /\ pc'[r] = "idle"
  BY RespondOK DEF IInv
<1>2. ArgsOK'
  BY <1>1, ArgsElsewhere DEF IInv
<1>3. RolesPart'
  BY DEF SavesUser, IInv, RolesPart, RolesType
<1>4. KeysPart' /\ PolicyPart'
  BY <1>1, KeysElsewhere, PolicyElsewhere DEF IInv
<1>5. SignInPart'
  BY <1>1, SignInElsewhere DEF IInv, AtSignIn
<1>. QED  BY <1>1, <1>2, <1>3, <1>4, <1>5 DEF IInv

LEMMA AddToRoleAsyncKeeps ==
  ASSUME IInv, NEW r \in Request, AddToRoleAsync(r)
  PROVE  IInv'
<1>. DEFINE new == roles \cup {arg[r]}
<1>0. arg[r] \in User \X Role /\ new \in SUBSET (User \X Role)
  BY DEF AddToRoleAsync, IInv, ArgsOK, RolesPart, RolesType
<1>1. Elsewhere(r) /\ pc'[r] = "idle"
  BY RespondOK DEF AddToRoleAsync, IInv
<1>2. roles \subseteq roles' /\ current' \subseteq current /\ overlap' = overlap
  BY DEF AddToRoleAsync, SavesUser
<1>3. Admins \subseteq Admins'
  BY <1>2 DEF Admins
<1>4. \A q \in Request : RevokesAdmin(q)' => RevokesAdmin(q) /\ arg'[q] = arg[q]
  BY <1>1 DEF Elsewhere, RevokesAdmin
<1>5. RolesOK'
  BY <1>2, <1>3, <1>4 DEF RolesOK, OneRevoked, IInv, RolesPart, RolesType
<1>. QED  BY <1>0, <1>5, SavedKeeps DEF AddToRoleAsync

LEMMA RemoveFromRoleAsyncKeeps ==
  ASSUME IInv, NEW r \in Request, RemoveFromRoleAsync(r)
  PROVE  IInv'
<1>. DEFINE new == roles \ {arg[r]}
<1>0. /\ arg[r] \in User \X Role /\ new \in SUBSET (User \X Role)
      /\ pc[r] = "remove"
  BY DEF RemoveFromRoleAsync, IInv, ArgsOK, RolesPart, RolesType
<1>1. Elsewhere(r) /\ pc'[r] = "idle"
  BY RespondOK DEF RemoveFromRoleAsync, IInv
<1>2. current' \subseteq current /\ overlap' = overlap
  BY DEF RemoveFromRoleAsync, SavesUser
<1>3. \A q \in Request :
        RevokesAdmin(q)' => RevokesAdmin(q) /\ q # r /\ arg'[q] = arg[q]
  BY <1>1 DEF Elsewhere, RevokesAdmin
<1>. /\ RolesOK /\ current \in SUBSET Request /\ current' \in SUBSET Request
  BY <1>2 DEF IInv, RolesPart, RolesType
<1>4. RolesOK'
  <2>1. CASE overlap
    <3>. overlap'
      BY <1>2, <2>1
    <3>. QED  BY DEF RolesOK
  <2>2. CASE ~overlap /\ (roles' = roles \/ arg[r][2] # AdminRole)
    <3>1. Admins' = Admins
      BY <2>2 DEF Admins, RemoveFromRoleAsync, SavesUser
    <3>2. Admins' # {}
      BY <2>2, <3>1 DEF RolesOK, OneRevoked
    <3>3. \A p, q \in Request :
            RevokesAdmin(p)' /\ RevokesAdmin(q)' => arg'[p][1] = arg'[q][1]
      BY <1>3, <2>2 DEF RolesOK, OneRevoked
    <3>4. \A q \in current' : RevokesAdmin(q)' => \E u \in Admins' : u # arg'[q][1]
      BY <1>2, <1>3, <2>2, <3>1 DEF RolesOK, OneRevoked
    <3>5. OneRevoked'
      BY <3>2, <3>3, <3>4 DEF OneRevoked
    <3>. QED  BY <3>5 DEF RolesOK
  <2>3. CASE ~overlap /\ roles' # roles /\ arg[r][2] = AdminRole
    <3>1. /\ r \in current /\ roles' = roles \ {arg[r]}
          /\ current' = {q \in current : arg[q][1] # arg[r][1]}
      BY <2>3 DEF RemoveFromRoleAsync, SavesUser
    <3>2. RevokesAdmin(r)
      BY <1>0, <2>3 DEF RevokesAdmin
    <3>3. PICK u \in Admins : u # arg[r][1]
      BY <2>3, <3>1, <3>2 DEF RolesOK, OneRevoked
    <3>4. u \in Admins'
      BY <3>1, <3>3 DEF Admins
    <3>5. \A q \in Request : RevokesAdmin(q)' => arg'[q][1] = arg[r][1] /\ q \notin current'
      BY <1>3, <2>3, <3>1, <3>2 DEF RolesOK, OneRevoked
    <3>6. OneRevoked'
      BY <3>4, <3>5 DEF OneRevoked
    <3>. QED  BY <3>6 DEF RolesOK
  <2>. QED  BY <2>1, <2>2, <2>3
<1>. QED  BY <1>0, <1>4, SavedKeeps DEF RemoveFromRoleAsync


-----------------------------------------------------------------------------
(* Keys. *)
LEMMA RotateKeeps ==
  ASSUME IInv, NEW r \in Request, NEW p \in Purpose, Rotate(r, p)
  PROVE  IInv'
<1>1. /\ RequestsOK' /\ Elsewhere(r) /\ pc'[r] = "max" /\ arg'[r] = p
      /\ tracked'[r] = active[p]
  BY DEF Rotate, Begin, IInv, RequestsOK, Label, Subject, KeysPart, KeysType, Elsewhere
<1>2. ArgsOK'
  BY <1>1, ArgsElsewhere DEF IInv
<1>3. RolesPart'
  BY <1>1, RolesElsewhere DEF Rotate, IInv, RolesPart, RolesType, roleVars
<1>4. KeysPart'
  <2>1. KeysType' /\ OneActiveVersion'
    BY DEF Rotate, IInv, KeysPart, KeysType, KeysOK, OneActiveVersion
  <2>2. \A q \in Request \ {r} : pc'[q] \notin {"max", "commit"}
    BY <1>1 DEF Rotate, IInv, KeysPart, KeysOK, Elsewhere
  <2>. QED  BY <1>1, <2>1, <2>2 DEF Rotate, KeysPart, KeysOK
<1>5. PolicyPart'
  BY <1>1, PolicyElsewhere DEF Rotate, IInv
<1>6. SignInPart'
  BY <1>1, SignInElsewhere DEF Rotate, Begin, IInv, AtSignIn
<1>. QED  BY <1>1, <1>2, <1>3, <1>4, <1>5, <1>6 DEF IInv

LEMMA MaxAsyncKeeps ==
  ASSUME IInv, NEW r \in Request, MaxAsync(r)
  PROVE  IInv'
<1>0. pc[r] = "max" /\ arg[r] \in Purpose /\ latest[arg[r]] \in 0..MaxVersion
  BY DEF MaxAsync, IInv, ArgsOK, KeysPart, KeysType
<1>1. /\ RequestsOK' /\ Elsewhere(r) /\ pc'[r] = "commit" /\ arg'[r] = arg[r]
      /\ top'[r] = latest[arg[r]] /\ tracked'[r] = tracked[r]
  BY <1>0 DEF MaxAsync, Goto, IInv, RequestsOK, Label, Elsewhere
<1>2. ArgsOK'
  BY <1>0, <1>1, ArgsElsewhere DEF IInv
<1>3. RolesPart'
  BY <1>1, RolesElsewhere DEF MaxAsync, IInv, RolesPart, RolesType, roleVars
<1>4. KeysPart'
  <2>1. KeysType' /\ OneActiveVersion'
    BY DEF MaxAsync, IInv, KeysPart, KeysType, KeysOK, OneActiveVersion, keyVars
  <2>2. lock = {r} /\ tracked[r] = active[arg[r]]
    BY <1>0 DEF IInv, KeysPart, KeysOK
  <2>3. \A q \in Request \ {r} : pc'[q] \notin {"max", "commit"}
    BY <1>1, <2>2 DEF IInv, KeysPart, KeysOK, Elsewhere
  <2>. QED  BY <1>1, <2>1, <2>2, <2>3 DEF MaxAsync, keyVars, KeysPart, KeysOK
<1>5. PolicyPart'
  BY <1>1, PolicyElsewhere DEF MaxAsync, IInv
<1>6. SignInPart'
  BY <1>0, <1>1, SignInElsewhere DEF MaxAsync, IInv, AtSignIn
<1>. QED  BY <1>1, <1>2, <1>3, <1>4, <1>5, <1>6 DEF IInv

LEMMA CommitAsyncKeeps ==
  ASSUME IInv, NEW r \in Request, CommitAsync(r)
  PROVE  IInv'
<1>. DEFINE p == arg[r]
<1>0. /\ pc[r] = "commit" /\ p \in Purpose /\ lock = {r}
      /\ tracked[r] = active[p] /\ top[r] = latest[p] /\ latest[p] \in 0..MaxVersion
  BY DEF CommitAsync, IInv, ArgsOK, KeysPart, KeysOK, KeysType
<1>1. RequestsOK' /\ Elsewhere(r) /\ pc'[r] = "idle"
  BY RespondOK DEF CommitAsync, IInv
<1>2. ArgsOK'
  BY <1>1, ArgsElsewhere DEF IInv
<1>3. RolesPart'
  BY <1>1, RolesElsewhere DEF CommitAsync, IInv, RolesPart, RolesType, roleVars
<1>4. KeysPart'
  <2>1. \A q \in Request : pc'[q] \notin {"max", "commit"}
    BY <1>0, <1>1 DEF IInv, KeysPart, KeysOK, Elsewhere
  <2>2. KeysType' /\ OneActiveVersion'
    <3>1. CASE latest[p] < MaxVersion
      <4>1. /\ latest' = [latest EXCEPT ![p] = latest[p] + 1]
            /\ active' = [active EXCEPT ![p] = {latest[p] + 1}]
        BY <1>0, <3>1 DEF CommitAsync, IInv, KeysPart, KeysType
      <4>2. latest[p] + 1 \in 1..MaxVersion /\ lock' \in SUBSET Request
        BY <1>0, <3>1 DEF CommitAsync
      <4>3. KeysType'
        <5>. KeysType /\ latest[p] + 1 \in 0..MaxVersion
          BY <1>0, <3>1 DEF IInv, KeysPart
        <5>. QED  BY <1>0, <4>1, <4>2 DEF KeysType
      <4>4. OneActiveVersion'
        <5>. KeysType /\ OneActiveVersion /\ latest[p] + 1 # 0
          BY <1>0 DEF IInv, KeysPart, KeysOK
        <5>. SUFFICES ASSUME NEW q \in Purpose
                      PROVE  active'[q] = IF latest'[q] = 0 THEN {} ELSE {latest'[q]}
          BY DEF OneActiveVersion
        <5>1. CASE q = p
          BY <4>1, <5>1 DEF KeysType
        <5>2. CASE q # p
          BY <4>1, <5>2 DEF KeysType, OneActiveVersion
        <5>. QED  BY <5>1, <5>2
      <4>. QED  BY <4>3, <4>4
    <3>2. CASE ~(latest[p] < MaxVersion)
      <4>1. UNCHANGED <<latest, active>> /\ lock' \in SUBSET Request
        BY <1>0, <3>2 DEF CommitAsync
      <4>. QED  BY <4>1 DEF IInv, KeysPart, KeysType, KeysOK, OneActiveVersion
    <3>. QED  BY <3>1, <3>2
  <2>. QED  BY <2>1, <2>2 DEF KeysPart, KeysOK
<1>5. PolicyPart'
  BY <1>1, PolicyElsewhere DEF CommitAsync, IInv
<1>6. SignInPart'
  BY <1>0, <1>1, SignInElsewhere DEF CommitAsync, IInv, AtSignIn
<1>. QED  BY <1>1, <1>2, <1>3, <1>4, <1>5, <1>6 DEF IInv

-----------------------------------------------------------------------------
(* The policy. *)
LEMMA EditPolicyKeeps ==
  ASSUME IInv, EditPolicy
  PROVE  IInv'
<1>1. RequestsOK' /\ ArgsOK'
  BY DEF EditPolicy, IInv, RequestsOK, ArgsOK, AtSignIn, reads
<1>2. RolesPart'
  BY DEF EditPolicy, IInv, RolesPart, RolesType, RolesOK, OneRevoked, RevokesAdmin, Admins, roleVars
<1>3. KeysPart'
  BY DEF EditPolicy, IInv, KeysPart, KeysType, KeysOK, OneActiveVersion, keyVars, reads
<1>4. PolicyPart'
  <2>. PolicyType /\ PolicyOK
    BY DEF IInv, PolicyPart
  <2>1. PolicyType'
    BY DEF EditPolicy, PolicyType
  <2>2. \A n \in policy'..MaxEdits : replaced'[n] = 0
    BY DEF EditPolicy, PolicyType, PolicyOK
  <2>3. \A r \in Request : pc'[r] = "fill" => replaced'[fetched'[r]] <= took'[r]
    BY DEF EditPolicy, PolicyOK, reads
  <2>4. \A v \in Video : \A e \in cache'[v] : replaced'[e.policy] <= e.age + Slowest
    BY DEF EditPolicy, PolicyOK
  <2>. QED  BY <2>1, <2>2, <2>3, <2>4 DEF PolicyPart, PolicyOK
<1>5. SignInPart'
  BY DEF EditPolicy, IInv, SignInPart, SignInType, SignInOK, SignInRecorded, AtSignIn,
         signInVars
<1>. QED  BY <1>1, <1>2, <1>3, <1>4, <1>5 DEF IInv

(* What is read was in force, or was replaced while its entry was cached. *)
LEMMA GetForVideoAsyncKeeps ==
  ASSUME IInv, NEW r \in Request, NEW v \in Video, GetForVideoAsync(r, v)
  PROVE  /\ IInv'
         /\ pc'[r] = "judge" => replaced[fetched'[r]] <= Horizon
<1>0. /\ Begin(r, "fill", v) \/ Begin(r, "judge", v)
      /\ pc[r] = "idle" /\ pc'[r] \in {"fill", "judge"} /\ arg'[r] = v
      /\ \E n \in 0..MaxEdits : fetched' = [fetched EXCEPT ![r] = n]
  <2>1. /\ Begin(r, "fill", v) \/ Begin(r, "judge", v)
        /\ fetched' = [fetched EXCEPT ![r] = policy]
           \/ \E e \in cache[v] : fetched' = [fetched EXCEPT ![r] = e.policy]
    BY DEF GetForVideoAsync
  <2>2. policy \in 0..MaxEdits /\ \A e \in cache[v] : e.policy \in 0..MaxEdits
    BY DEF IInv, PolicyPart, PolicyType, Entry
  <2>3. pc[r] = "idle" /\ pc'[r] \in {"fill", "judge"} /\ arg'[r] = v
    BY <2>1 DEF Begin, IInv, RequestsOK
  <2>. QED  BY <2>1, <2>2, <2>3
<1>1. RequestsOK' /\ Elsewhere(r)
  <2>1. pc' \in [Request -> Label] /\ arg' \in [Request -> Subject]
    BY <1>0 DEF Begin, IInv, RequestsOK, Label, Subject
  <2>2. tracked' = tracked /\ top' = top /\ took' = took
    BY DEF GetForVideoAsync
  <2>. QED  BY <1>0, <2>1, <2>2 DEF Begin, IInv, RequestsOK, Elsewhere
<1>2. ArgsOK'
  BY <1>0, <1>1, ArgsElsewhere DEF IInv
<1>3. RolesPart'
  BY <1>0, <1>1, RolesElsewhere DEF GetForVideoAsync, IInv, RolesPart, RolesType, roleVars
<1>4. KeysPart'
  BY <1>0, <1>1, KeysElsewhere DEF GetForVideoAsync, IInv
<1>5. PolicyPart' /\ (pc'[r] = "judge" => replaced[fetched'[r]] <= Horizon)
  <2>1. CASE cache[v] = {} /\ Begin(r, "fill", v) /\ fetched' = [fetched EXCEPT ![r] = policy]
    <3>1. pc'[r] = "fill" /\ fetched'[r] = policy /\ took'[r] = took[r]
      BY <2>1 DEF GetForVideoAsync, Begin, IInv, RequestsOK
    <3>2. replaced'[fetched'[r]] <= took'[r]
      BY <3>1 DEF GetForVideoAsync, policyVars, IInv, PolicyPart, PolicyType, PolicyOK,
                  RequestsOK
    <3>3. \A q \in Request : pc'[q] = "fill" => replaced'[fetched'[q]] <= took'[q]
      BY <1>1, <3>2 DEF GetForVideoAsync, policyVars, IInv, PolicyPart, PolicyOK, Elsewhere
    <3>. QED  BY <3>1, <3>3 DEF GetForVideoAsync, policyVars, IInv, PolicyPart, PolicyType,
                                PolicyOK
  <2>2. ASSUME NEW e \in cache[v], Begin(r, "judge", v),
               fetched' = [fetched EXCEPT ![r] = e.policy]
        PROVE  PolicyPart' /\ replaced[fetched'[r]] <= Horizon
    <3>1. pc'[r] = "judge" /\ fetched'[r] = e.policy
      BY <2>2 DEF Begin, IInv, RequestsOK
    <3>2. PolicyPart'
      BY <1>1, <3>1, PolicyElsewhere DEF GetForVideoAsync, IInv
    <3>3. e.age \in 0..PolicyTtl - 1 /\ e.policy \in 0..MaxEdits
      BY DEF IInv, PolicyPart, PolicyType, Entry
    <3>4. replaced[e.policy] <= e.age + Slowest /\ replaced[e.policy] \in 0..Horizon + 1
      BY <3>3 DEF IInv, PolicyPart, PolicyType, PolicyOK
    <3>5. replaced[e.policy] <= Horizon
      BY <3>3, <3>4 DEF Horizon
    <3>. QED  BY <3>1, <3>2, <3>5
  <2>. QED  BY <2>1, <2>2 DEF GetForVideoAsync
<1>6. SignInPart'
  BY <1>0, <1>1, SignInElsewhere DEF GetForVideoAsync, IInv, AtSignIn
<1>. QED  BY <1>1, <1>2, <1>3, <1>4, <1>5, <1>6 DEF IInv

LEMMA CacheSetKeeps ==
  ASSUME IInv, NEW r \in Request, CacheSet(r)
  PROVE  /\ IInv'
         /\ pc'[r] = "judge" => replaced[fetched'[r]] <= Horizon
<1>0. pc[r] = "fill" /\ arg[r] \in Video /\ "judge" \in Label /\ UNCHANGED reads
  BY DEF CacheSet, IInv, ArgsOK, Label
<1>1. RequestsOK' /\ Elsewhere(r) /\ pc'[r] = "judge" /\ arg'[r] = arg[r]
  BY <1>0, GotoOK DEF CacheSet, IInv
<1>2. ArgsOK'
  BY <1>0, <1>1, ArgsElsewhere DEF IInv
<1>3. RolesPart'
  BY <1>1, RolesElsewhere DEF CacheSet, IInv, RolesPart, RolesType, roleVars
<1>4. KeysPart'
  BY <1>1, KeysElsewhere DEF CacheSet, IInv
<1>5. PolicyPart' /\ replaced[fetched'[r]] <= Horizon
  <2>. DEFINE new == [policy |-> fetched[r], age |-> 0]
  <2>1. /\ fetched[r] \in 0..MaxEdits /\ took[r] \in 0..Slowest
        /\ replaced[fetched[r]] <= took[r] /\ replaced[fetched[r]] \in 0..Horizon + 1
    BY <1>0 DEF IInv, RequestsOK, PolicyPart, PolicyOK, PolicyType
  <2>2. new \in Entry
    BY <2>1 DEF Entry
  <2>3. cache' = [cache EXCEPT ![arg[r]] = {new}]
    BY DEF CacheSet
  <2>4. PolicyType'
    BY <1>0, <2>2, <2>3 DEF CacheSet, IInv, PolicyPart, PolicyType
  <2>5. \A w \in Video : \A e \in cache'[w] : replaced'[e.policy] <= e.age + Slowest
    <3>. SUFFICES ASSUME NEW w \in Video, NEW e \in cache'[w]
                  PROVE  replaced[e.policy] <= e.age + Slowest
      BY DEF CacheSet
    <3>1. CASE w = arg[r]
      <4>1. e = new
        BY <1>0, <2>3, <3>1 DEF IInv, PolicyPart, PolicyType
      <4>. QED  BY <2>1, <4>1
    <3>2. CASE w # arg[r]
      <4>1. e \in cache[w]
        BY <1>0, <2>3, <3>2 DEF IInv, PolicyPart, PolicyType
      <4>. QED  BY <4>1 DEF IInv, PolicyPart, PolicyOK
    <3>. QED  BY <3>1, <3>2
  <2>6. \A q \in Request : pc'[q] = "fill" => replaced'[fetched'[q]] <= took'[q]
    BY <1>1 DEF CacheSet, IInv, PolicyPart, PolicyOK, Elsewhere
  <2>7. replaced[fetched'[r]] <= Horizon
    BY <1>0, <2>1 DEF Horizon, reads
  <2>. QED  BY <2>4, <2>5, <2>6, <2>7 DEF CacheSet, IInv, PolicyPart, PolicyOK
<1>6. SignInPart'
  BY <1>0, <1>1, SignInElsewhere DEF CacheSet, IInv, AtSignIn
<1>. QED  BY <1>1, <1>2, <1>3, <1>4, <1>5, <1>6 DEF IInv

LEMMA JudgedKeeps ==
  ASSUME IInv, NEW r \in Request, Judged(r)
  PROVE  IInv'
<1>1. RequestsOK' /\ Elsewhere(r) /\ pc'[r] = "idle" /\ pc[r] = "judge"
  BY RespondOK DEF Judged, IInv
<1>2. ArgsOK'
  BY <1>1, ArgsElsewhere DEF IInv
<1>3. RolesPart'
  BY <1>1, RolesElsewhere DEF Judged, IInv, RolesPart, RolesType, roleVars
<1>4. KeysPart' /\ PolicyPart'
  BY <1>1, KeysElsewhere, PolicyElsewhere DEF Judged, IInv
<1>5. SignInPart'
  BY <1>1, SignInElsewhere DEF Judged, IInv, AtSignIn
<1>. QED  BY <1>1, <1>2, <1>3, <1>4, <1>5 DEF IInv

LEMMA TickKeeps ==
  ASSUME IInv, Tick
  PROVE  IInv'
<1>1. RequestsOK'
  BY DEF Tick, IInv, RequestsOK
<1>2. ArgsOK'
  BY DEF Tick, IInv, ArgsOK, AtSignIn
<1>3. RolesPart'
  BY DEF Tick, IInv, RolesPart, RolesType, RolesOK, OneRevoked, RevokesAdmin, Admins, roleVars
<1>4. KeysPart'
  BY DEF Tick, IInv, KeysPart, KeysType, KeysOK, OneActiveVersion, keyVars
<1>5. PolicyPart'
  <2>. PolicyPart /\ RequestsOK
    BY DEF IInv
  <2>1. \A n \in 0..MaxEdits : replaced[n] \in 0..Horizon + 1 /\ Horizon \in Nat
    BY DEF PolicyPart, PolicyType, Horizon
  <2>2. /\ \A n \in 0..MaxEdits : /\ replaced'[n] <= replaced[n] + 1
                                  /\ replaced'[n] \in 0..Horizon + 1
                                  /\ n >= policy => replaced'[n] = replaced[n]
        /\ replaced' \in [0..MaxEdits -> 0..Horizon + 1]
    <3>1. replaced' = [n \in 0..MaxEdits |->
                         IF n < policy /\ replaced[n] <= Horizon THEN replaced[n] + 1
                                                                 ELSE replaced[n]]
      BY DEF Tick
    <3>2. ASSUME NEW n \in 0..MaxEdits
          PROVE  /\ replaced'[n] <= replaced[n] + 1
                 /\ replaced'[n] \in 0..Horizon + 1
                 /\ n >= policy => replaced'[n] = replaced[n]
      <4>1. replaced'[n] = IF n < policy /\ replaced[n] <= Horizon THEN replaced[n] + 1
                                                                   ELSE replaced[n]
        BY <3>1
      <4>2. n \in Int /\ policy \in Int
        BY DEF PolicyPart, PolicyType
      <4>. HIDE DEF Horizon
      <4>. QED  BY <2>1, <4>1, <4>2
    <3>. QED  BY <3>1, <3>2
  <2>3. \A v \in Video : \A f \in cache'[v] :
          \E e \in cache[v] : e \in Entry /\ f = [e EXCEPT !.age = e.age + 1]
                             /\ e.age + 1 < PolicyTtl
    BY DEF Tick, PolicyPart, PolicyType
  <2>4. \A v \in Video : \A f \in cache'[v] :
          f \in Entry /\ replaced'[f.policy] <= f.age + Slowest
    <3>. SUFFICES ASSUME NEW v \in Video, NEW f \in cache'[v]
                  PROVE  f \in Entry /\ replaced'[f.policy] <= f.age + Slowest
      OBVIOUS
    <3>1. PICK e \in cache[v] : e \in Entry /\ f = [e EXCEPT !.age = e.age + 1]
                             /\ e.age + 1 < PolicyTtl
      BY <2>3
    <3>2. /\ e.policy \in 0..MaxEdits /\ e.age \in 0..PolicyTtl - 1
          /\ f.policy = e.policy /\ f.age = e.age + 1 /\ f \in Entry
      BY <3>1 DEF Entry
    <3>3. replaced[e.policy] <= e.age + Slowest
      BY DEF PolicyPart, PolicyOK
    <3>4. /\ replaced'[e.policy] <= replaced[e.policy] + 1
          /\ replaced[e.policy] \in Nat /\ replaced'[e.policy] \in Nat
      BY <2>1, <2>2, <3>2
    <3>. QED  BY <3>2, <3>3, <3>4
  <2>5. cache' \in [Video -> SUBSET Entry]
    BY <2>4 DEF Tick
  <2>6. \A r \in Request : pc'[r] = "fill" => replaced'[fetched'[r]] <= took'[r]
    BY <2>1, <2>2 DEF Tick, PolicyPart, PolicyOK, RequestsOK
  <2>7. \A n \in policy'..MaxEdits : replaced'[n] = 0
    BY <2>2 DEF Tick, PolicyPart, PolicyOK, PolicyType
  <2>. QED  BY <2>2, <2>4, <2>5, <2>6, <2>7 DEF Tick, PolicyPart, PolicyType, PolicyOK
<1>6. SignInPart'
  BY DEF Tick, IInv, SignInPart, SignInType, SignInOK, SignInRecorded, AtSignIn, signInVars
<1>. QED  BY <1>1, <1>2, <1>3, <1>4, <1>5, <1>6 DEF IInv


-----------------------------------------------------------------------------
(* Sign-ins. *)
LEMMA LookKeeps ==
  ASSUME IInv, NEW r \in Request, NEW t \in Ticket, Look(r, t)
  PROVE  IInv'
<1>. t \in fresh /\ Key(t) = t
  BY DEF Look, Key
<1>A. CASE t \in marked
  <2>. /\ presented' = presented \cup {t}
       /\ UNCHANGED <<pc, arg, twice, roleVars, keyVars, policyVars, fresh, marked,
                      written, lost, reads>>
    BY <1>A DEF Look
  <2>. t \in presented
    BY <1>A DEF IInv, SignInPart, SignInOK
  <2>. presented' = presented
    OBVIOUS
  <2>1. RequestsOK' /\ ArgsOK'
    BY DEF IInv, RequestsOK, ArgsOK, AtSignIn, reads
  <2>2. RolesPart'
    BY DEF IInv, RolesPart, RolesType, RolesOK, OneRevoked, RevokesAdmin, Admins, roleVars
  <2>3. KeysPart'
    BY DEF IInv, KeysPart, KeysType, KeysOK, OneActiveVersion, keyVars, reads
  <2>4. PolicyPart'
    BY DEF IInv, PolicyPart, PolicyType, PolicyOK, policyVars, reads
  <2>5. SignInPart'
    BY DEF IInv, SignInPart, SignInType, SignInOK, SignInRecorded, AtSignIn
  <2>. QED  BY <2>1, <2>2, <2>3, <2>4, <2>5 DEF IInv
<1>B. CASE t \notin marked
  <2>. DEFINE Overlaps == \E q \in Request : pc[q] = "mark" /\ arg[q] = t
  <2>0. /\ presented' = presented \cup {t} /\ Begin(r, "mark", t)
        /\ twice' = IF Overlaps THEN twice \cup {t} ELSE twice
        /\ UNCHANGED <<roleVars, keyVars, policyVars, fresh, marked, written, lost, reads>>
    BY <1>B DEF Look
  <2>1. RequestsOK' /\ Elsewhere(r) /\ pc'[r] = "mark" /\ arg'[r] = t /\ pc[r] = "idle"
    <3>. "mark" \in Label /\ t \in Subject
      BY DEF Label, Subject
    <3>. QED  BY <2>0, BeginOK DEF IInv, Begin
  <2>2. ArgsOK'
    BY <2>1, ArgsElsewhere DEF IInv
  <2>3. RolesPart'
    BY <2>0, <2>1, RolesElsewhere DEF IInv, RolesPart, RolesType, roleVars
  <2>4. KeysPart' /\ PolicyPart'
    BY <2>0, <2>1, KeysElsewhere, PolicyElsewhere DEF IInv
  <2>5. SignInPart'
    <3>. SignInType /\ SignInOK
      BY DEF IInv, SignInPart
    <3>1. SignInType'
      BY <2>0 DEF SignInType
    <3>2. /\ marked' \subseteq presented'
          /\ \A q \in Request : AtSignIn(q)' => arg'[q] \in presented'
          /\ \A u \in Ticket : written'[u] > 0 => u \in presented'
          /\ \A u \in Ticket : written'[u] > 0 => u \in marked' \/ u \notin fresh'
      BY <2>0, <2>1 DEF SignInOK, AtSignIn, Elsewhere
    <3>3. \A q \in Request : pc'[q] = "write" => arg'[q] \in marked' \/ arg'[q] \notin fresh'
      BY <2>0, <2>1 DEF SignInOK, Elsewhere
    <3>4. \A q \in Request \ {r} : AtSignIn(q)' => AtSignIn(q) /\ arg'[q] = arg[q]
      BY <2>1 DEF AtSignIn, Elsewhere
    <3>5. written[t] = 0
      BY <1>B DEF SignInOK, SignInType
    <3>6. t \notin twice' => \A q \in Request : AtSignIn(q) => arg[q] # t
      BY <1>B, <2>0 DEF SignInOK, AtSignIn
    <3>7. twice \subseteq twice'
      BY <2>0
    <3>8. \A u \in Ticket \ twice' :
            /\ written'[u] <= 1
            /\ \A q \in Request : AtSignIn(q)' /\ arg'[q] = u => written'[u] = 0
            /\ \A q, p \in Request :
                 AtSignIn(q)' /\ AtSignIn(p)' /\ arg'[q] = u /\ arg'[p] = u => q = p
      <4>. SUFFICES ASSUME NEW u \in Ticket \ twice'
             PROVE  /\ written[u] <= 1
                    /\ \A q \in Request : AtSignIn(q)' /\ arg'[q] = u => written[u] = 0
                    /\ \A q, p \in Request :
                         AtSignIn(q)' /\ AtSignIn(p)' /\ arg'[q] = u /\ arg'[p] = u => q = p
        BY <2>0
      <4>1. CASE u = t
        BY <2>1, <3>4, <3>5, <3>6, <4>1
      <4>2. CASE u # t
        BY <2>1, <3>4, <3>7, <4>2 DEF SignInOK
      <4>. QED  BY <4>1, <4>2
    <3>9. SignInRecorded'
      <4>. SUFFICES ASSUME NEW u \in presented' \ lost', ~(written'[u] > 0)
                    PROVE  \E q \in Request : pc'[q] \in {"mark", "write"} /\ arg'[q] = u
        BY DEF SignInRecorded
      <4>1. CASE u = t
        BY <2>1, <4>1
      <4>2. CASE u # t
        <5>1. PICK q \in Request : pc[q] \in {"mark", "write"} /\ arg[q] = u
          BY <2>0, <4>2 DEF SignInOK, SignInRecorded
        <5>. QED  BY <2>1, <5>1 DEF Elsewhere
      <4>. QED  BY <4>1, <4>2
    <3>. QED  BY <3>1, <3>2, <3>3, <3>8, <3>9 DEF SignInPart, SignInOK
  <2>. QED  BY <2>1, <2>2, <2>3, <2>4, <2>5 DEF IInv
<1>. QED  BY <1>A, <1>B

LEMMA MarkKeeps ==
  ASSUME IInv, NEW r \in Request, Mark(r)
  PROVE  IInv'
<1>0. /\ pc[r] = "mark" /\ arg[r] \in Ticket /\ arg[r] \in presented
      /\ marked' = marked \cup {arg[r]} /\ "write" \in Label
  BY DEF Mark, Key, IInv, ArgsOK, AtSignIn, SignInPart, SignInOK, Label
<1>1. RequestsOK' /\ Elsewhere(r) /\ pc'[r] = "write" /\ arg'[r] = arg[r]
  BY <1>0, GotoOK DEF Mark, IInv
<1>2. ArgsOK'
  BY <1>0, <1>1, ArgsElsewhere DEF IInv
<1>3. RolesPart'
  BY <1>1, RolesElsewhere DEF Mark, IInv, RolesPart, RolesType, roleVars
<1>4. KeysPart' /\ PolicyPart'
  BY <1>1, KeysElsewhere, PolicyElsewhere DEF Mark, IInv
<1>5. SignInPart'
  <2>. SignInType /\ SignInOK
    BY DEF IInv, SignInPart
  <2>0. UNCHANGED <<fresh, written, presented, lost, twice>>
    BY DEF Mark
  <2>1. SignInType'
    BY <1>0, <2>0 DEF SignInType
  <2>2. \A q \in Request : (AtSignIn(q)' <=> AtSignIn(q)) /\ arg'[q] = arg[q]
    BY <1>0, <1>1 DEF AtSignIn, Elsewhere
  <2>3. \A q \in Request : pc'[q] = "write" => arg'[q] \in marked' \/ arg'[q] \notin fresh'
    BY <1>0, <1>1, <2>0 DEF SignInOK, Elsewhere
  <2>4. SignInRecorded'
    <3>. SUFFICES ASSUME NEW t \in presented \ lost, ~(written[t] > 0)
                  PROVE  \E q \in Request : pc'[q] \in {"mark", "write"} /\ arg'[q] = t
      BY <2>0 DEF SignInRecorded
    <3>1. PICK q \in Request : pc[q] \in {"mark", "write"} /\ arg[q] = t
      BY DEF SignInOK, SignInRecorded
    <3>. QED  BY <2>2, <3>1 DEF AtSignIn
  <2>. QED  BY <1>0, <2>0, <2>1, <2>2, <2>3, <2>4 DEF SignInPart, SignInOK
<1>. QED  BY <1>1, <1>2, <1>3, <1>4, <1>5 DEF IInv

LEMMA WriteAsyncKeeps ==
  ASSUME IInv, NEW r \in Request, WriteAsync(r)
  PROVE  IInv'
<1>. DEFINE t == arg[r]
<1>0. /\ pc[r] = "write" /\ t \in Ticket /\ t \in presented
      /\ t \in marked \/ t \notin fresh
  BY DEF WriteAsync, IInv, ArgsOK, AtSignIn, SignInPart, SignInOK
<1>1. RequestsOK' /\ Elsewhere(r) /\ pc'[r] = "idle"
  BY RespondOK DEF WriteAsync, IInv
<1>2. ArgsOK'
  BY <1>1, ArgsElsewhere DEF IInv
<1>3. RolesPart'
  BY <1>1, RolesElsewhere DEF WriteAsync, IInv, RolesPart, RolesType, roleVars
<1>4. KeysPart' /\ PolicyPart'
  BY <1>1, KeysElsewhere, PolicyElsewhere DEF WriteAsync, IInv
<1>5. SignInPart'
  <2>. SignInType /\ SignInOK
    BY DEF IInv, SignInPart
  <2>0. UNCHANGED <<fresh, marked, presented, twice>>
    BY DEF WriteAsync
  <2>1. /\ written' \in [Ticket -> 0..2] /\ lost \subseteq lost' /\ lost' \in SUBSET Ticket
        /\ \A u \in Ticket : u # t => written'[u] = written[u] /\ (u \in lost' <=> u \in lost)
        /\ written[t] = 0 => written'[t] <= 1
        /\ t \in lost' \/ written'[t] > 0
    BY <1>0 DEF WriteAsync, SignInType
  <2>2. SignInType'
    BY <2>0, <2>1 DEF SignInType
  <2>3. \A q \in Request : AtSignIn(q)' => AtSignIn(q) /\ q # r /\ arg'[q] = arg[q]
    BY <1>1 DEF AtSignIn, Elsewhere
  <2>4. /\ marked' \subseteq presented'
        /\ \A q \in Request : AtSignIn(q)' => arg'[q] \in presented'
        /\ \A u \in Ticket : written'[u] > 0 => u \in presented'
        /\ \A u \in Ticket : written'[u] > 0 => u \in marked' \/ u \notin fresh'
    BY <1>0, <2>0, <2>1, <2>3 DEF SignInOK
  <2>5. \A q \in Request : pc'[q] = "write" => arg'[q] \in marked' \/ arg'[q] \notin fresh'
    BY <1>1, <2>0 DEF SignInOK, Elsewhere
  <2>6. \A u \in Ticket \ twice' :
          /\ written'[u] <= 1
          /\ \A q \in Request : AtSignIn(q)' /\ arg'[q] = u => written'[u] = 0
          /\ \A q, p \in Request :
               AtSignIn(q)' /\ AtSignIn(p)' /\ arg'[q] = u /\ arg'[p] = u => q = p
    BY <1>0, <2>0, <2>1, <2>3 DEF SignInOK, AtSignIn
  <2>7. SignInRecorded'
    <3>. SUFFICES ASSUME NEW u \in presented \ lost', ~(written'[u] > 0)
                  PROVE  \E q \in Request : pc'[q] \in {"mark", "write"} /\ arg'[q] = u
      BY <2>0 DEF SignInRecorded
    <3>0. u \in Ticket /\ u # t /\ ~(written[u] > 0) /\ u \notin lost
      BY <2>1 DEF SignInType
    <3>1. PICK q \in Request : pc[q] \in {"mark", "write"} /\ arg[q] = u
      BY <3>0 DEF SignInOK, SignInRecorded
    <3>. QED  BY <1>1, <3>0, <3>1 DEF Elsewhere
  <2>. QED  BY <2>2, <2>4, <2>5, <2>6, <2>7 DEF SignInPart, SignInOK
<1>. QED  BY <1>1, <1>2, <1>3, <1>4, <1>5 DEF IInv

(* Steps that are none of a request. *)
LEMMA NoRequest ==
  ASSUME IInv, UNCHANGED <<roleVars, keyVars, policyVars, written, presented, lost, twice,
                           pc, arg, reads>>,
         fresh' \in SUBSET Ticket, marked' \subseteq marked,
         \A t \in presented \cap fresh' : t \in fresh,
         \A t \in fresh' \cap marked : t \in marked'
  PROVE  IInv'
<1>1. RequestsOK' /\ ArgsOK'
  BY DEF IInv, RequestsOK, ArgsOK, AtSignIn, reads
<1>2. RolesPart'
  BY DEF IInv, RolesPart, RolesType, RolesOK, OneRevoked, RevokesAdmin, Admins, roleVars
<1>3. KeysPart'
  BY DEF IInv, KeysPart, KeysType, KeysOK, OneActiveVersion, keyVars, reads
<1>4. PolicyPart'
  BY DEF IInv, PolicyPart, PolicyType, PolicyOK, policyVars, reads
<1>5. SignInPart'
  <2>. SignInType /\ SignInOK
    BY DEF IInv, SignInPart
  <2>1. SignInType' /\ SignInRecorded'
    BY DEF SignInType, SignInOK, SignInRecorded
  <2>2. \A q \in Request : pc'[q] = "write" => arg'[q] \in marked' \/ arg'[q] \notin fresh'
    BY DEF SignInOK, AtSignIn
  <2>3. \A t \in Ticket : written'[t] > 0 => t \in marked' \/ t \notin fresh'
    BY DEF SignInOK
  <2>. QED  BY <2>1, <2>2, <2>3 DEF SignInPart, SignInOK, AtSignIn
<1>. QED  BY <1>1, <1>2, <1>3, <1>4, <1>5 DEF IInv

LEMMA AbortKeeps ==
  ASSUME IInv, NEW r \in Request, Abort(r)
  PROVE  IInv'
<1>1. RequestsOK' /\ Elsewhere(r) /\ pc'[r] = "idle" /\ ~AtSignIn(r)
  BY RespondOK DEF Abort, IInv, AtSignIn
<1>2. ArgsOK'
  BY <1>1, ArgsElsewhere DEF IInv
<1>3. RolesPart'
  BY <1>1, RolesElsewhere DEF Abort, IInv, RolesPart, RolesType
<1>4. KeysPart'
  <2>1. KeysType' /\ OneActiveVersion'
    BY DEF Abort, IInv, KeysPart, KeysType, KeysOK, OneActiveVersion
  <2>2. \A q \in Request : pc'[q] \in {"max", "commit"} =>
          /\ q # r /\ lock = {q} /\ tracked'[q] = active'[arg'[q]]
          /\ pc'[q] = "commit" => top'[q] = latest'[arg'[q]]
    BY <1>1 DEF Abort, IInv, KeysPart, KeysOK, Elsewhere
  <2>3. \A q \in Request : pc'[q] \in {"max", "commit"} => lock' = {q}
    BY <2>2 DEF Abort
  <2>. QED  BY <2>1, <2>2, <2>3 DEF KeysPart, KeysOK
<1>5. PolicyPart' /\ SignInPart'
  BY <1>1, PolicyElsewhere, SignInElsewhere DEF Abort, IInv
<1>. QED  BY <1>1, <1>2, <1>3, <1>4, <1>5 DEF IInv

LEMMA RestartKeeps ==
  ASSUME IInv, Restart
  PROVE  IInv'
<1>1. RequestsOK' /\ ArgsOK'
  BY DEF Restart, IInv, RequestsOK, Label, Subject, ArgsOK, AtSignIn
<1>2. RolesPart'
  <2>1. RolesType'
    BY DEF Restart, IInv, RolesPart, RolesType
  <2>2. overlap' \/ Admins' # {}
    <3>1. CASE overlap /\ Seeded = {}
      BY <3>1 DEF Restart
    <3>2. CASE Seeded # {}
      BY <3>2 DEF Restart, Admins
    <3>3. CASE ~overlap
      <4>1. Admins # {}
        BY <3>3 DEF IInv, RolesPart, RolesOK, OneRevoked
      <4>. QED  BY <4>1 DEF Restart, Admins
    <3>. QED  BY <3>1, <3>2, <3>3
  <2>3. (\A r \in Request : ~RevokesAdmin(r)') /\ current' = {}
    BY DEF Restart, RevokesAdmin
  <2>4. overlap' \/ OneRevoked'
    BY <2>2, <2>3 DEF OneRevoked
  <2>. QED  BY <2>1, <2>4 DEF RolesPart, RolesOK
<1>3. KeysPart'
  BY DEF Restart, IInv, KeysPart, KeysType, KeysOK, OneActiveVersion
<1>4. PolicyPart'
  BY DEF Restart, IInv, PolicyPart, PolicyType, PolicyOK
<1>5. SignInPart'
  BY DEF Restart, IInv, SignInPart, SignInType, SignInOK, SignInRecorded, AtSignIn
<1>. QED  BY <1>1, <1>2, <1>3, <1>4, <1>5 DEF IInv
-----------------------------------------------------------------------------
LEMMA RequestKeeps ==
  ASSUME IInv, NEW r \in Request,
         Roles(r) \/ Keys(r) \/ Policies(r) \/ SignIns(r) \/ Abort(r)
  PROVE  IInv'
BY GrantKeeps, RevokeKeeps, CountAdminsKeeps, AddToRoleAsyncKeeps,
   RemoveFromRoleAsyncKeeps, RotateKeeps, MaxAsyncKeeps, CommitAsyncKeeps,
   GetForVideoAsyncKeeps, CacheSetKeeps, JudgedKeeps, LookKeeps, MarkKeeps,
   WriteAsyncKeeps, AbortKeeps DEF Roles, Keys, Policies, SignIns

LEMMA NextIInv == IInv /\ [Next]_vars => IInv'
<1>. SUFFICES ASSUME IInv, [Next]_vars  PROVE IInv'
  OBVIOUS
<1>1. ASSUME NEW r \in Request,
             Roles(r) \/ Keys(r) \/ Policies(r) \/ SignIns(r) \/ Abort(r)
      PROVE  IInv'
  BY <1>1, RequestKeeps
<1>2. CASE EditPolicy
  BY <1>2, EditPolicyKeeps
<1>3. CASE Tick
  BY <1>3, TickKeeps
<1>4. CASE Restart
  BY <1>4, RestartKeeps
<1>5. ASSUME NEW t \in Ticket, SignIn(t)  PROVE IInv'
  <2>. fresh \in SUBSET Ticket
    BY DEF IInv, SignInPart, SignInType
  <2>. QED  BY <1>5, NoRequest DEF SignIn
<1>6. ASSUME NEW t \in Ticket, GrowsOld(t)  PROVE IInv'
  <2>. fresh \in SUBSET Ticket
    BY DEF IInv, SignInPart, SignInType
  <2>. QED  BY <1>6, NoRequest DEF GrowsOld
<1>7. ASSUME NEW k \in marked, Evict(k)  PROVE IInv'
  <2>. fresh \in SUBSET Ticket
    BY DEF IInv, SignInPart, SignInType
  <2>. QED  BY <1>7, NoRequest DEF Evict, Key
<1>8. CASE UNCHANGED vars
  <2>. UNCHANGED <<roleVars, keyVars, policyVars, signInVars, pc, arg, reads>>
    BY <1>8 DEF vars, roleVars, keyVars, policyVars, signInVars, reads
  <2>. fresh \in SUBSET Ticket
    BY DEF IInv, SignInPart, SignInType
  <2>. QED  BY NoRequest DEF signInVars
<1>. QED  BY <1>1, <1>2, <1>3, <1>4, <1>5, <1>6, <1>7, <1>8 DEF Next

LEMMA InvariantHolds == Spec => []IInv
BY InitIInv, NextIInv, PTL DEF Spec
-----------------------------------------------------------------------------
(* Every variable has its type, RolesController's, KeyRotationController's,
   VideoSecurityPolicyService's and AdminLoginAuditMiddleware's. *)
THEOREM TypeCorrect == Spec => []TypeOK
<1>1. IInv => TypeOK
  BY TypeOfParts
<1>. QED  BY <1>1, InvariantHolds, PTL

(* RolesController.Revoke leaves an Admin, unless two revocations of different
   ones have overlapped between a count and a removal, whatever Grant, failed
   saves and restarts do meanwhile. *)
THEOREM LastAdminKeptHolds == Spec => []LastAdminKept
<1>1. IInv => LastAdminKept
  BY DEF IInv, RolesPart, RolesOK, OneRevoked, LastAdminKept
<1>. QED  BY <1>1, InvariantHolds, PTL

(* KeyRotationController.Rotate's transaction leaves the highest version of a
   purpose as its only active one. *)
THEOREM OneActiveVersionHolds == Spec => []OneActiveVersion
<1>1. IInv => OneActiveVersion
  BY DEF IInv, KeysPart, KeysOK
<1>. QED  BY <1>1, InvariantHolds, PTL

(* Every fresh sign-in AdminLoginAuditMiddleware has seen gets its row. *)
THEOREM SignInRecordedHolds == Spec => []SignInRecorded
<1>1. IInv => SignInRecorded
  BY DEF IInv, SignInPart, SignInOK
<1>. QED  BY <1>1, InvariantHolds, PTL

(* It gets one, unless two looks at it have overlapped. *)
THEOREM SignInOnceHolds == Spec => []SignInOnce
<1>1. IInv => SignInOnce
  BY DEF IInv, SignInPart, SignInOK, SignInOnce, SignInType
<1>. QED  BY <1>1, InvariantHolds, PTL

(* VideoSecurityPolicyService.GetForVideoAsync never returns a policy that was
   replaced longer ago than CacheTtl and the time between reading and caching. *)
Judges(r) == pc[r] # "judge" /\ pc'[r] = "judge" => replaced[fetched'[r]] <= Horizon

LEMMA RequestJudges ==
  ASSUME IInv, NEW r \in Request,
         Roles(r) \/ Keys(r) \/ Policies(r) \/ SignIns(r) \/ Abort(r)
  PROVE  Judges(r) /\ \A q \in Request \ {r} : pc'[q] = pc[q]
<1>. pc \in [Request -> Label]
  BY DEF IInv, RequestsOK
<1>1. CASE \/ \E v \in Video : GetForVideoAsync(r, v)
           \/ CacheSet(r)
  BY <1>1, GetForVideoAsyncKeeps, CacheSetKeeps
     DEF Judges, GetForVideoAsync, CacheSet, Begin, Goto
<1>2. CASE Roles(r)
  BY <1>2 DEF Roles, Grant, Revoke, CountAdmins, AddToRoleAsync, RemoveFromRoleAsync,
              Begin, Goto, Respond, Judges
<1>3. CASE Keys(r) \/ Judged(r) \/ Abort(r)
  BY <1>3 DEF Keys, Rotate, MaxAsync, CommitAsync, Judged, Abort, Begin, Goto, Respond,
              Judges
<1>4. CASE SignIns(r)
  BY <1>4 DEF SignIns, Look, Mark, WriteAsync, Begin, Goto, Respond, Judges
<1>. QED  BY <1>1, <1>2, <1>3, <1>4 DEF Policies

THEOREM PolicyTakesEffectHolds == Spec => PolicyTakesEffect
<1>1. IInv /\ [Next]_vars => [\A r \in Request : Judges(r)]_vars
  <2>. SUFFICES ASSUME IInv, Next  PROVE \A r \in Request : Judges(r)
    OBVIOUS
  <2>1. ASSUME NEW r \in Request,
               Roles(r) \/ Keys(r) \/ Policies(r) \/ SignIns(r) \/ Abort(r)
        PROVE  \A q \in Request : Judges(q)
    BY <2>1, RequestJudges DEF Judges
  <2>2. CASE Restart
    BY <2>2 DEF Restart, Judges
  <2>3. CASE \/ EditPolicy \/ Tick
             \/ \E t \in Ticket : SignIn(t) \/ GrowsOld(t)
             \/ \E k \in marked : Evict(k)
    BY <2>3 DEF EditPolicy, Tick, SignIn, GrowsOld, Evict, Judges
  <2>. QED  BY <2>1, <2>2, <2>3 DEF Next
<1>. QED  BY <1>1, InvariantHolds, PTL DEF Spec, PolicyTakesEffect, Judges
=============================================================================
