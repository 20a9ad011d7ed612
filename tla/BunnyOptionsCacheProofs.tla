----------------------- MODULE BunnyOptionsCacheProofs ----------------------
(***************************************************************************)
(* Proofs about BunnyOptionsCache, for any settings, values and requests.  *)
(* The invariant says, of the options each request holds, which have been  *)
(* in force, and that those no save has overtaken still are.               *)
(***************************************************************************)
EXTENDS BunnyOptionsCache, TLAPS

Primes == {"prime", "primeToSave"}

(* o is what the values in v allow, or lacks secrets that were unreadable. *)
FromSaved(o, v) ==
  \A s \in Setting : o[s] \in v[s] \/ (s \in Secret /\ o[s] = Blank)

FromRow(o, r) ==
  \A s \in Setting : o[s] = r[s] \/ (s \in Secret /\ o[s] = Blank)

(* What is stored, loaded, read or about to be cached has been in force. *)
DefaultsSaved == \A s \in Setting : Defaults[s] \in saved[s]
RowSaved == row # None => \A s \in Setting : row[s] \in saved[s]
HadSaved ==
  \A t \in Thread : pc[t] = "write" /\ had[t] # None =>
    \A s \in Setting : had[t][s] \in saved[s]
HeldSaved ==
  \A t \in Thread : pc[t] \in Primes \cup {"publish"} => FromSaved(mine[t], saved)

(* A request that no save has overtaken holds the row as it is. *)
ReadFresh ==
  \A t \in Thread \ overtaken : pc[t] \in Primes => FromRow(mine[t], InForce)
LoadedFresh == \A t \in Thread \ overtaken : pc[t] = "write" => had[t] = row
WrittenFresh == \A t \in Thread \ overtaken : pc[t] = "publish" => mine[t] = row

Kept == DefaultsSaved /\ RowSaved /\ HadSaved /\ HeldSaved /\ ServedWasSaved
Fresh == ReadFresh /\ LoadedFresh /\ WrittenFresh /\ ServedInForce
IInv == TypeOK /\ Kept /\ Fresh
-----------------------------------------------------------------------------
(* What the form makes of options is options again. *)
LEMMA ToOptionsType ==
  ASSUME NEW f \in Form \cup {NoForm}, NEW o \in Options
  PROVE  ToOptions(f, o) \in Options
<1>1. ASSUME NEW s \in Setting
      PROVE  (CASE f[s] = "keep" -> o[s] [] f[s] = "clear" -> Blank
                [] OTHER -> f[s]) \in Value \cup {Blank}
  <2>1. f[s] \in Input /\ o[s] \in Value \cup {Blank}
    BY DEF Form, NoForm, Input, Options
  <2>2. CASE f[s] = "keep"
    BY <2>1, <2>2
  <2>3. CASE f[s] = "clear"
    BY <2>1, <2>3
  <2>4. CASE f[s] # "keep" /\ f[s] # "clear"
    BY <2>1, <2>4 DEF Input
  <2> QED BY <2>2, <2>3, <2>4
<1> QED BY <1>1 DEF ToOptions, Options

(* What t leaves of the variables of requests when it moves to a label in
   ls: the others stay where they are, and types are kept. *)
Moves(t, ls) ==
  /\ pc' \in [Thread -> Label]
  /\ form' \in [Thread -> Form \cup {NoForm}]
  /\ mine' \in [Thread -> Options]
  /\ had' \in [Thread -> Options \cup {None}]
  /\ pc'[t] \in ls
  /\ \A u \in Thread \ {t} :
       pc'[u] = pc[u] /\ mine'[u] = mine[u] /\ had'[u] = had[u]

(* A request that answers holds nothing. *)
LEMMA RespondMoves ==
  ASSUME TypeOK, NEW t \in Thread, Respond(t)
  PROVE  Moves(t, {"idle"})
BY OptionsAssumption DEF TypeOK, Respond, Goto, Moves, Label

(* A request whose form is taken up goes on to save it, or it is sent back. *)
LEMMA EditMoves ==
  ASSUME TypeOK, NEW t \in Thread, NEW f \in Form \cup {NoForm},
         NEW o \in Options, Edit(t, f, o)
  PROVE  Moves(t, {"idle", "load"})
<1>1. CASE Valid(ToOptions(f, o))
  <2>1. ToOptions(f, o) \in Options
    BY ToOptionsType
  <2>2. /\ pc' = [pc EXCEPT ![t] = "load"]
        /\ form' = [form EXCEPT ![t] = f]
        /\ mine' = [mine EXCEPT ![t] = ToOptions(f, o)]
        /\ had' = had
    BY <1>1 DEF Edit, Goto
  <2> HIDE DEF ToOptions
  <2> QED BY <2>1, <2>2 DEF TypeOK, Moves, Label
<1>2. CASE ~Valid(ToOptions(f, o))
  <2>1. Respond(t)
    BY <1>2 DEF Edit
  <2> QED BY <2>1, RespondMoves DEF Moves
<1> QED BY <1>1, <1>2

(* The settings in force are options. *)
LEMMA InForceType == TypeOK => InForce \in Options
BY OptionsAssumption DEF TypeOK, InForce

(* What is in force has been, and what is read of it differs from it in
   secrets that are blank only. *)
LEMMA ReadSaved ==
  ASSUME TypeOK, DefaultsSaved, RowSaved, NEW lost \in SUBSET Secret
  PROVE  /\ FromSettings(lost) \in Options
         /\ FromSaved(FromSettings(lost), saved)
         /\ FromRow(FromSettings(lost), InForce)
<1>1. CASE row = None
  BY <1>1, OptionsAssumption DEF FromSettings, InForce, FromSaved, FromRow,
     DefaultsSaved
<1>2. CASE row # None
  <2>1. FromSettings(lost) = [s \in Setting |-> IF s \in lost THEN Blank ELSE row[s]]
        /\ InForce = row
    BY <1>2 DEF FromSettings, InForce
  <2>2. row \in Options /\ \A s \in Setting : row[s] \in saved[s]
    BY <1>2 DEF TypeOK, RowSaved
  <2>3. FromSettings(lost) \in Options
    BY <2>1, <2>2 DEF Options
  <2>4. FromSaved(FromSettings(lost), saved) /\ FromRow(FromSettings(lost), InForce)
    BY <2>1, <2>2 DEF FromSaved, FromRow
  <2> QED BY <2>3, <2>4
<1> QED BY <1>1, <1>2
-----------------------------------------------------------------------------
(* A step of t that leaves the row, the cache and the history alone, and in
   which t comes to hold nothing that is about to be cached or written. *)
LEMMA QuietKeeps ==
  ASSUME IInv, NEW t \in Thread,
         Moves(t, {"idle", "read", "readToSave", "load"}), pc[t] # "publish",
         UNCHANGED <<row, current, saved, overtaken, old>>
  PROVE  IInv'
<1>1. TypeOK'
  BY DEF IInv, TypeOK, Moves
<1>2. (DefaultsSaved /\ RowSaved /\ ServedWasSaved)'
  BY DEF IInv, Kept, DefaultsSaved, RowSaved, ServedWasSaved
<1>3. HadSaved'
  BY DEF IInv, Kept, HadSaved, Moves
<1>4. HeldSaved'
  BY DEF IInv, Kept, HeldSaved, FromSaved, Moves, Primes
<1>5. ReadFresh'
  BY DEF IInv, Fresh, ReadFresh, FromRow, InForce, Moves, Primes
<1>6. (LoadedFresh /\ WrittenFresh)'
  BY DEF IInv, Fresh, LoadedFresh, WrittenFresh, Moves
<1>7. ServedInForce'
  <2>1. Publishing' = Publishing
    BY DEF Moves, Publishing
  <2> QED BY <2>1 DEF IInv, Fresh, ServedInForce, Readable, InForce
<1> QED BY <1>1, <1>2, <1>3, <1>4, <1>5, <1>6, <1>7 DEF IInv, Kept, Fresh

LEMMA InitIInv == Init => IInv
<1> SUFFICES ASSUME Init PROVE IInv
  OBVIOUS
<1>1. TypeOK
  BY OptionsAssumption DEF Init, TypeOK, Label, Options
<1>2. Kept
  BY DEF Init, Kept, DefaultsSaved, RowSaved, HadSaved, HeldSaved, Primes,
         ServedWasSaved
<1>3. Fresh
  BY DEF Init, Fresh, ReadFresh, LoadedFresh, WrittenFresh, ServedInForce, Primes
<1> QED BY <1>1, <1>2, <1>3 DEF IInv

LEMMA ReadRowKeeps ==
  ASSUME IInv, NEW t \in Thread, ReadRow(t)
  PROVE  IInv'
<1>1. PICK lost \in SUBSET Secret :
        mine' = [mine EXCEPT ![t] = FromSettings(lost)]
  BY DEF ReadRow
<1>2. /\ FromSettings(lost) \in Options
      /\ FromSaved(FromSettings(lost), saved)
      /\ FromRow(FromSettings(lost), InForce)
  BY ReadSaved DEF IInv, Kept
<1> HIDE DEF FromSettings
<1>3. /\ Moves(t, Primes) /\ mine'[t] = FromSettings(lost) /\ pc[t] # "publish"
      /\ overtaken' = overtaken \ {t}
      /\ UNCHANGED <<row, current, saved, old, had>> /\ InForce' = InForce
  BY <1>1, <1>2 DEF IInv, TypeOK, ReadRow, Goto, Moves, Primes, Label, InForce
<1>4. TypeOK'
  BY <1>3 DEF IInv, TypeOK, Moves
<1>5. (DefaultsSaved /\ RowSaved /\ ServedWasSaved)'
  BY <1>3 DEF IInv, Kept, DefaultsSaved, RowSaved, ServedWasSaved
<1>6. HadSaved' /\ (LoadedFresh /\ WrittenFresh)'
  BY <1>3 DEF IInv, Kept, Fresh, HadSaved, LoadedFresh, WrittenFresh, Moves, Primes
<1>7. HeldSaved'
  <2>1. ASSUME NEW u \in Thread, pc'[u] \in Primes \cup {"publish"}
        PROVE  FromSaved(mine'[u], saved')
    BY <1>2, <1>3, <2>1 DEF IInv, Kept, HeldSaved, Moves
  <2> QED BY <2>1 DEF HeldSaved
<1>8. ReadFresh'
  <2>1. ASSUME NEW u \in Thread \ overtaken', pc'[u] \in Primes
        PROVE  FromRow(mine'[u], InForce')
    BY <1>2, <1>3, <2>1 DEF IInv, Fresh, ReadFresh, Moves
  <2> QED BY <2>1 DEF ReadFresh
<1>9. ServedInForce'
  <2>1. Publishing' = Publishing
    BY <1>3 DEF Moves, Publishing, Primes
  <2> QED BY <1>3, <2>1 DEF IInv, Fresh, ServedInForce, Readable
<1> QED BY <1>4, <1>5, <1>6, <1>7, <1>8, <1>9 DEF IInv, Kept, Fresh

LEMMA PrimeKeeps ==
  ASSUME IInv, NEW t \in Thread, Prime(t)
  PROVE  IInv'
<1>1. /\ pc[t] \in Primes /\ mine[t] \in Options /\ form[t] \in Form \cup {NoForm}
      /\ current' = mine[t] /\ old' = (t \in overtaken)
      /\ UNCHANGED <<row, saved, overtaken>> /\ InForce' = InForce
  BY DEF IInv, TypeOK, Prime, Primes, InForce
<1>2. Moves(t, {"idle", "load"})
  <2>1. CASE Respond(t)
    BY <2>1, RespondMoves DEF IInv, Moves
  <2>2. CASE Edit(t, form[t], mine[t])
    BY <1>1, <2>2, EditMoves DEF IInv
  <2> QED BY <2>1, <2>2 DEF Prime
<1>3. TypeOK'
  BY <1>1, <1>2 DEF IInv, TypeOK, Moves
<1>4. (DefaultsSaved /\ RowSaved)'
  BY <1>1 DEF IInv, Kept, DefaultsSaved, RowSaved
<1>5. ServedWasSaved'
  BY <1>1 DEF IInv, Kept, HeldSaved, FromSaved, ServedWasSaved
<1>6. HadSaved' /\ HeldSaved'
  BY <1>1, <1>2 DEF IInv, Kept, HadSaved, HeldSaved, FromSaved, Moves, Primes
<1>7. (ReadFresh /\ LoadedFresh /\ WrittenFresh)'
  BY <1>1, <1>2 DEF IInv, Fresh, ReadFresh, LoadedFresh, WrittenFresh, FromRow,
     Moves, Primes
<1>8. ServedInForce'
  BY <1>1 DEF IInv, Fresh, ReadFresh, FromRow, ServedInForce, Readable
<1> QED BY <1>3, <1>4, <1>5, <1>6, <1>7, <1>8 DEF IInv, Kept, Fresh

LEMMA SaveAsyncKeeps ==
  ASSUME IInv, NEW t \in Thread, SaveAsync(t)
  PROVE  IInv'
<1>1. /\ Moves(t, {"write"}) /\ pc[t] = "load" /\ had'[t] = row
      /\ mine' = mine /\ overtaken' = overtaken \ {t}
      /\ UNCHANGED <<row, current, saved, old>> /\ InForce' = InForce
  BY DEF IInv, TypeOK, SaveAsync, Goto, Moves, Label, InForce
<1>2. TypeOK'
  BY <1>1 DEF IInv, TypeOK, Moves
<1>3. (DefaultsSaved /\ RowSaved /\ ServedWasSaved)'
  BY <1>1 DEF IInv, Kept, DefaultsSaved, RowSaved, ServedWasSaved
<1>4. HadSaved'
  BY <1>1 DEF IInv, Kept, HadSaved, RowSaved, Moves
<1>5. HeldSaved'
  BY <1>1 DEF IInv, Kept, HeldSaved, FromSaved, Moves, Primes
<1>6. (ReadFresh /\ LoadedFresh /\ WrittenFresh)'
  BY <1>1 DEF IInv, Fresh, ReadFresh, LoadedFresh, WrittenFresh, FromRow,
     Moves, Primes
<1>7. ServedInForce'
  <2>1. Publishing' = Publishing
    BY <1>1 DEF Moves, Publishing
  <2> QED BY <1>1, <2>1 DEF IInv, Fresh, ServedInForce, Readable
<1> QED BY <1>2, <1>3, <1>4, <1>5, <1>6, <1>7 DEF IInv, Kept, Fresh

(* Every setting of what t saves is in the row, or stands there as it did
   when t loaded it. *)
LEMMA ApplyKeeps ==
  ASSUME TypeOK, NEW t \in Thread, ~(had[t] = None /\ row # None)
  PROVE  /\ Apply(t) \in Options
         /\ \A s \in Setting :
              Apply(t)[s] = mine[t][s] \/ (had[t] # None /\ mine[t][s] = had[t][s])
         /\ had[t] = row => Apply(t) = mine[t]
<1>1. CASE row = None
  BY <1>1 DEF Apply, TypeOK
<1>2. CASE row # None
  <2>1. Apply(t) = [s \in Setting |->
                      IF s \in Written(t) THEN mine[t][s] ELSE row[s]]
        /\ had[t] # None
    BY <1>2 DEF Apply
  <2>2. \A s \in Setting \ Written(t) : mine[t][s] = had[t][s]
    BY DEF Written
  <2>3. row \in Options /\ mine[t] \in Options
    BY <1>2 DEF TypeOK
  <2>4. Apply(t) \in Options
    BY <2>1, <2>3 DEF Options
  <2>5. had[t] = row => \A s \in Setting : Apply(t)[s] = mine[t][s]
    BY <2>1, <2>2
  <2>6. had[t] = row => Apply(t) = mine[t]
    BY <2>3, <2>4, <2>5 DEF Options
  <2>7. \A s \in Setting :
          Apply(t)[s] = mine[t][s] \/ (had[t] # None /\ mine[t][s] = had[t][s])
    BY <2>1, <2>2
  <2> QED BY <2>4, <2>6, <2>7
<1> QED BY <1>1, <1>2

LEMMA SaveChangesAsyncKeeps ==
  ASSUME IInv, NEW t \in Thread, SaveChangesAsync(t)
  PROVE  IInv'
<1>1. CASE had[t] = None /\ row # None
  <2>1. /\ Respond(t) /\ pc[t] # "publish"
        /\ UNCHANGED <<row, current, saved, overtaken, old>>
    BY <1>1 DEF SaveChangesAsync
  <2>2. Moves(t, {"idle", "read", "readToSave", "load"})
    BY <2>1, RespondMoves DEF IInv, Moves
  <2> QED BY <2>1, <2>2, QuietKeeps
<1>2. CASE ~(had[t] = None /\ row # None)
  <2> DEFINE S(s) == saved[s] \cup {Apply(t)[s]}
  <2>1. /\ Apply(t) \in Options
        /\ \A s \in Setting :
             Apply(t)[s] = mine[t][s] \/ (had[t] # None /\ mine[t][s] = had[t][s])
        /\ had[t] = row => Apply(t) = mine[t]
    BY <1>2, ApplyKeeps DEF IInv
  <2> HIDE DEF Apply
  <2>2. /\ row' = Apply(t) /\ row' # None /\ pc[t] = "write"
        /\ saved' = [s \in Setting |-> S(s)]
        /\ overtaken' = overtaken \cup {u \in Thread \ {t} : pc[u] \in Holding}
        /\ UNCHANGED <<form, mine, had, current, old>>
        /\ pc' = [pc EXCEPT ![t] = "publish"]
    BY <1>2, <2>1, OptionsAssumption DEF SaveChangesAsync, Goto
  <2>3. /\ Moves(t, {"publish"}) /\ Publishing' /\ InForce' = row'
    BY <2>2 DEF IInv, TypeOK, Moves, Label, Publishing, InForce
  <2>4. \A s \in Setting : saved[s] \subseteq saved'[s] /\ row'[s] \in saved'[s]
    BY <2>2 DEF S
  <2>5. TypeOK'
    <3>1. \A s \in Setting : S(s) \in SUBSET (Value \cup {Blank})
      BY <2>1 DEF IInv, TypeOK, Options
    <3>2. saved' \in [Setting -> SUBSET (Value \cup {Blank})]
      BY <2>2, <3>1
    <3> QED BY <2>1, <2>2, <2>3, <3>2 DEF IInv, TypeOK, Moves
  <2>6. (DefaultsSaved /\ RowSaved /\ ServedWasSaved)'
    BY <2>2, <2>4 DEF IInv, Kept, DefaultsSaved, RowSaved, ServedWasSaved
  <2>7. HadSaved'
    BY <2>2, <2>4 DEF IInv, Kept, HadSaved, TypeOK
  <2>8. HeldSaved'
    <3>1. ASSUME NEW u \in Thread \ {t}, pc'[u] \in Primes \cup {"publish"}
          PROVE  FromSaved(mine'[u], saved')
      BY <2>2, <2>3, <2>4, <3>1 DEF IInv, Kept, HeldSaved, FromSaved, Moves
    <3>2. FromSaved(mine'[t], saved')
      BY <2>1, <2>2, <2>4 DEF IInv, Kept, HadSaved, FromSaved
    <3> QED BY <3>1, <3>2 DEF HeldSaved
  <2>9. (ReadFresh /\ LoadedFresh)'
    BY <2>2, <2>3 DEF ReadFresh, LoadedFresh, Moves, Primes, Holding
  <2>10. WrittenFresh'
    <3>1. ASSUME NEW u \in Thread \ overtaken', pc'[u] = "publish"
          PROVE  mine'[u] = row'
      <4>1. u = t
        BY <2>2, <2>3, <3>1 DEF Moves, Holding
      <4>2. had[t] = row
        BY <2>2, <3>1, <4>1 DEF IInv, Fresh, LoadedFresh
      <4> QED BY <2>1, <2>2, <4>1, <4>2
    <3> QED BY <3>1 DEF WrittenFresh
  <2>11. ServedInForce'
    BY <2>3 DEF ServedInForce
  <2> QED BY <2>5, <2>6, <2>7, <2>8, <2>9, <2>10, <2>11 DEF IInv, Kept, Fresh
<1> QED BY <1>1, <1>2

LEMMA PublishKeeps ==
  ASSUME IInv, NEW t \in Thread, Publish(t)
  PROVE  IInv'
<1>1. /\ pc[t] = "publish" /\ mine[t] \in Options /\ mine[t] # None
      /\ current' = mine[t] /\ old' = (t \in overtaken)
      /\ UNCHANGED <<row, saved, overtaken>> /\ InForce' = InForce
  BY OptionsAssumption DEF IInv, TypeOK, Publish, InForce
<1>2. Moves(t, {"idle"})
  BY RespondMoves DEF IInv, Publish
<1>3. TypeOK'
  BY <1>1, <1>2 DEF IInv, TypeOK, Moves
<1>4. (DefaultsSaved /\ RowSaved)'
  BY <1>1 DEF IInv, Kept, DefaultsSaved, RowSaved
<1>5. ServedWasSaved'
  BY <1>1 DEF IInv, Kept, HeldSaved, FromSaved, ServedWasSaved
<1>6. HadSaved' /\ HeldSaved'
  BY <1>1, <1>2 DEF IInv, Kept, HadSaved, HeldSaved, FromSaved, Moves, Primes
<1>7. (ReadFresh /\ LoadedFresh /\ WrittenFresh)'
  BY <1>1, <1>2 DEF IInv, Fresh, ReadFresh, LoadedFresh, WrittenFresh, FromRow,
     Moves, Primes
<1>8. ServedInForce'
  BY <1>1 DEF IInv, Fresh, WrittenFresh, InForce, ServedInForce, Readable
<1> QED BY <1>3, <1>4, <1>5, <1>6, <1>7, <1>8 DEF IInv, Kept, Fresh

LEMMA RestartKeeps ==
  ASSUME IInv, Restart
  PROVE  IInv'
<1>1. TypeOK'
  BY OptionsAssumption DEF IInv, Restart, TypeOK, Label
<1>2. Kept'
  BY DEF IInv, Restart, Kept, DefaultsSaved, RowSaved, HadSaved, HeldSaved,
         Primes, ServedWasSaved
<1>3. Fresh'
  BY DEF Restart, Fresh, ReadFresh, LoadedFresh, WrittenFresh, ServedInForce,
         Primes
<1> QED BY <1>1, <1>2, <1>3 DEF IInv

LEMMA NextIInv == IInv /\ [Next]_vars => IInv'
<1> SUFFICES ASSUME IInv, [Next]_vars PROVE IInv'
  OBVIOUS
<1>1. CASE UNCHANGED vars
  <2>1. TypeOK'
    BY <1>1 DEF IInv, vars, TypeOK
  <2>2. Kept'
    BY <1>1 DEF IInv, vars, Kept, DefaultsSaved, RowSaved, HadSaved, HeldSaved,
       FromSaved, ServedWasSaved
  <2>3. Fresh'
    BY <1>1 DEF IInv, vars, Fresh, ReadFresh, FromRow, InForce, LoadedFresh,
       WrittenFresh, ServedInForce, Publishing, Readable
  <2> QED BY <2>1, <2>2, <2>3 DEF IInv
<1>2. ASSUME NEW t \in Thread, GetAsync(t) PROVE IInv'
  <2>1. Moves(t, {"read"}) /\ pc[t] # "publish"
    BY <1>2 DEF IInv, TypeOK, GetAsync, Goto, Moves, Label
  <2> QED BY <1>2, <2>1, QuietKeeps DEF GetAsync, Moves
<1>3. ASSUME NEW t \in Thread, NEW f \in Form, Save(t, f) PROVE IInv'
  <2>1. Moves(t, {"idle", "readToSave", "load"})
    <3>1. CASE current = None
      BY <1>3, <3>1 DEF IInv, TypeOK, Save, Goto, Moves, Label
    <3>2. CASE current # None
      BY <1>3, <3>2, EditMoves DEF IInv, TypeOK, Save, Moves
    <3> QED BY <3>1, <3>2
  <2> QED BY <1>3, <2>1, QuietKeeps DEF Save, Moves
<1>4. ASSUME NEW t \in Thread, Abort(t) PROVE IInv'
  <2>1. Moves(t, {"idle"})
    BY <1>4, RespondMoves DEF IInv, Abort
  <2> QED BY <1>4, <2>1, QuietKeeps DEF Abort, Moves
<1>5. ASSUME NEW t \in Thread,
             ReadRow(t) \/ Prime(t) \/ SaveAsync(t) \/ SaveChangesAsync(t)
               \/ Publish(t)
      PROVE  IInv'
  BY <1>5, ReadRowKeeps, PrimeKeeps, SaveAsyncKeeps, SaveChangesAsyncKeeps,
     PublishKeeps
<1>6. CASE Restart
  BY <1>6, RestartKeeps
<1> QED BY <1>1, <1>2, <1>3, <1>4, <1>5, <1>6 DEF Next

LEMMA Inductive == Spec => []IInv
<1>1. Init => IInv
  BY InitIInv
<1>2. IInv /\ [Next]_vars => IInv'
  BY NextIInv
<1> QED BY <1>1, <1>2, PTL DEF Spec
-----------------------------------------------------------------------------
(* Every row, cached value and request in flight keeps its type: whatever
   the form says, what it makes of valid options is options again. *)
THEOREM TypeCorrect == Spec => []TypeOK
<1>1. IInv => TypeOK
  BY DEF IInv
<1> QED BY <1>1, Inductive, PTL

(* However readers and any number of savers overtake one another, fail or
   restart, and whichever secrets cannot be decrypted, every setting served
   has been in force or is a blank secret. *)
THEOREM ServedWasSavedHolds == Spec => []ServedWasSaved
<1>1. IInv => ServedWasSaved
  BY DEF IInv, Kept
<1> QED BY <1>1, Inductive, PTL

(* What is served is what is in force, unless the request that cached it was
   overtaken by a save. *)
THEOREM ServedInForceHolds == Spec => []ServedInForce
<1>1. IInv => ServedInForce
  BY DEF IInv, Fresh
<1> QED BY <1>1, Inductive, PTL

=============================================================================
