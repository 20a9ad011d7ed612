-------------------------- MODULE BunnyOptionsCache -------------------------
(***************************************************************************)
(* BunnyOptionsProvider, the singleton that keeps the Bunny settings in    *)
(* memory, with the administrator's form that changes them.  Its lock      *)
(* covers each access to _current but neither the database read before it  *)
(* is set nor the one that decides what is saved, so that readers and      *)
(* savers interleave between their awaits.                                 *)
(***************************************************************************)
EXTENDS Naturals

CONSTANTS
  Thread,    \* requests in flight
  Savers,    \* those of them that may post the settings form
  Readers,   \* those of them that may ask for the options
  Plain,     \* settings the form shows and posts, as CdnHostname
  Required,  \* secrets that must not be blank, as ApiKey
  Optional,  \* secrets that may be cleared, as WebhookSecret
  Value,     \* values of a setting
  Defaults,  \* the configured defaults
  Blank,     \* no value
  None       \* no settings row, no cached options

Secret == Required \cup Optional   \* never displayed, stored encrypted
Setting == Plain \cup Secret
Options == [Setting -> Value \cup {Blank}]
Input == {"keep", "clear"} \cup Value   \* what the form says of one setting
Form == {f \in [Setting -> Input] : /\ \A s \in Plain : f[s] \in Value
                                   /\ \A s \in Required : f[s] # "clear"}

ASSUME OptionsAssumption ==
  /\ Savers \subseteq Thread /\ Readers \subseteq Thread
  /\ Defaults \in Options
  /\ Blank \notin Value /\ None \notin Options
  /\ "keep" \notin Value /\ "clear" \notin Value

VARIABLES
  row,      \* the BunnyRuntimeSettings row with Id 1, or None
  current,  \* _current
  saved,    \* history: the values each setting has had in force so far
  pc,       \* pc[t]: where request t is
  form,     \* form[t]: the form it has posted
  mine,     \* mine[t]: the options it holds
  had,      \* had[t]: the row its SaveAsync has loaded, None if it adds one
  overtaken, \* history: requests that had read or loaded the row when the
             \* save of another changed it
  old       \* history: such a request was the last to set _current

vars == <<row, current, saved, pc, form, mine, had, overtaken, old>>

NoForm == [s \in Setting |-> "keep"]

Label == {"idle", "read", "prime", "readToSave", "primeToSave", "load",
          "write", "publish"}

TypeOK ==
  /\ row \in Options \cup {None}
  /\ current \in Options \cup {None}
  /\ saved \in [Setting -> SUBSET (Value \cup {Blank})]
  /\ pc \in [Thread -> Label]
  /\ form \in [Thread -> Form \cup {NoForm}]
  /\ mine \in [Thread -> Options]
  /\ had \in [Thread -> Options \cup {None}]
  /\ overtaken \subseteq Thread
  /\ old \in BOOLEAN

Init ==
  /\ row = None /\ current = None
  /\ saved = [s \in Setting |-> {Defaults[s]}]
  /\ pc = [t \in Thread |-> "idle"]
  /\ form = [t \in Thread |-> NoForm]
  /\ mine = [t \in Thread |-> Defaults]
  /\ had = [t \in Thread |-> None]
  /\ overtaken = {} /\ old = FALSE

InForce == IF row = None THEN Defaults ELSE row

(* BunnySettingsViewModel.ToOptions *)
ToOptions(f, o) ==
  [s \in Setting |-> CASE f[s] = "keep" -> o[s] [] f[s] = "clear" -> Blank
                       [] OTHER -> f[s]]

(* BunnyOptionsProvider.Validate *)
Valid(o) == \A s \in Plain \cup Required : o[s] # Blank

Goto(t, label) == pc' = [pc EXCEPT ![t] = label]

Respond(t) ==
  /\ Goto(t, "idle")
  /\ form' = [form EXCEPT ![t] = NoForm]
  /\ mine' = [mine EXCEPT ![t] = Defaults]
  /\ had' = [had EXCEPT ![t] = None]
-----------------------------------------------------------------------------
(* GetAsync and Current: a cached value is returned at once, otherwise the
   row is read and cached. *)
GetAsync(t) ==
  /\ t \in Readers /\ pc[t] = "idle" /\ current = None
  /\ Goto(t, "read")
  /\ UNCHANGED <<row, current, saved, form, mine, had, overtaken, old>>

(* FromSettings and Unprotect: each secret is decrypted by itself, and one
   that cannot be is blank. *)
FromSettings(lost) ==
  IF row = None THEN Defaults
  ELSE [s \in Setting |-> IF s \in lost THEN Blank ELSE row[s]]

ReadRow(t) ==
  /\ pc[t] \in {"read", "readToSave"}
  /\ \E lost \in SUBSET Secret :
       mine' = [mine EXCEPT ![t] = FromSettings(lost)]
  /\ Goto(t, IF pc[t] = "read" THEN "prime" ELSE "primeToSave")
  /\ overtaken' = overtaken \ {t}
  /\ UNCHANGED <<row, current, saved, form, had, old>>

(* The form takes what it leaves blank from the options in o; settings that
   are not valid are sent back to the administrator. *)
Edit(t, f, o) ==
  IF Valid(ToOptions(f, o))
  THEN /\ Goto(t, "load")
       /\ form' = [form EXCEPT ![t] = f]
       /\ mine' = [mine EXCEPT ![t] = ToOptions(f, o)]
       /\ UNCHANGED had
  ELSE Respond(t)

Prime(t) ==
  /\ current' = mine[t]
  /\ \/ pc[t] = "prime" /\ Respond(t)
     \/ pc[t] = "primeToSave" /\ Edit(t, form[t], mine[t])
  /\ old' = (t \in overtaken)
  /\ UNCHANGED <<row, saved, overtaken>>

(* BunnySettingsController.Save *)
Save(t, f) ==
  /\ t \in Savers /\ pc[t] = "idle"
  /\ IF current = None
     THEN /\ Goto(t, "readToSave")
          /\ form' = [form EXCEPT ![t] = f]
          /\ UNCHANGED <<mine, had>>
     ELSE Edit(t, f, current)
  /\ UNCHANGED <<row, current, saved, overtaken, old>>

(* Mutant of SaveAsync: the options are cached before they are saved. *)
CachedFirst(t) ==
  /\ pc[t] = "load"
  /\ had' = [had EXCEPT ![t] = row]
  /\ current' = mine[t]
  /\ Goto(t, "write")
  /\ overtaken' = overtaken \ {t}
  /\ UNCHANGED <<row, saved, form, mine, old>>

(* SaveAsync: the row is loaded to be changed or added, written, and only
   then cached. *)
SaveAsync(t) ==
  /\ pc[t] = "load"
  /\ had' = [had EXCEPT ![t] = row]
  /\ Goto(t, "write")
  /\ overtaken' = overtaken \ {t}
  /\ UNCHANGED <<row, current, saved, form, mine, old>>

(* Apply and SaveChangesAsync: of the row that was loaded the columns that
   differ are written, every secret among them that is not blank since it is
   encrypted anew. *)
Written(t) ==
  {s \in Setting : mine[t][s] # had[t][s] \/ (s \in Secret /\ mine[t][s] # Blank)}

Apply(t) ==
  IF row = None THEN mine[t]
  ELSE [s \in Setting |-> IF s \in Written(t) THEN mine[t][s] ELSE row[s]]

Holding == {"prime", "primeToSave", "write", "publish"}

(* Of two requests that add the row the second one fails. *)
SaveChangesAsync(t) ==
  /\ pc[t] = "write"
  /\ IF had[t] = None /\ row # None
     THEN Respond(t) /\ UNCHANGED <<row, saved, overtaken>>
     ELSE /\ row' = Apply(t)
          /\ saved' = [s \in Setting |-> saved[s] \cup {Apply(t)[s]}]
          /\ Goto(t, "publish")
          /\ overtaken' = overtaken \cup {u \in Thread \ {t} : pc[u] \in Holding}
          /\ UNCHANGED <<form, mine, had>>
  /\ UNCHANGED <<current, old>>

(* Mutant of Publish: _current is left to what it was. *)
NotPublished(t) ==
  /\ pc[t] = "publish"
  /\ Respond(t)
  /\ UNCHANGED <<row, current, saved, overtaken, old>>

Publish(t) ==
  /\ pc[t] = "publish"
  /\ current' = mine[t]
  /\ old' = (t \in overtaken)
  /\ Respond(t)
  /\ UNCHANGED <<row, saved, overtaken>>

(* A failed or cancelled read or save ends the request. *)
Abort(t) ==
  /\ pc[t] \in {"read", "readToSave", "load", "write"}
  /\ Respond(t)
  /\ UNCHANGED <<row, current, saved, overtaken, old>>

Restart ==
  /\ current # None \/ \E t \in Thread : pc[t] # "idle"
  /\ current' = None
  /\ pc' = [t \in Thread |-> "idle"]
  /\ form' = [t \in Thread |-> NoForm]
  /\ mine' = [t \in Thread |-> Defaults]
  /\ had' = [t \in Thread |-> None]
  /\ overtaken' = {} /\ old' = FALSE
  /\ UNCHANGED <<row, saved>>

Next ==
  \/ \E t \in Thread :
       \/ GetAsync(t) \/ ReadRow(t) \/ Prime(t) \/ SaveAsync(t)
       \/ SaveChangesAsync(t) \/ Publish(t) \/ Abort(t)
       \/ \E f \in Form : Save(t, f)
  \/ Restart

Spec == Init /\ [][Next]_vars
-----------------------------------------------------------------------------
(* Each setting is served as it is in force, or is a secret that is blank
   because it could not be decrypted. *)
Readable ==
  \A s \in Setting :
    current[s] = InForce[s] \/ (s \in Secret /\ current[s] = Blank)

Publishing == \E t \in Thread : pc[t] = "publish"

(* Whatever interleaves and fails, once no save is between its commit and
   the cache, BunnyOptionsProvider serves what is in force and nothing else:
   no settings that were refused or whose save failed, and none that a save
   has replaced, a decryption that fails left aside.  Only what a request
   caches that another's save has overtaken may be older, until the next
   save. *)
ServedInForce == current # None /\ ~Publishing /\ ~old => Readable

(* However requests overtake one another, every single setting that is served
   has been in force at some time, or is a secret that is blank: no API key
   whose save failed or was refused ever signs a URL. *)
ServedWasSaved ==
  current # None => \A s \in Setting :
    current[s] \in saved[s] \/ (s \in Secret /\ current[s] = Blank)

=============================================================================
