-------------------------- MODULE CompanySettings --------------------------
(***************************************************************************)
(* The company form (CompanySettingsPanel.tsx) in several windows, over    *)
(* one company row.  A window shows the cached record with its own edits   *)
(* laid over it and PATCHes the edited fields only; the server reads the   *)
(* row in one transaction and writes the merged row in another             *)
(* (api/routers/companies.py), so the windows meet in the row.             *)
(*                                                                         *)
(* A value is [n, raw]: n tells texts apart (0: the first stored value),   *)
(* raw is a text as typed, before trim and upper-casing.                   *)
(***************************************************************************)
EXTENDS Integers, FiniteSets

CONSTANTS
  Windows,            \* browser windows with the form open
  Fields,             \* EditableField
  SerialPatches,      \* TRUE: the server handles one PATCH at a time
  MaxEdits,           \* bound: texts typed
  MaxSettingsFaults   \* bound: requests refused or lost

ASSUME SettingsAssumption ==
  /\ SerialPatches \in BOOLEAN
  /\ {MaxEdits, MaxSettingsFaults} \subseteq Nat

VARIABLES
  company,      \* the row: field -> value
  base,         \* base[w]: the record window w has cached
  checked,      \* checked[w]: the values the cached verdicts are about
  due,          \* due[w]: the queries invalidated and not read again yet
  edits,        \* edits[w]: field -> the text typed, for the fields typed in
  patch,        \* patch[w]: the body in flight, empty for none
  existing,     \* existing[w]: the row as the handler of the PATCH read it
  savedShown,   \* savedShown[w]: the "saved" banner is up
  drafted,      \* drafted[w]: what was typed since edits was last emptied
  outdated,     \* outdated[w]: the queries behind which the row changed unseen
  edited, settingsFaults

formVars == <<edits, drafted, edited, savedShown>>
readVars == <<base, checked, due>>
settingsVars == <<company, readVars, formVars, patch, existing, outdated,
                  settingsFaults>>

Text(n) == [n |-> n, raw |-> FALSE]
CompanyRecord == [Fields -> [n : 0 .. MaxEdits, raw : {FALSE}]]
Nothing == <<>>
Queries == {"companies", "company-validation"}

\* value(field): the edit, or else the saved value
Shown(w, f) == IF f \in DOMAIN edits[w] THEN edits[w][f] ELSE base[w][f]

IsDirty(w, f) == f \in DOMAIN edits[w] /\ edits[w][f] # base[w][f]
Dirty(w) == {f \in Fields : IsDirty(w, f)}
IsPending(w) == patch[w] # Nothing

\* The fields of one record laid over another: { ...record, ...fields }
Over(fields, record) ==
  [f \in DOMAIN fields \cup DOMAIN record |->
     IF f \in DOMAIN fields THEN fields[f] ELSE record[f]]

\* trim(), and toUpperCase() for the codes
Clean(v) == [v EXCEPT !.raw = FALSE]

\* renderField: a verdict beside the field, unless the field has unsaved edits
ShowsVerdict(w, f) == ~IsDirty(w, f)

\* The form is drawn once the record is there.
SettingsInit ==
  /\ company = [f \in Fields |-> Text(0)]
  /\ base = [w \in Windows |-> company]
  /\ checked = [w \in Windows |-> company]
  /\ due = [w \in Windows |-> {}]
  /\ edits = [w \in Windows |-> Nothing]
  /\ patch = [w \in Windows |-> Nothing]
  /\ existing = [w \in Windows |-> Nothing]
  /\ savedShown = [w \in Windows |-> FALSE]
  /\ drafted = [w \in Windows |-> {}]
  /\ outdated = [w \in Windows |-> {}]
  /\ edited = 0 /\ settingsFaults = 0

-----------------------------------------------------------------------------
(* The window. *)

\* set(field): a text of any kind, also while a save is in flight
SetField(w, f) ==
  /\ edited < MaxEdits
  /\ edited' = edited + 1
  /\ LET v == [n |-> edited + 1, raw |-> TRUE]
     IN /\ edits' = [edits EXCEPT ![w] = Over([g \in {f} |-> v], @)]
        /\ drafted' = [drafted EXCEPT ![w] = @ \cup {<<f, Clean(v)>>}]
  /\ savedShown' = [savedShown EXCEPT ![w] = FALSE]
  /\ UNCHANGED <<company, readVars, patch, existing, outdated, settingsFaults>>

DismissSaved(w) ==
  /\ savedShown[w]
  /\ savedShown' = [savedShown EXCEPT ![w] = FALSE]
  /\ UNCHANGED <<company, readVars, edits, drafted, edited, patch, existing,
                 outdated, settingsFaults>>

EmptyEdits(w) ==
  /\ edits' = [edits EXCEPT ![w] = Nothing]
  /\ drafted' = [drafted EXCEPT ![w] = {}]

Discard(w) ==
  /\ Dirty(w) # {} /\ ~IsPending(w)
  /\ EmptyEdits(w)
  /\ UNCHANGED <<company, readVars, edited, savedShown, patch, existing,
                 outdated, settingsFaults>>

\* Faulty variant of HandleSubmit: every field is echoed back.
HandleSubmitWhole(w) ==
  /\ Dirty(w) # {} /\ ~IsPending(w)
  /\ patch' = [patch EXCEPT ![w] = [f \in Fields |-> Clean(Shown(w, f))]]
  /\ UNCHANGED <<company, readVars, formVars, existing, outdated,
                 settingsFaults>>

\* handleSubmit: the dirty fields, cleaned
HandleSubmit(w) ==
  /\ Dirty(w) # {} /\ ~IsPending(w)
  /\ patch' = [patch EXCEPT ![w] = [f \in Dirty(w) |-> Clean(edits[w][f])]]
  /\ UNCHANGED <<company, readVars, formVars, existing, outdated,
                 settingsFaults>>

\* An invalidated query is read again, and any query when the window is
\* focused: the record and the verdicts, each by a request of its own.
Read(w, q) ==
  /\ q \in due[w] \cup outdated[w]
  /\ base' = IF q = "companies" THEN [base EXCEPT ![w] = company] ELSE base
  /\ checked' = IF q = "companies" THEN checked
                ELSE [checked EXCEPT ![w] = company]
  /\ due' = [due EXCEPT ![w] = @ \ {q}]
  /\ outdated' = [outdated EXCEPT ![w] = @ \ {q}]
  /\ UNCHANGED <<company, formVars, patch, existing, settingsFaults>>

-----------------------------------------------------------------------------
(* The server. *)

\* update_company: service.get
PatchRead(w) ==
  /\ IsPending(w) /\ existing[w] = Nothing
  /\ SerialPatches => \A v \in Windows : existing[v] = Nothing
  /\ existing' = [existing EXCEPT ![w] = company]
  /\ UNCHANGED <<company, readVars, formVars, patch, outdated, settingsFaults>>

\* service.update: the row read, with the body's fields over it
PatchWrite(w) ==
  /\ company' = Over(patch[w], existing[w])
  /\ patch' = [patch EXCEPT ![w] = Nothing]
  /\ existing' = [existing EXCEPT ![w] = Nothing]

PatchMerged(w) == IsPending(w) /\ existing[w] # Nothing

PatchFault == settingsFaults < MaxSettingsFaults /\ settingsFaults' = settingsFaults + 1

Behind(ws) == [v \in Windows |-> IF v \in ws THEN Queries ELSE outdated[v]]

\* The answer arrives: useUpdateCompany invalidates, the form drops all edits.
PatchServed(w) ==
  /\ PatchMerged(w) /\ PatchWrite(w) /\ EmptyEdits(w)
  /\ savedShown' = [savedShown EXCEPT ![w] = TRUE]
  /\ due' = [due EXCEPT ![w] = Queries]
  /\ outdated' = Behind(Windows \ {w})
  /\ UNCHANGED <<base, checked, edited, settingsFaults>>

\* Stored, but the window sees an error: the edits stay.
PatchLost(w) ==
  /\ PatchMerged(w) /\ PatchWrite(w) /\ PatchFault
  /\ outdated' = Behind(Windows)
  /\ UNCHANGED <<readVars, formVars>>

\* A validator refuses a field: nothing is stored, the edits stay.
PatchRefused(w) ==
  /\ IsPending(w) /\ existing[w] = Nothing /\ PatchFault
  /\ patch' = [patch EXCEPT ![w] = Nothing]
  /\ UNCHANGED <<company, readVars, formVars, existing, outdated>>

SettingsNext ==
  \E w \in Windows :
    \/ \E f \in Fields : SetField(w, f)
    \/ Discard(w)
    \/ DismissSaved(w)
    \/ HandleSubmit(w)
    \/ \E q \in Queries : Read(w, q)
    \/ PatchRead(w)
    \/ PatchServed(w)
    \/ PatchLost(w)
    \/ PatchRefused(w)

SettingsSpec == SettingsInit /\ [][SettingsNext]_settingsVars

-----------------------------------------------------------------------------
(* Properties. *)

\* The state is well formed: only cleaned texts are sent and stored, a body
\* in flight is not empty and the handler has read a row only for a body.
SettingsTypeOK ==
  /\ company \in CompanyRecord
  /\ base \in [Windows -> CompanyRecord] /\ checked \in [Windows -> CompanyRecord]
  /\ {due, outdated} \subseteq [Windows -> SUBSET Queries]
  /\ \A w \in Windows :
       /\ DOMAIN edits[w] \cup DOMAIN patch[w] \subseteq Fields
       /\ \A f \in DOMAIN patch[w] : ~patch[w][f].raw
       /\ existing[w] # Nothing => IsPending(w) /\ existing[w] \in CompanyRecord
  /\ savedShown \in [Windows -> BOOLEAN]

\* Of every step, "PATCH means patch": a field of the row changes only to a text typed into
\* that field, in the window whose save is being written, since it was last
\* saved or discarded there; no save brings back what another window replaced.
OthersEditsSurvive ==
  \A f \in Fields : company'[f] # company[f] =>
    \E w \in Windows : /\ IsPending(w) /\ patch'[w] = Nothing
                       /\ <<f, company'[f]>> \in drafted[w]

\* "The verdicts belong to the saved record": once a window has read again
\* what its own saves and those of others changed, the verdict beside a field is about the
\* value the field shows.
VerdictsHonest ==
  \A w \in Windows, f \in Fields :
    /\ ShowsVerdict(w, f) /\ due[w] \cup outdated[w] = {}
    => checked[w][f] = Shown(w, f)
=============================================================================
