---------------------------- MODULE TemplateLibrary ----------------------------
(***************************************************************************)
(* The document templates of one company and one document type             *)
(* (core/services/template_service.py over its Postgres repository): which *)
(* one is the default, and which versions are published.  Blocks and       *)
(* appearance are one value, the draft; names are left out.                *)
(***************************************************************************)
EXTENDS RequestThreads, Naturals, FiniteSets, FiniteSetsExt

CONSTANTS
    Templates,  \* identities (uuid4: none is used twice)
    Contents,    \* contents a draft may have
    MaxVersion \* bound: versions of one template

\* The columns of a DocumentTemplateRow that matter here
TemplateRecords == [default : BOOLEAN, draft : Contents, published : 0..MaxVersion]

ASSUME TemplateAssumption == MaxVersion \in Nat /\ None \notin TemplateRecords

VARIABLES
    rows,      \* rows[t]: is_default, draft and published_version, or None
    versions,  \* the TemplateVersionRows
    made,      \* identities that were used
    templateTx         \* templateTx[r]: the operation of request r and what it read, or None

templateVars == <<rows, versions, made, templateTx>>

StoredTemplates == {t \in Templates : rows[t] # None}
Defaults == {t \in StoredTemplates : rows[t].default}
VersionsOf(t) == {v.number : v \in {w \in versions : w.of = t}}

TemplateInit ==
    /\ rows = [t \in Templates |-> None]
    /\ versions = {}
    /\ made = {}
    /\ templateTx = [r \in Requests |-> None]

TemplateAlone(r) == templateTx[r] = None /\ (Serial => \A o \in Requests : templateTx[o] = None)

\* clears: the defaults clear_default() found; awaits: the transactions that
\* had locked one of them before
BeginTemplate(r, op, t, seen) ==
    templateTx' = [templateTx EXCEPT ![r] =
                     [op |-> op, of |-> t, seen |-> seen, cleared |-> {}, awaits |-> {}]]

\* The end of a transaction releases its locks.
End(r) ==
    templateTx' = [o \in Requests |->
             IF o = r \/ templateTx[o] = None THEN None
             ELSE [templateTx[o] EXCEPT !.awaits = @ \ {r}]]

In(r, ops) == templateTx[r] # None /\ templateTx[r].op \in ops

-----------------------------------------------------------------------------
\* create(): the templates there are.  The first one becomes the default
\* whatever the caller asked for; only a later one clears the others.
List(r, t, isDefault) ==
    /\ TemplateAlone(r) /\ t \notin made
    /\ BeginTemplate(r,
             CASE StoredTemplates = {} -> "add_default"
               [] isDefault /\ StoredTemplates # {} -> "clear_add"
               [] OTHER -> "add",
             t, None)
    /\ made' = made \cup {t}
    /\ UNCHANGED <<rows, versions>>

\* clear_default(): one UPDATE.  It changes the defaults its snapshot shows,
\* after whoever has locked them has ended.
ClearDefault(r) ==
    /\ In(r, {"clear_add", "clear_set"})
    /\ templateTx' = [templateTx EXCEPT ![r] =
                [templateTx[r] EXCEPT
                   !.op = IF templateTx[r].op = "clear_add" THEN "add_default" ELSE "set",
                   !.cleared = Defaults,
                   !.awaits = {o \in Requests \ {r} :
                                 /\ templateTx[o] # None
                                 /\ templateTx[o].cleared \cap Defaults # {}}]]
    /\ UNCHANGED <<rows, versions, made>>

Cleared(r) ==
    [t \in Templates |->
       IF t \in StoredTemplates /\ t \in templateTx[r].cleared
       THEN [rows[t] EXCEPT !.default = FALSE] ELSE rows[t]]

\* create(): the insert and the commit
Add(r, draft) ==
    /\ In(r, {"add", "add_default"}) /\ templateTx[r].awaits = {}
    /\ rows' = [Cleared(r) EXCEPT ![templateTx[r].of] =
                  [default |-> templateTx[r].op = "add_default", draft |-> draft, published |-> 0]]
    /\ End(r)
    /\ UNCHANGED <<versions, made>>

\* set_default(): the template is there
ReadToSet(r, t) ==
    /\ TemplateAlone(r) /\ t \in StoredTemplates
    /\ BeginTemplate(r, "clear_set", t, rows[t])
    /\ UNCHANGED <<rows, versions, made>>

\* set_default(): the update and the commit.  Every column is written as it
\* was read; a row deleted meanwhile raises.
SetDefault(r) ==
    /\ In(r, {"set"}) /\ templateTx[r].awaits = {}
    /\ templateTx[r].of \in StoredTemplates
    /\ rows' = [Cleared(r) EXCEPT ![templateTx[r].of] =
                  [templateTx[r].seen EXCEPT !.default = TRUE]]
    /\ End(r)
    /\ UNCHANGED <<versions, made>>

\* Faulty variant of ReadToDelete: the default may go.
ReadToDeleteAny(r, t) ==
    /\ TemplateAlone(r) /\ t \in StoredTemplates
    /\ BeginTemplate(r, "delete", t, rows[t])
    /\ UNCHANGED <<rows, versions, made>>

\* delete(): the company's default is refused
ReadToDelete(r, t) ==
    /\ TemplateAlone(r) /\ t \in StoredTemplates /\ ~rows[t].default
    /\ BeginTemplate(r, "delete", t, rows[t])
    /\ UNCHANGED <<rows, versions, made>>

\* delete(): the row and its versions
DeleteTemplate(r) ==
    /\ In(r, {"delete"})
    /\ rows' = [rows EXCEPT ![templateTx[r].of] = None]
    /\ versions' = {v \in versions : v.of # templateTx[r].of}
    /\ End(r)
    /\ UNCHANGED made

\* update(): the template is read and its draft replaced
ReadToUpdate(r, t, draft) ==
    /\ TemplateAlone(r) /\ t \in StoredTemplates
    /\ BeginTemplate(r, "update", t, [rows[t] EXCEPT !.draft = draft])
    /\ UNCHANGED <<rows, versions, made>>

\* update(): _TEMPLATE_UPDATABLE, which is every column
Update(r) ==
    /\ In(r, {"update"}) /\ templateTx[r].of \in StoredTemplates
    /\ rows' = [rows EXCEPT ![templateTx[r].of] = templateTx[r].seen]
    /\ End(r)
    /\ UNCHANGED <<versions, made>>

\* publish(): the template is read
ReadToPublish(r, t) ==
    /\ TemplateAlone(r) /\ t \in StoredTemplates
    /\ BeginTemplate(r, "publish", t, rows[t])
    /\ UNCHANGED <<rows, versions, made>>

\* publish(): the next version after the highest, with the draft that was
\* read.  Of two that took the same number one is refused: a TemplateRollback.
Publish(r) ==
    /\ In(r, {"publish"}) /\ templateTx[r].of \in StoredTemplates
    /\ LET t == templateTx[r].of
           number == Max({0} \cup VersionsOf(t)) + 1
       IN /\ number <= MaxVersion
          /\ versions' = versions \cup
                {[of |-> t, number |-> number, content |-> templateTx[r].seen.draft]}
          /\ rows' = [rows EXCEPT ![t].published = number]
    /\ End(r)
    /\ UNCHANGED made

\* The operation raises or its connection is lost.
TemplateRollback(r) ==
    /\ templateTx[r] # None
    /\ End(r)
    /\ UNCHANGED <<rows, versions, made>>

TemplateNext ==
    \/ \E r \in Requests, t \in Templates :
          \/ \E isDefault \in BOOLEAN : List(r, t, isDefault)
          \/ ReadToSet(r, t)
          \/ ReadToDelete(r, t)
          \/ \E draft \in Contents : ReadToUpdate(r, t, draft)
          \/ ReadToPublish(r, t)
    \/ \E r \in Requests :
          \/ ClearDefault(r)
          \/ \E draft \in Contents : Add(r, draft)
          \/ SetDefault(r)
          \/ DeleteTemplate(r)
          \/ Update(r)
          \/ Publish(r)
          \/ TemplateRollback(r)

TemplateSpec == TemplateInit /\ [][TemplateNext]_templateVars

-----------------------------------------------------------------------------
\* "Exactly one default per company": as soon as there are templates, one of
\* them, and only one, answers for the next document; and, as "published
\* versions are untouched" by an edit, every template points at the version
\* it was published with last.
OneDefault ==
    /\ StoredTemplates # {} => Cardinality(Defaults) = 1
    /\ \A t \in StoredTemplates : rows[t].published = Max({0} \cup VersionsOf(t))
=============================================================================
