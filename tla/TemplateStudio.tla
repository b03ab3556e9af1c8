---- MODULE TemplateStudio ----
(***************************************************************************)
(* The template studio (TemplateStudioScreen, TemplateWorkspace and        *)
(* BlockCanvas): a list of stored templates, a gallery of presets, and an  *)
(* editor in which blocks are dragged, nudged, hidden and styled, with two *)
(* verbs, Save and Publish, that reach the server later than the button.   *)
(* A mutation succeeds for the screen only after the list was read again,  *)
(* because its hook returns the invalidation.  Block properties and        *)
(* appearance are one bit, the look.  Drafts and rows carry, as history,   *)
(* which composition they are of: the press of New they come from.         *)
(***************************************************************************)
EXTENDS Naturals, Sequences, FiniteSets, SequencesExt

CONSTANTS BlockKinds,       \* the kinds of block in their default order
          RequiredBlocks,   \* the kinds no document may omit
          Presets,          \* the kinds each preset shows beside the required
          MaxStudioMoves,   \* bound on the user's actions
          MaxStudioFaults   \* bound on lost answers

ASSUME StudioAssumption ==
    /\ BlockKinds \in Seq(STRING) /\ IsInjective(BlockKinds)
    /\ RequiredBlocks \subseteq Range(BlockKinds) /\ Presets \subseteq SUBSET Range(BlockKinds)
    /\ MaxStudioMoves \in Nat /\ MaxStudioFaults \in Nat

VARIABLES stored,      \* the template rows of the server; a row's id is its index
          published,   \* the versions cut so far
          rows,        \* the list the screen has read
          docKind,     \* the document type chosen above the list
          studio,      \* the template being edited, or NoTemplate
          editingId,   \* its row, 0 while it has none
          stage,       \* "gallery" or "editor"
          picked,      \* a preset was picked since the workspace was mounted
          drag,        \* the drag under way, or NoDrag
          requests,    \* mutations the server or the screen has not finished with
          studioMoves, studioFaults,
          abandoned    \* history: the workspace was left while a create was under way

studioVars == <<stored, published, rows, docKind, studio, editingId, stage, picked, drag,
                requests, studioMoves, studioFaults, abandoned>>

DocKinds == {"invoice", "quote"}
NoTemplate == [name |-> "none"]
NoDrag == [from |-> 0]

\* The studio's list always holds every block, in some order: hiding a block
\* keeps its properties.
Whole(blocks) ==
    /\ Len(blocks) = Len(BlockKinds)
    /\ {blocks[i].kind : i \in DOMAIN blocks} = Range(BlockKinds)

\* defaultBlocks() dressed by a preset: a preset's list starts with REQUIRED.
PresetBlocks(shows) ==
    [i \in DOMAIN BlockKinds |->
        [kind |-> BlockKinds[i], visible |-> BlockKinds[i] \in RequiredBlocks \cup shows]]

\* templateFromPreset: the name survives, the rest is the preset's.
TemplateFromPreset(shows, name, of) ==
    [name |-> name, blocks |-> PresetBlocks(shows), look |-> 0, of |-> of]

\* toStudio and fromStudio: the flat row and the nested draft.
ToStudio(row) ==
    [name |-> row.name, blocks |-> row.blocks, look |-> row.appearance, of |-> row.of]
FromStudio(template) ==
    [name |-> template.name, blocks |-> template.blocks, appearance |-> template.look,
     of |-> template.of]

StudioTypeOK ==
    /\ docKind \in DocKinds /\ stage \in {"gallery", "editor"} /\ picked \in BOOLEAN
    /\ editingId \in 0..Len(stored) /\ Len(rows) <= Len(stored)
    /\ studio = NoTemplate => drag = NoDrag
    /\ drag # NoDrag => drag.from \in DOMAIN BlockKinds /\ drag.over \in DOMAIN BlockKinds
    /\ Cardinality(requests) <= 1
    /\ \A q \in requests : q.op \in {"create", "update", "publish"}
    /\ studioMoves \in 0..MaxStudioMoves /\ studioFaults \in 0..MaxStudioFaults

\* The server starts with no template or with one made elsewhere.
House == [doc |-> "invoice", name |-> "house", blocks |-> PresetBlocks({}), appearance |-> 0,
          of |-> 0, press |-> 0]

StudioInit ==
    /\ stored \in {<<>>, <<House>>} /\ rows = stored /\ published = {}
    /\ docKind = "invoice" /\ studio = NoTemplate /\ editingId = 0
    /\ stage = "gallery" /\ picked = FALSE /\ drag = NoDrag
    /\ requests = {}
    /\ studioMoves = 0 /\ studioFaults = 0 /\ abandoned = FALSE

StudioMove == studioMoves < MaxStudioMoves /\ studioMoves' = studioMoves + 1
TemplateServer == <<stored, published, rows, requests, studioFaults>>
Editor == studio # NoTemplate /\ stage = "editor"

(***************************************************************************)
(* The list.                                                               *)
(***************************************************************************)
ChooseDocKind(d) ==
    /\ StudioMove /\ studio = NoTemplate /\ d # docKind
    /\ docKind' = d
    /\ UNCHANGED <<TemplateServer, abandoned, studio, editingId, stage, picked, drag>>

NewTemplate ==
    /\ StudioMove /\ studio = NoTemplate
    /\ \E shows \in Presets : studio' = TemplateFromPreset(shows, "default", studioMoves + 1)
    /\ editingId' = 0 /\ stage' = "gallery" /\ picked' = FALSE
    /\ UNCHANGED <<TemplateServer, abandoned, docKind, drag>>

\* A row opens straight into the editor.
OpenTemplate(id) ==
    /\ StudioMove /\ studio = NoTemplate /\ rows[id].doc = docKind
    /\ studio' = ToStudio(rows[id])
    /\ editingId' = id /\ stage' = "editor" /\ picked' = FALSE
    /\ UNCHANGED <<TemplateServer, abandoned, docKind, drag>>

(***************************************************************************)
(* The workspace.  Back leaves it from the gallery and from a template     *)
(* that has a row, and returns to the gallery from one that has none; both *)
(* unmount the canvas and with it the drag.                                *)
(***************************************************************************)
PickPreset(shows) ==
    /\ StudioMove /\ studio # NoTemplate /\ stage = "gallery"
    /\ studio' = TemplateFromPreset(shows, studio.name, studio.of) /\ picked' = TRUE
    /\ UNCHANGED <<TemplateServer, abandoned, docKind, editingId, stage, drag>>

Customise ==
    /\ StudioMove /\ studio # NoTemplate /\ stage = "gallery" /\ picked
    /\ stage' = "editor"
    /\ UNCHANGED <<TemplateServer, abandoned, docKind, studio, editingId, picked, drag>>

BackToGallery ==
    /\ StudioMove /\ Editor /\ editingId = 0
    /\ stage' = "gallery" /\ drag' = NoDrag
    /\ UNCHANGED <<TemplateServer, abandoned, docKind, studio, editingId, picked>>

Exit ==
    /\ StudioMove /\ studio # NoTemplate /\ (stage = "gallery" \/ editingId # 0)
    /\ studio' = NoTemplate /\ editingId' = 0 /\ drag' = NoDrag
    /\ abandoned' = (abandoned \/ \E q \in requests : q.op = "create")
    /\ UNCHANGED <<TemplateServer, docKind, stage, picked>>

\* PropertyPanel and AppearancePanel: the block keeps its visibility.
EditLook ==
    /\ StudioMove /\ Editor
    /\ studio' = [studio EXCEPT !.look = 1 - @]
    /\ UNCHANGED <<TemplateServer, abandoned, docKind, editingId, stage, picked, drag>>

\* The switch of a required block is disabled.
ToggleVisible(i) ==
    /\ StudioMove /\ Editor /\ studio.blocks[i].kind \notin RequiredBlocks
    /\ studio' = [studio EXCEPT !.blocks[i].visible = ~@]
    /\ UNCHANGED <<TemplateServer, abandoned, docKind, editingId, stage, picked, drag>>

\* The two splices of endDrag and nudge.
Reorder(blocks, from, to) == InsertAt(RemoveAt(blocks, from), to, blocks[from])

StartDrag(i) ==
    /\ StudioMove /\ Editor /\ drag = NoDrag
    /\ drag' = [from |-> i, over |-> i]
    /\ UNCHANGED <<TemplateServer, abandoned, docKind, studio, editingId, stage, picked>>

MoveDrag(j) ==
    /\ StudioMove /\ drag # NoDrag /\ drag.over # j
    /\ drag' = [drag EXCEPT !.over = j]
    /\ UNCHANGED <<TemplateServer, abandoned, docKind, studio, editingId, stage, picked>>

\* fromIndex is the row's place when the drag began, also when Alt and the
\* arrows have moved rows since.
EndDrag ==
    /\ StudioMove /\ drag # NoDrag
    /\ studio' = IF drag.over = drag.from THEN studio
                 ELSE [studio EXCEPT !.blocks = Reorder(@, drag.from, drag.over)]
    /\ drag' = NoDrag
    /\ UNCHANGED <<TemplateServer, abandoned, docKind, editingId, stage, picked>>

Nudge(i, target) ==
    /\ StudioMove /\ Editor /\ target \in DOMAIN studio.blocks
    /\ studio' = [studio EXCEPT !.blocks = Reorder(@, i, target)]
    /\ UNCHANGED <<TemplateServer, abandoned, docKind, editingId, stage, picked, drag>>

(***************************************************************************)
(* Save and Publish, both disabled while any of the three mutations is     *)
(* pending.                                                                *)
(***************************************************************************)
Request(op) ==
    requests' = requests \cup
        {[op |-> op, id |-> editingId, doc |-> docKind, draft |-> FromStudio(studio),
          applied |-> FALSE, press |-> studioMoves + 1]}

OnSave ==
    /\ StudioMove /\ Editor /\ requests = {}
    /\ Request(IF editingId # 0 THEN "update" ELSE "create")
    /\ UNCHANGED <<abandoned, stored, published, rows, docKind, studio, editingId, stage, picked, drag,
                   studioFaults>>

\* Without a row, Publish does nothing.
OnPublish ==
    /\ StudioMove /\ Editor /\ requests = {} /\ editingId # 0
    /\ Request("publish")
    /\ UNCHANGED <<abandoned, stored, published, rows, docKind, studio, editingId, stage, picked, drag,
                   studioFaults>>

(***************************************************************************)
(* The server (TemplateService) and its answers.                           *)
(***************************************************************************)
\* A name is unique per company and document type; create() looks for it and
\* the constraint refuses it to an update.
NameFree(q) ==
    \A id \in DOMAIN stored : id # q.id /\ stored[id].name = q.draft.name => stored[id].doc # q.doc

Accepts(q) ==
    CASE q.op = "create"  -> NameFree(q)
      [] q.op = "update"  -> NameFree([q EXCEPT !.doc = stored[q.id].doc])
      [] q.op = "publish" -> TRUE

Written(q, doc) ==
    [doc |-> doc, name |-> q.draft.name, blocks |-> q.draft.blocks,
     appearance |-> q.draft.appearance, of |-> q.draft.of,
     press |-> q.press]

Apply(q) ==
    /\ ~q.applied /\ Accepts(q)
    /\ \/ q.op = "create" /\ stored' = Append(stored, Written(q, q.doc))
       \/ q.op = "update"
          /\ stored' = [stored EXCEPT ![q.id] = Written(q, @.doc)]
       \/ q.op = "publish" /\ UNCHANGED stored
    /\ published' = IF q.op = "publish" THEN published \cup {stored[q.id].blocks} ELSE published
    /\ requests' = (requests \ {q}) \cup
                   {[q EXCEPT !.applied = TRUE,
                              !.id = IF q.op = "create" THEN Len(stored) + 1 ELSE @]}
    /\ UNCHANGED <<abandoned, rows, docKind, studio, editingId, stage, picked, drag,
                   studioMoves, studioFaults>>

\* Faulty variant of Answered: every save gives the screen its row.
AnsweredAnySave(q) ==
    /\ q.applied
    /\ rows' = stored /\ requests' = requests \ {q}
    /\ editingId' = q.id
    /\ UNCHANGED <<abandoned, stored, published, docKind, studio, stage, picked, drag,
                   studioMoves, studioFaults>>

\* The list is read again, the mutation settles, and the callback of a create
\* gives the screen its row, whatever the screen is editing by then.
Answered(q) ==
    /\ q.applied
    /\ rows' = stored /\ requests' = requests \ {q}
    /\ editingId' = IF q.op = "create" THEN q.id ELSE editingId
    /\ UNCHANGED <<abandoned, stored, published, docKind, studio, stage, picked, drag,
                   studioMoves, studioFaults>>

\* Refused, or applied with the answer lost: the screen says nothing.
Unanswered(q) ==
    /\ \/ ~q.applied /\ ~Accepts(q) /\ UNCHANGED studioFaults
       \/ studioFaults < MaxStudioFaults /\ studioFaults' = studioFaults + 1
    /\ requests' = requests \ {q}
    /\ UNCHANGED <<abandoned, stored, published, rows, docKind, studio, editingId, stage, picked, drag,
                   studioMoves>>

Arrange ==
    \E i \in DOMAIN BlockKinds :
        \/ ToggleVisible(i) \/ StartDrag(i) \/ MoveDrag(i)
        \/ \E target \in {i - 1, i + 1} : Nudge(i, target)

StudioNext ==
    \/ \E d \in DocKinds : ChooseDocKind(d)
    \/ NewTemplate \/ \E id \in DOMAIN rows : OpenTemplate(id)
    \/ \E shows \in Presets : PickPreset(shows)
    \/ Customise \/ BackToGallery \/ Exit \/ EditLook \/ Arrange \/ EndDrag
    \/ OnSave \/ OnPublish
    \/ \E q \in requests : Apply(q) \/ Answered(q) \/ Unanswered(q)

StudioSpec == StudioInit /\ [][StudioNext]_studioVars

(***************************************************************************)
(* Properties.                                                             *)
(***************************************************************************)
RequiredShownIn(blocks) ==
    /\ Whole(blocks)
    /\ \A i \in DOMAIN blocks : blocks[i].kind \in RequiredBlocks => blocks[i].visible

\* "Required blocks cannot be hidden" (TemplateWorkspace.tsx): whatever is
\* dragged, nudged in mid-drag, toggled, restyled or reset to a preset, the
\* template on the screen, every stored row and every published version hold
\* each block once and show the required ones.
RequiredShown ==
    /\ studio # NoTemplate => RequiredShownIn(studio.blocks)
    /\ \A id \in DOMAIN stored : RequiredShownIn(stored[id].blocks)
    /\ \A blocks \in published : RequiredShownIn(blocks)

\* What the workspace stands for is what it writes: a save or a publication is
\* of the row the composition on the screen was made as or opened from, and the
\* list shows the compositions where they are stored, through presets picked
\* again, lost and refused answers, and a workspace left while an update is
\* under way.  A workspace left while a create is under way is excepted: the
\* answer sets the row of whatever is open by then (TemplateStudioScreen.tsx).
OwnRow ==
    ~abandoned =>
        /\ studio # NoTemplate /\ editingId # 0 => studio.of = stored[editingId].of
        /\ \A q \in requests :
             q.op # "create" \/ q.applied => q.draft.of = stored[q.id].of
        /\ \A id \in DOMAIN rows : rows[id].of = stored[id].of

\* Of every step: a row is never overwritten by an older save, also when the workspace is left
\* and the row opened again while a save is under way (`saving` belongs to the
\* screen and not to the workspace).
SavesInOrder ==
    \A id \in DOMAIN stored : stored'[id].press >= stored[id].press
====
