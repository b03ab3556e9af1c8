--------------------------- MODULE DocumentRegister ---------------------------
(***************************************************************************)
(* DocumentService: an issued invoice's PDF is rendered, written beside    *)
(* its place, renamed into it, and registered with its hash.  It happens   *)
(* after the invoice is committed and outside its transaction, so it may   *)
(* stop anywhere; POST /documents/rebuild is the repair.                   *)
(*                                                                         *)
(* Both entry points are passes over some invoices.  archive_invoice() is  *)
(* a pass over one invoice that has no row; rebuild() is a pass over every *)
(* issued invoice with the rows it listed at the start, and an invoice     *)
(* that fails does not stop it.                                            *)
(***************************************************************************)
EXTENDS Naturals

CONSTANTS
    Invoices,     \* invoice ids of one organization
    Paths,        \* invoices/<year>/<reference>.pdf
    PathOf,       \* PathOf[i]: the path invoice_path() gives invoice i
    Requests,     \* worker threads
    Serial,       \* TRUE: one pass at a time
    MaxEdits,     \* how often a template or the company's details change
    MaxLosses,    \* how often a person deletes a file
    MaxFaults,    \* how often a step fails or the process dies
    None,         \* no file, no row
    Empty,        \* a file that is open for writing
    Mixed         \* the bytes of two documents in one file

ASSUME RegisterAssumption ==
    /\ PathOf \in [Invoices -> Paths]
    /\ Serial \in BOOLEAN
    /\ MaxEdits \in Nat /\ MaxLosses \in Nat /\ MaxFaults \in Nat
    /\ None \notin Invoices \cup (Invoices \X Nat)
    /\ {Empty, Mixed} \cap ({None} \cup (Invoices \X Nat)) = {}

VARIABLES
    issued,     \* the invoices whose status is not draft
    template,   \* version of what a rendering is made from, other than the invoice
    file,       \* file[p]: what is at path p
    staging,    \* staging[p]: the .part file beside it
    register,   \* the documents table: register[i] is the hash recorded for i
    tx,         \* tx[r]: the pass request r is in
    losses, faults

vars == <<issued, template, file, staging, register, tx, losses, faults>>

disk == <<file, staging>>

outside == <<issued, template, losses, faults>>

-----------------------------------------------------------------------------
\* What render_invoice_pdf() returns.  A hash stands for the bytes it is the hash of.
Bytes == Invoices \X (0..MaxEdits)

Torn == {Empty, Mixed}

(***************************************************************************)
(* A pass:                                                                 *)
(*   issued    the invoice is committed, archive_invoice() comes next      *)
(*   listed    rebuild() has the issued invoices, the rows come next       *)
(*   pass      between two invoices                                        *)
(*   rendered  has the bytes                                               *)
(*   opened    has truncated or created the .part file                     *)
(*   staged    has written it                                              *)
(*   replaced  has renamed it                                              *)
(* An open file goes where a rename takes it: "at" says where it is now.   *)
(***************************************************************************)
Busy == {"rendered", "opened", "staged", "replaced"}

Tx == [phase : {"idle", "issued", "listed", "pass"} \cup Busy,
       todo : SUBSET Invoices,                    \* invoices the pass has not come to
       docs : [Invoices -> Bytes \cup {None}],    \* the rows the pass read at its start
       inv : Invoices \cup {None},
       pdf : Bytes \cup {None},
       at : {"staging", "target", "unlinked"}]

NoDocs == [i \in Invoices |-> None]

At(phase, todo, docs, i, pdf) ==
    [phase |-> phase, todo |-> todo, docs |-> docs, inv |-> i, pdf |-> pdf, at |-> "staging"]

Idle == At("idle", {}, NoDocs, None, None)

Pass(todo, docs) == At("pass", todo, docs, None, None)

\* The next phase of the document in hand.
Onward(r, phase) == [tx EXCEPT ![r] = At(phase, @.todo, @.docs, @.inv, @.pdf)]

\* The document in hand is done with, well or badly.
Done(r) == [tx EXCEPT ![r] = Pass(@.todo, @.docs)]

Path(r) == PathOf[tx[r].inv]

Init ==
    /\ issued = {} /\ template = 0 /\ losses = 0 /\ faults = 0
    /\ file = [p \in Paths |-> None]
    /\ staging = [p \in Paths |-> None]
    /\ register = NoDocs
    /\ tx = [r \in Requests |-> Idle]

MayStart(r) ==
    /\ tx[r].phase = "idle"
    /\ Serial => \A o \in Requests : tx[o].phase = "idle"

-----------------------------------------------------------------------------
\* POST /invoices/{id}/issue: the invoice is committed first.
Issue(r, i) ==
    /\ MayStart(r)
    /\ i \notin issued
    /\ issued' = issued \cup {i}
    /\ tx' = [tx EXCEPT ![r] = At("issued", {i}, NoDocs, None, None)]
    /\ UNCHANGED <<template, disk, register, losses, faults>>

\* archive_invoice() up to its checks: an invoice with a row is left alone.
ArchiveInvoice(r) ==
    /\ tx[r].phase = "issued"
    /\ tx' = [tx EXCEPT ![r] = IF \E i \in @.todo : register[i] # None
                               THEN Idle ELSE Pass(@.todo, NoDocs)]
    /\ UNCHANGED <<outside, disk, register>>

\* rebuild() reads the issued invoices ...
Rebuild(r) ==
    /\ MayStart(r)
    /\ tx' = [tx EXCEPT ![r] = At("listed", issued, NoDocs, None, None)]
    /\ UNCHANGED <<outside, disk, register>>

\* ... and, with a second statement, the rows.
ListRows(r) ==
    /\ tx[r].phase = "listed"
    /\ tx' = [tx EXCEPT ![r] = Pass(@.todo, register)]
    /\ UNCHANGED <<outside, disk, register>>

\* Faulty variant of Filed: rebuild() trusts the row.
FiledByRow(r, i) == tx[r].docs[i] # None

\* Faulty variant of Filed: the exists() check is missing.
FiledNever(r, i) == FALSE

\* The row as it was read, the file as it is now.
Filed(r, i) == tx[r].docs[i] # None /\ file[PathOf[i]] # None

Skip(r, i) ==
    /\ tx[r].phase = "pass" /\ i \in tx[r].todo
    /\ Filed(r, i)
    /\ tx' = [tx EXCEPT ![r] = Pass(@.todo \ {i}, @.docs)]
    /\ UNCHANGED <<outside, disk, register>>

Render(r, i) ==
    /\ tx[r].phase = "pass" /\ i \in tx[r].todo
    /\ ~Filed(r, i)
    /\ tx' = [tx EXCEPT ![r] = At("rendered", @.todo \ {i}, @.docs, i, <<i, template>>)]
    /\ UNCHANGED <<outside, disk, register>>

\* Faulty variant of Open: the target itself is opened.
OpenTarget(r) ==
    /\ tx[r].phase = "rendered"
    /\ file' = [file EXCEPT ![Path(r)] = Empty]
    /\ staging' = [staging EXCEPT ![Path(r)] = Empty]
    /\ tx' = Onward(r, "opened")
    /\ UNCHANGED <<outside, register>>

\* write_bytes() opens the .part file, whoever created it, and truncates it.
Open(r) ==
    /\ tx[r].phase = "rendered"
    /\ staging' = [staging EXCEPT ![Path(r)] = Empty]
    /\ tx' = Onward(r, "opened")
    /\ UNCHANGED <<outside, file, register>>

\* Writing over another document leaves its tail behind if it was the longer one.
Over(old, pdf) == IF old \in {Empty, pdf} THEN {pdf} ELSE {pdf, Mixed}

\* write_bytes() writes and closes the file it opened, wherever that is now.
WriteBytes(r) ==
    /\ tx[r].phase = "opened"
    /\ \/ /\ tx[r].at = "staging"
          /\ \E c \in Over(staging[Path(r)], tx[r].pdf) : staging' = [staging EXCEPT ![Path(r)] = c]
          /\ UNCHANGED file
       \/ /\ tx[r].at = "target"
          /\ \E c \in Over(file[Path(r)], tx[r].pdf) : file' = [file EXCEPT ![Path(r)] = c]
          /\ UNCHANGED staging
       \/ tx[r].at = "unlinked" /\ UNCHANGED disk
    /\ tx' = Onward(r, "staged")
    /\ UNCHANGED <<outside, register>>

\* Files that are open at path p when what is staged there is renamed.
Moved(t, p) ==
    IF t.phase = "opened" /\ PathOf[t.inv] = p
    THEN [t EXCEPT !.at = IF @ = "staging" THEN "target" ELSE "unlinked"]
    ELSE t

\* os.replace().
Replace(r) ==
    /\ tx[r].phase = "staged"
    /\ staging[Path(r)] # None
    /\ file' = [file EXCEPT ![Path(r)] = staging[Path(r)]]
    /\ staging' = [staging EXCEPT ![Path(r)] = None]
    /\ tx' = [o \in Requests |-> IF o = r THEN Onward(r, "replaced")[r] ELSE Moved(tx[o], Path(r))]
    /\ UNCHANGED <<outside, register>>

\* Another request has renamed the .part file already: ArchiveError.
ReplaceRefused(r) ==
    /\ tx[r].phase = "staged"
    /\ staging[Path(r)] = None
    /\ tx' = Done(r)
    /\ UNCHANGED <<outside, disk, register>>

\* uq_documents_organization_id_path.
Taken(p) == \E j \in Invoices : PathOf[j] = p /\ register[j] # None

\* Faulty variant of Register: a row that was there keeps its hash.
RegisterOnce(r) ==
    /\ tx[r].phase = "replaced"
    /\ tx[r].docs[tx[r].inv] = None => ~Taken(Path(r))
    /\ register' = IF tx[r].docs[tx[r].inv] = None
                   THEN [register EXCEPT ![tx[r].inv] = tx[r].pdf] ELSE register
    /\ tx' = Done(r)
    /\ UNCHANGED <<outside, disk>>

\* _register(): the row the pass read is updated, otherwise one is added.
Register(r) ==
    /\ tx[r].phase = "replaced"
    /\ tx[r].docs[tx[r].inv] = None => ~Taken(Path(r))
    /\ register' = [register EXCEPT ![tx[r].inv] = tx[r].pdf]
    /\ tx' = Done(r)
    /\ UNCHANGED <<outside, disk>>

RegisterRefused(r) ==
    /\ tx[r].phase = "replaced"
    /\ tx[r].docs[tx[r].inv] = None /\ Taken(Path(r))
    /\ tx' = Done(r)
    /\ UNCHANGED <<outside, disk, register>>

Finish(r) ==
    /\ tx[r].phase = "pass" /\ tx[r].todo = {}
    /\ tx' = [tx EXCEPT ![r] = Idle]
    /\ UNCHANGED <<outside, disk, register>>

-----------------------------------------------------------------------------
\* No engine, no template, no space, no permission, no database: the document is given up.
Fail(r) ==
    /\ faults < MaxFaults /\ faults' = faults + 1
    /\ \/ tx[r].phase \in Busy /\ tx' = Done(r)
       \/ /\ tx[r].phase = "pass"
          /\ \E i \in tx[r].todo : tx' = [tx EXCEPT ![r] = Pass(@.todo \ {i}, @.docs)]
    /\ UNCHANGED <<issued, template, losses, disk, register>>

\* The process dies and is started again.
Crash ==
    /\ faults < MaxFaults /\ faults' = faults + 1
    /\ tx' = [r \in Requests |-> Idle]
    /\ UNCHANGED <<issued, template, losses, disk, register>>

\* A template, the company's details or the plan change.
Edit ==
    /\ template < MaxEdits /\ template' = template + 1
    /\ UNCHANGED <<issued, losses, faults, disk, register, tx>>

\* A person tidies the folder.
Lose(p) ==
    /\ losses < MaxLosses /\ losses' = losses + 1
    /\ file[p] # None
    /\ file' = [file EXCEPT ![p] = None]
    /\ tx' = [r \in Requests |->
                IF tx[r].phase = "opened" /\ PathOf[tx[r].inv] = p /\ tx[r].at = "target"
                THEN [tx[r] EXCEPT !.at = "unlinked"] ELSE tx[r]]
    /\ UNCHANGED <<issued, template, faults, staging, register>>

Step(r) ==
    \/ ArchiveInvoice(r) \/ ListRows(r)
    \/ Open(r) \/ WriteBytes(r) \/ Replace(r) \/ ReplaceRefused(r) \/ Register(r)
    \/ RegisterRefused(r) \/ Finish(r)
    \/ \E i \in Invoices : Skip(r, i) \/ Render(r, i)

Next ==
    \/ \E r \in Requests : Step(r) \/ Rebuild(r) \/ Fail(r) \/ \E i \in Invoices : Issue(r, i)
    \/ Crash \/ Edit \/ \E p \in Paths : Lose(p)

Spec == Init /\ [][Next]_vars

\* A worker thread runs on, and the repair is run again and again.
FairSpec ==
    /\ Spec
    /\ \A r \in Requests : WF_vars(Step(r))
    /\ WF_vars(\E r \in Requests : Rebuild(r))

-----------------------------------------------------------------------------
\* State shape; a request that holds a document knows which and has its bytes.
TypeOK ==
    /\ issued \subseteq Invoices
    /\ template \in 0..MaxEdits /\ losses \in 0..MaxLosses /\ faults \in 0..MaxFaults
    /\ file \in [Paths -> Bytes \cup Torn \cup {None}]
    /\ staging \in [Paths -> Bytes \cup Torn \cup {None}]
    /\ register \in [Invoices -> Bytes \cup {None}]
    /\ tx \in [Requests -> Tx]
    /\ \A r \in Requests : tx[r].phase \in Busy => tx[r].inv \in Invoices /\ tx[r].pdf \in Bytes

\* FilesystemDocumentArchive.write(): "a crash mid-write leaves the previous file, or none,
\* never half a PDF".
WholeFiles == \A p \in Paths : file[p] \notin Torn

\* DocumentService, rule 3: "A document is rendered once".  A registered document that is in
\* its place is never written over, by whatever pass and for whatever invoice.
RenderedOnce ==
    [][\A i \in Invoices :
          register[i] # None /\ file[PathOf[i]] # None =>
              file'[PathOf[i]] \in {file[PathOf[i]], None}]_file

\* POST /documents/rebuild: "the register stays honest".  Unless a pass has the document in
\* hand, a registered file hashes to what its row says.
RegisterHonest ==
    \A i \in Invoices :
        /\ register[i] # None /\ file[PathOf[i]] # None
        /\ \A r \in Requests : tx[r].phase \in Busy => tx[r].inv # i
        => register[i] = file[PathOf[i]]

\* The same as long as nothing fails: through any templates edited and files deleted, every
\* rebuild records what it rendered (document_service.py: "The row is updated").
HonestUntilFault == faults = 0 => RegisterHonest

\* DocumentService, rule 2: every failure is "recoverable through `rebuild`".  Once faults and
\* deletions stop, rebuilding gives every issued invoice its file and its row.
Repaired == <>[](\A i \in issued : register[i] # None /\ file[PathOf[i]] # None)
=============================================================================
