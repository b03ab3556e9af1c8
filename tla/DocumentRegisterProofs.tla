------------------------ MODULE DocumentRegisterProofs ------------------------
(***************************************************************************)
(* Proofs about DocumentRegister for any number of invoices, paths and     *)
(* requests, and any number of edits, deletions and faults.                *)
(***************************************************************************)
EXTENDS DocumentRegister, TLAPS

\* One pass at a time: its .part file is its own.
OnePass ==
    \A r, o \in Requests : tx[r].phase # "idle" /\ tx[o].phase # "idle" => r = o

Staged ==
    \A r \in Requests :
        /\ tx[r].phase = "opened" => tx[r].at = "staging" /\ staging[Path(r)] = Empty
        /\ tx[r].phase = "staged" => staging[Path(r)] = tx[r].pdf

\* What a pass read of the register still stands for the documents it has yet to deal with.
RowsCurrent ==
    \A r \in Requests :
        /\ tx[r].phase \in {"pass"} \cup Busy =>
              \A i \in tx[r].todo : tx[r].docs[i] = register[i]
        /\ tx[r].phase \in Busy => tx[r].inv \notin tx[r].todo
        /\ tx[r].phase \in {"rendered", "opened", "staged"} =>
              register[tx[r].inv] = None \/ file[Path(r)] = None

PassInv == OnePass /\ Staged /\ RowsCurrent

-----------------------------------------------------------------------------
LEMMA NoDocsType == NoDocs \in [Invoices -> Bytes \cup {None}]
  BY DEF NoDocs

\* A record built by At() has the type of its parts.
LEMMA AtType ==
    ASSUME NEW phase \in {"idle", "issued", "listed", "pass"} \cup Busy, NEW todo \in SUBSET Invoices,
           NEW docs \in [Invoices -> Bytes \cup {None}], NEW i \in Invoices \cup {None},
           NEW pdf \in Bytes \cup {None}
    PROVE  /\ At(phase, todo, docs, i, pdf) \in Tx
           /\ At(phase, todo, docs, i, pdf).phase = phase
           /\ At(phase, todo, docs, i, pdf).todo = todo
           /\ At(phase, todo, docs, i, pdf).docs = docs
           /\ At(phase, todo, docs, i, pdf).inv = i
           /\ At(phase, todo, docs, i, pdf).pdf = pdf
           /\ At(phase, todo, docs, i, pdf).at = "staging"
  BY DEF At, Tx

LEMMA IdleType == Idle \in Tx /\ Idle.phase = "idle"
  BY NoDocsType, AtType DEF Idle

LEMMA PassType ==
    ASSUME NEW todo \in SUBSET Invoices, NEW docs \in [Invoices -> Bytes \cup {None}]
    PROVE  /\ Pass(todo, docs) \in Tx
           /\ Pass(todo, docs).phase = "pass"
           /\ Pass(todo, docs).todo = todo
           /\ Pass(todo, docs).docs = docs
  BY AtType DEF Pass

\* What a request is doing, field by field.
LEMMA TxFields ==
    ASSUME TypeOK, NEW r \in Requests
    PROVE  /\ tx[r].phase \in {"idle", "issued", "listed", "pass"} \cup Busy
           /\ tx[r].todo \in SUBSET Invoices /\ tx[r].docs \in [Invoices -> Bytes \cup {None}]
           /\ tx[r].inv \in Invoices \cup {None} /\ tx[r].pdf \in Bytes \cup {None}
           /\ tx[r].at \in {"staging", "target", "unlinked"}
           /\ tx[r].phase \in Busy => tx[r].inv \in Invoices /\ tx[r].pdf \in Bytes /\ Path(r) \in Paths
  BY RegisterAssumption DEF TypeOK, Tx, Path

\* A request's entry changes and the others do not.
LEMMA EntryType ==
    ASSUME TypeOK, NEW r \in Requests, NEW e \in Tx, tx' = [tx EXCEPT ![r] = e],
           e.phase \in Busy => e.inv \in Invoices /\ e.pdf \in Bytes
    PROVE  /\ tx' \in [Requests -> Tx] /\ tx'[r] = e
           /\ \A o \in Requests \ {r} : tx'[o] = tx[o]
           /\ \A o \in Requests : tx'[o].phase \in Busy => tx'[o].inv \in Invoices /\ tx'[o].pdf \in Bytes
  <1>1. tx' \in [Requests -> Tx] /\ tx'[r] = e /\ \A o \in Requests \ {r} : tx'[o] = tx[o]
    BY DEF TypeOK
  <1> QED
    BY <1>1 DEF TypeOK

\* The three ways a request moves on.
LEMMA DoneType ==
    ASSUME TypeOK, NEW r \in Requests, tx' = Done(r)
    PROVE  /\ tx' \in [Requests -> Tx] /\ tx'[r] = Pass(tx[r].todo, tx[r].docs)
           /\ \A o \in Requests \ {r} : tx'[o] = tx[o]
           /\ \A o \in Requests : tx'[o].phase \in Busy => tx'[o].inv \in Invoices /\ tx'[o].pdf \in Bytes
  <1>1. Pass(tx[r].todo, tx[r].docs) \in Tx /\ Pass(tx[r].todo, tx[r].docs).phase = "pass"
    BY TxFields, PassType
  <1>2. tx' = [tx EXCEPT ![r] = Pass(tx[r].todo, tx[r].docs)]
    BY DEF Done
  <1> QED
    BY <1>1, <1>2, EntryType DEF Busy

LEMMA OnwardType ==
    ASSUME TypeOK, NEW r \in Requests, NEW phase \in Busy, tx[r].phase \in Busy
    PROVE  LET e == Onward(r, phase)[r]
           IN  /\ e \in Tx /\ e.phase = phase /\ e.todo = tx[r].todo /\ e.docs = tx[r].docs
               /\ e.inv = tx[r].inv /\ e.pdf = tx[r].pdf /\ e.at = "staging"
               /\ Onward(r, phase) = [tx EXCEPT ![r] = e]
  <1> DEFINE e == At(phase, tx[r].todo, tx[r].docs, tx[r].inv, tx[r].pdf)
  <1>1. /\ e \in Tx /\ e.phase = phase /\ e.todo = tx[r].todo /\ e.docs = tx[r].docs
        /\ e.inv = tx[r].inv /\ e.pdf = tx[r].pdf /\ e.at = "staging"
    BY TxFields DEF At, Tx
  <1>2. Onward(r, phase) = [tx EXCEPT ![r] = e]
    BY DEF Onward
  <1> HIDE DEF e
  <1>3. Onward(r, phase)[r] = e
    BY <1>2 DEF TypeOK
  <1> QED
    BY <1>1, <1>2, <1>3

\* A file that a rename or a deletion takes away changes nothing else of its request.
LEMMA MovedType ==
    ASSUME TypeOK, NEW o \in Requests, NEW p
    PROVE  LET e == Moved(tx[o], p)
           IN  /\ e \in Tx /\ e.phase = tx[o].phase /\ e.todo = tx[o].todo /\ e.docs = tx[o].docs
               /\ e.inv = tx[o].inv /\ e.pdf = tx[o].pdf
               /\ tx[o].phase # "opened" => e = tx[o]
  <1>1. tx[o] \in Tx
    BY DEF TypeOK
  <1> QED
    BY <1>1 DEF Moved, Tx

\* After Replace(r), r has moved on and the others' files have moved.
LEMMA ReplaceTx ==
    ASSUME TypeOK, NEW r \in Requests, Replace(r)
    PROVE  /\ tx' \in [Requests -> Tx]
           /\ tx'[r].phase = "replaced" /\ tx'[r].todo = tx[r].todo /\ tx'[r].docs = tx[r].docs
           /\ tx'[r].inv = tx[r].inv /\ tx'[r].pdf = tx[r].pdf
           /\ \A o \in Requests \ {r} : tx'[o] = Moved(tx[o], Path(r))
  <1> DEFINE e == Onward(r, "replaced")[r]
  <1>1. tx[r].phase \in Busy /\ "replaced" \in Busy
    BY DEF Replace, Busy
  <1>2. /\ e \in Tx /\ e.phase = "replaced" /\ e.todo = tx[r].todo /\ e.docs = tx[r].docs
        /\ e.inv = tx[r].inv /\ e.pdf = tx[r].pdf
    BY <1>1, OnwardType
  <1>3. \A o \in Requests : Moved(tx[o], Path(r)) \in Tx
    BY MovedType
  <1> HIDE DEF e
  <1>4. tx' = [o \in Requests |-> IF o = r THEN e ELSE Moved(tx[o], Path(r))]
    BY DEF Replace, e
  <1> QED
    BY <1>2, <1>3, <1>4

\* Every step of a pass keeps the types.
LEMMA StepType ==
    ASSUME TypeOK, NEW r \in Requests, Step(r)
    PROVE  TypeOK'
  <1>1. CASE ArchiveInvoice(r)
    <2> DEFINE e == IF \E i \in tx[r].todo : register[i] # None THEN Idle ELSE Pass(tx[r].todo, NoDocs)
    <2>1. e \in Tx /\ e.phase \in {"idle", "pass"}
      BY TxFields, IdleType, PassType, NoDocsType
    <2>2. tx' = [tx EXCEPT ![r] = e] /\ UNCHANGED <<issued, template, losses, faults, file, staging, register>>
      BY <1>1 DEF ArchiveInvoice, outside, disk
    <2> HIDE DEF e
    <2> QED
      BY <2>1, <2>2, EntryType DEF TypeOK, Busy
  <1>2. CASE Open(r)
    <2>1. tx[r].phase \in Busy /\ "opened" \in Busy
      BY <1>2 DEF Open, Busy
    <2>2. /\ tx' \in [Requests -> Tx]
          /\ \A o \in Requests : tx'[o].phase \in Busy => tx'[o].inv \in Invoices /\ tx'[o].pdf \in Bytes
      BY <1>2, <2>1, OnwardType, EntryType, TxFields DEF Open
    <2>3. staging' \in [Paths -> Bytes \cup Torn \cup {None}]
      BY <1>2 DEF Open, TypeOK, Torn
    <2> QED
      BY <1>2, <2>2, <2>3 DEF Open, outside, TypeOK
  <1>3. CASE WriteBytes(r)
    <2>1. tx[r].phase \in Busy /\ "staged" \in Busy
      BY <1>3 DEF WriteBytes, Busy
    <2>2. /\ tx' \in [Requests -> Tx]
          /\ \A o \in Requests : tx'[o].phase \in Busy => tx'[o].inv \in Invoices /\ tx'[o].pdf \in Bytes
      BY <1>3, <2>1, OnwardType, EntryType, TxFields DEF WriteBytes
    <2>3. \A c : Over(c, tx[r].pdf) \subseteq Bytes \cup Torn \cup {None}
      BY <2>1, TxFields DEF Over, Torn
    <2>4. file' \in [Paths -> Bytes \cup Torn \cup {None}] /\ staging' \in [Paths -> Bytes \cup Torn \cup {None}]
      BY <1>3, <2>3 DEF WriteBytes, TypeOK, disk
    <2> QED
      BY <1>3, <2>2, <2>4 DEF WriteBytes, outside, TypeOK
  <1>4. CASE Replace(r)
    <2>1. tx[r].phase \in Busy
      BY <1>4 DEF Replace, Busy
    <2>2. Path(r) \in Paths /\ tx[r].inv \in Invoices /\ tx[r].pdf \in Bytes
      BY <2>1, TxFields
    <2>3. file' \in [Paths -> Bytes \cup Torn \cup {None}] /\ staging' \in [Paths -> Bytes \cup Torn \cup {None}]
      BY <1>4, <2>2 DEF Replace, TypeOK
    <2>4. \A o \in Requests : tx'[o].phase \in Busy => tx'[o].inv \in Invoices /\ tx'[o].pdf \in Bytes
      BY <1>4, <2>2, ReplaceTx, MovedType DEF TypeOK
    <2> QED
      BY <1>4, <2>3, <2>4, ReplaceTx DEF Replace, outside, TypeOK
  <1>5. CASE ReplaceRefused(r) \/ RegisterRefused(r)
    <2>1. tx' = Done(r) /\ UNCHANGED <<issued, template, losses, faults, file, staging, register>>
      BY <1>5 DEF ReplaceRefused, RegisterRefused, outside, disk
    <2> QED
      BY <2>1, DoneType DEF TypeOK
  <1>6. CASE Register(r)
    <2>1. tx[r].phase \in Busy /\ tx' = Done(r) /\ UNCHANGED <<issued, template, losses, faults, file, staging>>
      BY <1>6 DEF Register, Busy, outside, disk
    <2>2. register' \in [Invoices -> Bytes \cup {None}]
      BY <1>6, <2>1, TxFields DEF Register, TypeOK
    <2> QED
      BY <2>1, <2>2, DoneType DEF TypeOK
  <1>7. CASE Finish(r)
    <2>1. tx' = [tx EXCEPT ![r] = Idle] /\ UNCHANGED <<issued, template, losses, faults, file, staging, register>>
      BY <1>7 DEF Finish, outside, disk
    <2> QED
      BY <2>1, IdleType, EntryType DEF TypeOK, Busy
  <1>8. ASSUME NEW i \in Invoices, Skip(r, i) PROVE TypeOK'
    <2> DEFINE e == Pass(tx[r].todo \ {i}, tx[r].docs)
    <2>1. e \in Tx /\ e.phase = "pass"
      BY TxFields, PassType
    <2>2. tx' = [tx EXCEPT ![r] = e] /\ UNCHANGED <<issued, template, losses, faults, file, staging, register>>
      BY <1>8 DEF Skip, outside, disk
    <2> HIDE DEF e
    <2> QED
      BY <2>1, <2>2, EntryType DEF TypeOK, Busy
  <1>9. ASSUME NEW i \in Invoices, Render(r, i) PROVE TypeOK'
    <2> DEFINE e == At("rendered", tx[r].todo \ {i}, tx[r].docs, i, <<i, template>>)
    <2>1. <<i, template>> \in Bytes /\ "rendered" \in Busy
      BY DEF TypeOK, Bytes, Busy
    <2>2. e \in Tx /\ e.inv = i /\ e.pdf = <<i, template>>
      BY <2>1, TxFields DEF At, Tx
    <2>3. tx' = [tx EXCEPT ![r] = e] /\ UNCHANGED <<issued, template, losses, faults, file, staging, register>>
      BY <1>9 DEF Render, outside, disk
    <2> HIDE DEF e
    <2> QED
      BY <2>1, <2>2, <2>3, EntryType DEF TypeOK
  <1>10. CASE ListRows(r)
    <2> DEFINE e == Pass(tx[r].todo, register)
    <2>1. e \in Tx /\ e.phase = "pass"
      BY TxFields, PassType DEF TypeOK
    <2>2. tx' = [tx EXCEPT ![r] = e] /\ UNCHANGED <<issued, template, losses, faults, file, staging, register>>
      BY <1>10 DEF ListRows, outside, disk
    <2> HIDE DEF e
    <2> QED
      BY <2>1, <2>2, EntryType DEF TypeOK, Busy
  <1> QED
    BY <1>1, <1>2, <1>3, <1>4, <1>5, <1>6, <1>7, <1>8, <1>9, <1>10 DEF Step

\* Every action keeps the types.
LEMMA TypeStep == TypeOK /\ [Next]_vars => TypeOK'
  <1> SUFFICES ASSUME TypeOK, [Next]_vars PROVE TypeOK'
    OBVIOUS
  <1>1. ASSUME NEW r \in Requests, Rebuild(r) PROVE TypeOK'
    <2> DEFINE e == At("listed", issued, NoDocs, None, None)
    <2>1. e \in Tx /\ e.phase = "listed"
      BY NoDocsType DEF At, Tx, TypeOK
    <2>2. tx' = [tx EXCEPT ![r] = e] /\ UNCHANGED <<issued, template, losses, faults, file, staging, register>>
      BY <1>1 DEF Rebuild, outside, disk
    <2> HIDE DEF e
    <2> QED
      BY <2>1, <2>2, EntryType DEF TypeOK, Busy
  <1>2. ASSUME NEW r \in Requests, NEW i \in Invoices, Issue(r, i) PROVE TypeOK'
    <2> DEFINE e == At("issued", {i}, NoDocs, None, None)
    <2>1. e \in Tx /\ e.phase = "issued"
      BY NoDocsType DEF At, Tx
    <2>2. /\ tx' = [tx EXCEPT ![r] = e] /\ issued' = issued \cup {i}
          /\ UNCHANGED <<template, losses, faults, file, staging, register>>
      BY <1>2 DEF Issue, disk
    <2> HIDE DEF e
    <2> QED
      BY <2>1, <2>2, EntryType DEF TypeOK, Busy
  <1>3. ASSUME NEW r \in Requests, Fail(r) PROVE TypeOK'
    <2>1. faults' \in 0..MaxFaults /\ UNCHANGED <<issued, template, losses, file, staging, register>>
      BY <1>3, RegisterAssumption DEF Fail, disk, TypeOK
    <2>2. CASE tx' = Done(r)
      BY <2>1, <2>2, DoneType DEF TypeOK
    <2>3. ASSUME NEW i \in tx[r].todo, tx' = [tx EXCEPT ![r] = Pass(tx[r].todo \ {i}, tx[r].docs)]
          PROVE  TypeOK'
      <3>1. Pass(tx[r].todo \ {i}, tx[r].docs) \in Tx /\ Pass(tx[r].todo \ {i}, tx[r].docs).phase = "pass"
        BY TxFields, PassType
      <3> QED
        BY <2>1, <2>3, <3>1, EntryType DEF TypeOK, Busy
    <2> QED
      BY <1>3, <2>2, <2>3 DEF Fail
  <1>4. CASE Crash
    <2>1. faults' \in 0..MaxFaults /\ UNCHANGED <<issued, template, losses, file, staging, register>>
      BY <1>4, RegisterAssumption DEF Crash, disk, TypeOK
    <2> QED
      BY <1>4, <2>1, IdleType DEF Crash, TypeOK, Busy
  <1>5. CASE Edit
    BY <1>5, RegisterAssumption DEF Edit, disk, TypeOK
  <1>6. ASSUME NEW p \in Paths, Lose(p) PROVE TypeOK'
    <2>1. losses' \in 0..MaxLosses /\ UNCHANGED <<issued, template, faults, staging, register>>
      BY <1>6, RegisterAssumption DEF Lose, TypeOK
    <2>2. file' \in [Paths -> Bytes \cup Torn \cup {None}]
      BY <1>6 DEF Lose, TypeOK
    <2>3. \A r \in Requests : [tx[r] EXCEPT !.at = "unlinked"] \in Tx
      BY DEF TypeOK, Tx
    <2>4. tx' \in [Requests -> Tx]
      BY <1>6, <2>3 DEF Lose, TypeOK
    <2>5. \A r \in Requests : tx'[r].phase = tx[r].phase /\ tx'[r].inv = tx[r].inv /\ tx'[r].pdf = tx[r].pdf
      BY <1>6 DEF Lose, TypeOK, Tx
    <2> QED
      BY <2>1, <2>2, <2>4, <2>5 DEF TypeOK
  <1>7. CASE UNCHANGED vars
    BY <1>7 DEF vars, TypeOK
  <1> QED
    BY <1>1, <1>2, <1>3, <1>4, <1>5, <1>6, <1>7, StepType DEF Next

LEMMA TypeStart == Init => TypeOK
  BY IdleType, NoDocsType, RegisterAssumption DEF Init, TypeOK, Busy

\* No interleaving of passes, faults and deletions leaves a request with a document in hand
\* whose invoice or bytes it does not know.
THEOREM TypeCorrect == Spec => []TypeOK
  BY TypeStart, TypeStep, PTL DEF Spec

-----------------------------------------------------------------------------
\* Every step of the only pass keeps the invariant and the files whole.
LEMMA StepPass ==
    ASSUME TypeOK, PassInv, WholeFiles, NEW r \in Requests, Step(r)
    PROVE  PassInv' /\ WholeFiles'
  <1>1. tx[r].phase # "idle"
    BY DEF Step, ArchiveInvoice, ListRows, Open, WriteBytes, Replace, ReplaceRefused, Register, RegisterRefused,
           Finish, Skip, Render
  <1>2. \A o \in Requests \ {r} : tx[o].phase = "idle"
    BY <1>1 DEF PassInv, OnePass
  \* An entry that satisfies the invariant by itself is enough.
  <1>3. ASSUME NEW e \in Tx, tx'[r] = e, \A o \in Requests \ {r} : tx'[o] = tx[o],
               e.phase = "opened" => e.at = "staging" /\ staging'[PathOf[e.inv]] = Empty,
               e.phase = "staged" => staging'[PathOf[e.inv]] = e.pdf,
               e.phase \in {"pass"} \cup Busy => \A i \in e.todo : e.docs[i] = register'[i],
               e.phase \in Busy => e.inv \notin e.todo,
               e.phase \in {"rendered", "opened", "staged"} =>
                  register'[e.inv] = None \/ file'[PathOf[e.inv]] = None
        PROVE  PassInv'
    <2>1. OnePass'
      BY <1>2, <1>3 DEF OnePass
    <2>2. Staged'
      BY <1>2, <1>3 DEF Staged, Path
    <2>3. RowsCurrent'
      BY <1>2, <1>3 DEF RowsCurrent, Busy, Path
    <2> QED
      BY <2>1, <2>2, <2>3 DEF PassInv
  <1>4. CASE ArchiveInvoice(r)
    <2> DEFINE e == IF \E i \in tx[r].todo : register[i] # None THEN Idle ELSE Pass(tx[r].todo, NoDocs)
    <2>1. /\ e \in Tx /\ e.phase \in {"idle", "pass"}
          /\ e.phase = "pass" => \A i \in e.todo : e.docs[i] = register[i]
      <3>1. CASE \E i \in tx[r].todo : register[i] # None
        BY <3>1, IdleType
      <3>2. CASE \A i \in tx[r].todo : register[i] = None
        <4>1. e = Pass(tx[r].todo, NoDocs)
          BY <3>2
        <4>2. /\ Pass(tx[r].todo, NoDocs) \in Tx /\ Pass(tx[r].todo, NoDocs).phase = "pass"
              /\ Pass(tx[r].todo, NoDocs).todo = tx[r].todo /\ Pass(tx[r].todo, NoDocs).docs = NoDocs
          BY TxFields, PassType, NoDocsType
        <4>3. \A i \in tx[r].todo : NoDocs[i] = register[i]
          BY <3>2, TxFields DEF NoDocs
        <4> HIDE DEF e
        <4> QED
          BY <4>1, <4>2, <4>3
      <3> QED
        BY <3>1, <3>2
    <2>2. tx' = [tx EXCEPT ![r] = e] /\ UNCHANGED <<file, staging, register>>
      BY <1>4 DEF ArchiveInvoice, disk
    <2> HIDE DEF e
    <2>3. tx'[r] = e /\ \A o \in Requests \ {r} : tx'[o] = tx[o]
      BY <2>1, <2>2, EntryType DEF Busy
    <2> QED
      BY <1>3, <2>1, <2>2, <2>3 DEF WholeFiles, Busy
  <1>5. ASSUME NEW phase \in {"opened", "staged"}, Open(r) \/ WriteBytes(r),
               tx' = Onward(r, phase), tx[r].phase \in {"rendered", "opened"},
               phase = "opened" => staging'[Path(r)] = Empty,
               phase = "staged" => staging'[Path(r)] = tx[r].pdf,
               file' = file, register' = register
        PROVE  PassInv' /\ WholeFiles'
    <2> DEFINE e == Onward(r, phase)[r]
    <2>1. phase \in Busy /\ tx[r].phase \in Busy
      BY <1>5 DEF Busy
    <2>2. /\ e \in Tx /\ e.phase = phase /\ e.todo = tx[r].todo /\ e.docs = tx[r].docs
          /\ e.inv = tx[r].inv /\ e.pdf = tx[r].pdf /\ e.at = "staging"
          /\ tx' = [tx EXCEPT ![r] = e]
      BY <1>5, <2>1, OnwardType
    <2> HIDE DEF e
    <2>3. tx'[r] = e /\ \A o \in Requests \ {r} : tx'[o] = tx[o]
      BY <2>2 DEF TypeOK
    <2>4. /\ \A i \in tx[r].todo : tx[r].docs[i] = register[i]
          /\ tx[r].inv \notin tx[r].todo
          /\ register[tx[r].inv] = None \/ file[PathOf[tx[r].inv]] = None
      BY <1>5, <2>1 DEF PassInv, RowsCurrent, Path
    <2>5. PassInv'
      BY <1>3, <1>5, <2>2, <2>3, <2>4 DEF Path
    <2> QED
      BY <1>5, <2>5 DEF WholeFiles
  <1>6. CASE Open(r)
    <2>1. Path(r) \in Paths
      BY <1>6, TxFields DEF Open, Busy
    <2>2. staging'[Path(r)] = Empty /\ file' = file /\ register' = register
      BY <1>6, <2>1 DEF Open, TypeOK
    <2> QED
      BY <1>5, <1>6, <2>2 DEF Open
  <1>7. CASE WriteBytes(r)
    <2>1. Path(r) \in Paths
      BY <1>7, TxFields DEF WriteBytes, Busy
    <2>2. tx[r].at = "staging" /\ staging[Path(r)] = Empty
      BY <1>7 DEF WriteBytes, PassInv, Staged
    <2>3. Over(staging[Path(r)], tx[r].pdf) = {tx[r].pdf}
      BY <2>2 DEF Over
    <2>4. staging'[Path(r)] = tx[r].pdf /\ file' = file /\ register' = register
      BY <1>7, <2>1, <2>2, <2>3 DEF WriteBytes, TypeOK
    <2> QED
      BY <1>5, <1>7, <2>4 DEF WriteBytes
  <1>8. CASE Replace(r)
    <2>1. tx[r].phase = "staged" /\ tx[r].phase \in Busy
      BY <1>8 DEF Replace, Busy
    <2>2. Path(r) \in Paths /\ tx[r].pdf \in Bytes
      BY <2>1, TxFields
    <2>3. file' = [file EXCEPT ![Path(r)] = tx[r].pdf] /\ register' = register
      BY <1>8, <2>1 DEF Replace, PassInv, Staged
    <2>4. \A o \in Requests \ {r} : tx'[o] = tx[o]
      BY <1>2, <1>8, ReplaceTx, MovedType
    <2>5. /\ \A i \in tx[r].todo : tx[r].docs[i] = register[i]
          /\ tx[r].inv \notin tx[r].todo
      BY <2>1 DEF PassInv, RowsCurrent
    <2>6. /\ tx'[r] \in Tx /\ tx'[r].phase = "replaced" /\ tx'[r].todo = tx[r].todo
          /\ tx'[r].docs = tx[r].docs /\ tx'[r].inv = tx[r].inv
      BY <1>8, ReplaceTx
    <2>7. PassInv'
      BY <1>3, <2>3, <2>4, <2>5, <2>6
    <2>8. tx[r].pdf \notin Torn
      BY <2>2, RegisterAssumption DEF Bytes, Torn
    <2> QED
      BY <2>2, <2>3, <2>7, <2>8 DEF WholeFiles, TypeOK
  <1>9. CASE ReplaceRefused(r) \/ RegisterRefused(r) \/ Register(r)
    <2> DEFINE e == Pass(tx[r].todo, tx[r].docs)
    <2>1. /\ e \in Tx /\ e.phase = "pass" /\ e.todo = tx[r].todo /\ e.docs = tx[r].docs
      BY TxFields, PassType
    <2>2. tx[r].phase \in Busy /\ tx' = Done(r) /\ file' = file
      BY <1>9 DEF ReplaceRefused, RegisterRefused, Register, Busy, disk
    <2>3. tx'[r] = e /\ \A o \in Requests \ {r} : tx'[o] = tx[o]
      BY <2>2, DoneType
    <2>4. /\ \A i \in tx[r].todo : tx[r].docs[i] = register[i]
          /\ tx[r].inv \notin tx[r].todo
      BY <2>2 DEF PassInv, RowsCurrent
    <2>5. \A i \in Invoices : i # tx[r].inv => register'[i] = register[i]
      BY <1>9 DEF ReplaceRefused, RegisterRefused, Register, TypeOK
    <2>6. \A i \in tx[r].todo : tx[r].docs[i] = register'[i]
      BY <2>4, <2>5, TxFields
    <2> HIDE DEF e
    <2> QED
      BY <1>3, <2>1, <2>2, <2>3, <2>6 DEF WholeFiles, Busy
  <1>10. CASE Finish(r)
    <2>1. tx'[r] = Idle /\ (\A o \in Requests \ {r} : tx'[o] = tx[o]) /\ UNCHANGED <<file, staging, register>>
      BY <1>10, IdleType, EntryType DEF Finish, disk, Busy
    <2> QED
      BY <1>3, <2>1, IdleType DEF WholeFiles, Busy
  <1>11. ASSUME NEW i \in Invoices, Skip(r, i) PROVE PassInv' /\ WholeFiles'
    <2> DEFINE e == Pass(tx[r].todo \ {i}, tx[r].docs)
    <2>1. e \in Tx /\ e.phase = "pass" /\ e.todo = tx[r].todo \ {i} /\ e.docs = tx[r].docs
      BY TxFields, PassType
    <2>2. tx' = [tx EXCEPT ![r] = e] /\ UNCHANGED <<file, staging, register>>
      BY <1>11 DEF Skip, disk
    <2> HIDE DEF e
    <2>3. tx'[r] = e /\ \A o \in Requests \ {r} : tx'[o] = tx[o]
      BY <2>1, <2>2, EntryType DEF Busy
    <2>4. \A j \in tx[r].todo : tx[r].docs[j] = register[j]
      BY <1>11 DEF Skip, PassInv, RowsCurrent
    <2> QED
      BY <1>3, <2>1, <2>2, <2>3, <2>4 DEF WholeFiles, Busy
  <1>12. ASSUME NEW i \in Invoices, Render(r, i) PROVE PassInv' /\ WholeFiles'
    <2> DEFINE e == At("rendered", tx[r].todo \ {i}, tx[r].docs, i, <<i, template>>)
    <2>1. <<i, template>> \in Bytes /\ "rendered" \in Busy
      BY DEF TypeOK, Bytes, Busy
    <2>2. e \in Tx /\ e.phase = "rendered" /\ e.todo = tx[r].todo \ {i} /\ e.docs = tx[r].docs
          /\ e.inv = i /\ e.pdf = <<i, template>>
      BY <2>1, TxFields DEF At, Tx
    <2>3. tx' = [tx EXCEPT ![r] = e] /\ UNCHANGED <<file, staging, register>>
      BY <1>12 DEF Render, disk
    <2> HIDE DEF e
    <2>4. tx'[r] = e /\ \A o \in Requests \ {r} : tx'[o] = tx[o]
      BY <2>1, <2>2, <2>3, EntryType
    <2>5. /\ \A j \in tx[r].todo : tx[r].docs[j] = register[j]
          /\ register[i] = None \/ file[PathOf[i]] = None
      BY <1>12 DEF Render, Filed, PassInv, RowsCurrent
    <2> QED
      BY <1>3, <2>2, <2>3, <2>4, <2>5 DEF WholeFiles
  <1>13. CASE ListRows(r)
    <2> DEFINE e == Pass(tx[r].todo, register)
    <2>1. e \in Tx /\ e.phase = "pass" /\ e.docs = register
      BY TxFields, PassType DEF TypeOK
    <2>2. tx' = [tx EXCEPT ![r] = e] /\ UNCHANGED <<file, staging, register>>
      BY <1>13 DEF ListRows, disk
    <2> HIDE DEF e
    <2>3. tx'[r] = e /\ \A o \in Requests \ {r} : tx'[o] = tx[o]
      BY <2>1, <2>2, EntryType DEF Busy
    <2> QED
      BY <1>3, <2>1, <2>2, <2>3 DEF WholeFiles, Busy
  <1> QED
    BY <1>4, <1>6, <1>7, <1>8, <1>9, <1>10, <1>11, <1>12, <1>13 DEF Step

\* With one pass at a time every action keeps the invariant and the files whole.
LEMMA PassStep ==
    ASSUME Serial, TypeOK, PassInv, WholeFiles, [Next]_vars
    PROVE  PassInv' /\ WholeFiles'
  \* A request in the place of an idle one, or of the only busy one, with nothing in hand.
  <1>1. ASSUME NEW r \in Requests, NEW e \in Tx, tx'[r] = e, \A o \in Requests \ {r} : tx'[o] = tx[o],
               \A o \in Requests \ {r} : tx[o].phase = "idle",
               e.phase \in {"issued", "listed", "pass"},
               e.phase = "pass" => \A i \in e.todo : e.docs[i] = register'[i]
        PROVE  PassInv'
    <2>1. OnePass'
      BY <1>1 DEF OnePass
    <2>2. Staged'
      BY <1>1 DEF Staged
    <2>3. RowsCurrent'
      BY <1>1 DEF RowsCurrent, Busy
    <2> QED
      BY <2>1, <2>2, <2>3 DEF PassInv
  <1>2. ASSUME NEW r \in Requests, Rebuild(r) PROVE PassInv' /\ WholeFiles'
    <2> DEFINE e == At("listed", issued, NoDocs, None, None)
    <2>1. e \in Tx /\ e.phase = "listed"
      BY NoDocsType DEF At, Tx, TypeOK
    <2>2. tx' = [tx EXCEPT ![r] = e] /\ UNCHANGED <<file, staging, register>>
      BY <1>2 DEF Rebuild, disk
    <2> HIDE DEF e
    <2>3. tx'[r] = e /\ \A o \in Requests \ {r} : tx'[o] = tx[o]
      BY <2>1, <2>2, EntryType DEF Busy
    <2>4. \A o \in Requests \ {r} : tx[o].phase = "idle"
      BY <1>2 DEF Rebuild, MayStart
    <2> QED
      BY <1>1, <2>1, <2>2, <2>3, <2>4 DEF WholeFiles
  <1>3. ASSUME NEW r \in Requests, NEW i \in Invoices, Issue(r, i) PROVE PassInv' /\ WholeFiles'
    <2> DEFINE e == At("issued", {i}, NoDocs, None, None)
    <2>1. e \in Tx /\ e.phase = "issued"
      BY NoDocsType DEF At, Tx
    <2>2. tx' = [tx EXCEPT ![r] = e] /\ UNCHANGED <<file, staging, register>>
      BY <1>3 DEF Issue, disk
    <2> HIDE DEF e
    <2>3. tx'[r] = e /\ \A o \in Requests \ {r} : tx'[o] = tx[o]
      BY <2>1, <2>2, EntryType DEF Busy
    <2>4. \A o \in Requests \ {r} : tx[o].phase = "idle"
      BY <1>3 DEF Issue, MayStart
    <2> QED
      BY <1>1, <2>1, <2>2, <2>3, <2>4 DEF WholeFiles
  <1>4. ASSUME NEW r \in Requests, Fail(r) PROVE PassInv' /\ WholeFiles'
    <2>1. tx[r].phase \in {"pass"} \cup Busy /\ UNCHANGED <<file, staging, register>>
      BY <1>4 DEF Fail, disk
    <2>2. \A o \in Requests \ {r} : tx[o].phase = "idle"
      BY <2>1 DEF PassInv, OnePass, Busy
    <2>3. \A i \in tx[r].todo : tx[r].docs[i] = register[i]
      BY <2>1 DEF PassInv, RowsCurrent
    <2>4. PICK left \in SUBSET tx[r].todo : tx' = [tx EXCEPT ![r] = Pass(left, tx[r].docs)]
      BY <1>4 DEF Fail, Done
    <2> DEFINE e == Pass(left, tx[r].docs)
    <2>5. e \in Tx /\ e.phase = "pass" /\ e.todo = left /\ e.docs = tx[r].docs
      BY TxFields, PassType
    <2> HIDE DEF e
    <2>6. tx'[r] = e /\ \A o \in Requests \ {r} : tx'[o] = tx[o]
      BY <2>4, <2>5, EntryType DEF Busy, e
    <2> QED
      BY <1>1, <2>1, <2>2, <2>3, <2>5, <2>6 DEF WholeFiles
  <1>5. CASE Crash
    <2>1. (\A r \in Requests : tx'[r].phase = "idle") /\ file' = file
      BY <1>5, IdleType DEF Crash, disk
    <2> QED
      BY <2>1 DEF PassInv, OnePass, Staged, RowsCurrent, Busy, WholeFiles
  <1>6. CASE Edit
    BY <1>6 DEF Edit, disk, PassInv, OnePass, Staged, RowsCurrent, Path, WholeFiles
  <1>7. ASSUME NEW p \in Paths, Lose(p) PROVE PassInv' /\ WholeFiles'
    <2>1. tx' = tx
      <3>1. \A r \in Requests : tx[r].phase = "opened" => tx[r].at = "staging"
        BY DEF PassInv, Staged
      <3> QED
        BY <1>7, <3>1 DEF Lose, TypeOK
    <2>2. UNCHANGED <<staging, register>>
      BY <1>7 DEF Lose
    <2>3. \A q \in Paths : file'[q] = file[q] \/ file'[q] = None
      BY <1>7 DEF Lose, TypeOK
    <2>4. WholeFiles'
      BY <2>3, RegisterAssumption DEF WholeFiles, Torn
    <2>5. RowsCurrent'
      <3>1. \A r \in Requests : tx[r].phase \in Busy => Path(r) \in Paths
        BY TxFields
      <3> QED
        BY <2>1, <2>2, <2>3, <3>1 DEF PassInv, RowsCurrent, Path, Busy
    <2> QED
      BY <2>1, <2>2, <2>4, <2>5 DEF PassInv, OnePass, Staged, Path
  <1>8. CASE UNCHANGED vars
    BY <1>8 DEF vars, PassInv, OnePass, Staged, RowsCurrent, Path, WholeFiles
  <1> QED
    BY <1>2, <1>3, <1>4, <1>5, <1>6, <1>7, <1>8, StepPass DEF Next

LEMMA PassStart == Init => PassInv /\ WholeFiles
  <1> SUFFICES ASSUME Init PROVE PassInv /\ WholeFiles
    OBVIOUS
  <1>1. \A r \in Requests : tx[r].phase = "idle"
    BY IdleType DEF Init
  <1>2. WholeFiles
    BY RegisterAssumption DEF Init, WholeFiles, Torn
  <1> QED
    BY <1>1, <1>2 DEF PassInv, OnePass, Staged, RowsCurrent, Busy

\* With one pass at a time no fault, crash or deletion at any point leaves half a document in
\* its place: write() stages and renames.
THEOREM SerialWholeFiles == Serial => (Spec => []WholeFiles)
  <1> SUFFICES ASSUME Serial PROVE Spec => []WholeFiles
    OBVIOUS
  <1> DEFINE Inv == TypeOK /\ PassInv /\ WholeFiles
  <1>1. Init => Inv
    BY TypeStart, PassStart
  <1>2. Inv /\ [Next]_vars => Inv'
    BY TypeStep, PassStep
  <1>3. Inv => WholeFiles
    OBVIOUS
  <1> QED
    BY <1>1, <1>2, <1>3, PTL DEF Spec

\* What a step does to the file at a path.
LEMMA FileStep ==
    ASSUME TypeOK, PassInv, [Next]_vars, NEW p \in Paths, file'[p] \notin {file[p], None}
    PROVE  \E r \in Requests : tx[r].phase = "staged" /\ tx[r].inv \in Invoices /\ Path(r) = p
  <1>1. ASSUME NEW r \in Requests, Replace(r)
        PROVE  tx[r].phase = "staged" /\ tx[r].inv \in Invoices /\ Path(r) = p
    BY <1>1, TxFields DEF Replace, Busy, TypeOK
  <1>2. ASSUME NEW r \in Requests, WriteBytes(r) PROVE FALSE
    BY <1>2 DEF WriteBytes, disk, PassInv, Staged
  <1>3. ASSUME NEW q \in Paths, Lose(q) PROVE FALSE
    BY <1>3 DEF Lose, TypeOK
  <1>4. \/ file' = file \/ (\E r \in Requests : Replace(r) \/ WriteBytes(r)) \/ \E q \in Paths : Lose(q)
    BY DEF Next, Step, ArchiveInvoice, ListRows, Open, ReplaceRefused, Register, RegisterRefused, Finish, Skip, Render,
           Rebuild, Fail, Issue, Crash, Edit, vars, disk
  <1> QED
    BY <1>1, <1>2, <1>3, <1>4

\* With one pass at a time, and a path of its own for every invoice, a registered document
\* that is in its place is never rendered again.
THEOREM SerialRenderedOnce ==
    Serial /\ (\A i, j \in Invoices : PathOf[i] = PathOf[j] => i = j) => (Spec => RenderedOnce)
  <1> SUFFICES ASSUME Serial, \A i, j \in Invoices : PathOf[i] = PathOf[j] => i = j
               PROVE  Spec => RenderedOnce
    OBVIOUS
  <1> DEFINE Inv == TypeOK /\ PassInv /\ WholeFiles
             Kept == \A i \in Invoices :
                        register[i] # None /\ file[PathOf[i]] # None =>
                            file'[PathOf[i]] \in {file[PathOf[i]], None}
  <1>1. Init => Inv
    BY TypeStart, PassStart
  <1>2. Inv /\ [Next]_vars => Inv'
    BY TypeStep, PassStep
  <1>3. Inv /\ [Next]_vars => [Kept]_file
    <2> SUFFICES ASSUME Inv, [Next]_vars, NEW i \in Invoices,
                        register[i] # None, file[PathOf[i]] # None,
                        file'[PathOf[i]] \notin {file[PathOf[i]], None}
                 PROVE  FALSE
      OBVIOUS
    <2>1. PathOf[i] \in Paths
      BY RegisterAssumption
    <2>2. PICK r \in Requests : tx[r].phase = "staged" /\ tx[r].inv \in Invoices /\ Path(r) = PathOf[i]
      BY <2>1, FileStep
    <2>3. tx[r].inv = i
      BY <2>2 DEF Path
    <2> QED
      BY <2>2, <2>3 DEF PassInv, RowsCurrent
  <1> HIDE DEF Inv
  <1>4. Spec => [][Kept]_file
    BY <1>1, <1>2, <1>3, PTL DEF Spec
  <1> QED
    BY <1>4 DEF RenderedOnce

-----------------------------------------------------------------------------
\* What the only pass knows of the document it has in hand.
InHand ==
    \A r \in Requests :
        /\ tx[r].phase \in Busy => tx[r].docs[tx[r].inv] = register[tx[r].inv]
        /\ tx[r].phase = "replaced" => file[Path(r)] \in {tx[r].pdf, None}

Honest == faults = 0 => RegisterHonest /\ InHand

\* Until the first fault, a step of the only pass leaves the register honest.
LEMMA StepHonest ==
    ASSUME \A i, j \in Invoices : PathOf[i] = PathOf[j] => i = j,
           TypeOK, PassInv, RegisterHonest, InHand, NEW r \in Requests, Step(r)
    PROVE  RegisterHonest' /\ InHand'
  <1>1. tx[r].phase # "idle"
    BY DEF Step, ArchiveInvoice, ListRows, Open, WriteBytes, Replace, ReplaceRefused, Register, RegisterRefused,
           Finish, Skip, Render
  <1>2. \A o \in Requests \ {r} : tx[o].phase = "idle"
    BY <1>1 DEF PassInv, OnePass
  <1>3. \A i \in Invoices : PathOf[i] \in Paths
    BY RegisterAssumption
  \* It is enough to look at the request that moves.
  <1>4. ASSUME NEW e \in Tx, tx'[r] = e, \A o \in Requests \ {r} : tx'[o] = tx[o],
               e.phase \in Busy => e.docs[e.inv] = register'[e.inv],
               e.phase = "replaced" => file'[PathOf[e.inv]] \in {e.pdf, None},
               \A i \in Invoices :
                  /\ register'[i] # None /\ file'[PathOf[i]] # None
                  /\ e.phase \in Busy => e.inv # i
                  => register'[i] = file'[PathOf[i]]
        PROVE  RegisterHonest' /\ InHand'
    <2>1. InHand'
      BY <1>2, <1>4 DEF InHand, Path, Busy
    <2>2. RegisterHonest'
      BY <1>4 DEF RegisterHonest
    <2> QED
      BY <2>1, <2>2
  \* A request that has nothing in hand before a step has nothing to answer for.
  <1>5. ASSUME tx[r].phase \notin Busy
        PROVE  \A i \in Invoices : register[i] # None /\ file[PathOf[i]] # None => register[i] = file[PathOf[i]]
    BY <1>2, <1>5 DEF RegisterHonest, Busy
  <1>6. CASE \/ ArchiveInvoice(r) \/ ListRows(r) \/ Finish(r)
             \/ \E i \in Invoices : Skip(r, i)
    <2>1. tx[r].phase \notin Busy /\ UNCHANGED <<file, register>>
      BY <1>6 DEF ArchiveInvoice, ListRows, Finish, Skip, disk, Busy
    <2>2. ASSUME NEW todo \in SUBSET Invoices, NEW docs \in [Invoices -> Bytes \cup {None}],
                 \/ tx' = [tx EXCEPT ![r] = Idle]
                 \/ tx' = [tx EXCEPT ![r] = Pass(todo, docs)]
          PROVE  \E e \in Tx : e.phase \in {"idle", "pass"} /\ tx' = [tx EXCEPT ![r] = e]
      BY <2>2, IdleType, PassType
    <2>3. PICK e \in Tx : e.phase \in {"idle", "pass"} /\ tx' = [tx EXCEPT ![r] = e]
      <3>1. register \in [Invoices -> Bytes \cup {None}] /\ NoDocs \in [Invoices -> Bytes \cup {None}]
        BY NoDocsType DEF TypeOK
      <3>2. tx[r].todo \in SUBSET Invoices /\ tx[r].docs \in [Invoices -> Bytes \cup {None}]
        BY TxFields
      <3>3. CASE ArchiveInvoice(r)
        <4>1. \/ tx' = [tx EXCEPT ![r] = Idle]
              \/ tx' = [tx EXCEPT ![r] = Pass(tx[r].todo, NoDocs)]
          BY <3>3 DEF ArchiveInvoice
        <4> QED
          BY <2>2, <3>1, <3>2, <4>1
      <3>4. CASE ListRows(r)
        <4>1. tx' = [tx EXCEPT ![r] = Pass(tx[r].todo, register)]
          BY <3>4 DEF ListRows
        <4> QED
          BY <2>2, <3>1, <3>2, <4>1
      <3>5. CASE Finish(r)
        <4>1. tx' = [tx EXCEPT ![r] = Idle]
          BY <3>5 DEF Finish
        <4> QED
          BY <2>2, <3>2, <4>1
      <3>6. CASE \E i \in Invoices : Skip(r, i)
        <4>1. PICK i \in Invoices : Skip(r, i)
          BY <3>6
        <4>2. tx' = [tx EXCEPT ![r] = Pass(tx[r].todo \ {i}, tx[r].docs)]
          BY <4>1 DEF Skip
        <4>3. tx[r].todo \ {i} \in SUBSET Invoices
          BY <3>2
        <4> QED
          BY <2>2, <3>2, <4>2, <4>3
      <3> QED
        BY <1>6, <3>3, <3>4, <3>5, <3>6
    <2>4. tx'[r] = e /\ \A o \in Requests \ {r} : tx'[o] = tx[o]
      BY <2>3, EntryType DEF Busy
    <2> QED
      BY <1>4, <1>5, <2>1, <2>3, <2>4 DEF Busy
  <1>7. ASSUME NEW i \in Invoices, Render(r, i) PROVE RegisterHonest' /\ InHand'
    <2> DEFINE e == At("rendered", tx[r].todo \ {i}, tx[r].docs, i, <<i, template>>)
    <2>1. <<i, template>> \in Bytes /\ "rendered" \in Busy
      BY DEF TypeOK, Bytes, Busy
    <2>2. e \in Tx /\ e.phase = "rendered" /\ e.docs = tx[r].docs /\ e.inv = i /\ e.pdf = <<i, template>>
      BY <2>1, TxFields DEF At, Tx
    <2>3. tx' = [tx EXCEPT ![r] = e] /\ UNCHANGED <<file, register>>
      BY <1>7 DEF Render, disk
    <2> HIDE DEF e
    <2>4. tx'[r] = e /\ \A o \in Requests \ {r} : tx'[o] = tx[o]
      BY <2>1, <2>2, <2>3, EntryType
    <2>5. tx[r].phase \notin Busy /\ tx[r].docs[i] = register[i]
      BY <1>7 DEF Render, PassInv, RowsCurrent, Busy
    <2> QED
      BY <1>4, <1>5, <2>2, <2>3, <2>4, <2>5
  \* The document in hand moves on; the documents not in hand are the same before and after.
  <1>8. ASSUME NEW phase \in Busy, NEW e \in Tx, tx[r].phase \in Busy,
               tx'[r] = e, \A o \in Requests \ {r} : tx'[o] = tx[o],
               e.phase = phase, e.docs = tx[r].docs, e.inv = tx[r].inv, e.pdf = tx[r].pdf,
               register' = register, \A q \in Paths : q # Path(r) => file'[q] = file[q],
               phase = "replaced" => file'[Path(r)] = tx[r].pdf
        PROVE  RegisterHonest' /\ InHand'
    <2>1. tx[r].inv \in Invoices /\ Path(r) = PathOf[tx[r].inv]
      BY <1>8, TxFields DEF Path
    <2>2. tx[r].docs[tx[r].inv] = register[tx[r].inv]
      BY <1>8 DEF InHand
    <2>3. ASSUME NEW i \in Invoices, i # tx[r].inv, register[i] # None, file'[PathOf[i]] # None
          PROVE  register[i] = file'[PathOf[i]]
      <3>1. PathOf[i] # Path(r)
        BY <2>1, <2>3
      <3>2. file'[PathOf[i]] = file[PathOf[i]]
        BY <1>3, <1>8, <3>1
      <3>3. \A o \in Requests : tx[o].phase \in Busy => tx[o].inv # i
        BY <1>2, <2>3 DEF Busy
      <3> QED
        BY <2>3, <3>2, <3>3 DEF RegisterHonest
    <2> QED
      BY <1>4, <1>8, <2>1, <2>2, <2>3
  <1>9. CASE Open(r) \/ WriteBytes(r)
    <2>1. PICK phase \in {"opened", "staged"} : tx' = Onward(r, phase)
      BY <1>9 DEF Open, WriteBytes
    <2>2. tx[r].phase \in Busy /\ phase \in Busy /\ register' = register /\ file' = file
      BY <1>9 DEF Open, WriteBytes, Busy, disk, PassInv, Staged
    <2> DEFINE e == Onward(r, phase)[r]
    <2>3. /\ e \in Tx /\ e.phase = phase /\ e.docs = tx[r].docs /\ e.inv = tx[r].inv /\ e.pdf = tx[r].pdf
          /\ tx' = [tx EXCEPT ![r] = e]
      BY <2>1, <2>2, OnwardType
    <2> HIDE DEF e
    <2>4. tx'[r] = e /\ \A o \in Requests \ {r} : tx'[o] = tx[o]
      BY <2>3 DEF TypeOK
    <2> QED
      BY <1>8, <2>1, <2>2, <2>3, <2>4
  <1>10. CASE Replace(r)
    <2>1. tx[r].phase = "staged" /\ tx[r].phase \in Busy /\ "replaced" \in Busy
      BY <1>10 DEF Replace, Busy
    <2>2. file' = [file EXCEPT ![Path(r)] = tx[r].pdf] /\ register' = register
      BY <1>10, <2>1 DEF Replace, PassInv, Staged
    <2>3. \A o \in Requests \ {r} : tx'[o] = tx[o]
      BY <1>2, <1>10, ReplaceTx, MovedType
    <2>4. /\ tx'[r] \in Tx /\ tx'[r].phase = "replaced" /\ tx'[r].docs = tx[r].docs
          /\ tx'[r].inv = tx[r].inv /\ tx'[r].pdf = tx[r].pdf
      BY <1>10, ReplaceTx
    <2>5. Path(r) \in Paths
      BY <2>1, TxFields
    <2>6. file'[Path(r)] = tx[r].pdf /\ \A q \in Paths : q # Path(r) => file'[q] = file[q]
      BY <2>2, <2>5 DEF TypeOK
    <2> QED
      BY <1>8, <2>1, <2>2, <2>3, <2>4, <2>6
  \* With one pass and a path per invoice nobody has taken the .part file or the row.
  <1>11. ~ReplaceRefused(r) /\ ~RegisterRefused(r)
    <2>1. ASSUME ReplaceRefused(r) PROVE FALSE
      <3>1. tx[r].phase = "staged" /\ tx[r].phase \in Busy /\ staging[Path(r)] = None
        BY <2>1 DEF ReplaceRefused, Busy
      <3>2. staging[Path(r)] = tx[r].pdf /\ tx[r].pdf \in Bytes
        BY <3>1, TxFields DEF PassInv, Staged
      <3> QED
        BY <3>1, <3>2, RegisterAssumption DEF Bytes
    <2>2. ASSUME RegisterRefused(r) PROVE FALSE
      <3>1. tx[r].phase = "replaced" /\ tx[r].phase \in Busy /\ tx[r].docs[tx[r].inv] = None
        BY <2>2 DEF RegisterRefused, Busy
      <3>2. PICK j \in Invoices : PathOf[j] = Path(r) /\ register[j] # None
        BY <2>2 DEF RegisterRefused, Taken
      <3>3. j = tx[r].inv
        BY <3>1, <3>2, TxFields DEF Path
      <3> QED
        BY <3>1, <3>2, <3>3 DEF InHand
    <2> QED
      BY <2>1, <2>2
  <1>12. CASE Register(r)
    <2> DEFINE e == Pass(tx[r].todo, tx[r].docs)
    <2>1. e \in Tx /\ e.phase = "pass"
      BY TxFields, PassType
    <2>2. tx[r].phase = "replaced" /\ tx[r].phase \in Busy /\ tx' = Done(r) /\ file' = file
      BY <1>12 DEF Register, Busy, disk
    <2>3. tx'[r] = e /\ \A o \in Requests \ {r} : tx'[o] = tx[o]
      BY <2>2, DoneType
    <2> HIDE DEF e
    <2>4. tx[r].inv \in Invoices /\ Path(r) = PathOf[tx[r].inv] /\ file[Path(r)] \in {tx[r].pdf, None}
      BY <2>2, TxFields DEF InHand, Path
    <2>5. register'[tx[r].inv] = tx[r].pdf /\ \A i \in Invoices : i # tx[r].inv => register'[i] = register[i]
      BY <1>12, <2>4 DEF Register, TypeOK
    <2>6. ASSUME NEW i \in Invoices, i # tx[r].inv, register[i] # None, file[PathOf[i]] # None
          PROVE  register[i] = file[PathOf[i]]
      BY <1>2, <2>6 DEF RegisterHonest, Busy
    <2>7. \A i \in Invoices : register'[i] # None /\ file'[PathOf[i]] # None => register'[i] = file'[PathOf[i]]
      BY <2>2, <2>4, <2>5, <2>6
    <2> QED
      BY <1>4, <2>1, <2>3, <2>7 DEF Busy
  <1> QED
    BY <1>6, <1>7, <1>9, <1>10, <1>11, <1>12 DEF Step

LEMMA HonestStep ==
    ASSUME Serial, \A i, j \in Invoices : PathOf[i] = PathOf[j] => i = j,
           TypeOK, PassInv, Honest, [Next]_vars
    PROVE  Honest'
  <1> SUFFICES ASSUME faults' = 0 PROVE RegisterHonest' /\ InHand'
    BY DEF Honest
  <1>1. faults \in Nat
    BY RegisterAssumption DEF TypeOK
  <1>2. ~Crash /\ \A r \in Requests : ~Fail(r)
    BY <1>1 DEF Crash, Fail
  <1>3. faults = 0
    BY <1>2 DEF Next, Step, ArchiveInvoice, ListRows, Open, WriteBytes, Replace, ReplaceRefused, Register,
                RegisterRefused, Finish, Skip, Render, Rebuild, Issue, Edit, Lose, vars, outside
  <1>4. RegisterHonest /\ InHand
    BY <1>3 DEF Honest
  <1>5. ASSUME NEW r \in Requests, NEW e \in Tx, e.phase \in {"issued", "listed"},
               \A o \in Requests : tx[o].phase = "idle",
               tx' = [tx EXCEPT ![r] = e], UNCHANGED <<file, register>>
        PROVE  RegisterHonest' /\ InHand'
    <2>1. \A o \in Requests : tx'[o].phase \notin Busy
      BY <1>5 DEF TypeOK, Busy
    <2>2. \A o \in Requests : tx[o].phase \notin Busy
      BY <1>5 DEF Busy
    <2> QED
      BY <1>4, <1>5, <2>1, <2>2 DEF RegisterHonest, InHand, Busy
  <1>6. ASSUME NEW r \in Requests, Rebuild(r) PROVE RegisterHonest' /\ InHand'
    <2> DEFINE e == At("listed", issued, NoDocs, None, None)
    <2>1. e \in Tx /\ e.phase = "listed"
      BY NoDocsType DEF At, Tx, TypeOK
    <2>2. tx' = [tx EXCEPT ![r] = e] /\ UNCHANGED <<file, register>>
      BY <1>6 DEF Rebuild, disk
    <2>3. \A o \in Requests : tx[o].phase = "idle"
      BY <1>6 DEF Rebuild, MayStart
    <2> HIDE DEF e
    <2> QED
      BY <1>5, <2>1, <2>2, <2>3
  <1>7. ASSUME NEW r \in Requests, NEW i \in Invoices, Issue(r, i) PROVE RegisterHonest' /\ InHand'
    <2> DEFINE e == At("issued", {i}, NoDocs, None, None)
    <2>1. e \in Tx /\ e.phase = "issued"
      BY NoDocsType DEF At, Tx
    <2>2. tx' = [tx EXCEPT ![r] = e] /\ UNCHANGED <<file, register>>
      BY <1>7 DEF Issue, disk
    <2>3. \A o \in Requests : tx[o].phase = "idle"
      BY <1>7 DEF Issue, MayStart
    <2> HIDE DEF e
    <2> QED
      BY <1>5, <2>1, <2>2, <2>3
  <1>8. CASE Edit
    BY <1>4, <1>8 DEF Edit, disk, RegisterHonest, InHand, Path
  <1>9. ASSUME NEW p \in Paths, Lose(p) PROVE RegisterHonest' /\ InHand'
    <2>1. tx' = tx
      <3>1. \A r \in Requests : tx[r].phase = "opened" => tx[r].at = "staging"
        BY DEF PassInv, Staged
      <3> QED
        BY <1>9, <3>1 DEF Lose, TypeOK
    <2>2. register' = register /\ \A q \in Paths : file'[q] \in {file[q], None}
      BY <1>9 DEF Lose, TypeOK
    <2>3. \A r \in Requests : tx[r].phase = "replaced" => Path(r) \in Paths
      BY TxFields DEF Busy
    <2>4. InHand'
      BY <1>4, <2>1, <2>2, <2>3 DEF InHand, Path
    <2>5. RegisterHonest'
      BY <1>4, <2>1, <2>2, RegisterAssumption DEF RegisterHonest
    <2> QED
      BY <2>4, <2>5
  <1>10. CASE UNCHANGED vars
    BY <1>4, <1>10 DEF vars, RegisterHonest, InHand, Path
  <1> QED
    BY <1>2, <1>4, <1>6, <1>7, <1>8, <1>9, <1>10, StepHonest DEF Next

\* With one pass at a time, a path of its own for every invoice and no fault so far, a
\* registered file hashes to what its row says, through any template edits and deletions.
THEOREM SerialHonest ==
    Serial /\ (\A i, j \in Invoices : PathOf[i] = PathOf[j] => i = j) => (Spec => []HonestUntilFault)
  <1> SUFFICES ASSUME Serial, \A i, j \in Invoices : PathOf[i] = PathOf[j] => i = j
               PROVE  Spec => []HonestUntilFault
    OBVIOUS
  <1> DEFINE Inv == TypeOK /\ PassInv /\ WholeFiles /\ Honest
  <1>1. Init => Inv
    <2>1. ASSUME Init PROVE Honest
      <3>1. (\A r \in Requests : tx[r].phase = "idle") /\ \A i \in Invoices : register[i] = None
        BY <2>1, IdleType DEF Init, NoDocs
      <3> QED
        BY <3>1 DEF Honest, RegisterHonest, InHand, Busy
    <2> QED
      BY <2>1, TypeStart, PassStart
  <1>2. Inv /\ [Next]_vars => Inv'
    BY TypeStep, PassStep, HonestStep
  <1>3. Inv => HonestUntilFault
    BY DEF Honest, HonestUntilFault
  <1> QED
    BY <1>1, <1>2, <1>3, PTL DEF Spec
=============================================================================
