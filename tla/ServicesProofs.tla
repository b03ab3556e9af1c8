---------------------------- MODULE ServicesProofs ----------------------------
(***************************************************************************)
(* The services beside the ledger, proved one by one for every value of    *)
(* their constants: the quotes, the backups of the server and those of the *)
(* desktop, the expenses, the templates, the rate limiter and the money.   *)
(***************************************************************************)
EXTENDS MCServices, SumTheorems, SequenceTheorems

-----------------------------------------------------------------------------
(***************************************************************************)
(* QuotePipeline, for any number of quotes, drafts and requests.           *)
(***************************************************************************)

\* What a request carries at each step.
RequestShape ==
    \A r \in Requests :
        LET t == tx[r]
        IN  /\ t.op = "none" <=> t.phase = "idle"
            /\ t.op # "none" => t.quote \in Quotes
            /\ t.phase \in {"checked", "drafted"} => t.op = "converted"
            /\ t.phase = "audited" => t.op = "delete"
            /\ t.op = "converted" /\ t.phase \in {"drafted", "read", "reselected"} => t.draft \in Drafts

QuoteTypeInv == QuoteTypeOK /\ RequestShape

\* At most one request is at work on a quote.
OnePerQuote ==
    \A r, o \in Requests :
        tx[r].op # "none" /\ tx[o].op # "none" /\ tx[r].quote = tx[o].quote => r = o

\* So what a request has read is still so, and its check still stands.
ReadsCurrent ==
    \A r \in Requests :
        LET t == tx[r]
            row == quotes[t.quote]
        IN  /\ t.op # "none" => t.old = row
            /\ t.phase = "reselected" => t.fresh = row
            /\ t.op \in Transitions => <<row.status, t.op>> \in Allowed
            /\ t.op = "converted" => row.status = "accepted"
            /\ t.op = "delete" => row.status \in StoredQuotes \ {"converted"}

\* The draft of a conversion in flight was made from its quote.
DraftsTraced ==
    \A r \in Requests :
        tx[r].op = "converted" /\ tx[r].phase \in {"drafted", "read", "reselected"} =>
            drafts[tx[r].draft].of = tx[r].quote /\ drafts[tx[r].draft].status # "absent"

PipelineInv == OnePerQuote /\ ReadsCurrent /\ DraftsTraced

\* Answered conversions are in the table, and only a converted quote has a link.
Answers ==
    /\ ConvertHonoured
    /\ \A c \in returned : drafts[c.draft].status # "absent"
    /\ \A q \in Quotes : quotes[q].status # "converted" => quotes[q].invoice = None

-----------------------------------------------------------------------------
\* The record of an idle worker is well-formed.
LEMMA IdleType == Idle \in Tx /\ Idle.op = "none" /\ Idle.phase = "idle"
  BY DEF Idle, Tx, Phases, Ops, AbsentQuote, QuoteRow

\* What a request is doing, field by field.
LEMMA TxFields ==
    ASSUME QuoteTypeOK, NEW r \in Requests
    PROVE  /\ tx[r].phase \in Phases /\ tx[r].op \in Ops /\ tx[r].quote \in Quotes \cup {None}
           /\ tx[r].draft \in Drafts \cup {None} /\ tx[r].old \in QuoteRow /\ tx[r].fresh \in QuoteRow
  BY DEF QuoteTypeOK, Tx

\* A record built by At() has the type of its parts.
LEMMA AtType ==
    ASSUME NEW stage \in Phases, NEW op \in Ops, NEW q \in Quotes \cup {None},
           NEW d \in Drafts \cup {None}, NEW old \in QuoteRow, NEW fresh \in QuoteRow
    PROVE  /\ At(stage, op, q, d, old, fresh) \in Tx
           /\ At(stage, op, q, d, old, fresh).phase = stage
           /\ At(stage, op, q, d, old, fresh).op = op
           /\ At(stage, op, q, d, old, fresh).quote = q
           /\ At(stage, op, q, d, old, fresh).draft = d
           /\ At(stage, op, q, d, old, fresh).old = old
           /\ At(stage, op, q, d, old, fresh).fresh = fresh
  BY DEF At, Tx

LEMMA AbsentType == AbsentQuote \in QuoteRow
  BY DEF AbsentQuote, QuoteRow

\* An UPDATE leaves a row behind.
LEMMA MergedRow ==
    ASSUME QuoteTypeInv, NEW r \in Requests, tx[r].op \in Transitions \cup {"converted"},
           tx[r].phase = "reselected"
    PROVE  Merged(tx[r]) \in QuoteRow
  <1>1. quotes[tx[r].quote] \in QuoteRow
    BY DEF QuoteTypeInv, QuoteTypeOK, RequestShape, Transitions
  <1>2. Link(tx[r]) \in Drafts \cup {None}
    BY TxFields DEF QuoteTypeInv, Link, QuoteRow
  <1>3. tx[r].op \in StoredQuotes
    BY DEF Transitions, StoredQuotes
  <1> QED
    BY <1>1, <1>2, <1>3 DEF Merged, Column, QuoteRow

\* The step of one request, as a change of its own entry.
LEMMA ShapeAt ==
    ASSUME QuoteTypeInv, NEW r \in Requests, NEW stage \in Phases, NEW op \in Ops \ {"none"},
           NEW q \in Quotes, NEW d \in Drafts \cup {None}, NEW old \in QuoteRow, NEW fresh \in QuoteRow,
           stage # "idle",
           stage \in {"checked", "drafted"} => op = "converted",
           stage = "audited" => op = "delete",
           op = "converted" /\ stage \in {"drafted", "read", "reselected"} => d \in Drafts,
           tx' = [tx EXCEPT ![r] = At(stage, op, q, d, old, fresh)]
    PROVE  tx' \in [Requests -> Tx] /\ RequestShape'
  <1> DEFINE new == At(stage, op, q, d, old, fresh)
  <1>1. /\ new \in Tx /\ new.phase = stage /\ new.op = op /\ new.quote = q /\ new.draft = d
    BY DEF At, Tx
  <1> HIDE DEF new
  <1>2. tx' = [tx EXCEPT ![r] = new]
    BY DEF new
  <1>3. tx' \in [Requests -> Tx]
    BY <1>1, <1>2 DEF QuoteTypeInv, QuoteTypeOK
  <1>4. ASSUME NEW o \in Requests, o # r PROVE tx'[o] = tx[o]
    BY <1>2, <1>4 DEF QuoteTypeInv, QuoteTypeOK
  <1>5. tx'[r] = new
    BY <1>2 DEF QuoteTypeInv, QuoteTypeOK
  <1>6. RequestShape'
    BY <1>1, <1>4, <1>5 DEF QuoteTypeInv, RequestShape
  <1> QED
    BY <1>3, <1>6

\* The end of a request, as a change of its own entry.
LEMMA ShapeIdle ==
    ASSUME QuoteTypeInv, NEW r \in Requests, tx' = [tx EXCEPT ![r] = Idle]
    PROVE  /\ tx' \in [Requests -> Tx] /\ RequestShape' /\ tx'[r] = Idle
           /\ \A o \in Requests \ {r} : tx'[o] = tx[o]
  <1>1. tx' \in [Requests -> Tx] /\ tx'[r] = Idle /\ \A o \in Requests \ {r} : tx'[o] = tx[o]
    BY IdleType DEF QuoteTypeInv, QuoteTypeOK
  <1> QED
    BY <1>1, IdleType DEF QuoteTypeInv, RequestShape

\* Every action keeps the types.
LEMMA TypeStep == QuoteTypeInv /\ [QuoteNext]_quoteVars => QuoteTypeInv'
  <1> SUFFICES ASSUME QuoteTypeInv, [QuoteNext]_quoteVars PROVE QuoteTypeInv'
    OBVIOUS
  <1> USE DEF QuoteTypeInv
  <1>1. ASSUME NEW q \in Quotes, Create(q) PROVE QuoteTypeInv'
    BY <1>1 DEF Create, QuoteTypeOK, RequestShape, QuoteRow, StoredQuotes
  <1>2. ASSUME NEW d \in Drafts, DeleteInvoice(d) PROVE QuoteTypeInv'
    BY <1>2 DEF DeleteInvoice, QuoteTypeOK, RequestShape
  <1>3. ASSUME NEW r \in Requests, Begin(r) PROVE QuoteTypeInv'
    <2>1. PICK stage \in {"read", "checked"}, op \in Ops \ {"none"}, q \in Quotes :
             /\ tx' = [tx EXCEPT ![r] = At(stage, op, q, None, quotes[q], AbsentQuote)]
             /\ UNCHANGED <<quotes, drafts, returned>>
             /\ op = "converted" <=> stage = "checked"
      BY <1>3 DEF Begin, BeginTransition, BeginConvert, BeginDelete, Ops, Transitions
    <2>2. quotes[q] \in QuoteRow
      BY DEF QuoteTypeOK
    <2>3. tx' \in [Requests -> Tx] /\ RequestShape'
      BY <2>1, <2>2, ShapeAt, AbsentType DEF Phases
    <2> QED
      BY <2>1, <2>3 DEF QuoteTypeOK
  <1>4. ASSUME NEW r \in Requests, Work(r) PROVE QuoteTypeInv'
    <2> DEFINE q == tx[r].quote
    <2>1. /\ tx[r].phase # "idle" => q \in Quotes /\ quotes[q] \in QuoteRow
          /\ tx[r].old \in QuoteRow /\ tx[r].op \in Ops
      BY TxFields DEF QuoteTypeOK, RequestShape
    <2>2. ASSUME NEW d \in Drafts, CreateInvoice(r, d) PROVE QuoteTypeInv'
      <3>1. tx' \in [Requests -> Tx] /\ RequestShape'
        BY <2>1, <2>2, ShapeAt, AbsentType DEF CreateInvoice, Phases, Ops
      <3> QED
        BY <2>1, <2>2, <3>1 DEF CreateInvoice, QuoteTypeOK
    <2>3. CASE ReadForConvert(r)
      <3>1. tx' \in [Requests -> Tx] /\ RequestShape'
        <4>1. tx[r].draft \in Drafts
          BY <2>3 DEF ReadForConvert, RequestShape
        <4> QED
          BY <2>1, <2>3, <4>1, ShapeAt, AbsentType DEF ReadForConvert, Phases, Ops
      <3> QED
        BY <2>3, <3>1 DEF ReadForConvert, QuoteTypeOK
    <2>4. CASE Reselect(r)
      <3>1. tx' \in [Requests -> Tx] /\ RequestShape'
        <4>1. /\ tx[r].draft \in Drafts \cup {None}
              /\ tx[r].op = "converted" => tx[r].draft \in Drafts
              /\ tx[r].op # "none"
          BY <2>4, TxFields DEF Reselect, RequestShape
        <4> QED
          BY ZenonT(30), <2>1, <2>4, <4>1, ShapeAt DEF Reselect, Phases
      <3> QED
        BY <2>4, <3>1 DEF Reselect, QuoteTypeOK
    <2>5. CASE InsertAudit(r)
      <3>1. tx' \in [Requests -> Tx] /\ RequestShape'
        BY <2>1, <2>5, ShapeAt, AbsentType DEF InsertAudit, Phases, Ops
      <3> QED
        BY <2>5, <3>1 DEF InsertAudit, QuoteTypeOK
    <2>6. CASE ReselectDelete(r)
      <3>1. tx' \in [Requests -> Tx] /\ RequestShape'
        <4>1. /\ q \in Quotes /\ quotes[q] \in QuoteRow
              /\ tx' = [tx EXCEPT ![r] = At("reselected", "delete", q, None, tx[r].old, quotes[q])]
          BY <2>1, <2>6 DEF ReselectDelete
        <4> HIDE DEF q
        <4> QED
          BY <2>1, <4>1, ShapeAt DEF Phases, Ops
      <3> QED
        BY <2>6, <3>1 DEF ReselectDelete, QuoteTypeOK
    <2> QED
      BY <1>4, <2>2, <2>3, <2>4, <2>5, <2>6 DEF Work
  <1>5. ASSUME NEW r \in Requests, Fail(r) PROVE QuoteTypeInv'
    BY <1>5, ShapeIdle DEF Fail, QuoteTypeOK
  <1>6. ASSUME NEW r \in Requests, CommitTransition(r) PROVE QuoteTypeInv'
    <2>1. tx[r].op \in Transitions \cup {"converted"} /\ tx[r].phase = "reselected"
      BY <1>6, TxFields DEF CommitTransition, RequestShape, Ops
    <2>2. quotes' \in [Quotes -> QuoteRow]
      BY <1>6, <2>1, MergedRow DEF CommitTransition, QuoteTypeOK
    <2>3. returned' \subseteq [quote : Quotes, draft : Drafts]
      BY <1>6, <2>1 DEF CommitTransition, QuoteTypeOK, RequestShape, Transitions
    <2>4. tx' \in [Requests -> Tx] /\ RequestShape'
      BY <1>6, ShapeIdle DEF CommitTransition
    <2> QED
      BY <1>6, <2>2, <2>3, <2>4 DEF CommitTransition, QuoteTypeOK
  <1>7. ASSUME NEW r \in Requests, CommitDelete(r) PROVE QuoteTypeInv'
    <2>1. quotes' \in [Quotes -> QuoteRow]
      BY <1>7 DEF CommitDelete, QuoteTypeOK, QuoteRow
    <2> QED
      BY <1>7, <2>1, ShapeIdle DEF CommitDelete, QuoteTypeOK
  <1>8. CASE UNCHANGED quoteVars
    BY <1>8 DEF quoteVars, QuoteTypeOK, RequestShape
  <1> QED
    BY <1>1, <1>2, <1>3, <1>4, <1>5, <1>6, <1>7, <1>8 DEF QuoteNext

LEMMA TypeStart == QuoteInit => QuoteTypeInv
  BY IdleType, AbsentType DEF QuoteInit, QuoteTypeInv, QuoteTypeOK, RequestShape

\* No interleaving of requests, failures and deletions leaves a malformed row, or answers a
\* conversion without naming the draft it created.
THEOREM TypeCorrect == QuoteSpec => []QuoteTypeOK
  <1>1. QuoteTypeInv => QuoteTypeOK
    BY DEF QuoteTypeInv
  <1> QED
    BY <1>1, TypeStart, TypeStep, PTL DEF QuoteSpec

-----------------------------------------------------------------------------
\* A quote someone is working on is in the table.
LEMMA ActiveStored ==
    ASSUME QuoteTypeInv, PipelineInv, NEW r \in Requests, tx[r].op # "none"
    PROVE  quotes[tx[r].quote].status \in StoredQuotes /\ quotes[tx[r].quote].status # "converted"
  <1>1. tx[r].op \in Transitions \cup {"converted", "delete"}
    BY TxFields DEF QuoteTypeInv, Ops
  <1> QED
    BY <1>1 DEF PipelineInv, ReadsCurrent, Allowed, StoredQuotes

\* A request that owns its quote, whose reads are current, keeps the invariant.
LEMMA OwnerStep ==
    ASSUME QuoteTypeInv, PipelineInv, NEW r \in Requests, NEW e,
           tx'[r] = e, \A o \in Requests \ {r} : tx'[o] = tx[o],
           quotes' = quotes,
           \A d \in Drafts : drafts[d].status # "absent" =>
               drafts'[d].of = drafts[d].of /\ drafts'[d].status # "absent",
           \A o \in Requests \ {r} : tx[o].op # "none" => tx[o].quote # e.quote,
           e.old = quotes[e.quote], e.phase = "reselected" => e.fresh = quotes[e.quote],
           e.op \in Transitions => <<quotes[e.quote].status, e.op>> \in Allowed,
           e.op = "converted" => quotes[e.quote].status = "accepted",
           e.op = "delete" => quotes[e.quote].status \in StoredQuotes \ {"converted"},
           e.op = "converted" /\ e.phase \in {"drafted", "read", "reselected"} =>
               drafts'[e.draft].of = e.quote /\ drafts'[e.draft].status # "absent"
    PROVE  PipelineInv'
  <1>1. OnePerQuote'
    BY DEF PipelineInv, OnePerQuote
  <1>2. ReadsCurrent'
    <2> SUFFICES ASSUME NEW o \in Requests
                 PROVE  LET t == tx'[o]
                            row == quotes[t.quote]
                        IN  /\ t.op # "none" => t.old = row
                            /\ t.phase = "reselected" => t.fresh = row
                            /\ t.op \in Transitions => <<row.status, t.op>> \in Allowed
                            /\ t.op = "converted" => row.status = "accepted"
                            /\ t.op = "delete" => row.status \in StoredQuotes \ {"converted"}
      BY DEF ReadsCurrent
    <2>1. CASE o = r
      BY <2>1
    <2>2. CASE o # r
      BY <2>2 DEF PipelineInv, ReadsCurrent
    <2> QED
      BY <2>1, <2>2
  <1>3. DraftsTraced'
    <2> SUFFICES ASSUME NEW o \in Requests, tx'[o].op = "converted",
                        tx'[o].phase \in {"drafted", "read", "reselected"}
                 PROVE  drafts'[tx'[o].draft].of = tx'[o].quote /\ drafts'[tx'[o].draft].status # "absent"
      BY DEF DraftsTraced
    <2>1. CASE o = r
      BY <2>1
    <2>2. CASE o # r
      <3>1. tx[o].draft \in Drafts
        BY <2>2 DEF QuoteTypeInv, RequestShape
      <3> QED
        BY <2>2, <3>1 DEF PipelineInv, DraftsTraced
    <2> QED
      BY <2>1, <2>2
  <1> QED
    BY <1>1, <1>2, <1>3 DEF PipelineInv

\* A request that ends, having changed its own quote only, keeps the invariant.
LEMMA EndStep ==
    ASSUME QuoteTypeInv, PipelineInv, NEW r \in Requests, tx[r].op # "none",
           tx' = [tx EXCEPT ![r] = Idle], drafts' = drafts,
           \A q \in Quotes : q # tx[r].quote => quotes'[q] = quotes[q]
    PROVE  PipelineInv'
  <1>1. tx'[r].op = "none" /\ tx'[r].phase = "idle" /\ \A o \in Requests \ {r} : tx'[o] = tx[o]
    BY ShapeIdle, IdleType
  <1>2. ASSUME NEW o \in Requests \ {r}, tx[o].op # "none"
        PROVE  quotes'[tx[o].quote] = quotes[tx[o].quote]
    BY <1>2 DEF QuoteTypeInv, RequestShape, PipelineInv, OnePerQuote
  <1>3. OnePerQuote'
    BY <1>1 DEF PipelineInv, OnePerQuote
  <1>4. ReadsCurrent'
    <2> SUFFICES ASSUME NEW o \in Requests
                 PROVE  LET t == tx'[o]
                            row == quotes'[t.quote]
                        IN  /\ t.op # "none" => t.old = row
                            /\ t.phase = "reselected" => t.fresh = row
                            /\ t.op \in Transitions => <<row.status, t.op>> \in Allowed
                            /\ t.op = "converted" => row.status = "accepted"
                            /\ t.op = "delete" => row.status \in StoredQuotes \ {"converted"}
      BY DEF ReadsCurrent
    <2>1. CASE o = r
      BY <1>1, <2>1 DEF Transitions
    <2>2. CASE o # r /\ tx[o].op # "none"
      BY <1>1, <1>2, <2>2 DEF PipelineInv, ReadsCurrent
    <2>3. CASE o # r /\ tx[o].op = "none"
      BY <1>1, <2>3 DEF QuoteTypeInv, RequestShape, Transitions
    <2> QED
      BY <2>1, <2>2, <2>3
  <1>5. DraftsTraced'
    BY <1>1 DEF PipelineInv, DraftsTraced
  <1> QED
    BY <1>3, <1>4, <1>5 DEF PipelineInv

\* When reads are current, the merged row is the row the use case meant to write.
LEMMA MergedIsIntended ==
    ASSUME QuoteTypeInv, PipelineInv, NEW r \in Requests, tx[r].op # "none", tx[r].phase = "reselected"
    PROVE  Merged(tx[r]).status = tx[r].op /\ Merged(tx[r]).invoice = Link(tx[r])
  <1>1. tx[r].fresh = quotes[tx[r].quote]
    BY DEF PipelineInv, ReadsCurrent
  <1> QED
    BY <1>1 DEF Merged, Column

\* With serial callers every action keeps reads current.
LEMMA PipelineStep ==
    ASSUME Serial, QuoteTypeInv, PipelineInv, [QuoteNext]_quoteVars
    PROVE  PipelineInv'
  <1> DEFINE Alone(r, q) == \A o \in Requests \ {r} : tx[o].op # "none" => tx[o].quote # q
  <1>1. ASSUME NEW q \in Quotes, Create(q) PROVE PipelineInv'
    <2>1. \A r \in Requests : tx[r].op # "none" => tx[r].quote # q
      BY <1>1, ActiveStored DEF Create, StoredQuotes
    <2>2. tx' = tx /\ drafts' = drafts /\ \A p \in Quotes : p # q => quotes'[p] = quotes[p]
      BY <1>1 DEF Create, QuoteTypeInv, QuoteTypeOK
    <2>3. \A r \in Requests : tx[r].op # "none" => quotes'[tx[r].quote] = quotes[tx[r].quote]
      BY <2>1, <2>2 DEF QuoteTypeInv, RequestShape
    <2>4. ReadsCurrent'
      <3> SUFFICES ASSUME NEW o \in Requests
                   PROVE  LET t == tx[o]
                              row == quotes'[t.quote]
                          IN  /\ t.op # "none" => t.old = row
                              /\ t.phase = "reselected" => t.fresh = row
                              /\ t.op \in Transitions => <<row.status, t.op>> \in Allowed
                              /\ t.op = "converted" => row.status = "accepted"
                              /\ t.op = "delete" => row.status \in StoredQuotes \ {"converted"}
        BY <2>2 DEF ReadsCurrent
      <3>1. CASE tx[o].op # "none"
        BY <2>3, <3>1 DEF PipelineInv, ReadsCurrent
      <3>2. CASE tx[o].op = "none"
        BY <3>2 DEF QuoteTypeInv, RequestShape, Transitions
      <3> QED
        BY <3>1, <3>2
    <2> QED
      BY <2>2, <2>4 DEF PipelineInv, OnePerQuote, DraftsTraced
  <1>2. ASSUME NEW d \in Drafts, DeleteInvoice(d) PROVE PipelineInv'
    <2>1. tx' = tx /\ quotes' = quotes
      BY <1>2 DEF DeleteInvoice
    <2>2. \A c \in Drafts : drafts[c].status # "absent" =>
              drafts'[c].of = drafts[c].of /\ drafts'[c].status # "absent"
      BY <1>2 DEF DeleteInvoice, QuoteTypeInv, QuoteTypeOK
    <2>3. DraftsTraced'
      BY <2>1, <2>2 DEF PipelineInv, DraftsTraced, QuoteTypeInv, RequestShape
    <2> QED
      BY <2>1, <2>3 DEF PipelineInv, OnePerQuote, ReadsCurrent
  <1>3. ASSUME NEW r \in Requests, Begin(r) PROVE PipelineInv'
    <2>1. PICK stage \in {"read", "checked"}, op \in Ops \ {"none"}, q \in Quotes :
             /\ tx' = [tx EXCEPT ![r] = At(stage, op, q, None, quotes[q], AbsentQuote)]
             /\ UNCHANGED <<quotes, drafts, returned>>
             /\ May(r, q)
             /\ op = "converted" <=> stage = "checked"
             /\ op \in Transitions => <<quotes[q].status, op>> \in Allowed
             /\ op = "converted" => quotes[q].status = "accepted"
             /\ op = "delete" => quotes[q].status \in StoredQuotes \ {"converted"}
      BY <1>3 DEF Begin, BeginTransition, BeginConvert, BeginDelete, Ops, Transitions
    <2> DEFINE e == At(stage, op, q, None, quotes[q], AbsentQuote)
    <2>2. Alone(r, q)
      BY <2>1 DEF May, Active, QuoteTypeInv, RequestShape
    <2>3. e.phase = stage /\ e.op = op /\ e.quote = q /\ e.old = quotes[q]
      BY DEF At
    <2>4. tx'[r] = e /\ \A o \in Requests \ {r} : tx'[o] = tx[o]
      BY <2>1 DEF QuoteTypeInv, QuoteTypeOK
    <2> HIDE DEF e
    <2> QED
      BY <2>1, <2>2, <2>3, <2>4, OwnerStep
  <1>4. ASSUME NEW r \in Requests, Work(r) PROVE PipelineInv'
    <2> DEFINE t == tx[r]
    <2>1. t.op # "none"
      BY <1>4 DEF Work, CreateInvoice, ReadForConvert, Reselect, InsertAudit, ReselectDelete, QuoteTypeInv, RequestShape
    <2>2. Alone(r, t.quote) /\ t.quote \in Quotes
      BY <2>1 DEF PipelineInv, OnePerQuote, QuoteTypeInv, RequestShape
    <2>3. /\ t.old = quotes[t.quote]
          /\ t.op \in Transitions => <<quotes[t.quote].status, t.op>> \in Allowed
          /\ t.op = "converted" => quotes[t.quote].status = "accepted"
          /\ t.op = "delete" => quotes[t.quote].status \in StoredQuotes \ {"converted"}
      BY <2>1 DEF PipelineInv, ReadsCurrent
    <2> DEFINE Moves(stage, d, fresh) ==
             /\ tx' = [tx EXCEPT ![r] = At(stage, t.op, t.quote, d, quotes[t.quote], fresh)]
             /\ quotes' = quotes
             /\ stage = "reselected" => fresh = quotes[t.quote]
             /\ \A c \in Drafts : drafts[c].status # "absent" =>
                    drafts'[c].of = drafts[c].of /\ drafts'[c].status # "absent"
             /\ t.op = "converted" => d \in Drafts /\ drafts'[d].of = t.quote /\ drafts'[d].status # "absent"
    <2>4. PICK stage \in Phases, d \in Drafts \cup {None}, fresh \in QuoteRow : Moves(stage, d, fresh)
      <3>1. ASSUME NEW d \in Drafts, CreateInvoice(r, d)
            PROVE  \E stage \in Phases, fresh \in QuoteRow : Moves(stage, d, fresh)
        <4>1. drafts' = [drafts EXCEPT ![d] = [of |-> t.quote, status |-> "draft"]] /\ drafts[d].status = "absent"
          BY <3>1 DEF CreateInvoice
        <4>2. /\ \A c \in Drafts : drafts[c].status # "absent" =>
                     drafts'[c].of = drafts[c].of /\ drafts'[c].status # "absent"
              /\ drafts'[d].of = t.quote /\ drafts'[d].status # "absent"
          BY <4>1 DEF QuoteTypeInv, QuoteTypeOK
        <4>3. /\ tx' = [tx EXCEPT ![r] = At("drafted", t.op, t.quote, d, quotes[t.quote], AbsentQuote)]
              /\ quotes' = quotes
          BY <2>3, <3>1 DEF CreateInvoice, QuoteTypeInv, RequestShape
        <4>4. "drafted" \in Phases /\ AbsentQuote \in QuoteRow /\ "drafted" # "reselected"
          BY AbsentType DEF Phases
        <4> HIDE DEF t
        <4> QED
          BY <4>2, <4>3, <4>4
      <3>2. CASE ReadForConvert(r) \/ Reselect(r) \/ InsertAudit(r) \/ ReselectDelete(r)
        <4>1. drafts' = drafts /\ quotes' = quotes
          BY <3>2 DEF ReadForConvert, Reselect, InsertAudit, ReselectDelete
        <4>2. t.op = "converted" => t.draft \in Drafts /\ drafts[t.draft].of = t.quote
                                     /\ drafts[t.draft].status # "absent"
          BY <3>2 DEF ReadForConvert, Reselect, InsertAudit, ReselectDelete, QuoteTypeInv, RequestShape,
                      PipelineInv, DraftsTraced
        <4>3. quotes[t.quote] \in QuoteRow /\ t.draft \in Drafts \cup {None}
          BY <2>2, TxFields DEF QuoteTypeInv, QuoteTypeOK
        <4>4. CASE ReadForConvert(r)
          <5>1. tx' = [tx EXCEPT ![r] = At("read", t.op, t.quote, t.draft, quotes[t.quote], AbsentQuote)]
            BY <4>4 DEF ReadForConvert, QuoteTypeInv, RequestShape
          <5>2. "read" \in Phases /\ "read" # "reselected"
            BY DEF Phases
          <5>3. Moves("read", t.draft, AbsentQuote)
            BY <4>1, <4>2, <5>1, <5>2
          <5> HIDE DEF Moves
          <5> QED
            BY <4>3, <5>2, <5>3, AbsentType
        <4>5. CASE Reselect(r)
          <5>1. tx' = [tx EXCEPT ![r] = At("reselected", t.op, t.quote, t.draft, quotes[t.quote], quotes[t.quote])]
            BY <2>3, <4>5 DEF Reselect
          <5>2. "reselected" \in Phases
            BY DEF Phases
          <5> HIDE DEF t
          <5> QED
            BY <4>1, <4>2, <4>3, <5>1, <5>2
        <4>6. CASE InsertAudit(r)
          <5>1. /\ tx' = [tx EXCEPT ![r] = At("audited", t.op, t.quote, None, quotes[t.quote], AbsentQuote)]
                /\ t.op = "delete"
            BY <2>3, <4>6 DEF InsertAudit
          <5>2. "audited" \in Phases /\ "audited" # "reselected"
            BY DEF Phases
          <5> HIDE DEF t
          <5> QED
            BY <4>1, <4>3, <5>1, <5>2, AbsentType
        <4>7. CASE ReselectDelete(r)
          <5>1. /\ tx' = [tx EXCEPT ![r] = At("reselected", t.op, t.quote, None, quotes[t.quote], quotes[t.quote])]
                /\ t.op = "delete"
            BY <2>3, <4>7 DEF ReselectDelete, QuoteTypeInv, RequestShape
          <5>2. "reselected" \in Phases
            BY DEF Phases
          <5> HIDE DEF t
          <5> QED
            BY <4>1, <4>3, <5>1, <5>2
        <4> QED
          BY <3>2, <4>4, <4>5, <4>6, <4>7
      <3> QED
        BY <1>4, <3>1, <3>2 DEF Work
    <2> DEFINE e == At(stage, t.op, t.quote, d, quotes[t.quote], fresh)
    <2>5. /\ e.phase = stage /\ e.op = t.op /\ e.quote = t.quote /\ e.draft = d
          /\ e.old = quotes[t.quote] /\ e.fresh = fresh
      BY DEF At
    <2>6. tx'[r] = e /\ \A o \in Requests \ {r} : tx'[o] = tx[o]
      BY <2>4 DEF QuoteTypeInv, QuoteTypeOK
    <2> HIDE DEF e, t
    <2> QED
      BY <2>2, <2>3, <2>4, <2>5, <2>6, OwnerStep
  <1>5. ASSUME NEW r \in Requests, Fail(r) \/ CommitTransition(r) \/ CommitDelete(r) PROVE PipelineInv'
    <2>1. /\ tx[r].op # "none" /\ tx' = [tx EXCEPT ![r] = Idle] /\ drafts' = drafts
          /\ \A q \in Quotes : q # tx[r].quote => quotes'[q] = quotes[q]
      BY <1>5 DEF Fail, CommitTransition, CommitDelete, Active, QuoteTypeInv, QuoteTypeOK, RequestShape
    <2> QED
      BY <2>1, EndStep
  <1>6. CASE UNCHANGED quoteVars
    BY <1>6 DEF quoteVars, PipelineInv, OnePerQuote, ReadsCurrent, DraftsTraced
  <1> QED
    BY <1>1, <1>2, <1>3, <1>4, <1>5, <1>6 DEF QuoteNext

\* What happens to one quote's row in a step.
LEMMA RowStep ==
    ASSUME QuoteTypeInv, PipelineInv, [QuoteNext]_quoteVars, NEW q \in Quotes, quotes'[q] # quotes[q]
    PROVE  \/ /\ quotes[q].status = "absent" /\ returned' = returned
              /\ quotes'[q].status = "draft" /\ quotes'[q].invoice = None
           \/ \E r \in Requests :
                 /\ CommitTransition(r) /\ tx[r].quote = q /\ tx[r].op # "none"
                 /\ quotes'[q].status = tx[r].op /\ quotes'[q].invoice = Link(tx[r])
                 /\ <<quotes[q].status, tx[r].op>> \in Allowed
           \/ /\ quotes[q].status \in StoredQuotes \ {"converted"} /\ returned' = returned
              /\ quotes'[q].status = "deleted" /\ quotes'[q].invoice = None
  <1>1. CASE Create(q)
    BY <1>1 DEF Create, QuoteTypeInv, QuoteTypeOK
  <1>2. ASSUME NEW r \in Requests, CommitTransition(r), tx[r].quote = q
        PROVE  /\ tx[r].op # "none"
               /\ quotes'[q].status = tx[r].op /\ quotes'[q].invoice = Link(tx[r])
               /\ <<quotes[q].status, tx[r].op>> \in Allowed
    <2>1. tx[r].op # "none" /\ tx[r].phase = "reselected" /\ tx[r].op # "delete"
      BY <1>2 DEF CommitTransition, QuoteTypeInv, RequestShape
    <2>2. quotes'[q] = Merged(tx[r])
      BY <1>2 DEF CommitTransition, QuoteTypeInv, QuoteTypeOK
    <2>3. tx[r].op \in Transitions \cup {"converted"}
      BY <2>1, TxFields DEF QuoteTypeInv, Ops
    <2>4. <<quotes[q].status, tx[r].op>> \in Allowed
      <3>1. CASE tx[r].op \in Transitions
        BY <1>2, <3>1 DEF PipelineInv, ReadsCurrent
      <3>2. CASE tx[r].op = "converted"
        BY <1>2, <3>2 DEF PipelineInv, ReadsCurrent, Allowed
      <3> QED
        BY <2>3, <3>1, <3>2
    <2> QED
      BY <2>1, <2>2, <2>4, MergedIsIntended
  <1>3. ASSUME NEW r \in Requests, CommitDelete(r), tx[r].quote = q
        PROVE  /\ quotes[q].status \in StoredQuotes \ {"converted"} /\ returned' = returned
               /\ quotes'[q].status = "deleted" /\ quotes'[q].invoice = None
    BY <1>3 DEF CommitDelete, QuoteTypeInv, QuoteTypeOK, PipelineInv, ReadsCurrent
  <1>4. \/ Create(q)
        \/ \E r \in Requests : (CommitTransition(r) \/ CommitDelete(r)) /\ tx[r].quote = q
    <2>1. ASSUME NEW p \in Quotes, Create(p) PROVE p = q
      BY <2>1 DEF Create, QuoteTypeInv, QuoteTypeOK
    <2>2. ASSUME NEW d \in Drafts, DeleteInvoice(d) PROVE FALSE
      BY <2>2 DEF DeleteInvoice
    <2>3. ASSUME NEW r \in Requests, Begin(r) \/ Work(r) \/ Fail(r) PROVE FALSE
      BY <2>3 DEF Begin, BeginTransition, BeginConvert, BeginDelete, Work, CreateInvoice,
                  ReadForConvert, Reselect, InsertAudit, ReselectDelete, Fail
    <2>4. ASSUME NEW r \in Requests, CommitTransition(r) \/ CommitDelete(r) PROVE tx[r].quote = q
      BY <2>4 DEF CommitTransition, CommitDelete, QuoteTypeInv, QuoteTypeOK
    <2>5. ~UNCHANGED quoteVars
      BY DEF quoteVars
    <2> QED
      BY <2>1, <2>2, <2>3, <2>4, <2>5 DEF QuoteNext
  <1> QED
    BY <1>1, <1>2, <1>3, <1>4

\* What happens to the answers and to the drafts in a step.
LEMMA AnswerStep ==
    ASSUME QuoteTypeInv, PipelineInv, [QuoteNext]_quoteVars
    PROVE  /\ \A d \in Drafts : drafts[d].status # "absent" =>
                  drafts'[d].of = drafts[d].of /\ drafts'[d].status # "absent"
           /\ \/ returned' = returned
              \/ \E r \in Requests :
                    /\ tx[r].op = "converted" /\ tx[r].draft \in Drafts /\ tx[r].quote \in Quotes
                    /\ returned' = returned \cup {[quote |-> tx[r].quote, draft |-> tx[r].draft]}
                    /\ quotes[tx[r].quote].status = "accepted"
                    /\ quotes'[tx[r].quote].status = "converted"
                    /\ quotes'[tx[r].quote].invoice = tx[r].draft
                    /\ drafts'[tx[r].draft].of = tx[r].quote /\ drafts'[tx[r].draft].status # "absent"
  <1>1. ASSUME NEW r \in Requests, CommitTransition(r), returned' # returned
        PROVE  /\ tx[r].op = "converted" /\ tx[r].draft \in Drafts /\ tx[r].quote \in Quotes
               /\ returned' = returned \cup {[quote |-> tx[r].quote, draft |-> tx[r].draft]}
               /\ quotes[tx[r].quote].status = "accepted"
               /\ quotes'[tx[r].quote].status = "converted"
               /\ quotes'[tx[r].quote].invoice = tx[r].draft
               /\ drafts'[tx[r].draft].of = tx[r].quote /\ drafts'[tx[r].draft].status # "absent"
    <2>1. /\ tx[r].op = "converted" /\ tx[r].phase = "reselected" /\ drafts' = drafts
          /\ returned' = returned \cup {[quote |-> tx[r].quote, draft |-> tx[r].draft]}
      BY <1>1 DEF CommitTransition
    <2>2. tx[r].draft \in Drafts /\ tx[r].quote \in Quotes
      BY <2>1 DEF QuoteTypeInv, RequestShape
    <2>3. quotes'[tx[r].quote] = Merged(tx[r])
      BY <1>1, <2>2 DEF CommitTransition, QuoteTypeInv, QuoteTypeOK
    <2>4. Merged(tx[r]).status = "converted" /\ Merged(tx[r]).invoice = tx[r].draft
      BY <2>1, MergedIsIntended DEF Link
    <2>5. quotes[tx[r].quote].status = "accepted"
      BY <2>1 DEF PipelineInv, ReadsCurrent
    <2>6. drafts'[tx[r].draft].of = tx[r].quote /\ drafts'[tx[r].draft].status # "absent"
      BY <2>1 DEF PipelineInv, DraftsTraced
    <2> QED
      BY <2>1, <2>2, <2>3, <2>4, <2>5, <2>6
  <1>2. returned' # returned => \E r \in Requests : CommitTransition(r)
    BY DEF QuoteNext, quoteVars, Create, DeleteInvoice, Begin, BeginTransition, BeginConvert, BeginDelete, Work,
           CreateInvoice, ReadForConvert, Reselect, InsertAudit, ReselectDelete, Fail, CommitDelete
  <1> DEFINE DraftsStay == \A d \in Drafts : drafts[d].status # "absent" =>
                       drafts'[d].of = drafts[d].of /\ drafts'[d].status # "absent"
  <1>3. DraftsStay
    <2>1. ASSUME NEW c \in Drafts, DeleteInvoice(c) PROVE DraftsStay
      BY <2>1 DEF DeleteInvoice, QuoteTypeInv, QuoteTypeOK
    <2>2. ASSUME NEW r \in Requests, NEW c \in Drafts, CreateInvoice(r, c) PROVE DraftsStay
      BY <2>2 DEF CreateInvoice, QuoteTypeInv, QuoteTypeOK
    <2>3. \/ drafts' = drafts
          \/ \E c \in Drafts : DeleteInvoice(c) \/ \E r \in Requests : CreateInvoice(r, c)
      BY DEF QuoteNext, quoteVars, Create, Begin, BeginTransition, BeginConvert, BeginDelete, Work,
             ReadForConvert, Reselect, InsertAudit, ReselectDelete, Fail, CommitTransition, CommitDelete
    <2> QED
      BY <2>1, <2>2, <2>3
  <1> QED
    BY <1>1, <1>2, <1>3

\* An answered conversion is never undone.
LEMMA AnswersStep ==
    ASSUME QuoteTypeInv, PipelineInv, Answers, [QuoteNext]_quoteVars, QuoteTypeInv'
    PROVE  Answers'
  <1>1. ASSUME NEW c \in returned
        PROVE  /\ quotes'[c.quote] = quotes[c.quote]
               /\ drafts'[c.draft].of = c.quote /\ drafts'[c.draft].status # "absent"
    <2>1. c.quote \in Quotes /\ c.draft \in Drafts
      BY DEF QuoteTypeInv, QuoteTypeOK
    <2>2. quotes[c.quote].status = "converted" /\ drafts[c.draft].of = c.quote /\ drafts[c.draft].status # "absent"
      BY DEF Answers, ConvertHonoured
    <2>3. quotes'[c.quote] = quotes[c.quote]
      BY <2>1, <2>2, RowStep DEF Allowed, StoredQuotes
    <2> QED
      BY <2>1, <2>2, <2>3, AnswerStep
  <1>2. ASSUME NEW c \in returned'
        PROVE  /\ quotes'[c.quote].status = "converted" /\ quotes'[c.quote].invoice = c.draft
               /\ drafts'[c.draft].of = c.quote /\ drafts'[c.draft].status # "absent"
    <2>1. CASE c \in returned
      BY <1>1, <2>1 DEF Answers, ConvertHonoured
    <2>2. CASE c \notin returned
      BY <2>2, AnswerStep
    <2> QED
      BY <2>1, <2>2
  <1>3. ASSUME NEW q \in Quotes, quotes'[q].status # "converted" PROVE quotes'[q].invoice = None
    <2>1. CASE quotes'[q] = quotes[q]
      BY <1>3, <2>1 DEF Answers
    <2>2. ASSUME NEW r \in Requests, tx[r].quote = q, tx[r].op # "none",
                 quotes'[q].status = tx[r].op, quotes'[q].invoice = Link(tx[r])
          PROVE  quotes'[q].invoice = None
      <3>1. tx[r].old = quotes[q] /\ quotes[q].status # "converted"
        BY <2>2, ActiveStored DEF PipelineInv, ReadsCurrent
      <3> QED
        BY <1>3, <2>2, <3>1 DEF Link, Answers
    <2> QED
      BY <2>1, <2>2, RowStep
  <1> QED
    BY <1>2, <1>3 DEF Answers, ConvertHonoured

\* The initial states satisfy the whole invariant.
LEMMA PipelineStart == QuoteInit => PipelineInv /\ Answers
  <1> SUFFICES ASSUME QuoteInit PROVE PipelineInv /\ Answers
    OBVIOUS
  <1>1. \A r \in Requests : tx[r].op = "none" /\ tx[r].phase = "idle"
    BY IdleType DEF QuoteInit
  <1>2. PipelineInv
    BY <1>1 DEF PipelineInv, OnePerQuote, ReadsCurrent, DraftsTraced, Transitions
  <1>3. Answers
    BY DEF QuoteInit, Answers, ConvertHonoured, AbsentQuote
  <1> QED
    BY <1>2, <1>3

\* With one request in flight per quote, a conversion that was answered with success stays the
\* one its quote is linked to, whatever fails and whatever is deleted.
THEOREM SerialConversions == Serial => (QuoteSpec => []ConvertHonoured)
  <1> SUFFICES ASSUME Serial PROVE QuoteSpec => []ConvertHonoured
    OBVIOUS
  <1> DEFINE Inv == QuoteTypeInv /\ PipelineInv /\ Answers
  <1>1. QuoteInit => Inv
    BY TypeStart, PipelineStart
  <1>2. Inv /\ [QuoteNext]_quoteVars => Inv'
    BY TypeStep, PipelineStep, AnswersStep
  <1>3. Inv => ConvertHonoured
    BY DEF Answers
  <1> QED
    BY <1>1, <1>2, <1>3, PTL DEF QuoteSpec

\* With one request in flight per quote, a status only moves along _ALLOWED, however many
\* quotes are worked on at the same time: a decided quote stays decided.
THEOREM SerialDecisions == Serial => (QuoteSpec => DecidedStaysDecided)
  <1> SUFFICES ASSUME Serial PROVE QuoteSpec => DecidedStaysDecided
    OBVIOUS
  <1> DEFINE Inv == QuoteTypeInv /\ PipelineInv
             Step == \A q \in Quotes :
                LET before == quotes[q].status
                    after == quotes'[q].status
                IN  after # before =>
                      \/ before = "absent" /\ after = "draft"
                      \/ <<before, after>> \in Allowed
                      \/ after = "deleted" /\ before \in StoredQuotes \ {"converted"}
  <1>1. QuoteInit => Inv
    BY TypeStart, PipelineStart
  <1>2. Inv /\ [QuoteNext]_quoteVars => Inv'
    BY TypeStep, PipelineStep
  <1>3. Inv /\ [QuoteNext]_quoteVars => [Step]_quotes
    <2> SUFFICES ASSUME Inv, [QuoteNext]_quoteVars, NEW q \in Quotes, quotes'[q].status # quotes[q].status
                 PROVE  \/ quotes[q].status = "absent" /\ quotes'[q].status = "draft"
                        \/ <<quotes[q].status, quotes'[q].status>> \in Allowed
                        \/ quotes'[q].status = "deleted" /\ quotes[q].status \in StoredQuotes \ {"converted"}
      OBVIOUS
    <2>1. quotes'[q] # quotes[q]
      OBVIOUS
    <2> QED
      BY <2>1, RowStep
  <1> HIDE DEF Inv
  <1>4. QuoteSpec => [][Step]_quotes
    BY <1>1, <1>2, <1>3, PTL DEF QuoteSpec
  <1> QED
    BY <1>4 DEF DecidedStaysDecided

-----------------------------------------------------------------------------
(***************************************************************************)
(* BackupRestore, for any books and any number of backups and restores: a  *)
(* number is never given out twice.  The argument is the order of export's *)
(* reads: what it has copied is at most the live counter, and stays so     *)
(* until the counters themselves are copied.                               *)
(***************************************************************************)

Series == {"invoice", "credit_note"}

\* The columns the numbering needs, of the live tables, a copy or a file.
Tables(inv, notes) ==
    /\ inv = [i \in Invoices |-> inv[i]]
    /\ \A i \in Invoices : inv[i].seq \in Nat
    /\ \A n \in notes : n.seq \in Nat

LiveOK ==
    /\ counter \in [Series -> Nat]
    /\ Tables(invoices, creditNotes)
    /\ OnceIn(invoices, creditNotes, counter)

\* The copies are judged by the live counters: theirs are not read yet.
ExportOK ==
    /\ export = [phase |-> export.phase, invoices |-> export.invoices, notes |-> export.notes,
                 paid |-> export.paid, unread |-> export.unread]
    /\ Tables(export.invoices, export.notes)
    /\ OnceIn(export.invoices, export.notes, counter)

FileOK ==
    file # NoFile =>
        /\ file.counter \in [Series -> Nat]
        /\ Tables(file.invoices, file.notes)
        /\ OnceIn(file.invoices, file.notes, file.counter)

BackupInv == LiveOK /\ ExportOK /\ FileOK

-----------------------------------------------------------------------------
\* A counter that moves on covers what it covered.
LEMMA OnceGrows ==
  ASSUME NEW inv, NEW notes, NEW c \in [Series -> Nat], NEW d \in [Series -> Nat],
         Tables(inv, notes), OnceIn(inv, notes, c),
         \A s \in Series : c[s] <= d[s]
  PROVE  OnceIn(inv, notes, d)
  BY DEF Tables, OnceIn, Series

\* Rows that keep their numbers keep the series.
LEMMA OnceKept ==
  ASSUME NEW inv, NEW notes, NEW c \in [Series -> Nat], NEW i \in Invoices, NEW row,
         Tables(inv, notes), OnceIn(inv, notes, c),
         row.seq = inv[i].seq \/ row.seq = 0
  PROVE  /\ Tables([inv EXCEPT ![i] = row], notes)
         /\ OnceIn([inv EXCEPT ![i] = row], notes, c)
  <1> DEFINE new == [inv EXCEPT ![i] = row]
  <1>1. new = [j \in Invoices |-> IF j = i THEN row ELSE inv[j]]
    BY DEF Tables
  <1>2. \A j \in Invoices : new[j].seq = inv[j].seq \/ new[j].seq = 0
    BY <1>1
  <1>3. new = [j \in Invoices |-> new[j]]
    BY <1>1
  <1> HIDE DEF new
  <1>4. Tables(new, notes)
    BY <1>2, <1>3 DEF Tables
  <1>5. OnceIn(new, notes, c)
    BY <1>2 DEF Tables, OnceIn, Numbered, Series
  <1> QED
    BY <1>4, <1>5 DEF new

LEMMA NothingOnce ==
  ASSUME NEW c \in [Series -> Nat]
  PROVE  Tables(Nothing, {}) /\ OnceIn(Nothing, {}, c)
  BY DEF Tables, OnceIn, Nothing, AbsentRow, Unnumbered, Numbered, Series

LEMMA BackupBase == BackupInit => BackupInv
  <1> SUFFICES ASSUME BackupInit
               PROVE  BackupInv
    OBVIOUS
  <1>1. counter \in [Series -> Nat]
    BY DEF BackupInit, LedgerInit, Series
  <1>2. invoices = Nothing /\ creditNotes = {}
    BY DEF BackupInit, LedgerInit, Nothing
  <1>3. LiveOK
    BY <1>1, <1>2, NothingOnce DEF LiveOK
  <1>4. ExportOK
    BY <1>1, NothingOnce DEF BackupInit, NoExport, ExportOK
  <1>5. FileOK
    BY DEF BackupInit, FileOK
  <1> QED
    BY <1>3, <1>4, <1>5 DEF BackupInv

\* A use case leaves the books in order and no counter moves back.
LEMMA LedgerKeeps ==
  ASSUME LiveOK, LedgerNext
  PROVE  LiveOK' /\ \A s \in Series : counter[s] <= counter'[s]
  <1> PICK i \in Invoices :
        \/ CreateDraft(i)
        \/ \E m \in Months : Issue(i, m)
        \/ \E amount \in 1..Total : Record(i, amount)
        \/ Void(i)
        \/ Credit(i)
        \/ DeleteDraft(i)
    BY DEF LedgerNext
  <1> USE DEF LiveOK
  <1>1. ASSUME NEW row, row.seq = invoices[i].seq \/ row.seq = 0,
               invoices' = [invoices EXCEPT ![i] = row], UNCHANGED <<creditNotes, counter>>
        PROVE  LiveOK' /\ \A s \in Series : counter[s] <= counter'[s]
    <2>1. /\ Tables([invoices EXCEPT ![i] = row], creditNotes)
          /\ OnceIn([invoices EXCEPT ![i] = row], creditNotes, counter)
      BY <1>1, OnceKept
    <2>2. Tables(invoices', creditNotes') /\ OnceIn(invoices', creditNotes', counter')
      BY <1>1, <2>1
    <2>3. counter' \in [Series -> Nat] /\ \A s \in Series : counter[s] <= counter'[s]
      BY <1>1 DEF Series
    <2> QED
      BY <2>2, <2>3
  <1>2. CASE CreateDraft(i)
    BY <1>1, <1>2 DEF CreateDraft, DraftRow, Unnumbered
  <1>3. CASE DeleteDraft(i)
    BY <1>1, <1>3 DEF DeleteDraft, DeletedRow, Unnumbered
  <1>4. CASE Void(i)
    BY <1>1, <1>4 DEF Void, VoidedRow, WithStatus
  <1>5. ASSUME NEW amount, Record(i, amount)
        PROVE  LiveOK' /\ \A s \in Series : counter[s] <= counter'[s]
    BY <1>1, <1>5 DEF Record, PaidRow, WithStatus
  <1>6. ASSUME NEW m, Issue(i, m)
        PROVE  LiveOK' /\ \A s \in Series : counter[s] <= counter'[s]
    <2> DEFINE n == counter["invoice"] + 1
    <2>1. PICK ref : invoices' = [invoices EXCEPT ![i] = IssuedRow(@, n, ref)]
      BY <1>6 DEF Issue
    <2>2. /\ counter' = [counter EXCEPT !["invoice"] = n]
          /\ creditNotes' = creditNotes
      BY <1>6 DEF Issue
    <2>3. /\ counter' \in [Series -> Nat]
          /\ counter'["invoice"] = n /\ counter'["credit_note"] = counter["credit_note"]
      BY <2>2 DEF Series
    <2>4. /\ invoices' = [j \in Invoices |-> invoices'[j]]
          /\ invoices'[i].seq = n
          /\ \A j \in Invoices \ {i} : invoices'[j] = invoices[j]
      BY <2>1 DEF Tables, IssuedRow
    <2>5. Tables(invoices', creditNotes')
      BY <2>2, <2>4 DEF Tables, Series
    <2>6. OnceIn(invoices', creditNotes', counter')
      BY <2>2, <2>3, <2>4 DEF Tables, OnceIn, Numbered, Series
    <2> QED
      BY <2>3, <2>5, <2>6 DEF Series
  <1>7. CASE Credit(i)
    <2> DEFINE n == counter["credit_note"] + 1
               row == CreditedRow(invoices[i], n)
               note == [seq |-> n, invoice |-> i]
    <2>1. /\ invoices' = [invoices EXCEPT ![i] = row]
          /\ creditNotes' = creditNotes \cup {note}
          /\ counter' = [counter EXCEPT !["credit_note"] = n]
      BY <1>7 DEF Credit
    <2>2. Tables(invoices', creditNotes) /\ OnceIn(invoices', creditNotes, counter)
      BY <2>1, OnceKept DEF CreditedRow
    <2>3. /\ counter' \in [Series -> Nat]
          /\ counter'["invoice"] = counter["invoice"] /\ counter'["credit_note"] = n
      BY <2>1 DEF Series
    <2>4. note.seq = n
      OBVIOUS
    <2> HIDE DEF note
    <2>5. Tables(invoices', creditNotes')
      BY <2>1, <2>2, <2>4 DEF Tables, Series
    <2>6. OnceIn(invoices', creditNotes', counter')
      BY <2>1, <2>2, <2>3, <2>4 DEF Tables, OnceIn, Series
    <2> QED
      BY <2>3, <2>5, <2>6 DEF Series
  <1> QED
    BY <1>2, <1>3, <1>4, <1>5, <1>6, <1>7

LEMMA BackupStep == BackupInv /\ [BackupNext]_backupVars => BackupInv'
  <1> SUFFICES ASSUME BackupInv, [BackupNext]_backupVars
               PROVE  BackupInv'
    OBVIOUS
  <1> USE DEF BackupInv
  <1>1. CASE LedgerStep
    <2>1. LiveOK' /\ \A s \in Series : counter[s] <= counter'[s]
      BY <1>1, LedgerKeeps DEF LedgerStep
    <2>2. ExportOK'
      BY <1>1, <2>1, OnceGrows DEF LedgerStep, ExportOK, LiveOK
    <2>3. FileOK'
      BY <1>1 DEF LedgerStep, FileOK
    <2> QED
      BY <2>1, <2>2, <2>3
  <1>2. CASE ReadInvoices
    <2> DEFINE copy == [i \in Invoices |-> IF InTable(invoices[i]) THEN invoices[i] ELSE AbsentRow]
    <2>1. \A i \in Invoices : copy[i].seq = invoices[i].seq \/ copy[i].seq = 0
      BY DEF AbsentRow, Unnumbered
    <2>2. Tables(copy, {})
      BY <2>1 DEF LiveOK, Tables
    <2>3. OnceIn(copy, {}, counter)
      <3> HIDE DEF copy
      <3> QED
        BY <2>1 DEF LiveOK, Tables, OnceIn, Numbered, Series
    <2>4. /\ export' = [phase |-> "credit_notes", invoices |-> copy, notes |-> {},
                        paid |-> export'.paid, unread |-> export'.unread]
          /\ UNCHANGED <<invoices, creditNotes, counter, file>>
      BY <1>2 DEF ReadInvoices, NoExport, books
    <2>5. ExportOK'
      <3> HIDE DEF copy
      <3> QED
        BY <2>2, <2>3, <2>4 DEF ExportOK
    <2>6. LiveOK' /\ FileOK'
      BY <2>4 DEF LiveOK, FileOK
    <2> QED
      BY <2>5, <2>6
  <1>3. CASE ReadCreditNotes
    <2>1. /\ export'.invoices = export.invoices /\ export'.notes = creditNotes
          /\ export' = [phase |-> export'.phase, invoices |-> export'.invoices,
                        notes |-> export'.notes, paid |-> export'.paid,
                        unread |-> export'.unread]
          /\ UNCHANGED <<invoices, creditNotes, counter, file>>
      BY <1>3 DEF ReadCreditNotes, ExportOK, books
    <2>2. ExportOK'
      BY <2>1 DEF ExportOK, LiveOK, Tables, OnceIn
    <2>3. LiveOK' /\ FileOK'
      BY <2>1 DEF LiveOK, FileOK
    <2> QED
      BY <2>2, <2>3
  <1>4. ASSUME NEW i \in Invoices, ReadPayments(i)
        PROVE  BackupInv'
    <2>1. /\ export'.invoices = export.invoices /\ export'.notes = export.notes
          /\ export' = [phase |-> export'.phase, invoices |-> export'.invoices,
                        notes |-> export'.notes, paid |-> export'.paid,
                        unread |-> export'.unread]
          /\ UNCHANGED <<invoices, creditNotes, counter, file>>
      BY <1>4 DEF ReadPayments, ExportOK, books
    <2> QED
      BY <2>1 DEF ExportOK, LiveOK, FileOK
  <1>5. CASE ReadSequences
    <2>1. /\ file' = [invoices |-> export.invoices, notes |-> export.notes,
                      paid |-> export.paid, counter |-> counter, bucket |-> bucket]
          /\ export' = NoExport
          /\ UNCHANGED <<invoices, creditNotes, counter>>
      BY <1>5 DEF ReadSequences, File, books
    <2>2. FileOK'
      BY <2>1 DEF FileOK, ExportOK, LiveOK
    <2>3. LiveOK' /\ ExportOK'
      BY <2>1, NothingOnce DEF LiveOK, ExportOK, NoExport
    <2> QED
      BY <2>2, <2>3
  <1>6. CASE Restore
    <2>1. /\ file # NoFile /\ file' = NoFile /\ export' = NoExport
          /\ invoices' = file.invoices /\ creditNotes' = file.notes /\ counter' = file.counter
      BY <1>6 DEF Restore
    <2>2. LiveOK'
      BY <2>1 DEF LiveOK, FileOK
    <2>3. ExportOK'
      BY <2>1, <2>2, NothingOnce DEF LiveOK, ExportOK, NoExport
    <2>4. FileOK'
      BY <2>1 DEF FileOK
    <2> QED
      BY <2>2, <2>3, <2>4
  <1>7. CASE UNCHANGED backupVars
    BY <1>7 DEF backupVars, books, backup, LiveOK, ExportOK, FileOK
  <1> QED
    BY <1>1, <1>2, <1>3, <1>4, <1>5, <1>6, <1>7 DEF BackupNext

\* Restored books never issue a number they already have, whatever was
\* committed between the reads of the export() they come from.
THEOREM RestoreNumbersOnce == BackupSpec => []NumberedOnce
  <1>1. BackupInv => NumberedOnce
    BY DEF BackupInv, LiveOK, NumberedOnce
  <1> QED
    BY BackupBase, BackupStep, <1>1, PTL DEF BackupSpec

-----------------------------------------------------------------------------
(***************************************************************************)
(* A backup of undisturbed books is as whole as the books: what export()   *)
(* has read so far, taken with what it has still to read, is the database. *)
(***************************************************************************)

\* What an abstract ledger keeps true of its books, and of copies of them
Gapless(inv, c) ==
    /\ \A i \in Invoices : inv[i].seq \in 0..c["invoice"]
    /\ \A n \in 1..c["invoice"] : \E i \in Invoices : inv[i].seq = n

PaidAsStated(inv, pd) ==
    \A i \in Invoices :
        /\ inv[i].status = "paid" => pd[i] = Total
        /\ inv[i].status = "partially_paid" => 0 < pd[i] /\ pd[i] < Total
        /\ inv[i].status \in {"draft", "issued", "absent", "deleted"} => pd[i] = 0

CreditedAsStated(inv, notes) ==
    \A n \in notes : n.invoice \in Invoices
        /\ inv[n.invoice].status = "voided" /\ inv[n.invoice].voidedBy = n.seq

RowShape(row) ==
    row.status \in Statuses /\ (row.status \in {"draft", "absent", "deleted"} => row.seq = 0)

Shape(inv, pd) ==
    /\ inv = [i \in Invoices |-> inv[i]] /\ pd \in [Invoices -> Nat]
    /\ \A i \in Invoices : RowShape(inv[i])

Whole(inv, pd, notes, c) ==
    Gapless(inv, c) /\ PaidAsStated(inv, pd) /\ CreditedAsStated(inv, notes)

TableOf(inv) == [i \in Invoices |-> IF InTable(inv[i]) THEN inv[i] ELSE AbsentRow]

\* What an export whose books stand still has read so far
ExportFollows ==
    /\ export.invoices = TableOf(invoices)
    /\ export.paid \in [Invoices -> Nat]
    /\ export.phase = "payments" => export.notes = creditNotes
    /\ \A i \in export.unread : InTable(invoices[i])
    /\ \A i \in Invoices :
          export.paid[i] = IF InTable(invoices[i]) /\ i \notin export.unread THEN paid[i] ELSE 0

WholeInv ==
    /\ BackupInv
    /\ disturbed = [export |-> disturbed.export, file |-> disturbed.file, books |-> disturbed.books]
    /\ export.phase \in {"idle", "credit_notes", "payments"}
    /\ Shape(invoices, paid)
    /\ file # NoFile => Shape(file.invoices, file.paid)
    /\ export.paid \in [Invoices -> Nat]
    /\ \A i \in Invoices : RowShape(export.invoices[i])
    /\ ~disturbed.books => Whole(invoices, paid, creditNotes, counter)
    /\ file # NoFile /\ ~disturbed.file => Whole(file.invoices, file.paid, file.notes, file.counter)
    /\ export.phase # "idle" /\ ~disturbed.export => ExportFollows

\* One row changes, the numbers stay.
LEMMA WholeKept ==
  ASSUME NEW inv, NEW pd, NEW notes, NEW c \in [Series -> Nat], NEW i \in Invoices, NEW row, NEW sum \in Nat,
         Shape(inv, pd), Whole(inv, pd, notes, c), RowShape(row),
         row.seq = inv[i].seq, inv[i].status # "voided",
         PaidAsStated([inv EXCEPT ![i] = row], [pd EXCEPT ![i] = sum])
  PROVE  /\ Shape([inv EXCEPT ![i] = row], [pd EXCEPT ![i] = sum])
         /\ Whole([inv EXCEPT ![i] = row], [pd EXCEPT ![i] = sum], notes, c)
  <1> DEFINE new == [inv EXCEPT ![i] = row]
  <1>1. new = [j \in Invoices |-> IF j = i THEN row ELSE inv[j]]
    BY DEF Shape
  <1>2. \A j \in Invoices : new[j].seq = inv[j].seq /\ (j # i => new[j] = inv[j])
    BY <1>1
  <1>3. new = [j \in Invoices |-> new[j]] /\ \A j \in Invoices : RowShape(new[j])
    BY <1>1 DEF Shape
  <1>4. [pd EXCEPT ![i] = sum] \in [Invoices -> Nat]
    BY DEF Shape
  <1> HIDE DEF new
  <1>5. Gapless(new, c)
    BY <1>2 DEF Whole, Gapless
  <1>6. CreditedAsStated(new, notes)
    BY <1>2 DEF Whole, CreditedAsStated
  <1> QED
    BY <1>3, <1>4, <1>5, <1>6 DEF new, Whole, Shape

LEMMA WholeNothing ==
  ASSUME NEW c, c["invoice"] = 0
  PROVE  /\ Shape(Nothing, [i \in Invoices |-> 0])
         /\ Whole(Nothing, [i \in Invoices |-> 0], {}, c)
  BY DEF Shape, Whole, Gapless, PaidAsStated, CreditedAsStated, Nothing, AbsentRow, Unnumbered, RowShape, Statuses, Stored

\* What SELECTs over books that stand still bring home is whole.
LEMMA WholeCopied ==
  ASSUME NEW inv, NEW pd, NEW notes, NEW c \in [Series -> Nat], NEW copied \in [Invoices -> Nat],
         Shape(inv, pd), Whole(inv, pd, notes, c),
         \A i \in Invoices : copied[i] = IF InTable(inv[i]) THEN pd[i] ELSE 0
  PROVE  Shape(TableOf(inv), copied) /\ Whole(TableOf(inv), copied, notes, c)
  <1> DEFINE new == TableOf(inv)
  <1>1. \A i \in Invoices : new[i] = IF InTable(inv[i]) THEN inv[i] ELSE AbsentRow
    BY DEF TableOf
  <1>2. new = [i \in Invoices |-> new[i]]
    BY DEF TableOf
  <1>3. AbsentRow.status = "absent" /\ AbsentRow.seq = 0
    BY DEF AbsentRow, Unnumbered
  <1> HIDE DEF new
  <1>4. \A i \in Invoices : new[i].seq = inv[i].seq
    BY <1>1, <1>3 DEF InTable, Shape, RowShape, Statuses, Whole, PaidAsStated
  <1>5. Shape(new, copied)
    BY <1>1, <1>2, <1>3 DEF Shape, RowShape, Statuses
  <1>6. Gapless(new, c)
    BY <1>4 DEF Whole, Gapless
  <1>7. PaidAsStated(new, copied)
    BY <1>1, <1>3, <1>4 DEF Whole, PaidAsStated, InTable, Stored
  <1>8. CreditedAsStated(new, notes)
    BY <1>1 DEF Whole, CreditedAsStated, InTable, Stored
  <1> QED
    BY <1>5, <1>6, <1>7, <1>8 DEF Whole, new

\* A use case leaves whole books whole.
LEMMA LedgerKeepsWhole ==
  ASSUME LiveOK, Shape(invoices, paid), LedgerNext
  PROVE  /\ Shape(invoices, paid)'
         /\ Whole(invoices, paid, creditNotes, counter) => Whole(invoices, paid, creditNotes, counter)'
  <1> DEFINE Live == Whole(invoices, paid, creditNotes, counter)
  <1> PICK i \in Invoices :
        \/ CreateDraft(i)
        \/ \E m \in Months : Issue(i, m)
        \/ \E amount \in 1..Total : Record(i, amount)
        \/ Void(i)
        \/ Credit(i)
        \/ DeleteDraft(i)
    BY DEF LedgerNext
  <1>1. counter \in [Series -> Nat] /\ RowShape(invoices[i]) /\ paid[i] \in Nat
        /\ invoices[i].seq \in Nat
    BY DEF LiveOK, Shape, Tables
  <1>2. ASSUME NEW row, NEW sum \in Nat, RowShape(row),
               invoices' = [invoices EXCEPT ![i] = row], paid' = [paid EXCEPT ![i] = sum]
        PROVE  /\ Shape(invoices, paid)'
               /\ invoices'[i] = row /\ \A j \in Invoices \ {i} : invoices'[j] = invoices[j]
               /\ paid'[i] = sum /\ \A j \in Invoices \ {i} : paid'[j] = paid[j]
    BY <1>2 DEF Shape
  <1>3. ASSUME NEW row, NEW sum \in Nat, RowShape(row), row.seq = invoices[i].seq,
               invoices' = [invoices EXCEPT ![i] = row], paid' = [paid EXCEPT ![i] = sum],
               UNCHANGED <<creditNotes, counter>>, invoices[i].status # "voided",
               Live =>
                 /\ row.status = "paid" => sum = Total
                 /\ row.status = "partially_paid" => 0 < sum /\ sum < Total
                 /\ row.status \in {"draft", "issued", "absent", "deleted"} => sum = 0
        PROVE  Shape(invoices, paid)' /\ (Live => Live')
    <2>1. ASSUME Live PROVE PaidAsStated(invoices', paid')
      <3>1. /\ invoices'[i] = row /\ \A j \in Invoices \ {i} : invoices'[j] = invoices[j]
            /\ paid'[i] = sum /\ \A j \in Invoices \ {i} : paid'[j] = paid[j]
        BY <1>2, <1>3
      <3> QED
        BY <1>3, <2>1, <3>1 DEF Whole, PaidAsStated
    <2> QED
      BY <1>1, <1>2, <1>3, <2>1, WholeKept
  <1>4. paid = [paid EXCEPT ![i] = paid[i]]
    BY DEF Shape
  <1>5. CASE CreateDraft(i)
    BY <1>1, <1>3, <1>4, <1>5 DEF CreateDraft, DraftRow, Unnumbered, Whole, PaidAsStated, RowShape, Statuses, Stored
  <1>6. CASE DeleteDraft(i)
    BY <1>1, <1>3, <1>4, <1>6 DEF DeleteDraft, DeletedRow, Unnumbered, Whole, PaidAsStated, RowShape, Statuses
  <1>7. CASE Void(i)
    BY <1>1, <1>3, <1>4, <1>7 DEF Void, VoidedRow, WithStatus, RowShape, Statuses, Stored
  <1>8. ASSUME NEW amount \in 1..Total, Record(i, amount)
        PROVE  Shape(invoices, paid)' /\ (Live => Live')
    <2> DEFINE row == PaidRow(invoices[i], paid[i] + amount)
    <2>1. /\ invoices' = [invoices EXCEPT ![i] = row] /\ paid' = [paid EXCEPT ![i] = paid[i] + amount]
          /\ UNCHANGED <<creditNotes, counter>> /\ invoices[i].status # "voided"
          /\ paid[i] + amount <= Total
      BY <1>8 DEF Record, Unpayable
    <2>2. /\ row.status = IF paid[i] + amount = Total THEN "paid" ELSE "partially_paid"
          /\ RowShape(row) /\ row.seq = invoices[i].seq
      BY DEF PaidRow, WithStatus, RowShape, Statuses, Stored
    <2>3. paid[i] + amount \in Nat /\ 0 < paid[i] + amount /\ Total \in Nat
      BY <1>1, LedgerAssumption
    <2> HIDE DEF row
    <2>4. /\ row.status = "paid" => paid[i] + amount = Total
          /\ row.status = "partially_paid" => 0 < paid[i] + amount /\ paid[i] + amount < Total
          /\ row.status \notin {"draft", "issued", "absent", "deleted"}
      BY <2>1, <2>2, <2>3
    <2> QED
      BY <1>3, <2>1, <2>2, <2>3, <2>4
  <1>9. ASSUME NEW m, Issue(i, m)
        PROVE  Shape(invoices, paid)' /\ (Live => Live')
    <2> DEFINE n == counter["invoice"] + 1
    <2>1. PICK ref : invoices' = [invoices EXCEPT ![i] = IssuedRow(invoices[i], n, ref)]
      BY <1>9 DEF Issue
    <2> DEFINE row == IssuedRow(invoices[i], n, ref)
    <2>2. /\ counter' = [counter EXCEPT !["invoice"] = n]
          /\ creditNotes' = creditNotes /\ paid' = paid /\ invoices[i].status = "draft"
      BY <1>9 DEF Issue
    <2>3. counter'["invoice"] = n /\ n \in Nat
      BY <1>1, <2>2 DEF Series
    <2>4. row.status = "issued" /\ row.seq = n /\ RowShape(row)
      BY DEF IssuedRow, RowShape, Statuses, Stored
    <2> HIDE DEF row
    <2>5. Shape(invoices, paid)' /\ invoices'[i] = row
          /\ \A j \in Invoices \ {i} : invoices'[j] = invoices[j]
      BY <1>1, <1>2, <1>4, <2>1, <2>2, <2>4 DEF row
    <2>6. ASSUME Live PROVE Live'
      <3>1. invoices[i].seq = 0 /\ paid[i] = 0
        BY <1>1, <2>2, <2>6 DEF Whole, PaidAsStated, RowShape
      <3>2. Gapless(invoices', counter')
        <4>1. \A j \in Invoices : invoices'[j].seq \in 0..n
          BY <1>1, <2>3, <2>4, <2>5, <2>6 DEF Whole, Gapless, Series
        <4>2. ASSUME NEW k \in 1..n PROVE \E j \in Invoices : invoices'[j].seq = k
          <5>1. CASE k = n
            BY <2>4, <2>5, <5>1
          <5>2. CASE k # n
            <6>1. k \in 1..counter["invoice"]
              BY <1>1, <5>2 DEF Series
            <6>2. PICK j \in Invoices : invoices[j].seq = k
              BY <2>6, <6>1 DEF Whole, Gapless
            <6>3. j # i
              BY <3>1, <6>1, <6>2
            <6> QED
              BY <2>5, <6>2, <6>3
          <5> QED
            BY <5>1, <5>2
        <4> QED
          BY <2>3, <4>1, <4>2 DEF Gapless
      <3>3. PaidAsStated(invoices', paid')
        BY <2>2, <2>4, <2>5, <2>6, <3>1 DEF Whole, PaidAsStated
      <3>4. CreditedAsStated(invoices', creditNotes')
        BY <2>2, <2>5, <2>6 DEF Whole, CreditedAsStated
      <3> QED
        BY <3>2, <3>3, <3>4 DEF Whole
    <2> QED
      BY <2>5, <2>6
  <1>10. CASE Credit(i)
    <2> DEFINE n == counter["credit_note"] + 1
               row == CreditedRow(invoices[i], n)
               note == [seq |-> n, invoice |-> i]
    <2>1. /\ invoices' = [invoices EXCEPT ![i] = row]
          /\ creditNotes' = creditNotes \cup {note}
          /\ counter' = [counter EXCEPT !["credit_note"] = n]
          /\ invoices[i].status # "voided" /\ paid' = paid
      BY <1>10 DEF Credit
    <2>2. /\ row.status = "voided" /\ row.seq = invoices[i].seq /\ row.voidedBy = n
          /\ RowShape(row) /\ note.seq = n /\ note.invoice = i
      BY DEF CreditedRow, RowShape, Statuses, Stored
    <2> HIDE DEF row, note
    <2>3. Shape(invoices, paid)' /\ invoices'[i] = row
          /\ \A j \in Invoices \ {i} : invoices'[j] = invoices[j]
      BY <1>1, <1>2, <1>4, <2>1, <2>2
    <2>4. counter'["invoice"] = counter["invoice"]
      BY <1>1, <2>1 DEF Series
    <2>5. ASSUME Live PROVE Live'
      <3>1. Gapless(invoices', counter')
        BY <2>2, <2>3, <2>4, <2>5 DEF Whole, Gapless
      <3>2. PaidAsStated(invoices', paid')
        BY <2>1, <2>2, <2>3, <2>5 DEF Whole, PaidAsStated
      <3>3. CreditedAsStated(invoices', creditNotes')
        BY <2>1, <2>2, <2>3, <2>5 DEF Whole, CreditedAsStated
      <3> QED
        BY <3>1, <3>2, <3>3 DEF Whole
    <2> QED
      BY <2>3, <2>5
  <1> QED
    BY <1>5, <1>6, <1>7, <1>8, <1>9, <1>10

LEMMA WholeBase == BackupInit => WholeInv
  <1> SUFFICES ASSUME BackupInit PROVE WholeInv
    OBVIOUS
  <1>1. BackupInv
    BY BackupBase
  <1>2. invoices = Nothing /\ creditNotes = {} /\ paid = [i \in Invoices |-> 0] /\ counter["invoice"] = 0
    BY DEF BackupInit, LedgerInit, Nothing
  <1>3. Shape(invoices, paid) /\ Whole(invoices, paid, creditNotes, counter)
    BY <1>2, WholeNothing
  <1>4. export.phase = "idle" /\ export.paid \in [Invoices -> Nat]
        /\ \A i \in Invoices : RowShape(export.invoices[i])
    BY DEF BackupInit, NoExport, Nothing, AbsentRow, Unnumbered, RowShape, Statuses
  <1> QED
    BY <1>1, <1>3, <1>4 DEF BackupInit, WholeInv

LEMMA WholeStep == WholeInv /\ [BackupNext]_backupVars => WholeInv'
  <1> SUFFICES ASSUME WholeInv, [BackupNext]_backupVars PROVE WholeInv'
    OBVIOUS
  <1>1. BackupInv'
    BY BackupStep DEF WholeInv
  <1>2. CASE LedgerStep
    <2>1. /\ LedgerNext
          /\ disturbed' = [disturbed EXCEPT !.export = disturbed.export \/ export.phase # "idle"]
          /\ UNCHANGED <<export, file, restores>>
      BY <1>2 DEF LedgerStep
    <2>2. /\ disturbed' = [export |-> disturbed'.export, file |-> disturbed'.file, books |-> disturbed'.books]
          /\ disturbed'.file = disturbed.file /\ disturbed'.books = disturbed.books
      BY <2>1 DEF WholeInv
    <2>3. export.phase # "idle" => disturbed'.export
      BY <2>1 DEF WholeInv
    <2>4. Shape(invoices, paid)' /\
          (Whole(invoices, paid, creditNotes, counter) => Whole(invoices, paid, creditNotes, counter)')
      BY <2>1, LedgerKeepsWhole DEF WholeInv, BackupInv
    <2> QED
      BY <1>1, <2>1, <2>2, <2>3, <2>4 DEF WholeInv
  <1>3. CASE ReadInvoices
    <2>1. /\ export' = [phase |-> "credit_notes", invoices |-> TableOf(invoices), notes |-> {},
                        paid |-> [i \in Invoices |-> 0],
                        unread |-> {i \in Invoices : InTable(invoices[i])}]
          /\ UNCHANGED books /\ UNCHANGED file
          /\ disturbed' = [disturbed EXCEPT !.export = FALSE]
      BY <1>3 DEF ReadInvoices, NoExport, TableOf
    <2>2. /\ disturbed' = [export |-> disturbed'.export, file |-> disturbed'.file, books |-> disturbed'.books]
          /\ disturbed'.file = disturbed.file /\ disturbed'.books = disturbed.books
      BY <2>1 DEF WholeInv
    <2>3. ExportFollows'
      BY <2>1 DEF ExportFollows, TableOf, InTable, books
    <2>4. \A i \in Invoices : RowShape(export'.invoices[i])
      BY <2>1 DEF TableOf, WholeInv, Shape, AbsentRow, Unnumbered, RowShape, Statuses
    <2> QED
      BY <1>1, <2>1, <2>2, <2>3, <2>4 DEF WholeInv, books
  <1>4. CASE ReadCreditNotes
    <2>1. /\ export.phase = "credit_notes"
          /\ export' = [phase |-> "payments", invoices |-> export.invoices, notes |-> creditNotes,
                        paid |-> export.paid, unread |-> export.unread]
          /\ UNCHANGED books /\ UNCHANGED file /\ UNCHANGED disturbed
      BY <1>4 DEF ReadCreditNotes, WholeInv, BackupInv, ExportOK
    <2>2. ~disturbed.export => ExportFollows'
      BY <2>1 DEF ExportFollows, TableOf, InTable, books, WholeInv
    <2> QED
      BY <1>1, <2>1, <2>2 DEF WholeInv, books
  <1>5. ASSUME NEW i \in Invoices, ReadPayments(i) PROVE WholeInv'
    <2>1. /\ export.phase = "payments" /\ i \in export.unread
          /\ export' = [phase |-> "payments", invoices |-> export.invoices, notes |-> export.notes,
                        paid |-> [export.paid EXCEPT ![i] = paid[i]], unread |-> export.unread \ {i}]
          /\ UNCHANGED books /\ UNCHANGED file /\ UNCHANGED disturbed
      BY <1>5 DEF ReadPayments, WholeInv, BackupInv, ExportOK
    <2>2. export'.paid \in [Invoices -> Nat]
          /\ \A j \in Invoices : export'.paid[j] = IF j = i THEN paid[i] ELSE export.paid[j]
      BY <2>1 DEF WholeInv, Shape
    <2>3. ~disturbed.export => ExportFollows'
      <3> SUFFICES ASSUME ~disturbed.export PROVE ExportFollows'
        OBVIOUS
      <3>1. ExportFollows
        BY <2>1 DEF WholeInv
      <3>2. /\ export'.phase = "payments" /\ export'.invoices = export.invoices
            /\ export'.notes = export.notes /\ export'.unread = export.unread \ {i}
            /\ UNCHANGED <<invoices, paid, creditNotes>>
        BY <2>1 DEF books
      <3>3. InTable(invoices[i])
        BY <2>1, <3>1 DEF ExportFollows
      <3> QED
        BY <2>1, <2>2, <3>1, <3>2, <3>3 DEF ExportFollows, TableOf, InTable
    <2> QED
      BY <1>1, <2>1, <2>2, <2>3 DEF WholeInv, books
  <1>6. CASE ReadSequences
    <2>1. /\ export.phase = "payments" /\ export.unread = {}
          /\ file' = [invoices |-> export.invoices, notes |-> export.notes,
                      paid |-> export.paid, counter |-> counter, bucket |-> bucket]
          /\ export' = NoExport
          /\ UNCHANGED books
          /\ disturbed' = [disturbed EXCEPT !.file = disturbed.export \/ disturbed.books]
      BY <1>6 DEF ReadSequences, File
    <2>2. /\ disturbed' = [export |-> disturbed'.export, file |-> disturbed'.file, books |-> disturbed'.books]
          /\ disturbed'.books = disturbed.books
          /\ disturbed'.file <=> disturbed.export \/ disturbed.books
      BY <2>1 DEF WholeInv
    <2>3. export'.phase = "idle" /\ export'.paid \in [Invoices -> Nat]
          /\ \A j \in Invoices : RowShape(export'.invoices[j])
      BY <2>1 DEF NoExport, Nothing, AbsentRow, Unnumbered, RowShape, Statuses
    <2>4. Shape(file'.invoices, file'.paid)
      BY <2>1 DEF WholeInv, Shape, BackupInv, ExportOK, Tables
    <2>5. ASSUME ~disturbed'.file
          PROVE  Whole(file'.invoices, file'.paid, file'.notes, file'.counter)
      <3>1. ExportFollows /\ Whole(invoices, paid, creditNotes, counter)
        BY <2>1, <2>2, <2>5 DEF WholeInv
      <3>2. export.invoices = TableOf(invoices) /\ export.notes = creditNotes
            /\ \A j \in Invoices : export.paid[j] = IF InTable(invoices[j]) THEN paid[j] ELSE 0
        BY <2>1, <3>1 DEF ExportFollows
      <3>3. Whole(TableOf(invoices), export.paid, creditNotes, counter)
        BY <3>1, <3>2, WholeCopied DEF WholeInv, BackupInv, LiveOK
      <3> QED
        BY <2>1, <3>2, <3>3
    <2> QED
      BY <1>1, <2>1, <2>2, <2>3, <2>4, <2>5 DEF WholeInv, books
  <1>7. CASE Restore
    <2>1. /\ file # NoFile /\ file' = NoFile /\ export' = NoExport
          /\ invoices' = file.invoices /\ creditNotes' = file.notes /\ counter' = file.counter
          /\ paid' = file.paid
          /\ disturbed' = [export |-> FALSE, file |-> FALSE, books |-> disturbed.file]
      BY <1>7 DEF Restore
    <2>2. export'.phase = "idle" /\ export'.paid \in [Invoices -> Nat]
          /\ \A j \in Invoices : RowShape(export'.invoices[j])
      BY <2>1 DEF NoExport, Nothing, AbsentRow, Unnumbered, RowShape, Statuses
    <2> QED
      BY <1>1, <2>1, <2>2 DEF WholeInv
  <1>8. CASE UNCHANGED backupVars
    BY <1>1, <1>8 DEF backupVars, books, backup, WholeInv, ExportFollows, TableOf, InTable
  <1> QED
    BY <1>2, <1>3, <1>4, <1>5, <1>6, <1>7, <1>8 DEF BackupNext

\* If nothing was committed while a backup was read, it can be restored, and
\* the books restored from it are books a ledger could have.
THEOREM UndisturbedBackupsWhole == BackupSpec => []UndisturbedWhole
  <1>1. WholeInv => UndisturbedWhole
    <2> SUFFICES ASSUME WholeInv PROVE UndisturbedWhole
      OBVIOUS
    <2>1. ASSUME ~disturbed.books PROVE RestoredGapless
      <3>1. Gapless(invoices, counter) /\ counter["invoice"] \in Nat
        BY <2>1 DEF WholeInv, Whole, BackupInv, LiveOK, Series
      <3> QED
        BY <3>1 DEF Gapless, RestoredGapless
    <2>2. ASSUME file # NoFile, ~disturbed.file PROVE Restorable(file)
      BY <2>2 DEF WholeInv, Whole, CreditedAsStated, Restorable, InTable, Stored
    <2> QED
      BY <2>1, <2>2 DEF UndisturbedWhole, WholeInv, Whole, PaidAsStated, CreditedAsStated
  <1> QED
    BY WholeBase, WholeStep, <1>1, PTL DEF BackupSpec

-----------------------------------------------------------------------------
(***************************************************************************)
(* For any rotation, any number of days and changes, and kills and         *)
(* failures at every point of the writing.                                 *)
(***************************************************************************)

Writing == {"exported", "staging", "staged"}

\* Archives are of days gone by and hold what the database held then.
Past ==
    /\ dayStart <= data
    /\ session.day <= day
    /\ \A d \in DOMAIN folder : d <= day /\ folder[d] <= data

\* Nobody changes the database while it is backed up, and no archive is of a
\* later day than the one being written.
WriteCurrent ==
    /\ phase \in Writing =>
          /\ write.copy = data /\ data # 0
          /\ \A d \in DOMAIN folder : d <= write.target
    /\ phase \in Writing \cup {"pruning"} =>
          /\ write.target <= day
          /\ write.then = "serving" => session.day <= write.target

\* An archive of the day has what the day began with.
DayCovered == day \in DOMAIN folder => folder[day] >= dayStart

\* The rotation spares what was just written, and has Keep newer archives for
\* each one it removes.
Rotation ==
    phase = "pruning" =>
        /\ write.target \in DOMAIN folder \ write.doomed
        /\ \A d \in write.doomed : Cardinality({e \in DOMAIN folder : e > d}) >= Keep

DesktopInv ==
    /\ DesktopTypeOK
    /\ Past /\ WriteCurrent /\ DayCovered /\ Rotation
    /\ NewestIsNewest /\ EarlierDaysSaved

LEMMA DesktopStart == DesktopInit => DesktopInv
  BY DesktopAssumption
  DEF DesktopInit, DesktopInv, DesktopTypeOK, Past, WriteCurrent, DayCovered, Rotation, NewestIsNewest,
      EarlierDaysSaved, Days, DesktopPhases, Writing, Torn

LEMMA DesktopStep == DesktopInv /\ [DesktopNext]_desktopVars => DesktopInv'
  <1> SUFFICES ASSUME DesktopInv, [DesktopNext]_desktopVars
               PROVE  DesktopInv'
    OBVIOUS
  <1> USE DesktopAssumption
      DEF DesktopInv, DesktopTypeOK, Past, WriteCurrent, DayCovered, NewestIsNewest,
          EarlierDaysSaved, Days, DesktopPhases, Writing, Torn
  <1>1. CASE Launch
    BY <1>1 DEF Launch, Rotation
  <1>2. CASE Skip
    BY <1>2 DEF Skip, Covered, After, Rotation
  <1>3. CASE Export
    BY <1>3 DEF Export, Covered, After, Rotation
  <1>4. CASE OpenStaging
    BY <1>4 DEF OpenStaging, Rotation
  <1>5. CASE CloseStaging
    BY <1>5 DEF CloseStaging, Rotation
  <1>6. CASE Rename
    <2>1. /\ DOMAIN folder' = DOMAIN folder \cup {write.target}
          /\ folder'[write.target] = write.copy
          /\ \A d \in DOMAIN folder \ {write.target} : folder'[d] = folder[d]
      BY <1>6 DEF Rename, With
    <2>2. /\ write'.target = write.target /\ write'.copy = write.copy
          /\ write'.then = write.then /\ write'.doomed = Doomed(DOMAIN folder')
          /\ write' = [target |-> write.target, copy |-> write.copy,
                       doomed |-> Doomed(DOMAIN folder'), then |-> write.then]
      BY <1>6 DEF Rename
    <2>3. phase = "staged" /\ phase' = "pruning" /\ UNCHANGED <<day, data, session, dayStart>>
      BY <1>6 DEF Rename
    <2>4. DesktopTypeOK'
      BY <2>1, <2>2, <2>3 DEF Doomed
    <2>5. Past' /\ WriteCurrent' /\ DayCovered' /\ NewestIsNewest' /\ EarlierDaysSaved'
      BY <2>1, <2>2, <2>3
    <2>6. Rotation'
      <3>1. {e \in DOMAIN folder' : e > write.target} = {}
        BY <2>1, <2>3
      <3>2. write.target \notin Doomed(DOMAIN folder')
        BY <3>1, FS_EmptySet DEF Doomed
      <3> QED
        BY <2>1, <2>2, <2>3, <3>2 DEF Rotation, Doomed
    <2> QED
      BY <2>4, <2>5, <2>6
  <1>7. CASE Unlink
    <2>1. PICK d \in write.doomed :
             /\ phase = "pruning"
             /\ \A e \in write.doomed : d <= e
             /\ write' = [write EXCEPT !.doomed = @ \ {d}]
             /\ \/ folder' = [e \in DOMAIN folder \ {d} |-> folder[e]]
                \/ UNCHANGED folder
             /\ UNCHANGED <<day, data, phase, session, dayStart>>
      BY <1>7 DEF Unlink
    <2>2. /\ DOMAIN folder' \subseteq DOMAIN folder
          /\ DOMAIN folder \ {d} \subseteq DOMAIN folder'
          /\ \A e \in DOMAIN folder' : folder'[e] = folder[e]
      BY <2>1
    <2>3. /\ write'.target = write.target /\ write'.copy = write.copy
          /\ write'.then = write.then /\ write'.doomed = write.doomed \ {d}
          /\ write' = [target |-> write.target, copy |-> write.copy,
                       doomed |-> write.doomed \ {d}, then |-> write.then]
      BY <2>1
    <2>4. phase = "pruning" /\ UNCHANGED <<day, data, phase, session, dayStart>>
      BY <2>1
    <2>5. DesktopTypeOK'
      BY <2>2, <2>3, <2>4
    <2>6. Past' /\ WriteCurrent' /\ DayCovered' /\ NewestIsNewest' /\ EarlierDaysSaved'
      BY <2>2, <2>3, <2>4
    <2>7. Rotation'
      <3>1. write'.target \in DOMAIN folder' \ write'.doomed
        BY <2>1, <2>2, <2>3, <2>4 DEF Rotation
      <3>2. ASSUME NEW f \in write'.doomed
            PROVE  Cardinality({e \in DOMAIN folder' : e > f}) >= Keep
        <4>1. f \in write.doomed /\ ~(d > f)
          BY <2>1, <2>3
        <4>2. {e \in DOMAIN folder' : e > f} = {e \in DOMAIN folder : e > f}
          BY <2>2, <4>1
        <4> QED
          BY <2>4, <4>1, <4>2 DEF Rotation
      <3> QED
        BY <3>1, <3>2 DEF Rotation
    <2> QED
      BY <2>5, <2>6, <2>7
  <1>8. CASE Finish
    BY <1>8 DEF Finish, Rotation
  <1>9. CASE BackupFails
    BY <1>9 DEF BackupFails, After, Covered, Rotation
  <1>10. CASE Edit
    BY <1>10 DEF Edit, Rotation
  <1>11. CASE Close
    BY <1>11 DEF Close, Rotation
  <1>12. CASE Kill
    BY <1>12 DEF Kill, Rotation
  <1>13. CASE Midnight
    BY <1>13 DEF Midnight, Rotation
  <1>14. CASE UNCHANGED desktopVars
    BY <1>14 DEF desktopVars, Rotation
  <1> QED
    BY <1>1, <1>2, <1>3, <1>4, <1>5, <1>6, <1>7, <1>8, <1>9, <1>10, <1>11, <1>12, <1>13, <1>14
    DEF DesktopNext

LEMMA DesktopInductive == DesktopSpec => []DesktopInv
  BY DesktopStart, DesktopStep, PTL DEF DesktopSpec

\* No kill leaves a torn dated archive, and a later day's archive never holds
\* less than an earlier day's.
THEOREM ArchivesInOrder == DesktopSpec => []NewestIsNewest
  <1>1. DesktopInv => NewestIsNewest
    BY DEF DesktopInv
  <1> QED
    BY DesktopInductive, <1>1, PTL

\* While the app serves on the day of its start, what the earlier days left is
\* in an archive, unless the backup of this very start failed.
THEOREM StartSavesThePast == DesktopSpec => []EarlierDaysSaved
  <1>1. DesktopInv => EarlierDaysSaved
    BY DEF DesktopInv
  <1> QED
    BY DesktopInductive, <1>1, PTL

\* An archive disappears only when Keep newer ones are in the folder.
THEOREM RotationSound == DesktopSpec => RotationKeeps
  <1> DEFINE Spared ==
        \A d \in DOMAIN folder \ DOMAIN folder' :
            Cardinality({e \in DOMAIN folder' : e > d}) >= Keep
  <1>1. DesktopInv /\ [DesktopNext]_desktopVars => [Spared]_folder
    <2> SUFFICES ASSUME DesktopInv, [DesktopNext]_desktopVars, folder' # folder
                 PROVE  Spared
      OBVIOUS
    <2>1. CASE Rename
      BY <2>1 DEF Rename, With
    <2>2. CASE Unlink
      <3>1. PICK d \in write.doomed :
               /\ phase = "pruning"
               /\ folder' = [e \in DOMAIN folder \ {d} |-> folder[e]]
        BY <2>2 DEF Unlink
      <3>2. DOMAIN folder \ DOMAIN folder' \subseteq {d}
        BY <3>1
      <3>3. {e \in DOMAIN folder' : e > d} = {e \in DOMAIN folder : e > d}
        BY <3>1 DEF DesktopInv, DesktopTypeOK, Days
      <3>4. Cardinality({e \in DOMAIN folder : e > d}) >= Keep
        BY <3>1 DEF DesktopInv, Rotation
      <3> QED
        BY <3>2, <3>3, <3>4
    <2> QED
      BY <2>1, <2>2
      DEF DesktopNext, Launch, Skip, Export, OpenStaging, CloseStaging, Finish, BackupFails, Edit, Close,
          Kill, Midnight, desktopVars
  <1>2. RotationKeeps <=> [][Spared]_folder
    BY PTL DEF RotationKeeps
  <1> QED
    BY DesktopInductive, <1>1, <1>2, PTL DEF DesktopSpec

-----------------------------------------------------------------------------
(***************************************************************************)
(* ExpenseInbox for any set of documents: rows are well formed however the *)
(* requests interleave, and, handled one at a time, one document counts    *)
(* once and a decision stands.  What makes the last two inductive is that  *)
(* what a request has read is still so when it writes.                     *)
(***************************************************************************)

ImportTx == [op : {"import"}, fields : Documents, duplicate : Ids \cup {None}]
ReviewTx ==
    [op : {"review"}, id : Ids, seen : Rows, treatment : Treatments, percent : Percents \cup {None}]

\* A row that carries an amount exactly if it may
WellJudged(row) ==
    row.classification # None <=> row.duplicateOf = None /\ ~ChecksFail(row.fields)

ExpenseTxOK ==
    /\ expenseTx \in [Requests -> ImportTx \cup ReviewTx \cup {None}]
    /\ \A r \in Requests : expenseTx[r] # None /\ expenseTx[r].op = "review" =>
          expenseTx[r].seen.classification # None /\ WellJudged(expenseTx[r].seen)

ExpenseInv == ExpenseTypeOK /\ ExpenseTxOK

\* The service's money is a whole number of cents.
LEMMA ShareType ==
    ASSUME NEW d \in Int, NEW p \in Int PROVE PercentOf(d, p) \in Int
  BY DEF PercentOf

\* classify() returns a classification for every document.
LEMMA ClassifyType ==
    ASSUME NEW f \in Documents PROVE Classify(f) \in Classifications
  <1>1. f.tva # None => f.tva \in Int  BY ExpenseAssumption
  <1>2. CASE Blocked(f)
    BY <1>1, <1>2 DEF Classify, Classification, Classifications, Treatments
  <1>3. CASE ~Blocked(f)
    <2> DEFINE percent == Percent(f.category)
    <2>1. f.tva \in Int  BY <1>1, <1>3 DEF Blocked
    <2>2. percent \in Int  BY DEF Percent
    <2>3. PercentOf(f.tva, percent) \in Int  BY <2>1, <2>2, ShareType
    <2>4. /\ Classification("review_required", f.tva, 0, percent) \in Classifications
          /\ Classification("non_recoverable", f.tva, 0, 0) \in Classifications
          /\ Classification(IF percent = 100 THEN "recoverable" ELSE "partial",
                            f.tva, PercentOf(f.tva, percent), percent) \in Classifications
      BY <2>1, <2>2, <2>3 DEF Classification, Classifications, Treatments
    <2> QED  BY <1>3, <2>4 DEF Classify
  <1> QED  BY <1>2, <1>3

\* What an import adds is a row, and judged as it should be.
LEMMA RowType ==
    ASSUME NEW f \in Documents, NEW d \in Ids \cup {None}
    PROVE ExpenseRow(f, d) \in Rows /\ WellJudged(ExpenseRow(f, d))
  <1>1. Classify(f) \in Classifications  BY ClassifyType
  <1>2. Classify(f) # None  BY <1>1, ExpenseAssumption
  <1> QED  BY <1>1, <1>2 DEF ExpenseRow, Rows, WellJudged

-----------------------------------------------------------------------------
LEMMA ExpenseBase == ExpenseInit => ExpenseInv
  BY ExpenseAssumption DEF ExpenseInit, ExpenseInv, ExpenseTypeOK, ExpenseTxOK, StoredExpenses, Ids

LEMMA ExpenseStep ==
    ASSUME ExpenseInv, [ExpenseNext]_expenseVars PROVE ExpenseInv'
  <1> USE DEF ExpenseInv
  <1>1. ASSUME NEW r \in Requests, NEW f \in Documents, Look(r, f) PROVE ExpenseInv'
    <2>1. PICK d \in Ids \cup {None} :
             expenseTx' = [expenseTx EXCEPT ![r] = [op |-> "import", fields |-> f, duplicate |-> d]]
      BY <1>1 DEF Look, FindDuplicate, StoredExpenses
    <2>2. [op |-> "import", fields |-> f, duplicate |-> d] \in ImportTx  BY DEF ImportTx
    <2>3. ExpenseTxOK'  BY <2>1, <2>2, <1>1 DEF ExpenseTxOK, Look, WellJudged
    <2> QED  BY <1>1, <2>3 DEF Look, ExpenseTypeOK, StoredExpenses
  <1>2. ASSUME NEW r \in Requests, Store(r) PROVE ExpenseInv'
    <2> DEFINE row == ExpenseRow(expenseTx[r].fields, expenseTx[r].duplicate)
    <2>1. expenseTx[r] \in ImportTx  BY <1>2 DEF Store, ExpenseTxOK, ReviewTx
    <2>2. row \in Rows /\ WellJudged(row)  BY <2>1, RowType DEF ImportTx
    <2>3. /\ imported < MaxImports /\ imported' = imported + 1
          /\ expenses' = [expenses EXCEPT ![imported'] = row]
          /\ expenseTx' = [expenseTx EXCEPT ![r] = None]
      BY <1>2 DEF Store
    <2>4. ExpenseTxOK'  BY <2>3 DEF ExpenseTxOK, WellJudged
    <2>5. expenses' \in [Ids -> Rows \cup {None}] /\ imported' \in Ids /\ imported' \in 0..MaxImports
      BY <2>2, <2>3, ExpenseAssumption DEF ExpenseTypeOK, Ids
    <2> HIDE DEF row
    <2>6. \A k \in StoredExpenses' : (k = imported' /\ expenses'[k] = row)
                          \/ (k \in StoredExpenses /\ expenses'[k] = expenses[k])
      BY <2>3, <2>5 DEF ExpenseTypeOK, StoredExpenses
    <2>7. \A k \in StoredExpenses' : k <= imported'
      BY <2>3, <2>5, <2>6, ExpenseAssumption DEF ExpenseTypeOK, Ids, StoredExpenses
    <2>8. \A k \in StoredExpenses : WellJudged(expenses[k])  BY DEF ExpenseTypeOK, WellJudged
    <2>9. \A k \in StoredExpenses' : WellJudged(expenses'[k])
      BY <2>2, <2>6, <2>8
    <2> QED  BY <2>4, <2>5, <2>7, <2>9 DEF ExpenseTypeOK, WellJudged
  <1>3. ASSUME NEW r \in Requests, NEW k \in Ids, NEW t \in Treatments,
               NEW p \in Percents \cup {None}, Read(r, k, t, p)
        PROVE ExpenseInv'
    <2> DEFINE it == [op |-> "review", id |-> k, seen |-> expenses[k],
                      treatment |-> t, percent |-> p]
    <2>1. k \in StoredExpenses /\ expenses[k].classification # None /\ expenseTx' = [expenseTx EXCEPT ![r] = it]
      BY <1>3 DEF Read
    <2>2. expenses[k] \in Rows /\ WellJudged(expenses[k])
      BY <2>1 DEF ExpenseTypeOK, StoredExpenses, WellJudged
    <2>3. it \in ReviewTx  BY <2>2 DEF ReviewTx
    <2>4. ExpenseTxOK'  BY <2>1, <2>2, <2>3 DEF ExpenseTxOK, WellJudged
    <2> QED  BY <1>3, <2>4 DEF Read, ExpenseTypeOK, StoredExpenses
  <1>4. ASSUME NEW r \in Requests, Confirm(r) PROVE ExpenseInv'
    <2> DEFINE seen == expenseTx[r].seen
               c == seen.classification
               percent == IF expenseTx[r].percent = None THEN c.percent ELSE expenseTx[r].percent
               decided == [c EXCEPT !.treatment = expenseTx[r].treatment, !.percent = percent,
                              !.recoverable = Recoverable(c.detected, expenseTx[r].treatment, percent),
                              !.confirmed = TRUE]
               row == [seen EXCEPT !.state = "reviewed", !.classification = decided]
    <2>1. /\ expenseTx[r] # None /\ expenseTx[r].op = "review" /\ expenseTx[r].id \in StoredExpenses
          /\ expenses' = [expenses EXCEPT ![expenseTx[r].id] = row]
          /\ expenseTx' = [expenseTx EXCEPT ![r] = None] /\ imported' = imported
      BY <1>4 DEF Confirm
    <2>2. expenseTx[r] \in ReviewTx /\ c # None /\ WellJudged(seen)
      BY <2>1 DEF ExpenseTxOK, ImportTx
    <2>3. seen \in Rows /\ c \in Classifications  BY <2>2 DEF ReviewTx, Rows
    <2>4. percent \in Int  BY <2>2, <2>3, ExpenseAssumption DEF ReviewTx, Classifications
    <2>5. Recoverable(c.detected, expenseTx[r].treatment, percent) \in Int
      BY <2>3, <2>4, ShareType DEF Recoverable, Classifications
    <2>6. decided \in Classifications
      <3>1. expenseTx[r].treatment \in Treatments  BY <2>2 DEF ReviewTx
      <3> QED  BY <2>3, <2>4, <2>5, <3>1 DEF Classifications
    <2>7. decided # None  BY <2>6, ExpenseAssumption
    <2>8. row \in Rows /\ row.fields = seen.fields /\ row.duplicateOf = seen.duplicateOf
             /\ row.classification = decided
      BY <2>3, <2>6 DEF Rows
    <2>9. WellJudged(row)  BY <2>2, <2>7, <2>8 DEF WellJudged
    <2>10. ExpenseTxOK'  BY <2>1 DEF ExpenseTxOK, WellJudged
    <2> HIDE DEF row
    <2>11. /\ expenses' \in [Ids -> Rows \cup {None}]
           /\ \A k \in StoredExpenses' : k \in StoredExpenses /\ expenses'[k] \in {row, expenses[k]}
      BY <2>1, <2>8 DEF ExpenseTypeOK, StoredExpenses
    <2>12. \A k \in StoredExpenses : WellJudged(expenses[k])  BY DEF ExpenseTypeOK, WellJudged
    <2>13. \A k \in StoredExpenses' : WellJudged(expenses'[k])
      BY <2>9, <2>11, <2>12
    <2>14. \A k \in StoredExpenses' : k <= imported'  BY <2>1, <2>11 DEF ExpenseTypeOK
    <2>15. imported' \in 0..MaxImports  BY <2>1 DEF ExpenseTypeOK
    <2> QED  BY <2>10, <2>11, <2>13, <2>14, <2>15 DEF ExpenseTypeOK, WellJudged
  <1>5. ASSUME NEW r \in Requests, ExpenseRollback(r) PROVE ExpenseInv'
    BY <1>5 DEF ExpenseRollback, ExpenseTypeOK, ExpenseTxOK, StoredExpenses, WellJudged
  <1>6. ASSUME NEW k \in Ids, DeleteExpense(k) PROVE ExpenseInv'
    <2>1. expenses' = [expenses EXCEPT ![k] = None] /\ imported' = imported /\ expenseTx' = expenseTx
      BY <1>6 DEF DeleteExpense
    <2>2. \A j \in StoredExpenses' : j \in StoredExpenses /\ expenses'[j] = expenses[j]
      BY <2>1 DEF ExpenseTypeOK, StoredExpenses
    <2> QED  BY <2>1, <2>2 DEF ExpenseTypeOK, ExpenseTxOK, WellJudged
  <1>7. CASE UNCHANGED expenseVars  BY <1>7 DEF expenseVars, ExpenseTypeOK, ExpenseTxOK, StoredExpenses, WellJudged
  <1> QED  BY <1>1, <1>2, <1>3, <1>4, <1>5, <1>6, <1>7 DEF ExpenseNext

\* However requests interleave, rows are well formed, and a row carries an
\* amount exactly if it passed its checks and repeats no other.
THEOREM ExpenseTypes == ExpenseSpec => []ExpenseTypeOK
  <1>1. ExpenseInv => ExpenseTypeOK  BY DEF ExpenseInv
  <1> QED  BY ExpenseBase, ExpenseStep, <1>1, PTL DEF ExpenseSpec

-----------------------------------------------------------------------------
(* One request at a time. *)

\* One transaction at most, and what it read still holds
SerialExpenses ==
    /\ \A r, o \in Requests : expenseTx[r] # None /\ expenseTx[o] # None => r = o
    /\ \A r \in Requests : expenseTx[r] # None /\ expenseTx[r].op = "import" /\ expenseTx[r].duplicate = None
          => FindDuplicate(expenseTx[r].fields) = {}
    /\ \A r \in Requests : expenseTx[r] # None /\ expenseTx[r].op = "review"
          => expenses[expenseTx[r].id] = expenseTx[r].seen /\ expenseTx[r].seen.state = "analyzed"

\* A transaction that ends leaves none.
LEMMA NoneLeft ==
    ASSUME ExpenseInv, SerialExpenses, NEW r \in Requests, expenseTx[r] # None, expenseTx' = [expenseTx EXCEPT ![r] = None]
    PROVE \A o \in Requests : expenseTx'[o] = None
  BY DEF ExpenseInv, ExpenseTxOK, SerialExpenses

\* What one serial step does to a row that was there and still is: nothing,
\* or it takes it from analyzed to reviewed and leaves the document alone.
RowKept(k) ==
    \/ expenses'[k] = expenses[k]
    \/ /\ expenses[k].state = "analyzed"
       /\ expenses[k].classification # None
       /\ expenses'[k].fields = expenses[k].fields

LEMMA SerialExpenseStep ==
    ASSUME Serial, ExpenseInv, SerialExpenses, [ExpenseNext]_expenseVars
    PROVE /\ SerialExpenses'
          /\ \A k \in StoredExpenses \cap StoredExpenses' : RowKept(k)
          /\ \A k \in StoredExpenses' \ StoredExpenses :
                /\ expenses'[k].classification # None => FindDuplicate(expenses'[k].fields) = {}
                /\ \A j \in StoredExpenses' \ StoredExpenses : j = k
  <1>1. ASSUME NEW r \in Requests, NEW f \in Documents, Look(r, f)
        PROVE SerialExpenses' /\ expenses' = expenses
    <2>1. expenses' = expenses /\ \A o \in Requests : expenseTx[o] = None  BY <1>1 DEF Look, ExpenseAlone
    <2>2. PICK d \in IF FindDuplicate(f) = {} THEN {None} ELSE FindDuplicate(f) :
             expenseTx' = [expenseTx EXCEPT ![r] = [op |-> "import", fields |-> f, duplicate |-> d]]
      BY <1>1 DEF Look
    <2>3. d = None => FindDuplicate(f) = {}
      BY ExpenseAssumption DEF FindDuplicate, StoredExpenses, Ids
    <2>4. \A g : FindDuplicate(g)' = FindDuplicate(g)
      BY <2>1 DEF FindDuplicate, StoredExpenses
    <2> QED  BY <2>1, <2>2, <2>3, <2>4 DEF SerialExpenses, ExpenseInv, ExpenseTxOK
  <1>2. ASSUME NEW r \in Requests, Store(r)
        PROVE /\ SerialExpenses'
              /\ \A k \in StoredExpenses \cap StoredExpenses' : RowKept(k)
              /\ \A k \in StoredExpenses' \ StoredExpenses :
                    /\ expenses'[k].classification # None => FindDuplicate(expenses'[k].fields) = {}
                    /\ \A j \in StoredExpenses' \ StoredExpenses : j = k
    <2> DEFINE row == ExpenseRow(expenseTx[r].fields, expenseTx[r].duplicate)
    <2>1. /\ expenseTx[r] # None /\ expenseTx[r].op = "import"
          /\ imported' = imported + 1
          /\ expenses' = [expenses EXCEPT ![imported'] = row]
          /\ expenseTx' = [expenseTx EXCEPT ![r] = None]
      BY <1>2 DEF Store
    <2>2. row.fields = expenseTx[r].fields
          /\ (row.classification # None => expenseTx[r].duplicate = None)
      BY DEF ExpenseRow
    <2> HIDE DEF row
    <2>3. imported + 1 \notin StoredExpenses  BY DEF ExpenseInv, ExpenseTypeOK
    <2>4. \A k \in Ids : k # imported' => expenses'[k] = expenses[k]
      BY <2>1 DEF ExpenseInv, ExpenseTypeOK
    <2>5. \A k \in StoredExpenses : expenses'[k] = expenses[k]
      BY <2>1, <2>3, <2>4 DEF StoredExpenses
    <2>6. \A k \in StoredExpenses' \ StoredExpenses : k = imported' /\ expenses'[k] = row
      BY <2>1, <2>4 DEF ExpenseInv, ExpenseTypeOK, StoredExpenses
    <2>7. SerialExpenses'  BY <2>1, NoneLeft DEF SerialExpenses
    <2>8. row.classification # None => FindDuplicate(row.fields) = {}
      BY <2>1, <2>2 DEF SerialExpenses
    <2> QED  BY <2>5, <2>6, <2>7, <2>8 DEF RowKept
  <1>3. ASSUME NEW r \in Requests, NEW k \in Ids, NEW t \in Treatments,
               NEW p \in Percents \cup {None}, Read(r, k, t, p)
        PROVE SerialExpenses' /\ expenses' = expenses
    <2>1. /\ expenses' = expenses /\ \A o \in Requests : expenseTx[o] = None
          /\ expenseTx' = [expenseTx EXCEPT ![r] = [op |-> "review", id |-> k, seen |-> expenses[k],
                                      treatment |-> t, percent |-> p]]
          /\ k \in StoredExpenses /\ CanTransition(expenses[k].state, "reviewed")
      BY <1>3 DEF Read, ExpenseAlone
    <2>2. expenses[k].state \in {"failed", "analyzed", "reviewed"}
      BY <2>1 DEF ExpenseInv, ExpenseTypeOK, StoredExpenses, Rows
    <2>3. expenses[k].state = "analyzed"  BY <2>1, <2>2 DEF CanTransition
    <2> QED  BY <2>1, <2>3 DEF SerialExpenses, ExpenseInv, ExpenseTxOK
  <1>4. ASSUME NEW r \in Requests, Confirm(r)
        PROVE SerialExpenses' /\ StoredExpenses' \subseteq StoredExpenses /\ \A k \in StoredExpenses : RowKept(k)
    <2>1. /\ expenseTx[r] # None /\ expenseTx[r].op = "review" /\ expenseTx[r].id \in StoredExpenses
          /\ expenseTx' = [expenseTx EXCEPT ![r] = None]
      BY <1>4 DEF Confirm
    <2>2. expenseTx[r].seen.classification # None /\ expenseTx[r].seen \in Rows
      BY <2>1 DEF ExpenseInv, ExpenseTxOK, ImportTx, ReviewTx
    <2>3. expenses[expenseTx[r].id] = expenseTx[r].seen /\ expenseTx[r].seen.state = "analyzed"
      BY <2>1 DEF SerialExpenses
    <2>4. PICK row : /\ expenses' = [expenses EXCEPT ![expenseTx[r].id] = row]
                     /\ row.fields = expenseTx[r].seen.fields
      <3> DEFINE c(x) == [expenseTx[r].seen EXCEPT !.state = "reviewed", !.classification = x]
      <3>1. PICK x : expenses' = [expenses EXCEPT ![expenseTx[r].id] = c(x)]  BY <1>4 DEF Confirm
      <3>2. c(x).fields = expenseTx[r].seen.fields  BY <2>2 DEF Rows
      <3> QED  BY <3>1, <3>2
    <2>5. SerialExpenses'  BY <2>1, NoneLeft DEF SerialExpenses
    <2>6. \A k \in Ids : k # expenseTx[r].id => expenses'[k] = expenses[k]
      BY <2>4 DEF ExpenseInv, ExpenseTypeOK
    <2>7. StoredExpenses' \subseteq StoredExpenses  BY <2>1, <2>6 DEF StoredExpenses
    <2>8. expenses'[expenseTx[r].id] = row  BY <2>1, <2>4 DEF ExpenseInv, ExpenseTypeOK, StoredExpenses
    <2> QED  BY <2>2, <2>3, <2>4, <2>5, <2>6, <2>7, <2>8 DEF RowKept, StoredExpenses
  <1>5. ASSUME NEW r \in Requests, ExpenseRollback(r) PROVE SerialExpenses' /\ expenses' = expenses
    BY <1>5, NoneLeft DEF ExpenseRollback, SerialExpenses
  <1>6. ASSUME NEW k \in Ids, DeleteExpense(k)
        PROVE SerialExpenses' /\ StoredExpenses' \subseteq StoredExpenses /\ \A j \in StoredExpenses' : RowKept(j)
    <2>1. expenses' = [expenses EXCEPT ![k] = None] /\ expenseTx' = expenseTx
          /\ \A o \in Requests : expenseTx[o] = None
      BY <1>6 DEF DeleteExpense, ExpenseAlone
    <2> QED  BY <2>1 DEF SerialExpenses, ExpenseInv, ExpenseTypeOK, StoredExpenses, RowKept
  <1>7. CASE UNCHANGED expenseVars
    BY <1>7 DEF expenseVars, SerialExpenses, FindDuplicate, StoredExpenses, RowKept
  <1>8. ASSUME expenses' = expenses
        PROVE StoredExpenses' = StoredExpenses /\ \A k \in StoredExpenses : RowKept(k)
    BY <1>8 DEF StoredExpenses, RowKept
  <1> QED  BY <1>1, <1>2, <1>3, <1>4, <1>5, <1>6, <1>7, <1>8 DEF ExpenseNext

\* Handled one at a time, imports, reviews and deletions in any order leave at
\* most one row per supplier document that carries an amount.
THEOREM SerialCountedOnce == Serial => (ExpenseSpec => []CountedOnce)
  <1> SUFFICES ASSUME Serial PROVE ExpenseSpec => []CountedOnce  OBVIOUS
  <1> DEFINE All == ExpenseInv /\ SerialExpenses /\ CountedOnce
  <1>1. ExpenseInit => All
    <2>1. ExpenseInit => SerialExpenses /\ CountedOnce  BY DEF ExpenseInit, SerialExpenses, CountedOnce, StoredExpenses
    <2> QED  BY <2>1, ExpenseBase
  <1>2. All /\ [ExpenseNext]_expenseVars => All'
    <2> SUFFICES ASSUME ExpenseInv, SerialExpenses, CountedOnce, [ExpenseNext]_expenseVars PROVE CountedOnce'
      BY ExpenseStep, SerialExpenseStep
    <2>1. /\ \A k \in StoredExpenses \cap StoredExpenses' : RowKept(k)
          /\ \A k \in StoredExpenses' \ StoredExpenses :
                /\ expenses'[k].classification # None => FindDuplicate(expenses'[k].fields) = {}
                /\ \A j \in StoredExpenses' \ StoredExpenses : j = k
      BY SerialExpenseStep
    <2>2. \A k \in StoredExpenses \cap StoredExpenses' :
             /\ expenses'[k].fields = expenses[k].fields
             /\ expenses'[k].classification # None => expenses[k].classification # None
      BY <2>1 DEF RowKept
    <2>3. ASSUME NEW k \in StoredExpenses', NEW j \in StoredExpenses',
                 expenses'[k].classification # None, expenses'[j].classification # None,
                 Identified(expenses'[k].fields),
                 expenses'[k].fields.vat = expenses'[j].fields.vat,
                 expenses'[k].fields.number = expenses'[j].fields.number
          PROVE k = j
      <3>1. Identified(expenses'[j].fields)  BY <2>3 DEF Identified
      <3>2. CASE k \in StoredExpenses /\ j \in StoredExpenses
        BY <2>2, <2>3, <3>2 DEF CountedOnce
      <3>3. CASE k \notin StoredExpenses /\ j \in StoredExpenses
        <4>1. j \in FindDuplicate(expenses'[k].fields)
          BY <2>2, <2>3, <3>3 DEF FindDuplicate
        <4> QED  BY <2>1, <2>3, <3>3, <4>1
      <3>4. CASE k \in StoredExpenses /\ j \notin StoredExpenses
        <4>1. k \in FindDuplicate(expenses'[j].fields)
          BY <2>2, <2>3, <3>1, <3>4 DEF FindDuplicate
        <4> QED  BY <2>1, <2>3, <3>4, <4>1
      <3>5. CASE k \notin StoredExpenses /\ j \notin StoredExpenses  BY <2>1, <2>3, <3>5
      <3> QED  BY <3>2, <3>3, <3>4, <3>5
    <2> QED  BY <2>3 DEF CountedOnce
  <1>3. All => CountedOnce  OBVIOUS
  <1> QED  BY <1>1, <1>2, <1>3, PTL DEF ExpenseSpec

\* Handled one at a time, no request changes a decision a person confirmed.
THEOREM SerialDecisionStands == Serial => (ExpenseSpec => DecisionStands)
  <1> SUFFICES ASSUME Serial PROVE ExpenseSpec => DecisionStands  OBVIOUS
  <1> DEFINE All == ExpenseInv /\ SerialExpenses
             Stands == \A k \in StoredExpenses \cap StoredExpenses' :
                          expenses[k].state = "reviewed" => expenses'[k] = expenses[k]
  <1>1. ExpenseInit => All
    <2>1. ExpenseInit => SerialExpenses  BY DEF ExpenseInit, SerialExpenses
    <2> QED  BY <2>1, ExpenseBase
  <1>2. All /\ [ExpenseNext]_expenseVars => All'  BY ExpenseStep, SerialExpenseStep
  <1>3. All /\ [ExpenseNext]_expenseVars => Stands
    <2> SUFFICES ASSUME All, [ExpenseNext]_expenseVars PROVE Stands  OBVIOUS
    <2>1. \A k \in StoredExpenses \cap StoredExpenses' : RowKept(k)  BY SerialExpenseStep
    <2> QED  BY <2>1 DEF RowKept
  <1>4. [][Stands]_expenseVars <=> DecisionStands  BY DEF DecisionStands
  <1> QED  BY <1>1, <1>2, <1>3, <1>4, PTL DEF ExpenseSpec

-----------------------------------------------------------------------------
(***************************************************************************)
(* The amounts of a row, in whichever order requests write it: what is     *)
(* recoverable is a part of what was detected, and nothing of a row that   *)
(* awaits review or is excluded.                                           *)
(***************************************************************************)

Sound(c) ==
    c # None =>
        /\ c.percent \in 0..100 /\ 0 <= c.recoverable /\ c.recoverable <= c.detected
        /\ c.treatment \in {"non_recoverable", "review_required"} => c.recoverable = 0

AmountInv ==
    /\ ExpenseInv
    /\ \A k \in StoredExpenses : Sound(expenses[k].classification)
    /\ \A r \in Requests : expenseTx[r] # None /\ expenseTx[r].op = "review" =>
          Sound(expenseTx[r].seen.classification) /\ LegalPercent(expenseTx[r].percent)

\* A share is no more than the whole.
LEMMA ShareBound ==
    ASSUME NEW d \in Nat, NEW p \in 0..100 PROVE PercentOf(d, p) \in 0..d
  <1>1. PICK t \in Int : t = d * p
    OBVIOUS
  <1>2. 0 <= t /\ t <= 100 * d
    <2>1. PICK r \in Nat : r = 100 - p
      OBVIOUS
    <2>2. d * p >= 0 /\ d * r >= 0 /\ d * r \in Int
      BY ONLY <2>1, d \in Nat, p \in 0..100, r \in Nat
    <2>3. d * r = 100 * d - d * p
      BY ONLY <2>1, d \in Nat, p \in 0..100, r \in Nat
    <2> QED
      BY ONLY <1>1, <2>2, <2>3, t \in Int, d \in Nat
  <1>3. PICK q \in Int : q = (t + 50) \div 100
    OBVIOUS
  <1>4. 0 <= q /\ q <= d
    BY ONLY <1>2, <1>3, t \in Int, d \in Nat, q \in Int
  <1> QED
    BY <1>1, <1>3, <1>4 DEF PercentOf

\* What is recoverable is a part of what was detected.
LEMMA RecoverableBound ==
    ASSUME NEW d \in Nat, NEW t \in Treatments, NEW p \in Int, p \in 0..100
    PROVE /\ Recoverable(d, t, p) \in 0..d
          /\ t \in {"non_recoverable", "review_required"} => Recoverable(d, t, p) = 0
  BY ShareBound DEF Recoverable, Treatments

\* A classification starts sound ...
LEMMA ClassifySound ==
    ASSUME NEW f \in Documents, Classifiable(f) PROVE Sound(Classify(f))
  <1>1. f.tva # None => f.tva \in Nat
    BY ExpenseAssumption DEF Classifiable
  <1>2. CASE Blocked(f)
    BY <1>1, <1>2 DEF Classify, Classification, Sound
  <1>3. CASE ~Blocked(f)
    <2>1. f.tva \in Nat
      BY <1>1, <1>3 DEF Blocked
    <2>2. PICK p \in 0..100 : p = Percent(f.category)
      BY DEF Percent
    <2>3. PercentOf(f.tva, p) \in 0..f.tva
      BY <2>1, ShareBound
    <2>4. /\ Sound(Classification("review_required", f.tva, 0, p))
          /\ Sound(Classification("non_recoverable", f.tva, 0, 0))
          /\ Sound(Classification(IF p = 100 THEN "recoverable" ELSE "partial",
                                  f.tva, PercentOf(f.tva, p), p))
      BY <2>1, <2>3 DEF Classification, Sound
    <2> QED
      BY <1>3, <2>2, <2>4 DEF Classify
  <1> QED
    BY <1>2, <1>3

LEMMA AmountBase == ExpenseInit => AmountInv
  BY ExpenseBase DEF AmountInv, ExpenseInit, StoredExpenses, Ids

\* ... and stays so through every decision on it.
LEMMA AmountStep ==
    ASSUME AmountInv, [ExpenseNext]_expenseVars PROVE AmountInv'
  <1>0. ExpenseInv /\ ExpenseInv'
    BY ExpenseStep DEF AmountInv
  <1> DEFINE RowsSound == \A k \in StoredExpenses : Sound(expenses[k].classification)
             TxSound == \A r \in Requests : expenseTx[r] # None /\ expenseTx[r].op = "review" =>
                          Sound(expenseTx[r].seen.classification) /\ LegalPercent(expenseTx[r].percent)
  <1> SUFFICES RowsSound' /\ TxSound'
    BY <1>0 DEF AmountInv
  <1>1. RowsSound /\ TxSound
    BY DEF AmountInv
  <1>2. ASSUME NEW r \in Requests, expenseTx' = [expenseTx EXCEPT ![r] = None] PROVE TxSound'
    BY <1>0, <1>1, <1>2 DEF ExpenseInv, ExpenseTxOK
  <1>3. ASSUME NEW r \in Requests, NEW f \in Documents, Look(r, f) PROVE RowsSound' /\ TxSound'
    <2>1. expenses' = expenses
      BY <1>3 DEF Look
    <2>2. PICK d : expenseTx' = [expenseTx EXCEPT ![r] = [op |-> "import", fields |-> f, duplicate |-> d]]
      BY <1>3 DEF Look
    <2> QED
      BY <1>0, <1>1, <2>1, <2>2 DEF StoredExpenses, ExpenseInv, ExpenseTxOK
  <1>4. ASSUME NEW r \in Requests, Store(r) PROVE RowsSound' /\ TxSound'
    <2>1. PICK row, f, d : f = expenseTx[r].fields /\ d = expenseTx[r].duplicate /\ row = ExpenseRow(f, d)
      OBVIOUS
    <2>2. /\ expenseTx[r] \in ImportTx /\ f \in Documents
          /\ expenses' = [expenses EXCEPT ![imported'] = row]
          /\ row.state # "failed" => Classifiable(f)
          /\ expenseTx' = [expenseTx EXCEPT ![r] = None]
      BY <1>0, <1>4, <2>1 DEF Store, ExpenseInv, ExpenseTxOK, ReviewTx, ImportTx
    <2>3. Sound(row.classification)
      BY <2>1, <2>2, ClassifySound DEF ExpenseRow, Sound
    <2>4. \A k \in StoredExpenses' : expenses'[k] = row \/ (k \in StoredExpenses /\ expenses'[k] = expenses[k])
      BY <1>0, <2>2 DEF ExpenseInv, ExpenseTypeOK, StoredExpenses
    <2>5. RowsSound'
      BY <1>1, <2>3, <2>4
    <2> QED
      BY <1>2, <2>2, <2>5
  <1>5. ASSUME NEW r \in Requests, NEW k \in Ids, NEW t \in Treatments,
               NEW p \in Percents \cup {None}, Read(r, k, t, p)
        PROVE RowsSound' /\ TxSound'
    <2>1. /\ k \in StoredExpenses /\ expenses' = expenses /\ LegalPercent(p)
          /\ expenseTx' = [expenseTx EXCEPT ![r] = [op |-> "review", id |-> k, seen |-> expenses[k],
                                                    treatment |-> t, percent |-> p]]
      BY <1>5 DEF Read
    <2>2. Sound(expenses[k].classification)
      BY <1>1, <2>1
    <2>3. RowsSound'
      BY <1>1, <2>1 DEF StoredExpenses
    <2>4. TxSound'
      <3> SUFFICES ASSUME NEW o \in Requests, expenseTx'[o] # None, expenseTx'[o].op = "review"
                   PROVE  Sound(expenseTx'[o].seen.classification) /\ LegalPercent(expenseTx'[o].percent)
        OBVIOUS
      <3>1. CASE o = r
        BY <1>0, <2>1, <2>2, <3>1 DEF ExpenseInv, ExpenseTxOK
      <3>2. CASE o # r
        BY <1>0, <1>1, <2>1, <3>2 DEF ExpenseInv, ExpenseTxOK
      <3> QED
        BY <3>1, <3>2
    <2> QED
      BY <2>3, <2>4
  <1>6. ASSUME NEW r \in Requests, Confirm(r) PROVE RowsSound' /\ TxSound'
    <2>1. PICK seen, c, percent, decided, row, t :
            /\ seen = expenseTx[r].seen /\ c = seen.classification /\ t = expenseTx[r].treatment
            /\ percent = (IF expenseTx[r].percent = None THEN c.percent ELSE expenseTx[r].percent)
            /\ decided = [c EXCEPT !.treatment = t, !.percent = percent,
                                   !.recoverable = Recoverable(c.detected, t, percent), !.confirmed = TRUE]
            /\ row = [seen EXCEPT !.state = "reviewed", !.classification = decided]
      OBVIOUS
    <2>2. /\ expenseTx[r] # None /\ expenseTx[r].op = "review" /\ expenseTx[r].id \in StoredExpenses
          /\ expenses' = [expenses EXCEPT ![expenseTx[r].id] = row]
          /\ expenseTx' = [expenseTx EXCEPT ![r] = None]
      BY <1>6, <2>1 DEF Confirm
    <2>3. expenseTx[r] \in ReviewTx /\ c # None /\ Sound(c) /\ LegalPercent(expenseTx[r].percent)
      BY <1>0, <1>1, <2>1, <2>2 DEF ExpenseInv, ExpenseTxOK, ImportTx
    <2>4. seen \in Rows /\ c \in Classifications /\ t \in Treatments
      BY <2>1, <2>3 DEF ReviewTx, Rows
    <2>5. c.detected \in Nat /\ c.percent \in 0..100 /\ percent \in 0..100
      <3>1. c.detected \in Int /\ c.recoverable \in Int /\ 0 <= c.recoverable /\ c.recoverable <= c.detected
        BY <2>3, <2>4 DEF Sound, Classifications
      <3>2. c.detected \in Nat
        BY <3>1
      <3>3. c.percent \in 0..100
        BY <2>3 DEF Sound
      <3>4. expenseTx[r].percent = None \/ expenseTx[r].percent \in 0..100
        BY <2>3 DEF LegalPercent
      <3>5. percent = c.percent \/ percent \in 0..100
        BY <2>1, <3>4, Zenon
      <3> QED
        BY <3>2, <3>3, <3>5
    <2>6. PICK R : R = Recoverable(c.detected, t, percent)
      OBVIOUS
    <2>7. R \in 0..c.detected /\ (t \in {"non_recoverable", "review_required"} => R = 0)
      BY <2>4, <2>5, <2>6, RecoverableBound
    <2>8. /\ decided.percent = percent /\ decided.recoverable = R /\ decided.detected = c.detected
          /\ decided.treatment = t /\ row.classification = decided
      BY <2>1, <2>4, <2>6 DEF Classifications, Rows
    <2>9. Sound(row.classification)
      BY <2>5, <2>7, <2>8 DEF Sound
    <2>10. \A k \in StoredExpenses' : expenses'[k] = row \/ (k \in StoredExpenses /\ expenses'[k] = expenses[k])
      BY <1>0, <2>2 DEF ExpenseInv, ExpenseTypeOK, StoredExpenses
    <2>11. RowsSound'
      BY <1>1, <2>9, <2>10
    <2> QED
      BY <1>2, <2>2, <2>11
  <1>7. ASSUME NEW r \in Requests, ExpenseRollback(r) PROVE RowsSound' /\ TxSound'
    BY <1>1, <1>2, <1>7 DEF ExpenseRollback, StoredExpenses
  <1>8. ASSUME NEW k \in Ids, DeleteExpense(k) PROVE RowsSound' /\ TxSound'
    <2>1. expenses' = [expenses EXCEPT ![k] = None] /\ expenseTx' = expenseTx
      BY <1>8 DEF DeleteExpense
    <2>2. \A j \in StoredExpenses' : j \in StoredExpenses /\ expenses'[j] = expenses[j]
      BY <1>0, <2>1 DEF ExpenseInv, ExpenseTypeOK, StoredExpenses
    <2> QED
      BY <1>1, <2>1, <2>2
  <1>9. CASE UNCHANGED expenseVars
    BY <1>1, <1>9 DEF expenseVars, StoredExpenses
  <1> HIDE DEF RowsSound, TxSound
  <1> QED
    BY <1>3, <1>4, <1>5, <1>6, <1>7, <1>8, <1>9 DEF ExpenseNext

\* So the parts of a VAT position are parts of what was detected.
LEMMA Position == AmountInv => PositionAddsUp
  <1> SUFFICES ASSUME AmountInv PROVE PositionAddsUp
    OBVIOUS
  <1> DEFINE D == [k \in Analyzed |-> expenses[k].classification.detected]
             R == [k \in Analyzed |-> expenses[k].classification.recoverable]
             A == Treated("review_required")
             B == Treated("non_recoverable")
             C == Analyzed \ (A \cup B)
             E == Analyzed \ Confirmed
  <1>1. IsFiniteSet(Analyzed)
    <2>1. Analyzed \subseteq 1..MaxImports /\ MaxImports \in Nat
      BY ExpenseAssumption DEF Analyzed, StoredExpenses, Ids
    <2>2. IsFiniteSet(1..MaxImports)
      BY <2>1, FS_Interval
    <2> QED
      BY <2>1, <2>2, FS_Subset
  <1>2. \A k \in Analyzed :
           /\ D[k] = expenses[k].classification.detected /\ R[k] = expenses[k].classification.recoverable
           /\ D[k] \in Int /\ R[k] \in Int /\ 0 <= R[k] /\ R[k] <= D[k]
           /\ k \in A \cup B => R[k] = 0
    <2> TAKE k \in Analyzed
    <2>1. PICK c : c = expenses[k].classification
      OBVIOUS
    <2>2. c # None /\ Sound(c) /\ c \in Classifications
      BY <2>1 DEF Analyzed, AmountInv, ExpenseInv, ExpenseTypeOK, StoredExpenses, Rows
    <2>3. c.detected \in Int /\ c.recoverable \in Int
      BY <2>2 DEF Classifications
    <2>4. k \in A \cup B => c.treatment \in {"non_recoverable", "review_required"}
      BY <2>1 DEF Treated
    <2> QED
      BY <2>1, <2>2, <2>3, <2>4 DEF Sound
  <1>3. \A S \in SUBSET Analyzed :
           /\ IsFiniteSet(S)
           /\ SumFunctionOnSet(D, S) \in Int /\ SumFunctionOnSet(R, S) \in Int
           /\ ExpenseTotal("detected", S) = SumFunctionOnSet(D, S)
           /\ ExpenseTotal("recoverable", S) = SumFunctionOnSet(R, S)
    <2> TAKE S \in SUBSET Analyzed
    <2> HIDE DEF D, R, A, B
    <2>1. IsFiniteSet(S) /\ \A k \in S : D[k] \in Int /\ R[k] \in Int
      BY <1>1, <1>2, FS_Subset
    <2> DEFINE d == [k \in S |-> expenses[k].classification["detected"]]
               q == [k \in S |-> expenses[k].classification["recoverable"]]
    <2>2. \A k \in S : d[k] = D[k] /\ q[k] = R[k]
      BY <1>2
    <2>3. ExpenseTotal("detected", S) = SumFunctionOnSet(d, S) /\ ExpenseTotal("recoverable", S) = SumFunctionOnSet(q, S)
      BY Zenon DEF ExpenseTotal
    <2> HIDE DEF d, q
    <2> QED
      BY <2>1, <2>2, <2>3, SumSame, SumType
  <1>4. /\ A \in SUBSET Analyzed /\ B \in SUBSET Analyzed /\ C \in SUBSET Analyzed /\ A \cup B \in SUBSET Analyzed
        /\ Confirmed \in SUBSET Analyzed /\ E \in SUBSET Analyzed /\ Analyzed \in SUBSET Analyzed
        /\ A \cap B = {} /\ (A \cup B) \cap C = {} /\ Confirmed \cap E = {}
        /\ (A \cup B) \cup C = Analyzed /\ Confirmed \cup E = Analyzed
    BY DEF Treated, Confirmed
  <1> HIDE DEF A, B, C, D, E, R
  <1>5. /\ SumFunctionOnSet(D, Analyzed) = SumFunctionOnSet(D, A \cup B) + SumFunctionOnSet(D, C)
        /\ SumFunctionOnSet(D, A \cup B) = SumFunctionOnSet(D, A) + SumFunctionOnSet(D, B)
        /\ SumFunctionOnSet(R, Analyzed) = SumFunctionOnSet(R, A \cup B) + SumFunctionOnSet(R, C)
        /\ SumFunctionOnSet(R, Analyzed) = SumFunctionOnSet(R, Confirmed) + SumFunctionOnSet(R, E)
    <2>1. \A x \in Analyzed : D[x] \in Int /\ R[x] \in Int
      BY <1>2
    <2>2. SumFunctionOnSet(D, Analyzed) = SumFunctionOnSet(D, A \cup B) + SumFunctionOnSet(D, C)
      <3>1. SumFunctionOnSet(D, (A \cup B) \cup C) = SumFunctionOnSet(D, A \cup B) + SumFunctionOnSet(D, C)
        BY <1>3, <1>4, <2>1, SumDisjoint
      <3> QED
        BY <1>4, <3>1
    <2>3. SumFunctionOnSet(D, A \cup B) = SumFunctionOnSet(D, A) + SumFunctionOnSet(D, B)
      BY <1>3, <1>4, <2>1, SumDisjoint
    <2>4. SumFunctionOnSet(R, Analyzed) = SumFunctionOnSet(R, A \cup B) + SumFunctionOnSet(R, C)
      <3>1. SumFunctionOnSet(R, (A \cup B) \cup C) = SumFunctionOnSet(R, A \cup B) + SumFunctionOnSet(R, C)
        BY <1>3, <1>4, <2>1, SumDisjoint
      <3> QED
        BY <1>4, <3>1
    <2>5. SumFunctionOnSet(R, Analyzed) = SumFunctionOnSet(R, Confirmed) + SumFunctionOnSet(R, E)
      <3>1. SumFunctionOnSet(R, Confirmed \cup E) = SumFunctionOnSet(R, Confirmed) + SumFunctionOnSet(R, E)
        BY <1>3, <1>4, <2>1, SumDisjoint
      <3> QED
        BY <1>4, <3>1
    <2> QED
      BY <2>2, <2>3, <2>4, <2>5
  <1>6. SumFunctionOnSet(R, A \cup B) = 0
    <2>1. SumFunctionOnSet(R, A \cup B) = Cardinality(A \cup B) * 0
      <3>1. 0 \in Int /\ \A x \in A \cup B : R[x] = 0
        BY <1>2, <1>4
      <3> QED
        BY <1>3, <1>4, <3>1, SumConstant
    <2>2. Cardinality(A \cup B) \in Nat
      BY <1>3, <1>4, FS_CardinalityType
    <2> QED
      BY <2>1, <2>2
  <1>7. SumFunctionOnSet(R, C) <= SumFunctionOnSet(D, C)
    <2>1. \A x \in C : R[x] \in Int /\ D[x] \in Int /\ R[x] <= D[x]
      BY <1>2, <1>4
    <2> QED
      BY <1>3, <1>4, <2>1, SumBounded
  <1>8. PICK da \in Int, db \in Int, dc \in Int, dab \in Int, dd \in Int, rc \in Int, re \in Int, rf \in Int, rr \in Int, rab \in Int :
          /\ da = SumFunctionOnSet(D, A) /\ db = SumFunctionOnSet(D, B) /\ dc = SumFunctionOnSet(D, C)
          /\ dab = SumFunctionOnSet(D, A \cup B) /\ dd = SumFunctionOnSet(D, Analyzed)
          /\ rc = SumFunctionOnSet(R, C) /\ re = SumFunctionOnSet(R, E) /\ rf = SumFunctionOnSet(R, Confirmed)
          /\ rr = SumFunctionOnSet(R, Analyzed) /\ rab = SumFunctionOnSet(R, A \cup B)
    BY <1>3, <1>4
  <1>9. rf + re + da + db <= dd
    BY <1>5, <1>6, <1>7, <1>8
  <1>10. /\ TvaPosition.detected = dd /\ TvaPosition.confirmed_recoverable = rf
         /\ TvaPosition.potential_recoverable = re
         /\ TvaPosition.review_required = da /\ TvaPosition.non_recoverable = db
    BY <1>3, <1>4, <1>8 DEF TvaPosition, A, B, E
  <1> QED
    BY <1>9, <1>10 DEF PositionAddsUp

-----------------------------------------------------------------------------
(***************************************************************************)
(* The document templates, with the requests of one company served one at  *)
(* a time: one default.  Inductive with it: what the open transaction has  *)
(* read is still so, and the versions of a template have no gap.           *)
(***************************************************************************)

TemplateOps == {"add", "add_default", "clear_add", "clear_set", "set", "delete", "update", "publish"}

TemplateTypes ==
    /\ rows \in [Templates -> TemplateRecords \cup {None}]
    /\ templateTx \in [Requests ->
          [op : TemplateOps, of : Templates, seen : TemplateRecords \cup {None},
           cleared : SUBSET Templates, awaits : SUBSET Requests] \cup {None}]
    /\ StoredTemplates \subseteq made

\* The one default, and the versions of each template, without a gap
Library ==
    /\ StoredTemplates # {} => \E d \in StoredTemplates : Defaults = {d}
    /\ \A t \in StoredTemplates : VersionsOf(t) = 1..rows[t].published
    /\ \A v \in versions : v.of \in StoredTemplates

\* What the one open transaction has read is still so.
ReadHolds(x) ==
    /\ x.op \in {"add", "add_default", "clear_add"} => x.of \notin StoredTemplates
    /\ x.op = "add" => StoredTemplates # {}
    /\ x.op \in {"add", "clear_add", "clear_set"} => x.cleared = {}
    /\ x.op \in {"add_default", "set"} => x.cleared = Defaults
    /\ x.op \in {"clear_set", "set", "delete", "update", "publish"} => x.of \in StoredTemplates
    /\ x.op \in {"clear_set", "set"} => x.seen = rows[x.of]
    /\ x.op = "delete" => ~rows[x.of].default
    /\ x.op \in {"update", "publish"} =>
          /\ x.seen \in TemplateRecords
          /\ x.seen.default = rows[x.of].default /\ x.seen.published = rows[x.of].published

OneAtATime ==
    /\ \A r, o \in Requests : templateTx[r] # None /\ templateTx[o] # None => r = o
    /\ \A r \in Requests :
          templateTx[r] # None => templateTx[r].of \in made /\ ReadHolds(templateTx[r])

TemplateInv == TemplateTypes /\ Library /\ OneAtATime

\* The highest of the numbers 1..n is n.
LEMMA HighestVersion ==
  ASSUME NEW n \in Nat
  PROVE  Max({0} \cup 1..n) = n
  <1>1. n \in {0} \cup 1..n /\ \A y \in {0} \cup 1..n : n >= y
    OBVIOUS
  <1>2. \A x \in {0} \cup 1..n : (\A y \in {0} \cup 1..n : x >= y) => x = n
    BY <1>1
  <1> QED
    BY <1>1, <1>2 DEF Max

\* What is read back from a library in this state has one default.
LEMMA TemplateInvImplies == TemplateInv => OneDefault
  <1> SUFFICES ASSUME TemplateInv PROVE OneDefault
    OBVIOUS
  <1>1. StoredTemplates # {} => Cardinality(Defaults) = 1
    BY FS_Singleton DEF TemplateInv, Library
  <1>2. ASSUME NEW t \in StoredTemplates
        PROVE  rows[t].published = Max({0} \cup VersionsOf(t))
    <2>1. rows[t].published \in Nat
      BY TemplateAssumption DEF TemplateInv, TemplateTypes, TemplateRecords, StoredTemplates
    <2> QED
      BY <2>1, HighestVersion DEF TemplateInv, Library
  <1> QED
    BY <1>1, <1>2 DEF OneDefault

\* A transaction that ends, alone, leaves none.
LEMMA TemplateEnds ==
  ASSUME TemplateInv, NEW r \in Requests, templateTx[r] # None, End(r)
  PROVE  templateTx' = [o \in Requests |-> None]
  BY DEF TemplateInv, OneAtATime, End

\* A request that finds the others idle begins with what it reads.
LEMMA TemplateBegins ==
  ASSUME Serial, TemplateInv, NEW r \in Requests, TemplateAlone(r), NEW op \in TemplateOps,
         NEW t \in Templates, NEW seen \in TemplateRecords \cup {None},
         BeginTemplate(r, op, t, seen), UNCHANGED <<rows, versions>>,
         made \subseteq made', t \in made',
         ReadHolds([op |-> op, of |-> t, seen |-> seen, cleared |-> {}, awaits |-> {}])
  PROVE  TemplateInv'
  <1> DEFINE x == [op |-> op, of |-> t, seen |-> seen, cleared |-> {}, awaits |-> {}]
  <1>1. StoredTemplates' = StoredTemplates /\ Defaults' = Defaults
        /\ \A s \in Templates : VersionsOf(s)' = VersionsOf(s)
    BY DEF StoredTemplates, Defaults, VersionsOf
  <1>2. \A o \in Requests : templateTx'[o] = IF o = r THEN x ELSE None
    BY DEF TemplateAlone, BeginTemplate, TemplateInv, TemplateTypes
  <1>3. TemplateTypes'
    BY <1>1 DEF TemplateInv, TemplateTypes, BeginTemplate
  <1>4. Library'
    BY <1>1 DEF TemplateInv, Library, StoredTemplates
  <1>5. ReadHolds(x)'
    BY <1>1 DEF ReadHolds
  <1> HIDE DEF x
  <1>6. OneAtATime'
    <2>1. \A o \in Requests : templateTx'[o] # None => o = r /\ templateTx'[o] = x
      BY <1>2
    <2>2. \A y : y = x => y.of \in made' /\ ReadHolds(y)'
      BY <1>5 DEF x
    <2> QED
      BY <2>1, <2>2 DEF OneAtATime
  <1> QED
    BY <1>3, <1>4, <1>6 DEF TemplateInv

\* An empty library, with no request open.
LEMMA TemplateStarts == TemplateInit => TemplateInv
  BY DEF TemplateInit, TemplateInv, TemplateTypes, Library, OneAtATime, StoredTemplates,
         Defaults, VersionsOf

\* The rows change, and the transaction that changed them is over.
LEMMA TemplateWrites ==
  ASSUME TemplateInv, NEW r \in Requests, templateTx[r] # None, End(r), UNCHANGED made,
         rows' \in [Templates -> TemplateRecords \cup {None}],
         StoredTemplates' \subseteq made, Library'
  PROVE  TemplateInv'
  <1>1. templateTx' = [o \in Requests |-> None]
    BY TemplateEnds
  <1>2. TemplateTypes'
    BY <1>1 DEF TemplateTypes
  <1>3. OneAtATime'
    BY <1>1 DEF OneAtATime
  <1> QED
    BY <1>2, <1>3 DEF TemplateInv

\* Every request, and every statement of it.
LEMMA TemplateStep ==
  ASSUME Serial, TemplateInv, [TemplateNext]_templateVars
  PROVE  TemplateInv'
  <1> USE DEF In
  <1>1. ASSUME NEW r \in Requests, NEW t \in Templates, NEW isDefault \in BOOLEAN,
               List(r, t, isDefault)
        PROVE  TemplateInv'
    <2>1. PICK op \in {"add_default", "clear_add", "add"} :
             /\ BeginTemplate(r, op, t, None)
             /\ op = "add_default" => StoredTemplates = {}
             /\ op = "add" => StoredTemplates # {}
      BY <1>1 DEF List
    <2>2. op = "add_default" => Defaults = {}
      BY <2>1 DEF Defaults
    <2>3. t \notin StoredTemplates
      BY <1>1 DEF List, TemplateInv, TemplateTypes
    <2>4. ReadHolds([op |-> op, of |-> t, seen |-> None, cleared |-> {}, awaits |-> {}])
      BY <2>1, <2>2, <2>3 DEF ReadHolds
    <2>5. op \in TemplateOps
      BY DEF TemplateOps
    <2>6. TemplateAlone(r) /\ UNCHANGED <<rows, versions>>
          /\ made \subseteq made' /\ t \in made'
      BY <1>1 DEF List
    <2> QED
      BY <2>1, <2>4, <2>5, <2>6, TemplateBegins
  <1>2. ASSUME NEW r \in Requests, NEW t \in Templates, NEW op \in TemplateOps,
               NEW seen \in TemplateRecords \cup {None},
               TemplateAlone(r), BeginTemplate(r, op, t, seen),
               UNCHANGED <<rows, versions, made>>, t \in StoredTemplates,
               ReadHolds([op |-> op, of |-> t, seen |-> seen, cleared |-> {}, awaits |-> {}])
        PROVE  TemplateInv'
    <2>1. t \in made'
      BY <1>2 DEF TemplateInv, TemplateTypes
    <2> QED
      BY <1>2, <2>1, TemplateBegins
  <1>3. \A t \in StoredTemplates : t \in Templates /\ rows[t] \in TemplateRecords
    BY DEF StoredTemplates, TemplateInv, TemplateTypes
  <1>4. ASSUME NEW r \in Requests, NEW t \in Templates,
               ReadToSet(r, t) \/ ReadToDelete(r, t) \/ ReadToPublish(r, t)
        PROVE  TemplateInv'
    <2>1. PICK op \in {"clear_set", "delete", "publish"} :
             /\ BeginTemplate(r, op, t, rows[t])
             /\ op = "delete" => ~rows[t].default
      BY <1>4 DEF ReadToSet, ReadToDelete, ReadToPublish
    <2>2. t \in StoredTemplates /\ TemplateAlone(r) /\ UNCHANGED <<rows, versions, made>>
      BY <1>4 DEF ReadToSet, ReadToDelete, ReadToPublish
    <2>3. ReadHolds([op |-> op, of |-> t, seen |-> rows[t], cleared |-> {}, awaits |-> {}])
      BY <1>3, <2>1, <2>2 DEF ReadHolds
    <2>4. op \in TemplateOps
      BY DEF TemplateOps
    <2> QED
      BY <1>2, <1>3, <2>1, <2>2, <2>3, <2>4
  <1>5. ASSUME NEW r \in Requests, NEW t \in Templates, NEW draft \in Contents,
               ReadToUpdate(r, t, draft)
        PROVE  TemplateInv'
    <2> DEFINE seen == [rows[t] EXCEPT !.draft = draft]
    <2>1. /\ BeginTemplate(r, "update", t, seen)
          /\ t \in StoredTemplates /\ TemplateAlone(r) /\ UNCHANGED <<rows, versions, made>>
      BY <1>5 DEF ReadToUpdate
    <2>2. seen \in TemplateRecords /\ seen.default = rows[t].default
             /\ seen.published = rows[t].published
      BY <1>3, <2>1 DEF TemplateRecords
    <2> HIDE DEF seen
    <2>3. ReadHolds([op |-> "update", of |-> t, seen |-> seen, cleared |-> {}, awaits |-> {}])
      BY <2>1, <2>2 DEF ReadHolds
    <2> QED
      BY <1>2, <2>1, <2>2, <2>3 DEF TemplateOps
  <1>6. ASSUME NEW r \in Requests, ClearDefault(r)
        PROVE  TemplateInv'
    <2> DEFINE x == templateTx[r]
    <2>1. x # None /\ x.op \in {"clear_add", "clear_set"} /\ ReadHolds(x) /\ x.of \in made
      BY <1>6 DEF ClearDefault, TemplateInv, OneAtATime
    <2>2. UNCHANGED <<rows, versions, made>>
      BY <1>6 DEF ClearDefault
    <2>3. StoredTemplates' = StoredTemplates /\ Defaults' = Defaults
          /\ \A s \in Templates : VersionsOf(s)' = VersionsOf(s)
      BY <2>2 DEF StoredTemplates, Defaults, VersionsOf
    <2>4. x \in [op : TemplateOps, of : Templates, seen : TemplateRecords \cup {None},
                 cleared : SUBSET Templates, awaits : SUBSET Requests]
      BY <2>1 DEF TemplateInv, TemplateTypes
    <2>5. PICK y \in [op : TemplateOps, of : Templates, seen : TemplateRecords \cup {None},
                      cleared : SUBSET Templates, awaits : SUBSET Requests] :
             /\ templateTx' = [templateTx EXCEPT ![r] = y]
             /\ y.op = IF x.op = "clear_add" THEN "add_default" ELSE "set"
             /\ y.of = x.of /\ y.seen = x.seen /\ y.cleared = Defaults
      <3> DEFINE z == [x EXCEPT !.op = IF x.op = "clear_add" THEN "add_default" ELSE "set",
                                !.cleared = Defaults,
                                !.awaits = {o \in Requests \ {r} :
                                              /\ templateTx[o] # None
                                              /\ templateTx[o].cleared \cap Defaults # {}}]
      <3>1. templateTx' = [templateTx EXCEPT ![r] = z]
        BY <1>6 DEF ClearDefault
      <3>2. Defaults \subseteq Templates
        BY DEF Defaults, StoredTemplates
      <3>3. /\ z.op = IF x.op = "clear_add" THEN "add_default" ELSE "set"
            /\ z.of = x.of /\ z.seen = x.seen /\ z.cleared = Defaults
            /\ z \in [op : TemplateOps, of : Templates, seen : TemplateRecords \cup {None},
                      cleared : SUBSET Templates, awaits : SUBSET Requests]
        BY <2>4, <3>2 DEF TemplateOps
      <3> HIDE DEF z
      <3> QED
        BY <3>1, <3>3
    <2>6. \A o \in Requests : templateTx'[o] = IF o = r THEN y ELSE templateTx[o]
      BY <2>5 DEF TemplateInv, TemplateTypes
    <2>7. y.of \in made' /\ ReadHolds(y)'
      <3>1. ReadHolds(y)
        BY <2>1, <2>5 DEF ReadHolds
      <3> QED
        BY <2>1, <2>2, <2>3, <2>5, <3>1 DEF ReadHolds
    <2>8. TemplateTypes'
      BY <2>2, <2>3, <2>5 DEF TemplateInv, TemplateTypes
    <2>9. Library'
      BY <2>2, <2>3 DEF TemplateInv, Library, StoredTemplates
    <2>10. OneAtATime'
      <3>1. \A o \in Requests : templateTx'[o] # None => o = r /\ templateTx'[o] = y
        BY <2>1, <2>6 DEF TemplateInv, OneAtATime
      <3>2. \A z : z = y => z.of \in made' /\ ReadHolds(z)'
        BY <2>7
      <3> QED
        BY <3>1, <3>2 DEF OneAtATime
    <2> QED
      BY <2>8, <2>9, <2>10 DEF TemplateInv
  <1>7. ASSUME NEW r \in Requests, NEW row \in TemplateRecords, templateTx[r] # None,
               templateTx[r].of \in Templates, templateTx[r].of \in made,
               End(r), UNCHANGED <<versions, made>>,
               rows' = [Cleared(r) EXCEPT ![templateTx[r].of] = row],
               templateTx[r].of \in StoredTemplates => row.published = rows[templateTx[r].of].published,
               templateTx[r].of \notin StoredTemplates => row.published = 0,
               row.default => Defaults \ {templateTx[r].of} \subseteq templateTx[r].cleared,
               ~row.default => templateTx[r].cleared = {} /\ templateTx[r].of \notin Defaults
                               /\ StoredTemplates # {}
        PROVE  TemplateInv'
    <2> DEFINE u == templateTx[r].of
               cl == templateTx[r].cleared
    <2>1. \A t \in Templates :
             rows'[t] = IF t = u THEN row
                        ELSE IF t \in StoredTemplates /\ t \in cl
                        THEN [rows[t] EXCEPT !.default = FALSE] ELSE rows[t]
      BY <1>7 DEF Cleared
    <2>2. rows' \in [Templates -> TemplateRecords \cup {None}]
      BY ZenonT(30), <1>3, <1>7, <2>1 DEF Cleared, TemplateRecords, TemplateInv, TemplateTypes
    <2>3. \A t \in StoredTemplates \ {u} :
             /\ rows'[t] \in TemplateRecords /\ rows'[t] # None
             /\ rows'[t].published = rows[t].published
             /\ rows'[t].default <=> rows[t].default /\ t \notin cl
      <3> SUFFICES ASSUME NEW t \in StoredTemplates, t # u
                   PROVE  /\ rows'[t] \in TemplateRecords /\ rows'[t] # None
                          /\ rows'[t].published = rows[t].published
                          /\ rows'[t].default <=> rows[t].default /\ t \notin cl
        OBVIOUS
      <3>1. CASE t \in cl
        <4>1. rows'[t] = [rows[t] EXCEPT !.default = FALSE] /\ rows[t] \in TemplateRecords
          BY <1>3, <2>1, <3>1
        <4>2. rows'[t] \in TemplateRecords /\ rows'[t].published = rows[t].published
              /\ rows'[t].default = FALSE
          BY <4>1 DEF TemplateRecords
        <4> QED
          BY <3>1, <4>2, TemplateAssumption
      <3>2. CASE t \notin cl
        BY <1>3, <2>1, <3>2, TemplateAssumption DEF TemplateRecords
      <3> QED
        BY <3>1, <3>2
    <2>4. StoredTemplates' = StoredTemplates \cup {u}
      <3>1. rows'[u] = row /\ row # None /\ u \in Templates
        BY <1>7, <2>1, TemplateAssumption
      <3>2. \A t \in Templates \ ({u} \cup StoredTemplates) : rows'[t] = rows[t]
        BY <2>1
      <3> QED
        BY <2>3, <3>1, <3>2 DEF StoredTemplates
    <2>5. \A t \in Templates : VersionsOf(t)' = VersionsOf(t)
      BY <1>7 DEF VersionsOf
    <2>6. StoredTemplates # {} => \E d \in StoredTemplates : Defaults = {d}
      BY DEF TemplateInv, Library
    <2>7. \E d \in StoredTemplates' : Defaults' = {d}
      <3>1. \A t : t \in Defaults' <=> t \in StoredTemplates' /\ rows'[t].default
        BY DEF Defaults
      <3>2. \A t : t \in Defaults <=> t \in StoredTemplates /\ rows[t].default
        BY DEF Defaults
      <3>3. rows'[u] = row
        BY <1>7, <2>1
      <3>4. CASE row.default
        <4>1. Defaults' = {u}
          BY <1>7, <2>3, <2>4, <3>1, <3>2, <3>3, <3>4
        <4> QED
          BY <2>4, <4>1
      <3>5. CASE ~row.default
        <4>1. PICK d \in StoredTemplates : Defaults = {d}
          BY <1>7, <2>6, <3>5
        <4>2. d # u /\ cl = {}
          BY <1>7, <3>5, <4>1
        <4>3. Defaults' = {d}
          BY <2>3, <2>4, <3>1, <3>2, <3>3, <3>5, <4>1, <4>2
        <4> QED
          BY <2>4, <4>1, <4>3
      <3> QED
        BY <3>4, <3>5
    <2>8. u \notin StoredTemplates => VersionsOf(u) = {}
      BY DEF TemplateInv, Library, VersionsOf
    <2>9. \A t \in StoredTemplates' : VersionsOf(t)' = 1..rows'[t].published
      <3> SUFFICES ASSUME NEW t \in StoredTemplates'
                   PROVE  VersionsOf(t)' = 1..rows'[t].published
        OBVIOUS
      <3>1. t \in Templates
        BY DEF StoredTemplates
      <3>2. CASE t = u
        <4>1. rows'[u] = row
          BY <1>7, <2>1
        <4>2. CASE u \in StoredTemplates
          BY <1>7, <2>5, <3>2, <4>1, <4>2 DEF TemplateInv, Library
        <4>3. CASE u \notin StoredTemplates
          <5>1. 1..0 = {}
            OBVIOUS
          <5> QED
            BY <1>7, <2>5, <2>8, <3>1, <3>2, <4>1, <4>3, <5>1
        <4> QED
          BY <4>2, <4>3
      <3>3. CASE t # u
        BY <2>3, <2>4, <2>5, <3>1, <3>3 DEF TemplateInv, Library
      <3> QED
        BY <3>2, <3>3
    <2>10. \A v \in versions' : v.of \in StoredTemplates'
      BY <1>7, <2>4 DEF TemplateInv, Library
    <2>11. Library'
      BY <2>7, <2>9, <2>10 DEF Library
    <2>12. StoredTemplates' \subseteq made
      BY <1>7, <2>4 DEF TemplateInv, TemplateTypes
    <2> QED
      BY <1>7, <2>2, <2>11, <2>12, TemplateWrites
  <1>8. ASSUME NEW r \in Requests, templateTx[r] # None
        PROVE  /\ templateTx[r] \in [op : TemplateOps, of : Templates,
                     seen : TemplateRecords \cup {None}, cleared : SUBSET Templates,
                     awaits : SUBSET Requests]
               /\ templateTx[r].of \in made /\ ReadHolds(templateTx[r])
    BY <1>8 DEF TemplateInv, TemplateTypes, OneAtATime
  <1>9. ASSUME NEW r \in Requests, NEW draft \in Contents, Add(r, draft)
        PROVE  TemplateInv'
    <2> DEFINE x == templateTx[r]
               row == [default |-> x.op = "add_default", draft |-> draft, published |-> 0]
    <2>1. x # None /\ x.op \in {"add", "add_default"} /\ End(r) /\ UNCHANGED <<versions, made>>
      BY <1>9 DEF Add
    <2>2. x.of \in Templates /\ x.of \in made /\ ReadHolds(x)
      BY <1>8, <2>1
    <2>3. row \in TemplateRecords /\ row.published = 0 /\ row.default = (x.op = "add_default")
      BY <2>1, TemplateAssumption DEF TemplateRecords
    <2>4. rows' = [Cleared(r) EXCEPT ![x.of] = row]
      BY <1>9 DEF Add
    <2>5. x.of \notin StoredTemplates /\ x.of \notin Defaults
      BY <2>1, <2>2 DEF ReadHolds, Defaults
    <2>6. /\ row.default => x.cleared = Defaults
          /\ ~row.default => x.cleared = {} /\ StoredTemplates # {}
      BY <2>1, <2>2, <2>3 DEF ReadHolds
    <2> HIDE DEF row
    <2> QED
      BY <1>7, <2>1, <2>2, <2>3, <2>4, <2>5, <2>6
  <1>10. ASSUME NEW r \in Requests, SetDefault(r)
         PROVE  TemplateInv'
    <2> DEFINE x == templateTx[r]
               row == [x.seen EXCEPT !.default = TRUE]
    <2>1. x # None /\ x.op = "set" /\ End(r) /\ UNCHANGED <<versions, made>>
          /\ x.of \in StoredTemplates
      BY <1>10 DEF SetDefault
    <2>2. x.of \in Templates /\ x.of \in made /\ ReadHolds(x)
      BY <1>8, <2>1
    <2>3. x.seen = rows[x.of] /\ x.cleared = Defaults
      BY <2>1, <2>2 DEF ReadHolds
    <2>4. row \in TemplateRecords /\ row.published = rows[x.of].published /\ row.default
      BY <1>3, <2>1, <2>3 DEF TemplateRecords
    <2>5. rows' = [Cleared(r) EXCEPT ![x.of] = row]
      BY <1>10 DEF SetDefault
    <2> HIDE DEF row
    <2> QED
      BY <1>7, <2>1, <2>2, <2>3, <2>4, <2>5
  <1>11. ASSUME NEW r \in Requests, DeleteTemplate(r)
         PROVE  TemplateInv'
    <2> DEFINE u == templateTx[r].of
    <2>1. /\ templateTx[r] # None /\ templateTx[r].op = "delete" /\ End(r) /\ UNCHANGED made
          /\ rows' = [rows EXCEPT ![u] = None] /\ versions' = {v \in versions : v.of # u}
      BY <1>11 DEF DeleteTemplate
    <2>2. u \in Templates /\ ReadHolds(templateTx[r])
      BY <1>8, <2>1
    <2>3. u \in StoredTemplates /\ ~rows[u].default
      BY <2>1, <2>2 DEF ReadHolds
    <2>4. rows' \in [Templates -> TemplateRecords \cup {None}]
      BY <2>1, <2>2 DEF TemplateInv, TemplateTypes
    <2>5. \A t \in Templates : rows'[t] = IF t = u THEN None ELSE rows[t]
      BY <2>1 DEF TemplateInv, TemplateTypes
    <2>6. StoredTemplates' = StoredTemplates \ {u}
      BY <2>5 DEF StoredTemplates
    <2>7. Defaults' = Defaults /\ u \notin Defaults
      BY <2>3, <2>5, <2>6, <1>3 DEF Defaults
    <2>8. \A t \in StoredTemplates' : VersionsOf(t)' = VersionsOf(t)
      BY <2>1, <2>6 DEF VersionsOf
    <2>9. Library'
      <3>1. StoredTemplates' # {} => \E d \in StoredTemplates' : Defaults' = {d}
        BY <2>6, <2>7 DEF TemplateInv, Library
      <3>2. \A t \in StoredTemplates' : VersionsOf(t)' = 1..rows'[t].published
        BY <1>3, <2>5, <2>6, <2>8 DEF TemplateInv, Library
      <3>3. \A v \in versions' : v.of \in StoredTemplates'
        BY <2>1, <2>6 DEF TemplateInv, Library
      <3> QED
        BY <3>1, <3>2, <3>3 DEF Library
    <2>10. StoredTemplates' \subseteq made
      BY <2>6 DEF TemplateInv, TemplateTypes
    <2> QED
      BY <2>1, <2>4, <2>9, <2>10, TemplateWrites
  <1>12. ASSUME NEW r \in Requests, Update(r)
         PROVE  TemplateInv'
    <2> DEFINE u == templateTx[r].of
               row == templateTx[r].seen
    <2>1. /\ templateTx[r] # None /\ templateTx[r].op = "update" /\ End(r)
          /\ UNCHANGED <<versions, made>> /\ rows' = [rows EXCEPT ![u] = row]
          /\ u \in StoredTemplates
      BY <1>12 DEF Update
    <2>2. ReadHolds(templateTx[r])
      BY <1>8, <2>1
    <2>3. row \in TemplateRecords /\ row # None
          /\ row.default = rows[u].default /\ row.published = rows[u].published
      BY <2>1, <2>2, TemplateAssumption DEF ReadHolds
    <2>4. rows' \in [Templates -> TemplateRecords \cup {None}]
      BY <2>1, <2>3 DEF TemplateInv, TemplateTypes
    <2>5. \A t \in Templates : rows'[t] = IF t = u THEN row ELSE rows[t]
      BY <2>1 DEF TemplateInv, TemplateTypes
    <2>6. StoredTemplates' = StoredTemplates
      BY <2>1, <2>3, <2>5 DEF StoredTemplates
    <2>7. Defaults' = Defaults
      BY <1>3, <2>3, <2>5, <2>6 DEF Defaults
    <2>8. \A t \in StoredTemplates : VersionsOf(t)' = VersionsOf(t)
             /\ rows'[t].published = rows[t].published
      BY <1>3, <2>1, <2>3, <2>5 DEF VersionsOf
    <2>9. Library'
      BY <2>1, <2>6, <2>7, <2>8 DEF TemplateInv, Library
    <2> QED
      BY <2>1, <2>4, <2>6, <2>9, TemplateWrites DEF TemplateInv, TemplateTypes
  <1>13. ASSUME NEW r \in Requests, Publish(r)
         PROVE  TemplateInv'
    <2> DEFINE u == templateTx[r].of
               n == rows[u].published + 1
               version == [of |-> u, number |-> n, content |-> templateTx[r].seen.draft]
    <2>1. templateTx[r] # None /\ End(r) /\ UNCHANGED made /\ u \in StoredTemplates
      BY <1>13 DEF Publish
    <2>2. u \in Templates /\ rows[u] \in TemplateRecords /\ rows[u].published \in Nat
      BY <1>3, <2>1, TemplateAssumption DEF TemplateRecords
    <2>3. Max({0} \cup VersionsOf(u)) + 1 = n
      BY <2>1, <2>2, HighestVersion DEF TemplateInv, Library
    <2>4. /\ n <= MaxVersion
          /\ versions' = versions \cup {version}
          /\ rows' = [rows EXCEPT ![u].published = n]
      BY <1>13, <2>3 DEF Publish
    <2>5. \A t \in Templates :
             rows'[t] = IF t = u THEN [rows[u] EXCEPT !.published = n] ELSE rows[t]
      BY <2>2, <2>4 DEF TemplateInv, TemplateTypes
    <2>6. rows'[u] \in TemplateRecords /\ rows'[u] # None /\ rows'[u].published = n
          /\ rows'[u].default = rows[u].default
      BY <2>2, <2>4, <2>5, TemplateAssumption DEF TemplateRecords
    <2>7. rows' \in [Templates -> TemplateRecords \cup {None}]
      BY <2>2, <2>4, <2>5, <2>6 DEF TemplateInv, TemplateTypes
    <2>8. StoredTemplates' = StoredTemplates
      BY <2>1, <2>5, <2>6 DEF StoredTemplates
    <2>9. Defaults' = Defaults
      BY <1>3, <2>5, <2>6, <2>8 DEF Defaults
    <2>10. \A t \in StoredTemplates : VersionsOf(t)' = 1..rows'[t].published
      <3> SUFFICES ASSUME NEW t \in StoredTemplates
                   PROVE  VersionsOf(t)' = 1..rows'[t].published
        OBVIOUS
      <3>1. VersionsOf(t) = 1..rows[t].published
        BY DEF TemplateInv, Library
      <3>2. CASE t = u
        <4>1. VersionsOf(t)' = VersionsOf(t) \cup {n}
          <5>1. VersionsOf(t)' = {v.number : v \in {w \in versions \cup {version} : w.of = t}}
            BY <2>4 DEF VersionsOf
          <5>2. version.of = t /\ version.number = n
            BY <3>2
          <5> HIDE DEF version
          <5>3. {w \in versions \cup {version} : w.of = t} = {w \in versions : w.of = t} \cup {version}
            BY <5>2
          <5> QED
            BY <5>1, <5>2, <5>3 DEF VersionsOf
        <4>2. (1..rows[t].published) \cup {n} = 1..n
          BY <2>2, <3>2
        <4> QED
          BY <2>6, <3>1, <3>2, <4>1, <4>2
      <3>3. CASE t # u
        <4>1. VersionsOf(t)' = VersionsOf(t)
          BY <2>4, <3>3 DEF VersionsOf
        <4>2. rows'[t] = rows[t]
          BY <1>3, <2>5, <3>3
        <4> QED
          BY <3>1, <4>1, <4>2
      <3> QED
        BY <3>2, <3>3
    <2>11. \A v \in versions' : v.of \in StoredTemplates'
      BY <2>1, <2>4, <2>8 DEF TemplateInv, Library
    <2>12. Library'
      BY <2>8, <2>9, <2>10, <2>11 DEF TemplateInv, Library
    <2>13. StoredTemplates' \subseteq made
      BY <2>8 DEF TemplateInv, TemplateTypes
    <2> QED
      BY <2>1, <2>7, <2>12, <2>13, TemplateWrites
  <1>14. ASSUME UNCHANGED <<rows, versions>>
         PROVE  /\ StoredTemplates' = StoredTemplates /\ Defaults' = Defaults
                /\ Library'
    <2>1. StoredTemplates' = StoredTemplates /\ Defaults' = Defaults
          /\ \A s \in Templates : VersionsOf(s)' = VersionsOf(s)
      BY <1>14 DEF StoredTemplates, Defaults, VersionsOf
    <2> QED
      BY <1>14, <2>1 DEF TemplateInv, Library, StoredTemplates
  <1>15. ASSUME NEW r \in Requests, TemplateRollback(r)
         PROVE  TemplateInv'
    <2>1. templateTx[r] # None /\ End(r) /\ UNCHANGED <<rows, versions, made>>
      BY <1>15 DEF TemplateRollback
    <2>2. Library' /\ StoredTemplates' \subseteq made
          /\ rows' \in [Templates -> TemplateRecords \cup {None}]
      BY <1>14, <2>1 DEF TemplateInv, TemplateTypes
    <2> QED
      BY <2>1, <2>2, TemplateWrites
  <1>16. ASSUME UNCHANGED templateVars
         PROVE  TemplateInv'
    <2>1. UNCHANGED <<rows, versions>> /\ UNCHANGED made /\ UNCHANGED templateTx
      BY <1>16 DEF templateVars
    <2>2. StoredTemplates' = StoredTemplates /\ Defaults' = Defaults /\ Library'
      BY <1>14, <2>1
    <2>3. \A x : ReadHolds(x)' <=> ReadHolds(x)
      BY <2>1, <2>2 DEF ReadHolds
    <2> QED
      BY <2>1, <2>2, <2>3 DEF TemplateInv, TemplateTypes, OneAtATime
  <1> QED
    BY <1>1, <1>4, <1>5, <1>6, <1>9, <1>10, <1>11, <1>12, <1>13, <1>15, <1>16 DEF TemplateNext

\* Handled one at a time, the requests of a company leave exactly one default as
\* soon as it has a template, and every template at the version published last.
THEOREM SerialOneDefault == Serial => (TemplateSpec => []OneDefault)
  <1> SUFFICES ASSUME Serial PROVE TemplateSpec => []OneDefault
    OBVIOUS
  <1>1. TemplateInit => TemplateInv
    BY TemplateStarts
  <1>2. TemplateInv /\ [TemplateNext]_templateVars => TemplateInv'
    BY TemplateStep
  <1>3. TemplateInv => OneDefault
    BY TemplateInvImplies
  <1> QED
    BY <1>1, <1>2, <1>3, PTL DEF TemplateSpec

-----------------------------------------------------------------------------
(***************************************************************************)
(* The rate limiter, for any limits, window and number of calls in flight: *)
(* no window lets more through than its limit, and a deque is as long as   *)
(* the window is full.  Inductive with it: a deque is the end of its       *)
(* history, the rest is out of the window, and the failures of a window    *)
(* still open leave room for the authentications still in flight.          *)
(***************************************************************************)

\* A history is in the order of time.
History(H) ==
    /\ H \in Seq(Time)
    /\ \A i \in DOMAIN H : H[i] <= clock
    /\ \A i, j \in DOMAIN H : i <= j => H[i] <= H[j]

\* A deque is the end of its history; what it has lost is out of the window.
EndOf(h, H) ==
    /\ h \in Seq(Time) /\ Len(h) <= Len(H)
    /\ \A i \in 1..Len(h) : h[i] = H[Len(H) - Len(h) + i]
    /\ \A i \in 1..(Len(H) - Len(h)) : clock - H[i] > Window

Trying == {c \in Calls : calls[c] = "auth"}

\* The failures of a window that is still open leave room for those in flight.
RoomForTrying ==
    \A from \in Time : from + Window >= clock =>
        InWindow(failed, from) + Cardinality(Trying) < AuthLimit + Cardinality(Calls)

RateInv ==
    /\ clock \in Time /\ calls \in [Calls -> Kinds \cup {"none"}]
    /\ History(admitted) /\ EndOf(hits, admitted)
    /\ History(failed) /\ EndOf(authHits, failed)
    /\ WindowBound /\ AuthBound /\ RoomForTrying

\* The events of a window, by their places in the history.
Within(H, from) == {i \in DOMAIN H : from <= H[i] /\ H[i] <= from + Window}

\* A window holds finitely many events.
LEMMA WithinFinite ==
  ASSUME NEW H \in Seq(Time), NEW from
  PROVE  /\ IsFiniteSet(Within(H, from)) /\ InWindow(H, from) = Cardinality(Within(H, from))
         /\ InWindow(H, from) \in Nat
  <1>1. DOMAIN H = 1..Len(H) /\ Len(H) \in Nat
    OBVIOUS
  <1>2. IsFiniteSet(DOMAIN H)
    BY <1>1, FS_Interval
  <1>3. Within(H, from) \subseteq DOMAIN H
    BY DEF Within
  <1>4. IsFiniteSet(Within(H, from))
    BY <1>2, <1>3, FS_Subset
  <1>5. InWindow(H, from) = Cardinality(Within(H, from))
    BY DEF InWindow, Within
  <1>6. Cardinality(Within(H, from)) \in Nat
    BY <1>4, FS_CardinalityType
  <1> QED
    BY <1>4, <1>5, <1>6

\* A window that starts later has lost what the one that ends now has.
LEMMA LaterWindow ==
  ASSUME clock \in Time, NEW H, History(H), NEW from \in Time, from + Window >= clock
  PROVE  InWindow(H, from) <= InWindow(H, clock - Window)
  <1>1. clock \in Int /\ Window \in Nat /\ from \in Int /\ H \in Seq(Time)
    BY RateAssumption DEF Time, History
  <1>2. \A i \in DOMAIN H : H[i] \in Int /\ H[i] <= clock
    <2>1. \A t \in Time : t \in Int
      BY DEF Time
    <2>2. \A i \in DOMAIN H : H[i] \in Time /\ H[i] <= clock
      BY <1>1 DEF History
    <2> QED
      BY <2>1, <2>2
  <1>3. Within(H, from) \subseteq Within(H, clock - Window)
    BY <1>1, <1>2 DEF Within
  <1>4. Cardinality(Within(H, from)) <= Cardinality(Within(H, clock - Window))
    BY <1>1, <1>3, WithinFinite, FS_Subset
  <1> QED
    BY <1>1, <1>4, WithinFinite

\* One more event counts in the windows it lies in.
LEMMA OneMore ==
  ASSUME NEW H \in Seq(Time), NEW t \in Time, NEW from \in Time
  PROVE  /\ InWindow(Append(H, t), from) <= InWindow(H, from) + 1
         /\ ~(from <= t /\ t <= from + Window) => InWindow(Append(H, t), from) = InWindow(H, from)
  <1> DEFINE G == Append(H, t)
  <1>1. /\ G \in Seq(Time) /\ Len(H) \in Nat /\ DOMAIN H = 1..Len(H) /\ DOMAIN G = 1..(Len(H) + 1)
        /\ G[Len(H) + 1] = t /\ \A i \in DOMAIN H : G[i] = H[i]
    OBVIOUS
  <1> HIDE DEF G
  <1>2. Len(H) + 1 \notin DOMAIN H /\ \A i \in DOMAIN G : i \in DOMAIN H \/ i = Len(H) + 1
    BY <1>1
  <1>3. IsFiniteSet(Within(H, from)) /\ IsFiniteSet(Within(G, from))
    BY <1>1, WithinFinite
  <1>4. CASE from <= t /\ t <= from + Window
    <2>1. Within(G, from) = Within(H, from) \cup {Len(H) + 1}
      BY <1>1, <1>2, <1>4 DEF Within
    <2>2. Len(H) + 1 \notin Within(H, from)
      BY <1>2 DEF Within
    <2>3. Cardinality(Within(G, from)) = Cardinality(Within(H, from)) + 1
      BY <1>3, <2>1, <2>2, FS_AddElement
    <2>4. InWindow(G, from) = InWindow(H, from) + 1 /\ InWindow(H, from) \in Nat
      BY <1>1, <2>3, WithinFinite
    <2> QED
      BY <1>4, <2>4 DEF G
  <1>5. CASE ~(from <= t /\ t <= from + Window)
    <2>1. Within(G, from) = Within(H, from)
      BY <1>1, <1>2, <1>5 DEF Within
    <2>2. InWindow(G, from) = InWindow(H, from) /\ InWindow(H, from) \in Nat
      BY <1>1, <2>1, WithinFinite
    <2> QED
      BY <1>5, <2>2 DEF G
  <1> QED
    BY <1>4, <1>5

\* A trimmed deque is what happened in the window that ends now.
LEMMA Trimmed ==
  ASSUME clock \in Time, NEW h, NEW H, History(H), EndOf(h, H)
  PROVE  EndOf(Trim(h), H) /\ Len(Trim(h)) = InWindow(H, clock - Window)
  <1>1. /\ h \in Seq(Time) /\ H \in Seq(Time) /\ Len(h) \in Nat /\ Len(H) \in Nat /\ Len(h) <= Len(H)
        /\ DOMAIN h = 1..Len(h) /\ DOMAIN H = 1..Len(H)
        /\ clock \in Int /\ Window \in Nat
    BY RateAssumption DEF History, EndOf, Time
  <1>2. \A i \in DOMAIN H : H[i] \in Int /\ H[i] <= clock
    <2>1. \A t \in Time : t \in Int
      BY DEF Time
    <2>2. \A i \in DOMAIN H : H[i] \in Time /\ H[i] <= clock
      BY <1>1 DEF History
    <2> QED
      BY <2>1, <2>2
  <1>3. \A i, j \in DOMAIN H : i <= j => H[i] <= H[j]
    BY DEF History
  <1> DEFINE fresh == {i \in DOMAIN h : clock - h[i] <= Window}
             lost == Len(H) - Len(h)
  <1>4. /\ lost \in Nat
        /\ \A i \in 1..Len(h) : lost + i \in DOMAIN H /\ h[i] = H[lost + i]
        /\ \A i \in 1..lost : i \in DOMAIN H /\ clock - H[i] > Window
    BY <1>1 DEF EndOf
  <1>5. Trim(h) = IF fresh = {} THEN <<>> ELSE SubSeq(h, Min(fresh), Len(h))
    BY DEF Trim
  \* what is kept starts after the d oldest, which are out of the window
  <1>6. \E d \in Nat : /\ d <= Len(H) /\ Trim(h) \in Seq(Time) /\ Len(Trim(h)) = Len(H) - d
                       /\ \A k \in 1..(Len(H) - d) : Trim(h)[k] = H[d + k]
                       /\ \A i \in 1..d : clock - H[i] > Window
                       /\ \A i \in (d + 1)..Len(H) : clock - H[i] <= Window
    <2>1. CASE fresh = {}
      <3>1. Trim(h) = <<>>
        BY <1>5, <2>1
      <3>2. ASSUME NEW i \in 1..Len(H) PROVE clock - H[i] > Window
        <4>1. CASE i \in 1..lost
          BY <1>4, <4>1
        <4>2. CASE i \notin 1..lost
          <5>1. i - lost \in 1..Len(h) /\ lost + (i - lost) = i
            BY <1>1, <1>4, <4>2
          <5>2. h[i - lost] = H[i] /\ H[i] \in Int
            BY <1>1, <1>2, <1>4, <5>1
          <5>3. ~(clock - h[i - lost] <= Window)
            BY <1>1, <2>1, <5>1
          <5> QED
            BY <1>1, <5>2, <5>3
        <4> QED
          BY <4>1, <4>2
      <3>3. /\ Len(H) \in Nat /\ Len(H) <= Len(H) /\ Len(H) - Len(H) = 0 /\ 1..0 = {}
            /\ (Len(H) + 1)..Len(H) = {}
        BY <1>1
      <3>4. Trim(h) \in Seq(Time) /\ Len(Trim(h)) = 0
        BY <3>1
      <3> WITNESS Len(H) \in Nat
      <3> QED
        BY ONLY <3>2, <3>3, <3>4
    <2>2. CASE fresh # {}
      <3>1. PICK m \in fresh : \A k \in fresh : m <= k
        <4>1. fresh \in SUBSET Nat
          BY <1>1
        <4> QED
          BY <2>2, <4>1, Least
      <3>2. Min(fresh) = m
        <4>1. \A k \in fresh : k \in Nat
          BY <1>1
        <4>2. \A x \in fresh : (\A k \in fresh : x <= k) => x = m
          BY <3>1, <4>1
        <4> HIDE DEF fresh
        <4> QED
          BY <3>1, <4>2 DEF Min
      <3>3. m \in 1..Len(h) /\ clock - h[m] <= Window
        BY <1>1, <3>1
      <3>4. Trim(h) = SubSeq(h, m, Len(h))
        BY <1>5, <2>2, <3>2
      <3> DEFINE d == lost + m - 1
      <3>5. /\ Trim(h) \in Seq(Time) /\ Len(Trim(h)) = Len(h) - m + 1
            /\ \A k \in 1..(Len(h) - m + 1) : Trim(h)[k] = h[m + k - 1]
        <4>1. \A k \in m..Len(h) : h[k] \in Time
          BY <1>1, <3>3
        <4>2. m \in Int /\ Len(h) \in Int /\ m <= Len(h)
          BY <1>1, <3>3
        <4> QED
          BY <3>4, <4>1, <4>2, SubSeqProperties
      <3>6. d \in Nat /\ d <= Len(H) /\ Len(H) - d = Len(h) - m + 1
        BY <1>1, <1>4, <3>3
      <3>7. ASSUME NEW k \in 1..(Len(H) - d) PROVE Trim(h)[k] = H[d + k]
        <4>1. k \in 1..(Len(h) - m + 1)
          BY <3>6
        <4>2. m + k - 1 \in 1..Len(h) /\ lost + (m + k - 1) = d + k
          BY <1>1, <1>4, <3>3, <4>1
        <4> QED
          BY <1>4, <3>5, <4>1, <4>2
      <3>8. ASSUME NEW i \in 1..d PROVE clock - H[i] > Window
        <4>1. CASE i \in 1..lost
          BY <1>4, <4>1
        <4>2. CASE i \notin 1..lost
          <5>1. i - lost \in 1..Len(h) /\ lost + (i - lost) = i /\ i - lost < m
            BY <1>1, <1>4, <3>3, <4>2
          <5>2. h[i - lost] = H[i] /\ H[i] \in Int
            BY <1>1, <1>2, <1>4, <5>1
          <5>3. i - lost \notin fresh
            <6>1. m \in Int /\ i - lost \in Int
              BY <1>1, <3>3, <5>1
            <6> QED
              BY <3>1, <5>1, <6>1
          <5> QED
            BY <1>1, <5>1, <5>2, <5>3
        <4> QED
          BY <4>1, <4>2
      <3>9. ASSUME NEW i \in (d + 1)..Len(H) PROVE clock - H[i] <= Window
        <4>1. d + 1 = lost + m /\ d + 1 \in DOMAIN H /\ i \in DOMAIN H /\ d + 1 <= i
          BY <1>1, <1>4, <3>3, <3>6
        <4>2. H[d + 1] <= H[i] /\ H[d + 1] = h[m] /\ H[i] \in Int /\ H[d + 1] \in Int
          BY <1>2, <1>3, <1>4, <3>3, <4>1
        <4> QED
          BY <1>1, <3>3, <4>2
      <3> HIDE DEF d
      <3> QED
        BY <3>5, <3>6, <3>7, <3>8, <3>9
    <2> QED
      BY <2>1, <2>2
  <1> HIDE DEF fresh, lost
  <1>7. PICK d \in Nat : /\ d <= Len(H) /\ Trim(h) \in Seq(Time) /\ Len(Trim(h)) = Len(H) - d
                         /\ \A k \in 1..(Len(H) - d) : Trim(h)[k] = H[d + k]
                         /\ \A i \in 1..d : clock - H[i] > Window
                         /\ \A i \in (d + 1)..Len(H) : clock - H[i] <= Window
    BY <1>6
  <1>8. Len(H) - Len(Trim(h)) = d
    BY <1>1, <1>7
  <1>9. EndOf(Trim(h), H)
    BY <1>1, <1>7, <1>8 DEF EndOf
  <1>10. Within(H, clock - Window) = (d + 1)..Len(H)
    <2>1. ASSUME NEW i \in DOMAIN H
          PROVE  clock - Window <= H[i] /\ H[i] <= clock - Window + Window <=> i \in (d + 1)..Len(H)
      <3>1. H[i] \in Int /\ H[i] <= clock /\ i \in 1..Len(H)
        BY <1>1, <1>2
      <3>2. CASE i \in 1..d
        BY <1>1, <1>7, <3>1, <3>2
      <3>3. CASE i \in (d + 1)..Len(H)
        BY <1>1, <1>7, <3>1, <3>3
      <3> QED
        BY <1>1, <1>7, <3>1, <3>2, <3>3
    <2> QED
      BY <1>1, <2>1 DEF Within
  <1>11. Cardinality((d + 1)..Len(H)) = Len(H) - d
    <2>1. d + 1 \in Int /\ Len(H) \in Int
      BY <1>1
    <2>2. Cardinality((d + 1)..Len(H)) = IF d + 1 > Len(H) THEN 0 ELSE Len(H) - (d + 1) + 1
      BY <2>1, FS_Interval
    <2> QED
      BY <1>1, <1>7, <2>2
  <1>12. Len(Trim(h)) = InWindow(H, clock - Window)
    BY <1>1, <1>7, <1>10, <1>11, WithinFinite
  <1> QED
    BY <1>9, <1>12

\* What happens now goes to the end of the deque and of the history.
LEMMA Appended ==
  ASSUME clock \in Time, NEW h, NEW H, History(H), EndOf(h, H)
  PROVE  History(Append(H, clock)) /\ EndOf(Append(h, clock), Append(H, clock))
  <1> DEFINE G == Append(H, clock)
             g == Append(h, clock)
  <1>1. /\ h \in Seq(Time) /\ H \in Seq(Time) /\ Len(h) \in Nat /\ Len(H) \in Nat /\ Len(h) <= Len(H)
        /\ DOMAIN h = 1..Len(h) /\ DOMAIN H = 1..Len(H) /\ clock \in Int
    BY RateAssumption DEF History, EndOf, Time
  <1>2. /\ G \in Seq(Time) /\ Len(G) = Len(H) + 1 /\ DOMAIN G = 1..(Len(H) + 1)
        /\ G[Len(H) + 1] = clock /\ \A i \in DOMAIN H : G[i] = H[i]
    BY <1>1
  <1>3. /\ g \in Seq(Time) /\ Len(g) = Len(h) + 1
        /\ g[Len(h) + 1] = clock /\ \A i \in DOMAIN h : g[i] = h[i]
    BY <1>1
  <1> HIDE DEF G, g
  <1>4. \A i \in DOMAIN G : i \in DOMAIN H \/ i = Len(H) + 1
    BY <1>1, <1>2
  <1>5. \A i \in DOMAIN H : H[i] <= clock
    BY DEF History
  <1>6. \A i \in DOMAIN G : G[i] <= clock
    BY <1>1, <1>2, <1>4, <1>5
  <1>7. ASSUME NEW i \in DOMAIN G, NEW j \in DOMAIN G, i <= j PROVE G[i] <= G[j]
    <2>1. CASE j \in DOMAIN H
      <3>1. i \in DOMAIN H
        BY <1>1, <1>2, <1>7, <2>1
      <3> QED
        BY <1>2, <1>7, <2>1, <3>1 DEF History
    <2>2. CASE j = Len(H) + 1
      BY <1>2, <1>6, <2>2
    <2> QED
      BY <1>4, <2>1, <2>2
  <1>8. History(G)
    BY <1>2, <1>6, <1>7 DEF History
  <1>9. Len(G) - Len(g) = Len(H) - Len(h) /\ Len(g) <= Len(G)
    BY <1>1, <1>2, <1>3
  <1>10. ASSUME NEW i \in 1..Len(g) PROVE g[i] = G[Len(G) - Len(g) + i]
    <2>1. CASE i \in 1..Len(h)
      <3>1. h[i] = H[Len(H) - Len(h) + i] /\ Len(H) - Len(h) + i \in DOMAIN H /\ i \in DOMAIN h
        BY <1>1, <2>1 DEF EndOf
      <3> QED
        BY <1>2, <1>3, <1>9, <3>1
    <2>2. CASE i \notin 1..Len(h)
      <3>1. i = Len(h) + 1 /\ Len(H) - Len(h) + i = Len(H) + 1
        BY <1>1, <1>3, <2>2
      <3> QED
        BY <1>2, <1>3, <1>9, <3>1
    <2> QED
      BY <2>1, <2>2
  <1>11. ASSUME NEW i \in 1..(Len(G) - Len(g)) PROVE clock - G[i] > Window
    <2>1. i \in 1..(Len(H) - Len(h)) /\ i \in DOMAIN H
      BY <1>1, <1>9
    <2> QED
      BY <1>2, <2>1 DEF EndOf
  <1>12. EndOf(g, G)
    BY <1>3, <1>9, <1>10, <1>11 DEF EndOf
  <1> QED
    BY <1>8, <1>12 DEF G, g

\* The limits, and the calls that may still fail, are numbers.
LEMMA Counting ==
  /\ AuthLimit \in Nat \ {0} /\ Limit \in Nat \ {0} /\ Window \in Nat /\ MaxTime \in Nat
  /\ Cardinality(Calls) \in Nat
  /\ IsFiniteSet(Trying) /\ Cardinality(Trying) \in Nat /\ Cardinality(Trying) <= Cardinality(Calls)
  <1>1. Trying \subseteq Calls
    BY DEF Trying
  <1> QED
    BY <1>1, RateAssumption, FS_CardinalityType, FS_Subset

\* No request yet.
LEMMA RateBase == RateInit => RateInv
  <1> SUFFICES ASSUME RateInit PROVE RateInv
    OBVIOUS
  <1>1. clock \in Time /\ calls \in [Calls -> Kinds \cup {"none"}]
    <2>1. clock = 0 /\ MaxTime \in Nat
      BY RateAssumption DEF RateInit
    <2>2. clock \in Time
      BY ONLY <2>1 DEF Time
    <2>3. calls \in [Calls -> Kinds \cup {"none"}]
      BY DEF RateInit
    <2> QED
      BY <2>2, <2>3
  <1>2. hits = <<>> /\ authHits = <<>> /\ admitted = <<>> /\ failed = <<>>
    BY DEF RateInit
  <1>3. History(<<>>) /\ EndOf(<<>>, <<>>)
    BY DEF History, EndOf
  <1>4. ASSUME NEW from \in Time PROVE InWindow(<<>>, from) = 0
    <2>1. Within(<<>>, from) = {}
      BY DEF Within
    <2> QED
      BY <2>1, FS_EmptySet DEF InWindow, Within
  <1>5. Cardinality(Trying) = 0
    <2>1. Trying = {}
      BY DEF RateInit, Trying
    <2> QED
      BY <2>1, FS_EmptySet
  <1>6. WindowBound /\ AuthBound /\ RoomForTrying
    BY <1>2, <1>4, <1>5, Counting DEF WindowBound, AuthBound, RoomForTrying
  <1> QED
    BY <1>1, <1>2, <1>3, <1>6 DEF RateInv

\* A request judged, an answer charged, time passing.
LEMMA RateStep == RateInv /\ [RateNext]_rateVars => RateInv'
  <1> SUFFICES ASSUME RateInv, [RateNext]_rateVars PROVE RateInv'
    OBVIOUS
  <1>1. /\ clock \in Time /\ clock \in Nat /\ calls \in [Calls -> Kinds \cup {"none"}]
        /\ History(admitted) /\ EndOf(hits, admitted)
        /\ History(failed) /\ EndOf(authHits, failed)
        /\ admitted \in Seq(Time) /\ failed \in Seq(Time)
    BY RateAssumption DEF RateInv, History, Time
  <1>2. /\ \A from \in Time : from \in Nat
        /\ \A from \in Time : InWindow(admitted, from) \in Nat /\ InWindow(admitted, from) <= Limit
        /\ \A from \in Time : /\ InWindow(failed, from) \in Nat
                              /\ InWindow(failed, from) < AuthLimit + Cardinality(Calls)
    <2>1. \A from \in Time : from \in Nat
      BY RateAssumption DEF Time
    <2> QED
      BY <1>1, <2>1, WithinFinite DEF RateInv, WindowBound, AuthBound
  <1>3. \A from \in Time : from + Window >= clock =>
           InWindow(failed, from) + Cardinality(Trying) < AuthLimit + Cardinality(Calls)
    BY DEF RateInv, RoomForTrying
  <1>4. /\ EndOf(Trim(hits), admitted) /\ Len(Trim(hits)) = InWindow(admitted, clock - Window)
        /\ EndOf(Trim(authHits), failed) /\ Len(Trim(authHits)) = InWindow(failed, clock - Window)
    BY <1>1, Trimmed
  <1>5. ASSUME UNCHANGED <<clock, failed>> PROVE History(failed)' /\ AuthBound'
    BY <1>1, <1>2, <1>5 DEF History, AuthBound
  <1>6. ASSUME UNCHANGED <<clock, admitted>> PROVE History(admitted)' /\ WindowBound'
    BY <1>1, <1>2, <1>6 DEF History, WindowBound
  \* the deque of failures is trimmed or left alone
  <1>7. ASSUME authHits' = Trim(authHits) \/ UNCHANGED authHits, UNCHANGED <<clock, failed>>
        PROVE  EndOf(authHits, failed)'
    BY <1>1, <1>4, <1>7 DEF EndOf
  <1>8. ASSUME NEW c \in Calls, NEW kind \in Kinds, Dispatch(c, kind)
        PROVE  RateInv'
    <2>1. UNCHANGED <<clock, failed>> /\ (authHits' = Trim(authHits) \/ UNCHANGED authHits)
      BY <1>8 DEF Dispatch
    <2>2. /\ clock' \in Time /\ History(failed)' /\ AuthBound' /\ EndOf(authHits, failed)'
      BY <1>1, <1>5, <1>7, <2>1
    <2>3. CASE UNCHANGED <<calls, admitted>>
      <3>1. EndOf(hits, admitted)'
        <4>1. hits' = hits \/ hits' = Trim(hits)
          BY <1>8, <2>3, <1>1 DEF Dispatch
        <4> QED
          BY <1>1, <1>4, <2>1, <2>3, <4>1 DEF EndOf
      <3>2. RoomForTrying'
        BY <1>3, <2>1, <2>3 DEF RoomForTrying, Trying
      <3> QED
        BY <1>1, <1>6, <2>1, <2>2, <2>3, <3>1, <3>2 DEF RateInv
    <2>4. CASE /\ ~AuthSpent(kind) /\ ~Spent
               /\ hits' = Append(Trim(hits), clock)
               /\ calls' = [calls EXCEPT ![c] = kind]
               /\ admitted' = Append(admitted, clock)
      <3>1. History(Append(admitted, clock)) /\ EndOf(Append(Trim(hits), clock), Append(admitted, clock))
        BY <1>1, <1>4, Appended
      <3>2. History(admitted)' /\ EndOf(hits, admitted)'
        BY <2>1, <2>4, <3>1 DEF History, EndOf
      <3>3. calls' \in [Calls -> Kinds \cup {"none"}]
        BY <1>1, <2>4
      <3>4. WindowBound'
        <4> SUFFICES ASSUME NEW from \in Time PROVE InWindow(Append(admitted, clock), from) <= Limit
          BY <2>4 DEF WindowBound
        <4>1. CASE from <= clock /\ clock <= from + Window
          <5>1. InWindow(admitted, from) <= InWindow(admitted, clock - Window)
            BY <1>1, <1>2, <4>1, LaterWindow, Counting
          <5>2. InWindow(admitted, clock - Window) < Limit /\ InWindow(admitted, clock - Window) \in Nat
            BY <1>1, <1>4, <2>4, WithinFinite, Counting DEF Spent
          <5>3. InWindow(Append(admitted, clock), from) <= InWindow(admitted, from) + 1
            BY <1>1, OneMore
          <5>4. InWindow(Append(admitted, clock), from) \in Nat
            BY <3>1, WithinFinite DEF History
          <5> QED
            BY <1>2, <5>1, <5>2, <5>3, <5>4, Counting
        <4>2. CASE ~(from <= clock /\ clock <= from + Window)
          BY <1>1, <1>2, <4>2, OneMore
        <4> QED
          BY <4>1, <4>2
      <3>5. RoomForTrying'
        <4>1. CASE kind = "auth"
          <5> SUFFICES ASSUME NEW from \in Time, from + Window >= clock
                       PROVE  InWindow(failed, from) + Cardinality(Trying') < AuthLimit + Cardinality(Calls)
            BY <2>1 DEF RoomForTrying
          <5>1. InWindow(failed, from) <= InWindow(failed, clock - Window)
            BY <1>1, LaterWindow
          <5>2. InWindow(failed, clock - Window) < AuthLimit /\ InWindow(failed, clock - Window) \in Nat
            BY <1>1, <1>4, <2>4, <4>1, WithinFinite, Counting DEF AuthSpent
          <5>3. Cardinality(Trying') \in Nat /\ Cardinality(Trying') <= Cardinality(Calls)
            <6>1. Trying' \subseteq Calls
              BY DEF Trying
            <6> QED
              BY <6>1, RateAssumption, FS_CardinalityType, FS_Subset
          <5> QED
            BY <1>2, <5>1, <5>2, <5>3, Counting
        <4>2. CASE kind # "auth"
          <5>1. Trying' = Trying \/ Trying' = Trying \ {c}
            BY <1>1, <2>4, <4>2 DEF Trying
          <5>2. Cardinality(Trying') \in Nat /\ Cardinality(Trying') <= Cardinality(Trying)
            BY <5>1, Counting, FS_CardinalityType, FS_RemoveElement, FS_Subset
          <5> SUFFICES ASSUME NEW from \in Time, from + Window >= clock
                       PROVE  InWindow(failed, from) + Cardinality(Trying') < AuthLimit + Cardinality(Calls)
            BY <2>1 DEF RoomForTrying
          <5> QED
            BY <1>2, <1>3, <5>2, Counting
        <4> QED
          BY <4>1, <4>2
      <3> QED
        BY <2>2, <3>2, <3>3, <3>4, <3>5 DEF RateInv
    <2> QED
      BY <1>8, <2>3, <2>4 DEF Dispatch
  <1>9. ASSUME NEW c \in Calls, NEW failure \in BOOLEAN, Respond(c, failure)
        PROVE  RateInv'
    <2>1. /\ UNCHANGED <<clock, hits, admitted>> /\ calls' = [calls EXCEPT ![c] = "none"]
          /\ calls' \in [Calls -> Kinds \cup {"none"}]
      BY <1>1, <1>9 DEF Respond
    <2>2. clock' \in Time /\ History(admitted)' /\ WindowBound' /\ EndOf(hits, admitted)'
      BY <1>1, <1>6, <2>1 DEF EndOf
    <2>3. Trying' = Trying \ {c}
      BY <1>1, <2>1 DEF Trying
    <2>4. Cardinality(Trying') = IF calls[c] = "auth" THEN Cardinality(Trying) - 1 ELSE Cardinality(Trying)
      <3>1. c \in Trying <=> calls[c] = "auth"
        BY DEF Trying
      <3> QED
        BY <2>3, <3>1, Counting, FS_RemoveElement
    <2>5. CASE failure /\ calls[c] = "auth"
      <3>1. authHits' = Append(authHits, clock) /\ failed' = Append(failed, clock)
        BY <1>9, <2>5 DEF Respond
      <3>2. History(Append(failed, clock)) /\ EndOf(Append(authHits, clock), Append(failed, clock))
        BY <1>1, Appended
      <3>3. History(failed)' /\ EndOf(authHits, failed)'
        BY <2>1, <3>1, <3>2 DEF History, EndOf
      <3>4. ASSUME NEW from \in Time
            PROVE  /\ InWindow(failed', from) \in Nat
                   /\ from + Window >= clock =>
                         InWindow(failed', from) + Cardinality(Trying') < AuthLimit + Cardinality(Calls)
                   /\ InWindow(failed', from) < AuthLimit + Cardinality(Calls)
        <4>1. InWindow(Append(failed, clock), from) \in Nat
          BY <3>2, WithinFinite DEF History
        <4>2. /\ InWindow(Append(failed, clock), from) <= InWindow(failed, from) + 1
              /\ ~(from <= clock /\ clock <= from + Window) =>
                    InWindow(Append(failed, clock), from) = InWindow(failed, from)
          BY <1>1, OneMore
        <4>3. Cardinality(Trying') = Cardinality(Trying) - 1 /\ Cardinality(Trying) >= 1
          <5>1. c \in Trying
            BY <2>5 DEF Trying
          <5>2. Cardinality(Trying) # 0
            BY <5>1, Counting, FS_EmptySet
          <5> QED
            BY <2>4, <2>5, <5>2, Counting
        <4>4. from + Window >= clock =>
                 InWindow(failed, from) + Cardinality(Trying) < AuthLimit + Cardinality(Calls)
          BY <1>3
        <4>5. PICK now \in Nat, before \in Nat, left \in Nat, room \in Nat :
                 /\ now = InWindow(Append(failed, clock), from) /\ before = InWindow(failed, from)
                 /\ left = Cardinality(Trying) /\ room = AuthLimit + Cardinality(Calls)
          <5>1. AuthLimit + Cardinality(Calls) \in Nat
            BY ONLY Counting
          <5> QED
            BY <1>2, <4>1, <5>1, Counting
        <4>6. clock \in Nat /\ from \in Nat /\ Window \in Nat /\ left >= 1 /\ before < room
          BY <1>1, <1>2, <4>3, <4>5, Counting
        <4>7. /\ now <= before + 1
              /\ ~(from <= clock /\ clock <= from + Window) => now = before
              /\ from + Window >= clock => before + left < room
          BY <4>2, <4>4, <4>5
        <4>8. /\ from + Window >= clock => now + (left - 1) < room
              /\ now < room
          BY ONLY <4>6, <4>7, now \in Nat, before \in Nat, left \in Nat, room \in Nat
        <4> QED
          BY <3>1, <4>3, <4>5, <4>8
      <3>5. AuthBound' /\ RoomForTrying'
        BY <2>1, <3>4 DEF AuthBound, RoomForTrying
      <3> QED
        BY <2>1, <2>2, <3>3, <3>5 DEF RateInv
    <2>6. CASE ~(failure /\ calls[c] = "auth")
      <3>1. UNCHANGED <<authHits, failed>>
        BY <1>9, <2>6 DEF Respond
      <3>2. History(failed)' /\ AuthBound' /\ EndOf(authHits, failed)'
        BY <1>5, <1>7, <2>1, <3>1
      <3>3. RoomForTrying'
        <4> SUFFICES ASSUME NEW from \in Time, from + Window >= clock
                     PROVE  InWindow(failed, from) + Cardinality(Trying') < AuthLimit + Cardinality(Calls)
          BY <2>1, <3>1 DEF RoomForTrying
        <4> QED
          BY <1>2, <1>3, <2>4, Counting
      <3> QED
        BY <2>1, <2>2, <3>2, <3>3 DEF RateInv
    <2> QED
      BY <2>5, <2>6
  <1>10. CASE Tick
    <2>1. clock' = clock + 1 /\ clock' \in Time /\ UNCHANGED <<hits, authHits, calls, admitted, failed>>
      BY <1>1, <1>10, RateAssumption DEF Tick, Time
    <2>2. \A t \in Time : t \in Int
      BY <1>2
    <2>3. History(admitted)' /\ History(failed)'
      <3>1. \A i \in DOMAIN admitted : admitted[i] \in Time /\ admitted[i] <= clock
        BY <1>1 DEF History
      <3>2. \A i \in DOMAIN failed : failed[i] \in Time /\ failed[i] <= clock
        BY <1>1 DEF History
      <3>3. ASSUME NEW t \in Time, t <= clock PROVE t <= clock + 1
        <4>1. t \in Int /\ clock \in Int
          BY <1>1, <2>2
        <4> QED
          BY ONLY <3>3, <4>1
      <3>4. /\ \A i \in DOMAIN admitted : admitted[i] <= clock + 1
            /\ \A i \in DOMAIN failed : failed[i] <= clock + 1
        BY <3>1, <3>2, <3>3
      <3> QED
        BY <1>1, <2>1, <3>4 DEF History
    <2>4. EndOf(hits, admitted)' /\ EndOf(authHits, failed)'
      <3>1. ASSUME NEW h, NEW H \in Seq(Time), EndOf(h, H), NEW i \in 1..(Len(H) - Len(h))
            PROVE  (clock + 1) - H[i] > Window
        <4>1. i \in DOMAIN H /\ H[i] \in Time
          <5>1. Len(H) \in Nat /\ Len(h) \in Nat /\ DOMAIN H = 1..Len(H)
            BY <3>1 DEF EndOf
          <5>2. i \in DOMAIN H
            BY <5>1
          <5> QED
            BY <5>2
        <4>2. clock - H[i] > Window
          BY <3>1 DEF EndOf
        <4>3. H[i] \in Int /\ clock \in Int /\ Window \in Int
          <5>1. H[i] \in Int
            BY <2>2, <4>1
          <5> QED
            BY <1>1, <5>1, RateAssumption
        <4> QED
          BY ONLY <4>2, <4>3
      <3>2. /\ \A i \in 1..(Len(admitted) - Len(hits)) : (clock + 1) - admitted[i] > Window
            /\ \A i \in 1..(Len(failed) - Len(authHits)) : (clock + 1) - failed[i] > Window
        BY <1>1, <3>1
      <3>3. /\ hits \in Seq(Time) /\ Len(hits) <= Len(admitted)
            /\ \A i \in 1..Len(hits) : hits[i] = admitted[Len(admitted) - Len(hits) + i]
            /\ authHits \in Seq(Time) /\ Len(authHits) <= Len(failed)
            /\ \A i \in 1..Len(authHits) : authHits[i] = failed[Len(failed) - Len(authHits) + i]
        BY <1>1 DEF EndOf
      <3>5. EndOf(hits, admitted)'
        <4>1. hits' = hits /\ admitted' = admitted /\ clock' = clock + 1
          BY <2>1
        <4>2. hits' \in Seq(Time) /\ Len(hits') <= Len(admitted')
          BY ONLY <3>3, <4>1
        <4>3. \A i \in 1..Len(hits') : hits'[i] = admitted'[Len(admitted') - Len(hits') + i]
          BY ONLY <3>3, <4>1, Zenon
        <4>4. \A i \in 1..(Len(admitted') - Len(hits')) : clock' - admitted'[i] > Window
          <5>1. \A i \in 1..(Len(admitted) - Len(hits)) : clock' - admitted[i] > Window
            <6> TAKE i \in 1..(Len(admitted) - Len(hits))
            <6>1. (clock + 1) - admitted[i] > Window
              BY <3>2, Zenon
            <6>2. clock' - admitted[i] = (clock + 1) - admitted[i]
              BY ONLY <4>1, Zenon
            <6> QED
              BY ONLY <6>1, <6>2, Zenon
          <5> QED
            BY ONLY <4>1, <5>1, Zenon
        <4> QED
          BY ONLY <4>2, <4>3, <4>4 DEF EndOf, Time
      <3>6. EndOf(authHits, failed)'
        <4>1. authHits' = authHits /\ failed' = failed /\ clock' = clock + 1
          BY <2>1
        <4>2. authHits' \in Seq(Time) /\ Len(authHits') <= Len(failed')
          BY ONLY <3>3, <4>1
        <4>3. \A i \in 1..Len(authHits') : authHits'[i] = failed'[Len(failed') - Len(authHits') + i]
          BY ONLY <3>3, <4>1, Zenon
        <4>4. \A i \in 1..(Len(failed') - Len(authHits')) : clock' - failed'[i] > Window
          <5>1. \A i \in 1..(Len(failed) - Len(authHits)) : clock' - failed[i] > Window
            <6> TAKE i \in 1..(Len(failed) - Len(authHits))
            <6>1. (clock + 1) - failed[i] > Window
              BY <3>2, Zenon
            <6>2. clock' - failed[i] = (clock + 1) - failed[i]
              BY ONLY <4>1, Zenon
            <6> QED
              BY ONLY <6>1, <6>2, Zenon
          <5> QED
            BY ONLY <4>1, <5>1, Zenon
        <4> QED
          BY ONLY <4>2, <4>3, <4>4 DEF EndOf, Time
      <3> QED
        BY <3>5, <3>6
    <2>5. WindowBound' /\ AuthBound'
      BY <1>2, <2>1 DEF WindowBound, AuthBound
    <2>6. RoomForTrying'
      <3> SUFFICES ASSUME NEW from \in Time, from + Window >= clock + 1
                   PROVE  InWindow(failed, from) + Cardinality(Trying) < AuthLimit + Cardinality(Calls)
        BY <2>1 DEF RoomForTrying, Trying
      <3> QED
        BY <1>1, <1>2, <1>3, Counting
    <2> QED
      BY <1>1, <2>1, <2>3, <2>4, <2>5, <2>6 DEF RateInv
  <1>11. CASE UNCHANGED rateVars
    BY <1>1, <1>3, <1>5, <1>6, <1>11 DEF RateInv, EndOf, RoomForTrying, Trying, rateVars
  <1> QED
    BY <1>8, <1>9, <1>10, <1>11 DEF RateNext

\* Whatever the limits, the window and the calls in flight: no window of time
\* lets more than the limit through, the failures exceed theirs by no more than
\* was in flight, and the deques, trimmed only when they are looked at, are exact.
THEOREM RateLimitExact == RateSpec => []LimitsHold
  <1>1. RateInv => LimitsHold
    BY Trimmed DEF RateInv, LimitsHold, BudgetsExact
  <1> QED
    BY <1>1, RateBase, RateStep, PTL DEF RateSpec

-----------------------------------------------------------------------------
(***************************************************************************)
(* InvoiceMoney, for any lines, any discount and any rates.  A rounded     *)
(* figure is off by half a cent at most (Near), a sum of n of them by n    *)
(* halves; sums come apart by SumTheorems, over the lines and over the VAT *)
(* keys they fall under.                                                   *)
(***************************************************************************)

\* Half a cent: a rounded figure is off by no more than half of its unit.
Near(d, q, n) == -d <= 2 * (d * q - n) /\ 2 * (d * q - n) <= d

\* Quantize, ROUND_HALF_EVEN of minor units, is off by half a unit at most.
LEMMA Rounds ==
  ASSUME NEW n \in Int, NEW d \in Nat \ {0}
  PROVE  Quantize(n, d) \in Int /\ Near(d, Quantize(n, d), n)
  <1>1. PICK q \in Int, r \in Int : q = n \div d /\ r = n % d
    OBVIOUS
  <1>2. n = d * q + r /\ 0 <= r /\ r < d
    BY <1>1
  <1>3. Quantize(n, d) = IF 2 * r > d \/ (2 * r = d /\ q % 2 = 1) THEN q + 1 ELSE q
    BY <1>1 DEF Quantize
  <1>4. PICK p \in Int : p = d * q
    BY <1>1
  <1>5. d * (q + 1) = p + d
    BY ONLY <1>1, <1>4, d \in Nat \ {0}
  <1>6. CASE 2 * r > d \/ (2 * r = d /\ q % 2 = 1)
    <2>1. Quantize(n, d) = q + 1
      BY <1>3, <1>6
    <2>2. -d <= 2 * ((p + d) - n) /\ 2 * ((p + d) - n) <= d
      BY <1>1, <1>2, <1>4, <1>6
    <2> QED
      BY <1>1, <1>5, <2>1, <2>2 DEF Near
  <1>7. CASE ~(2 * r > d \/ (2 * r = d /\ q % 2 = 1))
    <2>1. Quantize(n, d) = q
      BY <1>3, <1>7
    <2>2. 2 * r <= d
      BY <1>1, <1>7
    <2>3. -d <= 2 * (p - n) /\ 2 * (p - n) <= d
      BY <1>1, <1>2, <1>4, <2>2
    <2> QED
      BY <1>1, <1>4, <2>1, <2>3 DEF Near
  <1> QED
    BY <1>6, <1>7

\* A common factor divided out.
LEMMA Divided ==
  ASSUME NEW d \in Nat \ {0}, NEW x \in Int, NEW m \in Int, d * x <= d * m
  PROVE  x <= m
  <1> SUFFICES ASSUME x > m PROVE FALSE
    OBVIOUS
  <1>1. PICK e \in Nat \ {0} : x = m + e
    <2>1. x - m \in Nat \ {0} /\ x = m + (x - m)
      OBVIOUS
    <2> QED
      BY <2>1
  <1>2. d * x = d * m + d * e
    BY ONLY <1>1, d \in Nat \ {0}, m \in Int
  <1>3. d * e > 0
    BY ONLY <1>1, d \in Nat \ {0}
  <1>4. d * x \in Int /\ d * m \in Int /\ d * e \in Int
    BY ONLY <1>1, d \in Nat \ {0}, m \in Int, x \in Int
  <1>5. d * x <= d * m
    OBVIOUS
  <1> QED
    BY ONLY <1>2, <1>3, <1>4, <1>5

\* What is within m halves of a unit, multiplied out, is so itself.
LEMMA Magnitudes ==
  ASSUME NEW d \in Nat \ {0}, NEW x \in Int, NEW m \in Int,
         -(d * m) <= 2 * (d * x), 2 * (d * x) <= d * m
  PROVE  2 * Magnitude(x) <= m
  <1>1. d * (2 * x) = 2 * (d * x) /\ d * (-(2 * x)) = -(2 * (d * x))
    BY ONLY d \in Nat \ {0}, x \in Int
  <1>2. d * m \in Int /\ d * x \in Int
    OBVIOUS
  <1>3. d * (2 * x) <= d * m /\ d * (-(2 * x)) <= d * m
    <2>1. -(d * m) <= 2 * (d * x) /\ 2 * (d * x) <= d * m
      OBVIOUS
    <2> QED
      BY ONLY <1>1, <1>2, <2>1
  <1>4. 2 * x \in Int /\ -(2 * x) \in Int
    OBVIOUS
  <1>5. 2 * x <= m /\ -(2 * x) <= m
    BY <1>3, <1>4, Divided
  <1> QED
    BY <1>5 DEF Magnitude

\* A figure near its value in one unit is so in a finer one.
LEMMA NearFiner ==
  ASSUME NEW d \in Nat \ {0}, NEW c \in Nat \ {0}, NEW q \in Int, NEW n \in Int, Near(d, q, n)
  PROVE  Near(c * d, q, c * n)
  <1>1. PICK p \in Int : p = d * q
    OBVIOUS
  <1>2. -d <= 2 * (p - n) /\ 2 * (p - n) <= d
    BY <1>1 DEF Near
  <1>3. PICK x \in Nat, y \in Nat : x = d - 2 * (p - n) /\ y = d + 2 * (p - n)
    <2>1. d - 2 * (p - n) \in Nat /\ d + 2 * (p - n) \in Nat
      BY ONLY <1>2, p \in Int, n \in Int, d \in Nat \ {0}
    <2> QED
      BY <2>1
  <1>4. c * x >= 0 /\ c * y >= 0 /\ c * x \in Int /\ c * y \in Int
    BY ONLY c \in Nat \ {0}, x \in Nat, y \in Nat
  <1>5. c * x = c * d - 2 * (c * p - c * n) /\ c * y = c * d + 2 * (c * p - c * n)
    BY ONLY <1>3, c \in Nat \ {0}, d \in Nat \ {0}, p \in Int, n \in Int
  <1>6. c * p = (c * d) * q
    BY ONLY <1>1, c \in Nat \ {0}, d \in Nat \ {0}, q \in Int
  <1>7. c * d \in Int /\ c * p \in Int /\ c * n \in Int
    BY ONLY c \in Nat \ {0}, d \in Nat \ {0}, p \in Int, n \in Int
  <1>8. -(c * d) <= 2 * (c * p - c * n) /\ 2 * (c * p - c * n) <= c * d
    BY ONLY <1>4, <1>5, <1>7
  <1> QED
    BY <1>6, <1>8 DEF Near

\* Two parts and their sum, each rounded by itself, agree to a unit.
LEMMA ThreeRoundings ==
  ASSUME NEW d \in Nat \ {0}, NEW a \in Int, NEW b \in Int, NEW c \in Int, NEW n \in Int, NEW m \in Int,
         Near(d, a, n), Near(d, b, m), Near(d, c, n + m)
  PROVE  Magnitude((a + b) - c) <= 1
  <1>1. PICK p \in Int, q \in Int, r \in Int : p = d * a /\ q = d * b /\ r = d * c
    OBVIOUS
  <1>2. /\ -d <= 2 * (p - n) /\ 2 * (p - n) <= d
        /\ -d <= 2 * (q - m) /\ 2 * (q - m) <= d
        /\ -d <= 2 * (r - (n + m)) /\ 2 * (r - (n + m)) <= d
    BY <1>1 DEF Near
  <1>3. -(d * 3) <= 2 * ((p + q) - r) /\ 2 * ((p + q) - r) <= d * 3
    BY <1>2
  <1>4. PICK x \in Int : x = (a + b) - c
    OBVIOUS
  <1>5. d * x = (p + q) - r
    BY ONLY <1>1, <1>4, d \in Nat \ {0}, a \in Int, b \in Int, c \in Int
  <1>6. 2 * Magnitude(x) <= 3
    <2>1. -(d * 3) <= 2 * (d * x) /\ 2 * (d * x) <= d * 3
      BY <1>3, <1>5
    <2> QED
      BY <2>1, Magnitudes
  <1>7. Magnitude(x) \in Int
    BY DEF Magnitude
  <1> QED
    BY <1>4, <1>6, <1>7

\* Figures rounded one by one are together off by half a unit each.
LEMMA RoundedSum ==
  ASSUME NEW K, IsFiniteSet(K), NEW d \in Nat \ {0}, NEW a, NEW n,
         \A k \in K : a[k] \in Int /\ n[k] \in Int /\ Near(d, a[k], n[k])
  PROVE  LET A == SumFunctionOnSet(a, K)
             N == SumFunctionOnSet(n, K)
             c == Cardinality(K)
         IN  /\ A \in Int /\ N \in Int /\ c \in Nat
             /\ -(c * d) <= 2 * (d * A - N) /\ 2 * (d * A - N) <= c * d
  <1>1. PICK A, N, c : A = SumFunctionOnSet(a, K) /\ N = SumFunctionOnSet(n, K) /\ c = Cardinality(K)
    OBVIOUS
  <1>2. A \in Int /\ N \in Int /\ c \in Nat
    BY <1>1, SumType, FS_CardinalityType
  <1> DEFINE e == [k \in K |-> (2 * d) * a[k] + (-2) * n[k]]
             top == [k \in K |-> d]
             bottom == [k \in K |-> -d]
  <1>3. PICK E : E = SumFunctionOnSet(e, K)
    OBVIOUS
  <1>4. E = (2 * d) * A + (-2) * N
    <2>1. 2 * d \in Int /\ -2 \in Int
      OBVIOUS
    <2>2. \A k \in K : a[k] \in Int /\ n[k] \in Int /\ e[k] = (2 * d) * a[k] + (-2) * n[k]
      OBVIOUS
    <2> HIDE DEF e
    <2> QED
      BY <1>1, <1>3, <2>1, <2>2, SumLinear
  <1>5. \A k \in K : e[k] \in Int /\ -d <= e[k] /\ e[k] <= d
    <2> TAKE k \in K
    <2>1. PICK x \in Int, y \in Int : x = a[k] /\ y = n[k]
      OBVIOUS
    <2>2. PICK p \in Int : p = d * x
      OBVIOUS
    <2>3. -d <= 2 * (p - y) /\ 2 * (p - y) <= d
      BY <2>1, <2>2 DEF Near
    <2>4. e[k] = (2 * d) * x + (-2) * y
      BY <2>1
    <2>5. (2 * d) * x = 2 * p
      BY ONLY <2>2, d \in Nat \ {0}, x \in Int
    <2> HIDE DEF e
    <2> QED
      BY <2>3, <2>4, <2>5
  <1>6. E <= SumFunctionOnSet(top, K)
    <2>1. \A k \in K : e[k] \in Int /\ top[k] \in Int /\ e[k] <= top[k]
      BY <1>5
    <2> HIDE DEF e, top
    <2> QED
      BY <1>3, <2>1, SumBounded
  <1>7. SumFunctionOnSet(bottom, K) <= E
    <2>1. \A k \in K : e[k] \in Int /\ bottom[k] \in Int /\ bottom[k] <= e[k]
      BY <1>5
    <2> HIDE DEF e, bottom
    <2> QED
      BY <1>3, <2>1, SumBounded
  <1>8. SumFunctionOnSet(top, K) = c * d
    <2>1. d \in Int /\ \A k \in K : top[k] = d
      OBVIOUS
    <2> HIDE DEF top
    <2> QED
      BY <1>1, <2>1, SumConstant
  <1>9. SumFunctionOnSet(bottom, K) = c * (-d)
    <2>1. PICK m \in Int : m = -d
      OBVIOUS
    <2>2. \A k \in K : bottom[k] = m
      BY <2>1
    <2> HIDE DEF bottom
    <2> QED
      BY <1>1, <2>1, <2>2, SumConstant
  <1>10. /\ c * (-d) = -(c * d) /\ (2 * d) * A = 2 * (d * A)
         /\ c * d \in Int /\ d * A \in Int
    BY ONLY <1>2, d \in Nat \ {0}
  <1>11. /\ E = 2 * (d * A) + (-2) * N
         /\ E <= c * d /\ -(c * d) <= E
    BY <1>4, <1>6, <1>7, <1>8, <1>9, <1>10
  <1>12. -(c * d) <= 2 * (d * A - N) /\ 2 * (d * A - N) <= c * d
    BY ONLY <1>2, <1>10, <1>11
  <1> QED
    BY <1>1, <1>2, <1>12

\* ... and so against the total rounded once.
LEMMA PartsAgainstWhole ==
  ASSUME NEW K, IsFiniteSet(K), NEW d \in Nat \ {0}, NEW a, NEW n, NEW t \in Int,
         \A k \in K : a[k] \in Int /\ n[k] \in Int /\ Near(d, a[k], n[k]),
         Near(d, t, SumFunctionOnSet(n, K))
  PROVE  2 * Magnitude(SumFunctionOnSet(a, K) - t) <= Cardinality(K) + 1
  <1>1. PICK A, N, c : A = SumFunctionOnSet(a, K) /\ N = SumFunctionOnSet(n, K) /\ c = Cardinality(K)
    OBVIOUS
  <1>2. /\ A \in Int /\ N \in Int /\ c \in Nat
        /\ -(c * d) <= 2 * (d * A - N) /\ 2 * (d * A - N) <= c * d
    BY <1>1, RoundedSum
  <1>3. -d <= 2 * (d * t - N) /\ 2 * (d * t - N) <= d
    BY <1>1 DEF Near
  <1>4. PICK x \in Int, m \in Int : x = A - t /\ m = c + 1
    BY <1>2
  <1>5. d * x = d * A - d * t /\ d * m = c * d + d
    BY ONLY <1>2, <1>4, d \in Nat \ {0}, t \in Int
  <1>6. d * A \in Int /\ d * t \in Int /\ c * d \in Int
    BY ONLY <1>2, d \in Nat \ {0}, t \in Int
  <1>7. -(d * m) <= 2 * (d * x) /\ 2 * (d * x) <= d * m
    BY ONLY <1>2, <1>3, <1>5, <1>6, d \in Nat \ {0}
  <1>8. 2 * Magnitude(x) <= m
    BY <1>7, Magnitudes
  <1> QED
    BY <1>1, <1>4, <1>8

MoneyInv == lines \in Seq(Lines) /\ discount \in Discounts \cup {NoDiscount}

\* The lines and the discount stay what the request may carry.
LEMMA MoneyBase == MoneyInit => MoneyInv
  BY DEF MoneyInit, MoneyInv

LEMMA MoneyStep == MoneyInv /\ [MoneyNext]_moneyVars => MoneyInv'
  <1> SUFFICES ASSUME MoneyInv, [MoneyNext]_moneyVars PROVE MoneyInv'
    OBVIOUS
  <1>1. ASSUME NEW l \in Lines, AddLine(l) PROVE MoneyInv'
    BY <1>1 DEF MoneyInv, AddLine
  <1>2. ASSUME NEW d \in Discounts \cup {NoDiscount}, SetDiscount(d) PROVE MoneyInv'
    BY <1>2 DEF MoneyInv, SetDiscount
  <1>3. CASE UNCHANGED moneyVars
    BY <1>3 DEF MoneyInv, moneyVars
  <1> QED
    BY <1>1, <1>2, <1>3 DEF MoneyNext

\* The key a line is reported under.
KeyOf == [i \in Indices |-> <<lines[i].category, lines[i].rate>>]

\* The keys in use are finitely many.
LEMMA KeysFinite ==
  ASSUME MoneyInv
  PROVE  /\ IsFiniteSet(Indices) /\ IsFiniteSet(Keys)
         /\ \A i \in Indices : KeyOf[i] \in Keys
         /\ \A key : Under(key) = {i \in Indices : KeyOf[i] = key}
  <1>1. Indices = 1..Len(lines) /\ Len(lines) \in Nat
    BY DEF MoneyInv, Indices
  <1>2. IsFiniteSet(Indices)
    BY <1>1, FS_Interval
  <1>3. \A i \in Indices : KeyOf[i] \in Keys
    BY Zenon DEF KeyOf, Keys
  <1>4. \A k \in Keys : \E i \in Indices : KeyOf[i] = k
    BY Zenon DEF KeyOf, Keys
  <1>5. KeyOf \in [Indices -> Keys]
    BY <1>3 DEF KeyOf
  <1>6. KeyOf \in Surjection(Indices, Keys)
    BY <1>4, <1>5, Zenon DEF Surjection
  <1>7. IsFiniteSet(Keys)
    BY <1>2, <1>6, FS_Surjection
  <1>8. \A key : Under(key) = {i \in Indices : KeyOf[i] = key}
    BY Zenon DEF Under, KeyOf
  <1> QED
    BY <1>2, <1>3, <1>7, <1>8

\* What the code rounds is never negative, and a line's net and what it absorbs
\* of the discount are the line.
LEMMA LineAmounts ==
  ASSUME MoneyInv
  PROVE  \A i \in Indices :
            /\ Gross[i] \in Nat /\ LineDiscount[i] \in Nat /\ NetPre[i] \in Nat
            /\ NetPre[i] = Gross[i] - LineDiscount[i] /\ lines[i].rate \in Nat
  <1> TAKE i \in Indices
  <1>1. lines[i] \in Lines
    BY DEF MoneyInv, Indices
  <1>2. PICK g \in Nat, o \in 0..100 : g = lines[i].gross /\ o = lines[i].off
    BY <1>1, MoneyAssumption
  <1>3. PICK t \in Int, q \in Int : t = g * o /\ q = t \div 100
    OBVIOUS
  <1>4. 0 <= t /\ t <= 100 * g
    <2>1. PICK r \in Nat : r = 100 - o
      OBVIOUS
    <2>2. g * o >= 0 /\ g * r >= 0 /\ g * r \in Int
      BY ONLY <1>2, <2>1, g \in Nat, o \in 0..100, r \in Nat
    <2>3. g * r = 100 * g - g * o
      BY ONLY <2>1, g \in Nat, o \in 0..100, r \in Nat
    <2> QED
      BY ONLY <1>3, <2>2, <2>3, t \in Int, g \in Nat
  <1>5. 0 <= q /\ q <= g
    BY ONLY <1>3, <1>4, t \in Int, g \in Nat, q \in Int
  <1>6. Gross[i] = g /\ LineDiscount[i] = q /\ NetPre[i] = g - q
    BY <1>2, <1>3 DEF Gross, LineDiscount, NetPre
  <1>7. lines[i].rate \in Nat
    BY <1>1, MoneyAssumption
  <1> QED
    BY <1>5, <1>6, <1>7

\* The discount leaves a part of each amount.
LEMMA KeptPart ==
  ASSUME MoneyInv
  PROVE  TotalPre \in Nat /\ Of \in Nat \ {0} /\ Kept \in 0..Of
  <1>1. TotalPre \in Nat
    <2> DEFINE zero == [i \in Indices |-> 0]
    <2>1. IsFiniteSet(Indices) /\ \A i \in Indices : NetPre[i] \in Nat
      BY KeysFinite, LineAmounts
    <2>2. \A i \in Indices : zero[i] \in Int /\ NetPre[i] \in Int /\ zero[i] <= NetPre[i] /\ zero[i] = 0
      BY <2>1
    <2> HIDE DEF zero
    <2>3. SumFunctionOnSet(NetPre, Indices) \in Int
      BY <2>1, <2>2, SumType
    <2>4. SumFunctionOnSet(zero, Indices) <= SumFunctionOnSet(NetPre, Indices)
      BY <2>1, <2>2, SumBounded
    <2>5. SumFunctionOnSet(zero, Indices) = Cardinality(Indices) * 0
      BY <2>1, <2>2, SumConstant
    <2>6. Cardinality(Indices) \in Nat
      BY <2>1, FS_CardinalityType
    <2> QED
      BY <2>3, <2>4, <2>5, <2>6 DEF TotalPre, Over
  <1>2. PICK t \in Nat, v \in Nat : t = TotalPre /\ v = discount.value
    BY <1>1, MoneyAssumption DEF MoneyInv, NoDiscount
  <1>3. discount.type = "percentage" => v <= 100
    BY <1>2, MoneyAssumption DEF MoneyInv, NoDiscount
  <1>4. CASE discount.type = "percentage"
    BY <1>1, <1>2, <1>3, <1>4 DEF Of, Kept
  <1>5. CASE discount.type = "fixed" /\ t > 0
    <2>1. PICK m \in Int : m = Min({100 * v, t})
      <3>1. Min({100 * v, t}) = IF 100 * v <= t THEN 100 * v ELSE t
        BY DEF Min
      <3> QED
        BY <3>1
    <2>2. 0 <= m /\ m <= t
      <3>1. \E x \in {100 * v, t} : \A y \in {100 * v, t} : x <= y
        OBVIOUS
      <3>2. m \in {100 * v, t} /\ \A y \in {100 * v, t} : m <= y
        BY <2>1, <3>1 DEF Min
      <3> QED
        BY <3>2
    <2> QED
      BY <1>1, <1>2, <1>5, <2>1, <2>2 DEF Of, Kept
  <1>6. CASE discount.type # "percentage" /\ ~(discount.type = "fixed" /\ t > 0)
    BY <1>1, <1>2, <1>6 DEF Of, Kept
  <1> QED
    BY <1>4, <1>5, <1>6

\* What each line contributes to the sums, in their units.
LEMMA ShareAmounts ==
  ASSUME MoneyInv
  PROVE  \A i \in Indices :
            /\ Net[i] \in Int /\ Vat[i] \in Int /\ DiscountShare[i] \in Nat
            /\ Of * NetPre[i] = Net[i] + DiscountShare[i]
  <1> TAKE i \in Indices
  <1>1. PICK p \in Nat, r \in Nat, o \in Nat \ {0}, k \in Nat :
           p = NetPre[i] /\ r = lines[i].rate /\ o = Of /\ k = Kept /\ k <= o
    BY LineAmounts, KeptPart
  <1>2. Net[i] = p * k /\ DiscountShare[i] = p * (o - k) /\ Vat[i] = (p * k) * r
    BY <1>1 DEF Net, DiscountShare, Vat
  <1>3. PICK s \in Nat : s = o - k
    BY <1>1
  <1>4. p * k \in Int /\ (p * k) * r \in Int /\ p * s \in Nat /\ o * p = p * k + p * s
    BY ONLY <1>3, p \in Nat, r \in Nat, o \in Nat \ {0}, k \in Nat
  <1> QED
    BY <1>1, <1>2, <1>3, <1>4

\* So are the sums over any of the lines.
LEMMA AmountSums ==
  ASSUME MoneyInv, NEW I \in SUBSET Indices
  PROVE  /\ Over(Gross, I) \in Int /\ Over(LineDiscount, I) \in Int /\ Over(NetPre, I) \in Int
         /\ Over(Net, I) \in Int /\ Over(Vat, I) \in Int /\ Over(DiscountShare, I) \in Nat
         /\ Over(NetPre, I) = Over(Gross, I) - Over(LineDiscount, I)
         /\ Of * Over(NetPre, I) = Over(Net, I) + Over(DiscountShare, I)
  <1>1. /\ IsFiniteSet(I)
        /\ \A i \in I : /\ Gross[i] \in Int /\ LineDiscount[i] \in Int /\ NetPre[i] \in Int
                        /\ Net[i] \in Int /\ Vat[i] \in Int
                        /\ DiscountShare[i] \in Int /\ DiscountShare[i] >= 0
    BY KeysFinite, FS_Subset, LineAmounts, ShareAmounts
  <1>2. /\ Over(Gross, I) \in Int /\ Over(LineDiscount, I) \in Int /\ Over(NetPre, I) \in Int
        /\ Over(Net, I) \in Int /\ Over(Vat, I) \in Int /\ Over(DiscountShare, I) \in Int
    BY <1>1, SumType DEF Over
  <1>3. Over(DiscountShare, I) \in Nat
    <2> DEFINE zero == [i \in I |-> 0]
    <2>1. \A i \in I : zero[i] \in Int /\ DiscountShare[i] \in Int /\ zero[i] <= DiscountShare[i] /\ zero[i] = 0
      BY <1>1
    <2> HIDE DEF zero
    <2>2. SumFunctionOnSet(zero, I) <= SumFunctionOnSet(DiscountShare, I)
      BY <1>1, <2>1, SumBounded
    <2>3. SumFunctionOnSet(zero, I) = Cardinality(I) * 0
      BY <1>1, <2>1, SumConstant
    <2>4. Cardinality(I) \in Nat
      BY <1>1, FS_CardinalityType
    <2> QED
      BY <1>2, <2>2, <2>3, <2>4 DEF Over
  <1>4. Over(NetPre, I) = Over(Gross, I) - Over(LineDiscount, I)
    <2>1. \A i \in I : NetPre[i] = 1 * Gross[i] + (-1) * LineDiscount[i]
      BY <1>1, LineAmounts
    <2>2. SumFunctionOnSet(NetPre, I) = 1 * SumFunctionOnSet(Gross, I) + (-1) * SumFunctionOnSet(LineDiscount, I)
      <3>1. 1 \in Int /\ -1 \in Int
        OBVIOUS
      <3> QED
        BY <1>1, <2>1, <3>1, SumLinear
    <2> QED
      BY <1>2, <2>2 DEF Over
  <1>5. Of * Over(NetPre, I) = Over(Net, I) + Over(DiscountShare, I)
    <2> DEFINE both == [i \in I |-> Net[i] + DiscountShare[i]]
    <2>1. Of \in Int /\ 0 \in Int /\ 1 \in Int
      BY KeptPart
    <2>2. \A i \in I : both[i] = 1 * Net[i] + 1 * DiscountShare[i]
      BY <1>1
    <2>3. \A i \in I : both[i] = Of * NetPre[i] + 0 * NetPre[i]
      <3> TAKE i \in I
      <3>1. both[i] = Of * NetPre[i]
        BY ShareAmounts
      <3>2. Of * NetPre[i] \in Int /\ 0 * NetPre[i] = 0
        BY <1>1, <2>1
      <3> HIDE DEF both
      <3> QED
        BY <3>1, <3>2
    <2> HIDE DEF both
    <2>4. SumFunctionOnSet(both, I) = 1 * SumFunctionOnSet(Net, I) + 1 * SumFunctionOnSet(DiscountShare, I)
      BY <1>1, <2>1, <2>2, SumLinear
    <2>5. SumFunctionOnSet(both, I) = Of * SumFunctionOnSet(NetPre, I) + 0 * SumFunctionOnSet(NetPre, I)
      BY <1>1, <2>1, <2>3, SumLinear
    <2>6. Of * SumFunctionOnSet(NetPre, I) \in Int /\ 0 * SumFunctionOnSet(NetPre, I) = 0
      BY <1>2, <2>1 DEF Over
    <2> QED
      BY <1>2, <2>4, <2>5, <2>6 DEF Over
  <1> QED
    BY <1>2, <1>3, <1>4, <1>5

\* Subtotal, discount, net, VAT and total, each rounded by itself.
LEMMA Headline == MoneyInv => HeadlineAgrees
  <1> SUFFICES ASSUME MoneyInv PROVE HeadlineAgrees
    OBVIOUS
  <1>1. PICK G \in Int, L \in Int, P \in Int, N \in Int, V \in Int, S \in Nat, o \in Nat \ {0} :
          /\ G = Over(Gross, Indices) /\ L = Over(LineDiscount, Indices) /\ P = Over(NetPre, Indices)
          /\ N = Over(Net, Indices) /\ V = Over(Vat, Indices) /\ S = Over(DiscountShare, Indices)
          /\ o = Of
    BY AmountSums, KeptPart
  <1>2. P = G - L /\ o * P = N + S
    BY <1>1, AmountSums
  <1>3. PICK d \in Nat \ {0}, e \in Nat \ {0} : d = 100 * o /\ e = 10000 * o
    <2>1. 100 * o \in Nat \ {0} /\ 10000 * o \in Nat \ {0}
      OBVIOUS
    <2> QED
      BY <2>1
  <1>4. PICK X \in Int : X = L * o + S
    OBVIOUS
  <1>5. PICK Y \in Int : Y = 100 * N + V
    OBVIOUS
  <1>6. /\ subtotal_ht = Quantize(G, 100) /\ total_discount = Quantize(X, d) /\ net_ht = Quantize(N, d)
        /\ total_vat = Quantize(V, e) /\ total_ttc = Quantize(Y, e)
    BY <1>1, <1>3, <1>4, <1>5 DEF subtotal_ht, total_discount, net_ht, total_vat, total_ttc
  <1>7. /\ subtotal_ht \in Int /\ total_discount \in Int /\ net_ht \in Int /\ total_vat \in Int /\ total_ttc \in Int
        /\ Near(100, subtotal_ht, G) /\ Near(d, total_discount, X) /\ Near(d, net_ht, N)
        /\ Near(e, total_vat, V) /\ Near(e, total_ttc, Y)
    BY <1>6, Rounds
  <1>8. Magnitude((net_ht + total_vat) - total_ttc) <= 1
    <2>1. Near(100 * d, net_ht, 100 * N)
      BY <1>7, NearFiner
    <2>2. 100 * d = e
      BY <1>3
    <2>3. Near(e, net_ht, 100 * N)
      BY <2>1, <2>2
    <2>4. 100 * N \in Int
      OBVIOUS
    <2> QED
      BY <1>5, <1>7, <2>3, <2>4, ThreeRoundings
  <1>9. Magnitude((total_discount + net_ht) - subtotal_ht) <= 1
    <2>1. Near(o * 100, subtotal_ht, o * G)
      BY <1>7, NearFiner
    <2>2. o * 100 = d
      BY <1>3
    <2>3. o * G = X + N
      <3>1. o * P = o * G - L * o
        BY ONLY <1>2, o \in Nat \ {0}, G \in Int, L \in Int, P \in Int
      <3>2. o * G \in Int /\ L * o \in Int
        OBVIOUS
      <3> QED
        BY ONLY <1>2, <1>4, <3>1, <3>2, N \in Int, S \in Nat
    <2>4. Near(d, subtotal_ht, X + N)
      BY <2>1, <2>2, <2>3
    <2> QED
      BY <1>7, <2>4, ThreeRoundings
  <1>10. Magnitude((subtotal_ht - total_discount) - net_ht) <= 1
    BY <1>7, <1>9 DEF Magnitude
  <1>11. (net_ht + total_vat) - total_ttc = net_ht + total_vat - total_ttc
    BY <1>7
  <1> QED
    BY <1>8, <1>10, <1>11 DEF HeadlineAgrees

\* The lines of some keys, key by key.
LEMMA SumUnderKeys ==
  ASSUME MoneyInv, NEW K \in SUBSET Keys, NEW f, \A i \in Indices : f[i] \in Int, NEW h,
         \A k \in K : h[k] = Over(f, Under(k))
  PROVE  /\ IsFiniteSet(K)
         /\ \A k \in K : h[k] \in Int
         /\ Over(h, K) = Over(f, {i \in Indices : KeyOf[i] \in K})
         /\ Over(f, {i \in Indices : KeyOf[i] \in K}) \in Int
  <1>1. PICK S : S = {i \in Indices : KeyOf[i] \in K}
    OBVIOUS
  <1>2. IsFiniteSet(S) /\ IsFiniteSet(K) /\ S \subseteq Indices
    BY <1>1, KeysFinite, FS_Subset
  <1> DEFINE part == [k \in K |-> Under(k)]
  <1>3. \A k \in K : part[k] = Under(k) /\ part[k] \subseteq S /\ \A x \in S : x \in part[k] <=> KeyOf[x] = k
    BY <1>1, KeysFinite
  <1>4. \A x \in S : KeyOf[x] \in K /\ f[x] \in Int
    BY <1>1
  <1>5. \A k \in K : h[k] = SumFunctionOnSet(f, part[k])
    BY <1>3, Zenon DEF Over
  <1> HIDE DEF part
  <1>6. SumFunctionOnSet(h, K) = SumFunctionOnSet(f, S)
    BY ONLY <1>2, <1>3, <1>4, <1>5, SumByKey
  <1>7. \A k \in K : h[k] \in Int
    <2> TAKE k \in K
    <2>1. IsFiniteSet(part[k]) /\ \A x \in part[k] : f[x] \in Int
      BY <1>2, <1>3, <1>4, FS_Subset
    <2> QED
      BY <1>5, <2>1, SumType
  <1>8. SumFunctionOnSet(f, S) \in Int
    BY <1>2, <1>4, SumType
  <1> QED
    BY <1>1, <1>2, <1>6, <1>7, <1>8 DEF Over

\* A figure in parts, and rounded once.
LEMMA PartsRounded ==
  ASSUME MoneyInv, NEW K \in SUBSET Keys, NEW d \in Nat \ {0}, NEW f, \A i \in Indices : f[i] \in Int,
         NEW a, \A k \in K : a[k] = Quantize(Over(f, Under(k)), d),
         NEW t, t = Quantize(Over(f, {i \in Indices : KeyOf[i] \in K}), d)
  PROVE  /\ 2 * Magnitude(Over(a, K) - t) <= Cardinality(K) + 1
         /\ Cardinality(K) = 1 => Magnitude(Over(a, K) - t) = 0
  <1> DEFINE n == [k \in K |-> Over(f, Under(k))]
  <1>1. PICK T : T = Over(f, {i \in Indices : KeyOf[i] \in K})
    OBVIOUS
  <1>2. \A k \in K : n[k] = Over(f, Under(k))
    OBVIOUS
  <1> HIDE DEF n
  <1>3. IsFiniteSet(K) /\ T \in Int /\ Over(n, K) = T /\ \A k \in K : n[k] \in Int
    BY <1>1, <1>2, SumUnderKeys
  <1>4. \A k \in K : a[k] = Quantize(n[k], d)
    BY <1>2
  <1>5. \A k \in K : a[k] \in Int /\ n[k] \in Int /\ Near(d, a[k], n[k])
    BY <1>3, <1>4, Rounds
  <1>6. t \in Int /\ Near(d, t, T)
    BY <1>1, <1>3, Rounds
  <1>7. 2 * Magnitude(SumFunctionOnSet(a, K) - t) <= Cardinality(K) + 1
    <2>1. Near(d, t, SumFunctionOnSet(n, K))
      BY <1>3, <1>6 DEF Over
    <2> QED
      BY <1>3, <1>5, <1>6, <2>1, PartsAgainstWhole
  <1>8. ASSUME Cardinality(K) = 1 PROVE Magnitude(SumFunctionOnSet(a, K) - t) = 0
    <2>1. PICK k : K = {k}
      BY <1>3, <1>8, FS_Singleton
    <2>2. SumFunctionOnSet(a, K) = a[k] /\ SumFunctionOnSet(n, K) = n[k]
      BY <1>5, <2>1, SumSingle
    <2>3. a[k] = t
      BY <1>1, <1>3, <1>4, <2>1, <2>2 DEF Over
    <2>4. SumFunctionOnSet(a, K) - t = 0
      BY <1>6, <2>2, <2>3
    <2> QED
      BY <2>4 DEF Magnitude
  <1> QED
    BY <1>7, <1>8 DEF Over

\* The buckets against the headline figures they break up.
LEMMA Buckets == MoneyInv => BucketsMatchTotals
  <1> SUFFICES ASSUME MoneyInv PROVE BucketsMatchTotals
    OBVIOUS
  <1>1. PICK d \in Nat \ {0}, e \in Nat \ {0} : d = 100 * Of /\ e = 10000 * Of
    <2>1. 100 * Of \in Nat \ {0} /\ 10000 * Of \in Nat \ {0}
      BY KeptPart
    <2> QED
      BY <2>1
  <1>2. \A i \in Indices : Net[i] \in Int /\ Vat[i] \in Int
    BY ShareAmounts
  <1>3. Indices = {i \in Indices : KeyOf[i] \in Keys}
    BY KeysFinite
  <1>4. 2 * Magnitude(Over([k \in Keys |-> TaxableBase(k)], Keys) - net_ht) <= Cardinality(Keys) + 1
    <2> DEFINE a == [k \in Keys |-> TaxableBase(k)]
    <2>1. \A k \in Keys : a[k] = Quantize(Over(Net, Under(k)), d)
      BY <1>1 DEF TaxableBase
    <2>2. net_ht = Quantize(Over(Net, {i \in Indices : KeyOf[i] \in Keys}), d)
      <3>1. net_ht = Quantize(Over(Net, Indices), d)
        BY <1>1 DEF net_ht
      <3> QED
        BY <1>3, <3>1, Zenon
    <2> HIDE DEF a
    <2>3. 2 * Magnitude(Over(a, Keys) - net_ht) <= Cardinality(Keys) + 1
      BY <1>2, <2>1, <2>2, PartsRounded
    <2> QED
      BY <2>3 DEF a
  <1>5. 2 * Magnitude(Over([k \in Keys |-> VatAmount(k)], Keys) - total_vat) <= Cardinality(Keys) + 1
    <2> DEFINE a == [k \in Keys |-> VatAmount(k)]
    <2>1. \A k \in Keys : a[k] = Quantize(Over(Vat, Under(k)), e)
      BY <1>1 DEF VatAmount
    <2>2. total_vat = Quantize(Over(Vat, {i \in Indices : KeyOf[i] \in Keys}), e)
      <3>1. total_vat = Quantize(Over(Vat, Indices), e)
        BY <1>1 DEF total_vat
      <3> QED
        BY <1>3, <3>1, Zenon
    <2> HIDE DEF a
    <2>3. 2 * Magnitude(Over(a, Keys) - total_vat) <= Cardinality(Keys) + 1
      BY <1>2, <2>1, <2>2, PartsRounded
    <2> QED
      BY <2>3 DEF a
  <1>6. ASSUME NEW rate \in {k[2] : k \in Keys}
        PROVE  LET buckets == {k \in Keys : k[2] = rate}
                   off == Magnitude(Over([k \in buckets |-> VatAmount(k)], buckets) - vat_breakdown(rate))
               IN /\ 2 * off <= Cardinality(buckets) + 1
                  /\ Cardinality(buckets) = 1 => off = 0
    <2> DEFINE B == {k \in Keys : k[2] = rate}
               a == [k \in B |-> VatAmount(k)]
    <2>1. \A k \in B : a[k] = Quantize(Over(Vat, Under(k)), e)
      BY <1>1 DEF VatAmount
    <2>2. {i \in Indices : lines[i].rate = rate} = {i \in Indices : KeyOf[i] \in B}
      <3>1. \A i \in Indices : KeyOf[i] \in Keys /\ KeyOf[i][2] = lines[i].rate
        BY KeysFinite DEF KeyOf
      <3> QED
        BY <3>1
    <2>3. vat_breakdown(rate) = Quantize(Over(Vat, {i \in Indices : KeyOf[i] \in B}), e)
      <3>1. vat_breakdown(rate) = Quantize(Over(Vat, {i \in Indices : lines[i].rate = rate}), e)
        BY <1>1 DEF vat_breakdown
      <3> HIDE DEF B
      <3> QED
        BY <2>2, <3>1, Zenon
    <2>4. B \in SUBSET Keys
      OBVIOUS
    <2>5. /\ 2 * Magnitude(Over(a, B) - vat_breakdown(rate)) <= Cardinality(B) + 1
          /\ Cardinality(B) = 1 => Magnitude(Over(a, B) - vat_breakdown(rate)) = 0
      <3> HIDE DEF a, B
      <3> QED
        BY <1>2, <2>1, <2>3, <2>4, PartsRounded
    <2> QED
      BY <2>5
  <1> QED
    BY <1>4, <1>5, <1>6 DEF BucketsMatchTotals

\* max() of two amounts.
LEMMA LargerOfTwo ==
  ASSUME NEW a \in Int, NEW b \in Int
  PROVE  Max({a, b}) = IF a >= b THEN a ELSE b
  <1>1. \E x \in {a, b} : \A y \in {a, b} : x >= y
    OBVIOUS
  <1>2. PICK m : m = Max({a, b})
    OBVIOUS
  <1>3. m \in {a, b} /\ \A y \in {a, b} : m >= y
    BY <1>1, <1>2, Zenon DEF Max
  <1> QED
    BY <1>2, <1>3

\* What the e-invoice takes off one key is the key's part of the discount, to
\* half a cent for every key: one of them absorbs what rounding left of all.
LEMMA AllowanceNear ==
  ASSUME MoneyInv, NEW key \in Keys, NEW d \in Nat \ {0}, d = 100 * Of
  PROVE  /\ Allowance(key) \in Int
         /\ -(Cardinality(Keys) * d) <= 2 * (d * Allowance(key) - Over(DiscountShare, Under(key)))
         /\ 2 * (d * Allowance(key) - Over(DiscountShare, Under(key))) <= Cardinality(Keys) * d
  <1> DEFINE n == [k \in Keys |-> Over(DiscountShare, Under(k))]
             a == [k \in Keys |-> Rounded(k)]
             J == Keys \ {key}
  <1>1. \A k \in Keys : n[k] = Over(DiscountShare, Under(k)) /\ a[k] = Rounded(k)
    OBVIOUS
  <1>2. Residual = AllowanceTotal - Over(a, Keys)
    BY Zenon DEF Residual
  <1> HIDE DEF n, a
  <1>3. \A i \in Indices : DiscountShare[i] \in Int
    BY ShareAmounts
  <1>4. PICK T : T = Over(DiscountShare, Indices)
    OBVIOUS
  <1>5. IsFiniteSet(Keys) /\ T \in Int /\ Over(n, Keys) = T /\ \A k \in Keys : n[k] \in Int
    <2>1. Indices = {i \in Indices : KeyOf[i] \in Keys}
      BY KeysFinite
    <2>2. Over(DiscountShare, {i \in Indices : KeyOf[i] \in Keys}) = T
      BY <1>4, <2>1, Zenon
    <2>3. Keys \in SUBSET Keys
      OBVIOUS
    <2> QED
      BY <1>1, <1>3, <2>2, <2>3, SumUnderKeys
  <1>6. \A k \in Keys : n[k] >= 0
    <2> TAKE k \in Keys
    <2>1. Under(k) \in SUBSET Indices
      BY DEF Under
    <2> QED
      BY <1>1, <2>1, AmountSums
  <1>7. \A k \in Keys : a[k] \in Int /\ n[k] \in Int /\ Near(d, a[k], n[k])
    <2>1. \A k \in Keys : a[k] = Quantize(n[k], d)
      BY <1>1 DEF Rounded
    <2> QED
      BY <1>5, <2>1, Rounds
  <1>8. AllowanceTotal \in Int /\ Near(d, AllowanceTotal, T)
    <2>1. AllowanceTotal = Quantize(T, d)
      BY <1>4 DEF AllowanceTotal
    <2> QED
      BY <1>5, <2>1, Rounds
  <1>9. IsFiniteSet(J)
    BY <1>5, FS_Subset
  <1>10. PICK c \in Nat, A \in Int, N \in Int, x \in Int, y \in Int, t \in Int :
           /\ c = Cardinality(J) /\ A = SumFunctionOnSet(a, J) /\ N = SumFunctionOnSet(n, J)
           /\ x = a[key] /\ y = n[key] /\ t = AllowanceTotal
    <2>1. \A k \in J : a[k] \in Int /\ n[k] \in Int
      BY <1>7
    <2>2. SumFunctionOnSet(a, J) \in Int /\ SumFunctionOnSet(n, J) \in Int
      BY <1>9, <2>1, SumType
    <2>3. Cardinality(J) \in Nat
      BY <1>9, FS_CardinalityType
    <2> QED
      BY <1>7, <1>8, <2>2, <2>3
  <1>11. Cardinality(Keys) = c + 1
    <2>1. Cardinality(J) = Cardinality(Keys) - 1 /\ Cardinality(Keys) \in Nat
      BY <1>5, FS_RemoveElement, FS_CardinalityType
    <2> QED
      BY <1>10, <2>1
  <1>12. Over(a, Keys) = x + A /\ T = y + N
    <2>1. \A k \in Keys : a[k] \in Int /\ n[k] \in Int
      BY <1>7
    <2>2. /\ SumFunctionOnSet(a, Keys) = a[key] + SumFunctionOnSet(a, J)
          /\ SumFunctionOnSet(n, Keys) = n[key] + SumFunctionOnSet(n, J)
      BY <1>5, <2>1, SumRemove
    <2> QED
      BY <1>5, <1>10, <2>2 DEF Over
  <1>13. -(c * d) <= 2 * (d * A - N) /\ 2 * (d * A - N) <= c * d
    <2>1. \A k \in J : a[k] \in Int /\ n[k] \in Int /\ Near(d, a[k], n[k])
      BY <1>7
    <2> QED
      BY <1>9, <1>10, <2>1, RoundedSum
  <1>14. PICK p \in Int : p = Part(key)
    <2>1. Part(key) = x + (t - (x + A)) \/ Part(key) = x
      BY <1>1, <1>2, <1>10, <1>12 DEF Part
    <2> QED
      BY <2>1
  <1>15. PICK dA \in Int, dt \in Int, dx \in Int, dp \in Int, cd \in Nat :
           dA = d * A /\ dt = d * t /\ dx = d * x /\ dp = d * p /\ cd = c * d
    <2>1. d * A \in Int /\ d * t \in Int /\ d * x \in Int /\ d * p \in Int /\ c * d \in Nat
      OBVIOUS
    <2> QED
      BY <2>1
  <1>16. -(cd + d) <= 2 * (dp - y) /\ 2 * (dp - y) <= cd + d
    <2>1. /\ -d <= 2 * (dx - y) /\ 2 * (dx - y) <= d
          /\ -d <= 2 * (dt - (y + N)) /\ 2 * (dt - (y + N)) <= d
          /\ -cd <= 2 * (dA - N) /\ 2 * (dA - N) <= cd
      BY <1>7, <1>8, <1>10, <1>12, <1>13, <1>15 DEF Near
    <2>2. CASE key = Biggest
      <3>1. Part(key) = x + (t - (x + A))
        BY <1>1, <1>2, <1>10, <1>12, <2>2 DEF Part
      <3>2. p = t - A
        BY <1>14, <3>1
      <3>3. dp = dt - dA
        BY ONLY <1>15, <3>2, d \in Nat \ {0}, t \in Int, A \in Int
      <3> QED
        BY ONLY <2>1, <3>3, dA \in Int, dt \in Int, y \in Int, N \in Int, cd \in Nat, d \in Nat \ {0}
    <2>3. CASE key # Biggest
      <3>1. Part(key) = x
        BY <1>1, <1>10, <2>3 DEF Part
      <3>2. dp = dx
        BY <1>14, <1>15, <3>1
      <3> QED
        BY ONLY <2>1, <3>2, dx \in Int, y \in Int, cd \in Nat, d \in Nat \ {0}
    <2> QED
      BY <2>2, <2>3
  <1>17. PICK q \in Int, dq \in Int :
           q = Allowance(key) /\ q = (IF p >= 0 THEN p ELSE 0) /\ dq = d * q
    <2>1. Allowance(key) = IF p >= 0 THEN p ELSE 0
      BY <1>14, LargerOfTwo DEF Allowance
    <2> QED
      BY <2>1
  <1>18. -(cd + d) <= 2 * (dq - y) /\ 2 * (dq - y) <= cd + d
    <2>1. CASE p >= 0
      <3>1. dq = dp
        BY <1>15, <1>17, <2>1
      <3> QED
        BY <1>16, <3>1
    <2>2. CASE p < 0
      <3>1. dq = 0 /\ dp <= 0
        <4>1. q = 0
          BY <1>17, <2>2
        <4>2. d * 0 = 0 /\ d * p <= 0
          BY ONLY <2>2, d \in Nat \ {0}, p \in Int
        <4> QED
          BY <1>15, <1>17, <4>1, <4>2
      <3>2. y >= 0
        BY <1>6, <1>10
      <3> QED
        BY ONLY <1>16, <3>1, <3>2, dp \in Int, y \in Int, cd \in Nat, d \in Nat \ {0}
    <2> QED
      BY <2>1, <2>2
  <1>19. (c + 1) * d = cd + d
    BY ONLY <1>15, c \in Nat, d \in Nat \ {0}
  <1>20. y = Over(DiscountShare, Under(key))
    BY <1>1, <1>10
  <1> QED
    BY <1>11, <1>17, <1>18, <1>19, <1>20

\* The taxable amounts of the e-invoice, the remainder's key included.
LEMMA Taxable == MoneyInv => TaxableNetsOut
  <1> SUFFICES ASSUME MoneyInv, NEW key \in Keys
               PROVE  2 * Magnitude(Quantize(Over(NetPre, Under(key)), 100) - Allowance(key) - TaxableBase(key))
                        <= Cardinality(Keys) + 2
    BY DEF TaxableNetsOut
  <1>1. PICK o \in Nat \ {0}, d \in Nat \ {0} : o = Of /\ d = 100 * Of
    <2>1. Of \in Nat \ {0} /\ 100 * Of \in Nat \ {0}
      BY KeptPart
    <2> QED
      BY <2>1
  <1>2. Under(key) \in SUBSET Indices
    BY DEF Under
  <1>3. PICK P \in Int, N \in Int, S \in Int :
           /\ P = Over(NetPre, Under(key)) /\ N = Over(Net, Under(key)) /\ S = Over(DiscountShare, Under(key))
           /\ o * P = N + S
    BY <1>1, <1>2, AmountSums
  <1>4. PICK q \in Int, b \in Int, w \in Int, c \in Nat :
           /\ q = Quantize(P, 100) /\ b = TaxableBase(key) /\ w = Allowance(key) /\ c = Cardinality(Keys)
           /\ Near(100, q, P) /\ Near(d, b, N)
           /\ -(c * d) <= 2 * (d * w - S) /\ 2 * (d * w - S) <= c * d
    <2>1. Quantize(P, 100) \in Int /\ Near(100, Quantize(P, 100), P)
      BY Rounds
    <2>2. TaxableBase(key) = Quantize(N, d)
      BY <1>1, <1>3 DEF TaxableBase
    <2>3. TaxableBase(key) \in Int /\ Near(d, TaxableBase(key), N)
      BY <2>2, Rounds
    <2>4. /\ Allowance(key) \in Int
          /\ -(Cardinality(Keys) * d) <= 2 * (d * Allowance(key) - S)
          /\ 2 * (d * Allowance(key) - S) <= Cardinality(Keys) * d
      BY <1>1, <1>3, AllowanceNear
    <2>5. Cardinality(Keys) \in Nat
      BY KeysFinite, FS_CardinalityType
    <2> QED
      BY <2>1, <2>3, <2>4, <2>5
  <1>5. Near(d, q, o * P)
    <2>1. Near(o * 100, q, o * P)
      BY <1>4, NearFiner
    <2> QED
      BY <1>1, <2>1
  <1>6. PICK dq \in Int, db \in Int, dw \in Int, cd \in Int :
           dq = d * q /\ db = d * b /\ dw = d * w /\ cd = c * d
    <2>1. d * q \in Int /\ d * b \in Int /\ d * w \in Int /\ c * d \in Int
      OBVIOUS
    <2> QED
      BY <2>1
  <1>7. /\ -d <= 2 * (dq - (N + S)) /\ 2 * (dq - (N + S)) <= d
        /\ -d <= 2 * (db - N) /\ 2 * (db - N) <= d
        /\ -cd <= 2 * (dw - S) /\ 2 * (dw - S) <= cd
    BY <1>3, <1>4, <1>5, <1>6 DEF Near
  <1>8. PICK x \in Int, m \in Int : x = (q - w) - b /\ m = c + 2
    <2>1. (q - w) - b \in Int /\ c + 2 \in Int
      OBVIOUS
    <2> QED
      BY <2>1
  <1>9. d * x = (dq - dw) - db /\ d * m = cd + 2 * d
    BY ONLY <1>6, <1>8, d \in Nat \ {0}, q \in Int, w \in Int, b \in Int, c \in Nat
  <1>10. -(d * m) <= 2 * (d * x) /\ 2 * (d * x) <= d * m
    BY ONLY <1>7, <1>9, d \in Nat \ {0}, dq \in Int, dw \in Int, db \in Int, cd \in Int, N \in Int, S \in Int
  <1>11. 2 * Magnitude(x) <= m
    BY <1>10, Magnitudes
  <1> QED
    BY <1>3, <1>4, <1>8, <1>11

-----------------------------------------------------------------------------
(***************************************************************************)
(* The figures of both, in every behaviour of the services together.       *)
(***************************************************************************)

LEMMA FiguresBase == Init => AmountInv /\ MoneyInv
  BY AmountBase, MoneyBase DEF Init

\* The services do not share a variable.
LEMMA FiguresStep ==
    /\ AmountInv /\ MoneyInv
    /\ [Next]_<<service, quoteVars, backupVars, desktopVars, rateVars, expenseVars, templateVars, moneyVars>>
    => AmountInv' /\ MoneyInv'
  <1> SUFFICES ASSUME AmountInv, MoneyInv,
                      [Next]_<<service, quoteVars, backupVars, desktopVars, rateVars, expenseVars,
                               templateVars, moneyVars>>
               PROVE  AmountInv' /\ MoneyInv'
    OBVIOUS
  <1>1. [ExpenseNext]_expenseVars
    BY DEF Next
  <1>2. [MoneyNext]_moneyVars
    BY DEF Next
  <1> QED
    BY <1>1, <1>2, AmountStep, MoneyStep

\* An invoice's headline figures are one another's sum and difference to a
\* cent, its VAT buckets add up to them, the taxable amounts of its e-invoice
\* are what is left of its lines, each to half a cent a part, and the parts of
\* a VAT position are its totals: for any lines, discounts, rates, documents
\* and requests, however they interleave.
THEOREM MoneyAgrees == Spec => []FiguresAgree
  <1>1. AmountInv /\ MoneyInv => FiguresAgree
    BY Headline, Buckets, Taxable, Position DEF FiguresAgree
  <1> QED
    BY <1>1, FiguresBase, FiguresStep, PTL DEF Spec
===============================================================================
